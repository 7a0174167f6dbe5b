---------------------------- MODULE PrivacyProxy ----------------------------
(***************************************************************************)
(* The processes that mask text with one shared vault.  `mode`:            *)
(*   "proxy"        the HTTP proxy (cloakpipe-proxy handlers.rs and        *)
(*                  streaming.rs) in front of a model provider             *)
(*   "server"       the MCP server of privacy tools (cloakpipe-mcp lib.rs) *)
(*   "interceptor"  the PII transform of the MCP gate (proxy.rs)           *)
(*                                                                         *)
(* Requests run concurrently.  The vault's mutex is held (lock) from the   *)
(* first message of a request to the last; the sessions have a lock of     *)
(* their own that is taken three times per message, so that another        *)
(* request, or the session endpoints, may come between.  The provider      *)
(* answers with what it was sent, and perhaps more.                        *)
(*                                                                         *)
(* A request is [kind, stream, session, body]; a body is a sequence of     *)
(* messages [form, text], whose form is "text" when its content is a       *)
(* string.  A "configure" request is [kind, profile, enable, disable].     *)
(***************************************************************************)
EXTENDS Session

CONSTANTS Requests,   \* the requests
          Asks,       \* request -> what it may ask, by mode: a set of records
          Modes,      \* the processes explored
          Ids,        \* session ids
          Extras,     \* what a provider may add to its answer: a set of texts
          Profiles,   \* known profile -> the detection categories it turns on
          Toggles,    \* the detection categories on at start
          MaxFaults   \* bound on failures, restarts, and uses of the session endpoints together

NoSession == "none"
IsText(t) == t \in Seq(ToSet(t))
Categories == {p.toggle : p \in Phrases}
Kinds == [proxy |-> {"chat", "anthropic", "embed"}, server |-> {"mask", "restore", "configure"}, interceptor |-> {"call"}]

\* Texts are sequences, what is detected is never empty and has a prefix, and
\* a process is asked what it serves.  A configure asks for categories that
\* exist: apply_toggles passes over the others.
ASSUME PrivacyAssumption ==
    /\ Base \in 2..Len(DigitGlyph)
    /\ Modes \subseteq DOMAIN Kinds /\ 0 \notin Requests
    /\ {"person", "forced"} \cup {Articles[a] : a \in DOMAIN Articles} \cup {p.category : p \in Phrases} \subseteq DOMAIN PrefixOf
    /\ \A c \in DOMAIN PrefixOf : IsText(PrefixOf[c])
    /\ \A p \in Phrases : IsText(p.words) /\ p.words # NoMatch
    /\ IsText(Forced) /\ \A i \in DOMAIN Forced : IsText(Forced[i]) /\ Forced[i] # NoMatch
    /\ IsFiniteSet(Phrases) /\ IsFiniteSet(Pronouns) /\ IsFiniteSet(DOMAIN Articles)
    /\ Toggles \subseteq Categories /\ \A p \in DOMAIN Profiles : Profiles[p] \subseteq Categories
    /\ \A r \in Requests, m \in Modes : \A a \in Asks[r][m] :
          /\ a.kind \in Kinds[m]
          /\ IsText(a.body) /\ \A k \in DOMAIN a.body : IsText(a.body[k].text)
          /\ a.kind = "mask" => a.body # <<>>
          /\ a.kind = "chat" => a.session \in Ids \cup {NoSession}
          /\ a.kind = "configure" => a.enable \subseteq Categories

VARIABLES mode,
          vault,      \* the vault in memory
          lock,       \* the request that holds the vault's mutex, or Nobody
          sessions,   \* session id -> session
          req,        \* request -> how far it is
          config,     \* the MCP server: [on, building], its DetectionConfig and who holds it
          detector,   \* the categories the detector in use was built with
          reported,   \* the categories the last successful configure reported
          audit,      \* the audit log: <<request, event, entities>>
          given,      \* <<original, token>> pairs put into texts so far
          faults
vars == <<mode, vault, lock, sessions, req, config, detector, reported, audit, given, faults>>

Nobody == 0
Redacted == "[REDACTED]"

Fresh(ask) ==
    [pc |-> "new", ask |-> ask, i |-> 1, entities |-> <<>>, tokens |-> <<>>, sent |-> <<>>,
     reply |-> <<>>, out |-> <<>>, buffer |-> <<>>, echo |-> FALSE, scanned |-> FALSE, blind |-> FALSE, built |-> {}]

Init ==
    /\ mode \in Modes
    /\ vault = EmptyVault
    /\ lock = Nobody
    /\ sessions = Empty
    /\ req \in [Requests -> UNION {{Fresh(a) : a \in Asks[r][mode]} : r \in Requests}]
    /\ \A r \in Requests : req[r].ask \in Asks[r][mode]
    /\ config = [on |-> Toggles, building |-> Nobody]
    /\ detector = Toggles
    /\ reported = Toggles
    /\ audit = {}
    /\ given = {}
    /\ faults = 0

Kind(r) == req[r].ask.kind
At(r, pc) == req[r].pc = pc
Body(r) == req[r].ask.body
Text(r) == Body(r)[req[r].i].text
SessionOf(r) == req[r].ask.session
InSession(r) == Kind(r) = "chat" /\ SessionOf(r) \in DOMAIN sessions
Fails == faults < MaxFaults /\ faults' = faults + 1

\* The tokens put into a text, remembered for the properties.
Given(entities, v) == {<<entities[k].original, v.forward[entities[k].original].token>> : k \in DOMAIN entities}

(***************************************************************************)
(* The proxy.  A chat request opens its session before it waits for the    *)
(* vault.                                                                  *)
(***************************************************************************)
Arrives(r) ==
    /\ At(r, "new")
    /\ Kind(r) \in {"chat", "anthropic", "embed"}
    /\ req' = [req EXCEPT ![r].pc = "wait"]
    /\ sessions' = IF Kind(r) = "chat" /\ SessionOf(r) # NoSession THEN OpenSession(sessions, SessionOf(r)) ELSE sessions
    /\ UNCHANGED <<mode, vault, lock, config, detector, reported, audit, given, faults>>

TakesVault(r) ==
    /\ At(r, "wait")
    /\ lock = Nobody
    /\ lock' = r
    /\ req' = [req EXCEPT ![r].pc = "message"]
    /\ UNCHANGED <<mode, vault, sessions, config, detector, reported, audit, given, faults>>

\* The next message: one whose content is not a string is left as it is.
NextMessage(r) ==
    /\ At(r, "message")
    /\ req[r].i <= Len(Body(r))
    /\ IF Body(r)[req[r].i].form = "text"
       THEN /\ req' = [req EXCEPT ![r].pc = "detect"]
            /\ sessions' = IF InSession(r) THEN [sessions EXCEPT ![SessionOf(r)] = CheckSensitivity(@, Text(r))] ELSE sessions
       ELSE /\ req' = [req EXCEPT ![r].i = @ + 1, ![r].sent = Append(@, Text(r))]
            /\ UNCHANGED sessions
    /\ UNCHANGED <<mode, vault, lock, config, detector, reported, audit, given, faults>>

\* What the session resolves is added where it overlaps nothing found so far;
\* its token is remembered under the place it has in the list then.
AddCoreference(found, c) ==
    IF \E k \in DOMAIN found.entities : c.span.start <= found.entities[k].end /\ c.span.end >= found.entities[k].start
    THEN found
    ELSE [entities |-> Append(found.entities, c.span),
          resolved |-> Put(found.resolved, Len(found.entities) + 1, c.token)]

AddCoreferences(entities, corefs) ==
    FoldLeft(AddCoreference, [entities |-> entities, resolved |-> Empty], corefs)

\* The entities are then sorted; a token is looked up by the place an entity
\* has after sorting.
InOrder_AsFound(entities) == entities
InOrder(entities) ==
    LET all == ToSet(entities) IN Sorted(all, {xy \in all \X all : xy[1].start < xy[2].start})
TokensFor(entities, resolved, v) ==
    [k \in DOMAIN entities |-> IF k \in DOMAIN resolved THEN resolved[k] ELSE v.forward[entities[k].original].token]

\* Detection, coreferences and replacement of one message (or, for
\* embeddings, of one input, which has no session).
Masks(r) ==
    /\ At(r, "detect")
    /\ \E corefs \in (IF InSession(r) THEN ResolveCoreferences(sessions[SessionOf(r)], Text(r)) ELSE {<<>>}) :
        LET found == AddCoreferences(Detect(Text(r), Toggles), corefs)
            entities == InOrder(found.entities)
            done == Pseudonymize(Text(r), entities, vault)
        IN IF entities = <<>>
           THEN /\ req' = [req EXCEPT ![r].pc = "message", ![r].i = @ + 1, ![r].sent = Append(@, Text(r))]
                /\ UNCHANGED <<vault, given>>
           ELSE /\ req' = [req EXCEPT ![r].pc = "record", ![r].entities = entities, ![r].sent = Append(@, done.text),
                                      ![r].tokens = TokensFor(entities, found.resolved, done.vault)]
                /\ vault' = done.vault
                /\ given' = given \cup Given(entities, done.vault)
    /\ UNCHANGED <<mode, lock, sessions, config, detector, reported, audit, faults>>

\* A layer that fails fails the request, with what it masked so far in the vault.
DetectionFails(r) ==
    /\ At(r, "detect")
    /\ Fails
    /\ lock' = Nobody
    /\ req' = [req EXCEPT ![r].pc = "failed"]
    /\ UNCHANGED <<mode, vault, sessions, config, detector, reported, audit, given>>

\* The session may have been flushed meanwhile: then nothing is recorded.
Records(r) ==
    /\ At(r, "record")
    /\ \E s \in (IF InSession(r) THEN RecordEntities(sessions[SessionOf(r)], req[r].entities, req[r].tokens) ELSE {NewSession}) :
        sessions' = IF InSession(r) THEN [sessions EXCEPT ![SessionOf(r)] = s] ELSE sessions
    /\ audit' = audit \cup {<<r, "pseudonymize", Len(req[r].entities)>>}
    /\ req' = [req EXCEPT ![r].pc = "message", ![r].i = @ + 1, ![r].entities = <<>>, ![r].tokens = <<>>]
    /\ UNCHANGED <<mode, vault, lock, config, detector, reported, given, faults>>

ReleasesVault(r) ==
    /\ At(r, "message")
    /\ req[r].i > Len(Body(r))
    /\ lock' = Nobody
    /\ req' = [req EXCEPT ![r].pc = "send"]
    /\ UNCHANGED <<mode, vault, sessions, config, detector, reported, audit, given, faults>>

(***************************************************************************)
(* The provider's answer.  An error, and the answer to an embeddings       *)
(* request, go to the client as they are.                                  *)
(***************************************************************************)
AfterReply(r) ==
    CASE Kind(r) = "embed" -> "done"
      [] Kind(r) \in {"chat", "anthropic"} /\ req[r].ask.stream -> "stream"
      [] Kind(r) = "chat" /\ ~req[r].ask.stream -> "scan"
      [] OTHER -> "rehydrate"

Replies(r) ==
    /\ At(r, "send")
    /\ \E extra \in {<<>>} \cup Extras :
        LET text == FlattenSeq(req[r].sent) \o extra
        IN req' = [req EXCEPT ![r].pc = AfterReply(r), ![r].reply = text, ![r].echo = (extra = <<>>),
                              ![r].out = IF Kind(r) = "embed" THEN text ELSE <<>>]
    /\ UNCHANGED <<mode, vault, lock, sessions, config, detector, reported, audit, given, faults>>

ProviderFails(r) ==
    /\ At(r, "send")
    /\ Fails
    /\ req' = [req EXCEPT ![r].pc = "failed"]
    /\ UNCHANGED <<mode, vault, lock, sessions, config, detector, reported, audit, given>>

\* Entities of the answer the vault does not know are cut out, the last ones
\* first; a failing detector leaves the answer as it is.
RedactFrom_AfterStart(text, spans) ==
    LET hidden(i) == \E k \in DOMAIN spans : spans[k].start < i /\ i <= spans[k].end
    IN FlattenSeq([i \in DOMAIN text |-> IF hidden(i) THEN <<Redacted>> ELSE <<text[i]>>])
RedactFrom(text, spans) ==
    LET hidden(i) == \E k \in DOMAIN spans : spans[k].start < i /\ i <= spans[k].end
        starts == {spans[k].start : k \in DOMAIN spans}
    IN FlattenSeq([i \in DOMAIN text |-> IF i \in starts THEN <<Redacted>> ELSE IF hidden(i) THEN <<>> ELSE <<text[i]>>])

Scans(r) ==
    /\ At(r, "scan")
    /\ lock = Nobody
    /\ \/ /\ req' = [req EXCEPT ![r].pc = "rehydrate", ![r].scanned = TRUE,
                        ![r].reply = RedactFrom(@, SelectSeq(Detect(@, Toggles), LAMBDA e : ~ContainsOriginal(vault, e.original)))]
          /\ UNCHANGED faults
       \/ /\ Fails
          /\ req' = [req EXCEPT ![r].pc = "rehydrate"]
    /\ UNCHANGED <<mode, vault, lock, sessions, config, detector, reported, audit, given>>

Rehydrates(r) ==
    /\ At(r, "rehydrate")
    /\ lock = Nobody
    /\ req' = [req EXCEPT ![r].pc = "done", ![r].out = Rehydrate(req[r].reply, vault)]
    /\ audit' = audit \cup {<<r, "rehydrate", RehydratedCount(req[r].reply, vault)>>}
    /\ UNCHANGED <<mode, vault, lock, sessions, config, detector, reported, given, faults>>

\* A stream: the provider cuts its answer into chunks of any size; what is
\* still held when it ends is rehydrated as a whole.
Streams(r) ==
    /\ At(r, "stream")
    /\ lock = Nobody
    /\ req[r].reply # <<>>
    /\ \E n \in 1..Len(req[r].reply) :
        LET chunk == RehydrateChunk(SubSeq(req[r].reply, 1, n), req[r].buffer, vault)
        IN req' = [req EXCEPT ![r].reply = SubSeq(@, n + 1, Len(@)), ![r].out = @ \o chunk.text, ![r].buffer = chunk.buffer]
    /\ UNCHANGED <<mode, vault, lock, sessions, config, detector, reported, audit, given, faults>>

StreamEnds(r) ==
    /\ At(r, "stream")
    /\ lock = Nobody
    /\ req[r].reply = <<>>
    /\ req' = [req EXCEPT ![r].pc = "done", ![r].out = @ \o Rehydrate(req[r].buffer, vault), ![r].buffer = <<>>]
    /\ UNCHANGED <<mode, vault, lock, sessions, config, detector, reported, audit, given, faults>>

(***************************************************************************)
(* The session endpoints and the time to live.                             *)
(***************************************************************************)
Flushes(id) ==
    /\ mode = "proxy"
    /\ id \in DOMAIN sessions
    /\ Fails
    /\ sessions' \in {FlushSession(sessions, id), Empty}
    /\ UNCHANGED <<mode, vault, lock, req, config, detector, reported, audit, given>>

GoesStale(id) ==
    /\ id \in DOMAIN sessions
    /\ ~sessions[id].stale
    /\ Fails
    /\ sessions' = [sessions EXCEPT ![id].stale = TRUE]
    /\ UNCHANGED <<mode, vault, lock, req, config, detector, reported, audit, given>>

(***************************************************************************)
(* The MCP server's tools.  pseudonymize keeps reading the detector until  *)
(* it ends; configure holds the configuration while it builds the new      *)
(* detector and waits for the readers of the old one.                      *)
(***************************************************************************)
Readers == {r \in Requests : Kind(r) = "mask" /\ req[r].pc \in {"replace", "hop"}}

ToolDetects(r) ==
    /\ At(r, "new") /\ Kind(r) = "mask"
    /\ \/ /\ req' = [req EXCEPT ![r].pc = "replace", ![r].entities = Detect(Body(r)[1].text, detector)]
          /\ UNCHANGED faults
       \/ Fails /\ req' = [req EXCEPT ![r].pc = "failed"]
    /\ UNCHANGED <<mode, vault, lock, sessions, config, detector, reported, audit, given>>

ToolReplaces(r) ==
    /\ At(r, "replace")
    /\ LET done == Pseudonymize(Body(r)[1].text, req[r].entities, vault)
       IN /\ req' = [req EXCEPT ![r].pc = IF req[r].entities = <<>> THEN "done" ELSE "hop", ![r].sent = <<done.text>>]
          /\ vault' = done.vault
          /\ given' = given \cup Given(req[r].entities, done.vault)
    /\ UNCHANGED <<mode, lock, sessions, config, detector, reported, audit, faults>>

\* record_mcp_hop: best effort; the answer is given either way.
ToolRecords(r) ==
    /\ At(r, "hop")
    /\ req' = [req EXCEPT ![r].pc = "done"]
    /\ \/ audit' = audit \cup {<<r, "hop", Len(req[r].entities)>>} /\ UNCHANGED faults
       \/ Fails /\ UNCHANGED audit
    /\ UNCHANGED <<mode, vault, lock, sessions, config, detector, reported, given>>

ToolRestores(r) ==
    /\ At(r, "new") /\ Kind(r) = "restore"
    /\ req' = [req EXCEPT ![r].pc = "done", ![r].out = Rehydrate(Body(r)[1].text, vault)]
    /\ UNCHANGED <<mode, vault, lock, sessions, config, detector, reported, audit, given, faults>>

\* An unknown profile is refused before anything changes.  A detector that
\* cannot be built leaves the configuration changed and the old detector in use.
ApplyConfig(r) ==
    LET a == req[r].ask
        on == ((IF a.profile = "" THEN config.on ELSE Profiles[a.profile]) \cup a.enable) \ a.disable
    IN /\ At(r, "new") /\ Kind(r) = "configure"
       /\ \/ /\ a.profile # "" /\ a.profile \notin DOMAIN Profiles
             /\ req' = [req EXCEPT ![r].pc = "failed"]
             /\ UNCHANGED <<config, faults>>
          \/ /\ a.profile = "" \/ a.profile \in DOMAIN Profiles
             /\ \/ /\ config' = [on |-> on, building |-> r]
                   /\ req' = [req EXCEPT ![r].pc = "swap", ![r].built = on]
                   /\ UNCHANGED faults
                \/ /\ Fails
                   /\ config' = [config EXCEPT !.on = on]
                   /\ req' = [req EXCEPT ![r].pc = "failed"]
       /\ UNCHANGED <<mode, vault, lock, sessions, detector, reported, audit, given>>
Configures_Unlocked(r) == ApplyConfig(r)
Configures(r) == config.building = Nobody /\ ApplyConfig(r)

Swaps(r) ==
    /\ At(r, "swap")
    /\ Readers = {}
    /\ detector' = req[r].built
    /\ reported' = config.on
    /\ config' = [config EXCEPT !.building = Nobody]
    /\ req' = [req EXCEPT ![r].pc = "done"]
    /\ UNCHANGED <<mode, vault, lock, sessions, audit, given, faults>>

(***************************************************************************)
(* The gate's PII transform: every string of a call's arguments is masked  *)
(* under the vault's lock; where detection fails the string is forwarded   *)
(* as it is.  The strings of the result are rehydrated.                    *)
(***************************************************************************)
MaskString(s, m) ==
    LET entities == Detect(m.text, Toggles)
        done == Pseudonymize(m.text, entities, s.vault)
    IN [vault |-> done.vault, sent |-> Append(s.sent, done.text), count |-> s.count + Len(entities),
        given |-> s.given \cup Given(entities, done.vault)]
MaskStrings(s, body) == FoldLeft(MaskString, s, body)

MasksCall(r) ==
    /\ At(r, "new") /\ Kind(r) = "call"
    /\ LET done == MaskStrings([vault |-> vault, sent |-> <<>>, count |-> 0, given |-> given], Body(r))
       IN \/ /\ vault' = done.vault
             /\ given' = done.given
             /\ audit' = IF done.count > 0 THEN audit \cup {<<r, "hop", done.count>>} ELSE audit
             /\ req' = [req EXCEPT ![r].pc = "send", ![r].sent = done.sent]
             /\ UNCHANGED faults
          \/ /\ Fails
             /\ req' = [req EXCEPT ![r].pc = "send", ![r].sent = [k \in DOMAIN Body(r) |-> Body(r)[k].text], ![r].blind = TRUE]
             /\ UNCHANGED <<vault, audit, given>>
    /\ UNCHANGED <<mode, lock, sessions, config, detector, reported>>

(***************************************************************************)
(* A restart: no process ever saves the vault, so that the file it opens   *)
(* again does not exist.                                                   *)
(***************************************************************************)
Restarts ==
    /\ Fails
    /\ vault' \in Opened(NoFile, "key")
    /\ lock' = Nobody
    /\ sessions' = Empty
    /\ req' = [r \in Requests |-> IF req[r].pc \in {"new", "done", "failed"} THEN req[r] ELSE [req[r] EXCEPT !.pc = "failed"]]
    /\ config' = [on |-> Toggles, building |-> Nobody]
    /\ detector' = Toggles
    /\ reported' = Toggles
    /\ UNCHANGED <<mode, audit, given>>

RequestStep(r) ==
    \/ Arrives(r) \/ TakesVault(r) \/ NextMessage(r) \/ Masks(r) \/ DetectionFails(r) \/ Records(r) \/ ReleasesVault(r)
    \/ Replies(r) \/ ProviderFails(r) \/ Scans(r) \/ Rehydrates(r) \/ Streams(r) \/ StreamEnds(r)
    \/ ToolDetects(r) \/ ToolReplaces(r) \/ ToolRecords(r) \/ ToolRestores(r) \/ Configures(r) \/ Swaps(r)
    \/ MasksCall(r)
Next ==
    \/ \E r \in Requests : RequestStep(r)
    \/ \E id \in Ids : Flushes(id) \/ GoesStale(id)
    \/ Restarts
Spec == Init /\ [][Next]_vars

(***************************************************************************)
(* Properties.                                                             *)
(***************************************************************************)
\* Requests, vault, sessions and detector are well formed: the vault's two
\* maps name the same tokens, and only a request that is masking holds its lock.
TypeOK ==
    /\ {vault.forward[o].token : o \in DOMAIN vault.forward} = DOMAIN vault.reverse
    /\ lock \in {Nobody} \cup {r \in Requests : req[r].pc \in {"message", "detect", "record"}}
    /\ DOMAIN sessions \subseteq Ids
    /\ \A r \in Requests : Len(req[r].tokens) = Len(req[r].entities) \/ mode = "server"
    /\ detector \subseteq Categories /\ config.building \in {Nobody} \cup Requests

MaskedPart(r) == {k \in DOMAIN req[r].sent : Body(r)[k].form = "text"}

\* An entity a detection layer reports in a message of the client never
\* reaches the provider or the tool as it was, whatever the session adds to
\* the entities of that message (pseudonymize_messages, Replacer::pseudonymize,
\* mask_value) - unless the gate's own detection failed.
NothingDetectedIsSent ==
    mode # "server" =>
        \A r \in Requests : ~req[r].blind =>
            \A k \in MaskedPart(r) :
                \A e \in ToSet(Detect(Body(r)[k].text, Toggles)) :
                    e.category # "forced" => Occurrences(req[r].sent[k], e.original) = {}

Original(r) == FlattenSeq([k \in DOMAIN Body(r) |-> Body(r)[k].text])

\* A client whose answer repeats what the provider was sent reads its own
\* words again, streamed in chunks of any size or not, while other requests
\* add to the vault (rehydrate, rehydrate_chunk).
RoundTrip ==
    \A r \in Requests :
        (/\ At(r, "done") /\ Kind(r) \in {"chat", "anthropic", "call"} /\ req[r].echo
         /\ \A k \in DOMAIN Body(r) : Body(r)[k].form = "text") => req[r].out = Original(r)

\* Within one process, a token stands for one original and an original for
\* one token, and no number is given twice (Vault::get_or_create).
TokensAreOneToOne ==
    /\ \A o, p \in DOMAIN vault.forward : vault.forward[o].token = vault.forward[p].token => o = p
    /\ \A o \in DOMAIN vault.forward : vault.reverse[vault.forward[o].token] = o

\* The answer of a scanned request shows no entity the vault has not seen: what
\* the provider made up or leaked is cut out, also when another request adds to
\* the vault between the scan and the rehydration (proxy_chat_completions).
LeaksAreCut ==
    \A r \in Requests : (req[r].scanned /\ At(r, "done")) =>
        \A e \in ToSet(Detect(req[r].out, Toggles)) :
            ContainsOriginal(vault, e.original) \/ \E g \in given : g[1] = e.original

\* What the last successful configure reported is what the detector does, also
\* while another configure is building or has failed (CloakPipeServer::configure).
DetectorAsReported == detector = reported

\* A session refers only to tokens of the vault it is used with, for entities
\* of its own messages: flushing, expiry and restarts included (record_entities).
SessionsNameTokens ==
    \A id \in DOMAIN sessions :
        /\ \A o \in DOMAIN sessions[id].entities :
            /\ sessions[id].entities[o].token \in DOMAIN vault.reverse
            /\ sessions[id].entities[o].last <= sessions[id].count
        /\ \A c \in DOMAIN sessions[id].corefs :
            \E o \in DOMAIN sessions[id].entities : sessions[id].entities[o].token = sessions[id].corefs[c]

\* Vault, sessions and detector stay consistent with each other while requests,
\* flushes, restarts and reconfigurations interleave: tokens one to one, every
\* session token in the vault, the detector as last reported
\* (Vault::get_or_create, record_entities, configure).
PrivacyInv == TypeOK /\ TokensAreOneToOne /\ SessionsNameTokens /\ DetectorAsReported
===============================================================================
