----------------------------- MODULE ToolCatalog -----------------------------
(***************************************************************************)
(* Which server serves which tool and which tools drifted (catalog.rs),    *)
(* the servers as they were listed at start-up (servers.rs), the tools     *)
(* lock (tools_lock.rs) and the commands that write and compare locks      *)
(* (cloakpipe-cli tools.rs).                                               *)
(*                                                                         *)
(* A tool's name is a sequence: <<"t">> is t, <<"a", "t">> is a__t.  A     *)
(* tool is [name, def]; its hash covers its definition (tool_hash).  A     *)
(* listing is a sequence of [name, tools], one server each.  A lock pins   *)
(* servers -> (tool names -> definitions); NoLock is a gate without one.   *)
(***************************************************************************)
EXTENDS Naturals, FiniteSets, SequencesExt, Functions, Checks

NoLock == [given |-> FALSE]
Lock(pins) == [given |-> TRUE, pins |-> pins]
Empty == [k \in {} |-> k]
\* insert, and entry().or_insert, of a map.
Insert(f, k, v) == [x \in DOMAIN f \cup {k} |-> IF x = k THEN v ELSE f[x]]
OrInsert(f, k, v) == IF k \in DOMAIN f THEN f ELSE Insert(f, k, v)
ToolHash(tool) == tool.def

NameOf(server) == server.name
ListedNames(tools) == {tools[i].name : i \in DOMAIN tools}
Namespaced(server, tool) == <<server>> \o tool

\* check_server_name: what kind of string a name is.
CheckServerName(kind) ==
    FirstFailure(<< <<kind = "empty", "empty">>, <<kind = "symbols", "characters">>, <<kind = "separator", "separator">> >>)

\* upstreams: the flags, `default` first; each spec [name, kind, command] with
\* command "words", "blank" or "unparsable".
CommandWords(command) == FirstFailure(<< <<command = "unparsable", "usage">>, <<command = "blank", "usage">> >>)
UpstreamFlags(specs) ==
    LET perSpec(i) == << <<CheckServerName(specs[i].kind) # "ok", "usage">>,
                         <<\E j \in 1..(i - 1) : specs[j].name = specs[i].name, "usage">>,
                         <<CommandWords(specs[i].command) # "ok", "usage">> >>
    IN  FirstFailure(FlattenSeq([i \in DOMAIN specs |-> perSpec(i)]) \o << <<specs = <<>>, "usage">> >>)

(***************************************************************************)
(* Listing a server at start-up: `pages` is what it answers to tools/list, *)
(* page after page, each [ok, tools, next] with next = "" on the last.     *)
(***************************************************************************)
CONSTANT MaxPages      \* MAX_PAGES
ASSUME MaxPagesAssumption == MaxPages \in Nat \ {0}

\* The page after which discover stops: the last, one that repeats the cursor it
\* was asked with, or a refused (or unanswered) one.
Stops(pages, i) == ~pages[i].ok \/ pages[i].next = "" \/ (i > 1 /\ pages[i].next = pages[i - 1].next)
LastPage(pages) == CHOOSE i \in DOMAIN pages : Stops(pages, i) /\ \A j \in 1..(i - 1) : ~Stops(pages, j)
Discover(pages) ==
    IF \/ ~\E i \in DOMAIN pages : i <= MaxPages /\ Stops(pages, i)
       \/ ~pages[LastPage(pages)].ok
    THEN [ok |-> FALSE, tools |-> <<>>]
    ELSE [ok |-> TRUE, tools |-> FlattenSeq([i \in 1..LastPage(pages) |-> pages[i].tools])]

(***************************************************************************)
(* The tools lock.                                                         *)
(***************************************************************************)
\* The last definition listed under a name is the one pinned.
FromServers(listing) ==
    [s \in {listing[i].name : i \in DOMAIN listing} |->
        LET tools == listing[CHOOSE i \in DOMAIN listing : listing[i].name = s].tools
        IN  [t \in ListedNames(tools) |->
                ToolHash(tools[CHOOSE i \in DOMAIN tools : tools[i].name = t /\ \A j \in DOMAIN tools : j > i => tools[j].name # t])]]

HashOf(lock, server, tool) ==
    IF server \in DOMAIN lock.pins /\ tool \in DOMAIN lock.pins[server] THEN {lock.pins[server][tool]} ELSE {}

\* parse: a lock file [schema, servers, digest]; the digest is of the pins themselves.
ParseLock(file) ==
    FirstFailure(<< <<file.schema # "cloakpipe.tools-lock/v1", "schema">>, <<file.servers = "malformed", "syntax">>,
                    <<file.digest # file.servers, "digest">> >>)

PinsOf(lock, server) == IF server \in DOMAIN lock.pins THEN lock.pins[server] ELSE Empty
DiffLocks(older, newer) ==
    UNION {{[server |-> s, tool |-> t,
             kind |-> CASE t \notin DOMAIN PinsOf(older, s) -> "added"
                        [] t \notin DOMAIN PinsOf(newer, s) -> "removed"
                        [] OTHER -> "changed"] :
            t \in {t \in DOMAIN PinsOf(older, s) \cup DOMAIN PinsOf(newer, s) : HashOf(older, s, t) # HashOf(newer, s, t)}} :
           s \in DOMAIN older.pins \cup DOMAIN newer.pins}

(***************************************************************************)
(* The catalog: first-seen definitions, blocked tools, the agent's names   *)
(* and the names served per server.                                        *)
(***************************************************************************)
OwnersOf(listing, tool) == {i \in DOMAIN listing : tool \in ListedNames(listing[i].tools)}
Shared(listing) ==
    {t \in UNION {ListedNames(listing[i].tools) : i \in DOMAIN listing} : Cardinality(OwnersOf(listing, t)) > 1}
\* collisions: the shared names the manifest declares for some server, and the rest.
ServedPerServer(listing, declared) ==
    {t \in Shared(listing) : \E i \in OwnersOf(listing, t) : Namespaced(listing[i].name, t) \in declared}
Collisions(listing, declared) == Shared(listing) \ ServedPerServer(listing, declared)

AgentName(cat, server, tool) == IF tool \in cat.namespaced THEN Namespaced(server, tool) ELSE tool

EmptyCatalog(lock, namespaced) ==
    [routed |-> TRUE, lock |-> lock, namespaced |-> namespaced, baseline |-> Empty, blocked |-> {}, exposed |-> Empty]

\* passthrough: one upstream, whose names the agent uses as they are.
Passthrough == [EmptyCatalog(NoLock, {}) EXCEPT !.routed = FALSE]

\* Mutant: each listing becomes the baseline of the next.
ObserveTool_LastSeen(acc, server, tool) ==
    LET key == <<server, tool.name>>
    IN  [acc EXCEPT !.cat.exposed = OrInsert(@, tool.name, key), !.cat.baseline = Insert(@, key, ToolHash(tool)),
                    !.visible = Append(@, tool)]

\* One tool of a listing; `acc` also collects what the agent may see, what drifted now
\* and the names another server serves.
ObserveTool(acc, server, tool) ==
    LET cat == acc.cat
        name == AgentName(cat, server, tool.name)
        key == <<server, tool.name>>
        clash == cat.routed /\ name \in DOMAIN cat.exposed /\ cat.exposed[name][1] # server
        exposing == IF cat.routed THEN [cat EXCEPT !.exposed = OrInsert(@, name, key)] ELSE cat
        drifted == IF cat.lock.given THEN HashOf(cat.lock, server, tool.name) # {ToolHash(tool)}
                   ELSE key \in DOMAIN cat.baseline /\ cat.baseline[key] # ToolHash(tool)
        recorded == IF cat.lock.given THEN exposing ELSE [exposing EXCEPT !.baseline = OrInsert(@, key, ToolHash(tool))]
    IN  CASE clash -> [acc EXCEPT !.clashes = @ \cup {name}]
          [] ~clash /\ key \in cat.blocked -> [acc EXCEPT !.cat = exposing]
          [] ~clash /\ key \notin cat.blocked /\ drifted ->
                [acc EXCEPT !.cat = [exposing EXCEPT !.blocked = @ \cup {key}], !.drifts = @ \cup {name}]
          [] OTHER -> [acc EXCEPT !.cat = recorded, !.visible = Append(@, [name |-> name, def |-> tool.def])]

NothingSeen(cat) == [cat |-> cat, visible |-> <<>>, drifts |-> {}, clashes |-> {}]
Observe(cat, server, tools) ==
    LET upTo[i \in 0..Len(tools)] ==
            IF i = 0 THEN NothingSeen(cat)
            ELSE ObserveTool(upTo[i - 1], server, tools[i])
    IN  upTo[Len(tools)]

\* Catalog::routed: the start-up listings observed in order, or why the gate does not start.
ObserveServer(acc, server) ==
    LET seen == Observe(acc.cat, server.name, server.tools)
    IN  [seen EXCEPT !.drifts = @ \cup acc.drifts, !.clashes = @ \cup acc.clashes]
ObserveServers(cat, listing) ==
    LET upTo[i \in 0..Len(listing)] ==
            IF i = 0 THEN NothingSeen(cat)
            ELSE ObserveServer(upTo[i - 1], listing[i])
    IN  upTo[Len(listing)]
Start(listing, lock, declared) ==
    LET seen == ObserveServers(EmptyCatalog(lock, ServedPerServer(listing, declared)), listing)
        verdict == FirstFailure(<<
            <<listing = <<>>, "no_server">>,
            <<Cardinality({listing[i].name : i \in DOMAIN listing}) # Len(listing), "given_twice">>,
            <<Collisions(listing, declared) # {}, "collision">>,
            <<seen.clashes # {}, "collision">> >>)
    IN  [ok |-> verdict = "ok", why |-> verdict, cat |-> seen.cat, drifts |-> seen.drifts]

\* pin: what `tools pin` writes, given the manifest's tools (or none).
Pin(listing, manifest, declared) ==
    IF manifest /\ Collisions(listing, declared) # {} THEN NoLock ELSE Lock(FromServers(listing))

\* Where a call goes, and why it may not.
RouteOf(cat, tool) == IF tool \in DOMAIN cat.exposed THEN {cat.exposed[tool]} ELSE {}
Refuse(cat, only, tool) ==
    LET served == IF cat.routed THEN RouteOf(cat, tool) ELSE {<<only, tool>>}
    IN  CASE served = {} -> "tool_unavailable"
          [] served # {} /\ served \subseteq cat.blocked -> "tool_drift"
          [] OTHER -> "ok"
===============================================================================
