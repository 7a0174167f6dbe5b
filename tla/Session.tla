------------------------------- MODULE Session -------------------------------
(***************************************************************************)
(* The context of one conversation (cloakpipe-core session.rs): the        *)
(* entities its messages named, and the pronouns, definite articles,       *)
(* abbreviations and possessives that may refer to them.                   *)
(*                                                                         *)
(* A session is [entities, count, sensitivity, keywords, corefs, stale]:   *)
(* entities maps an original to [token, category, first, last, related].   *)
(* `stale` says that more than the session's time to live has passed since *)
(* its last activity.  Where the code takes the first of equals in the     *)
(* iteration order of a hash map, any of them may be taken.                *)
(***************************************************************************)
EXTENDS Masking

CONSTANTS Pronouns,     \* the glyphs of PERSON_PRONOUNS
          Articles,     \* definite article (a glyph) -> the category it refers to
          Keywords,     \* DECISION_KEYWORDS
          Initials,     \* original of several words -> its abbreviation (a glyph)
          FirstName,    \* a person's original -> the glyph of the first name
          Coreference,  \* config.coreference
          Escalation    \* config.sensitivity_escalation

RecentMessages == 3
NewSession ==
    [entities |-> Empty, count |-> 0, sensitivity |-> "normal", keywords |-> {}, corefs |-> Empty, stale |-> FALSE]

(***************************************************************************)
(* check_sensitivity: two decision keywords in one message escalate.       *)
(***************************************************************************)
CheckSensitivity(s, text) ==
    LET found == Keywords \cap ToSet(text)
    IN IF Escalation /\ s.sensitivity # "elevated" /\ Cardinality(found) >= 2
       THEN [s EXCEPT !.sensitivity = "elevated", !.keywords = found] ELSE s

OfCategory(s, category) == {o \in DOMAIN s.entities : s.entities[o].category = category}
MostRecent(s, category) ==
    {o \in OfCategory(s, category) : \A p \in OfCategory(s, category) : s.entities[p].last <= s.entities[o].last}
RecentEntities(s, category) ==
    LET cutoff == IF s.count > RecentMessages THEN s.count - RecentMessages ELSE 0
    IN {o \in OfCategory(s, category) : s.entities[o].last >= cutoff}

Abbreviated(s) == {o \in DOMAIN s.entities : s.entities[o].category \in {"person", "org"} /\ o \in DOMAIN Initials}

\* A choice of the most recent entity of each category that has one.
Latest(s) ==
    LET cats == {s.entities[o].category : o \in DOMAIN s.entities}
    IN {f \in [cats -> DOMAIN s.entities] : \A c \in cats : f[c] \in MostRecent(s, c)}

(***************************************************************************)
(* record_entities, with update_coreferences: the entities of one message  *)
(* and the tokens given for them, position by position.                    *)
(***************************************************************************)
RecordEntity(s, e, token, tokens) ==
    LET known == e.original \in DOMAIN s.entities
        related == (IF known THEN s.entities[e.original].related ELSE {}) \cup (tokens \ {token})
    IN [s EXCEPT !.entities = Put(@, e.original,
            [token |-> IF known THEN @[e.original].token ELSE token,
             category |-> IF known THEN @[e.original].category ELSE e.category,
             first |-> IF known THEN @[e.original].first ELSE s.count, last |-> s.count, related |-> related])]

\* The coreference maps a session may end up with, rebuilt from nothing.
UpdateCoreferences(s) ==
    LET persons == RecentEntities(s, "person")
        pronouns == IF Cardinality(persons) = 1 THEN Pronouns ELSE {}
        articles(pick) == {a \in DOMAIN Articles : Articles[a] \in DOMAIN pick}
        initials == {Initials[o] : o \in Abbreviated(s)}
        meant(c, pick) ==
            IF c \in pronouns THEN CHOOSE o \in persons : TRUE
            ELSE IF c \in articles(pick) THEN pick[Articles[c]]
            ELSE CHOOSE o \in Abbreviated(s) : Initials[o] = c
    IN {[c \in pronouns \cup articles(pick) \cup initials |-> s.entities[meant(c, pick)].token] : pick \in Latest(s)}

RecordEntities(s, entities, tokens) ==
    LET counted == [s EXCEPT !.count = @ + 1, !.stale = FALSE]
        all == ToSet(tokens)
        upTo[i \in 0..Len(entities)] ==
            IF i = 0 THEN counted ELSE RecordEntity(upTo[i - 1], entities[i], tokens[i], all)
        recorded == upTo[Len(entities)]
    IN IF Coreference THEN {[recorded EXCEPT !.corefs = c] : c \in UpdateCoreferences(recorded)} ELSE {recorded}

(***************************************************************************)
(* resolve_coreferences: what in a text refers to an entity of the session *)
(* - the first occurrence of each pronoun (when one person is recent), of  *)
(* each article, abbreviation and possessive.                              *)
(***************************************************************************)
CandidateAt(text, words, category, confidence, token) ==
    [span |-> SpanAt(words, FirstOccurrence(text, words), category, confidence), token |-> token]
Occurs(text, words) == Occurrences(text, words) # {}

Candidates(s, text, pick) ==
    {CandidateAt(text, <<p>>, "person", 70, s.entities[pick["person"]].token) :
        p \in {q \in Pronouns : Occurs(text, <<q>>) /\ Cardinality(RecentEntities(s, "person")) = 1}}
    \cup {CandidateAt(text, <<a>>, Articles[a], 60, s.entities[pick[Articles[a]]].token) :
        a \in {x \in DOMAIN Articles : Occurs(text, <<x>>) /\ Articles[x] \in DOMAIN pick}}
    \cup {CandidateAt(text, <<Initials[o]>>, s.entities[o].category, 65, s.entities[o].token) :
        o \in {x \in Abbreviated(s) : Occurs(text, <<Initials[x]>>)}}
    \cup {CandidateAt(text, <<FirstName[o], "'s">>, "person", 75, s.entities[o].token) :
        o \in {x \in OfCategory(s, "person") : x \in DOMAIN FirstName /\ Occurs(text, <<FirstName[x], "'s">>)}}

\* Of the candidates that start at one place the code keeps the least
\* confident (dedup_by swaps the more confident one away).
Surviving(cands, at) ==
    LET here == {c \in cands : c.span.start = at}
    IN {c \in here : \A d \in here : c.span.confidence <= d.span.confidence}

ResolveCoreferences(s, text) ==
    IF ~Coreference \/ DOMAIN s.entities = {} THEN {<<>>}
    ELSE UNION {LET cands == Candidates(s, text, pick)
                    places == {c.span.start : c \in cands}
                    starts == Sorted(places, {ij \in places \X places : ij[1] < ij[2]})
                IN {f \in [DOMAIN starts -> cands] : \A i \in DOMAIN starts : f[i] \in Surviving(cands, starts[i])} :
                pick \in Latest(s)}

(***************************************************************************)
(* SessionManager: the sessions of all conversations, by id.               *)
(***************************************************************************)
OpenSession(sessions, id) ==
    IF id \in DOMAIN sessions /\ ~sessions[id].stale THEN sessions ELSE Put(sessions, id, NewSession)
Without(f, k) == [x \in DOMAIN f \ {k} |-> f[x]]
FlushSession(sessions, id) == Without(sessions, id)
===============================================================================
