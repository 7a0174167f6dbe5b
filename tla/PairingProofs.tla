--------------------------- MODULE PairingProofs ---------------------------
(***************************************************************************)
(* Proof that IdsStayPaired holds of every run of McpTransport: answers    *)
(* and cancellations reach their own.  A request is renumbered by the      *)
(* listener and again by the router; PairBooks, inductive beside           *)
(* TransportBooks and NameBooks of TransportProofs, says what each number  *)
(* stands for wherever it is carried.                                      *)
(*   Mine        an answer on its way, or a request the router awaits an   *)
(*               answer to, bears the number its own agent gave it;        *)
(*   PairsOK     whatever bears one number of the router comes from one    *)
(*               agent message;                                            *)
(*   CancelsPaired  a cancellation names a request of its own session;     *)
(*   OnceOK      on stdio, where nobody waits for one answer only: the     *)
(*               answer to a request is in one place.                      *)
(* What the router's operators give out comes first, then what a step      *)
(* leaves alone, then each action.                                         *)
(***************************************************************************)
EXTENDS TransportProofs

AgentId(p) == IF mode = "stdio" THEN p ELSE post[p].n
Mine(id, o) == id # NoId => o \in Posts /\ id = AgentId(o)
Arrived(p) == p \in Posts /\ post[p].phase # "new"
NamesOwn(ref, p) == ref # NoId /\ Arrived(p) /\ \E q \in Posts : post[q].n = ref /\ post[q].session = post[p].session

AnswerPaired(t, a) == a.to = "agent" => Mine(a.msg.id, a.msg.origin) /\ (a.direct => t \in Posts /\ a.msg.origin = t)
FinPaired(t, f) == f.agent # NoAgent => Mine(f.agent.id, f.agent.origin) /\ (f.direct => t \in Posts /\ f.agent.origin = t)
WorkPaired(t, x) ==
    /\ \A i \in DOMAIN x.fin : FinPaired(t, x.fin[i])
    /\ \A i \in DOMAIN x.todo : AnswerPaired(t, x.todo[i])
ThreadPaired(t) == WorkPaired(t, thread[t])
ReplyOf(r, p) == r # None => r.origin = p
Deciding(x, p) ==
    x.phase \in {"decide", "dispatch"} =>
        /\ Mine(x.msg.id, p)
        /\ ~IsRequest(x.msg.method) => x.msg.id = NoId
        /\ x.msg.method = "cancelled" /\ mode # "stdio" => NamesOwn(x.msg.ref, p)
PostPaired(p) ==
    /\ ReplyOf(post[p].direct, p) /\ ReplyOf(post[p].reply, p) /\ Deciding(post[p], p)
    /\ mode # "stdio" /\ seen.answers[p] # <<>> => post[p].phase = "done"
    /\ mode = "stdio" => post[p].phase # "wait"
NewUnnumbered == \A p \in Posts : post[p].phase = "new" => post[p].n = NoId
WaitersPaired == \A k \in DOMAIN hub.waiters : hub.waiters[k] \in Posts /\ post[hub.waiters[k]].n = k
RouterPaired(r) ==
    /\ \A n \in DOMAIN r.waiting : r.waiting[n].kind = "agent" => r.waiting[n].id # NoId /\ Mine(r.waiting[n].id, r.waiting[n].origin)
    /\ \A j \in DOMAIN r.jobs : r.jobs[j].agent # NoAgent => Mine(r.jobs[j].agent.id, r.jobs[j].agent.origin)

\* What bears a number of the router, and the agent message it comes from.
HeldBy(x) == {x.todo[i].msg : i \in {j \in DOMAIN x.todo : x.todo[j].to # "agent"}}
Held == UNION {HeldBy(thread[t]) : t \in Threads}
Boxed == UNION {srv[s].inbox : s \in ServerSet}
Lined == UNION {{srv[s].out[i] : i \in DOMAIN srv[s].out} : s \in ServerSet}
Sent == {c[4] : c \in seen.sent}
Pairs == {<<n, st.waiting[n].origin>> : n \in DOMAIN st.waiting} \cup {<<m.id, m.origin>> : m \in Held \cup Boxed \cup Lined \cup Sent}
PairsOK ==
    Routed => /\ \A x \in Pairs : x[1] # NoId => x[1] \in 1..(st.nextId - 1)
              /\ \A x, y \in Pairs : x[1] # NoId /\ x[1] = y[1] => x[2] = y[2]
CancelPaired(m) ==
    /\ m.ref \in 1..(st.nextId - 1) /\ Arrived(m.origin)
    /\ \A x \in Pairs : x[1] = m.ref => Arrived(x[2]) /\ post[x[2]].session = post[m.origin].session
CancelOK(m) ==
    m.method = "cancelled" => (mode = "single" => NamesOwn(m.ref, m.origin)) /\ (mode = "listen" => CancelPaired(m))
CancelsPaired == \A m \in Held \cup Sent : CancelOK(m)
SentPaired ==
    /\ \A c \in seen.sent : c[1] = c[4].method /\ c[2] = c[4].origin /\ (mode = "single" => OfPost(c[4]))
    /\ mode = "relay" => seen.sent = {}

\* Where the answer to p is: awaited, in the work of a thread, or given.
AnswerTo(a, p) == a.to = "agent" /\ a.msg.id = p
ListingTo(f, p) == f.agent # NoAgent /\ f.agent.id = p
WaitTo(w, p) == w.kind = "agent" /\ w.id = p
Awaits(r, p) == \E n \in DOMAIN r.waiting : WaitTo(r.waiting[n], p)
Lists(r, p) == \E j \in DOMAIN r.jobs : ListingTo(r.jobs[j], p)
Owes(r, p) == Awaits(r, p) \/ Lists(r, p)
SoleOwed(r, p) ==
    /\ ~(Awaits(r, p) /\ Lists(r, p))
    /\ \A n, m \in DOMAIN r.waiting : WaitTo(r.waiting[n], p) /\ WaitTo(r.waiting[m], p) => n = m
    /\ \A n, m \in DOMAIN r.jobs : ListingTo(r.jobs[n], p) /\ ListingTo(r.jobs[m], p) => n = m
InActs(acts, p) == \E i \in DOMAIN acts : AnswerTo(acts[i], p)
InFin(fin, p) == \E i \in DOMAIN fin : ListingTo(fin[i], p)
SoleAct(acts, p) == \A i, j \in DOMAIN acts : AnswerTo(acts[i], p) /\ AnswerTo(acts[j], p) => i = j
SoleFin(fin, p) == \A i, j \in DOMAIN fin : ListingTo(fin[i], p) /\ ListingTo(fin[j], p) => i = j
Holds(x, p) == InActs(x.todo, p) \/ InFin(x.fin, p)
SoleHeld(x, p) == ~(InActs(x.todo, p) /\ InFin(x.fin, p)) /\ SoleAct(x.todo, p) /\ SoleFin(x.fin, p)
Told(p) == seen.answers[p] # <<>>
Once(p) ==
    /\ SoleOwed(st, p) /\ \A t \in Threads : SoleHeld(thread[t], p)
    /\ Early(p) => ~Owes(st, p) /\ ~Told(p) /\ \A t \in Threads : ~Holds(thread[t], p)
    /\ Owes(st, p) => ~Told(p) /\ \A t \in Threads : ~Holds(thread[t], p)
    /\ \A t, u \in Threads : Holds(thread[t], p) => ~Told(p) /\ (Holds(thread[u], p) => t = u)
OnceOK == mode = "stdio" => \A p \in Posts : p # NoId => Once(p)
AnswersTyped == seen.answers = [p \in Posts |-> seen.answers[p]]

Carriers == (\A t \in Threads : ThreadPaired(t)) /\ (\A p \in Posts : PostPaired(p)) /\ NewUnnumbered /\ WaitersPaired /\ RouterPaired(st)
PairBooks == AnswersTyped /\ RepliesMatch /\ Carriers /\ PairsOK /\ CancelsPaired /\ SentPaired /\ OnceOK

(***************************************************************************)
(* The router's operators.                                                 *)
(***************************************************************************)
\* The router's requests and listings for agents are some of those it had.
Thins(r, q) ==
    /\ \A n \in DOMAIN q.waiting : q.waiting[n].kind = "agent" => n \in DOMAIN r.waiting /\ r.waiting[n] = q.waiting[n]
    /\ \A j \in DOMAIN q.jobs : q.jobs[j].agent # NoAgent => j \in DOMAIN r.jobs /\ r.jobs[j].agent = q.jobs[j].agent
\* No answer to a request is given out.
Mute(acts) == \A i \in DOMAIN acts : acts[i].to = "agent" => acts[i].msg.id = NoId
Idle(fin) == \A i \in DOMAIN fin : fin[i].agent = NoAgent
\* New numbers are new, and all of one agent message (of none: w = 0).
Traced(r, o, w) ==
    /\ o.st.nextId \in Nat /\ r.nextId <= o.st.nextId
    /\ \A n \in DOMAIN o.st.waiting :
        \/ n \in DOMAIN r.waiting /\ o.st.waiting[n].origin = r.waiting[n].origin
        \/ n \in r.nextId..(o.st.nextId - 1) /\ o.st.waiting[n].origin = w
    /\ \A i \in DOMAIN o.acts : o.acts[i].to # "agent" =>
        o.acts[i].msg.id = NoId \/ (o.acts[i].msg.id \in r.nextId..(o.st.nextId - 1) /\ o.acts[i].msg.origin = w)
Uncancelling(acts) == \A i \in DOMAIN acts : acts[i].to # "agent" => acts[i].msg.method # "cancelled"
\* An answer given out is one the router owed, or to a message of S; it is given once.
Fair(r, o, S, p) ==
    /\ SoleOwed(o.st, p) /\ SoleAct(o.acts, p) /\ SoleFin(o.fin, p)
    /\ Owes(o.st, p) \/ InActs(o.acts, p) \/ InFin(o.fin, p) => Owes(r, p) \/ p \in S
    /\ ~(Owes(o.st, p) /\ InActs(o.acts, p)) /\ ~(Owes(o.st, p) /\ InFin(o.fin, p)) /\ ~(InActs(o.acts, p) /\ InFin(o.fin, p))
OutMine(o) ==
    /\ RouterPaired(o.st)
    /\ \A i \in DOMAIN o.acts : o.acts[i].to = "agent" => Mine(o.acts[i].msg.id, o.acts[i].msg.origin)
    /\ \A i \in DOMAIN o.fin : o.fin[i].agent # NoAgent => Mine(o.fin[i].agent.id, o.fin[i].agent.origin)

\* A router that kept some of what it had, owes some of what it owed.
LEMMA ThinsOwes ==
    ASSUME NEW r, NEW q, Thins(r, q)
    PROVE  /\ \A p : SoleOwed(r, p) => SoleOwed(q, p)
           /\ \A p : (Awaits(q, p) => Awaits(r, p)) /\ (Lists(q, p) => Lists(r, p)) /\ (Owes(q, p) => Owes(r, p))
           /\ RouterPaired(r) => RouterPaired(q)
PROOF
  <1>1. \A p : (Awaits(q, p) => Awaits(r, p)) /\ (Lists(q, p) => Lists(r, p))
    BY DEF Thins, Awaits, Lists, WaitTo, ListingTo
  <1>2. ASSUME NEW p, SoleOwed(r, p) PROVE SoleOwed(q, p)
    <2>1. \A n, m \in DOMAIN q.waiting : WaitTo(q.waiting[n], p) /\ WaitTo(q.waiting[m], p) => n = m
      BY <1>2 DEF SoleOwed, Thins, WaitTo
    <2>2. \A n, m \in DOMAIN q.jobs : ListingTo(q.jobs[n], p) /\ ListingTo(q.jobs[m], p) => n = m
      BY <1>2 DEF SoleOwed, Thins, ListingTo
    <2> QED BY <1>1, <1>2, <2>1, <2>2 DEF SoleOwed
  <1>3. RouterPaired(r) => RouterPaired(q)
    BY DEF RouterPaired, Thins
  <1> QED BY <1>1, <1>2, <1>3 DEF Owes

\* Nothing is given out.
LEMMA SilentFair ==
    ASSUME NEW r, NEW o, Thins(r, o.st), Mute(o.acts), Idle(o.fin)
    PROVE  /\ \A S, p : p # NoId /\ SoleOwed(r, p) => Fair(r, o, S, p)
           /\ RouterPaired(r) => OutMine(o)
PROOF
  <1>1. ASSUME NEW p, p # NoId PROVE ~InActs(o.acts, p) /\ ~InFin(o.fin, p) /\ SoleAct(o.acts, p) /\ SoleFin(o.fin, p)
    BY <1>1 DEF Mute, Idle, InActs, InFin, SoleAct, SoleFin, AnswerTo, ListingTo
  <1>2. \A S, p : p # NoId /\ SoleOwed(r, p) => Fair(r, o, S, p)
    BY <1>1, ThinsOwes DEF Fair
  <1>3. RouterPaired(r) => OutMine(o)
    BY ThinsOwes DEF OutMine, Mute, Idle, Mine
  <1> QED BY <1>2, <1>3

\* Pages are asked for, under new numbers.
LEMMA PagesTraced ==
    ASSUME NEW r, RouterTyped(r), NEW job, NEW servers \in Seq(ServerSet), NEW cursor, NEW o, o = PageRequests(r, job, servers, cursor)
    PROVE  /\ Traced(r, o, 0) /\ Thins(r, o.st) /\ Mute(o.acts) /\ Uncancelling(o.acts)
           /\ o.st.jobs = r.jobs /\ \A n \in DOMAIN o.st.waiting : o.st.waiting[n].kind = "agent" => n \in DOMAIN r.waiting /\ r.waiting[n] = o.st.waiting[n]
PROOF
  <1> DEFINE k == Len(servers)
             n(i) == r.nextId + i - 1
             N == {n(i) : i \in DOMAIN servers}
             page(server) == [kind |-> "list", job |-> job, id |-> NoId, origin |-> 0, server |-> server]
             W2 == [m \in DOMAIN r.waiting \cup N |-> IF m < r.nextId THEN r.waiting[m] ELSE page(servers[m - r.nextId + 1])]
             q == [r EXCEPT !.nextId = r.nextId + k, !.waiting = W2]
             msg(i) == [method |-> "list", id |-> n(i), tool |-> <<>>, ref |-> cursor, origin |-> 0]
             acts == [i \in DOMAIN servers |-> ToUpstream(servers[i], msg(i))]
  <1>0. k \in Nat /\ DOMAIN servers = 1..k /\ \A i \in 1..k : servers[i] \in ServerSet
    OBVIOUS
  <1>1. r.nextId \in Nat /\ r.nextId # 0 /\ DOMAIN r.waiting \subseteq 1..(r.nextId - 1)
    BY DEF RouterTyped, RouterShape
  <1>2. o = [st |-> q, acts |-> acts]
    BY DEF PageRequests
  <1>3. q.nextId = r.nextId + k /\ q.waiting = W2 /\ q.jobs = r.jobs
    <2> HIDE DEF W2, k
    <2> QED BY DEF RouterTyped, RouterShape
  <1>4. /\ \A i \in 1..k : n(i) \in r.nextId..(r.nextId + k - 1)
        /\ \A m \in N : m \in r.nextId..(r.nextId + k - 1) /\ ~(m < r.nextId)
    BY <1>0, <1>1
  <1>5. /\ DOMAIN W2 = DOMAIN r.waiting \cup N
        /\ \A m \in DOMAIN r.waiting : W2[m] = r.waiting[m]
        /\ \A m \in N : W2[m] = page(servers[m - r.nextId + 1])
    BY <1>1, <1>4
  <1> HIDE DEF W2, N
  <1>6. \A m \in N : W2[m].kind = "list" /\ W2[m].origin = 0
    BY <1>5
  <1>7. ASSUME NEW i \in DOMAIN acts
        PROVE  acts[i].to # "agent" /\ acts[i].msg.method = "list" /\ acts[i].msg.id \in r.nextId..(r.nextId + k - 1) /\ acts[i].msg.origin = 0
    <2>1. i \in 1..k /\ acts[i] = ToUpstream(servers[i], msg(i)) /\ servers[i] \in ServerSet
      BY <1>0, <1>7
    <2>2. msg(i).method = "list" /\ msg(i).id = n(i) /\ msg(i).origin = 0
      OBVIOUS
    <2> HIDE DEF acts, msg, n
    <2>3. acts[i].to = servers[i] /\ acts[i].msg = msg(i)
      BY <2>1 DEF ToUpstream
    <2> QED BY <1>4, <2>1, <2>2, <2>3, NotAgent
  <1> HIDE DEF acts, q
  <1>8. o.st = q /\ o.acts = acts
    BY <1>2
  <1>9. r.nextId + k \in Nat /\ r.nextId <= r.nextId + k
    BY <1>0, <1>1
  <1>10. PICK e \in Nat : e = r.nextId + k
    BY <1>9
  <1>11. Traced(r, o, 0)
    <2>1. (\A m \in N : m \in r.nextId..(e - 1)) /\ (\A i \in DOMAIN acts : acts[i].msg.id \in r.nextId..(e - 1)) /\ q.nextId = e /\ r.nextId <= e
      <3>1. r.nextId + k - 1 = e - 1
        BY <1>0, <1>1, <1>10
      <3> QED BY <1>3, <1>4, <1>7, <1>9, <1>10, <3>1
    <2> HIDE DEF k
    <2>2. \A m \in DOMAIN q.waiting : (m \in DOMAIN r.waiting /\ q.waiting[m].origin = r.waiting[m].origin) \/ (m \in r.nextId..(e - 1) /\ q.waiting[m].origin = 0)
      BY <1>3, <1>5, <1>6, <2>1
    <2>3. \A i \in DOMAIN acts : acts[i].msg.origin = 0
      BY <1>7
    <2> QED BY <1>8, <1>10, <2>1, <2>2, <2>3 DEF Traced
  <1>12. \A m \in DOMAIN o.st.waiting : o.st.waiting[m].kind = "agent" => m \in DOMAIN r.waiting /\ r.waiting[m] = o.st.waiting[m]
    BY <1>3, <1>5, <1>6, <1>8
  <1>13. Thins(r, o.st)
    BY <1>3, <1>8, <1>12 DEF Thins
  <1> QED BY <1>3, <1>7, <1>8, <1>11, <1>12, <1>13 DEF Mute, Uncancelling

\* No action and no listing; one of either.
LEMMA FewActs ==
    /\ Mute(<<>>) /\ Idle(<<>>) /\ Uncancelling(<<>>)
    /\ \A p : ~InActs(<<>>, p) /\ ~InFin(<<>>, p) /\ SoleAct(<<>>, p) /\ SoleFin(<<>>, p)
    /\ \A a, p : SoleAct(<<a>>, p) /\ (InActs(<<a>>, p) <=> AnswerTo(a, p))
    /\ \A f, p : SoleFin(<<f>>, p) /\ (InFin(<<f>>, p) <=> ListingTo(f, p))
    /\ \A a : (a.to = "agent" => a.msg.id = NoId) => Mute(<<a>>)
    /\ \A a : (a.to # "agent" => a.msg.method # "cancelled") => Uncancelling(<<a>>)
PROOF
  <1>1. \A a : DOMAIN <<a>> = {1} /\ <<a>>[1] = a
    OBVIOUS
  <1>2. DOMAIN <<>> = {}
    OBVIOUS
  <1>3. /\ Mute(<<>>) /\ Idle(<<>>) /\ Uncancelling(<<>>)
        /\ \A p : ~InActs(<<>>, p) /\ ~InFin(<<>>, p) /\ SoleAct(<<>>, p) /\ SoleFin(<<>>, p)
    BY <1>2 DEF Mute, Idle, Uncancelling, InActs, InFin, SoleAct, SoleFin
  <1>4. \A a, p : SoleAct(<<a>>, p) /\ (InActs(<<a>>, p) <=> AnswerTo(a, p))
    BY <1>1 DEF InActs, SoleAct
  <1>5. \A f, p : SoleFin(<<f>>, p) /\ (InFin(<<f>>, p) <=> ListingTo(f, p))
    BY <1>1 DEF InFin, SoleFin
  <1>6. \A a : (a.to = "agent" => a.msg.id = NoId) => Mute(<<a>>)
    BY <1>1 DEF Mute
  <1>7. \A a : (a.to # "agent" => a.msg.method # "cancelled") => Uncancelling(<<a>>)
    BY <1>1 DEF Uncancelling
  <1> QED BY <1>3, <1>4, <1>5, <1>6, <1>7

\* Nothing changes, one action or none.
LEMMA StaysTraced ==
    ASSUME NEW r, RouterTyped(r)
    PROVE  /\ \A w, fin : Traced(r, Out(r, <<>>, fin), w)
           /\ \A w, a, fin : (a.to # "agent" => a.msg.id = NoId) => Traced(r, Out(r, <<a>>, fin), w)
           /\ Thins(r, r)
PROOF
  <1>1. r.nextId \in Nat
    BY DEF RouterTyped, RouterShape
  <1>2. \A a : DOMAIN <<a>> = {1} /\ <<a>>[1] = a
    OBVIOUS
  <1>3. \A acts, fin : Out(r, acts, fin).st = r /\ Out(r, acts, fin).acts = acts
    BY DEF Out
  <1>4. \A w, fin : Traced(r, Out(r, <<>>, fin), w)
    BY <1>1, <1>3 DEF Traced
  <1>5. \A w, a, fin : (a.to # "agent" => a.msg.id = NoId) => Traced(r, Out(r, <<a>>, fin), w)
    BY <1>1, <1>2, <1>3 DEF Traced
  <1> QED BY <1>4, <1>5 DEF Thins

\* A listing begins, for an agent or for the catalog's own sake.
LEMMA ListingTraced ==
    ASSUME NEW r, RouterTyped(r), NEW agent, NEW servers \in Seq(ServerSet),
           \A i, j \in 1..Len(servers) : servers[i] = servers[j] => i = j, NEW o, o = StartListing(r, agent, servers)
    PROVE  /\ Traced(r, o, 0) /\ Mute(o.acts) /\ Uncancelling(o.acts)
           /\ agent = NoAgent => Thins(r, o.st) /\ Idle(o.fin)
           /\ RouterPaired(r) /\ (agent # NoAgent => Mine(agent.id, agent.origin)) => OutMine(o)
           /\ \A p : p # NoId /\ SoleOwed(r, p) /\ (p = agent.id => ~Owes(r, p)) => Fair(r, o, {agent.id}, p)
PROOF
  <1> DEFINE live == Live(servers, r.gone)
             listing == [agent |-> agent, remaining |-> ToSet(live), tools |-> Empty, pages |-> 0]
             numbered == [r EXCEPT !.nextJob = @ + 1]
             J2 == Insert(numbered.jobs, r.nextJob, listing)
             q == [numbered EXCEPT !.jobs = J2]
             asked == PageRequests(q, r.nextJob, live, NoId)
  <1>1. StartListing(r, agent, servers) =
          IF live = <<>> THEN Out(numbered, <<>>, <<listing>>) ELSE Out(asked.st, asked.acts, <<>>)
    BY Zenon DEF StartListing
  <1>2. live \in Seq(ServerSet)
    BY LiveIs DEF IsLive
  <1> HIDE DEF live
  <1>3. listing.agent = agent
    OBVIOUS
  <1>4. /\ RouterShape(r) /\ r.nextJob \in Nat \ {0} /\ r.nextJob \notin DOMAIN r.jobs /\ DOMAIN r.jobs \subseteq 1..(r.nextJob - 1)
        /\ r.nextId \in Nat /\ DOMAIN r.waiting \subseteq 1..(r.nextId - 1)
    BY DEF RouterTyped, RouterShape
  <1>4a. /\ numbered.waiting = r.waiting /\ numbered.jobs = r.jobs /\ numbered.nextId = r.nextId /\ numbered.nextJob = r.nextJob + 1
         /\ numbered.gone = r.gone /\ RouterShape(numbered)
    BY <1>4 DEF RouterShape
  <1>4b. RouterTyped(numbered)
    <2> HIDE DEF numbered
    <2> QED BY <1>4, <1>4a DEF RouterTyped
  <1>5. CASE live = <<>>
    <2>1. o.st = numbered /\ o.acts = <<>> /\ o.fin = <<listing>>
      BY <1>1, <1>5 DEF Out
    <2> HIDE DEF numbered, listing
    <2>2. Traced(r, o, 0)
      BY <1>4, <1>4a, <2>1 DEF Traced
    <2>3. Thins(r, o.st)
      BY <1>4a, <2>1 DEF Thins
    <2>4. DOMAIN o.fin = {1} /\ o.fin[1] = listing
      BY <2>1
    <2>5. RouterPaired(r) /\ (agent # NoAgent => Mine(agent.id, agent.origin)) => OutMine(o)
      BY <1>3, <2>1, <2>3, <2>4, ThinsOwes DEF OutMine
    <2>6. ASSUME NEW p, p # NoId, SoleOwed(r, p), (p = agent.id => ~Owes(r, p)) PROVE Fair(r, o, {agent.id}, p)
      <3>1. SoleOwed(o.st, p) /\ (Owes(o.st, p) => Owes(r, p))
        BY <2>3, <2>6, ThinsOwes
      <3>2. ~InActs(o.acts, p) /\ SoleAct(o.acts, p) /\ SoleFin(o.fin, p) /\ (InFin(o.fin, p) => p = agent.id)
        BY <1>3, <2>1, FewActs DEF ListingTo
      <3> QED BY <2>6, <3>1, <3>2 DEF Fair
    <2> QED BY <1>3, <2>1, <2>2, <2>3, <2>4, <2>5, <2>6, FewActs DEF Idle
  <1>6. CASE live # <<>>
    <2>1. o.st = asked.st /\ o.acts = asked.acts /\ o.fin = <<>>
      BY <1>1, <1>6 DEF Out
    <2>2. /\ DOMAIN J2 = DOMAIN r.jobs \cup {r.nextJob} /\ J2[r.nextJob] = listing
          /\ \A j \in DOMAIN r.jobs : j # r.nextJob /\ J2[j] = r.jobs[j]
      <3> HIDE DEF numbered, listing
      <3> QED BY <1>4, <1>4a DEF Insert
    <2>3. IsListing(listing)
      <3>1. ToSet(live) \subseteq ServerSet
        BY <1>2 DEF ToSet
      <3> QED BY <3>1 DEF IsListing, ToolsOK, Empty
    <2> HIDE DEF J2, numbered, listing
    <2>4. q.waiting = r.waiting /\ q.jobs = J2 /\ q.nextId = r.nextId /\ q.nextJob = r.nextJob + 1 /\ RouterShape(q)
      BY <1>4, <1>4a DEF RouterShape
    <2>5. RouterTyped(q)
      <3> HIDE DEF q
      <3>1. DOMAIN q.jobs \subseteq 1..(q.nextJob - 1)
        BY <1>4, <2>2, <2>4
      <3>2. \A j \in DOMAIN q.jobs : IsListing(q.jobs[j])
        BY <2>2, <2>3, <2>4 DEF RouterTyped
      <3>3. DOMAIN q.waiting \subseteq 1..(q.nextId - 1) /\ \A n \in DOMAIN q.waiting : IsWait(q.waiting[n])
        BY <2>4 DEF RouterTyped
      <3> QED BY <2>4, <3>1, <3>2, <3>3 DEF RouterTyped
    <2> HIDE DEF q
    <2>6. /\ Traced(q, asked, 0) /\ Mute(asked.acts) /\ Uncancelling(asked.acts) /\ asked.st.jobs = q.jobs
          /\ \A n \in DOMAIN asked.st.waiting : asked.st.waiting[n].kind = "agent" => n \in DOMAIN q.waiting /\ q.waiting[n] = asked.st.waiting[n]
      BY <1>2, <2>5, PagesTraced
    <2> HIDE DEF asked
    <2>7. Traced(r, o, 0)
      BY <2>1, <2>4, <2>6 DEF Traced
    <2>8. Mute(o.acts) /\ Uncancelling(o.acts) /\ Idle(o.fin)
      BY <2>1, <2>6, FewActs
    <2>9. /\ o.st.jobs = J2
          /\ \A n \in DOMAIN o.st.waiting : o.st.waiting[n].kind = "agent" => n \in DOMAIN r.waiting /\ r.waiting[n] = o.st.waiting[n]
      BY <2>1, <2>4, <2>6
    <2>10. agent = NoAgent => Thins(r, o.st)
      BY <1>3, <2>2, <2>9 DEF Thins
    <2>11. RouterPaired(r) /\ (agent # NoAgent => Mine(agent.id, agent.origin)) => OutMine(o)
      <3> SUFFICES ASSUME RouterPaired(r), agent # NoAgent => Mine(agent.id, agent.origin) PROVE OutMine(o)
        OBVIOUS
      <3>1. RouterPaired(o.st)
        BY <1>3, <2>2, <2>9 DEF RouterPaired
      <3> QED BY <2>8, <3>1 DEF OutMine, Mute, Idle, Mine
    <2>12. ASSUME NEW p, p # NoId, SoleOwed(r, p), (p = agent.id => ~Owes(r, p)) PROVE Fair(r, o, {agent.id}, p)
      <3>1. Awaits(o.st, p) => Awaits(r, p)
        BY <2>9 DEF Awaits, WaitTo
      <3>2. \A j \in DOMAIN J2 : ListingTo(J2[j], p) => (j \in DOMAIN r.jobs /\ ListingTo(r.jobs[j], p)) \/ (j = r.nextJob /\ p = agent.id)
        BY <1>3, <2>2 DEF ListingTo
      <3>3. p = agent.id => \A j \in DOMAIN r.jobs : ~ListingTo(r.jobs[j], p)
        BY <2>12 DEF Owes, Lists
      <3>4. Lists(o.st, p) => Lists(r, p) \/ p = agent.id
        BY <2>9, <3>2 DEF Lists
      <3>5. \A n, m \in DOMAIN o.st.waiting : WaitTo(o.st.waiting[n], p) /\ WaitTo(o.st.waiting[m], p) => n = m
        BY <2>9, <2>12 DEF SoleOwed, WaitTo
      <3>6. \A n, m \in DOMAIN J2 : ListingTo(J2[n], p) /\ ListingTo(J2[m], p) => n = m
        BY <2>12, <3>2, <3>3 DEF SoleOwed
      <3>7. SoleOwed(o.st, p)
        BY <2>9, <2>12, <3>1, <3>4, <3>5, <3>6 DEF SoleOwed, Owes
      <3>8. ~InActs(o.acts, p) /\ SoleAct(o.acts, p) /\ ~InFin(o.fin, p) /\ SoleFin(o.fin, p)
        BY <2>1, <2>8, <2>12, FewActs DEF Mute, InActs, SoleAct, AnswerTo
      <3> QED BY <3>1, <3>4, <3>7, <3>8 DEF Fair, Owes
    <2> QED BY <2>7, <2>8, <2>10, <2>11, <2>12
  <1> QED BY <1>5, <1>6

\* A request is given a number of the router's, or is answered at once.
LEMMA RoutedTraced ==
    ASSUME NEW r, RouterTyped(r), NEW server \in ServerSet, NEW msg, IsMessage(msg), NEW o, o = SendRouted(r, server, msg)
    PROVE  /\ Traced(r, o, msg.origin) /\ (msg.method # "cancelled" => Uncancelling(o.acts))
           /\ RouterPaired(r) /\ Mine(msg.id, msg.origin) => OutMine(o)
           /\ \A p : p # NoId /\ SoleOwed(r, p) /\ (p = msg.id => ~Owes(r, p)) => Fair(r, o, {msg.id}, p)
PROOF
  <1> DEFINE back == ToAgent(Reply(msg.id, "upstream_unavailable", msg.origin))
             there == ToUpstream(server, msg)
             w == [kind |-> "agent", job |-> 0, id |-> msg.id, origin |-> msg.origin, server |-> server]
             W2 == Insert(r.waiting, r.nextId, w)
             q == [r EXCEPT !.nextId = @ + 1, !.waiting = W2]
             moved == [msg EXCEPT !.id = r.nextId]
             forth == ToUpstream(server, moved)
  <1>1. back.to = "agent" /\ back.msg.id = msg.id /\ back.msg.origin = msg.origin
    BY DEF ToAgent, Reply
  <1>2. there.to # "agent" /\ there.msg = msg /\ forth.to # "agent" /\ forth.msg = moved
    BY NotAgent DEF ToUpstream
  <1>3. moved.id = r.nextId /\ moved.origin = msg.origin /\ moved.method = msg.method
    BY DEF IsMessage
  <1>4. r.nextId \in Nat \ {0} /\ DOMAIN r.waiting \subseteq 1..(r.nextId - 1) /\ r.nextId \notin DOMAIN r.waiting /\ RouterShape(r)
    BY DEF RouterTyped, RouterShape
  <1>5. CASE server \in r.gone /\ msg.id = NoId
    <2>1. o = Out(r, <<>>, <<>>)
      BY <1>5 DEF SendRouted
    <2>2. o.st = r /\ o.acts = <<>> /\ o.fin = <<>>
      BY <2>1 DEF Out
    <2> QED BY <2>1, <2>2, StaysTraced, FewActs, SilentFair
  <1>6. CASE server \in r.gone /\ msg.id # NoId
    <2> HIDE DEF back
    <2>1. o = Out(r, <<back>>, <<>>)
      BY <1>6 DEF SendRouted, back
    <2>2. o.st = r /\ o.acts = <<back>> /\ o.fin = <<>>
      BY <2>1 DEF Out
    <2>3. Traced(r, o, msg.origin) /\ Uncancelling(o.acts)
      BY <1>1, <2>1, <2>2, StaysTraced, FewActs
    <2>4. DOMAIN o.acts = {1} /\ o.acts[1] = back
      BY <2>2
    <2>5. RouterPaired(r) /\ Mine(msg.id, msg.origin) => OutMine(o)
      BY <1>1, <2>2, <2>4 DEF OutMine
    <2>6. ASSUME NEW p, p # NoId, SoleOwed(r, p), (p = msg.id => ~Owes(r, p)) PROVE Fair(r, o, {msg.id}, p)
      <3>1. InActs(o.acts, p) => p = msg.id
        BY <1>1, <2>2, FewActs DEF AnswerTo
      <3> QED BY <2>2, <2>6, <3>1, FewActs DEF Fair
    <2> QED BY <2>3, <2>5, <2>6
  <1>7. CASE server \notin r.gone /\ msg.id = NoId
    <2> HIDE DEF there
    <2>1. o = Out(r, <<there>>, <<>>)
      BY <1>7 DEF SendRouted, there
    <2>2. o.st = r /\ o.acts = <<there>> /\ o.fin = <<>>
      BY <2>1 DEF Out
    <2>3. Traced(r, o, msg.origin) /\ (msg.method # "cancelled" => Uncancelling(o.acts)) /\ Mute(o.acts) /\ Thins(r, o.st) /\ Idle(o.fin)
      BY <1>2, <1>7, <2>1, <2>2, StaysTraced, FewActs
    <2> QED BY <2>3, SilentFair
  <1>8. CASE server \notin r.gone /\ msg.id # NoId
    <2> HIDE DEF forth
    <2>1. o = Out(q, <<forth>>, <<>>)
      BY <1>8 DEF SendRouted, forth
    <2>2. /\ DOMAIN W2 = DOMAIN r.waiting \cup {r.nextId} /\ W2[r.nextId] = w
          /\ \A m \in DOMAIN r.waiting : m # r.nextId /\ W2[m] = r.waiting[m]
      BY <1>4 DEF Insert
    <2>3. w.kind = "agent" /\ w.id = msg.id /\ w.origin = msg.origin
      OBVIOUS
    <2> HIDE DEF W2, w, moved
    <2>4. q.nextId = r.nextId + 1 /\ q.waiting = W2 /\ q.jobs = r.jobs
      BY <1>4 DEF RouterShape
    <2> HIDE DEF q
    <2>5. o.st = q /\ o.acts = <<forth>> /\ o.fin = <<>>
      BY <2>1 DEF Out
    <2>6. DOMAIN o.acts = {1} /\ o.acts[1] = forth
      BY <2>5
    <2>7. Traced(r, o, msg.origin)
      <3>1. r.nextId \in r.nextId..(q.nextId - 1) /\ q.nextId \in Nat /\ r.nextId <= q.nextId
        BY <1>4, <2>4
      <3>2. \A n \in DOMAIN q.waiting :
                \/ n \in DOMAIN r.waiting /\ q.waiting[n].origin = r.waiting[n].origin
                \/ n \in r.nextId..(q.nextId - 1) /\ q.waiting[n].origin = msg.origin
        BY <2>2, <2>3, <2>4, <3>1
      <3>3. o.acts[1].msg.id = r.nextId /\ o.acts[1].msg.origin = msg.origin
        BY <1>2, <1>3, <2>6
      <3> QED BY <2>5, <2>6, <3>1, <3>2, <3>3 DEF Traced
    <2>8. msg.method # "cancelled" => Uncancelling(o.acts)
      BY <1>2, <1>3, <2>5, FewActs
    <2>9. RouterPaired(r) /\ Mine(msg.id, msg.origin) => OutMine(o)
      <3> SUFFICES ASSUME RouterPaired(r), Mine(msg.id, msg.origin) PROVE OutMine(o)
        OBVIOUS
      <3>1. RouterPaired(q)
        BY <1>8, <2>2, <2>3, <2>4 DEF RouterPaired
      <3> QED BY <1>2, <2>5, <2>6, <3>1 DEF OutMine
    <2>10. ASSUME NEW p, p # NoId, SoleOwed(r, p), (p = msg.id => ~Owes(r, p)) PROVE Fair(r, o, {msg.id}, p)
      <3>1. \A n \in DOMAIN W2 : WaitTo(W2[n], p) => (n \in DOMAIN r.waiting /\ WaitTo(r.waiting[n], p)) \/ (n = r.nextId /\ p = msg.id)
        BY <2>2, <2>3 DEF WaitTo
      <3>2. p = msg.id => (\A n \in DOMAIN r.waiting : ~WaitTo(r.waiting[n], p)) /\ ~Lists(r, p)
        BY <2>10 DEF Owes, Awaits
      <3>3. \A n, m \in DOMAIN W2 : WaitTo(W2[n], p) /\ WaitTo(W2[m], p) => n = m
        BY <2>10, <3>1, <3>2 DEF SoleOwed
      <3>4. Awaits(q, p) => Awaits(r, p) \/ p = msg.id
        BY <2>4, <3>1 DEF Awaits
      <3>5. Lists(q, p) <=> Lists(r, p)
        BY <2>4 DEF Lists
      <3>6. SoleOwed(q, p)
        BY <2>4, <2>10, <3>2, <3>3, <3>4, <3>5 DEF SoleOwed
      <3>7. ~InActs(o.acts, p)
        BY <1>2, <2>5, FewActs DEF AnswerTo
      <3> QED BY <2>5, <3>4, <3>5, <3>6, <3>7, FewActs DEF Fair, Owes
    <2> QED BY <2>7, <2>8, <2>9, <2>10
  <1> QED BY <1>5, <1>6, <1>7, <1>8

\* A cancellation is forwarded under the number of a request that waits under the number it names.
CancelAct(r, msg, a) ==
    /\ a.msg.method = msg.method /\ a.msg.origin = msg.origin /\ a.msg.id = msg.id
    /\ a.msg.ref \in DOMAIN r.waiting /\ r.waiting[a.msg.ref].kind = "agent" /\ r.waiting[a.msg.ref].id = msg.ref
\* cancel: a cancellation names the number the request it is for was sent under.
LEMMA CancelTraced ==
    ASSUME NEW r, RouterTyped(r), NEW msg, IsMessage(msg), msg.id = NoId, NEW o, o = Cancel(r, msg)
    PROVE  /\ o.st = r /\ Traced(r, o, 0) /\ Mute(o.acts) /\ Idle(o.fin)
           /\ \A i \in DOMAIN o.acts : o.acts[i].to # "agent" => CancelAct(r, msg, o.acts[i])
PROOF
  <1> DEFINE found == {n \in DOMAIN r.waiting : r.waiting[n].kind = "agent" /\ r.waiting[n].id = msg.ref}
             n == CHOOSE n \in found : TRUE
             moved == [msg EXCEPT !.ref = n]
             act == ToUpstream(r.waiting[n].server, moved)
  <1>1. o = Out(r, IF found = {} THEN <<>> ELSE <<act>>, <<>>)
    BY DEF Cancel
  <1>2. CASE found = {}
    <2>1. o = Out(r, <<>>, <<>>)
      BY <1>1, <1>2
    <2>2. o.st = r /\ o.acts = <<>> /\ o.fin = <<>>
      BY <2>1 DEF Out
    <2> QED BY <2>1, <2>2, StaysTraced, FewActs
  <1>3. CASE found # {}
    <2>1. n \in found
      BY <1>3
    <2> HIDE DEF n
    <2>2. n \in DOMAIN r.waiting /\ r.waiting[n].kind = "agent" /\ r.waiting[n].id = msg.ref
      BY <2>1
    <2>3. moved.method = msg.method /\ moved.origin = msg.origin /\ moved.id = msg.id /\ moved.ref = n
      BY DEF IsMessage
    <2> HIDE DEF moved
    <2>4. r.waiting[n].server \in ServerSet
      BY <2>2 DEF RouterTyped, IsWait
    <2>5. act.to # "agent" /\ act.msg = moved
      BY <2>4, NotAgent DEF ToUpstream
    <2> HIDE DEF act, found
    <2>6. o = Out(r, <<act>>, <<>>)
      BY <1>1, <1>3
    <2>7. o.st = r /\ o.acts = <<act>> /\ o.fin = <<>>
      BY <2>6 DEF Out
    <2>8. DOMAIN o.acts = {1} /\ o.acts[1] = act
      BY <2>7
    <2>9. CancelAct(r, msg, act)
      BY <2>2, <2>3, <2>5 DEF CancelAct
    <2> QED BY <2>3, <2>5, <2>6, <2>7, <2>8, <2>9, StaysTraced, FewActs
  <1> QED BY <1>2, <1>3

\* A notification is sent to every server.
LEMMA BroadcastTraced ==
    ASSUME NEW r, RouterTyped(r), NEW msg, msg.id = NoId, msg.method # "cancelled", NEW o, o = Broadcast(r, msg)
    PROVE  o.st = r /\ Traced(r, o, 0) /\ Mute(o.acts) /\ Idle(o.fin) /\ Uncancelling(o.acts)
PROOF
  <1> DEFINE live == Live(Servers, r.gone)
             acts == [i \in DOMAIN live |-> ToUpstream(live[i], msg)]
  <1>1. o = Out(r, acts, <<>>)
    BY DEF Broadcast
  <1>2. live \in Seq(ServerSet)
    BY LiveIs, ServersOnce DEF IsLive
  <1> HIDE DEF live
  <1>3. ASSUME NEW i \in DOMAIN acts PROVE acts[i].to # "agent" /\ acts[i].msg = msg
    <2>1. acts[i] = ToUpstream(live[i], msg) /\ live[i] \in ServerSet
      BY <1>2, <1>3
    <2> HIDE DEF acts
    <2>2. acts[i].to = live[i] /\ acts[i].msg = msg
      BY <2>1 DEF ToUpstream
    <2> QED BY <2>1, <2>2, NotAgent
  <1> HIDE DEF acts
  <1>4. o.st = r /\ o.acts = acts /\ o.fin = <<>>
    BY <1>1 DEF Out
  <1>5. r.nextId \in Nat
    BY DEF RouterTyped, RouterShape
  <1>6. Traced(r, o, 0)
    BY <1>3, <1>4, <1>5 DEF Traced
  <1> QED BY <1>3, <1>4, <1>6, FewActs DEF Mute, Uncancelling

\* dispatch: what a message let through becomes.
DispatchGoal(r, msg, o) ==
    /\ \E w : Traced(r, o, w)
    /\ \A i \in DOMAIN o.acts : o.acts[i].to # "agent" /\ o.acts[i].msg.method = "cancelled" => msg.method = "cancelled" /\ CancelAct(r, msg, o.acts[i])
    /\ RouterPaired(r) /\ Mine(msg.id, msg.origin) => OutMine(o)
    /\ \A p : p # NoId /\ SoleOwed(r, p) /\ (p = msg.id => ~Owes(r, p)) => Fair(r, o, {msg.id}, p)
\* dispatch: what a message becomes is of that message.
LEMMA DispatchedTraced ==
    ASSUME NEW r, RouterTyped(r), NEW c, CatalogOK(c), NEW msg, IsMessage(msg), msg.method \in Methods,
           ~IsRequest(msg.method) => msg.id = NoId, NEW o, o = Dispatch(r, c, msg)
    PROVE  DispatchGoal(r, msg, o)
PROOF
  <1> DEFINE answer(what) == Out(r, <<ToAgent(Reply(msg.id, what, msg.origin))>>, <<>>)
  <1>1. ASSUME NEW what, o = answer(what) PROVE DispatchGoal(r, msg, o)
    <2>1. PICK a : a = ToAgent(Reply(msg.id, what, msg.origin))
      OBVIOUS
    <2>2. a.to = "agent" /\ a.msg.id = msg.id /\ a.msg.origin = msg.origin
      BY <2>1 DEF ToAgent, Reply
    <2>3. o = Out(r, <<a>>, <<>>) /\ o.st = r /\ o.acts = <<a>> /\ o.fin = <<>>
      BY <1>1, <2>1 DEF Out
    <2>4. Traced(r, o, 0)
      BY <2>2, <2>3, StaysTraced
    <2>5. DOMAIN o.acts = {1} /\ o.acts[1] = a
      BY <2>3
    <2>6. RouterPaired(r) /\ Mine(msg.id, msg.origin) => OutMine(o)
      BY <2>2, <2>3, <2>5 DEF OutMine
    <2>7. ASSUME NEW p, p # NoId, SoleOwed(r, p), (p = msg.id => ~Owes(r, p)) PROVE Fair(r, o, {msg.id}, p)
      <3>1. InActs(o.acts, p) => p = msg.id
        BY <2>2, <2>3, FewActs DEF AnswerTo
      <3> QED BY <2>3, <2>7, <3>1, FewActs DEF Fair
    <2> QED BY <2>2, <2>4, <2>5, <2>6, <2>7 DEF DispatchGoal
  <1>2. ASSUME NEW w, Traced(r, o, w), Uncancelling(o.acts), RouterPaired(r) /\ Mine(msg.id, msg.origin) => OutMine(o),
               \A p : p # NoId /\ SoleOwed(r, p) /\ (p = msg.id => ~Owes(r, p)) => Fair(r, o, {msg.id}, p)
        PROVE  DispatchGoal(r, msg, o)
    BY <1>2 DEF DispatchGoal, Uncancelling
  <1>3. CASE msg.method \in {"initialize", "ping"}
    <2>1. o = answer("result")
      BY <1>3 DEF Dispatch
    <2> HIDE DEF answer
    <2> QED BY <1>1, <2>1
  <1>4. CASE msg.method = "list"
    <2>1. PICK agent : agent = [id |-> msg.id, origin |-> msg.origin]
      OBVIOUS
    <2>2. o = StartListing(r, agent, Servers)
      BY <1>4, <2>1 DEF Dispatch
    <2>3. agent.id = msg.id /\ agent.origin = msg.origin
      BY <2>1
    <2>4. /\ Traced(r, o, 0) /\ Mute(o.acts) /\ Uncancelling(o.acts)
          /\ agent = NoAgent => Thins(r, o.st) /\ Idle(o.fin)
          /\ RouterPaired(r) /\ (agent # NoAgent => Mine(agent.id, agent.origin)) => OutMine(o)
          /\ \A p : p # NoId /\ SoleOwed(r, p) /\ (p = agent.id => ~Owes(r, p)) => Fair(r, o, {agent.id}, p)
      BY <2>2, ListingTraced, ServersOnce
    <2> QED BY <1>2, <2>3, <2>4
  <1>5. CASE msg.method = "call" /\ RouteOf(c, msg.tool) = {}
    <2>1. o = answer("tool_unavailable")
      BY <1>5 DEF Dispatch
    <2> HIDE DEF answer
    <2> QED BY <1>1, <2>1
  <1>6. CASE msg.method = "call" /\ RouteOf(c, msg.tool) # {}
    <2> DEFINE owner == CHOOSE x \in RouteOf(c, msg.tool) : TRUE
               sent == [msg EXCEPT !.tool = owner[2]]
    <2>1. o = SendRouted(r, owner[1], sent)
      BY <1>6 DEF Dispatch
    <2>2. owner \in RouteOf(c, msg.tool)
      BY <1>6
    <2> HIDE DEF owner
    <2>3. owner[1] \in ServerSet
      BY <2>2 DEF RouteOf, CatalogOK
    <2>4. IsMessage(sent) /\ sent.method = "call" /\ sent.origin = msg.origin /\ sent.id = msg.id
      BY <1>6 DEF IsMessage
    <2> HIDE DEF sent
    <2>5. /\ Traced(r, o, sent.origin) /\ (sent.method # "cancelled" => Uncancelling(o.acts))
          /\ RouterPaired(r) /\ Mine(sent.id, sent.origin) => OutMine(o)
          /\ \A p : p # NoId /\ SoleOwed(r, p) /\ (p = sent.id => ~Owes(r, p)) => Fair(r, o, {sent.id}, p)
      BY <2>1, <2>3, <2>4, RoutedTraced
    <2> QED BY <1>2, <2>4, <2>5
  <1>7. CASE msg.method = "cancelled"
    <2>1. o = Cancel(r, msg)
      BY <1>7 DEF Dispatch
    <2>2. msg.id = NoId
      BY <1>7 DEF IsRequest
    <2>3. /\ o.st = r /\ Traced(r, o, 0) /\ Mute(o.acts) /\ Idle(o.fin)
          /\ \A i \in DOMAIN o.acts : o.acts[i].to # "agent" => CancelAct(r, msg, o.acts[i])
      BY <2>1, <2>2, CancelTraced
    <2>4. Thins(r, o.st)
      BY <2>3, StaysTraced
    <2> QED BY <1>7, <2>3, <2>4, SilentFair DEF DispatchGoal
  <1>8. CASE msg.method = "notification"
    <2>1. o = Broadcast(r, msg)
      BY <1>8 DEF Dispatch
    <2>2. msg.id = NoId
      BY <1>8 DEF IsRequest
    <2>3. o.st = r /\ Traced(r, o, 0) /\ Mute(o.acts) /\ Idle(o.fin) /\ Uncancelling(o.acts)
      BY <1>8, <2>1, <2>2, BroadcastTraced
    <2>4. Thins(r, o.st)
      BY <2>3, StaysTraced
    <2> QED BY <1>2, <2>3, <2>4, SilentFair
  <1>9. CASE msg.method = "other" /\ Default = {}
    <2>1. o = answer("method_not_found")
      BY <1>9 DEF Dispatch
    <2> HIDE DEF answer
    <2> QED BY <1>1, <2>1
  <1>10. CASE msg.method = "other" /\ Default # {}
    <2> DEFINE d == CHOOSE s \in Default : TRUE
    <2>1. o = SendRouted(r, d, msg)
      BY <1>10 DEF Dispatch
    <2>2. d \in ServerSet
      BY <1>10, ServersOnce
    <2> HIDE DEF d
    <2>3. /\ Traced(r, o, msg.origin) /\ (msg.method # "cancelled" => Uncancelling(o.acts))
          /\ RouterPaired(r) /\ Mine(msg.id, msg.origin) => OutMine(o)
          /\ \A p : p # NoId /\ SoleOwed(r, p) /\ (p = msg.id => ~Owes(r, p)) => Fair(r, o, {msg.id}, p)
      BY <2>1, <2>2, RoutedTraced
    <2> QED BY <1>2, <1>10, <2>3
  <1> QED BY <1>3, <1>4, <1>5, <1>6, <1>7, <1>8, <1>9, <1>10 DEF Methods

\* on_page: a page is more to ask for, or part of a listing, or its end.
LEMMA PageTraced ==
    ASSUME NEW r, RouterTyped(r), NEW job, NEW server \in ServerSet, NEW page, IsPage(page), NEW o, o = OnPage(r, job, server, page)
    PROVE  /\ Traced(r, o, 0) /\ Mute(o.acts) /\ Uncancelling(o.acts) /\ Thins(r, o.st)
           /\ RouterPaired(r) => OutMine(o)
           /\ \A p : p # NoId /\ SoleOwed(r, p) => Fair(r, o, {}, p)
PROOF
  <1> DEFINE old == r.jobs[job]
             so_far == IF server \in DOMAIN old.tools THEN old.tools[server] ELSE <<>>
             tools == IF page.kind = "error" THEN Forget(old.tools, {server})
                      ELSE Insert(old.tools, server, so_far \o page.tools)
             more == page.more /\ old.pages + 1 < MaxPages * Len(Servers)
             listing == [old EXCEPT !.pages = @ + 1, !.tools = tools, !.remaining = IF more THEN @ ELSE @ \ {server}]
             updated == [r EXCEPT !.jobs[job] = listing]
             asked == PageRequests(updated, job, <<server>>, NextPage)
             J2 == Forget(r.jobs, {job})
             over == [r EXCEPT !.jobs = Forget(@, {job})]
  <1>0. r.nextId \in Nat /\ RouterShape(r)
    BY DEF RouterTyped, RouterShape
  <1>1. CASE job \notin DOMAIN r.jobs
    <2>1. o = Out(r, <<>>, <<>>)
      BY <1>1 DEF OnPage
    <2>2. o.st = r /\ o.acts = <<>> /\ o.fin = <<>>
      BY <2>1 DEF Out
    <2> QED BY <2>1, <2>2, StaysTraced, FewActs, SilentFair
  <1>2. CASE job \in DOMAIN r.jobs
    <2>1. o = CASE more -> Out(asked.st, asked.acts, <<>>)
                [] ~more /\ listing.remaining # {} -> Out(updated, <<>>, <<>>)
                [] OTHER -> Out(over, <<>>, <<listing>>)
      BY <1>2, Zenon DEF OnPage
    <2>2. IsListing(old)
      BY <1>2 DEF RouterTyped
    <2>3. ToolsOK(tools)
      <3>1. ToolsOK(old.tools)
        BY <2>2 DEF IsListing
      <3>2. IsSeq(so_far)
        <4>1. <<>> \in Seq({})
          OBVIOUS
        <4>2. IsSeq(<<>>)
          BY <4>1, Zenon DEF IsSeq
        <4> HIDE DEF old
        <4> QED BY <3>1, <4>2 DEF ToolsOK
      <3>3. IsSeq(so_far \o page.tools)
        BY <3>2, Concatenated DEF IsPage
      <3> HIDE DEF so_far, old
      <3>4. ToolsOK(Forget(old.tools, {server}))
        BY <3>1 DEF ToolsOK, Forget, Restrict
      <3>5. ToolsOK(Insert(old.tools, server, so_far \o page.tools))
        <4>1. PICK t : t = so_far \o page.tools
          OBVIOUS
        <4>2. ToolsOK(Insert(old.tools, server, t))
          BY <3>1, <3>3, <4>1 DEF ToolsOK, Insert
        <4> QED BY <4>1, <4>2
      <3> QED BY <3>4, <3>5
    <2> HIDE DEF tools, more
    <2>4. IsListing(listing) /\ listing.agent = old.agent
      BY <2>2, <2>3 DEF IsListing
    <2> HIDE DEF listing
    <2>5. /\ updated.waiting = r.waiting /\ updated.nextId = r.nextId /\ updated.nextJob = r.nextJob /\ updated.gone = r.gone
          /\ updated.jobs = [r.jobs EXCEPT ![job] = listing] /\ RouterShape(updated)
      BY <1>0 DEF RouterShape
    <2> HIDE DEF updated
    <2>6. DOMAIN updated.jobs = DOMAIN r.jobs /\ \A j \in DOMAIN r.jobs : updated.jobs[j] = IF j = job THEN listing ELSE r.jobs[j]
      BY <1>2, <2>5
    <2>7. Thins(r, updated)
      BY <2>4, <2>5, <2>6 DEF Thins, old
    <2>8. CASE more
      <3>1. RouterTyped(updated)
        BY <2>4, <2>5, <2>6 DEF RouterTyped
      <3> DEFINE servers == <<server>>
      <3>2. servers \in Seq(ServerSet)
        OBVIOUS
      <3>3. asked = PageRequests(updated, job, servers, NextPage)
        OBVIOUS
      <3> HIDE DEF servers, asked
      <3>4. /\ Traced(updated, asked, 0) /\ Thins(updated, asked.st) /\ Mute(asked.acts) /\ Uncancelling(asked.acts)
        BY <3>1, <3>2, <3>3, PagesTraced
      <3>5. o.st = asked.st /\ o.acts = asked.acts /\ o.fin = <<>>
        BY <2>1, <2>8 DEF Out
      <3>6. Traced(r, o, 0)
        BY <2>5, <3>4, <3>5 DEF Traced
      <3>7. Thins(r, o.st)
        BY <2>7, <3>4, <3>5 DEF Thins
      <3> QED BY <3>4, <3>5, <3>6, <3>7, FewActs, SilentFair
    <2>9. CASE ~more /\ listing.remaining # {}
      <3>1. o.st = updated /\ o.acts = <<>> /\ o.fin = <<>>
        BY <2>1, <2>9 DEF Out
      <3>2. Traced(r, o, 0)
        BY <1>0, <2>5, <3>1 DEF Traced
      <3> QED BY <2>7, <3>1, <3>2, FewActs, SilentFair
    <2>10. CASE ~more /\ ~(listing.remaining # {})
      <3>1. o.st = over /\ o.acts = <<>> /\ o.fin = <<listing>>
        BY <2>1, <2>10 DEF Out
      <3>2. Shrinks(r.jobs, J2, {job})
        BY DEF Forget, Restrict, Shrinks
      <3> HIDE DEF J2
      <3>3. over.waiting = r.waiting /\ over.nextId = r.nextId /\ over.jobs = J2
        BY <1>0 DEF RouterShape, J2
      <3> HIDE DEF over
      <3>4. Traced(r, o, 0)
        BY <1>0, <3>1, <3>3 DEF Traced
      <3>5. Thins(r, o.st)
        BY <3>1, <3>2, <3>3 DEF Thins, Shrinks
      <3>6. DOMAIN o.fin = {1} /\ o.fin[1] = listing
        BY <3>1
      <3>7. RouterPaired(r) => OutMine(o)
        <4> SUFFICES ASSUME RouterPaired(r) PROVE OutMine(o)
          OBVIOUS
        <4>1. listing.agent # NoAgent => Mine(listing.agent.id, listing.agent.origin)
          BY <1>2, <2>4 DEF RouterPaired, old
        <4> QED BY <3>1, <3>5, <3>6, <4>1, ThinsOwes DEF OutMine
      <3>8. ASSUME NEW p, p # NoId, SoleOwed(r, p) PROVE Fair(r, o, {}, p)
        <4>1. SoleOwed(o.st, p) /\ (Owes(o.st, p) => Owes(r, p)) /\ (Awaits(o.st, p) => Awaits(r, p))
          BY <3>5, <3>8, ThinsOwes
        <4>2. ~InActs(o.acts, p) /\ SoleAct(o.acts, p) /\ SoleFin(o.fin, p) /\ (InFin(o.fin, p) <=> ListingTo(listing, p))
          BY <3>1, FewActs
        <4>3. ASSUME ListingTo(listing, p) PROVE Lists(r, p) /\ ~Owes(o.st, p)
          <5>1. ListingTo(r.jobs[job], p)
            BY <2>4, <4>3 DEF ListingTo, old
          <5>2. Lists(r, p) /\ ~Awaits(r, p)
            BY <1>2, <3>8, <5>1 DEF Lists, SoleOwed
          <5>3. ~Lists(o.st, p)
            <6>1. \A j \in DOMAIN J2 : j # job /\ j \in DOMAIN r.jobs /\ J2[j] = r.jobs[j]
              BY <3>2 DEF Shrinks
            <6> QED BY <1>2, <3>1, <3>3, <3>8, <5>1, <6>1 DEF SoleOwed, Lists
          <5> QED BY <4>1, <5>2, <5>3 DEF Owes
        <4> QED BY <4>1, <4>2, <4>3 DEF Fair, Owes
      <3> QED BY <3>1, <3>4, <3>5, <3>7, <3>8, FewActs
    <2> QED BY <2>8, <2>9, <2>10
  <1> QED BY <1>1, <1>2

\* A reply is taken off the waiting map, or an error in its place.
LEMMA TakenTraced ==
    ASSUME NEW r, RouterTyped(r), NEW n, NEW relayed, NEW what, NEW origin, relayed = Reply(n, what, origin), NEW page, IsPage(page),
           NEW o, o = TakeReply(r, n, relayed, page)
    PROVE  /\ Traced(r, o, 0) /\ Uncancelling(o.acts) /\ Thins(r, o.st)
           /\ RouterPaired(r) /\ (n \in DOMAIN r.waiting => r.waiting[n].origin = origin) => OutMine(o)
           /\ \A p : p # NoId /\ SoleOwed(r, p) => Fair(r, o, {}, p)
PROOF
  <1> DEFINE w == r.waiting[n]
             W2 == Forget(r.waiting, {n})
             rest == [r EXCEPT !.waiting = Forget(@, {n})]
             back == [relayed EXCEPT !.id = w.id]
             act == ToAgent(back)
  <1>0. r.nextId \in Nat /\ RouterShape(r)
    BY DEF RouterTyped, RouterShape
  <1>1. CASE n \notin DOMAIN r.waiting
    <2>1. o = Out(r, <<>>, <<>>)
      BY <1>1 DEF TakeReply
    <2>2. o.st = r /\ o.acts = <<>> /\ o.fin = <<>>
      BY <2>1 DEF Out
    <2> QED BY <2>1, <2>2, StaysTraced, FewActs, SilentFair
  <1>2. CASE n \in DOMAIN r.waiting
    <2>1. o = IF w.kind = "agent" THEN Out(rest, <<act>>, <<>>) ELSE OnPage(rest, w.job, w.server, page)
      BY <1>2 DEF TakeReply
    <2>2. Shrinks(r.waiting, W2, {n})
      BY DEF Shrinks, Forget, Restrict
    <2> HIDE DEF W2
    <2>3. /\ RouterShape(rest) /\ rest.waiting = W2 /\ rest.gone = r.gone /\ rest.nextJob = r.nextJob /\ rest.nextId = r.nextId
          /\ rest.jobs = r.jobs
      BY <1>0 DEF RouterShape, W2
    <2> HIDE DEF rest
    <2>4. RouterTyped(rest)
      BY <2>2, <2>3 DEF RouterTyped, Shrinks
    <2>5. Thins(r, rest)
      BY <2>2, <2>3 DEF Thins, Shrinks
    <2>6. IsWait(w)
      BY <1>2 DEF RouterTyped
    <2>7. CASE w.kind = "agent"
      <3>1. act.to = "agent" /\ act.msg.id = w.id /\ act.msg.origin = origin
        BY DEF ToAgent, Reply
      <3> HIDE DEF act, back
      <3>2. o.st = rest /\ o.acts = <<act>> /\ o.fin = <<>>
        BY <2>1, <2>7 DEF Out
      <3>3. DOMAIN o.acts = {1} /\ o.acts[1] = act
        BY <3>2
      <3>4. Traced(r, o, 0)
        BY <1>0, <2>2, <2>3, <3>1, <3>2, <3>3 DEF Traced, Shrinks
      <3>5. RouterPaired(r) /\ (n \in DOMAIN r.waiting => r.waiting[n].origin = origin) => OutMine(o)
        <4> SUFFICES ASSUME RouterPaired(r), n \in DOMAIN r.waiting => r.waiting[n].origin = origin PROVE OutMine(o)
          OBVIOUS
        <4>1. Mine(w.id, origin)
          BY <1>2, <2>7 DEF RouterPaired
        <4> HIDE DEF w
        <4> QED BY <2>5, <3>1, <3>2, <3>3, <4>1, ThinsOwes DEF OutMine
      <3>6. ASSUME NEW p, p # NoId, SoleOwed(r, p) PROVE Fair(r, o, {}, p)
        <4>1. SoleOwed(o.st, p) /\ (Owes(o.st, p) => Owes(r, p)) /\ (Lists(o.st, p) => Lists(r, p))
          BY <2>5, <3>2, <3>6, ThinsOwes
        <4>2. SoleAct(o.acts, p) /\ ~InFin(o.fin, p) /\ SoleFin(o.fin, p) /\ (InActs(o.acts, p) => w.id = p)
          BY <3>1, <3>2, FewActs DEF AnswerTo
        <4>3. ASSUME w.id = p PROVE Awaits(r, p) /\ ~Owes(o.st, p)
          <5>1. WaitTo(r.waiting[n], p)
            BY <2>7, <4>3 DEF WaitTo
          <5>2. Awaits(r, p) /\ ~Lists(r, p)
            BY <1>2, <3>6, <5>1 DEF Awaits, SoleOwed
          <5>3. \A m \in DOMAIN W2 : m # n /\ m \in DOMAIN r.waiting /\ W2[m] = r.waiting[m]
            BY <2>2 DEF Shrinks
          <5>4. ~Awaits(o.st, p)
            BY <1>2, <2>3, <3>2, <3>6, <5>1, <5>3 DEF SoleOwed, Awaits
          <5> QED BY <4>1, <5>2, <5>4 DEF Owes
        <4> QED BY <4>1, <4>2, <4>3 DEF Fair, Owes
      <3> QED BY <2>5, <3>1, <3>2, <3>4, <3>5, <3>6, FewActs
    <2>8. CASE w.kind # "agent"
      <3>1. o = OnPage(rest, w.job, w.server, page) /\ w.server \in ServerSet
        BY <2>1, <2>6, <2>8 DEF IsWait
      <3>2. PICK job, server : job = w.job /\ server = w.server
        OBVIOUS
      <3>3. o = OnPage(rest, job, server, page) /\ server \in ServerSet
        BY <3>1, <3>2
      <3>4. /\ Traced(rest, o, 0) /\ Mute(o.acts) /\ Uncancelling(o.acts) /\ Thins(rest, o.st)
            /\ RouterPaired(rest) => OutMine(o)
            /\ \A p : p # NoId /\ SoleOwed(rest, p) => Fair(rest, o, {}, p)
        BY <2>4, <3>3, PageTraced
      <3>5. Traced(r, o, 0)
        BY <2>2, <2>3, <3>4 DEF Traced, Shrinks
      <3>6. Thins(r, o.st)
        BY <2>5, <3>4 DEF Thins
      <3>7. RouterPaired(r) => OutMine(o)
        BY <2>5, <3>4, ThinsOwes
      <3>8. ASSUME NEW p, p # NoId, SoleOwed(r, p) PROVE Fair(r, o, {}, p)
        <4>1. SoleOwed(rest, p) /\ (Owes(rest, p) => Owes(r, p))
          BY <2>5, <3>8, ThinsOwes
        <4>2. Fair(rest, o, {}, p)
          BY <3>4, <3>8, <4>1
        <4> QED BY <4>1, <4>2 DEF Fair
      <3> QED BY <3>4, <3>5, <3>6, <3>7, <3>8
    <2> QED BY <2>7, <2>8
  <1> QED BY <1>1, <1>2

\* What a line of a server or an undelivered message becomes.
InGoal(r, o) ==
    /\ Traced(r, o, 0) /\ Uncancelling(o.acts) /\ OutMine(o)
    /\ \A p : p # NoId /\ SoleOwed(r, p) => Fair(r, o, {}, p)

\* on_routed_line.
LEMMA LineTraced ==
    ASSUME NEW r, RouterInv(r), RouterPaired(r), NEW server \in ServerSet, NEW line, IsLine(line),
           line.what = "reply" /\ line.id \in DOMAIN r.waiting => r.waiting[line.id].origin = line.origin,
           NEW o, o = OnRoutedLine(r, server, line)
    PROVE  InGoal(r, o)
PROOF
  <1>0. RouterTyped(r)
    BY DEF RouterInv, RouterOwes
  <1>1. CASE line.what = "request"
    <2>1. PICK a : a = ToUpstream(server, [method |-> "refusal", id |-> NoId, tool |-> <<>>, ref |-> NoId, origin |-> 0])
      OBVIOUS
    <2>2. a.to # "agent" /\ a.msg.id = NoId /\ a.msg.method = "refusal"
      BY <2>1, NotAgent DEF ToUpstream
    <2>3. o = Out(r, <<a>>, <<>>)
      BY <1>1, <2>1 DEF OnRoutedLine
    <2>4. o.st = r /\ o.acts = <<a>> /\ o.fin = <<>>
      BY <2>3 DEF Out
    <2>5. Traced(r, o, 0) /\ Mute(o.acts) /\ Uncancelling(o.acts) /\ Thins(r, o.st) /\ Idle(o.fin)
      BY <2>2, <2>3, <2>4, <1>0, StaysTraced, FewActs
    <2> QED BY <2>5, SilentFair DEF InGoal
  <1>2. CASE line.what = "list_changed"
    <2> DEFINE servers == <<server>>
               listing == StartListing(r, NoAgent, servers)
    <2>1. o = [listing EXCEPT !.acts = Append(@, ToAgent(Notice))]
      BY <1>2 DEF OnRoutedLine
    <2>2. servers \in Seq(ServerSet) /\ \A i, j \in 1..Len(servers) : servers[i] = servers[j] => i = j
      OBVIOUS
    <2>3. listing \in [st : {listing.st}, acts : {listing.acts}, fin : {listing.fin}]
      BY DEF StartListing, Out
    <2> HIDE DEF servers
    <2>4. PICK none : none = NoAgent
      OBVIOUS
    <2>5. listing = StartListing(r, none, servers)
      BY <2>4
    <2> HIDE DEF listing
    <2>6. /\ Traced(r, listing, 0) /\ Mute(listing.acts) /\ Uncancelling(listing.acts)
          /\ none = NoAgent => Thins(r, listing.st) /\ Idle(listing.fin)
      BY <2>2, <2>5, <1>0, ListingTraced
    <2>7. PICK T : listing.acts \in Seq(T)
      <3>1. OutOK(listing)
        BY <2>2, ListingStarted DEF listing
      <3> QED BY <3>1 DEF OutOK, ActsOK
    <2>8. PICK a : a = ToAgent(Notice)
      OBVIOUS
    <2>9. a.to = "agent" /\ a.msg.id = NoId
      BY <2>8 DEF ToAgent, Notice, Reply
    <2>10. o.st = listing.st /\ o.acts = Append(listing.acts, a) /\ o.fin = listing.fin
      BY <2>1, <2>3, <2>8
    <2>11. PICK k \in Nat : k = Len(listing.acts)
      BY <2>7
    <2>12. /\ DOMAIN o.acts = 1..(k + 1) /\ DOMAIN listing.acts = 1..k
           /\ \A i \in 1..k : o.acts[i] = listing.acts[i]
           /\ o.acts[k + 1] = a
      BY <2>7, <2>10, <2>11
    <2>13. \A i \in DOMAIN o.acts : (i \in DOMAIN listing.acts /\ o.acts[i] = listing.acts[i]) \/ o.acts[i] = a
      BY <2>12
    <2>14. Mute(o.acts) /\ Uncancelling(o.acts)
      BY <2>6, <2>9, <2>13 DEF Mute, Uncancelling
    <2>15. Traced(r, o, 0)
      BY <2>6, <2>9, <2>10, <2>13 DEF Traced
    <2> QED BY <2>4, <2>6, <2>10, <2>14, <2>15, SilentFair DEF InGoal
  <1>3. CASE line.what = "notification"
    <2>1. PICK a : a = ToAgent(Notice)
      OBVIOUS
    <2>2. a.to = "agent" /\ a.msg.id = NoId
      BY <2>1 DEF ToAgent, Notice, Reply
    <2>3. o = Out(r, <<a>>, <<>>)
      BY <1>3, <2>1 DEF OnRoutedLine
    <2>4. o.st = r /\ o.acts = <<a>> /\ o.fin = <<>>
      BY <2>3 DEF Out
    <2>5. Traced(r, o, 0) /\ Mute(o.acts) /\ Uncancelling(o.acts) /\ Thins(r, o.st) /\ Idle(o.fin)
      BY <2>2, <2>3, <2>4, <1>0, StaysTraced, FewActs
    <2> QED BY <2>5, SilentFair DEF InGoal
  <1>4. CASE line.what = "reply"
    <2>1. PICK n, what, origin, page : n = line.id /\ what = "result" /\ origin = line.origin /\ page = line.page
      OBVIOUS
    <2>2. PICK relayed : relayed = Reply(n, what, origin)
      OBVIOUS
    <2>3. o = TakeReply(r, n, relayed, page)
      BY <1>4, <2>1, <2>2 DEF OnRoutedLine
    <2>4. IsPage(page)
      BY <2>1 DEF IsLine
    <2>5. /\ Traced(r, o, 0) /\ Uncancelling(o.acts) /\ Thins(r, o.st)
          /\ RouterPaired(r) /\ (n \in DOMAIN r.waiting => r.waiting[n].origin = origin) => OutMine(o)
          /\ \A p : p # NoId /\ SoleOwed(r, p) => Fair(r, o, {}, p)
      BY <2>2, <2>3, <2>4, <1>0, TakenTraced
    <2> QED BY <1>4, <2>1, <2>5 DEF InGoal
  <1> QED BY <1>1, <1>2, <1>3, <1>4 DEF IsLine

\* on_upstream_error.
LEMMA ErrorTraced ==
    ASSUME NEW r, RouterTyped(r), RouterPaired(r), NEW msg, NEW o, o = OnRoutedError(r, msg)
    PROVE  InGoal(r, o)
PROOF
  <1>1. CASE msg.id = NoId \/ msg.id \notin DOMAIN r.waiting
    <2>1. o = Out(r, <<>>, <<>>)
      BY <1>1 DEF OnRoutedError
    <2>2. o.st = r /\ o.acts = <<>> /\ o.fin = <<>>
      BY <2>1 DEF Out
    <2>3. Traced(r, o, 0) /\ Mute(o.acts) /\ Uncancelling(o.acts) /\ Thins(r, o.st) /\ Idle(o.fin)
      BY <2>1, <2>2, StaysTraced, FewActs
    <2> QED BY <2>3, SilentFair DEF InGoal
  <1>2. CASE ~(msg.id = NoId \/ msg.id \notin DOMAIN r.waiting)
    <2>1. PICK n, what, origin, page : n = msg.id /\ what = "upstream_unavailable" /\ origin = r.waiting[n].origin /\ page = ErrorPage
      OBVIOUS
    <2>2. PICK relayed : relayed = Reply(n, what, origin)
      OBVIOUS
    <2>3. o = TakeReply(r, n, relayed, page)
      BY <1>2, <2>1, <2>2 DEF OnRoutedError
    <2>4. IsPage(page)
      <3>1. <<>> \in Seq({}) /\ ErrorPage.tools = <<>>
        BY DEF ErrorPage
      <3> QED BY <2>1, <3>1, Zenon DEF IsPage, IsSeq
    <2>5. /\ Traced(r, o, 0) /\ Uncancelling(o.acts) /\ Thins(r, o.st)
          /\ RouterPaired(r) /\ (n \in DOMAIN r.waiting => r.waiting[n].origin = origin) => OutMine(o)
          /\ \A p : p # NoId /\ SoleOwed(r, p) => Fair(r, o, {}, p)
      BY <2>2, <2>3, <2>4, TakenTraced
    <2> QED BY <2>1, <2>5 DEF InGoal
  <1> QED BY <1>1, <1>2

\* A finite set as a sequence has no repetition.
LEMMA SetToSeqOnce ==
    ASSUME NEW S, IsFiniteSet(S)
    PROVE  \A i, j \in DOMAIN SetToSeq(S) : SetToSeq(S)[i] = SetToSeq(S)[j] => i = j
PROOF
  <1>1. Cardinality(S) \in Nat /\ ExistsBijection(1..Cardinality(S), S)
    BY FS_CardinalityType
  <1>2. PICK f \in [1..Cardinality(S) -> S] : IsInjective(f)
    BY <1>1 DEF ExistsBijection, Bijection, Injection
  <1>3. IsInjective(SetToSeq(S))
    BY <1>2, Zenon DEF SetToSeq
  <1> QED BY <1>3 DEF IsInjective

\* server_gone: each request it left is answered once, each listing that ends is finished once.
LEMMA GoneTraced ==
    ASSUME NEW r, RouterTyped(r), RouterPaired(r), NEW server \in ServerSet, NEW o, o = ServerGone(r, server)
    PROVE  InGoal(r, o)
PROOF
  <1> DEFINE ours == {n \in DOMAIN r.waiting : r.waiting[n].server = server}
             asking == {n \in ours : r.waiting[n].kind = "agent"}
             agents == SetToSeq(asking)
             touched == {r.waiting[n].job : n \in {n \in ours : r.waiting[n].kind = "list"}} \cap DOMAIN r.jobs
             without(job) == [r.jobs[job] EXCEPT !.remaining = @ \ {server}, !.tools = Forget(@, {server})]
             over == {job \in touched : without(job).remaining = {}}
             ended == SetToSeq(over)
             W2 == Forget(r.waiting, ours)
             J2 == [job \in DOMAIN r.jobs \ over |-> IF job \in touched THEN without(job) ELSE r.jobs[job]]
             q == [r EXCEPT !.gone = @ \cup {server}, !.waiting = W2, !.jobs = J2]
             acts == [i \in DOMAIN agents |->
                        ToAgent(Reply(r.waiting[agents[i]].id, "upstream_unavailable", r.waiting[agents[i]].origin))]
             fin == [i \in DOMAIN ended |-> without(ended[i])]
  <1>0. r.nextId \in Nat /\ RouterShape(r) /\ r.nextJob \in Nat
    BY DEF RouterTyped, RouterShape
  <1>1. o = Out(q, acts, fin)
    BY Zenon DEF ServerGone
  <1>2. \A job \in DOMAIN r.jobs : without(job).agent = r.jobs[job].agent
    BY DEF RouterTyped, IsListing
  <1> HIDE DEF without
  <1>3. touched \subseteq DOMAIN r.jobs
    OBVIOUS
  <1> HIDE DEF touched
  <1>4. over \subseteq DOMAIN r.jobs
    BY <1>3
  <1> HIDE DEF over
  <1>5. IsFiniteSet(asking) /\ IsFiniteSet(over)
    <2>1. /\ r.nextId - 1 \in Int /\ r.nextJob - 1 \in Int
          /\ asking \subseteq 1..(r.nextId - 1) /\ over \subseteq 1..(r.nextJob - 1)
      BY <1>0, <1>4 DEF RouterTyped
    <2> HIDE DEF asking
    <2>2. IsFiniteSet(1..(r.nextId - 1)) /\ IsFiniteSet(1..(r.nextJob - 1))
      BY <2>1, FS_Interval
    <2> QED BY <2>1, <2>2, FS_Subset
  <1>6. \A n \in asking : n \in DOMAIN r.waiting /\ n \in ours /\ r.waiting[n].kind = "agent"
    OBVIOUS
  <1> HIDE DEF asking
  <1>7. (\A i \in DOMAIN agents : agents[i] \in asking) /\ \A i, j \in DOMAIN agents : agents[i] = agents[j] => i = j
    BY <1>5, SetToSeqIs, SetToSeqOnce
  <1>8. (\A i \in DOMAIN ended : ended[i] \in over) /\ \A i, j \in DOMAIN ended : ended[i] = ended[j] => i = j
    BY <1>5, SetToSeqIs, SetToSeqOnce
  <1> HIDE DEF agents, ended
  <1>9. Shrinks(r.waiting, W2, ours)
    BY DEF Shrinks, Forget, Restrict
  <1> HIDE DEF ours
  <1>10. DOMAIN J2 = DOMAIN r.jobs \ over /\ \A j \in DOMAIN J2 : j \in DOMAIN r.jobs /\ J2[j].agent = r.jobs[j].agent
    BY <1>2
  <1>11. DOMAIN acts = DOMAIN agents /\ \A i \in DOMAIN agents :
            acts[i].to = "agent" /\ acts[i].msg.id = r.waiting[agents[i]].id /\ acts[i].msg.origin = r.waiting[agents[i]].origin
    BY DEF ToAgent, Reply
  <1>12. DOMAIN fin = DOMAIN ended /\ \A i \in DOMAIN ended : fin[i].agent = r.jobs[ended[i]].agent
    BY <1>2, <1>4, <1>8
  <1> HIDE DEF W2, J2, acts, fin
  <1>13. q.waiting = W2 /\ q.jobs = J2 /\ q.nextId = r.nextId
    BY <1>0 DEF RouterShape
  <1> HIDE DEF q
  <1>14. o.st = q /\ o.acts = acts /\ o.fin = fin
    BY <1>1 DEF Out
  <1>15. Traced(r, o, 0)
    BY <1>0, <1>9, <1>11, <1>13, <1>14 DEF Traced, Shrinks
  <1>16. Thins(r, q)
    BY <1>9, <1>10, <1>13 DEF Thins, Shrinks
  <1>17. Uncancelling(o.acts)
    BY <1>11, <1>14 DEF Uncancelling
  <1>18. OutMine(o)
    <2>1. \A i \in DOMAIN acts : Mine(acts[i].msg.id, acts[i].msg.origin)
      BY <1>6, <1>7, <1>11 DEF RouterPaired
    <2>2. \A i \in DOMAIN fin : fin[i].agent # NoAgent => Mine(fin[i].agent.id, fin[i].agent.origin)
      BY <1>4, <1>8, <1>12 DEF RouterPaired
    <2> QED BY <1>14, <1>16, <2>1, <2>2, ThinsOwes DEF OutMine
  <1>19. ASSUME NEW p, p # NoId, SoleOwed(r, p) PROVE Fair(r, o, {}, p)
    <2>1. SoleOwed(q, p) /\ (Owes(q, p) => Owes(r, p)) /\ (Lists(q, p) => Lists(r, p)) /\ (Awaits(q, p) => Awaits(r, p))
      BY <1>16, <1>19, ThinsOwes
    <2>2. \A i \in DOMAIN acts : AnswerTo(acts[i], p) => WaitTo(r.waiting[agents[i]], p) /\ agents[i] \in DOMAIN r.waiting /\ agents[i] \in ours
      BY <1>6, <1>7, <1>11 DEF AnswerTo, WaitTo
    <2>3. \A i \in DOMAIN fin : ListingTo(fin[i], p) => ListingTo(r.jobs[ended[i]], p) /\ ended[i] \in DOMAIN r.jobs /\ ended[i] \in over
      BY <1>4, <1>8, <1>12 DEF ListingTo
    <2>4. SoleAct(acts, p)
      BY <1>7, <1>11, <1>19, <2>2 DEF SoleAct, SoleOwed
    <2>5. SoleFin(fin, p)
      BY <1>8, <1>12, <1>19, <2>3 DEF SoleFin, SoleOwed
    <2>6. ASSUME InActs(acts, p) PROVE Awaits(r, p) /\ ~Lists(r, p) /\ ~Awaits(q, p)
      <3>1. PICK i \in DOMAIN acts : AnswerTo(acts[i], p)
        BY <2>6 DEF InActs
      <3>2. Awaits(r, p) /\ ~Lists(r, p)
        BY <1>19, <2>2, <3>1 DEF Awaits, SoleOwed
      <3>3. \A m \in DOMAIN W2 : m \notin ours /\ m \in DOMAIN r.waiting /\ W2[m] = r.waiting[m]
        BY <1>9 DEF Shrinks
      <3>4. ~Awaits(q, p)
        BY <1>13, <1>19, <2>2, <3>1, <3>3 DEF Awaits, SoleOwed
      <3> QED BY <3>2, <3>4
    <2>7. ASSUME InFin(fin, p) PROVE Lists(r, p) /\ ~Awaits(r, p) /\ ~Lists(q, p)
      <3>1. PICK i \in DOMAIN fin : ListingTo(fin[i], p)
        BY <2>7 DEF InFin
      <3>2. Lists(r, p) /\ ~Awaits(r, p)
        BY <1>19, <2>3, <3>1 DEF Lists, SoleOwed
      <3>3. \A j \in DOMAIN J2 : j \notin over /\ (ListingTo(J2[j], p) => ListingTo(r.jobs[j], p))
        BY <1>10 DEF ListingTo
      <3>4. ~Lists(q, p)
        BY <1>10, <1>13, <1>19, <2>3, <3>1, <3>3 DEF Lists, SoleOwed
      <3> QED BY <3>2, <3>4
    <2> QED BY <1>14, <2>1, <2>4, <2>5, <2>6, <2>7 DEF Fair, Owes
  <1> QED BY <1>15, <1>17, <1>18, <1>19 DEF InGoal

(***************************************************************************)
(* What a step leaves alone.                                               *)
(***************************************************************************)
\* The parts of the pairs' books.
LEMMA PairParts ==
    ASSUME PairBooks
    PROVE  /\ AnswersTyped /\ RepliesMatch /\ (\A t \in Threads : ThreadPaired(t)) /\ (\A p \in Posts : PostPaired(p)) /\ NewUnnumbered
           /\ WaitersPaired /\ RouterPaired(st) /\ PairsOK /\ CancelsPaired /\ SentPaired /\ OnceOK
BY DEF PairBooks, Carriers

\* The parts make the books again.
LEMMA PairsTogether ==
    ASSUME AnswersTyped', RepliesMatch', \A t \in Threads : ThreadPaired(t)', \A p \in Posts : PostPaired(p)', NewUnnumbered',
           WaitersPaired', RouterPaired(st)', PairsOK', CancelsPaired', SentPaired', OnceOK'
    PROVE  PairBooks'
BY DEF PairBooks, Carriers

\* A message that has arrived keeps its number and its session.
Settled ==
    mode' = mode /\ \A p \in Posts : post[p].phase # "new" => post'[p].phase # "new" /\ post'[p].n = post[p].n /\ post'[p].session = post[p].session

\* What is paired stays paired while messages keep their numbers and sessions.
LEMMA MineFrame ==
    ASSUME PairBooks, Settled
    PROVE  /\ \A id, o : Mine(id, o) => Mine(id, o)'
           /\ \A p : Arrived(p) => Arrived(p)' /\ post'[p].session = post[p].session
           /\ \A ref, p : NamesOwn(ref, p) => NamesOwn(ref, p)'
           /\ \A t, a : AnswerPaired(t, a) => AnswerPaired(t, a)'
           /\ \A t, f : FinPaired(t, f) => FinPaired(t, f)'
           /\ \A t, x : WorkPaired(t, x) => WorkPaired(t, x)'
           /\ \A r : RouterPaired(r) => RouterPaired(r)'
           /\ \A x, p : Deciding(x, p) => Deciding(x, p)'
PROOF
  <1>0. \A p \in Posts : post[p].n # NoId => post[p].phase # "new" /\ post'[p].n = post[p].n /\ post'[p].session = post[p].session
    BY PairParts DEF NewUnnumbered, Settled
  <1>1. ASSUME NEW id, NEW o, Mine(id, o) PROVE Mine(id, o)'
    BY <1>0, <1>1 DEF Mine, AgentId, Settled
  <1>2. ASSUME NEW p, Arrived(p) PROVE Arrived(p)' /\ post'[p].session = post[p].session
    BY <1>2 DEF Arrived, Settled
  <1>3. ASSUME NEW ref, NEW p, NamesOwn(ref, p) PROVE NamesOwn(ref, p)'
    <2>1. PICK q \in Posts : ref # NoId /\ Arrived(p) /\ post[q].n = ref /\ post[q].session = post[p].session
      BY <1>3 DEF NamesOwn
    <2>2. post'[q].n = ref /\ post'[q].session = post'[p].session
      BY <1>0, <1>2, <2>1
    <2> QED BY <1>2, <2>1, <2>2 DEF NamesOwn
  <1>4. ASSUME NEW t, NEW a, AnswerPaired(t, a) PROVE AnswerPaired(t, a)'
    BY <1>1, <1>4 DEF AnswerPaired
  <1>5. ASSUME NEW t, NEW f, FinPaired(t, f) PROVE FinPaired(t, f)'
    BY <1>1, <1>5 DEF FinPaired
  <1>6. ASSUME NEW t, NEW x, WorkPaired(t, x) PROVE WorkPaired(t, x)'
    BY <1>4, <1>5, <1>6 DEF WorkPaired
  <1>7. ASSUME NEW r, RouterPaired(r) PROVE RouterPaired(r)'
    BY <1>1, <1>7 DEF RouterPaired
  <1>8. ASSUME NEW x, NEW p, Deciding(x, p) PROVE Deciding(x, p)'
    BY <1>1, <1>3, <1>8 DEF Deciding, Settled
  <1> QED BY <1>1, <1>2, <1>3, <1>4, <1>5, <1>6, <1>7, <1>8

\* New numbers come from the router, and are of one agent message.
NewPairs(w) ==
    /\ st.nextId \in Nat /\ st'.nextId \in Nat /\ st.nextId <= st'.nextId
    /\ \A x \in Pairs' : x[1] = NoId \/ x \in Pairs \/ (x[1] \in st.nextId..(st'.nextId - 1) /\ x[2] = w)

\* Numbers stay of one message, and a cancellation stays one of its own session.
LEMMA PairsFrame ==
    ASSUME TransportBooks, PairBooks, Settled, Routed => \E w : NewPairs(w)
    PROVE  PairsOK' /\ \A m : CancelOK(m) => CancelOK(m)'
PROOF
  <1>0. mode' = mode /\ (Routed' <=> Routed)
    BY DEF Settled, Routed
  <1>1. CASE ~Routed
    <2>1. PairsOK'
      BY <1>0, <1>1 DEF PairsOK
    <2>2. mode # "listen"
      BY <1>1 DEF Routed
    <2>3. \A m : CancelOK(m) => CancelOK(m)'
      BY <1>0, <2>2, MineFrame DEF CancelOK
    <2> QED BY <2>1, <2>3
  <1>2. CASE Routed
    <2>1. PICK w : NewPairs(w)
      BY <1>2
    <2>2. PICK k \in Nat : k = st.nextId
      BY <2>1 DEF NewPairs
    <2>3. PICK e \in Nat : e = st'.nextId
      BY <2>1 DEF NewPairs
    <2>4. k <= e /\ \A x \in Pairs' : x[1] = NoId \/ x \in Pairs \/ (x[1] \in k..(e - 1) /\ x[2] = w)
      BY <2>1, <2>2, <2>3 DEF NewPairs
    <2>5. (\A x \in Pairs : x[1] # NoId => x[1] \in 1..(k - 1)) /\ \A x, y \in Pairs : x[1] # NoId /\ x[1] = y[1] => x[2] = y[2]
      BY <1>2, <2>2, PairParts DEF PairsOK
    <2>6. k # 0
      BY <2>2, Parts DEF RouterInv, RouterOwes, RouterTyped, RouterShape
    <2>7. PICK Q : Q = Pairs'
      OBVIOUS
    <2>8. \A x \in Q : x[1] # NoId => x[1] \in 1..(e - 1)
      BY <2>4, <2>5, <2>6, <2>7 DEF NoId
    <2>9. \A x \in Q : x[1] # NoId /\ x[1] \in 1..(k - 1) => x \in Pairs
      BY <2>4, <2>7
    <2>10. ASSUME NEW x \in Q, NEW y \in Q, x[1] # NoId, x[1] = y[1] PROVE x[2] = y[2]
      <3>1. CASE x \in Pairs
        BY <2>5, <2>9, <2>10, <3>1
      <3>2. CASE x \notin Pairs
        <4>1. x[1] \in k..(e - 1) /\ x[2] = w
          BY <2>4, <2>7, <2>10, <3>2
        <4>2. y \notin Pairs
          BY <2>5, <2>10, <4>1
        <4>3. y[2] = w
          BY <2>4, <2>7, <2>10, <4>2
        <4> QED BY <4>1, <4>3
      <3> QED BY <3>1, <3>2
    <2>11. PairsOK'
      BY <2>3, <2>7, <2>8, <2>10 DEF PairsOK
    <2>12. ASSUME NEW m, CancelPaired(m) PROVE CancelPaired(m)'
      <3>1. m.ref \in 1..(k - 1) /\ Arrived(m.origin) /\ \A x \in Pairs : x[1] = m.ref => Arrived(x[2]) /\ post[x[2]].session = post[m.origin].session
        BY <2>2, <2>12 DEF CancelPaired
      <3>2. m.ref \in 1..(e - 1) /\ m.ref # NoId
        BY <2>4, <3>1 DEF NoId
      <3>3. Arrived(m.origin)' /\ post'[m.origin].session = post[m.origin].session
        BY <3>1, MineFrame
      <3>4. ASSUME NEW x \in Q, x[1] = m.ref PROVE Arrived(x[2])' /\ post'[x[2]].session = post'[m.origin].session
        <4>1. x \in Pairs
          BY <2>9, <3>1, <3>2, <3>4
        <4>2. Arrived(x[2]) /\ post[x[2]].session = post[m.origin].session
          BY <3>1, <3>4, <4>1
        <4>3. Arrived(x[2])' /\ post'[x[2]].session = post[x[2]].session
          BY <4>2, MineFrame
        <4> QED BY <3>3, <4>2, <4>3
      <3> QED BY <2>3, <2>7, <3>2, <3>3, <3>4 DEF CancelPaired
    <2>13. \A m : CancelOK(m) => CancelOK(m)'
      BY <1>0, <2>12, MineFrame DEF CancelOK
    <2> QED BY <2>11, <2>13
  <1> QED BY <1>1, <1>2

\* The pairs, by where they are.
LEMMA PairsFrom ==
    ASSUME TransportBooks, NEW w, st'.nextId \in Nat, st.nextId <= st'.nextId,
           \A n \in DOMAIN st'.waiting :
                \/ n \in DOMAIN st.waiting /\ st'.waiting[n].origin = st.waiting[n].origin
                \/ n \in st.nextId..(st'.nextId - 1) /\ st'.waiting[n].origin = w,
           \A m \in Held' : m \in Held \/ m.id = NoId \/ (m.id \in st.nextId..(st'.nextId - 1) /\ m.origin = w),
           Boxed' \subseteq Boxed \cup Held,
           \A l \in Lined' : l \in Lined \/ l.id = NoId \/ \E m \in Boxed : l.id = m.id /\ l.origin = m.origin,
           Sent' \subseteq Sent \cup Held
    PROVE  NewPairs(w)
PROOF
  <1>1. st.nextId \in Nat
    BY Parts DEF RouterInv, RouterOwes, RouterTyped, RouterShape
  <1>2. PICK H, B, L, S, W : H = Held' /\ B = Boxed' /\ L = Lined' /\ S = Sent' /\ W = st'.waiting
    OBVIOUS
  <1>3. Pairs' = {<<n, W[n].origin>> : n \in DOMAIN W} \cup {<<m.id, m.origin>> : m \in H \cup B \cup L \cup S}
    BY <1>2 DEF Pairs
  <1>4. (\A n \in DOMAIN st.waiting : <<n, st.waiting[n].origin>> \in Pairs) /\ \A m \in Held \cup Boxed \cup Lined \cup Sent : <<m.id, m.origin>> \in Pairs
    BY DEF Pairs
  <1>5. PICK k, e : k = st.nextId /\ e = st'.nextId - 1
    OBVIOUS
  <1> DEFINE Ok(x) == x[1] = NoId \/ x \in Pairs \/ (x[1] \in k..e /\ x[2] = w)
  <1>6. ASSUME NEW n \in DOMAIN W PROVE Ok(<<n, W[n].origin>>)
    BY <1>2, <1>4, <1>5, <1>6
  <1>7. ASSUME NEW m \in H \cup B \cup L \cup S PROVE Ok(<<m.id, m.origin>>)
    <2>1. CASE m \in Held \cup Boxed \cup Lined \cup Sent
      BY <1>4, <2>1
    <2>2. CASE m.id = NoId
      BY <2>2
    <2>3. CASE m.id \in k..e /\ m.origin = w
      BY <2>3
    <2>4. CASE \E b \in Boxed : m.id = b.id /\ m.origin = b.origin
      BY <1>4, <2>4
    <2> QED BY <1>2, <1>5, <1>7, <2>1, <2>2, <2>3, <2>4
  <1>8. \A x \in Pairs' : Ok(x)
    BY <1>3, <1>6, <1>7
  <1> QED BY <1>1, <1>5, <1>8 DEF NewPairs

\* The router's numbers stay as they are; what bears one moves on.
LEMMA PairsMove ==
    ASSUME TransportBooks, PairBooks, Settled, Routed => st' = st,
           Routed => \A m \in Held' : m \in Held \/ m.id = NoId,
           Routed => Boxed' \subseteq Boxed \cup Held,
           Routed => \A l \in Lined' : l \in Lined \/ l.id = NoId \/ \E m \in Boxed : l.id = m.id /\ l.origin = m.origin,
           Routed => Sent' \subseteq Sent \cup Held
    PROVE  PairsOK' /\ \A m : CancelOK(m) => CancelOK(m)'
PROOF
  <1>1. ASSUME Routed PROVE NewPairs(0)
    <2>1. st' = st /\ st.nextId \in Nat
      BY <1>1, Parts DEF RouterInv, RouterOwes, RouterTyped, RouterShape
    <2>2. /\ st'.nextId \in Nat /\ st.nextId <= st'.nextId
          /\ \A n \in DOMAIN st'.waiting :
                \/ n \in DOMAIN st.waiting /\ st'.waiting[n].origin = st.waiting[n].origin
                \/ n \in st.nextId..(st'.nextId - 1) /\ st'.waiting[n].origin = 0
      BY <2>1
    <2>3. PICK zero : zero = 0
      OBVIOUS
    <2>4. NewPairs(zero)
      BY <1>1, <2>2, <2>3, PairsFrom
    <2> QED BY <2>3, <2>4
  <1> QED BY <1>1, PairsFrame

(***************************************************************************)
(* What threads hold, piece by piece.                                      *)
(***************************************************************************)
\* Every action of b is one of a or of c, but for its mark.
Like(x, y) == x.to = y.to /\ x.msg = y.msg

\* The rest of a sequence.
LEMMA TailIs ==
    ASSUME NEW s, IsSeq(s), s # <<>>
    PROVE  /\ Head(s) = s[1] /\ 1 \in DOMAIN s
           /\ \A i \in DOMAIN Tail(s) : i + 1 \in DOMAIN s /\ i + 1 # 1 /\ Tail(s)[i] = s[i + 1]
           /\ \A i, j \in DOMAIN Tail(s) : i + 1 = j + 1 => i = j
PROOF
  <1>1. PICK T : s \in Seq(T)
    BY DEF IsSeq
  <1>2. PICK n \in Nat : n = Len(s) /\ n # 0 /\ DOMAIN s = 1..n
    BY <1>1
  <1>3. Tail(s) \in Seq(T) /\ Len(Tail(s)) = n - 1 /\ Head(s) = s[1]
    BY <1>1, <1>2
  <1>4. DOMAIN Tail(s) = 1..(n - 1)
    BY <1>3
  <1>5. \A i \in 1..(n - 1) : Tail(s)[i] = s[i + 1]
    BY <1>1, <1>2
  <1> QED BY <1>2, <1>3, <1>4, <1>5

\* An answer among the rest of a thread's actions was among them, and once only.
LEMMA TailActs ==
    ASSUME NEW acts, IsSeq(acts), acts # <<>>
    PROVE  /\ \A p : InActs(Tail(acts), p) => InActs(acts, p)
           /\ \A p : SoleAct(acts, p) => SoleAct(Tail(acts), p)
           /\ \A p : SoleAct(acts, p) /\ AnswerTo(Head(acts), p) => ~InActs(Tail(acts), p)
           /\ \A p : AnswerTo(Head(acts), p) => InActs(acts, p)
PROOF
  <1>0. PICK r : r = Tail(acts)
    OBVIOUS
  <1>1. /\ Head(acts) = acts[1] /\ 1 \in DOMAIN acts
        /\ \A i \in DOMAIN r : i + 1 \in DOMAIN acts /\ i + 1 # 1 /\ r[i] = acts[i + 1]
        /\ \A i, j \in DOMAIN r : i + 1 = j + 1 => i = j
    BY <1>0, TailIs
  <1>2. \A p : InActs(r, p) => InActs(acts, p)
    BY <1>1 DEF InActs
  <1>3. \A p : SoleAct(acts, p) => SoleAct(r, p)
    BY <1>1 DEF SoleAct
  <1>4. \A p : SoleAct(acts, p) /\ AnswerTo(Head(acts), p) => ~InActs(r, p)
    BY <1>1 DEF SoleAct, InActs
  <1>5. \A p : AnswerTo(Head(acts), p) => InActs(acts, p)
    BY <1>1 DEF InActs
  <1> QED BY <1>0, <1>2, <1>3, <1>4, <1>5

\* So it is with the listings to finish.
LEMMA TailFins ==
    ASSUME NEW fin, IsSeq(fin), fin # <<>>
    PROVE  /\ \A p : InFin(Tail(fin), p) => InFin(fin, p)
           /\ \A p : SoleFin(fin, p) => SoleFin(Tail(fin), p)
           /\ \A p : SoleFin(fin, p) /\ ListingTo(Head(fin), p) => ~InFin(Tail(fin), p)
           /\ \A p : ListingTo(Head(fin), p) => InFin(fin, p)
PROOF
  <1>0. PICK r : r = Tail(fin)
    OBVIOUS
  <1>1. /\ Head(fin) = fin[1] /\ 1 \in DOMAIN fin
        /\ \A i \in DOMAIN r : i + 1 \in DOMAIN fin /\ i + 1 # 1 /\ r[i] = fin[i + 1]
        /\ \A i, j \in DOMAIN r : i + 1 = j + 1 => i = j
    BY <1>0, TailIs
  <1>2. \A p : InFin(r, p) => InFin(fin, p)
    BY <1>1 DEF InFin
  <1>3. \A p : SoleFin(fin, p) => SoleFin(r, p)
    BY <1>1 DEF SoleFin
  <1>4. \A p : SoleFin(fin, p) /\ ListingTo(Head(fin), p) => ~InFin(r, p)
    BY <1>1 DEF SoleFin, InFin
  <1>5. \A p : ListingTo(Head(fin), p) => InFin(fin, p)
    BY <1>1 DEF InFin
  <1> QED BY <1>0, <1>2, <1>3, <1>4, <1>5

\* Two sequences in one.
JoinedAt(a, b, c, n) ==
    /\ \A i \in DOMAIN c : (i \in DOMAIN a /\ c[i] = a[i]) \/ (i \notin DOMAIN a /\ i - n \in DOMAIN b /\ c[i] = b[i - n])
    /\ \A i, j \in DOMAIN c : i - n = j - n => i = j
\* An element of two sequences in one is of the first or of the second.
LEMMA JoinIs ==
    ASSUME NEW a, IsSeq(a), NEW b, IsSeq(b), NEW c, c = a \o b
    PROVE  \E n : JoinedAt(a, b, c, n)
PROOF
  <1>1. PICK T : a \in Seq(T)
    BY DEF IsSeq
  <1>2. PICK U : b \in Seq(U)
    BY DEF IsSeq
  <1>3. PICK n \in Nat : n = Len(a) /\ DOMAIN a = 1..n
    BY <1>1
  <1>4. PICK m \in Nat : m = Len(b) /\ DOMAIN b = 1..m
    BY <1>2
  <1> DEFINE V == T \cup U
  <1>5. a \in Seq(V) /\ b \in Seq(V)
    BY <1>1, <1>2
  <1> HIDE DEF V
  <1>6. DOMAIN c = 1..(n + m) /\ \A i \in 1..(n + m) : c[i] = IF i <= n THEN a[i] ELSE b[i - n]
    BY <1>3, <1>4, <1>5
  <1>7. \A i \in 1..(n + m) : (i \in 1..n /\ i <= n) \/ (i \notin 1..n /\ i - n \in 1..m /\ ~(i <= n))
    OBVIOUS
  <1>8. \A i \in DOMAIN c : (i \in DOMAIN a /\ c[i] = a[i]) \/ (i \notin DOMAIN a /\ i - n \in DOMAIN b /\ c[i] = b[i - n])
    BY <1>3, <1>4, <1>6, <1>7
  <1>9. \A i, j \in DOMAIN c : i - n = j - n => i = j
    BY <1>6
  <1> QED BY <1>8, <1>9 DEF JoinedAt

\* So is an answer; it is there once if it is in one of them only.
LEMMA JoinActs ==
    ASSUME NEW a, IsSeq(a), NEW b, IsSeq(b)
    PROVE  /\ \A p : InActs(a \o b, p) => InActs(a, p) \/ InActs(b, p)
           /\ \A p : SoleAct(a, p) /\ SoleAct(b, p) /\ ~(InActs(a, p) /\ InActs(b, p)) => SoleAct(a \o b, p)
PROOF
  <1>0. PICK c : c = a \o b
    OBVIOUS
  <1>1. PICK n : JoinedAt(a, b, c, n)
    BY <1>0, JoinIs
  <1>2. \A p : InActs(c, p) => InActs(a, p) \/ InActs(b, p)
    BY <1>1 DEF InActs, JoinedAt
  <1>3. \A p : SoleAct(a, p) /\ SoleAct(b, p) /\ ~(InActs(a, p) /\ InActs(b, p)) => SoleAct(c, p)
    BY <1>1 DEF InActs, SoleAct, JoinedAt
  <1> QED BY <1>0, <1>2, <1>3

\* An action more, as a sequence of its own.
LEMMA AppendJoins ==
    ASSUME NEW acts, IsSeq(acts), NEW a
    PROVE  Append(acts, a) = acts \o <<a>> /\ IsSeq(<<a>>)
PROOF
  <1>1. PICK T : acts \in Seq(T)
    BY DEF IsSeq
  <1> DEFINE V == T \cup {a}
  <1>2. acts \in Seq(V) /\ a \in V
    BY <1>1
  <1> HIDE DEF V
  <1>3. Append(acts, a) = acts \o <<a>> /\ <<a>> \in Seq(V)
    BY <1>2
  <1> QED BY <1>3 DEF IsSeq

\* Marked actions are the actions they were.
LEMMA MarkActs ==
    ASSUME NEW acts, ActsOK(acts), NEW b, b \in {Direct(acts), Later(acts)}
    PROVE  /\ IsSeq(b) /\ DOMAIN b = DOMAIN acts /\ \A i \in DOMAIN b : Like(b[i], acts[i])
           /\ \A p : (InActs(b, p) <=> InActs(acts, p)) /\ (SoleAct(b, p) <=> SoleAct(acts, p))
           /\ b = Later(acts) => \A i \in DOMAIN b : b[i].direct = FALSE
PROOF
  <1>1. /\ IsSeq(b) /\ DOMAIN b = DOMAIN acts
        /\ \A i \in DOMAIN acts : b[i].to = acts[i].to /\ b[i].msg = acts[i].msg
    <2>1. CASE b = Direct(acts)
      BY <2>1, MarkedActs DEF Direct
    <2>2. CASE b = Later(acts)
      BY <2>2, MarkedActs DEF Later
    <2> QED BY <2>1, <2>2
  <1>2. \A i \in DOMAIN acts : \A p : AnswerTo(b[i], p) <=> AnswerTo(acts[i], p)
    BY <1>1 DEF AnswerTo
  <1>3. \A p : (InActs(b, p) <=> InActs(acts, p)) /\ (SoleAct(b, p) <=> SoleAct(acts, p))
    BY <1>1, <1>2 DEF InActs, SoleAct
  <1>4. b = Later(acts) => \A i \in DOMAIN b : b[i].direct = FALSE
    BY DEF Later
  <1> QED BY <1>1, <1>3, <1>4 DEF Like

\* Listings ready to be finished are those the router ended.
LEMMA MarkFins ==
    ASSUME NEW fin, FinOK(fin), NEW d, NEW front, NEW g, g = Finishing(fin, d, front)
    PROVE  /\ IsSeq(g) /\ DOMAIN g = DOMAIN fin /\ \A i \in DOMAIN g : g[i].agent = fin[i].agent /\ g[i].direct = d
           /\ \A p : (InFin(g, p) <=> InFin(fin, p)) /\ (SoleFin(g, p) <=> SoleFin(fin, p))
PROOF
  <1>1. IsSeq(g)
    BY Finished DEF FinishingOK, IsSeq
  <1>2. DOMAIN g = DOMAIN fin /\ \A i \in DOMAIN g : g[i].agent = fin[i].agent /\ g[i].direct = d
    BY DEF Finishing
  <1>3. \A i \in DOMAIN fin : \A p : ListingTo(g[i], p) <=> ListingTo(fin[i], p)
    BY <1>2 DEF ListingTo
  <1>4. \A p : (InFin(g, p) <=> InFin(fin, p)) /\ (SoleFin(g, p) <=> SoleFin(fin, p))
    BY <1>2, <1>3 DEF InFin, SoleFin
  <1> QED BY <1>1, <1>2, <1>4
\* What a sequence of actions sends to servers.
Sends(acts) == {acts[i].msg : i \in {j \in DOMAIN acts : acts[j].to # "agent"}}
TodoPaired(t, acts) == \A i \in DOMAIN acts : AnswerPaired(t, acts[i])
FinsPaired(t, fin) == \A i \in DOMAIN fin : FinPaired(t, fin[i])

\* What no action, and one, send to servers.
LEMMA SendsIs ==
    /\ \A x : HeldBy(x) = Sends(x.todo)
    /\ \A t, x : WorkPaired(t, x) <=> FinsPaired(t, x.fin) /\ TodoPaired(t, x.todo)
    /\ Sends(<<>>) = {} /\ \A t : TodoPaired(t, <<>>) /\ FinsPaired(t, <<>>)
    /\ \A a : Sends(<<a>>) = IF a.to = "agent" THEN {} ELSE {a.msg}
    /\ \A t, a : TodoPaired(t, <<a>>) <=> AnswerPaired(t, a)
PROOF
  <1>1. \A a : DOMAIN <<a>> = {1} /\ <<a>>[1] = a
    OBVIOUS
  <1>2. DOMAIN <<>> = {}
    OBVIOUS
  <1>3. \A x : HeldBy(x) = Sends(x.todo)
    BY DEF HeldBy, Sends
  <1>4. \A t, x : WorkPaired(t, x) <=> FinsPaired(t, x.fin) /\ TodoPaired(t, x.todo)
    BY DEF WorkPaired, FinsPaired, TodoPaired
  <1>5. Sends(<<>>) = {} /\ \A t : TodoPaired(t, <<>>) /\ FinsPaired(t, <<>>)
    BY <1>2 DEF Sends, TodoPaired, FinsPaired
  <1>6. \A a : Sends(<<a>>) = IF a.to = "agent" THEN {} ELSE {a.msg}
    BY <1>1 DEF Sends
  <1>7. \A t, a : TodoPaired(t, <<a>>) <=> AnswerPaired(t, a)
    BY <1>1 DEF TodoPaired
  <1> QED BY <1>3, <1>4, <1>5, <1>6, <1>7

\* The rest of a thread's actions sends nothing else, and its first is paired.
LEMMA TailSends ==
    ASSUME NEW acts, IsSeq(acts), acts # <<>>
    PROVE  /\ Sends(Tail(acts)) \subseteq Sends(acts) /\ (Head(acts).to # "agent" => Head(acts).msg \in Sends(acts))
           /\ \A t : TodoPaired(t, acts) => TodoPaired(t, Tail(acts)) /\ AnswerPaired(t, Head(acts))
PROOF
  <1>0. PICK r : r = Tail(acts)
    OBVIOUS
  <1>1. /\ Head(acts) = acts[1] /\ 1 \in DOMAIN acts
        /\ \A i \in DOMAIN r : i + 1 \in DOMAIN acts /\ i + 1 # 1 /\ r[i] = acts[i + 1]
    BY <1>0, TailIs
  <1>2. Sends(r) \subseteq Sends(acts) /\ (Head(acts).to # "agent" => Head(acts).msg \in Sends(acts))
    BY <1>1 DEF Sends
  <1>3. \A t : TodoPaired(t, acts) => TodoPaired(t, r) /\ AnswerPaired(t, Head(acts))
    BY <1>1 DEF TodoPaired
  <1> QED BY <1>0, <1>2, <1>3

\* So are the listings to finish.
LEMMA TailFinsPaired ==
    ASSUME NEW fin, IsSeq(fin), fin # <<>>
    PROVE  \A t : FinsPaired(t, fin) => FinsPaired(t, Tail(fin)) /\ FinPaired(t, Head(fin))
PROOF
  <1>0. PICK r : r = Tail(fin)
    OBVIOUS
  <1>1. /\ Head(fin) = fin[1] /\ 1 \in DOMAIN fin
        /\ \A i \in DOMAIN r : i + 1 \in DOMAIN fin /\ i + 1 # 1 /\ r[i] = fin[i + 1]
    BY <1>0, TailIs
  <1> QED BY <1>0, <1>1 DEF FinsPaired

\* Two runs of actions send what each does.
LEMMA JoinSends ==
    ASSUME NEW a, IsSeq(a), NEW b, IsSeq(b)
    PROVE  /\ Sends(a \o b) \subseteq Sends(a) \cup Sends(b)
           /\ \A t : TodoPaired(t, a) /\ TodoPaired(t, b) => TodoPaired(t, a \o b)
PROOF
  <1>0. PICK c : c = a \o b
    OBVIOUS
  <1>1. PICK n : JoinedAt(a, b, c, n)
    BY <1>0, JoinIs
  <1>2. Sends(c) \subseteq Sends(a) \cup Sends(b)
    BY <1>1 DEF Sends, JoinedAt
  <1>3. \A t : TodoPaired(t, a) /\ TodoPaired(t, b) => TodoPaired(t, c)
    BY <1>1 DEF TodoPaired, JoinedAt
  <1> QED BY <1>0, <1>2, <1>3

\* What the router returned, marked.
LEMMA MarkSends ==
    ASSUME NEW o, ActsOK(o.acts), FinOK(o.fin), OutMine(o), NEW t
    PROVE  /\ Sends(Later(o.acts)) = Sends(o.acts) /\ Sends(Direct(o.acts)) = Sends(o.acts)
           /\ TodoPaired(t, Later(o.acts))
           /\ t \in Posts /\ (\A i \in DOMAIN o.acts : o.acts[i].to = "agent" => o.acts[i].msg.origin = t) => TodoPaired(t, Direct(o.acts))
           /\ \A front : FinsPaired(t, Finishing(o.fin, FALSE, front))
           /\ \A front : t \in Posts /\ (\A i \in DOMAIN o.fin : o.fin[i].agent # NoAgent => o.fin[i].agent.origin = t) => FinsPaired(t, Finishing(o.fin, TRUE, front))
PROOF
  <1>1. PICK d, l : d = Direct(o.acts) /\ l = Later(o.acts)
    OBVIOUS
  <1>2. /\ DOMAIN l = DOMAIN o.acts /\ (\A i \in DOMAIN l : l[i].to = o.acts[i].to /\ l[i].msg = o.acts[i].msg /\ l[i].direct = FALSE)
        /\ DOMAIN d = DOMAIN o.acts /\ (\A i \in DOMAIN d : d[i].to = o.acts[i].to /\ d[i].msg = o.acts[i].msg)
    <2>1. DOMAIN l = DOMAIN o.acts /\ \A i \in DOMAIN l : Like(l[i], o.acts[i]) /\ l[i].direct = FALSE
      BY <1>1, MarkActs
    <2>2. DOMAIN d = DOMAIN o.acts /\ \A i \in DOMAIN d : Like(d[i], o.acts[i])
      BY <1>1, MarkActs
    <2> QED BY <2>1, <2>2 DEF Like
  <1>3. Sends(l) = Sends(o.acts) /\ Sends(d) = Sends(o.acts)
    BY <1>2 DEF Sends
  <1>4. TodoPaired(t, l)
    BY <1>2 DEF TodoPaired, AnswerPaired, OutMine
  <1>5. t \in Posts /\ (\A i \in DOMAIN o.acts : o.acts[i].to = "agent" => o.acts[i].msg.origin = t) => TodoPaired(t, d)
    BY <1>2 DEF TodoPaired, AnswerPaired, OutMine
  <1>6. ASSUME NEW front PROVE FinsPaired(t, Finishing(o.fin, FALSE, front))
    <2>1. PICK g, no : no = FALSE /\ g = Finishing(o.fin, no, front)
      OBVIOUS
    <2>2. DOMAIN g = DOMAIN o.fin /\ \A i \in DOMAIN g : g[i].agent = o.fin[i].agent /\ g[i].direct = no
      BY <2>1, MarkFins
    <2>3. FinsPaired(t, g)
      BY <2>1, <2>2 DEF FinsPaired, FinPaired, OutMine
    <2> QED BY <2>1, <2>3
  <1>7. ASSUME NEW front, t \in Posts, \A i \in DOMAIN o.fin : o.fin[i].agent # NoAgent => o.fin[i].agent.origin = t
        PROVE  FinsPaired(t, Finishing(o.fin, TRUE, front))
    <2>1. PICK g, yes : yes = TRUE /\ g = Finishing(o.fin, yes, front)
      OBVIOUS
    <2>2. DOMAIN g = DOMAIN o.fin /\ \A i \in DOMAIN g : g[i].agent = o.fin[i].agent /\ g[i].direct = yes
      BY <2>1 DEF Finishing
    <2>3. FinsPaired(t, g)
      BY <1>7, <2>1, <2>2 DEF FinsPaired, FinPaired, OutMine
    <2> QED BY <2>1, <2>3
  <1> QED BY <1>1, <1>3, <1>4, <1>5, <1>6, <1>7

\* One thread's work changes, and with it what is held for servers.
LEMMA HeldStep ==
    ASSUME TransportBooks, NEW t \in Threads, NEW x, thread' = [thread EXCEPT ![t] = x]
    PROVE  /\ \A m \in Held' : m \in Held \/ m \in Sends(x.todo)
           /\ Sends(thread[t].todo) \subseteq Held
           /\ thread'[t] = x /\ \A u \in Threads : u # t => thread'[u] = thread[u]
PROOF
  <1>1. thread'[t] = x /\ \A u \in Threads : u # t => thread'[u] = thread[u]
    BY Parts DEF ThreadsOK
  <1>2. PICK H, T : H = Held' /\ T = thread'
    OBVIOUS
  <1>3. H = UNION {HeldBy(T[u]) : u \in Threads}
    BY <1>2 DEF Held
  <1>4. ASSUME NEW m \in H PROVE m \in Held \/ m \in Sends(x.todo)
    <2>1. PICK u \in Threads : m \in HeldBy(T[u])
      BY <1>3
    <2>2. CASE u = t
      BY <1>1, <1>2, <2>1, <2>2, SendsIs
    <2>3. CASE u # t
      BY <1>1, <1>2, <2>1, <2>3 DEF Held
    <2> QED BY <2>2, <2>3
  <1>5. Sends(thread[t].todo) \subseteq Held
    BY SendsIs DEF Held
  <1> QED BY <1>1, <1>2, <1>4, <1>5

\* What the router gave out, if it gave anything, is in one thread's work.
LEMMA OnceStep ==
    ASSUME NEW p, Once(p), NEW t \in Threads, \A u \in Threads : u # t => thread'[u] = thread[u],
           SoleOwed(st, p)', SoleHeld(thread[t], p)',
           Early(p)' \/ Owes(st, p)' \/ Holds(thread[t], p)' => Early(p) \/ Owes(st, p) \/ Holds(thread[t], p),
           Told(p)' => Told(p) \/ ((Owes(st, p) \/ Holds(thread[t], p)) /\ ~Early(p)' /\ ~Owes(st, p)' /\ ~Holds(thread[t], p)'),
           ~(Early(p)' /\ Owes(st, p)'), ~(Early(p)' /\ Holds(thread[t], p)'), ~(Owes(st, p)' /\ Holds(thread[t], p)')
    PROVE  Once(p)'
PROOF
  <1>1. PICK T, e, o, d : T = thread' /\ (e <=> Early(p)') /\ (o <=> Owes(st, p)') /\ (d <=> Told(p)')
    OBVIOUS
  <1>2. \A u \in Threads : u # t => T[u] = thread[u]
    BY <1>1
  <1>3. \A u \in Threads : SoleHeld(T[u], p)
    BY <1>1, <1>2 DEF Once
  <1>4. Early(p) \/ Owes(st, p) \/ Holds(thread[t], p) => ~Told(p) /\ \A u \in Threads : u # t => ~Holds(T[u], p)
    BY <1>2 DEF Once
  <1>5. e \/ o \/ Holds(T[t], p) => ~Told(p) /\ \A u \in Threads : u # t => ~Holds(T[u], p)
    BY <1>1, <1>4
  <1>6. d /\ (e \/ o \/ Holds(T[t], p)) => FALSE
    BY <1>1, <1>5
  <1>7. d => \A u \in Threads : ~Holds(T[u], p)
    <2>1. CASE Told(p)
      BY <1>1, <1>2, <1>6, <2>1 DEF Once
    <2>2. CASE ~Told(p) /\ d
      BY <1>1, <1>4, <2>2
    <2> QED BY <2>1, <2>2
  <1>8. \A u, v \in Threads : Holds(T[u], p) /\ Holds(T[v], p) => u = v
    BY <1>2, <1>5 DEF Once
  <1>9. e => ~o /\ ~d /\ \A u \in Threads : ~Holds(T[u], p)
    BY <1>1, <1>5, <1>6
  <1>10. o => ~d /\ \A u \in Threads : ~Holds(T[u], p)
    BY <1>1, <1>5, <1>6
  <1> HIDE DEF Once
  <1> QED BY <1>1, <1>3, <1>7, <1>8, <1>9, <1>10 DEF Once

\* Nothing that holds an answer changes.
LEMMA OnceStays ==
    ASSUME PairBooks, mode' = mode, mode = "stdio" => st' = st, mode = "stdio" => thread' = thread,
           mode = "stdio" => seen'.answers = seen.answers,
           \A p \in Posts : Early(p)' => Early(p)
    PROVE  OnceOK'
PROOF
  <1>1. ASSUME mode = "stdio", NEW p \in Posts, p # NoId PROVE Once(p)'
    <2>1. Once(p)
      BY <1>1, PairParts DEF OnceOK
    <2>2. Told(p)' <=> Told(p)
      BY <1>1 DEF Told
    <2>3. st' = st /\ thread' = thread /\ (Early(p)' => Early(p))
      BY <1>1
    <2> QED BY <2>1, <2>2, <2>3 DEF Once
  <1> QED BY <1>1 DEF OnceOK

\* Where numbers of the router may be after a step.
Numbering(w) ==
    /\ st'.nextId \in Nat /\ st.nextId <= st'.nextId
    /\ \A n \in DOMAIN st'.waiting :
         \/ n \in DOMAIN st.waiting /\ st'.waiting[n].origin = st.waiting[n].origin
         \/ n \in st.nextId..(st'.nextId - 1) /\ st'.waiting[n].origin = w
Fresh(w, m) == m.id = NoId \/ (m.id \in st.nextId..(st'.nextId - 1) /\ m.origin = w)
Pipes ==
    /\ Boxed' \subseteq Boxed \cup Held
    /\ \A l \in Lined' : l \in Lined \/ l.id = NoId \/ \E m \in Boxed : l.id = m.id /\ l.origin = m.origin
    /\ Sent' \subseteq Sent \cup Held

\* The servers' pipes stay as they are.
LEMMA PipesStay ==
    /\ (\A s \in ServerSet : srv'[s].inbox = srv[s].inbox /\ srv'[s].out = srv[s].out) => Boxed' = Boxed /\ Lined' = Lined
    /\ seen'.sent = seen.sent => Sent' = Sent
    /\ srv' = srv /\ seen'.sent = seen.sent => Pipes
PROOF
  <1>1. ASSUME \A s \in ServerSet : srv'[s].inbox = srv[s].inbox /\ srv'[s].out = srv[s].out PROVE Boxed' = Boxed /\ Lined' = Lined
    <2>1. PICK V : V = srv'
      OBVIOUS
    <2>2. \A s \in ServerSet : V[s].inbox = srv[s].inbox /\ V[s].out = srv[s].out
      BY <1>1, <2>1
    <2>3. Boxed' = UNION {V[s].inbox : s \in ServerSet} /\ Lined' = UNION {{V[s].out[i] : i \in DOMAIN V[s].out} : s \in ServerSet}
      BY <2>1 DEF Boxed, Lined
    <2>4. Boxed' = Boxed
      BY <2>2, <2>3 DEF Boxed
    <2>5. Lined' = Lined
      <3>1. ASSUME NEW l PROVE l \in Lined' <=> \E s \in ServerSet : \E i \in DOMAIN V[s].out : l = V[s].out[i]
        BY <2>3
      <3>2. ASSUME NEW l PROVE l \in Lined <=> \E s \in ServerSet : \E i \in DOMAIN srv[s].out : l = srv[s].out[i]
        BY DEF Lined
      <3>3. ASSUME NEW l PROVE l \in Lined' <=> l \in Lined
        BY <2>2, <3>1, <3>2
      <3> QED BY <3>3
    <2> QED BY <2>4, <2>5
  <1>2. seen'.sent = seen.sent => Sent' = Sent
    BY DEF Sent
  <1> QED BY <1>1, <1>2 DEF Pipes

\* So does what servers have seen.
LEMMA SentStays ==
    ASSUME PairBooks, mode' = mode, LateKept, seen'.sent = seen.sent
    PROVE  SentPaired'
PROOF
  <1>1. \A m : OfPost(m) => OfPost(m)'
    BY DEF OfPost, LateKept
  <1> QED BY <1>1, PairParts DEF SentPaired

\* Only agent messages, the listener, the client or what was seen change.
LEMMA AgentPairs ==
    ASSUME TransportBooks, PairBooks, Settled, LateKept, UNCHANGED <<st, thread>>,
           \A s \in ServerSet : srv'[s].inbox = srv[s].inbox /\ srv'[s].out = srv[s].out, seen'.sent = seen.sent,
           AnswersTyped', RepliesMatch', \A p \in Posts : PostPaired(p)', NewUnnumbered', WaitersPaired', OnceOK'
    PROVE  PairBooks'
PROOF
  <1>1. mode' = mode
    BY DEF Settled
  <1>2. Boxed' = Boxed /\ Lined' = Lined /\ Sent' = Sent
    BY PipesStay
  <1>3. Held' = Held
    BY DEF Held
  <1>4. PairsOK' /\ \A m : CancelOK(m) => CancelOK(m)'
    BY <1>2, <1>3, PairsMove
  <1>5. CancelsPaired'
    BY <1>2, <1>3, <1>4, PairParts DEF CancelsPaired
  <1>6. SentPaired'
    BY <1>1, SentStays
  <1>7. RouterPaired(st)'
    BY PairParts, MineFrame
  <1>8. \A t \in Threads : ThreadPaired(t)'
    BY PairParts, MineFrame DEF ThreadPaired
  <1> QED BY <1>4, <1>5, <1>6, <1>7, <1>8, PairsTogether

\* One thread's work changes.
LEMMA WorkPairs ==
    ASSUME TransportBooks, PairBooks, Settled, Pipes, NEW t \in Threads, NEW x, thread' = [thread EXCEPT ![t] = x],
           FinsPaired(t, x.fin), TodoPaired(t, x.todo),
           Routed => \E w : Numbering(w) /\ \A m \in Sends(x.todo) : m \in Held \/ Fresh(w, m),
           (\A m : CancelOK(m) => CancelOK(m)') => \A m \in Sends(x.todo) : m \in Held \/ CancelOK(m)',
           AnswersTyped', RepliesMatch', \A p \in Posts : PostPaired(p)', NewUnnumbered', WaitersPaired', RouterPaired(st)', SentPaired', OnceOK'
    PROVE  PairBooks'
PROOF
  <1>1. (\A m \in Held' : m \in Held \/ m \in Sends(x.todo)) /\ thread'[t] = x /\ \A u \in Threads : u # t => thread'[u] = thread[u]
    BY HeldStep
  <1>2. ASSUME Routed PROVE \E w : NewPairs(w)
    <2>1. PICK w : Numbering(w) /\ \A m \in Sends(x.todo) : m \in Held \/ Fresh(w, m)
      BY <1>2
    <2>2. \A m \in Held' : m \in Held \/ m.id = NoId \/ (m.id \in st.nextId..(st'.nextId - 1) /\ m.origin = w)
      BY <1>1, <2>1 DEF Fresh
    <2>3. NewPairs(w)
      BY <2>1, <2>2, PairsFrom DEF Numbering, Pipes
    <2> QED BY <2>3
  <1>3. PairsOK' /\ \A m : CancelOK(m) => CancelOK(m)'
    BY <1>2, PairsFrame
  <1>4. \A m \in Held \cup Sent : CancelOK(m)'
    BY <1>3, PairParts DEF CancelsPaired
  <1>5. \A m \in Held' \cup Sent' : CancelOK(m)'
    BY <1>1, <1>3, <1>4 DEF Pipes
  <1>6. CancelsPaired'
    BY <1>5 DEF CancelsPaired
  <1>7. ASSUME NEW u \in Threads PROVE ThreadPaired(u)'
    <2>1. WorkPaired(t, x) /\ WorkPaired(u, thread[u])
      BY SendsIs, PairParts DEF ThreadPaired
    <2>2. WorkPaired(t, x)' /\ WorkPaired(u, thread[u])
      BY <2>1, MineFrame
    <2>3. PICK y, z : y = thread[u] /\ z = thread'[u]
      OBVIOUS
    <2>4. WorkPaired(u, y)'
      BY <2>1, <2>3, MineFrame
    <2>5. WorkPaired(u, z)'
      <3>1. CASE u = t
        BY <1>1, <2>2, <2>3, <3>1
      <3>2. CASE u # t
        BY <1>1, <2>3, <2>4, <3>2
      <3> QED BY <3>1, <3>2
    <2> QED BY <2>3, <2>5 DEF ThreadPaired
  <1> QED BY <1>3, <1>6, <1>7, PairsTogether

\* One message changes.
LEMMA PostPairedSet ==
    ASSUME TransportBooks, PairBooks, Settled, NEW p \in Posts, NEW x, post' = [post EXCEPT ![p] = x], ReplyOf(x.direct, p), ReplyOf(x.reply, p),
           Deciding(x, p)', mode # "stdio" /\ seen'.answers[p] # <<>> => x.phase = "done", mode = "stdio" => x.phase # "wait",
           \A q \in Posts : q # p => seen'.answers[q] = seen.answers[q]
    PROVE  \A q \in Posts : PostPaired(q)'
PROOF
  <1>0. mode' = mode
    BY DEF Settled
  <1> SUFFICES ASSUME NEW q \in Posts PROVE PostPaired(q)'
    OBVIOUS
  <1>1. CASE q = p
    <2>1. post'[p] = x
      BY PostReplaced
    <2> QED BY <1>0, <1>1, <2>1 DEF PostPaired
  <1>2. CASE q # p
    <2>1. post'[q] = post[q] /\ seen'.answers[q] = seen.answers[q] /\ PostPaired(q)
      BY <1>2, PostReplaced, PairParts
    <2>2. PICK y : y = post[q]
      OBVIOUS
    <2>3. Deciding(y, q)'
      BY <2>1, <2>2, MineFrame DEF PostPaired
    <2>4. Deciding(post[q], q)'
      BY <2>1, <2>2, <2>3
    <2> QED BY <1>0, <2>1, <2>4 DEF PostPaired
  <1> QED BY <1>1, <1>2

\* No message changes.
LEMMA PostsPairedStay ==
    ASSUME TransportBooks, PairBooks, mode' = mode, post' = post, seen'.answers = seen.answers
    PROVE  /\ Settled /\ LateKept /\ (\A q \in Posts : PostPaired(q)') /\ NewUnnumbered' /\ RepliesMatch' /\ AnswersTyped'
           /\ hub'.waiters = hub.waiters => WaitersPaired'
           /\ st' = st => RouterPaired(st)'
PROOF
  <1>1. Settled
    BY DEF Settled
  <1>2. LateKept
    BY DEF LateKept, Early
  <1>3. ASSUME NEW q \in Posts PROVE PostPaired(q)'
    <2>1. PostPaired(q) /\ Deciding(post[q], q)
      BY PairParts DEF PostPaired
    <2>2. Deciding(post[q], q)'
      BY <1>1, <2>1, MineFrame
    <2> QED BY <2>1, <2>2 DEF PostPaired
  <1>4. NewUnnumbered' /\ RepliesMatch' /\ AnswersTyped'
    BY PairParts DEF NewUnnumbered, RepliesMatch, AnswersTyped
  <1>5. hub'.waiters = hub.waiters => WaitersPaired'
    BY PairParts DEF WaitersPaired
  <1>6. st' = st => RouterPaired(st)'
    BY <1>1, PairParts, MineFrame
  <1> QED BY <1>1, <1>2, <1>3, <1>4, <1>5, <1>6

\* A message is answered for the first time.
LEMMA AnsweredIs ==
    ASSUME TransportBooks, PairBooks, NEW p \in Posts, NEW reply, seen' = Answered(p, reply), seen.answers[p] = <<>>, reply.origin = p
    PROVE  /\ AnswersTyped' /\ RepliesMatch' /\ seen'.sent = seen.sent
           /\ seen'.answers[p] = <<p>> /\ \A q \in Posts : q # p => seen'.answers[q] = seen.answers[q]
PROOF
  <1>1. SeenShape(seen) /\ AnswersTyped /\ RepliesMatch
    BY Parts, PairParts DEF SessionOK
  <1>2. PICK A, S : A = [seen.answers EXCEPT ![p] = Append(@, reply.origin)] /\ S = seen.shown \cup Shown(reply)
    OBVIOUS
  <1>3. seen' = [seen EXCEPT !.answers = A, !.shown = S]
    <2>1. seen' = [seen EXCEPT !.answers[p] = Append(@, reply.origin), !.shown = @ \cup Shown(reply)]
      BY DEF Answered
    <2> HIDE DEF Shown
    <2> QED BY <1>1, <1>2, <2>1 DEF SeenShape
  <1>4. seen'.answers = A /\ seen'.sent = seen.sent
    BY <1>1, <1>3 DEF SeenShape
  <1>5. Append(<<>>, p) = <<p>>
    OBVIOUS
  <1>6. A = [q \in Posts |-> IF q = p THEN <<p>> ELSE seen.answers[q]]
    BY <1>1, <1>2, <1>5 DEF AnswersTyped
  <1>7. A[p] = <<p>> /\ (\A q \in Posts : q # p => A[q] = seen.answers[q]) /\ A = [q \in Posts |-> A[q]]
    BY <1>6
  <1>8. AnswersTyped'
    BY <1>4, <1>7 DEF AnswersTyped
  <1>9. \A q \in Posts : seen.answers[q] \in {<<>>, <<q>>}
    BY <1>1 DEF RepliesMatch
  <1>10. \A q \in Posts : A[q] \in {<<>>, <<q>>}
    BY <1>7, <1>9
  <1>11. RepliesMatch'
    BY <1>4, <1>10 DEF RepliesMatch
  <1> QED BY <1>4, <1>7, <1>8, <1>11

Forwards(p, x) ==
    /\ x.n = post[p].n /\ x.session = post[p].session /\ x.msg = post[p].msg
    /\ x.phase = post[p].phase \/ (post[p].phase = "decide" /\ x.phase = "dispatch") \/ x.phase \notin {"new", "decide", "dispatch"}
    /\ post[p].phase = "done" => x.phase = "done"
    /\ ReplyOf(x.direct, p) /\ ReplyOf(x.reply, p) /\ (mode = "stdio" => x.phase # "wait")

\* A message that goes on keeps what messages promise.
LEMMA ForwardsKeeps ==
    ASSUME TransportBooks, PairBooks, mode' = mode, NEW p \in Posts, NEW x, post' = [post EXCEPT ![p] = x], Forwards(p, x),
           mode # "stdio" /\ seen'.answers[p] # <<>> => x.phase = "done", \A q \in Posts : q # p => seen'.answers[q] = seen.answers[q]
    PROVE  /\ Settled /\ LateKept /\ (\A q \in Posts : PostPaired(q)') /\ NewUnnumbered' /\ (\A q \in Posts : Early(q)' => Early(q))
           /\ DOMAIN hub'.waiters \subseteq DOMAIN hub.waiters /\ (\A k \in DOMAIN hub'.waiters : hub'.waiters[k] = hub.waiters[k]) => WaitersPaired'
PROOF
  <1>1. post'[p] = x /\ \A q \in Posts : q # p => post'[q] = post[q]
    BY PostReplaced
  <1>2. Settled
    BY <1>1 DEF Settled, Forwards
  <1>3. LateKept /\ \A q \in Posts : Early(q)' => Early(q)
    BY <1>1 DEF LateKept, Early, Forwards
  <1>4. Deciding(x, p)'
    <2>1. Deciding(post[p], p)
      BY PairParts DEF PostPaired
    <2>2. Deciding(x, p)
      BY <2>1 DEF Deciding, Forwards
    <2> QED BY <1>2, <2>2, MineFrame
  <1>5. \A q \in Posts : PostPaired(q)'
    BY <1>2, <1>4, PostPairedSet DEF Forwards
  <1>6. NewUnnumbered'
    BY <1>1, PairParts DEF NewUnnumbered, Forwards
  <1>7. \A q \in Posts : post'[q].n = post[q].n
    BY <1>1 DEF Forwards
  <1>8. DOMAIN hub'.waiters \subseteq DOMAIN hub.waiters /\ (\A k \in DOMAIN hub'.waiters : hub'.waiters[k] = hub.waiters[k]) => WaitersPaired'
    BY <1>7, PairParts DEF WaitersPaired
  <1> QED BY <1>2, <1>3, <1>5, <1>6, <1>8

\* A message moves on, and may be answered.
LEMMA MessagePairs ==
    ASSUME TransportBooks, PairBooks, UNCHANGED <<mode, st, thread, srv>>, NEW p \in Posts, NEW x, post' = [post EXCEPT ![p] = x], Forwards(p, x),
           DOMAIN hub'.waiters \subseteq DOMAIN hub.waiters, \A k \in DOMAIN hub'.waiters : hub'.waiters[k] = hub.waiters[k],
           \/ seen'.answers = seen.answers /\ seen'.sent = seen.sent
           \/ /\ mode # "stdio" /\ x.phase = "done" /\ post[p].phase # "done"
              /\ \E reply : reply.origin = p /\ seen' = Answered(p, reply)
    PROVE  PairBooks'
PROOF
  <1>1. /\ AnswersTyped' /\ RepliesMatch' /\ seen'.sent = seen.sent /\ (mode # "stdio" /\ seen'.answers[p] # <<>> => x.phase = "done")
        /\ (mode = "stdio" => seen'.answers = seen.answers)
        /\ \A q \in Posts : q # p => seen'.answers[q] = seen.answers[q]
    <2>1. CASE seen'.answers = seen.answers /\ seen'.sent = seen.sent
      BY <2>1, PairParts DEF AnswersTyped, RepliesMatch, PostPaired, Forwards
    <2>2. CASE /\ mode # "stdio" /\ x.phase = "done" /\ post[p].phase # "done"
               /\ \E reply : reply.origin = p /\ seen' = Answered(p, reply)
      <3>1. seen.answers[p] = <<>>
        BY <2>2, PairParts DEF PostPaired
      <3>2. PICK reply : reply.origin = p /\ seen' = Answered(p, reply)
        BY <2>2
      <3> QED BY <2>2, <3>1, <3>2, AnsweredIs
    <2> QED BY <2>1, <2>2
  <1>2. /\ Settled /\ LateKept /\ (\A q \in Posts : PostPaired(q)') /\ NewUnnumbered' /\ (\A q \in Posts : Early(q)' => Early(q))
        /\ WaitersPaired'
    BY <1>1, ForwardsKeeps
  <1>3. OnceOK'
    BY <1>1, <1>2, OnceStays
  <1> QED BY <1>1, <1>2, <1>3, AgentPairs

\* A message that is over.
LEMMA ClosingForwards ==
    ASSUME TransportBooks, NEW p \in Posts
    PROVE  Forwards(p, Closed(p)) /\ Closed(p).phase = "done"
PROOF
  <1>1. IsPost(post[p])
    BY Parts DEF PostsOK
  <1>2. Closed(p).session = post[p].session
    BY <1>1 DEF Closed, IsPost
  <1> QED BY <1>2, ClosingKeeps DEF Forwards, ReplyOf

\* The client of a POST goes away.
LEMMA DisconnectsPairs ==
    ASSUME TransportBooks, PairBooks, NEW p \in Posts, Disconnects(p)
    PROVE  PairBooks'
PROOF
  <1>0. IsPost(post[p]) /\ SeenShape(seen) /\ PostPaired(p)
    BY Parts, PairParts DEF PostsOK, SessionOK
  <1>1. UNCHANGED <<mode, st, thread, srv>> /\ mode # "stdio" /\ hub' = hub /\ seen' = [seen EXCEPT !.faults = @ + 1]
    BY DEF Disconnects, Faults
  <1>2. seen'.answers = seen.answers /\ seen'.sent = seen.sent
    BY <1>0, <1>1 DEF SeenShape
  <1> DEFINE x1 == [post[p] EXCEPT !.cut = TRUE]
             x2 == [Closed(p) EXCEPT !.cut = TRUE]
  <1>3. /\ x1.n = post[p].n /\ x1.msg = post[p].msg /\ x1.phase = post[p].phase /\ x1.direct = post[p].direct /\ x1.reply = post[p].reply /\ x1.session = post[p].session
        /\ x2.n = post[p].n /\ x2.msg = post[p].msg /\ x2.phase = "done" /\ x2.direct = None /\ x2.reply = None /\ x2.session = post[p].session
    BY <1>0 DEF IsPost, Closed
  <1>4. post' = [post EXCEPT ![p] = x1] \/ post' = [post EXCEPT ![p] = x2]
    <2>1. post' = [post EXCEPT ![p].cut = TRUE] \/ post' = [post EXCEPT ![p] = x2]
      BY DEF Disconnects
    <2> QED BY <2>1
  <1> HIDE DEF x1, x2
  <1>5. Forwards(p, x1) /\ Forwards(p, x2)
    BY <1>0, <1>1, <1>3 DEF Forwards, PostPaired, ReplyOf
  <1> QED BY <1>1, <1>2, <1>4, <1>5, MessagePairs

\* A handler ends.
LEMMA PostEndsPairs ==
    ASSUME TransportBooks, PairBooks, NEW p \in Posts, PostEnds(p)
    PROVE  PairBooks'
PROOF
  <1>0. IsPost(post[p]) /\ HubShape(hub) /\ PostPaired(p) /\ post[p].phase = "perform"
    BY Parts, PairParts DEF PostsOK, HubOK, PostEnds
  <1>1. UNCHANGED <<mode, st, thread, srv>>
    BY DEF PostEnds
  <1> DEFINE reply == post[p].direct
             x == [post[p] EXCEPT !.phase = "wait"]
             over == [hub EXCEPT !.waiters = Forget(@, {post[p].n}), !.sessions = @ \cup Issue(p, reply)]
  <1>2. \/ post' = [post EXCEPT ![p] = Closed(p)] /\ hub' = hub /\ seen' = seen
        \/ mode # "stdio" /\ reply # None /\ post' = [post EXCEPT ![p] = Closed(p)] /\ hub' = over /\ seen' = Answered(p, reply)
        \/ mode # "stdio" /\ post' = [post EXCEPT ![p] = x] /\ hub' = hub /\ seen' = seen
    BY DEF PostEnds
  <1>3. DOMAIN over.waiters \subseteq DOMAIN hub.waiters /\ \A k \in DOMAIN over.waiters : over.waiters[k] = hub.waiters[k]
    <2>0. PICK W, K : W = hub.waiters /\ K = {post[p].n}
      OBVIOUS
    <2>1. PICK f : f = Forget(W, K)
      OBVIOUS
    <2>2. over.waiters = f
      BY <1>0, <2>0, <2>1 DEF HubShape
    <2>3. DOMAIN f \subseteq DOMAIN hub.waiters /\ \A k \in DOMAIN f : f[k] = hub.waiters[k]
      <3>1. DOMAIN Forget(W, K) = DOMAIN W \ K /\ \A y \in DOMAIN W \ K : Forget(W, K)[y] = W[y]
        BY ForgetIs
      <3> QED BY <2>0, <2>1, <3>1
    <2> HIDE DEF over
    <2> QED BY <2>2, <2>3
  <1>4. x.n = post[p].n /\ x.msg = post[p].msg /\ x.phase = "wait" /\ x.direct = post[p].direct /\ x.reply = post[p].reply /\ x.session = post[p].session
    BY <1>0 DEF IsPost
  <1> HIDE DEF x, over, reply
  <1>5. mode # "stdio" => Forwards(p, x)
    BY <1>0, <1>4 DEF Forwards, PostPaired
  <1>6. reply # None => reply.origin = p
    BY <1>0 DEF PostPaired, ReplyOf, reply
  <1>7. CASE post' = [post EXCEPT ![p] = Closed(p)] /\ hub' = hub /\ seen' = seen
    BY <1>1, <1>7, ClosingForwards, MessagePairs
  <1>8. CASE mode # "stdio" /\ reply # None /\ post' = [post EXCEPT ![p] = Closed(p)] /\ hub' = over /\ seen' = Answered(p, reply)
    BY <1>0, <1>1, <1>3, <1>6, <1>8, ClosingForwards, MessagePairs
  <1>9. CASE mode # "stdio" /\ post' = [post EXCEPT ![p] = x] /\ hub' = hub /\ seen' = seen
    BY <1>1, <1>5, <1>9, MessagePairs
  <1> QED BY <1>2, <1>7, <1>8, <1>9

\* A POST that waited is answered.
LEMMA PostAnsweredPairs ==
    ASSUME TransportBooks, PairBooks, NEW p \in Posts, PostAnswered(p)
    PROVE  PairBooks'
PROOF
  <1>0. HubShape(hub) /\ PostPaired(p) /\ post[p].phase = "wait"
    BY Parts, PairParts DEF HubOK, PostAnswered
  <1>1. UNCHANGED <<mode, st, thread, srv>>
    BY DEF PostAnswered
  <1> DEFINE lost == Reply(post[p].n, "upstream_unavailable", p)
             reply == IF post[p].reply # None THEN post[p].reply ELSE lost
             issued == [hub EXCEPT !.sessions = @ \cup Issue(p, reply)]
  <1>2. post' = [post EXCEPT ![p] = Closed(p)] /\ hub' = issued /\ seen' = Answered(p, reply)
    BY DEF PostAnswered
  <1>3. issued.waiters = hub.waiters
    BY <1>0 DEF HubShape
  <1>4. reply.origin = p
    <2>1. lost.origin = p
      BY DEF Reply
    <2> HIDE DEF lost
    <2> QED BY <1>0, <2>1 DEF PostPaired, ReplyOf
  <1> HIDE DEF issued, reply, lost
  <1>5. mode # "stdio"
    BY <1>0 DEF PostPaired
  <1> QED BY <1>0, <1>1, <1>2, <1>3, <1>4, <1>5, ClosingForwards, MessagePairs

\* Nothing of what is paired changes.
LEMMA IdlePairs ==
    ASSUME TransportBooks, PairBooks, UNCHANGED <<mode, st, post, thread>>,
           \A s \in ServerSet : srv'[s].inbox = srv[s].inbox /\ srv'[s].out = srv[s].out, seen'.sent = seen.sent, seen'.answers = seen.answers,
           DOMAIN hub'.waiters \subseteq DOMAIN hub.waiters, \A k \in DOMAIN hub'.waiters : hub'.waiters[k] = hub.waiters[k]
    PROVE  PairBooks'
PROOF
  <1>1. Settled /\ LateKept /\ (\A q \in Posts : PostPaired(q)') /\ NewUnnumbered' /\ RepliesMatch' /\ AnswersTyped'
    BY PostsPairedStay
  <1>2. WaitersPaired'
    BY PairParts DEF WaitersPaired
  <1>3. OnceOK'
    BY OnceStays DEF Early
  <1> QED BY <1>1, <1>2, <1>3, AgentPairs

\* An ingress ends.
LEMMA IngressEndsPairs ==
    ASSUME TransportBooks, PairBooks, NEW s \in ServerSet, IngressEnds(s)
    PROVE  PairBooks'
PROOF
  <1>0. /\ srv = [r \in ServerSet |-> srv[r]] /\ IsServer(srv[s]) /\ HubShape(hub)
    BY Parts DEF ServersOK, HubOK
  <1>1. /\ UNCHANGED <<mode, st, post, thread, seen>> /\ srv' = [srv EXCEPT ![s].ingress = "ended"]
        /\ hub' = hub \/ hub' = [hub EXCEPT !.waiters = Empty, !.stopping = TRUE]
    BY DEF IngressEnds
  <1>2. DOMAIN hub'.waiters \subseteq DOMAIN hub.waiters /\ \A k \in DOMAIN hub'.waiters : hub'.waiters[k] = hub.waiters[k]
    <2>1. CASE hub' = hub
      BY <2>1
    <2>2. CASE hub' = [hub EXCEPT !.waiters = Empty, !.stopping = TRUE]
      <3>1. hub'.waiters = Empty
        BY <1>0, <2>2 DEF HubShape
      <3>2. DOMAIN Empty = {}
        BY DEF Empty
      <3> QED BY <3>1, <3>2
    <2> QED BY <1>1, <2>1, <2>2
  <1>3. \A r \in ServerSet : srv'[r].inbox = srv[r].inbox /\ srv'[r].out = srv[r].out
    BY <1>0, <1>1 DEF IsServer
  <1> QED BY <1>1, <1>2, <1>3, IdlePairs

\* The servers' input is closed; the client is.
LEMMA ClosesPairs ==
    ASSUME TransportBooks, PairBooks, ClosesServers \/ ClosesClient
    PROVE  PairBooks'
PROOF
  <1>0. /\ \A s \in ServerSet : IsServer(srv[s])
        /\ HubShape(hub) /\ ClientShape(client)
    BY Parts DEF ServersOK, HubOK, ClientOK
  <1>1. UNCHANGED <<mode, st, post, thread, seen>> /\ hub' = [hub EXCEPT !.stopping = TRUE]
    BY DEF ClosesServers, ClosesClient
  <1>2. hub'.waiters = hub.waiters
    BY <1>0, <1>1 DEF HubShape
  <1>3. \A s \in ServerSet : srv'[s].inbox = srv[s].inbox /\ srv'[s].out = srv[s].out
    <2>1. CASE ClosesServers
      <3>1. srv' = [s \in ServerSet |-> [srv[s] EXCEPT !.stdin = FALSE]]
        BY <2>1 DEF ClosesServers
      <3> QED BY <1>0, <3>1 DEF IsServer
    <2>2. CASE ClosesClient
      BY <2>2 DEF ClosesClient
    <2> QED BY <2>1, <2>2
  <1> QED BY <1>1, <1>2, <1>3, IdlePairs

\* How a message arrives: over at once, as a line of the agent, or as a POST, numbered if it is a request.
Numbers(p, x, m) ==
    /\ x.phase = "decide" /\ x.direct = post[p].direct /\ x.reply = post[p].reply
    /\ x.msg.method = m.method /\ x.session \in {post[p].session, m.session} /\ (~IsRequest(m.method) => x.msg.id = NoId)
AsLine(p, x) == x.n = post[p].n /\ x.session = post[p].session /\ x.msg.id \in {NoId, p} /\ hub' = hub
AsPost(p, x, m) ==
    /\ x.session = m.session /\ x.n = x.msg.id
    /\ x.n = NoId => hub'.waiters = hub.waiters
    /\ x.n # NoId => x.n = hub.nextId /\ hub'.waiters = Insert(hub.waiters, hub.nextId, p)
    /\ m.method = "cancelled" => x.msg.ref \in ForwardedAs(m.session, m.ref)
\* These are the ways.
LEMMA ArrivesHow ==
    ASSUME TransportBooks, NEW p \in Posts, Arrives(p)
    PROVE  /\ post[p].phase = "new" /\ UNCHANGED <<mode, st, thread, srv, seen>>
           /\ \/ post' = [post EXCEPT ![p] = Closed(p)] /\ hub'.waiters = hub.waiters
              \/ \E x, m : /\ post' = [post EXCEPT ![p] = x] /\ Numbers(p, x, m)
                           /\ (mode = "stdio" /\ AsLine(p, x)) \/ (mode # "stdio" /\ AsPost(p, x, m))
PROOF
  <1> USE DEF NoId
  <1>0. /\ post[p].phase = "new" /\ UNCHANGED <<mode, st, thread, srv, seen>> /\ IsPost(post[p]) /\ HubShape(hub)
        /\ hub.nextId \in Nat \ {0}
    BY Parts DEF Arrives, PostsOK, HubOK, HubShape
  <1>1. PICK m \in Messages[p] : 
        LET msg == [method |-> m.method, id |-> IF IsRequest(m.method) THEN OriginalId ELSE NoId,
                    tool |-> m.tool, ref |-> m.ref, origin |-> p]
            known == ForwardedAs(m.session, m.ref)
            forwarded == [msg EXCEPT !.id = IF @ = NoId THEN NoId ELSE hub.nextId,
                                     !.ref = IF m.method = "cancelled" THEN CHOOSE n \in known : TRUE ELSE @]
        IN  IF mode = "stdio"
            THEN /\ m.method # "delete" /\ m.headers = "ok"
                 /\ post' = [post EXCEPT ![p].phase = "decide", ![p].msg = [msg EXCEPT !.id = IF @ = NoId THEN NoId ELSE p]]
                 /\ UNCHANGED hub
            ELSE CASE Admission(m) # "ok" -> post' = [post EXCEPT ![p] = Closed(p)] /\ UNCHANGED hub
                   [] Admission(m) = "ok" /\ m.method = "delete" ->
                        /\ hub' = [hub EXCEPT !.sessions = @ \ {m.session}]
                        /\ post' = [post EXCEPT ![p] = Closed(p)]
                   [] Admission(m) = "ok" /\ m.method = "cancelled" /\ known = {} -> post' = [post EXCEPT ![p] = Closed(p)] /\ UNCHANGED hub
                   [] OTHER ->
                        /\ hub' = IF msg.id = NoId THEN hub
                                  ELSE [hub EXCEPT !.nextId = @ + 1, !.waiters = Insert(@, hub.nextId, p)]
                        /\ post' = [post EXCEPT ![p].phase = "decide", ![p].session = m.session, ![p].msg = forwarded,
                                                ![p].n = IF msg.id = NoId THEN NoId ELSE hub.nextId]
    BY Zenon DEF Arrives
  <1> DEFINE msg == [method |-> m.method, id |-> IF IsRequest(m.method) THEN OriginalId ELSE NoId,
                     tool |-> m.tool, ref |-> m.ref, origin |-> p]
             known == ForwardedAs(m.session, m.ref)
             found == CHOOSE n \in known : TRUE
             forwarded == [msg EXCEPT !.id = IF @ = NoId THEN NoId ELSE hub.nextId,
                                      !.ref = IF m.method = "cancelled" THEN found ELSE @]
             numbered == [msg EXCEPT !.id = IF @ = NoId THEN NoId ELSE p]
             n == IF msg.id = NoId THEN NoId ELSE hub.nextId
             x1 == [post[p] EXCEPT !.phase = "decide", !.msg = numbered]
             x3 == [post[p] EXCEPT !.phase = "decide", !.session = m.session, !.msg = forwarded, !.n = n]
  <1>2. \/ mode = "stdio" /\ post' = [post EXCEPT ![p] = x1] /\ hub' = hub
        \/ post' = [post EXCEPT ![p] = Closed(p)] /\ (hub' = hub \/ hub' = [hub EXCEPT !.sessions = @ \ {m.session}])
        \/ /\ mode # "stdio" /\ post' = [post EXCEPT ![p] = x3] /\ ~(m.method = "cancelled" /\ known = {})
           /\ hub' = IF msg.id = NoId THEN hub ELSE [hub EXCEPT !.nextId = @ + 1, !.waiters = Insert(@, hub.nextId, p)]
    <2>1. CASE mode = "stdio"
      <3>1. post' = [post EXCEPT ![p].phase = "decide", ![p].msg = numbered] /\ hub' = hub
        BY <1>1, <2>1
      <3> HIDE DEF numbered
      <3>2. post' = [post EXCEPT ![p] = x1]
        BY <1>0, <3>1, Parts DEF IsPost, PostsOK
      <3> QED BY <2>1, <3>1, <3>2
    <2>2. CASE mode # "stdio" /\ (Admission(m) # "ok" \/ m.method = "delete" \/ (m.method = "cancelled" /\ known = {}))
      BY <1>1, <2>2
    <2>3. CASE mode # "stdio" /\ ~(Admission(m) # "ok" \/ m.method = "delete" \/ (m.method = "cancelled" /\ known = {}))
      <3>1. /\ hub' = IF msg.id = NoId THEN hub ELSE [hub EXCEPT !.nextId = @ + 1, !.waiters = Insert(@, hub.nextId, p)]
            /\ post' = [post EXCEPT ![p].phase = "decide", ![p].session = m.session, ![p].msg = forwarded, ![p].n = n]
        BY <1>1, <2>3
      <3> HIDE DEF forwarded, msg, n
      <3>2. post' = [post EXCEPT ![p] = x3]
        BY <1>0, <3>1, Parts DEF IsPost, PostsOK
      <3> QED BY <2>3, <3>1, <3>2
    <2> QED BY <2>1, <2>2, <2>3
  <1>3. /\ numbered.method = m.method /\ numbered.id \in {NoId, p} /\ (~IsRequest(m.method) => numbered.id = NoId)
        /\ forwarded.method = m.method /\ forwarded.id = n /\ (m.method = "cancelled" => forwarded.ref = found)
    <2> HIDE DEF found
    <2> QED BY DEF OriginalId
  <1>4. (~IsRequest(m.method) => n = NoId) /\ (msg.id = NoId => n = NoId) /\ (msg.id # NoId => n = hub.nextId)
    BY DEF OriginalId
  <1> DEFINE grown == [hub EXCEPT !.nextId = @ + 1, !.waiters = Insert(@, hub.nextId, p)]
  <1>5. grown.waiters = Insert(hub.waiters, hub.nextId, p)
    BY <1>0 DEF HubShape
  <1>6. m.method = "cancelled" /\ known # {} => found \in known
    OBVIOUS
  <1> HIDE DEF numbered, forwarded, grown, n, msg, found, known
  <1>8. /\ x1.phase = "decide" /\ x1.msg = numbered /\ x1.n = post[p].n /\ x1.direct = post[p].direct /\ x1.reply = post[p].reply /\ x1.session = post[p].session
        /\ x3.phase = "decide" /\ x3.msg = forwarded /\ x3.n = n /\ x3.direct = post[p].direct /\ x3.reply = post[p].reply /\ x3.session = m.session
    BY <1>0 DEF IsPost
  <1> HIDE DEF x1, x3
  <1>10. CASE mode = "stdio" /\ post' = [post EXCEPT ![p] = x1] /\ hub' = hub
    <2>1. Numbers(p, x1, m) /\ AsLine(p, x1)
      BY <1>3, <1>8, <1>10 DEF Numbers, AsLine
    <2> QED BY <1>0, <1>10, <2>1
  <1>11. CASE post' = [post EXCEPT ![p] = Closed(p)] /\ (hub' = hub \/ hub' = [hub EXCEPT !.sessions = @ \ {m.session}])
    <2>1. hub'.waiters = hub.waiters
      BY <1>0, <1>11 DEF HubShape
    <2> QED BY <1>0, <1>11, <2>1
  <1>12. CASE mode # "stdio" /\ post' = [post EXCEPT ![p] = x3] /\ ~(m.method = "cancelled" /\ known = {}) /\ hub' = IF msg.id = NoId THEN hub ELSE grown
    <2>1. Numbers(p, x3, m)
      BY <1>3, <1>4, <1>8 DEF Numbers
    <2>2. n = NoId => msg.id = NoId
      BY <1>0, <1>4
    <2>3. AsPost(p, x3, m)
      BY <1>0, <1>3, <1>4, <1>5, <1>6, <1>8, <1>12, <2>2 DEF AsPost, known
    <2> QED BY <1>0, <1>12, <2>1, <2>3
  <1> QED BY <1>2, <1>10, <1>11, <1>12 DEF grown

\* A message arrives.
LEMMA ArrivesPairs ==
    ASSUME TransportBooks, PairBooks, NEW p \in Posts, Arrives(p)
    PROVE  PairBooks'
PROOF
  <1>1. /\ post[p].phase = "new" /\ UNCHANGED <<mode, st, thread, srv, seen>>
        /\ \/ post' = [post EXCEPT ![p] = Closed(p)] /\ hub'.waiters = hub.waiters
           \/ \E x, m : /\ post' = [post EXCEPT ![p] = x] /\ Numbers(p, x, m)
                        /\ (mode = "stdio" /\ AsLine(p, x)) \/ (mode # "stdio" /\ AsPost(p, x, m))
    BY ArrivesHow
  <1>2. CASE post' = [post EXCEPT ![p] = Closed(p)] /\ hub'.waiters = hub.waiters
    BY <1>1, <1>2, ClosingForwards, MessagePairs
  <1>3. ASSUME NEW x, NEW m, post' = [post EXCEPT ![p] = x], Numbers(p, x, m),
               (mode = "stdio" /\ AsLine(p, x)) \/ (mode # "stdio" /\ AsPost(p, x, m))
        PROVE  PairBooks'
    <2>1. post'[p] = x /\ \A q \in Posts : q # p => post'[q] = post[q]
      BY <1>3, PostReplaced
    <2>2. post[p].n = NoId /\ PostPaired(p) /\ WaitersPaired /\ HubOK
      BY <1>1, Parts, PairParts DEF NewUnnumbered
    <2>3. Settled /\ LateKept /\ (\A q \in Posts : Early(q)' => Early(q))
      BY <1>1, <1>3, <2>1 DEF Settled, LateKept, Early, Numbers
    <2>4. NewUnnumbered'
      BY <1>1, <1>3, <2>1, PairParts DEF NewUnnumbered, Numbers
    <2>5. \A k \in DOMAIN hub.waiters : k # NoId /\ hub.waiters[k] \in Posts /\ hub.waiters[k] # p /\ post'[hub.waiters[k]] = post[hub.waiters[k]] /\ post[hub.waiters[k]].n = k
      <3>1. \A k \in DOMAIN hub.waiters : k # NoId
        BY <2>2, Parts DEF HubOK, HubShape, NoId
      <3> QED BY <2>1, <2>2, <3>1 DEF WaitersPaired
    <2>6. WaitersPaired'
      <3>1. CASE hub'.waiters = hub.waiters
        BY <2>5, <3>1 DEF WaitersPaired
      <3>2. CASE hub'.waiters = Insert(hub.waiters, hub.nextId, p) /\ x.n = hub.nextId
        <4>1. PICK W, k, V : W = hub.waiters /\ k = hub.nextId /\ V = hub'.waiters
          OBVIOUS
        <4>2. V = Insert(W, k, p)
          BY <3>2, <4>1
        <4>3. DOMAIN V = DOMAIN W \cup {k} /\ V[k] = p /\ \A j \in DOMAIN W : j # k => V[j] = W[j]
          BY <4>2 DEF Insert
        <4> QED BY <2>1, <2>5, <3>2, <4>1, <4>3 DEF WaitersPaired
      <3> QED BY <1>3, <3>1, <3>2 DEF AsLine, AsPost
    <2>7. Deciding(x, p)'
      <3>1. Mine(x.msg.id, p)'
        BY <1>1, <1>3, <2>1 DEF Mine, AgentId, AsLine, AsPost
      <3>2. ASSUME x.msg.method = "cancelled", mode # "stdio" PROVE NamesOwn(x.msg.ref, p)'
        <4>1. x.msg.ref \in ForwardedAs(m.session, m.ref) /\ x.session = m.session
          BY <1>3, <3>2 DEF AsPost, Numbers
        <4>2. PICK k : k = x.msg.ref
          OBVIOUS
        <4>3. k \in DOMAIN hub.waiters /\ post[hub.waiters[k]].session = x.session
          BY <4>1, <4>2 DEF ForwardedAs
        <4>4. PICK q \in Posts : q = hub.waiters[k] /\ post'[q] = post[q] /\ post[q].n = k
          BY <2>5, <4>3
        <4>5. k # NoId /\ post'[q].n = k /\ post'[q].session = post'[p].session
          BY <2>1, <2>5, <4>3, <4>4
        <4>6. Arrived(p)'
          BY <1>3, <2>1 DEF Arrived, Numbers
        <4> QED BY <4>2, <4>5, <4>6 DEF NamesOwn
      <3> QED BY <1>1, <1>3, <3>1, <3>2 DEF Deciding, Numbers
    <2>8. \A q \in Posts : PostPaired(q)'
      <3>1. x.phase = "decide" /\ x.phase # "wait" /\ ReplyOf(x.direct, p) /\ ReplyOf(x.reply, p)
        BY <1>3, <2>2 DEF Numbers, PostPaired
      <3>2. mode # "stdio" => seen'.answers[p] = <<>>
        BY <1>1, <2>2 DEF PostPaired
      <3> QED BY <1>1, <1>3, <2>3, <2>7, <3>1, <3>2, PostPairedSet
    <2>9. AnswersTyped' /\ RepliesMatch'
      BY <1>1, PairParts DEF AnswersTyped, RepliesMatch
    <2>10. OnceOK'
      BY <1>1, <2>3, OnceStays
    <2> QED BY <1>1, <2>3, <2>4, <2>6, <2>8, <2>9, <2>10, AgentPairs
  <1> QED BY <1>1, <1>2, <1>3

\* The answer to q moves between the router and one thread's work, or stays.
OnceGoal(t, x, r, q) ==
    /\ SoleOwed(r, q) /\ SoleHeld(x, q) /\ ~(Owes(r, q) /\ Holds(x, q))
    /\ Owes(r, q) \/ Holds(x, q) => Owes(st, q) \/ Holds(thread[t], q) \/ (Early(q) /\ ~Early(q)')
\* So the answer to each request is still in one place.
LEMMA OnceWork ==
    ASSUME TransportBooks, PairBooks, mode' = mode, NEW t \in Threads, NEW x, thread' = [thread EXCEPT ![t] = x],
           seen'.answers = seen.answers, \A q \in Posts : Early(q)' => Early(q), NEW r, r = st',
           \A q \in Posts : mode = "stdio" /\ q # NoId /\ Once(q) => OnceGoal(t, x, r, q)
    PROVE  OnceOK'
PROOF
  <1>0. thread'[t] = x /\ \A u \in Threads : u # t => thread'[u] = thread[u]
    BY HeldStep
  <1>1. ASSUME mode = "stdio", NEW q \in Posts, q # NoId PROVE Once(q)'
    <2>1. Once(q)
      BY <1>1, PairParts DEF OnceOK
    <2>2. OnceGoal(t, x, r, q)
      BY <1>1, <2>1
    <2>3. Told(q)' <=> Told(q)
      BY DEF Told
    <2>4. SoleOwed(st, q)' /\ (Owes(st, q)' <=> Owes(r, q)) /\ SoleHeld(thread[t], q)' /\ (Holds(thread[t], q)' <=> Holds(x, q))
      BY <1>0, <2>2 DEF OnceGoal
    <2>5. Early(q) => ~Owes(st, q) /\ ~Holds(thread[t], q)
      BY <2>1 DEF Once
    <2>6. Early(q)' => Early(q)
      OBVIOUS
    <2> QED BY <1>0, <2>1, <2>2, <2>3, <2>4, <2>5, <2>6, OnceStep DEF OnceGoal
  <1> QED BY <1>1 DEF OnceOK

\* The router gives out no number.
LEMMA NumberingStays ==
    ASSUME TransportBooks, st' = st
    PROVE  \A w : Numbering(w)
PROOF
  <1>1. st.nextId \in Nat
    BY Parts DEF RouterInv, RouterOwes, RouterTyped, RouterShape
  <1> QED BY <1>1 DEF Numbering

\* A message goes on to another phase.
LEMMA PhaseForwards ==
    ASSUME TransportBooks, PairBooks, NEW p \in Posts, NEW ph, NEW x, x = [post[p] EXCEPT !.phase = ph],
           (post[p].phase = "decide" /\ ph = "dispatch") \/ (post[p].phase # "done" /\ ph = "perform")
    PROVE  Forwards(p, x) /\ x.phase = ph
PROOF
  <1>1. IsPost(post[p]) /\ PostPaired(p)
    BY Parts, PairParts DEF PostsOK
  <1>2. x.n = post[p].n /\ x.msg = post[p].msg /\ x.phase = ph /\ x.direct = post[p].direct /\ x.reply = post[p].reply /\ x.session = post[p].session
    BY <1>1 DEF IsPost
  <1> QED BY <1>1, <1>2 DEF Forwards, PostPaired

\* The gate lets a message through or refuses it.
LEMMA DecidesPairs ==
    ASSUME TransportBooks, NameBooks, PairBooks, NEW p \in Posts, Decides(p)
    PROVE  PairBooks'
PROOF
  <1> DEFINE msg == post[p].msg
             why == IF msg.method = "call" THEN Refuse(cat, Only, msg.tool) ELSE "ok"
             y == [post[p] EXCEPT !.phase = "dispatch"]
             z == [post[p] EXCEPT !.phase = "perform"]
  <1>0. /\ p \in Threads /\ IsThread(thread[p]) /\ post[p].phase = "decide" /\ UNCHANGED <<mode, st, cat, srv, hub, client, seen>>
        /\ Deciding(post[p], p) /\ ThreadPaired(p)
    BY Parts, PairParts DEF Decides, ThreadsOK, Threads, PostPaired
  <1>1. PICK a : a = ToAgent(Reply(msg.id, why, p))
    OBVIOUS
  <1>2. PICK x : x = [thread[p] EXCEPT !.todo = Direct(<<a>>)]
    OBVIOUS
  <1>3. \/ post' = [post EXCEPT ![p] = y] /\ thread' = thread
        \/ post' = [post EXCEPT ![p] = z] /\ thread' = [thread EXCEPT ![p] = x]
    BY <1>1, <1>2 DEF Decides
  <1> HIDE DEF y, z
  <1>4. CASE post' = [post EXCEPT ![p] = y] /\ thread' = thread
    <2>1. Forwards(p, y)
      <3>1. PICK ph : ph = "dispatch"
        OBVIOUS
      <3> QED BY <1>0, <3>1, PhaseForwards DEF y
    <2> QED BY <1>0, <1>4, <2>1, MessagePairs
  <1>5. CASE post' = [post EXCEPT ![p] = z] /\ thread' = [thread EXCEPT ![p] = x]
    <2>1. Forwards(p, z) /\ z.phase = "perform"
      <3>1. PICK ph : ph = "perform"
        OBVIOUS
      <3> QED BY <1>0, <3>1, PhaseForwards DEF z
    <2>2. PostPaired(p)
      BY PairParts
    <2>3. /\ Settled /\ LateKept /\ (\A q \in Posts : PostPaired(q)') /\ NewUnnumbered' /\ (\A q \in Posts : Early(q)' => Early(q)) /\ WaitersPaired'
      <3>1. mode # "stdio" => seen'.answers[p] = <<>>
        BY <1>0, <2>2 DEF PostPaired
      <3> QED BY <1>0, <1>5, <2>1, <3>1, ForwardsKeeps
    <2>4. AnswersTyped' /\ RepliesMatch' /\ SentPaired' /\ RouterPaired(st)' /\ Pipes
      <3>1. AnswersTyped' /\ RepliesMatch'
        BY <1>0, PairParts DEF AnswersTyped, RepliesMatch
      <3>2. SentPaired'
        BY <1>0, <2>3, SentStays
      <3>3. RouterPaired(st)'
        BY <1>0, <2>3, PairParts, MineFrame
      <3>4. Pipes
        BY <1>0, PipesStay
      <3> QED BY <3>1, <3>2, <3>3, <3>4
    <2>5. a.to = "agent" /\ a.msg.id = msg.id /\ a.msg.origin = p
      BY <1>1 DEF ToAgent, Reply
    <2>6. Mine(msg.id, p)
      BY <1>0 DEF Deciding
    <2>7. PICK acts : acts = <<a>>
      OBVIOUS
    <2>8. ActsOK(acts)
      BY <2>5, <2>7, OneAct DEF IsTarget
    <2>9. PICK b : b = Direct(acts)
      OBVIOUS
    <2>10. /\ IsSeq(b) /\ DOMAIN b = DOMAIN acts /\ (\A i \in DOMAIN b : Like(b[i], acts[i]))
           /\ \A q : (InActs(b, q) <=> InActs(acts, q)) /\ (SoleAct(b, q) <=> SoleAct(acts, q))
      BY <2>8, <2>9, MarkActs
    <2>11. DOMAIN acts = {1} /\ acts[1] = a
      BY <2>7
    <2>12. x.fin = thread[p].fin /\ x.todo = b
      BY <1>0, <1>2, <2>7, <2>9 DEF IsThread
    <2>13. TodoPaired(p, x.todo) /\ FinsPaired(p, x.fin) /\ Sends(x.todo) = {}
      <3>1. FinsPaired(p, thread[p].fin)
        BY <1>0, SendsIs DEF ThreadPaired
      <3>2. \A i \in DOMAIN b : b[i].to = "agent" /\ b[i].msg.id = msg.id /\ b[i].msg.origin = p
        BY <2>5, <2>10, <2>11 DEF Like
      <3>3. TodoPaired(p, b)
        BY <2>6, <3>2 DEF TodoPaired, AnswerPaired
      <3>4. Sends(b) = {}
        BY <3>2 DEF Sends
      <3> QED BY <2>12, <3>1, <3>3, <3>4
    <2>14. Early(p) /\ ~Early(p)'
      <3>1. post'[p] = z
        BY <1>5, PostReplaced
      <3> QED BY <1>0, <2>1, <3>1 DEF Early
    <2>15. ASSUME NEW q \in Posts, mode = "stdio", q # NoId, Once(q) PROVE OnceGoal(p, x, st, q)
      <3>1. InActs(b, q) => q = p
        BY <2>5, <2>6, <2>7, <2>10, <2>15, FewActs DEF AnswerTo, Mine, AgentId
      <3>2. SoleAct(b, q)
        BY <2>7, <2>10, FewActs
      <3>3. q = p => ~Owes(st, q) /\ ~Holds(thread[p], q)
        BY <1>0, <2>14, <2>15 DEF Once
      <3>4. SoleOwed(st, q) /\ SoleHeld(thread[p], q)
        BY <1>0, <2>15 DEF Once
      <3>5. SoleHeld(x, q)
        BY <2>12, <3>1, <3>2, <3>3, <3>4 DEF SoleHeld, Holds
      <3>6. Holds(x, q) => q = p \/ Holds(thread[p], q)
        BY <2>12, <3>1 DEF Holds
      <3>7. Holds(thread[p], q) => ~Owes(st, q)
        BY <1>0, <2>15 DEF Once
      <3> QED BY <2>14, <3>3, <3>4, <3>5, <3>6, <3>7 DEF OnceGoal
    <2>16. OnceOK'
      <3>1. PICK r : r = st
        OBVIOUS
      <3>2. r = st' /\ seen'.answers = seen.answers
        BY <1>0, <3>1
      <3>3. \A q \in Posts : mode = "stdio" /\ q # NoId /\ Once(q) => OnceGoal(p, x, r, q)
        BY <2>15, <3>1
      <3> QED BY <1>0, <1>5, <2>3, <3>2, <3>3, OnceWork
    <2>17. \A w : Numbering(w)
      BY <1>0, NumberingStays
    <2> QED BY <1>0, <1>5, <2>3, <2>4, <2>13, <2>16, <2>17, WorkPairs
  <1> QED BY <1>3, <1>4, <1>5

\* Answers to one agent message only.
OwnAnswers(o, w) ==
    /\ \A i \in DOMAIN o.acts : o.acts[i].to = "agent" => o.acts[i].msg.origin = w
    /\ \A i \in DOMAIN o.fin : o.fin[i].agent # NoAgent => o.fin[i].agent.origin = w

\* No answer, and one action.
LEMMA OwnFew ==
    /\ \A r, w : OwnAnswers(Out(r, <<>>, <<>>), w)
    /\ \A r, a, w : (a.to = "agent" => a.msg.origin = w) => OwnAnswers(Out(r, <<a>>, <<>>), w)
    /\ \A r, f, w : f.agent.origin = w => OwnAnswers(Out(r, <<>>, <<f>>), w)
PROOF
  <1>1. DOMAIN <<>> = {} /\ \A a : DOMAIN <<a>> = {1} /\ <<a>>[1] = a
    OBVIOUS
  <1>2. \A r, acts, fin : Out(r, acts, fin).acts = acts /\ Out(r, acts, fin).fin = fin
    BY DEF Out
  <1>3. \A r, w : OwnAnswers(Out(r, <<>>, <<>>), w)
    BY <1>1, <1>2 DEF OwnAnswers
  <1>4. \A r, a, w : (a.to = "agent" => a.msg.origin = w) => OwnAnswers(Out(r, <<a>>, <<>>), w)
    BY <1>1, <1>2 DEF OwnAnswers
  <1>5. \A r, f, w : f.agent.origin = w => OwnAnswers(Out(r, <<>>, <<f>>), w)
    BY <1>1, <1>2 DEF OwnAnswers
  <1> QED BY <1>3, <1>4, <1>5

\* A listing is begun for one agent message.
LEMMA ListingOwn ==
    ASSUME NEW r, NEW agent, NEW servers \in Seq(ServerSet), \A i, j \in 1..Len(servers) : servers[i] = servers[j] => i = j,
           NEW o, o = StartListing(r, agent, servers)
    PROVE  OwnAnswers(o, agent.origin)
PROOF
  <1> DEFINE live == Live(servers, r.gone)
             listing == [agent |-> agent, remaining |-> ToSet(live), tools |-> Empty, pages |-> 0]
             numbered == [r EXCEPT !.nextJob = @ + 1]
             q == [numbered EXCEPT !.jobs = Insert(@, r.nextJob, listing)]
             asked == PageRequests(q, r.nextJob, live, NoId)
  <1>1. o = IF live = <<>> THEN Out(numbered, <<>>, <<listing>>) ELSE Out(asked.st, asked.acts, <<>>)
    BY Zenon DEF StartListing
  <1>2. live \in Seq(ServerSet)
    BY LiveIs DEF IsLive
  <1>3. listing.agent = agent
    OBVIOUS
  <1> HIDE DEF live, q, listing, numbered
  <1>4. \A i \in DOMAIN asked.acts : asked.acts[i].to # "agent"
    <2> DEFINE m(i) == [method |-> "list", id |-> q.nextId + i - 1, tool |-> <<>>, ref |-> NoId, origin |-> 0]
               acts == [i \in DOMAIN live |-> ToUpstream(live[i], m(i))]
    <2>1. asked.acts = acts
      BY DEF PageRequests
    <2>2. ASSUME NEW i \in DOMAIN acts PROVE acts[i].to # "agent"
      <3>1. acts[i] = ToUpstream(live[i], m(i)) /\ live[i] \in ServerSet
        BY <1>2, <2>2
      <3> HIDE DEF acts, m
      <3>2. acts[i].to = live[i]
        BY <3>1 DEF ToUpstream
      <3> QED BY <3>1, <3>2, NotAgent
    <2> HIDE DEF acts, asked
    <2> QED BY <2>1, <2>2
  <1> HIDE DEF asked
  <1>5. CASE live = <<>>
    BY <1>1, <1>3, <1>5, OwnFew
  <1>6. CASE live # <<>>
    <2>1. o.acts = asked.acts /\ o.fin = <<>>
      BY <1>1, <1>6 DEF Out
    <2> QED BY <1>4, <2>1 DEF OwnAnswers
  <1> QED BY <1>5, <1>6

\* dispatch answers the message it is given and no other.
LEMMA DispatchOwn ==
    ASSUME NEW r, RouterTyped(r), NEW c, CatalogOK(c), NEW msg, IsMessage(msg), msg.method \in Methods,
           ~IsRequest(msg.method) => msg.id = NoId, NEW o, o = Dispatch(r, c, msg)
    PROVE  OwnAnswers(o, msg.origin)
PROOF
  <1> DEFINE answer(what) == Out(r, <<ToAgent(Reply(msg.id, what, msg.origin))>>, <<>>)
  <1>1. ASSUME NEW what, o = answer(what) PROVE OwnAnswers(o, msg.origin)
    <2>1. PICK a : a = ToAgent(Reply(msg.id, what, msg.origin))
      OBVIOUS
    <2>2. a.msg.origin = msg.origin
      BY <2>1 DEF ToAgent, Reply
    <2> QED BY <1>1, <2>1, <2>2, OwnFew
  <1>2. ASSUME NEW server \in ServerSet, NEW sent, sent.origin = msg.origin, o = SendRouted(r, server, sent) PROVE OwnAnswers(o, msg.origin)
    <2>1. PICK back : back = ToAgent(Reply(sent.id, "upstream_unavailable", sent.origin))
      OBVIOUS
    <2>2. PICK there : there = ToUpstream(server, sent)
      OBVIOUS
    <2>3. PICK forth : forth = ToUpstream(server, [sent EXCEPT !.id = r.nextId])
      OBVIOUS
    <2>4. back.msg.origin = msg.origin /\ there.to # "agent" /\ forth.to # "agent"
      BY <1>2, <2>1, <2>2, <2>3, NotAgent DEF ToAgent, Reply, ToUpstream
    <2>5. \E q : o \in {Out(q, <<>>, <<>>), Out(q, <<back>>, <<>>), Out(q, <<there>>, <<>>), Out(q, <<forth>>, <<>>)}
      BY <1>2, <2>1, <2>2, <2>3 DEF SendRouted
    <2> QED BY <2>4, <2>5, OwnFew
  <1>3. CASE msg.method \in {"initialize", "ping"}
    <2>1. o = answer("result")
      BY <1>3 DEF Dispatch
    <2> HIDE DEF answer
    <2> QED BY <1>1, <2>1
  <1>4. CASE msg.method = "list"
    <2>1. PICK agent : agent = [id |-> msg.id, origin |-> msg.origin]
      OBVIOUS
    <2>2. o = StartListing(r, agent, Servers)
      BY <1>4, <2>1 DEF Dispatch
    <2>3. agent.origin = msg.origin
      BY <2>1
    <2>4. OwnAnswers(o, agent.origin)
      BY <2>2, ListingOwn, ServersOnce
    <2> QED BY <2>3, <2>4
  <1>5. CASE msg.method = "call" /\ RouteOf(c, msg.tool) = {}
    <2>1. o = answer("tool_unavailable")
      BY <1>5 DEF Dispatch
    <2> HIDE DEF answer
    <2> QED BY <1>1, <2>1
  <1>6. CASE msg.method = "call" /\ RouteOf(c, msg.tool) # {}
    <2> DEFINE owner == CHOOSE x \in RouteOf(c, msg.tool) : TRUE
               sent == [msg EXCEPT !.tool = owner[2]]
    <2>1. o = SendRouted(r, owner[1], sent)
      BY <1>6 DEF Dispatch
    <2>2. owner \in RouteOf(c, msg.tool)
      BY <1>6
    <2> HIDE DEF owner
    <2>3. owner[1] \in ServerSet
      BY <2>2 DEF RouteOf, CatalogOK
    <2>4. sent.origin = msg.origin
      BY DEF IsMessage
    <2> HIDE DEF sent
    <2> QED BY <1>2, <2>1, <2>3, <2>4
  <1>7. CASE msg.method \in {"cancelled", "notification"}
    <2>1. msg.id = NoId
      BY <1>7 DEF IsRequest
    <2>2. CASE msg.method = "cancelled"
      <3> DEFINE found == {n \in DOMAIN r.waiting : r.waiting[n].kind = "agent" /\ r.waiting[n].id = msg.ref}
                 n == CHOOSE n \in found : TRUE
                 act == ToUpstream(r.waiting[n].server, [msg EXCEPT !.ref = n])
      <3>1. o = Out(r, IF found = {} THEN <<>> ELSE <<act>>, <<>>)
        BY <2>2 DEF Dispatch, Cancel
      <3>2. found # {} => act.to # "agent"
        <4>1. found # {} => n \in found
          OBVIOUS
        <4> HIDE DEF n
        <4>2. found # {} => r.waiting[n].server \in ServerSet
          BY <4>1 DEF RouterTyped, IsWait
        <4> QED BY <4>2, NotAgent DEF ToUpstream
      <3> HIDE DEF found, act
      <3> QED BY <3>1, <3>2, OwnFew
    <2>3. CASE msg.method = "notification"
      <3> DEFINE live == Live(Servers, r.gone)
                 acts == [i \in DOMAIN live |-> ToUpstream(live[i], msg)]
      <3>1. o = Out(r, acts, <<>>)
        BY <2>3 DEF Dispatch, Broadcast
      <3>2. live \in Seq(ServerSet)
        BY LiveIs, ServersOnce DEF IsLive
      <3> HIDE DEF live
      <3>3. ASSUME NEW i \in DOMAIN acts PROVE acts[i].to # "agent"
        <4>1. acts[i] = ToUpstream(live[i], msg) /\ live[i] \in ServerSet
          BY <3>2, <3>3
        <4> HIDE DEF acts
        <4>2. acts[i].to = live[i]
          BY <4>1 DEF ToUpstream
        <4> QED BY <4>1, <4>2, NotAgent
      <3> HIDE DEF acts
      <3>4. o.acts = acts /\ o.fin = <<>>
        BY <3>1 DEF Out
      <3> QED BY <3>3, <3>4 DEF OwnAnswers
    <2> QED BY <1>7, <2>2, <2>3
  <1>8. CASE msg.method = "other" /\ Default = {}
    <2>1. o = answer("method_not_found")
      BY <1>8 DEF Dispatch
    <2> HIDE DEF answer
    <2> QED BY <1>1, <2>1
  <1>9. CASE msg.method = "other" /\ Default # {}
    <2> DEFINE d == CHOOSE s \in Default : TRUE
    <2>1. o = SendRouted(r, d, msg)
      BY <1>9 DEF Dispatch
    <2>2. d \in ServerSet
      BY <1>9, ServersOnce
    <2> HIDE DEF d
    <2> QED BY <1>2, <2>1, <2>2
  <1> QED BY <1>3, <1>4, <1>5, <1>6, <1>7, <1>8, <1>9 DEF Methods

\* A cancellation the router forwards names a request of its own session.
LEMMA CancelForwarded ==
    ASSUME TransportBooks, NameBooks, PairBooks, Routed, NEW p \in Posts, NEW msg, msg.origin = p,
           mode # "stdio" => NamesOwn(msg.ref, p), NEW a, CancelAct(st, msg, a)
    PROVE  CancelOK(a.msg)
PROOF
  <1> SUFFICES ASSUME mode = "listen" PROVE CancelPaired(a.msg)
    BY DEF CancelOK, Routed
  <1>1. PICK n : n = a.msg.ref
    OBVIOUS
  <1>2. n \in DOMAIN st.waiting /\ st.waiting[n].kind = "agent" /\ st.waiting[n].id = msg.ref /\ a.msg.origin = p
    BY <1>1 DEF CancelAct
  <1>3. PICK q \in Posts : post[q].n = msg.ref /\ post[q].session = post[p].session
    BY DEF NamesOwn
  <1>4. msg.ref # NoId /\ Arrived(p)
    BY DEF NamesOwn
  <1>5. n \in 1..(st.nextId - 1) /\ n # NoId
    <2>1. DOMAIN st.waiting \subseteq 1..(st.nextId - 1)
      BY Parts DEF RouterInv, RouterOwes, RouterTyped
    <2> QED BY <1>2, <2>1 DEF NoId
  <1>6. st.waiting[n].origin = q
    <2>1. Mine(st.waiting[n].id, st.waiting[n].origin)
      BY <1>2, PairParts DEF RouterPaired
    <2>2. st.waiting[n].origin \in Posts /\ post[st.waiting[n].origin].n = msg.ref
      BY <1>2, <1>4, <2>1 DEF Mine, AgentId
    <2> QED BY <1>3, <1>4, <2>2, NameParts DEF Numbered
  <1>7. Arrived(q)
    BY <1>3, <1>4, PairParts DEF Arrived, NewUnnumbered
  <1>8. ASSUME NEW x \in Pairs, x[1] = n PROVE x[2] = q
    <2>1. <<n, st.waiting[n].origin>> \in Pairs
      BY <1>2 DEF Pairs
    <2>2. \A y, z \in Pairs : y[1] # NoId /\ y[1] = z[1] => y[2] = z[2]
      BY PairParts DEF PairsOK
    <2> QED BY <1>5, <1>6, <1>8, <2>1, <2>2
  <1> QED BY <1>1, <1>2, <1>3, <1>4, <1>5, <1>7, <1>8 DEF CancelPaired

\* A message is dispatched to one of several servers.
LEMMA DispatchesRouted ==
    ASSUME TransportBooks, NameBooks, PairBooks, NEW p \in Posts, Dispatches(p), Routed
    PROVE  PairBooks'
PROOF
  <1> DEFINE z == [post[p] EXCEPT !.phase = "perform"]
  <1>0. /\ post[p].phase = "dispatch" /\ UNCHANGED <<mode, cat, srv, client, seen>> /\ post' = [post EXCEPT ![p] = z]
        /\ p \in Threads /\ RouterInv(st) /\ CatalogOK(cat) /\ hub' = hub
    BY Parts DEF Dispatches, Threads, CatOK
  <1>1. PICK msg : msg = post[p].msg
    OBVIOUS
  <1>2. /\ msg.method \in Methods /\ msg.origin = p /\ IsMessage(msg) /\ Mine(msg.id, p) /\ (~IsRequest(msg.method) => msg.id = NoId)
        /\ (msg.method = "cancelled" /\ mode # "stdio" => NamesOwn(msg.ref, p))
    BY <1>0, <1>1, Parts, NameParts, PairParts DEF PostsOK, Decidable, Numbered, PostPaired, Deciding
  <1>3. PICK o : o = Dispatch(st, cat, msg)
    OBVIOUS
  <1>4. PICK acts : acts = o.acts
    OBVIOUS
  <1>5. PICK b : b = Direct(acts)
    OBVIOUS
  <1>6. PICK g : g = Finishing(o.fin, TRUE, FALSE)
    OBVIOUS
  <1>7. PICK todo : todo = IF post[p].cut THEN <<>> ELSE b
    OBVIOUS
  <1>8. PICK x : x = [fin |-> g, todo |-> todo]
    OBVIOUS
  <1>9. st' = o.st /\ thread' = [thread EXCEPT ![p] = x] /\ x.fin = g /\ x.todo = todo
    BY <1>1, <1>3, <1>4, <1>5, <1>6, <1>7, <1>8 DEF Dispatches
  <1> HIDE DEF z
  <1>10. RouterTyped(st) /\ RouterPaired(st)
    BY <1>0, PairParts DEF RouterInv, RouterOwes
  <1>11. OutOK(o) /\ DispatchGoal(st, msg, o) /\ OwnAnswers(o, msg.origin)
    BY <1>0, <1>2, <1>3, <1>10, Dispatched, DispatchedTraced, DispatchOwn
  <1>12. OutMine(o) /\ ActsOK(o.acts) /\ FinOK(o.fin)
    BY <1>2, <1>10, <1>11 DEF DispatchGoal, OutOK
  <1>13. Forwards(p, z) /\ z.phase = "perform"
    <2>1. PICK ph : ph = "perform"
      OBVIOUS
    <2> QED BY <1>0, <2>1, PhaseForwards DEF z
  <1>14. /\ Settled /\ LateKept /\ (\A q \in Posts : PostPaired(q)') /\ NewUnnumbered' /\ (\A q \in Posts : Early(q)' => Early(q)) /\ WaitersPaired'
    <2>1. mode # "stdio" => seen'.answers[p] = <<>>
      BY <1>0, PairParts DEF PostPaired
    <2> QED BY <1>0, <1>13, <2>1, ForwardsKeeps
  <1>15. AnswersTyped' /\ RepliesMatch' /\ SentPaired' /\ RouterPaired(st)' /\ Pipes
    <2>1. AnswersTyped' /\ RepliesMatch'
      BY <1>0, PairParts DEF AnswersTyped, RepliesMatch
    <2>2. SentPaired'
      BY <1>0, <1>14, SentStays
    <2>3. RouterPaired(o.st)'
      BY <1>12, <1>14, MineFrame DEF OutMine
    <2>4. RouterPaired(st)'
      BY <1>9, <2>3 DEF RouterPaired, Mine, AgentId
    <2>5. Pipes
      BY <1>0, PipesStay
    <2> QED BY <2>1, <2>2, <2>4, <2>5
  <1>16. /\ Sends(b) = Sends(acts) /\ TodoPaired(p, b) /\ FinsPaired(p, g)
    <2>1. (\A i \in DOMAIN o.acts : o.acts[i].to = "agent" => o.acts[i].msg.origin = p) /\ (\A i \in DOMAIN o.fin : o.fin[i].agent # NoAgent => o.fin[i].agent.origin = p)
      BY <1>2, <1>11 DEF OwnAnswers
    <2> QED BY <1>4, <1>5, <1>6, <1>12, <2>1, MarkSends
  <1>17. TodoPaired(p, todo) /\ Sends(todo) \subseteq Sends(acts)
    BY <1>7, <1>16, SendsIs
  <1>18. PICK w : Traced(st, o, w)
    BY <1>11 DEF DispatchGoal
  <1>19. Numbering(w)
    BY <1>9, <1>18 DEF Traced, Numbering
  <1>20. \A m \in Sends(todo) : Fresh(w, m)
    <2> SUFFICES ASSUME NEW m \in Sends(todo) PROVE Fresh(w, m)
      OBVIOUS
    <2>1. PICK i \in DOMAIN acts : acts[i].to # "agent" /\ m = acts[i].msg
      BY <1>17 DEF Sends
    <2>2. acts[i].msg.id = NoId \/ (acts[i].msg.id \in st.nextId..(o.st.nextId - 1) /\ acts[i].msg.origin = w)
      BY <1>4, <1>18, <2>1 DEF Traced
    <2> QED BY <1>9, <2>1, <2>2 DEF Fresh
  <1>21. ASSUME NEW m \in Sends(todo) PROVE CancelOK(m)
    <2>1. m \in Sends(acts)
      BY <1>17
    <2>2. PICK i \in DOMAIN acts : acts[i].to # "agent" /\ m = acts[i].msg
      BY <2>1 DEF Sends
    <2>3. m.method = "cancelled" => msg.method = "cancelled" /\ CancelAct(st, msg, acts[i])
      BY <1>4, <1>11, <2>2 DEF DispatchGoal
    <2>4. CASE m.method = "cancelled"
      <3>1. PICK a : a = acts[i]
        OBVIOUS
      <3>2. CancelOK(a.msg)
        BY <1>2, <2>3, <2>4, <3>1, CancelForwarded
      <3> QED BY <2>2, <3>1, <3>2
    <2>5. CASE m.method # "cancelled"
      BY <2>5 DEF CancelOK
    <2> QED BY <2>4, <2>5
  <1>22. Early(p) /\ ~Early(p)'
    <2>1. post'[p] = z
      BY <1>0, PostReplaced
    <2> QED BY <1>0, <1>13, <2>1 DEF Early
  <1>23. /\ \A q : (InActs(b, q) <=> InActs(acts, q)) /\ (SoleAct(b, q) <=> SoleAct(acts, q))
         /\ \A q : (InFin(g, q) <=> InFin(o.fin, q)) /\ (SoleFin(g, q) <=> SoleFin(o.fin, q))
    <2>1. \A q : (InActs(b, q) <=> InActs(acts, q)) /\ (SoleAct(b, q) <=> SoleAct(acts, q))
      BY <1>4, <1>5, <1>12, MarkActs
    <2>2. PICK fin, d, front : fin = o.fin /\ d = TRUE /\ front = FALSE
      OBVIOUS
    <2>3. g = Finishing(fin, d, front) /\ FinOK(fin)
      BY <1>6, <1>12, <2>2
    <2>4. \A q : (InFin(g, q) <=> InFin(fin, q)) /\ (SoleFin(g, q) <=> SoleFin(fin, q))
      BY <2>3, MarkFins
    <2> QED BY <2>1, <2>2, <2>4
  <1>24. ASSUME NEW q \in Posts, mode = "stdio", q # NoId, Once(q) PROVE OnceGoal(p, x, o.st, q)
    <2>1. q = msg.id => q = p /\ ~Owes(st, q)
      <3>1. q = msg.id => q = p
        BY <1>2, <1>24 DEF Mine, AgentId
      <3> QED BY <1>22, <1>24, <3>1 DEF Once
    <2>2. Fair(st, o, {msg.id}, q)
      BY <1>11, <1>24, <2>1 DEF DispatchGoal, Once
    <2>3. SoleAct(todo, q) /\ (InActs(todo, q) => InActs(acts, q))
      BY <1>4, <1>7, <1>23, <2>2, FewActs DEF Fair
    <2>4. SoleHeld(x, q) /\ (Holds(x, q) => InActs(acts, q) \/ InFin(o.fin, q))
      BY <1>4, <1>9, <1>23, <2>2, <2>3 DEF SoleHeld, Holds, Fair
    <2> QED BY <1>4, <1>22, <2>1, <2>2, <2>4 DEF OnceGoal, Fair
  <1>25. OnceOK'
    <2>1. PICK r : r = o.st
      OBVIOUS
    <2>2. r = st' /\ seen'.answers = seen.answers
      BY <1>0, <1>9, <2>1
    <2>3. \A q \in Posts : mode = "stdio" /\ q # NoId /\ Once(q) => OnceGoal(p, x, r, q)
      BY <1>24, <2>1
    <2> QED BY <1>0, <1>9, <1>14, <2>2, <2>3, OnceWork
  <1>26. (\A m : CancelOK(m) => CancelOK(m)') => \A m \in Sends(x.todo) : m \in Held \/ CancelOK(m)'
    BY <1>9, <1>21
  <1>27. Routed => \E v : Numbering(v) /\ \A m \in Sends(x.todo) : m \in Held \/ Fresh(v, m)
    BY <1>9, <1>19, <1>20
  <1>28. FinsPaired(p, x.fin) /\ TodoPaired(p, x.todo)
    BY <1>9, <1>16, <1>17
  <1> QED BY <1>0, <1>9, <1>14, <1>15, <1>25, <1>26, <1>27, <1>28, WorkPairs

\* A message goes to the only upstream.
LEMMA DispatchesOne ==
    ASSUME TransportBooks, NameBooks, PairBooks, NEW p \in Posts, Dispatches(p), ~Routed
    PROVE  PairBooks'
PROOF
  <1> DEFINE z == [post[p] EXCEPT !.phase = "perform"]
  <1>0. /\ post[p].phase = "dispatch" /\ UNCHANGED <<mode, cat, srv, client, seen, st>> /\ post' = [post EXCEPT ![p] = z]
        /\ p \in Threads /\ IsThread(thread[p]) /\ HubShape(hub)
    BY Parts DEF Dispatches, Threads, ThreadsOK, HubOK
  <1>1. PICK msg : msg = post[p].msg
    OBVIOUS
  <1>2. msg.origin = p /\ (msg.method = "cancelled" /\ mode # "stdio" => NamesOwn(msg.ref, p))
    BY <1>0, <1>1, Parts, PairParts DEF PostsOK, Decidable, PostPaired, Deciding
  <1>3. PICK a : a = ToUpstream(Only, msg)
    OBVIOUS
  <1>4. a.to = Only /\ a.msg = msg /\ IsTarget(a) /\ Only # "agent"
    BY <1>3, ServersOnce, NotAgent DEF ToUpstream, IsTarget
  <1>5. PICK acts : acts = <<a>>
    OBVIOUS
  <1>6. PICK b : b = Direct(acts)
    OBVIOUS
  <1>7. PICK todo : todo = IF post[p].cut THEN <<>> ELSE b
    OBVIOUS
  <1>8. PICK x : x = [thread[p] EXCEPT !.todo = todo]
    OBVIOUS
  <1>9. /\ thread' = [thread EXCEPT ![p] = x] /\ x.fin = thread[p].fin /\ x.todo = todo
        /\ hub' = IF msg.method = "list" THEN [hub EXCEPT !.listed = @ \cup {msg.id}] ELSE hub
    <2>1. /\ thread' = [thread EXCEPT ![p] = x] /\ hub' = IF msg.method = "list" THEN [hub EXCEPT !.listed = @ \cup {msg.id}] ELSE hub
      BY <1>1, <1>3, <1>5, <1>6, <1>7, <1>8 DEF Dispatches
    <2>2. x.fin = thread[p].fin /\ x.todo = todo
      BY <1>0, <1>8 DEF IsThread
    <2> QED BY <2>1, <2>2
  <1>10. hub'.waiters = hub.waiters
    BY <1>0, <1>9 DEF HubShape
  <1> HIDE DEF z
  <1>11. Forwards(p, z) /\ z.phase = "perform"
    <2>1. PICK ph : ph = "perform"
      OBVIOUS
    <2> QED BY <1>0, <2>1, PhaseForwards DEF z
  <1>12. /\ Settled /\ LateKept /\ (\A q \in Posts : PostPaired(q)') /\ NewUnnumbered' /\ WaitersPaired'
    <2>1. mode # "stdio" => seen'.answers[p] = <<>>
      BY <1>0, PairParts DEF PostPaired
    <2> QED BY <1>0, <1>10, <1>11, <2>1, ForwardsKeeps
  <1>13. AnswersTyped' /\ RepliesMatch' /\ SentPaired' /\ RouterPaired(st)' /\ Pipes /\ OnceOK'
    <2>1. AnswersTyped' /\ RepliesMatch'
      BY <1>0, PairParts DEF AnswersTyped, RepliesMatch
    <2>2. SentPaired'
      BY <1>0, <1>12, SentStays
    <2>3. RouterPaired(st)'
      BY <1>0, <1>12, PairParts, MineFrame
    <2>4. Pipes
      BY <1>0, PipesStay
    <2>5. OnceOK'
      BY <1>0 DEF OnceOK, Routed
    <2> QED BY <2>1, <2>2, <2>3, <2>4, <2>5
  <1>14. ActsOK(acts) /\ acts[1] = a /\ DOMAIN acts = {1}
    BY <1>4, <1>5, OneAct
  <1>15. DOMAIN b = {1} /\ b[1].to = Only /\ b[1].msg = msg
    <2>1. DOMAIN b = DOMAIN acts /\ \A i \in DOMAIN b : Like(b[i], acts[i])
      BY <1>6, <1>14, MarkActs
    <2> QED BY <1>4, <1>14, <2>1 DEF Like
  <1>16. TodoPaired(p, b) /\ \A m \in Sends(b) : m = msg
    BY <1>4, <1>15 DEF TodoPaired, AnswerPaired, Sends
  <1>17. TodoPaired(p, x.todo) /\ (\A m \in Sends(x.todo) : m = msg)
    BY <1>7, <1>9, <1>16, SendsIs
  <1>18. FinsPaired(p, x.fin)
    BY <1>0, <1>9, PairParts, SendsIs DEF ThreadPaired
  <1>19. CancelOK(msg)
    BY <1>2 DEF CancelOK, Routed
  <1>20. (\A m : CancelOK(m) => CancelOK(m)') => \A m \in Sends(x.todo) : m \in Held \/ CancelOK(m)'
    BY <1>17, <1>19
  <1> QED BY <1>0, <1>9, <1>12, <1>13, <1>17, <1>18, <1>20, WorkPairs

\* A message is dispatched.
LEMMA DispatchesPairs ==
    ASSUME TransportBooks, NameBooks, PairBooks, NEW p \in Posts, Dispatches(p)
    PROVE  PairBooks'
BY DispatchesRouted, DispatchesOne

\* What is left of a thread's actions: all, the rest, or none.
LeftOf(t, rest) ==
    /\ IsSeq(rest) /\ Sends(rest) \subseteq Held /\ TodoPaired(t, rest)
    /\ \A q : (InActs(rest, q) => InActs(thread[t].todo, q)) /\ (SoleAct(thread[t].todo, q) => SoleAct(rest, q))

\* Each is left of what the thread had.
LEMMA LeftIs ==
    ASSUME TransportBooks, PairBooks, NEW t \in Threads
    PROVE  /\ LeftOf(t, <<>>) /\ LeftOf(t, thread[t].todo)
           /\ thread[t].todo # <<>> => LeftOf(t, Tail(thread[t].todo))
           /\ IsThread(thread[t]) /\ IsSeq(thread[t].todo) /\ IsSeq(thread[t].fin) /\ FinsPaired(t, thread[t].fin) /\ TodoPaired(t, thread[t].todo)
PROOF
  <1>1. IsThread(thread[t]) /\ ThreadPaired(t)
    BY Parts, PairParts DEF ThreadsOK
  <1>2. PICK acts : acts = thread[t].todo
    OBVIOUS
  <1>3. IsSeq(acts) /\ IsSeq(thread[t].fin) /\ IsSeq(<<>>)
    <2>1. IsSeq(acts) /\ IsSeq(thread[t].fin)
      BY <1>1, <1>2 DEF IsThread, ActsOK, FinishingOK, IsSeq
    <2>2. <<>> \in Seq({})
      OBVIOUS
    <2> QED BY <2>1, <2>2 DEF IsSeq
  <1>4. FinsPaired(t, thread[t].fin) /\ TodoPaired(t, acts)
    BY <1>1, <1>2, SendsIs DEF ThreadPaired
  <1>5. Sends(acts) \subseteq Held
    <2>1. HeldBy(thread[t]) = Sends(acts)
      BY <1>2, SendsIs
    <2> QED BY <2>1 DEF Held
  <1>6. LeftOf(t, <<>>)
    BY <1>3, SendsIs, FewActs DEF LeftOf
  <1>7. LeftOf(t, acts)
    BY <1>2, <1>3, <1>4, <1>5 DEF LeftOf
  <1>8. acts # <<>> => LeftOf(t, Tail(acts))
    <2> SUFFICES ASSUME acts # <<>> PROVE LeftOf(t, Tail(acts))
      OBVIOUS
    <2>1. IsSeq(Tail(acts))
      BY <1>3 DEF IsSeq
    <2>2. Sends(Tail(acts)) \subseteq Sends(acts) /\ TodoPaired(t, Tail(acts))
      BY <1>3, <1>4, TailSends
    <2>3. \A q : (InActs(Tail(acts), q) => InActs(acts, q)) /\ (SoleAct(acts, q) => SoleAct(Tail(acts), q))
      BY <1>3, TailActs
    <2>4. PICK rest : rest = Tail(acts)
      OBVIOUS
    <2>5. LeftOf(t, rest)
      BY <1>2, <1>5, <2>1, <2>2, <2>3, <2>4 DEF LeftOf
    <2> QED BY <2>4, <2>5
  <1> QED BY <1>1, <1>2, <1>3, <1>4, <1>6, <1>7, <1>8

\* What the router gave out is given to a thread, before or after what it has left to do.
Joins(todo, a, b) == todo = a \o b \/ todo = b \o a
\* What was in one place is in one place still.
LEMMA RouterGives ==
    ASSUME TransportBooks, PairBooks, Routed, UNCHANGED <<mode, post, hub, seen>>, Pipes, NEW t \in Threads, thread[t].fin = <<>>,
           NEW rest, LeftOf(t, rest), NEW o, OutOK(o), InGoal(st, o), st' = o.st, NEW front, NEW x,
           x.fin = Finishing(o.fin, FALSE, front), Joins(x.todo, rest, Later(o.acts)), thread' = [thread EXCEPT ![t] = x]
    PROVE  PairBooks'
PROOF
  <1>1. PICK b : b = Later(o.acts)
    OBVIOUS
  <1>2. PICK g, d, fin : g = Finishing(o.fin, FALSE, front) /\ d = FALSE /\ fin = o.fin
    OBVIOUS
  <1>3. ActsOK(o.acts) /\ FinOK(o.fin) /\ OutMine(o) /\ Traced(st, o, 0) /\ Uncancelling(o.acts)
    BY DEF OutOK, InGoal
  <1>4. /\ Settled /\ LateKept /\ (\A q \in Posts : PostPaired(q)') /\ NewUnnumbered' /\ RepliesMatch' /\ AnswersTyped' /\ WaitersPaired'
    BY PostsPairedStay
  <1>5. SentPaired' /\ RouterPaired(st)'
    <2>1. SentPaired'
      BY <1>4, SentStays
    <2>2. RouterPaired(o.st)'
      BY <1>3, <1>4, MineFrame DEF OutMine
    <2>3. RouterPaired(st)'
      BY <2>2 DEF RouterPaired, Mine, AgentId
    <2> QED BY <2>1, <2>3
  <1>6. Sends(b) = Sends(o.acts) /\ TodoPaired(t, b) /\ FinsPaired(t, g)
    BY <1>1, <1>2, <1>3, MarkSends
  <1>7. IsSeq(b) /\ \A q : (InActs(b, q) <=> InActs(o.acts, q)) /\ (SoleAct(b, q) <=> SoleAct(o.acts, q))
    <2>1. PICK acts : acts = o.acts
      OBVIOUS
    <2>2. IsSeq(b) /\ \A q : (InActs(b, q) <=> InActs(acts, q)) /\ (SoleAct(b, q) <=> SoleAct(acts, q))
      BY <1>1, <1>3, <2>1, MarkActs
    <2> QED BY <2>1, <2>2
  <1>8. \A q : (InFin(g, q) <=> InFin(o.fin, q)) /\ (SoleFin(g, q) <=> SoleFin(o.fin, q))
    <2>1. g = Finishing(fin, d, front) /\ FinOK(fin)
      BY <1>2, <1>3
    <2>2. \A q : (InFin(g, q) <=> InFin(fin, q)) /\ (SoleFin(g, q) <=> SoleFin(fin, q))
      BY <2>1, MarkFins
    <2> QED BY <1>2, <2>2
  <1>9. x.fin = g /\ (x.todo = rest \o b \/ x.todo = b \o rest)
    BY <1>1, <1>2 DEF Joins
  <1>10. /\ Sends(x.todo) \subseteq Sends(rest) \cup Sends(o.acts) /\ TodoPaired(t, x.todo)
         /\ \A q : (InActs(x.todo, q) => InActs(rest, q) \/ InActs(o.acts, q))
         /\ \A q : SoleAct(rest, q) /\ SoleAct(o.acts, q) /\ ~(InActs(rest, q) /\ InActs(o.acts, q)) => SoleAct(x.todo, q)
    <2>0. IsSeq(rest) /\ TodoPaired(t, rest)
      BY DEF LeftOf
    <2>1. /\ Sends(rest \o b) \subseteq Sends(rest) \cup Sends(b) /\ Sends(b \o rest) \subseteq Sends(rest) \cup Sends(b)
          /\ TodoPaired(t, rest \o b) /\ TodoPaired(t, b \o rest)
      BY <1>6, <1>7, <2>0, JoinSends
    <2>2. /\ \A q : InActs(rest \o b, q) => InActs(rest, q) \/ InActs(b, q)
          /\ \A q : SoleAct(rest, q) /\ SoleAct(b, q) /\ ~(InActs(rest, q) /\ InActs(b, q)) => SoleAct(rest \o b, q)
      BY <1>7, <2>0, JoinActs
    <2>3. /\ \A q : InActs(b \o rest, q) => InActs(b, q) \/ InActs(rest, q)
          /\ \A q : SoleAct(b, q) /\ SoleAct(rest, q) /\ ~(InActs(b, q) /\ InActs(rest, q)) => SoleAct(b \o rest, q)
      BY <1>7, <2>0, JoinActs
    <2>4. CASE x.todo = rest \o b
      BY <1>6, <1>7, <2>1, <2>2, <2>4
    <2>5. CASE x.todo = b \o rest
      BY <1>6, <1>7, <2>1, <2>3, <2>5
    <2> QED BY <1>9, <2>4, <2>5
  <1>11. ASSUME NEW m \in Sends(x.todo) PROVE m \in Held \/ (Fresh(0, m) /\ m.method # "cancelled")
    <2>1. m \in Held \/ m \in Sends(o.acts)
      BY <1>10 DEF LeftOf
    <2>2. CASE m \in Sends(o.acts)
      <3>1. PICK i \in DOMAIN o.acts : o.acts[i].to # "agent" /\ m = o.acts[i].msg
        BY <2>2 DEF Sends
      <3>2. o.acts[i].msg.id = NoId \/ (o.acts[i].msg.id \in st.nextId..(o.st.nextId - 1) /\ o.acts[i].msg.origin = 0)
        BY <1>3, <3>1 DEF Traced
      <3>3. m.method # "cancelled"
        BY <1>3, <3>1 DEF Uncancelling
      <3> QED BY <3>1, <3>2, <3>3 DEF Fresh
    <2> QED BY <2>1, <2>2
  <1>12. Numbering(0)
    BY <1>3 DEF Traced, Numbering
  <1>13. ASSUME NEW q \in Posts, mode = "stdio", q # NoId, Once(q) PROVE OnceGoal(t, x, o.st, q)
    <2>1. SoleOwed(st, q) /\ SoleAct(thread[t].todo, q) /\ (Holds(thread[t], q) => ~Owes(st, q))
      BY <1>13 DEF Once, SoleHeld
    <2>2. Fair(st, o, {}, q)
      BY <1>13, <2>1 DEF InGoal
    <2>3. InActs(rest, q) => Holds(thread[t], q) /\ ~Owes(o.st, q) /\ ~InActs(o.acts, q) /\ ~InFin(o.fin, q)
      BY <2>1, <2>2 DEF Fair, LeftOf, Holds
    <2>4. SoleAct(rest, q) /\ SoleAct(o.acts, q)
      BY <2>1, <2>2 DEF Fair, LeftOf
    <2>5. SoleAct(x.todo, q)
      BY <1>10, <2>3, <2>4
    <2>6. SoleHeld(x, q)
      BY <1>8, <1>9, <1>10, <2>2, <2>3, <2>5 DEF SoleHeld, Fair
    <2>7. Holds(x, q) => InActs(rest, q) \/ InActs(o.acts, q) \/ InFin(o.fin, q)
      BY <1>8, <1>9, <1>10 DEF Holds
    <2> QED BY <2>2, <2>3, <2>6, <2>7 DEF OnceGoal, Fair
  <1>14. OnceOK'
    <2>1. PICK r : r = o.st
      OBVIOUS
    <2>2. r = st' /\ seen'.answers = seen.answers /\ \A q \in Posts : Early(q)' => Early(q)
      BY <2>1 DEF Early
    <2>3. \A q \in Posts : mode = "stdio" /\ q # NoId /\ Once(q) => OnceGoal(t, x, r, q)
      BY <1>13, <2>1
    <2> QED BY <2>2, <2>3, OnceWork
  <1>15. (\A m : CancelOK(m) => CancelOK(m)') => \A m \in Sends(x.todo) : m \in Held \/ CancelOK(m)'
    BY <1>11 DEF CancelOK
  <1>16. Routed => \E v : Numbering(v) /\ \A m \in Sends(x.todo) : m \in Held \/ Fresh(v, m)
    BY <1>11, <1>12
  <1>17. FinsPaired(t, x.fin) /\ TodoPaired(t, x.todo)
    BY <1>6, <1>9, <1>10
  <1> QED BY <1>4, <1>5, <1>14, <1>15, <1>16, <1>17, WorkPairs

\* The same when the thread had nothing to do.
LEMMA RouterGivesAll ==
    ASSUME TransportBooks, PairBooks, Routed, UNCHANGED <<mode, post, hub, seen>>, Pipes, NEW t \in Threads, thread[t] = AtRest,
           NEW o, OutOK(o), InGoal(st, o), st' = o.st,
           thread' = [thread EXCEPT ![t] = [fin |-> Finishing(o.fin, FALSE, FALSE), todo |-> Later(o.acts)]]
    PROVE  PairBooks'
PROOF
  <1>1. PICK x : x = [fin |-> Finishing(o.fin, FALSE, FALSE), todo |-> Later(o.acts)]
    OBVIOUS
  <1>2. PICK front : front = FALSE
    OBVIOUS
  <1>3. PICK rest : rest = <<>>
    OBVIOUS
  <1>4. thread[t].fin = <<>> /\ LeftOf(t, rest)
    BY <1>3, LeftIs DEF AtRest
  <1>5. x.fin = Finishing(o.fin, FALSE, front) /\ x.todo = Later(o.acts)
    BY <1>1, <1>2
  <1>6. Joins(x.todo, rest, Later(o.acts))
    <2>1. PICK b : b = Later(o.acts)
      OBVIOUS
    <2>2. PICK acts : acts = o.acts
      OBVIOUS
    <2>3. IsSeq(b)
      BY <2>1, <2>2, MarkActs DEF OutOK
    <2>4. b = rest \o b
      BY <1>3, <2>3 DEF IsSeq
    <2> QED BY <1>5, <2>1, <2>4 DEF Joins
  <1> QED BY <1>1, <1>4, <1>5, <1>6, RouterGives

\* A thread's work changes, and the router gives nothing to it.
LEMMA WorkOnly ==
    ASSUME TransportBooks, PairBooks, UNCHANGED <<mode, st, post>>, seen'.answers = seen.answers, hub'.waiters = hub.waiters, Pipes, SentPaired',
           NEW t \in Threads, NEW x, thread' = [thread EXCEPT ![t] = x], FinsPaired(t, x.fin), TodoPaired(t, x.todo), Sends(x.todo) \subseteq Held,
           \A q \in Posts : mode = "stdio" /\ q # NoId /\ SoleHeld(thread[t], q) => SoleHeld(x, q) /\ (Holds(x, q) => Holds(thread[t], q))
    PROVE  PairBooks'
PROOF
  <1>1. /\ Settled /\ (\A q \in Posts : PostPaired(q)') /\ NewUnnumbered' /\ RepliesMatch' /\ AnswersTyped' /\ WaitersPaired' /\ RouterPaired(st)'
    BY PostsPairedStay
  <1>2. \A w : Numbering(w)
    BY NumberingStays
  <1>3. ASSUME NEW q \in Posts, mode = "stdio", q # NoId, Once(q) PROVE OnceGoal(t, x, st, q)
    BY <1>3 DEF Once, OnceGoal
  <1>4. OnceOK'
    <2>1. PICK r : r = st
      OBVIOUS
    <2>2. r = st' /\ \A q \in Posts : Early(q)' => Early(q)
      BY <2>1 DEF Early
    <2>3. \A q \in Posts : mode = "stdio" /\ q # NoId /\ Once(q) => OnceGoal(t, x, r, q)
      BY <1>3, <2>1
    <2> QED BY <2>2, <2>3, OnceWork
  <1> QED BY <1>1, <1>2, <1>4, WorkPairs

\* A listing turns into its answer.
LEMMA FinishesPairs ==
    ASSUME TransportBooks, NameBooks, PairBooks, NEW t \in Threads, Finishes(t)
    PROVE  PairBooks'
PROOF
  <1> DEFINE f == Head(thread[t].fin)
             s == NextServer(f.tools)
             o == IF DOMAIN f.tools = {} THEN Observe(cat, Only, <<>>) ELSE Observe(cat, s, f.tools[s])
             left == IF DOMAIN f.tools = {} THEN f.tools ELSE Forget(f.tools, {s})
             visible == f.visible \o o.visible
             answer == [to |-> "agent", direct |-> f.direct,
                        msg |-> [Reply(f.agent.id, "result", f.agent.origin) EXCEPT !.tools = visible]]
             rest == thread[t].todo
             answered == IF f.agent = NoAgent \/ (t \in Posts /\ post[t].cut) THEN rest
                         ELSE IF f.front THEN <<answer>> \o rest ELSE Append(rest, answer)
             x == IF DOMAIN left # {} THEN [thread[t] EXCEPT !.fin[1].tools = left, !.fin[1].visible = visible]
                  ELSE [fin |-> Tail(thread[t].fin), todo |-> answered]
  <1>1. UNCHANGED <<mode, st, post, srv, hub, client, seen>>
    BY DEF Finishes
  <1>2. /\ IsThread(thread[t]) /\ thread = [u \in Threads |-> thread[u]]
        /\ IsSeq(thread[t].todo) /\ IsSeq(thread[t].fin) /\ FinsPaired(t, thread[t].fin) /\ TodoPaired(t, thread[t].todo) /\ LeftOf(t, thread[t].todo)
    BY Parts, LeftIs DEF ThreadsOK
  <1>3. thread' = [thread EXCEPT ![t] = x] /\ thread[t].fin # <<>>
    BY <1>2 DEF Finishes
  <1>4. IsFinishing(f) /\ f = thread[t].fin[1]
    BY <1>2, <1>3, FinishingHead DEF IsThread
  <1>5. PICK fin : fin = thread[t].fin
    OBVIOUS
  <1>6. PICK todo : todo = rest
    OBVIOUS
  <1>7. PICK a : a = answer
    OBVIOUS
  <1>8. a.to = "agent" /\ a.direct = f.direct /\ a.msg.id = f.agent.id /\ a.msg.origin = f.agent.origin
    <2> HIDE DEF f, visible
    <2> QED BY <1>7 DEF Reply
  <1>9. PICK y : y = x
    <2> HIDE DEF x
    <2> QED OBVIOUS
  <1>10. PICK T : fin \in Seq(T)
    BY <1>2, <1>5 DEF IsSeq
  <1>11. (y.fin = Tail(fin) /\ y.todo \in {todo, <<a>> \o todo, Append(todo, a)} /\ (y.todo # todo => f.agent # NoAgent))
         \/ (y.todo = todo /\ DOMAIN y.fin = DOMAIN fin /\ \A i \in DOMAIN fin : y.fin[i].agent = fin[i].agent /\ y.fin[i].direct = fin[i].direct)
    <2> HIDE DEF visible, o
    <2>1. CASE DOMAIN left # {}
      <3> DEFINE g == [f EXCEPT !.tools = left, !.visible = visible]
                 q == [fin EXCEPT ![1] = g]
      <3>1. g.agent = f.agent /\ g.direct = f.direct
        <4> HIDE DEF f, left
        <4> QED BY <1>4 DEF IsFinishing
      <3>2. y = [thread[t] EXCEPT !.fin = q]
        <4>1. y = [thread[t] EXCEPT !.fin[1].tools = left, !.fin[1].visible = visible]
          BY <1>9, <2>1
        <4>2. thread[t] \in [fin : {thread[t].fin}, todo : {thread[t].todo}]
          BY <1>2 DEF IsThread
        <4>4. 1 \in DOMAIN fin
          BY <1>3, <1>5, <1>10
        <4> HIDE DEF left
        <4>5. [fin EXCEPT ![1].tools = left, ![1].visible = visible] = q
          BY <1>4, <1>5, <1>10, <4>4 DEF IsFinishing
        <4> HIDE DEF q
        <4> QED BY <1>5, <4>1, <4>2, <4>4, <4>5 DEF IsFinishing
      <3>3. DOMAIN q = DOMAIN fin /\ \A i \in DOMAIN fin : q[i] = IF i = 1 THEN g ELSE fin[i]
        <4> HIDE DEF g
        <4> QED BY <1>10
      <3> HIDE DEF q, g
      <3>4. y.fin = q /\ y.todo = todo
        BY <1>2, <1>6, <3>2 DEF IsThread
      <3> QED BY <1>4, <1>5, <3>1, <3>3, <3>4
    <2>2. CASE DOMAIN left = {}
      <3>1. y = [fin |-> Tail(thread[t].fin), todo |-> answered]
        BY <1>9, <2>2
      <3> HIDE DEF left
      <3>2. answered \in {todo, <<a>> \o todo, Append(todo, a)} /\ (answered # todo => f.agent # NoAgent)
        BY <1>6, <1>7
      <3> HIDE DEF answered
      <3>3. y.fin = Tail(fin) /\ y.todo = answered
        BY <1>5, <3>1
      <3> QED BY <3>2, <3>3
    <2> QED BY <2>1, <2>2
  <1>12. thread' = [thread EXCEPT ![t] = y]
    <2> HIDE DEF x
    <2> QED BY <1>3, <1>9
  <1> HIDE DEF x, answered, answer, rest, left, visible, o, s
  <1>13. PICK h : h = f
    OBVIOUS
  <1>14. h = Head(fin) /\ fin # <<>> /\ IsSeq(fin) /\ IsSeq(todo) /\ FinsPaired(t, fin) /\ TodoPaired(t, todo) /\ Sends(todo) \subseteq Held
    BY <1>2, <1>3, <1>5, <1>6, <1>13 DEF rest, LeftOf
  <1>15. \A q : AnswerTo(a, q) <=> h.agent.id = q
    BY <1>8, <1>13 DEF AnswerTo
  <1>16. FinPaired(t, h) /\ FinsPaired(t, Tail(fin))
    BY <1>14, TailFinsPaired
  <1>17. h.agent # NoAgent => AnswerPaired(t, a)
    BY <1>8, <1>13, <1>16 DEF FinPaired, AnswerPaired
  <1>18. /\ \A q : InFin(Tail(fin), q) => InFin(fin, q)
         /\ \A q : SoleFin(fin, q) => SoleFin(Tail(fin), q)
         /\ \A q : SoleFin(fin, q) /\ ListingTo(Head(fin), q) => ~InFin(Tail(fin), q)
         /\ \A q : ListingTo(Head(fin), q) => InFin(fin, q)
    BY <1>14, TailFins
  <1>19. IsSeq(<<a>>) /\ Append(todo, a) = todo \o <<a>>
    BY <1>14, AppendJoins
  <1>20. FinsPaired(t, y.fin) /\ TodoPaired(t, y.todo) /\ Sends(y.todo) \subseteq Held
    <2>1. CASE y.fin = Tail(fin) /\ y.todo \in {todo, <<a>> \o todo, Append(todo, a)} /\ (y.todo # todo => f.agent # NoAgent)
      <3>1. CASE y.todo = todo
        BY <1>14, <1>16, <2>1, <3>1
      <3>2. CASE y.todo # todo
        <4>1. AnswerPaired(t, a)
          BY <1>13, <1>17, <2>1, <3>2
        <4>2. TodoPaired(t, <<a>>) /\ Sends(<<a>>) = {}
          BY <1>8, <4>1, SendsIs
        <4>3. PICK e : e = <<a>>
          OBVIOUS
        <4>4. /\ Sends(e \o todo) \subseteq Sends(e) \cup Sends(todo) /\ TodoPaired(t, e \o todo)
              /\ Sends(todo \o e) \subseteq Sends(todo) \cup Sends(e) /\ TodoPaired(t, todo \o e)
          BY <1>14, <1>19, <4>2, <4>3, JoinSends
        <4>5. y.todo = e \o todo \/ y.todo = todo \o e
          BY <1>19, <2>1, <3>2, <4>3
        <4>6. TodoPaired(t, y.todo) /\ Sends(y.todo) \subseteq Held
          BY <1>14, <4>2, <4>3, <4>4, <4>5
        <4> QED BY <1>16, <2>1, <4>6
      <3> QED BY <3>1, <3>2
    <2>2. CASE y.todo = todo /\ DOMAIN y.fin = DOMAIN fin /\ \A i \in DOMAIN fin : y.fin[i].agent = fin[i].agent /\ y.fin[i].direct = fin[i].direct
      <3>1. FinsPaired(t, y.fin)
        BY <1>14, <2>2 DEF FinsPaired, FinPaired
      <3> QED BY <1>14, <2>2, <3>1
    <2> QED BY <1>11, <2>1, <2>2
  <1>21. ASSUME NEW q, SoleHeld(thread[t], q) PROVE SoleHeld(y, q) /\ (Holds(y, q) => Holds(thread[t], q))
    <2>0. ~(InActs(todo, q) /\ InFin(fin, q)) /\ SoleAct(todo, q) /\ SoleFin(fin, q) /\ (Holds(thread[t], q) <=> InActs(todo, q) \/ InFin(fin, q))
      BY <1>5, <1>6, <1>21 DEF SoleHeld, Holds, rest
    <2>1. CASE y.fin = Tail(fin) /\ y.todo \in {todo, <<a>> \o todo, Append(todo, a)} /\ (y.todo # todo => f.agent # NoAgent)
      <3>1. CASE y.todo = todo
        BY <1>18, <2>0, <2>1, <3>1 DEF SoleHeld, Holds
      <3>2. CASE y.todo # todo
        <4>1. PICK e : e = <<a>>
          OBVIOUS
        <4>2. SoleAct(e, q) /\ (InActs(e, q) <=> AnswerTo(a, q))
          BY <4>1, FewActs
        <4>3. InActs(e, q) => ListingTo(h, q)
          BY <1>13, <1>15, <2>1, <3>2, <4>2 DEF ListingTo
        <4>4. InActs(e, q) => InFin(fin, q) /\ ~InFin(Tail(fin), q) /\ ~InActs(todo, q)
          BY <1>14, <1>18, <2>0, <4>3
        <4>5. /\ InActs(e \o todo, q) => InActs(e, q) \/ InActs(todo, q)
              /\ SoleAct(e, q) /\ SoleAct(todo, q) /\ ~(InActs(e, q) /\ InActs(todo, q)) => SoleAct(e \o todo, q)
          BY <1>14, <1>19, <4>1, JoinActs
        <4>6. /\ InActs(todo \o e, q) => InActs(todo, q) \/ InActs(e, q)
              /\ SoleAct(todo, q) /\ SoleAct(e, q) /\ ~(InActs(todo, q) /\ InActs(e, q)) => SoleAct(todo \o e, q)
          BY <1>14, <1>19, <4>1, JoinActs
        <4>7. y.todo = e \o todo \/ y.todo = todo \o e
          BY <1>19, <2>1, <3>2, <4>1
        <4>8. SoleAct(y.todo, q) /\ (InActs(y.todo, q) => InActs(e, q) \/ InActs(todo, q))
          BY <2>0, <4>2, <4>4, <4>5, <4>6, <4>7
        <4> QED BY <1>18, <2>0, <2>1, <4>4, <4>8 DEF SoleHeld, Holds
      <3> QED BY <3>1, <3>2
    <2>2. CASE y.todo = todo /\ DOMAIN y.fin = DOMAIN fin /\ \A i \in DOMAIN fin : y.fin[i].agent = fin[i].agent /\ y.fin[i].direct = fin[i].direct
      <3>1. (InFin(y.fin, q) <=> InFin(fin, q)) /\ (SoleFin(y.fin, q) <=> SoleFin(fin, q))
        BY <2>2 DEF InFin, SoleFin, ListingTo
      <3> QED BY <2>0, <2>2, <3>1 DEF SoleHeld, Holds
    <2> QED BY <1>11, <2>1, <2>2
  <1>22. Pipes /\ SentPaired'
    <2>1. Pipes
      BY <1>1, PipesStay
    <2>2. LateKept
      BY <1>1 DEF LateKept, Early
    <2> QED BY <1>1, <2>1, <2>2, SentStays
  <1>23. seen'.answers = seen.answers /\ hub'.waiters = hub.waiters
    BY <1>1
  <1> QED BY <1>1, <1>12, <1>20, <1>21, <1>22, <1>23, WorkOnly

\* A server's output ends.
LEMMA OutputEndsPairs ==
    ASSUME TransportBooks, PairBooks, NEW s \in ServerSet, OutputEnds(s)
    PROVE  PairBooks'
PROOF
  <1>1. UNCHANGED <<mode, post, hub, seen>> /\ thread[s] = AtRest /\ s \in Threads
    BY DEF OutputEnds, Threads
  <1>2. \A u \in ServerSet : srv'[u].inbox = srv[u].inbox /\ srv'[u].out = srv[u].out
    BY Parts DEF OutputEnds, ServersOK, IsServer
  <1>3. CASE Routed
    <2>1. PICK o : o = ServerGone(st, s)
      OBVIOUS
    <2>2. OutOK(o) /\ InGoal(st, o)
      BY <2>1, Parts, PairParts, GoneRouted, GoneTraced DEF RouterInv, RouterOwes
    <2>3. st' = o.st /\ thread' = [thread EXCEPT ![s] = [fin |-> Finishing(o.fin, FALSE, FALSE), todo |-> Later(o.acts)]]
      BY <1>3, <2>1 DEF OutputEnds
    <2>4. Pipes
      <3>1. Boxed' = Boxed /\ Lined' = Lined /\ Sent' = Sent
        BY <1>1, <1>2, PipesStay
      <3> QED BY <3>1 DEF Pipes
    <2> QED BY <1>1, <1>3, <2>2, <2>3, <2>4, RouterGivesAll
  <1>4. CASE ~Routed
    <2>1. UNCHANGED <<st, thread>>
      BY <1>4 DEF OutputEnds
    <2> QED BY <1>1, <1>2, <2>1, IdlePairs
  <1> QED BY <1>3, <1>4

\* A line is taken off a server's output.
LEMMA ReadPipes ==
    ASSUME TransportBooks, NEW s \in ServerSet, srv' = [srv EXCEPT ![s].out = Tail(@)], srv[s].out # <<>>, seen'.sent = seen.sent
    PROVE  Pipes /\ Head(srv[s].out) \in Lined /\ Head(srv[s].out) = srv[s].out[1] /\ 1 \in DOMAIN srv[s].out
PROOF
  <1>1. IsServer(srv[s]) /\ srv = [u \in ServerSet |-> srv[u]]
    BY Parts DEF ServersOK
  <1>2. PICK out : out = srv[s].out
    OBVIOUS
  <1>3. PICK left : left = Tail(out)
    OBVIOUS
  <1>4. IsSeq(out)
    BY <1>1, <1>2 DEF IsServer, LinesOK, IsSeq
  <1>5. /\ Head(out) = out[1] /\ 1 \in DOMAIN out
        /\ \A i \in DOMAIN left : i + 1 \in DOMAIN out /\ left[i] = out[i + 1]
    BY <1>2, <1>3, <1>4, TailIs
  <1>6. srv'[s].inbox = srv[s].inbox /\ srv'[s].out = left
    BY <1>1, <1>2, <1>3 DEF IsServer
  <1>7. \A u \in ServerSet : u # s => srv'[u] = srv[u]
    BY <1>1
  <1>8. Boxed' = Boxed
    BY <1>6, <1>7 DEF Boxed
  <1>9. ASSUME NEW l \in Lined' PROVE l \in Lined
    <2>1. PICK u \in ServerSet : \E i \in DOMAIN srv'[u].out : l = srv'[u].out[i]
      BY <1>9 DEF Lined
    <2>2. CASE u = s
      <3>1. PICK i \in DOMAIN left : l = left[i]
        BY <1>6, <2>1, <2>2
      <3>2. PICK j \in DOMAIN out : l = out[j]
        BY <1>5, <3>1
      <3> QED BY <1>2, <3>2 DEF Lined
    <2>3. CASE u # s
      BY <1>7, <2>1, <2>3 DEF Lined
    <2> QED BY <2>2, <2>3
  <1>10. Sent' = Sent
    BY PipesStay
  <1>11. Head(out) \in Lined
    BY <1>2, <1>5 DEF Lined
  <1>12. Pipes
    BY <1>8, <1>9, <1>10 DEF Pipes
  <1> QED BY <1>2, <1>5, <1>11, <1>12

\* An ingress thread reads a line.
LEMMA ReadsPairs ==
    ASSUME TransportBooks, NameBooks, PairBooks, NEW s \in ServerSet, Reads(s)
    PROVE  PairBooks'
PROOF
  <1>1. /\ UNCHANGED <<mode, post, seen>> /\ thread[s] = AtRest /\ s \in Threads /\ srv[s].ingress = "reading" /\ srv[s].out # <<>>
        /\ srv' = [srv EXCEPT ![s].out = Tail(@)]
    BY DEF Reads, Threads
  <1>2. PICK line : line = Head(srv[s].out)
    OBVIOUS
  <1>3. Pipes /\ line \in Lined /\ line = srv[s].out[1] /\ 1 \in DOMAIN srv[s].out
    BY <1>1, <1>2, ReadPipes
  <1>4. IsLine(line)
    <2>1. LinesOK(srv[s].out)
      BY Parts DEF ServersOK, IsServer
    <2> QED BY <1>1, <1>2, <2>1, LineRead
  <1>5. CASE Routed
    <2>1. PICK o : o = OnRoutedLine(st, s, line)
      OBVIOUS
    <2>2. line.id \in DOMAIN st.waiting => st.waiting[line.id].origin = line.origin
      <3> SUFFICES ASSUME line.id \in DOMAIN st.waiting PROVE st.waiting[line.id].origin = line.origin
        OBVIOUS
      <3>1. <<line.id, st.waiting[line.id].origin>> \in Pairs
        BY DEF Pairs
      <3>2. <<line.id, line.origin>> \in Pairs
        BY <1>3 DEF Pairs
      <3>3. line.id # NoId
        BY Parts DEF RouterInv, RouterOwes, RouterTyped, NoId
      <3>4. PICK w : w = st.waiting[line.id].origin
        OBVIOUS
      <3>5. PICK x, y : x = <<line.id, w>> /\ y = <<line.id, line.origin>>
        OBVIOUS
      <3>6. x[2] = y[2]
        BY <1>5, <3>1, <3>2, <3>3, <3>4, <3>5, PairParts DEF PairsOK
      <3> QED BY <3>4, <3>5, <3>6
    <2>3. OutOK(o)
      BY <1>4, <2>1, Parts, LineRouted
    <2>4. InGoal(st, o)
      BY <1>4, <2>1, <2>2, Parts, PairParts, LineTraced
    <2>5. st' = o.st /\ hub' = hub /\ thread' = [thread EXCEPT ![s] = [fin |-> Finishing(o.fin, FALSE, FALSE), todo |-> Later(o.acts)]]
      BY <1>2, <1>5, <2>1 DEF Reads
    <2> QED BY <1>1, <1>3, <1>5, <2>3, <2>4, <2>5, RouterGivesAll
  <1>6. CASE ~Routed
    <2>1. mode = "single"
      BY <1>1, <1>6, Parts, TransportAssumption DEF ServersOK, Routed
    <2>2. s = Only
      BY <1>1, <2>1, NameParts DEF PipeOK
    <2>3. OneLine(line)
      <3>1. 1 \in 1..Len(srv[Only].out)
        <4>1. IsSeq(srv[s].out)
          BY Parts DEF ServersOK, IsServer, LinesOK, IsSeq
        <4> QED BY <1>3, <2>2, <4>1 DEF IsSeq
      <3> QED BY <1>3, <2>1, <2>2, <3>1, NameParts DEF PipeOK
    <2>4. Mine(line.id, line.origin)
      BY <2>1, <2>3 DEF OneLine, OfPost, Mine, AgentId
    <2>5. PICK reply : reply = RelayOne(Reply(line.id, "result", line.origin), line.page).reply
      OBVIOUS
    <2>6. reply.id = line.id /\ reply.origin = line.origin
      BY <2>5 DEF RelayOne, Reply
    <2>7. PICK a : a = ToAgent(reply)
      OBVIOUS
    <2>8. PICK acts : acts = <<a>>
      OBVIOUS
    <2>9. PICK todo : todo = Later(acts)
      OBVIOUS
    <2>10. PICK x : x = [thread[s] EXCEPT !.todo = todo]
      OBVIOUS
    <2>11. st' = st /\ hub' = [hub EXCEPT !.listed = @ \ {line.id}] /\ thread' = [thread EXCEPT ![s] = x]
      BY <1>2, <1>6, <2>5, <2>7, <2>8, <2>9, <2>10 DEF Reads
    <2>12. hub'.waiters = hub.waiters
      BY <2>11, Parts DEF HubOK, HubShape
    <2>13. x.fin = <<>> /\ x.todo = todo
      BY <1>1, <2>10 DEF AtRest
    <2>14. a.to = "agent" /\ a.msg = reply /\ IsTarget(a)
      BY <2>7 DEF ToAgent, IsTarget
    <2>15. ActsOK(acts) /\ DOMAIN acts = {1} /\ acts[1] = a
      BY <2>8, <2>14, OneAct
    <2>16. DOMAIN todo = {1} /\ todo[1].to = "agent" /\ todo[1].msg = reply /\ todo[1].direct = FALSE
      <3>1. DOMAIN todo = DOMAIN acts /\ (\A i \in DOMAIN todo : Like(todo[i], acts[i])) /\ (todo = Later(acts) => \A i \in DOMAIN todo : todo[i].direct = FALSE)
        BY <2>9, <2>15, MarkActs
      <3> QED BY <2>9, <2>14, <2>15, <3>1 DEF Like
    <2>17. TodoPaired(s, x.todo) /\ FinsPaired(s, x.fin)
      BY <2>4, <2>6, <2>13, <2>16, SendsIs DEF TodoPaired, AnswerPaired
    <2>18. Sends(x.todo) \subseteq Held
      BY <2>13, <2>16 DEF Sends
    <2>19. SentPaired'
      <3>1. LateKept
        BY <1>1 DEF LateKept, Early
      <3> QED BY <1>1, <3>1, SentStays
    <2> QED BY <1>1, <1>3, <2>1, <2>11, <2>12, <2>17, <2>18, <2>19, WorkOnly
  <1> QED BY <1>5, <1>6

\* The first action of a thread, and the rest.
LEMMA FirstAct ==
    ASSUME TransportBooks, PairBooks, NEW t \in Threads, thread[t].todo # <<>>
    PROVE  /\ IsSeq(thread[t].todo) /\ AnswerPaired(t, Head(thread[t].todo)) /\ LeftOf(t, Tail(thread[t].todo))
           /\ Head(thread[t].todo).to # "agent" => Head(thread[t].todo).msg \in Held
           /\ \A q : SoleAct(thread[t].todo, q) /\ AnswerTo(Head(thread[t].todo), q) => ~InActs(Tail(thread[t].todo), q)
           /\ \A q : AnswerTo(Head(thread[t].todo), q) => InActs(thread[t].todo, q)
PROOF
  <1>1. LeftOf(t, Tail(thread[t].todo)) /\ IsSeq(thread[t].todo) /\ TodoPaired(t, thread[t].todo) /\ LeftOf(t, thread[t].todo)
    BY LeftIs
  <1>2. PICK acts : acts = thread[t].todo
    OBVIOUS
  <1>3. IsSeq(acts) /\ acts # <<>> /\ TodoPaired(t, acts)
    BY <1>1, <1>2
  <1>4. (Head(acts).to # "agent" => Head(acts).msg \in Sends(acts)) /\ AnswerPaired(t, Head(acts))
    BY <1>3, TailSends
  <1>5. Sends(acts) \subseteq Held
    BY <1>1, <1>2 DEF LeftOf
  <1>6. /\ \A q : SoleAct(acts, q) /\ AnswerTo(Head(acts), q) => ~InActs(Tail(acts), q)
        /\ \A q : AnswerTo(Head(acts), q) => InActs(acts, q)
    BY <1>3, TailActs
  <1> QED BY <1>1, <1>2, <1>4, <1>5, <1>6

\* A message could not be sent.
LEMMA FailsPairs ==
    ASSUME TransportBooks, NameBooks, PairBooks, NEW t \in Threads, thread[t].fin = <<>>, thread[t].todo # <<>>, mode # "relay",
           NEW s \in ServerSet, Head(thread[t].todo).to # "agent", FailsToSend(t, s, Head(thread[t].todo).msg),
           UNCHANGED <<mode, cat, post, hub, srv, client, seen>>
    PROVE  PairBooks'
PROOF
  <1>1. PICK rest : rest = Tail(thread[t].todo)
    OBVIOUS
  <1>2. PICK msg : msg = Head(thread[t].todo).msg
    OBVIOUS
  <1>3. LeftOf(t, rest)
    BY <1>1, FirstAct
  <1>4. Pipes
    BY PipesStay
  <1>5. FailsToSend(t, s, msg)
    BY <1>2
  <1>6. RouterTyped(st) /\ RouterPaired(st) /\ RouterInv(st)
    BY Parts, PairParts DEF RouterInv, RouterOwes
  <1>7. CASE mode = "stdio"
    <2>1. PICK o : o = ServerGone(st, s)
      OBVIOUS
    <2>2. OutOK(o) /\ InGoal(st, o)
      BY <1>6, <2>1, GoneRouted, GoneTraced
    <2>3. PICK front : front = FALSE
      OBVIOUS
    <2>4. PICK x : x = [fin |-> Finishing(o.fin, FALSE, front), todo |-> rest \o Later(o.acts)]
      OBVIOUS
    <2>5. st' = o.st /\ thread' = [thread EXCEPT ![t] = x]
      BY <1>1, <1>5, <1>7, <2>1, <2>3, <2>4 DEF FailsToSend
    <2>6. x.fin = Finishing(o.fin, FALSE, front) /\ x.todo = rest \o Later(o.acts)
      BY <2>4
    <2>7. Joins(x.todo, rest, Later(o.acts))
      BY <2>6 DEF Joins
    <2>8. Routed
      BY <1>7 DEF Routed
    <2> QED BY <1>3, <1>4, <2>2, <2>5, <2>6, <2>7, <2>8, RouterGives
  <1>8. CASE mode = "listen"
    <2>1. PICK o : o = OnRoutedError(st, msg)
      OBVIOUS
    <2>2. OutOK(o) /\ InGoal(st, o)
      BY <1>6, <2>1, ErrorRouted, ErrorTraced
    <2>3. PICK front : front = TRUE
      OBVIOUS
    <2>4. PICK x : x = [fin |-> Finishing(o.fin, FALSE, front), todo |-> Later(o.acts) \o rest]
      OBVIOUS
    <2>5. st' = o.st /\ thread' = [thread EXCEPT ![t] = x]
      BY <1>1, <1>5, <1>8, <2>1, <2>3, <2>4 DEF FailsToSend
    <2>6. x.fin = Finishing(o.fin, FALSE, front) /\ x.todo = Later(o.acts) \o rest
      BY <2>4
    <2>7. Joins(x.todo, rest, Later(o.acts))
      BY <2>6 DEF Joins
    <2>8. Routed
      BY <1>8 DEF Routed
    <2> QED BY <1>3, <1>4, <2>2, <2>5, <2>6, <2>7, <2>8, RouterGives
  <1>9. CASE mode \notin {"stdio", "listen"}
    <2>1. mode = "single" /\ ~Routed
      BY <1>9, Parts, TransportAssumption DEF Routed
    <2>2. Mine(msg.id, msg.origin)
      <3>1. OneMsg(msg)
        BY <1>2, <2>1, NameParts DEF OneThread, OneWork
      <3> QED BY <2>1, <3>1 DEF OneMsg, OfPost, Mine, AgentId
    <2>3. PICK a : a = ToAgent(Reply(msg.id, "upstream_unavailable", msg.origin))
      OBVIOUS
    <2>4. PICK acts : acts = <<a>>
      OBVIOUS
    <2>5. PICK b : b = Later(acts)
      OBVIOUS
    <2>6. PICK todo : todo = IF msg.id = NoId THEN rest ELSE b \o rest
      OBVIOUS
    <2>7. PICK x : x = [thread[t] EXCEPT !.todo = todo]
      OBVIOUS
    <2>8. st' = st /\ thread' = [thread EXCEPT ![t] = x]
      BY <1>1, <1>5, <1>9, <2>3, <2>4, <2>5, <2>6, <2>7 DEF FailsToSend
    <2>9. x.fin = <<>> /\ x.todo = todo
      BY <2>7, LeftIs DEF IsThread
    <2>10. a.to = "agent" /\ a.msg.id = msg.id /\ a.msg.origin = msg.origin /\ IsTarget(a)
      BY <2>3 DEF ToAgent, Reply, IsTarget
    <2>11. ActsOK(acts) /\ DOMAIN acts = {1} /\ acts[1] = a
      BY <2>4, <2>10, OneAct
    <2>12. IsSeq(b) /\ DOMAIN b = {1} /\ b[1].to = "agent" /\ b[1].msg = a.msg /\ b[1].direct = FALSE
      <3>1. IsSeq(b) /\ DOMAIN b = DOMAIN acts /\ (\A i \in DOMAIN b : Like(b[i], acts[i])) /\ (b = Later(acts) => \A i \in DOMAIN b : b[i].direct = FALSE)
        BY <2>5, <2>11, MarkActs
      <3> QED BY <2>5, <2>10, <2>11, <3>1 DEF Like
    <2>13. TodoPaired(t, b) /\ Sends(b) = {}
      BY <2>2, <2>10, <2>12 DEF TodoPaired, AnswerPaired, Sends
    <2>14. IsSeq(rest) /\ TodoPaired(t, rest) /\ Sends(rest) \subseteq Held
      BY <1>3 DEF LeftOf
    <2>15. Sends(b \o rest) \subseteq Sends(b) \cup Sends(rest) /\ TodoPaired(t, b \o rest)
      BY <2>12, <2>13, <2>14, JoinSends
    <2>16. TodoPaired(t, x.todo) /\ Sends(x.todo) \subseteq Held /\ FinsPaired(t, x.fin)
      BY <2>6, <2>9, <2>13, <2>14, <2>15, SendsIs
    <2>17. SentPaired'
      <3>1. LateKept
        BY DEF LateKept, Early
      <3> QED BY <3>1, SentStays
    <2> QED BY <1>4, <2>1, <2>8, <2>16, <2>17, WorkOnly
  <1> QED BY <1>7, <1>8, <1>9

\* A message is sent: it moves from the thread to the server, and is seen there.
LEMMA SentPipes ==
    ASSUME TransportBooks, NameBooks, PairBooks, NEW t \in Threads, thread[t].todo # <<>>, NEW a, a = Head(thread[t].todo), a.to # "agent",
           mode # "relay", NEW s \in ServerSet, UNCHANGED <<mode, post>>,
           srv' = [srv EXCEPT ![s].inbox = IF a.msg.method \in {"notification", "refusal"} THEN @ ELSE @ \cup {a.msg}],
           seen' = [seen EXCEPT !.sent = @ \cup (IF a.msg.method \in {"call", "other", "cancelled"} THEN {<<a.msg.method, a.msg.origin, s, a.msg>>} ELSE {})]
    PROVE  Pipes /\ SentPaired' /\ seen'.answers = seen.answers
PROOF
  <1>1. a.msg \in Held
    BY FirstAct
  <1>2. IsServer(srv[s]) /\ srv = [u \in ServerSet |-> srv[u]] /\ SeenShape(seen)
    BY Parts DEF ServersOK, SessionOK
  <1>3. PICK box : box = IF a.msg.method \in {"notification", "refusal"} THEN srv[s].inbox ELSE srv[s].inbox \cup {a.msg}
    OBVIOUS
  <1>4. PICK new : new = IF a.msg.method \in {"call", "other", "cancelled"} THEN {<<a.msg.method, a.msg.origin, s, a.msg>>} ELSE {}
    OBVIOUS
  <1>5. srv' = [srv EXCEPT ![s].inbox = box] /\ seen' = [seen EXCEPT !.sent = @ \cup new]
    BY <1>3, <1>4
  <1>6. srv'[s].inbox = box /\ srv'[s].out = srv[s].out /\ \A u \in ServerSet : u # s => srv'[u] = srv[u]
    <2>1. PICK y : y = [srv[s] EXCEPT !.inbox = box]
      OBVIOUS
    <2>2. y.inbox = box /\ y.out = srv[s].out
      BY <1>2, <2>1 DEF IsServer
    <2>3. srv' = [srv EXCEPT ![s] = y]
      BY <1>5, <2>1
    <2>4. srv'[s] = y /\ \A u \in ServerSet : u # s => srv'[u] = srv[u]
      BY <1>2, <2>3
    <2> QED BY <2>2, <2>4
  <1>7. seen'.sent = seen.sent \cup new /\ seen'.answers = seen.answers
    BY <1>2, <1>5 DEF SeenShape
  <1>8. box \subseteq srv[s].inbox \cup {a.msg}
    BY <1>3
  <1>9. \A c \in new : c = <<a.msg.method, a.msg.origin, s, a.msg>>
    BY <1>4
  <1>10. \A c \in new : c[1] = a.msg.method /\ c[2] = a.msg.origin /\ c[4] = a.msg
    BY <1>9
  <1>11. Boxed' \subseteq Boxed \cup Held
    <2> SUFFICES ASSUME NEW m \in Boxed' PROVE m \in Boxed \cup Held
      OBVIOUS
    <2>1. PICK u \in ServerSet : m \in srv'[u].inbox
      BY DEF Boxed
    <2>2. m \in srv[u].inbox \/ m = a.msg
      BY <1>6, <1>8, <2>1
    <2> QED BY <1>1, <2>2 DEF Boxed
  <1>12. Lined' = Lined
    <2>1. \A u \in ServerSet : srv'[u].out = srv[u].out
      BY <1>6
    <2> QED BY <2>1 DEF Lined
  <1>13. Sent' \subseteq Sent \cup Held
    <2> SUFFICES ASSUME NEW m \in Sent' PROVE m \in Sent \cup Held
      OBVIOUS
    <2>1. PICK c \in seen.sent \cup new : m = c[4]
      BY <1>7 DEF Sent
    <2> QED BY <1>1, <1>10, <2>1 DEF Sent
  <1>14. mode = "single" => OfPost(a.msg)
    <2> SUFFICES ASSUME mode = "single" PROVE OfPost(a.msg)
      OBVIOUS
    <2>1. OneMsg(a.msg)
      BY NameParts DEF OneThread, OneWork, Routed
    <2> QED BY <2>1 DEF OneMsg
  <1>15. SentPaired'
    <2>1. \A m : OfPost(m) => OfPost(m)'
      BY DEF OfPost, Early
    <2>2. \A c \in seen.sent : c[1] = c[4].method /\ c[2] = c[4].origin /\ (mode = "single" => OfPost(c[4]))
      BY PairParts DEF SentPaired
    <2>3. \A c \in seen'.sent : c[1] = c[4].method /\ c[2] = c[4].origin /\ (mode = "single" => OfPost(c[4]))
      BY <1>7, <1>10, <1>14, <2>2
    <2>4. \A c \in seen'.sent : c[1] = c[4].method /\ c[2] = c[4].origin /\ (mode' = "single" => OfPost(c[4])')
      BY <2>1, <2>3
    <2>5. mode' # "relay"
      OBVIOUS
    <2> QED BY <2>4, <2>5 DEF SentPaired
  <1> QED BY <1>7, <1>11, <1>12, <1>13, <1>15 DEF Pipes

\* A thread sends a message to a server.
LEMMA PerformsSendPairs ==
    ASSUME TransportBooks, NameBooks, PairBooks, NEW t \in Threads, PerformsSend(t)
    PROVE  PairBooks'
PROOF
  <1>1. PICK a : a = Head(thread[t].todo)
    OBVIOUS
  <1>2. /\ thread[t].fin = <<>> /\ thread[t].todo # <<>> /\ a.to # "agent" /\ UNCHANGED <<mode, cat, post, hub>>
    BY <1>1 DEF PerformsSend
  <1>3. a.to \in ServerSet
    <2>1. ActsOK(thread[t].todo)
      BY Parts DEF ThreadsOK, IsThread
    <2>2. IsTarget(a)
      BY <1>1, <1>2, <2>1, Rested
    <2> QED BY <1>2, <2>2 DEF IsTarget
  <1>4. PICK x : x = [thread[t] EXCEPT !.todo = Tail(@)]
    OBVIOUS
  <1>5. x.fin = thread[t].fin /\ x.todo = Tail(thread[t].todo) /\ (thread' = Rest(t) => thread' = [thread EXCEPT ![t] = x])
    BY <1>4, LeftIs DEF IsThread, Rest
  <1>6. LeftOf(t, x.todo)
    BY <1>2, <1>5, FirstAct
  <1>7. /\ FinsPaired(t, x.fin) /\ TodoPaired(t, x.todo) /\ Sends(x.todo) \subseteq Held
        /\ \A q : SoleHeld(thread[t], q) => SoleHeld(x, q) /\ (Holds(x, q) => Holds(thread[t], q))
    BY <1>5, <1>6, LeftIs DEF LeftOf, SoleHeld, Holds
  <1>8. CASE mode = "relay"
    <2>1. thread' = Rest(t) /\ UNCHANGED <<st, srv, seen>>
      BY <1>1, <1>8 DEF PerformsSend
    <2>2. Pipes /\ SentPaired'
      <3>1. LateKept
        BY <1>2 DEF LateKept, Early
      <3> QED BY <1>2, <2>1, <3>1, SentStays, PipesStay
    <2>3. seen'.answers = seen.answers /\ hub'.waiters = hub.waiters
      BY <1>2, <2>1
    <2> QED BY <1>2, <1>5, <1>7, <2>1, <2>2, <2>3, WorkOnly
  <1>9. CASE mode # "relay" /\ srv[a.to].alive /\ srv[a.to].stdin
    <2>1. PICK s \in ServerSet : s = a.to
      BY <1>3
    <2>2. /\ srv' = [srv EXCEPT ![s].inbox = IF a.msg.method \in {"notification", "refusal"} THEN @ ELSE @ \cup {a.msg}]
          /\ seen' = [seen EXCEPT !.sent = @ \cup (IF a.msg.method \in {"call", "other", "cancelled"} THEN {<<a.msg.method, a.msg.origin, s, a.msg>>} ELSE {})]
          /\ thread' = Rest(t) /\ st' = st
      BY <1>1, <1>9, <2>1 DEF PerformsSend
    <2>3. Pipes /\ SentPaired' /\ seen'.answers = seen.answers
      BY <1>1, <1>2, <1>9, <2>2, SentPipes
    <2>4. hub'.waiters = hub.waiters
      BY <1>2
    <2> QED BY <1>2, <1>5, <1>7, <2>2, <2>3, <2>4, WorkOnly
  <1>10. CASE mode # "relay" /\ ~(srv[a.to].alive /\ srv[a.to].stdin)
    <2>1. PICK s \in ServerSet : s = a.to
      BY <1>3
    <2>2. FailsToSend(t, s, Head(thread[t].todo).msg) /\ UNCHANGED <<srv, client, seen>>
      BY <1>1, <1>10, <2>1 DEF PerformsSend
    <2>3. Head(thread[t].todo).to # "agent" /\ mode # "relay" /\ UNCHANGED <<mode, cat, post, hub, srv, client, seen>>
      BY <1>1, <1>2, <1>10, <2>2
    <2> QED BY <1>2, <2>2, <2>3, FailsPairs
  <1> QED BY <1>8, <1>9, <1>10

\* Dispatch::route: the message that waits for an answer under a number is the one the answer is to.
LEMMA WaiterPairs ==
    ASSUME TransportBooks, NameBooks, PairBooks, mode' = mode, mode # "stdio", NEW reply, GivesWaiter(reply), Mine(reply.id, reply.origin),
           seen'.answers = seen.answers
    PROVE  Settled /\ LateKept /\ (\A q \in Posts : PostPaired(q)') /\ NewUnnumbered' /\ RepliesMatch' /\ AnswersTyped' /\ WaitersPaired'
PROOF
  <1>1. PICK w, k : w = hub.waiters /\ k = {reply.id}
    OBVIOUS
  <1>2. DOMAIN Forget(w, k) = DOMAIN w \ k /\ \A y \in DOMAIN w \ k : Forget(w, k)[y] = w[y]
    BY ForgetIs
  <1>3. hub'.waiters = Forget(w, k)
    BY <1>1, Parts DEF GivesWaiter, HubOK, HubShape
  <1>4. DOMAIN hub'.waiters \subseteq DOMAIN hub.waiters /\ \A y \in DOMAIN hub'.waiters : hub'.waiters[y] = hub.waiters[y]
    BY <1>1, <1>2, <1>3
  <1>5. RepliesMatch' /\ AnswersTyped'
    BY PairParts DEF RepliesMatch, AnswersTyped
  <1>6. CASE reply.id \in DOMAIN hub.waiters
    <2>1. PICK q : q = hub.waiters[reply.id]
      OBVIOUS
    <2>2. q \in Posts /\ post[q].n = reply.id /\ reply.id # NoId
      <3>1. reply.id # NoId
        BY <1>6, Parts DEF HubOK, NoId
      <3> QED BY <1>6, <2>1, <3>1, PairParts DEF WaitersPaired
    <2>3. reply.origin = q
      BY <2>2, NameParts DEF Numbered, Mine, AgentId
    <2>4. PICK x : x = [post[q] EXCEPT !.reply = reply]
      OBVIOUS
    <2>5. IsPost(post[q]) /\ post = [p \in Posts |-> post[p]] /\ PostPaired(q)
      BY <2>2, Parts, PairParts DEF PostsOK
    <2>6. /\ x.n = post[q].n /\ x.session = post[q].session /\ x.msg = post[q].msg /\ x.phase = post[q].phase /\ x.direct = post[q].direct
          /\ x.reply = reply
      BY <2>4, <2>5 DEF IsPost
    <2>7. post' = [post EXCEPT ![q] = x]
      BY <1>6, <2>1, <2>4 DEF GivesWaiter
    <2>8. Forwards(q, x)
      BY <2>3, <2>5, <2>6 DEF Forwards, ReplyOf, PostPaired
    <2>9. mode # "stdio" /\ seen'.answers[q] # <<>> => x.phase = "done"
      BY <2>5, <2>6 DEF PostPaired
    <2>10. /\ Settled /\ LateKept /\ (\A p \in Posts : PostPaired(p)') /\ NewUnnumbered' /\ (\A p \in Posts : Early(p)' => Early(p))
           /\ DOMAIN hub'.waiters \subseteq DOMAIN hub.waiters /\ (\A y \in DOMAIN hub'.waiters : hub'.waiters[y] = hub.waiters[y]) => WaitersPaired'
      BY <2>2, <2>7, <2>8, <2>9, ForwardsKeeps
    <2> QED BY <1>4, <1>5, <2>10
  <1>7. CASE reply.id \notin DOMAIN hub.waiters
    <2>1. post' = post
      BY <1>7 DEF GivesWaiter
    <2>2. WaitersPaired'
      BY <1>4, <2>1, PairParts DEF WaitersPaired
    <2> QED BY <1>5, <2>1, <2>2, PostsPairedStay
  <1> QED BY <1>6, <1>7

\* The first action of a thread is done.
LEMMA DonePairs ==
    ASSUME TransportBooks, PairBooks, UNCHANGED <<mode, st, srv>>, seen'.sent = seen.sent, NEW t \in Threads, thread[t].todo # <<>>, thread' = Rest(t),
           Settled, LateKept, \A q \in Posts : PostPaired(q)', NewUnnumbered', RepliesMatch', AnswersTyped', WaitersPaired', OnceOK'
    PROVE  PairBooks'
PROOF
  <1>1. PICK x : x = [thread[t] EXCEPT !.todo = Tail(@)]
    OBVIOUS
  <1>2. x.fin = thread[t].fin /\ x.todo = Tail(thread[t].todo) /\ thread' = [thread EXCEPT ![t] = x]
    BY <1>1, LeftIs DEF IsThread, Rest
  <1>3. FinsPaired(t, x.fin) /\ TodoPaired(t, x.todo) /\ Sends(x.todo) \subseteq Held
    BY <1>2, LeftIs, FirstAct DEF LeftOf
  <1>4. Pipes /\ SentPaired' /\ RouterPaired(st)' /\ \A w : Numbering(w)
    <2>1. Pipes
      BY PipesStay
    <2>2. SentPaired'
      BY SentStays
    <2>3. RouterPaired(st)'
      BY PairParts, MineFrame
    <2> QED BY <2>1, <2>2, <2>3, NumberingStays
  <1> QED BY <1>2, <1>3, <1>4, WorkPairs

\* A thread answers an agent on stdio.
LEMMA AnswersLine ==
    ASSUME TransportBooks, PairBooks, UNCHANGED <<mode, st, post, srv, hub>>, mode = "stdio", NEW t \in Threads, thread[t].fin = <<>>,
           thread[t].todo # <<>>, thread' = Rest(t), NEW a, a = Head(thread[t].todo), a.to = "agent", a.msg.id # NoId, seen' = Answered(a.msg.id, a.msg)
    PROVE  PairBooks'
PROOF
  <1>1. PICK p : p = a.msg.id
    OBVIOUS
  <1>2. p \in Posts /\ a.msg.origin = p
    BY <1>1, FirstAct DEF AnswerPaired, Mine, AgentId
  <1>3. AnswerTo(a, p) /\ Holds(thread[t], p)
    BY <1>1, FirstAct DEF AnswerTo, Holds
  <1>4. ASSUME NEW q \in Posts, q # NoId PROVE Once(q)
    BY <1>4, PairParts DEF OnceOK
  <1>5. ~Told(p) /\ p # NoId
    BY <1>1, <1>2, <1>3, <1>4 DEF Once
  <1>6. /\ AnswersTyped' /\ RepliesMatch' /\ seen'.sent = seen.sent
        /\ seen'.answers[p] = <<p>> /\ \A q \in Posts : q # p => seen'.answers[q] = seen.answers[q]
    <2>1. PICK reply : reply = a.msg
      OBVIOUS
    <2>2. seen' = Answered(p, reply) /\ seen.answers[p] = <<>> /\ reply.origin = p
      BY <1>1, <1>2, <1>5, <2>1 DEF Told
    <2> QED BY <1>2, <2>2, AnsweredIs
  <1>7. Settled /\ LateKept /\ NewUnnumbered' /\ WaitersPaired'
    BY PairParts DEF Settled, LateKept, Early, NewUnnumbered, WaitersPaired
  <1>8. \A q \in Posts : PostPaired(q)'
    BY <1>7, PairParts, MineFrame DEF PostPaired
  <1>9. PICK x : x = [thread[t] EXCEPT !.todo = Tail(@)]
    OBVIOUS
  <1>10. x.fin = thread[t].fin /\ x.todo = Tail(thread[t].todo) /\ thread' = [thread EXCEPT ![t] = x]
    BY <1>9, LeftIs DEF IsThread, Rest
  <1>11. thread'[t] = x /\ \A u \in Threads : u # t => thread'[u] = thread[u]
    BY <1>10, HeldStep
  <1>12. LeftOf(t, x.todo) /\ x.fin = <<>>
    BY <1>10, FirstAct
  <1>13. \A q : SoleHeld(thread[t], q) => SoleHeld(x, q)
    BY <1>12, FewActs DEF SoleHeld, LeftOf
  <1>14. \A q : Holds(x, q) => Holds(thread[t], q)
    BY <1>12, FewActs DEF Holds, LeftOf
  <1>15. SoleHeld(thread[t], p) => ~Holds(x, p)
    <2>1. SoleAct(thread[t].todo, p) => ~InActs(x.todo, p)
      BY <1>3, <1>10, FirstAct
    <2> QED BY <1>12, <2>1, FewActs DEF SoleHeld, Holds
  <1>16. ASSUME NEW q \in Posts, q # NoId PROVE Once(q)'
    <2>1. Once(q)
      BY <1>4, <1>16
    <2>2. SoleOwed(st, q)' /\ (Owes(st, q)' <=> Owes(st, q)) /\ (Early(q)' <=> Early(q))
      <3>1. SoleOwed(st, q)
        BY <2>1 DEF Once
      <3>2. SoleOwed(st, q)'
        BY <3>1 DEF SoleOwed, Awaits, Lists, WaitTo, ListingTo
      <3>3. Owes(st, q)' <=> Owes(st, q)
        BY DEF Owes, Awaits, Lists, WaitTo, ListingTo
      <3> QED BY <3>2, <3>3 DEF Early
    <2>3. SoleHeld(thread[t], q)' /\ (Holds(thread[t], q)' <=> Holds(x, q))
      <3>1. SoleHeld(x, q)
        BY <1>13, <2>1 DEF Once
      <3>2. SoleHeld(thread[t], q)'
        BY <1>11, <3>1 DEF SoleHeld, InActs, InFin, SoleAct, SoleFin, AnswerTo, ListingTo
      <3>3. Holds(thread[t], q)' <=> Holds(x, q)
        BY <1>11 DEF Holds, InActs, InFin, AnswerTo, ListingTo
      <3> QED BY <3>2, <3>3
    <2>4. Told(q)' => Told(q) \/ q = p
      BY <1>6 DEF Told
    <2>5. Told(q)' => Told(q) \/ ((Owes(st, q) \/ Holds(thread[t], q)) /\ ~Early(q)' /\ ~Owes(st, q)' /\ ~Holds(thread[t], q)')
      BY <1>3, <1>15, <2>1, <2>2, <2>3, <2>4 DEF Once
    <2>6. ~(Early(q)' /\ Owes(st, q)') /\ ~(Early(q)' /\ Holds(thread[t], q)') /\ ~(Owes(st, q)' /\ Holds(thread[t], q)')
      BY <1>14, <2>1, <2>2, <2>3 DEF Once
    <2>7. Early(q)' \/ Owes(st, q)' \/ Holds(thread[t], q)' => Early(q) \/ Owes(st, q) \/ Holds(thread[t], q)
      BY <1>14, <2>2, <2>3
    <2> QED BY <1>11, <2>1, <2>2, <2>3, <2>5, <2>6, <2>7, OnceStep
  <1>17. OnceOK'
    BY <1>16 DEF OnceOK
  <1> QED BY <1>6, <1>7, <1>8, <1>17, DonePairs

\* A thread answers an agent.
LEMMA PerformsAnswerPairs ==
    ASSUME TransportBooks, NameBooks, PairBooks, NEW t \in Threads, PerformsAnswer(t)
    PROVE  PairBooks'
PROOF
  <1>1. PICK a : a = Head(thread[t].todo)
    OBVIOUS
  <1>2. thread[t].fin = <<>> /\ thread[t].todo # <<>> /\ a.to = "agent" /\ thread' = Rest(t) /\ UNCHANGED <<mode, st, cat, srv, client>>
    BY <1>1 DEF PerformsAnswer
  <1>3. Mine(a.msg.id, a.msg.origin) /\ (a.direct => t \in Posts /\ a.msg.origin = t)
    BY <1>1, <1>2, FirstAct DEF AnswerPaired
  <1>4. mode # "stdio" => OnceOK'
    BY <1>2 DEF OnceOK
  <1>5. CASE mode = "stdio"
    <2>1. (seen' = IF a.msg.id = NoId THEN seen ELSE Answered(a.msg.id, a.msg)) /\ UNCHANGED <<post, hub>>
      BY <1>1, <1>5 DEF PerformsAnswer
    <2>2. CASE a.msg.id # NoId
      BY <1>1, <1>2, <1>5, <2>1, <2>2, AnswersLine
    <2>3. CASE a.msg.id = NoId
      <3>1. seen' = seen
        BY <2>1, <2>3
      <3>2. PICK x : x = [thread[t] EXCEPT !.todo = Tail(@)]
        OBVIOUS
      <3>3. x.fin = thread[t].fin /\ x.todo = Tail(thread[t].todo) /\ thread' = [thread EXCEPT ![t] = x]
        BY <1>2, <3>2, LeftIs DEF IsThread, Rest
      <3>4. LeftOf(t, x.todo)
        BY <1>2, <3>3, FirstAct
      <3>5. /\ FinsPaired(t, x.fin) /\ TodoPaired(t, x.todo) /\ Sends(x.todo) \subseteq Held
            /\ \A q : SoleHeld(thread[t], q) => SoleHeld(x, q) /\ (Holds(x, q) => Holds(thread[t], q))
        BY <3>3, <3>4, LeftIs DEF LeftOf, SoleHeld, Holds
      <3>6. Pipes /\ SentPaired'
        <4>1. LateKept
          BY <2>1 DEF LateKept, Early
        <4> QED BY <1>2, <3>1, <4>1, SentStays, PipesStay
      <3>7. seen'.answers = seen.answers /\ hub'.waiters = hub.waiters
        BY <2>1, <3>1
      <3> QED BY <1>2, <2>1, <3>3, <3>5, <3>6, <3>7, WorkOnly
    <2> QED BY <2>2, <2>3
  <1>6. CASE mode # "stdio" /\ a.direct
    <2>1. (post' = IF post[t].direct = None THEN [post EXCEPT ![t].direct = a.msg] ELSE post) /\ UNCHANGED <<hub, seen>>
      BY <1>1, <1>6 DEF PerformsAnswer
    <2>2. RepliesMatch' /\ AnswersTyped'
      BY <2>1, PairParts DEF RepliesMatch, AnswersTyped
    <2>3. CASE post[t].direct = None
      <3>1. t \in Posts /\ a.msg.origin = t /\ IsPost(post[t]) /\ PostPaired(t)
        BY <1>3, <1>6, Parts, PairParts DEF PostsOK
      <3>2. PICK x : x = [post[t] EXCEPT !.direct = a.msg]
        OBVIOUS
      <3>3. /\ x.n = post[t].n /\ x.session = post[t].session /\ x.msg = post[t].msg /\ x.phase = post[t].phase /\ x.reply = post[t].reply
            /\ x.direct = a.msg
        BY <3>1, <3>2 DEF IsPost
      <3>4. post' = [post EXCEPT ![t] = x]
        BY <2>1, <2>3, <3>2
      <3>5. Forwards(t, x)
        BY <3>1, <3>3 DEF Forwards, ReplyOf, PostPaired
      <3>6. mode # "stdio" /\ seen'.answers[t] # <<>> => x.phase = "done"
        BY <2>1, <3>1, <3>3 DEF PostPaired
      <3>7. /\ Settled /\ LateKept /\ (\A p \in Posts : PostPaired(p)') /\ NewUnnumbered' /\ (\A p \in Posts : Early(p)' => Early(p)) /\ WaitersPaired'
        BY <1>2, <2>1, <3>1, <3>4, <3>5, <3>6, ForwardsKeeps
      <3> QED BY <1>2, <1>4, <1>6, <2>1, <2>2, <3>7, DonePairs
    <2>4. CASE post[t].direct # None
      <3>1. post' = post
        BY <2>1, <2>4
      <3>2. Settled /\ LateKept /\ (\A p \in Posts : PostPaired(p)') /\ NewUnnumbered' /\ WaitersPaired'
        BY <1>2, <2>1, <3>1, PostsPairedStay
      <3> QED BY <1>2, <1>4, <1>6, <2>1, <2>2, <3>2, DonePairs
    <2> QED BY <2>3, <2>4
  <1>7. CASE mode # "stdio" /\ ~a.direct
    <2>1. GivesWaiter(a.msg) /\ seen' = seen
      BY <1>1, <1>7 DEF PerformsAnswer
    <2>2. PICK reply : reply = a.msg
      OBVIOUS
    <2>3. GivesWaiter(reply) /\ Mine(reply.id, reply.origin)
      BY <1>3, <2>1, <2>2
    <2>4. Settled /\ LateKept /\ (\A q \in Posts : PostPaired(q)') /\ NewUnnumbered' /\ RepliesMatch' /\ AnswersTyped' /\ WaitersPaired'
      BY <1>2, <1>7, <2>1, <2>3, WaiterPairs
    <2> QED BY <1>2, <1>4, <1>7, <2>1, <2>4, DonePairs
  <1> QED BY <1>5, <1>6, <1>7

\* The HTTP client takes a message, and posts it.
LEMMA ClientPairs ==
    ASSUME TransportBooks, PairBooks, ClientTakes \/ \E x \in client.running : ExchangeSends(x)
    PROVE  PairBooks'
PROOF
  <1>1. UNCHANGED <<mode, st, post, thread, srv, hub>>
    BY DEF ClientTakes, ExchangeSends
  <1>2. seen'.sent = seen.sent /\ seen'.answers = seen.answers
    BY Parts DEF ClientTakes, ExchangeSends, SessionOK, SeenShape
  <1> QED BY <1>1, <1>2, IdlePairs

\* An exchange ends.
LEMMA ExchangeEndsPairs ==
    ASSUME TransportBooks, NameBooks, PairBooks, NEW x \in client.running, ExchangeEnds(x)
    PROVE  PairBooks'
PROOF
  <1>1. mode = "relay" /\ UNCHANGED <<mode, st, thread, srv>>
    BY Parts DEF ExchangeEnds, RelayOK
  <1>2. Mine(x.msg.id, x.msg.origin)
    <2>1. OneMsg(x.msg)
      BY <1>1, NameParts DEF ClientListed
    <2> QED BY <1>1, <2>1 DEF OneMsg, OfPost, Mine, AgentId
  <1>3. seen'.sent = seen.sent /\ seen'.answers = seen.answers
    BY Parts DEF ExchangeEnds, SessionOK, SeenShape
  <1>4. UNCHANGED <<post, hub>> \/ \E reply : GivesWaiter(reply) /\ reply.id = x.msg.id /\ reply.origin = x.msg.origin
    <2>1. PICK answered \in BOOLEAN, page \in Answers(Only, x.msg) :
             CASE x.msg.id = NoId -> UNCHANGED <<cat, post, hub>>
               [] x.msg.id # NoId /\ answered -> GivesWaiter(RelayOne(Reply(x.msg.id, "result", x.msg.origin), page).reply)
               [] OTHER -> GivesWaiter(Reply(x.msg.id, "upstream_unavailable", x.msg.origin))
      BY DEF ExchangeEnds
    <2>2. PICK r : r = RelayOne(Reply(x.msg.id, "result", x.msg.origin), page).reply
      OBVIOUS
    <2>3. PICK f : f = Reply(x.msg.id, "upstream_unavailable", x.msg.origin)
      OBVIOUS
    <2>4. r.id = x.msg.id /\ r.origin = x.msg.origin
      BY <2>2 DEF RelayOne, Reply
    <2>5. f.id = x.msg.id /\ f.origin = x.msg.origin
      BY <2>3 DEF Reply
    <2>6. UNCHANGED <<post, hub>> \/ GivesWaiter(r) \/ GivesWaiter(f)
      BY <2>1, <2>2, <2>3
    <2> QED BY <2>4, <2>5, <2>6
  <1>5. CASE UNCHANGED <<post, hub>>
    BY <1>1, <1>3, <1>5, IdlePairs
  <1>6. CASE \E reply : GivesWaiter(reply) /\ reply.id = x.msg.id /\ reply.origin = x.msg.origin
    <2>1. PICK reply : GivesWaiter(reply) /\ reply.id = x.msg.id /\ reply.origin = x.msg.origin
      BY <1>6
    <2>2. Mine(reply.id, reply.origin)
      BY <1>2, <2>1
    <2>3. Settled /\ LateKept /\ (\A q \in Posts : PostPaired(q)') /\ NewUnnumbered' /\ RepliesMatch' /\ AnswersTyped' /\ WaitersPaired'
      BY <1>1, <1>3, <2>1, <2>2, WaiterPairs
    <2>4. OnceOK'
      BY <1>1 DEF OnceOK
    <2> QED BY <1>1, <1>3, <2>3, <2>4, AgentPairs
  <1> QED BY <1>4, <1>5, <1>6

\* What servers read or write changes.
LEMMA PipesMove ==
    ASSUME TransportBooks, PairBooks, UNCHANGED <<mode, st, post, thread, hub>>, seen'.sent = seen.sent, seen'.answers = seen.answers,
           Boxed' \subseteq Boxed, \A l \in Lined' : l \in Lined \/ l.id = NoId \/ \E m \in Boxed : l.id = m.id /\ l.origin = m.origin
    PROVE  PairBooks'
PROOF
  <1>1. /\ Settled /\ LateKept /\ (\A q \in Posts : PostPaired(q)') /\ NewUnnumbered' /\ RepliesMatch' /\ AnswersTyped' /\ WaitersPaired' /\ RouterPaired(st)'
    BY PostsPairedStay
  <1>2. Held' = Held /\ Sent' = Sent
    BY DEF Held, HeldBy, Sent
  <1>3. PairsOK' /\ \A m : CancelOK(m) => CancelOK(m)'
    BY <1>1, <1>2, PairsMove
  <1>4. CancelsPaired'
    BY <1>2, <1>3, PairParts DEF CancelsPaired
  <1>5. \A t \in Threads : ThreadPaired(t)'
    BY <1>1, PairParts, MineFrame DEF ThreadPaired
  <1>6. SentPaired'
    BY <1>1, SentStays
  <1>7. OnceOK'
    <2>1. \A p \in Posts : Early(p)' => Early(p)
      BY DEF Early
    <2> QED BY <2>1, OnceStays
  <1> QED BY <1>1, <1>3, <1>4, <1>5, <1>6, <1>7, PairsTogether

\* One server's pipes change.
LEMMA OnePipe ==
    ASSUME TransportBooks, NEW s \in ServerSet, NEW x, srv' = [srv EXCEPT ![s] = x], x.inbox \subseteq srv[s].inbox,
           x.out = srv[s].out \/ \E l : x.out = Append(srv[s].out, l) /\ (l.id = NoId \/ \E m \in srv[s].inbox : l.id = m.id /\ l.origin = m.origin)
    PROVE  /\ Boxed' \subseteq Boxed
           /\ \A l \in Lined' : l \in Lined \/ l.id = NoId \/ \E m \in Boxed : l.id = m.id /\ l.origin = m.origin
PROOF
  <1>1. srv = [u \in ServerSet |-> srv[u]] /\ IsSeq(srv[s].out)
    BY Parts DEF ServersOK, IsServer, LinesOK, IsSeq
  <1>2. srv'[s] = x /\ \A u \in ServerSet : u # s => srv'[u] = srv[u]
    BY <1>1
  <1>3. Boxed' \subseteq Boxed
    <2> SUFFICES ASSUME NEW m \in Boxed' PROVE m \in Boxed
      OBVIOUS
    <2>1. PICK u \in ServerSet : m \in srv'[u].inbox
      BY DEF Boxed
    <2>2. m \in srv[u].inbox
      BY <1>2, <2>1
    <2> QED BY <2>2 DEF Boxed
  <1>4. ASSUME NEW l \in Lined' PROVE l \in Lined \/ l.id = NoId \/ \E m \in Boxed : l.id = m.id /\ l.origin = m.origin
    <2>1. PICK u \in ServerSet : \E i \in DOMAIN srv'[u].out : l = srv'[u].out[i]
      BY <1>4 DEF Lined
    <2>2. CASE \E i \in DOMAIN srv[u].out : l = srv[u].out[i]
      BY <2>2 DEF Lined
    <2>3. CASE ~\E i \in DOMAIN srv[u].out : l = srv[u].out[i]
      <3>1. u = s /\ x.out # srv[s].out
        BY <1>2, <2>1, <2>3
      <3>2. PICK k : x.out = Append(srv[s].out, k) /\ (k.id = NoId \/ \E m \in srv[s].inbox : k.id = m.id /\ k.origin = m.origin)
        BY <3>1
      <3>3. PICK out : out = srv[s].out
        OBVIOUS
      <3>4. PICK T : out \in Seq(T)
        BY <1>1, <3>3 DEF IsSeq
      <3>5. \A i \in DOMAIN Append(out, k) : Append(out, k)[i] = k \/ (i \in DOMAIN out /\ Append(out, k)[i] = out[i])
        BY <3>4
      <3>6. l = k
        BY <1>2, <2>1, <2>3, <3>1, <3>2, <3>3, <3>5
      <3> QED BY <3>2, <3>6 DEF Boxed
    <2> QED BY <2>2, <2>3
  <1> QED BY <1>3, <1>4

\* What a server does by itself.
LEMMA ServerPairs ==
    ASSUME TransportBooks, PairBooks, NEW s \in ServerSet, ServerStep(s)
    PROVE  PairBooks'
PROOF
  <1>1. IsServer(srv[s]) /\ SeenShape(seen)
    BY Parts DEF ServersOK, SessionOK
  <1>2. UNCHANGED <<mode, st, post, thread, hub>>
    BY DEF ServerStep, ServerAnswers, ServerObeys, ServerSpeaks, ServerDies
  <1>3. seen'.sent = seen.sent /\ seen'.answers = seen.answers
    BY <1>1 DEF ServerStep, ServerAnswers, ServerObeys, ServerSpeaks, ServerDies, Faults, SeenShape
  <1>4. \E x : /\ srv' = [srv EXCEPT ![s] = x] /\ x.inbox \subseteq srv[s].inbox
               /\ x.out = srv[s].out \/ \E l : x.out = Append(srv[s].out, l) /\ (l.id = NoId \/ \E m \in srv[s].inbox : l.id = m.id /\ l.origin = m.origin)
    <2>1. CASE ServerAnswers(s)
      <3>0. PICK msg \in srv[s].inbox : \E page : srv' = [srv EXCEPT ![s].inbox = @ \ {msg}, ![s].out = Append(@, Line("reply", msg.id, page, msg.origin))]
        BY <2>1 DEF ServerAnswers
      <3>1. PICK page : srv' = [srv EXCEPT ![s].inbox = @ \ {msg}, ![s].out = Append(@, Line("reply", msg.id, page, msg.origin))]
        BY <3>0
      <3>2. PICK l : l = Line("reply", msg.id, page, msg.origin)
        OBVIOUS
      <3>3. l.id = msg.id /\ l.origin = msg.origin
        BY <3>2 DEF Line
      <3>4. PICK x : x = [srv[s] EXCEPT !.inbox = srv[s].inbox \ {msg}, !.out = Append(srv[s].out, l)]
        OBVIOUS
      <3>5. srv' = [srv EXCEPT ![s] = x]
        BY <3>1, <3>2, <3>4, <1>1, Parts DEF ServersOK, IsServer
      <3>6. x.inbox = srv[s].inbox \ {msg} /\ x.out = Append(srv[s].out, l)
        BY <1>1, <3>4 DEF IsServer
      <3> QED BY <3>3, <3>5, <3>6
    <2>2. CASE ServerObeys(s)
      <3>1. PICK c, msg \in srv[s].inbox : srv' = [srv EXCEPT ![s].inbox = @ \ {c, msg}]
        BY <2>2 DEF ServerObeys
      <3>2. PICK x : x = [srv[s] EXCEPT !.inbox = @ \ {c, msg}]
        OBVIOUS
      <3>3. x.inbox = srv[s].inbox \ {c, msg} /\ x.out = srv[s].out
        BY <1>1, <3>2 DEF IsServer
      <3>4. srv' = [srv EXCEPT ![s] = x]
        BY <3>1, <3>2
      <3> QED BY <3>3, <3>4
    <2>3. CASE ServerSpeaks(s)
      <3>1. PICK what : srv' = [srv EXCEPT ![s].out = Append(@, Line(what, NoId, NoPage, 0)), ![s].tools = IF what = "list_changed" THEN Changed[s] ELSE @]
        BY <2>3 DEF ServerSpeaks
      <3>2. PICK l, tools : l = Line(what, NoId, NoPage, 0) /\ tools = IF what = "list_changed" THEN Changed[s] ELSE srv[s].tools
        OBVIOUS
      <3>3. l.id = NoId
        BY <3>2 DEF Line
      <3>4. PICK x : x = [srv[s] EXCEPT !.out = Append(srv[s].out, l), !.tools = tools]
        OBVIOUS
      <3>5. srv' = [srv EXCEPT ![s] = x]
        BY <3>1, <3>2, <3>4, <1>1, Parts DEF ServersOK, IsServer
      <3>6. x.inbox = srv[s].inbox /\ x.out = Append(srv[s].out, l)
        BY <1>1, <3>4 DEF IsServer
      <3> QED BY <3>3, <3>5, <3>6
    <2>4. CASE ServerDies(s)
      <3>1. PICK x : x = [srv[s] EXCEPT !.alive = FALSE, !.inbox = {}]
        OBVIOUS
      <3>2. x.inbox = {} /\ x.out = srv[s].out
        BY <1>1, <3>1 DEF IsServer
      <3>3. srv' = [srv EXCEPT ![s].alive = FALSE, ![s].inbox = {}]
        BY <2>4 DEF ServerDies
      <3>4. srv' = [srv EXCEPT ![s] = x]
        BY <1>1, <3>1, <3>3, Parts DEF ServersOK, IsServer
      <3> QED BY <3>2, <3>4
    <2> QED BY <2>1, <2>2, <2>3, <2>4 DEF ServerStep
  <1>5. PICK x : /\ srv' = [srv EXCEPT ![s] = x] /\ x.inbox \subseteq srv[s].inbox
                 /\ x.out = srv[s].out \/ \E l : x.out = Append(srv[s].out, l) /\ (l.id = NoId \/ \E m \in srv[s].inbox : l.id = m.id /\ l.origin = m.origin)
    BY <1>4
  <1>6. /\ Boxed' \subseteq Boxed
        /\ \A l \in Lined' : l \in Lined \/ l.id = NoId \/ \E m \in Boxed : l.id = m.id /\ l.origin = m.origin
    BY <1>5, OnePipe
  <1> QED BY <1>2, <1>3, <1>6, PipesMove

\* The pairs at the start: there are none.
LEMMA PairsBegin == Init => PairBooks
PROOF
  <1> SUFFICES ASSUME Init PROVE PairBooks
    OBVIOUS
  <1>1. /\ \A p \in Posts : post[p] = [phase |-> "new", session |-> 0, msg |-> None, n |-> NoId, direct |-> None, reply |-> None, cut |-> FALSE]
        /\ \A t \in Threads : thread[t].fin = <<>> /\ thread[t].todo = <<>>
        /\ \A s \in ServerSet : srv[s].inbox = {} /\ srv[s].out = <<>>
    BY DEF Init, AtRest
  <1>2. /\ \A p \in Posts : post[p].phase = "new" /\ post[p].n = NoId /\ post[p].direct = None /\ post[p].reply = None
        /\ seen.answers = [p \in Posts |-> <<>>] /\ seen.sent = {} /\ hub.waiters = Empty /\ st.waiting = Empty /\ st.jobs = Empty
    <2>1. \A p \in Posts : post[p].phase = "new" /\ post[p].n = NoId /\ post[p].direct = None /\ post[p].reply = None
      BY <1>1
    <2>2. seen.answers = [p \in Posts |-> <<>>] /\ seen.sent = {}
      BY DEF Init
    <2>3. hub.waiters = Empty /\ st.waiting = Empty /\ st.jobs = Empty
      BY DEF Init, RouterInit
    <2> QED BY <2>1, <2>2, <2>3
  <1>3. DOMAIN Empty = {}
    BY DEF Empty
  <1>4. AnswersTyped /\ RepliesMatch
    BY <1>2 DEF AnswersTyped, RepliesMatch
  <1>5. \A t \in Threads : ThreadPaired(t)
    BY <1>1, SendsIs DEF ThreadPaired
  <1>6. \A p \in Posts : PostPaired(p)
    BY <1>2 DEF PostPaired, ReplyOf, Deciding
  <1>7. NewUnnumbered /\ WaitersPaired /\ RouterPaired(st)
    BY <1>2, <1>3 DEF NewUnnumbered, WaitersPaired, RouterPaired
  <1>8. Held = {} /\ Boxed = {} /\ Lined = {} /\ Sent = {}
    <2>1. \A t \in Threads : HeldBy(thread[t]) = {}
      BY <1>1, SendsIs
    <2>2. \A s \in ServerSet : DOMAIN srv[s].out = {}
      BY <1>1
    <2>3. Held = {}
      BY <2>1 DEF Held
    <2>4. Boxed = {}
      BY <1>1 DEF Boxed
    <2>5. Lined = {}
      BY <2>2 DEF Lined
    <2>6. Sent = {}
      BY <1>2 DEF Sent
    <2> QED BY <2>3, <2>4, <2>5, <2>6
  <1>9. Pairs = {}
    BY <1>2, <1>3, <1>8 DEF Pairs
  <1>10. PairsOK /\ CancelsPaired /\ SentPaired
    BY <1>2, <1>8, <1>9 DEF PairsOK, CancelsPaired, SentPaired
  <1>11. ASSUME NEW p \in Posts PROVE Once(p)
    <2>1. SoleOwed(st, p) /\ ~Owes(st, p)
      BY <1>2, <1>3 DEF SoleOwed, Owes, Awaits, Lists
    <2>2. \A t \in Threads : SoleHeld(thread[t], p) /\ ~Holds(thread[t], p)
      BY <1>1, FewActs DEF SoleHeld, Holds
    <2>3. ~Told(p)
      BY <1>2 DEF Told
    <2> QED BY <2>1, <2>2, <2>3 DEF Once
  <1>12. OnceOK
    BY <1>11 DEF OnceOK
  <1> QED BY <1>4, <1>5, <1>6, <1>7, <1>10, <1>12 DEF PairBooks, Carriers

\* Every step keeps the pairs.
LEMMA PairsKept == TransportBooks /\ NameBooks /\ PairBooks /\ [Next]_vars => PairBooks'
PROOF
  <1> SUFFICES ASSUME TransportBooks, NameBooks, PairBooks, [Next]_vars PROVE PairBooks'
    OBVIOUS
  <1>1. CASE \E p \in Posts : AgentStep(p) \/ Disconnects(p)
    BY <1>1, ArrivesPairs, DecidesPairs, DispatchesPairs, PostEndsPairs, PostAnsweredPairs, DisconnectsPairs DEF AgentStep
  <1>2. CASE \E t \in Threads : ThreadStep(t)
    BY <1>2, FinishesPairs, PerformsAnswerPairs, PerformsSendPairs DEF ThreadStep
  <1>3. CASE \E s \in ServerSet : IngressStep(s) \/ ServerStep(s)
    BY <1>3, ReadsPairs, OutputEndsPairs, IngressEndsPairs, ServerPairs DEF IngressStep
  <1>4. CASE ClientStep \/ ClosesServers
    BY <1>4, ClientPairs, ExchangeEndsPairs, ClosesPairs DEF ClientStep, ExchangeStep
  <1>5. CASE UNCHANGED vars
    <2>1. UNCHANGED <<mode, st, post, thread, srv, hub, seen>>
      BY <1>5 DEF vars
    <2> QED BY <2>1, IdlePairs
  <1> QED BY <1>1, <1>2, <1>3, <1>4, <1>5 DEF Next

\* What is paired reaches its own.
LEMMA PairsSuffice == NameBooks /\ PairBooks /\ mode \in Modes => IdsStayPaired
PROOF
  <1> SUFFICES ASSUME NameBooks, PairBooks, mode \in Modes, mode # "stdio", NEW c \in seen.sent, NEW r \in seen.sent,
                      c[1] = "cancelled", r[4].id = c[4].ref
               PROVE  post[r[2]].session = post[c[2]].session
    BY PairParts DEF IdsStayPaired, CancelsOwnRequest
  <1>1. c[4].method = "cancelled" /\ c[2] = c[4].origin /\ r[2] = r[4].origin /\ (mode = "single" => OfPost(r[4])) /\ mode # "relay"
    BY PairParts DEF SentPaired
  <1>2. CancelOK(c[4]) /\ r[4] \in Sent
    BY PairParts DEF CancelsPaired, Sent
  <1>3. CASE mode = "single"
    <2>1. NamesOwn(c[4].ref, c[4].origin)
      BY <1>1, <1>2, <1>3 DEF CancelOK
    <2>2. PICK q \in Posts : post[q].n = c[4].ref /\ post[q].session = post[c[2]].session
      BY <1>1, <2>1 DEF NamesOwn
    <2>3. r[2] \in Posts /\ post[r[2]].n = c[4].ref /\ c[4].ref # NoId
      BY <1>1, <1>3, <2>1 DEF OfPost, NamesOwn
    <2>4. r[2] = q
      BY <2>2, <2>3, NameParts DEF Numbered
    <2> QED BY <2>2, <2>4
  <1>4. CASE mode = "listen"
    <2>1. CancelPaired(c[4])
      BY <1>1, <1>2, <1>4 DEF CancelOK
    <2>2. PICK x : x = <<r[4].id, r[4].origin>>
      OBVIOUS
    <2>3. x \in Pairs /\ x[1] = c[4].ref /\ x[2] = r[2]
      BY <1>1, <1>2, <2>2 DEF Pairs
    <2> QED BY <1>1, <2>1, <2>3 DEF CancelPaired
  <1> QED BY <1>1, <1>3, <1>4, TransportAssumption

\* Through the renumberings of the listener and the router, and however threads,
\* servers and the HTTP client interleave, fail or race for the same request: every
\* agent request is answered at most once and with the answer to that very request,
\* and a cancellation reaches a server only under the number of a request of its own
\* session (post_mcp, forwarded_as, Dispatch::route; send_routed, on_routed_line,
\* server_gone, cancel).
THEOREM IdsPaired == Spec => []IdsStayPaired
PROOF
  <1>1. Init => TransportBooks /\ NameBooks /\ PairBooks
    BY BooksBegin, NamesBegin, PairsBegin
  <1>2. TransportBooks /\ NameBooks /\ PairBooks /\ [Next]_vars => (TransportBooks /\ NameBooks /\ PairBooks)'
    BY StepKeeps, NamesKept, PairsKept
  <1>3. TransportBooks /\ NameBooks /\ PairBooks => IdsStayPaired
    BY PairsSuffice, Parts
  <1> QED BY <1>1, <1>2, <1>3, PTL DEF Spec
=============================================================================
