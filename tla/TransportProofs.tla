-------------------------- MODULE TransportProofs --------------------------
(***************************************************************************)
(* Proofs about McpTransport: TransportInv and OneToolPerName hold of      *)
(* every run, whatever the servers, the agents' messages and the bound on  *)
(* faults.                                                                 *)
(*                                                                         *)
(* The inductive invariant is TransportBooks, and NameBooks (below) beside *)
(* it for OneToolPerName; PairingProofs goes on from both.  The parts of   *)
(* TransportBooks are                                                      *)
(*   RouterInv   the router awaits, for each listing and each server that  *)
(*               listing still waits for, exactly one page, and nothing    *)
(*               else under a listing (Awaited);                           *)
(*   CatOK       every name the catalog exposes leads to a real server;    *)
(*   ThreadsOK   what threads hold to do is addressed to the agent or to a *)
(*               real server, the listings to finish are of real servers;  *)
(*   ClientOK    busy counts what is queued or exchanged, one message of   *)
(*               each agent message;                                       *)
(*   SessionOK   granted sessions <= the client's <= the initializes taken,*)
(*               and while an initialize is exchanged all else was taken   *)
(*               before it;                                                *)
(*   RelayOK     each agent message is handed to the HTTP client once.     *)
(* The router's operators are shown to keep RouterInv one by one, in the   *)
(* order the code calls them; then each action keeps TransportBooks.       *)
(***************************************************************************)
EXTENDS McpTransport, FiniteSetTheorems, WellFoundedInduction, TLAPS

(***************************************************************************)
(* Counting, and sequences of anything.                                    *)
(***************************************************************************)
Below == {ss \in Nat \X Nat : ss[1] < ss[2]}

\* A set of numbers that is not empty has a least one.
LEMMA LeastOf ==
    ASSUME NEW T \in SUBSET Nat, T # {}
    PROVE  \E x \in T : \A y \in T : x <= y
PROOF
  <1>1. IsWellFoundedOn(Below, Nat)
    BY NatLessThanWellFounded DEF OpToRel, Below
  <1>2. PICK x \in T : \A y \in T : ~(<<y, x>> \in Below)
    BY <1>1, WFMin
  <1>3. \A y \in T : y \in Nat /\ x \in Nat
    OBVIOUS
  <1>4. \A y \in T : ~(y < x)
    BY <1>2, <1>3 DEF Below
  <1> QED BY <1>3, <1>4

\* What holds of 0 and is handed on from each number below n to the next
\* holds of all up to n.
LEMMA CountUp ==
    ASSUME NEW n \in Nat, NEW S, 0 \in S, \A k \in Nat : k < n /\ k \in S => k + 1 \in S
    PROVE  0..n \subseteq S
PROOF
  <1> SUFFICES ASSUME NEW i \in 0..n, i \notin S PROVE FALSE
    OBVIOUS
  <1> DEFINE T == {k \in 0..n : k \notin S}
  <1>1. PICK x \in T : \A y \in T : x <= y
    <2>1. T \in SUBSET Nat /\ T # {}
      OBVIOUS
    <2> QED BY <2>1, LeastOf
  <1>2. x # 0 /\ x - 1 \in 0..n /\ x - 1 \in S
    BY <1>1
  <1> QED BY <1>1, <1>2

\* A sequence, of whatever it is.
IsSeq(s) == \E T : s \in Seq(T)

\* Live is computed by its recursion.
LEMMA LiveRecursion ==
    ASSUME NEW servers, NEW gone, Len(servers) \in Nat
    PROVE  \E F : /\ Live(servers, gone) = F[Len(servers)]
                  /\ F[0] = <<>>
                  /\ \A i \in 1..Len(servers) : F[i] = (IF servers[i] \in gone THEN F[i - 1] ELSE Append(F[i - 1], servers[i]))
PROOF
  <1> DEFINE n == Len(servers)
             R(f, m) == [i \in 0..m |-> IF i = 0 THEN <<>> ELSE (IF servers[i] \in gone THEN f[i - 1] ELSE Append(f[i - 1], servers[i]))]
             F == CHOOSE f : f = R(f, n)
  <1>1. \E f : f = R(f, n)
    <2> DEFINE S == {m \in Nat : \E f : f = R(f, m)}
    <2>1. 0 \in S
      <3> DEFINE f == [i \in 0..0 |-> <<>>]
      <3>1. f = R(f, 0)
        OBVIOUS
      <3> QED BY <3>1
    <2>2. ASSUME NEW k \in Nat, k < n, k \in S PROVE k + 1 \in S
      <3>1. PICK f : f = R(f, k)
        BY <2>2
      <3> DEFINE g == [i \in 0..(k + 1) |-> IF i <= k THEN f[i] ELSE (IF servers[k + 1] \in gone THEN f[k] ELSE Append(f[k], servers[k + 1]))]
      <3>2. \A i \in 0..k : f[i] = IF i = 0 THEN <<>> ELSE (IF servers[i] \in gone THEN f[i - 1] ELSE Append(f[i - 1], servers[i]))
        BY <3>1, Zenon
      <3>3. ASSUME NEW i \in 0..(k + 1)
            PROVE  g[i] = IF i = 0 THEN <<>> ELSE (IF servers[i] \in gone THEN g[i - 1] ELSE Append(g[i - 1], servers[i]))
        <4>1. CASE i = k + 1
          <5>1. i # 0 /\ i - 1 = k /\ k \in 0..(k + 1) /\ k <= k /\ ~(i <= k)
            BY <4>1
          <5>2. g[k] = f[k] /\ g[i] = (IF servers[i] \in gone THEN f[k] ELSE Append(f[k], servers[i]))
            BY <4>1, <5>1
          <5> HIDE DEF g
          <5> QED BY <5>1, <5>2
        <4>2. CASE i # k + 1 /\ i # 0
          <5>1. i \in 0..k /\ i <= k /\ i - 1 \in 0..(k + 1) /\ i - 1 <= k
            BY <4>2
          <5>2. g[i] = f[i] /\ g[i - 1] = f[i - 1]
            BY <5>1
          <5> HIDE DEF g
          <5> QED BY <3>2, <4>2, <5>1, <5>2
        <4>3. CASE i = 0
          <5>1. 0 \in 0..k /\ 0 <= k
            OBVIOUS
          <5>2. g[0] = f[0]
            BY <5>1
          <5> HIDE DEF g
          <5> QED BY <3>2, <4>3, <5>1, <5>2
        <4> QED BY <4>1, <4>2, <4>3
      <3>4. g = R(g, k + 1)
        <4>1. DOMAIN g = 0..(k + 1) /\ g = [i \in 0..(k + 1) |-> g[i]]
          OBVIOUS
        <4> HIDE DEF g
        <4> QED BY <3>3, <4>1
      <3> HIDE DEF g
      <3>5. \E f1 : f1 = R(f1, k + 1)
        BY <3>4
      <3>6. k + 1 \in Nat
        OBVIOUS
      <3> HIDE DEF R
      <3> QED BY <3>5, <3>6
    <2> HIDE DEF R
    <2>3. n \in 0..n
      OBVIOUS
    <2>4. 0..n \subseteq S
      BY <2>1, <2>2, CountUp
    <2> QED BY <2>3, <2>4
  <1>2. F = R(F, n)
    BY <1>1
  <1>3. Live(servers, gone) = F[n]
    BY Zenon DEF Live
  <1> HIDE DEF F
  <1>4. \A i \in 0..n : F[i] = IF i = 0 THEN <<>> ELSE (IF servers[i] \in gone THEN F[i - 1] ELSE Append(F[i - 1], servers[i]))
    BY <1>2, Zenon
  <1> HIDE DEF R
  <1>5. F[0] = <<>> /\ \A i \in 1..n : i \in 0..n /\ i # 0
    BY <1>4
  <1>6. \A i \in 1..n : F[i] = (IF servers[i] \in gone THEN F[i - 1] ELSE Append(F[i - 1], servers[i]))
    BY <1>4, <1>5
  <1> QED BY <1>3, <1>5, <1>6

\* Observe takes the tools of a listing in turn.
ObserveRun(F, c, server, tools) ==
    /\ Observe(c, server, tools) = F[Len(tools)]
    /\ F[0] = NothingSeen(c)
    /\ \A i \in 1..Len(tools) : F[i] = ObserveTool(F[i - 1], server, tools[i])

\* The recursive function is what its equation says.
LEMMA ObserveRecursion ==
    ASSUME NEW c, NEW server, NEW tools, Len(tools) \in Nat
    PROVE  \E F : ObserveRun(F, c, server, tools)
PROOF
  <1> DEFINE n == Len(tools)
             R(f, m) == [i \in 0..m |-> IF i = 0 THEN NothingSeen(c) ELSE ObserveTool(f[i - 1], server, tools[i])]
             F == CHOOSE f : f = R(f, n)
  <1>1. \E f : f = R(f, n)
    <2> DEFINE S == {m \in Nat : \E f : f = R(f, m)}
    <2>1. 0 \in S
      <3> DEFINE f == [i \in 0..0 |-> NothingSeen(c)]
      <3>1. f = R(f, 0)
        OBVIOUS
      <3> QED BY <3>1
    <2>2. ASSUME NEW k \in Nat, k < n, k \in S PROVE k + 1 \in S
      <3>1. PICK f : f = R(f, k)
        BY <2>2
      <3> DEFINE g == [i \in 0..(k + 1) |-> IF i <= k THEN f[i] ELSE ObserveTool(f[k], server, tools[k + 1])]
      <3>2. \A i \in 0..k : f[i] = IF i = 0 THEN NothingSeen(c) ELSE ObserveTool(f[i - 1], server, tools[i])
        BY <3>1, Zenon
      <3>3. ASSUME NEW i \in 0..(k + 1)
            PROVE  g[i] = IF i = 0 THEN NothingSeen(c) ELSE ObserveTool(g[i - 1], server, tools[i])
        <4>1. CASE i = k + 1
          <5>1. i # 0 /\ i - 1 = k /\ k \in 0..(k + 1) /\ k <= k /\ ~(i <= k)
            BY <4>1
          <5>2. g[k] = f[k] /\ g[i] = ObserveTool(f[k], server, tools[i])
            BY <4>1, <5>1
          <5> HIDE DEF g
          <5> QED BY <5>1, <5>2
        <4>2. CASE i # k + 1 /\ i # 0
          <5>1. i \in 0..k /\ i <= k /\ i - 1 \in 0..(k + 1) /\ i - 1 <= k
            BY <4>2
          <5>2. g[i] = f[i] /\ g[i - 1] = f[i - 1]
            BY <5>1
          <5> HIDE DEF g
          <5> QED BY <3>2, <4>2, <5>1, <5>2
        <4>3. CASE i = 0
          <5>1. 0 \in 0..k /\ 0 <= k
            OBVIOUS
          <5>2. g[0] = f[0]
            BY <5>1
          <5> HIDE DEF g
          <5> QED BY <3>2, <4>3, <5>1, <5>2
        <4> QED BY <4>1, <4>2, <4>3
      <3>4. g = R(g, k + 1)
        <4>1. DOMAIN g = 0..(k + 1) /\ g = [i \in 0..(k + 1) |-> g[i]]
          OBVIOUS
        <4> HIDE DEF g
        <4> QED BY <3>3, <4>1
      <3> HIDE DEF g
      <3>5. \E f1 : f1 = R(f1, k + 1)
        BY <3>4
      <3>6. k + 1 \in Nat
        OBVIOUS
      <3> HIDE DEF R
      <3> QED BY <3>5, <3>6
    <2> HIDE DEF R
    <2>3. n \in 0..n
      OBVIOUS
    <2>4. 0..n \subseteq S
      BY <2>1, <2>2, CountUp
    <2> QED BY <2>3, <2>4
  <1>2. F = R(F, n)
    BY <1>1
  <1>3. Observe(c, server, tools) = F[n]
    BY Zenon DEF Observe
  <1> HIDE DEF F
  <1>4. \A i \in 0..n : F[i] = IF i = 0 THEN NothingSeen(c) ELSE ObserveTool(F[i - 1], server, tools[i])
    BY <1>2, Zenon
  <1> HIDE DEF R
  <1>5. F[0] = NothingSeen(c) /\ \A i \in 1..n : i \in 0..n /\ i # 0
    BY <1>4
  <1>6. \A i \in 1..n : F[i] = ObserveTool(F[i - 1], server, tools[i])
    BY <1>4, <1>5
  <1>7. ObserveRun(F, c, server, tools)
    BY <1>3, <1>5, <1>6 DEF ObserveRun
  <1> QED BY <1>7, Zenon

\* ObserveServers takes the servers in turn.
LEMMA ObserveServersRecursion ==
    ASSUME NEW c, NEW listing, Len(listing) \in Nat
    PROVE  \E F : /\ ObserveServers(c, listing) = F[Len(listing)]
                  /\ F[0] = NothingSeen(c)
                  /\ \A i \in 1..Len(listing) : F[i] = ObserveServer(F[i - 1], listing[i])
PROOF
  <1> DEFINE n == Len(listing)
             R(f, m) == [i \in 0..m |-> IF i = 0 THEN NothingSeen(c) ELSE ObserveServer(f[i - 1], listing[i])]
             F == CHOOSE f : f = R(f, n)
  <1>1. \E f : f = R(f, n)
    <2> DEFINE S == {m \in Nat : \E f : f = R(f, m)}
    <2>1. 0 \in S
      <3> DEFINE f == [i \in 0..0 |-> NothingSeen(c)]
      <3>1. f = R(f, 0)
        OBVIOUS
      <3> QED BY <3>1
    <2>2. ASSUME NEW k \in Nat, k < n, k \in S PROVE k + 1 \in S
      <3>1. PICK f : f = R(f, k)
        BY <2>2
      <3> DEFINE g == [i \in 0..(k + 1) |-> IF i <= k THEN f[i] ELSE ObserveServer(f[k], listing[k + 1])]
      <3>2. \A i \in 0..k : f[i] = IF i = 0 THEN NothingSeen(c) ELSE ObserveServer(f[i - 1], listing[i])
        BY <3>1, Zenon
      <3>3. ASSUME NEW i \in 0..(k + 1)
            PROVE  g[i] = IF i = 0 THEN NothingSeen(c) ELSE ObserveServer(g[i - 1], listing[i])
        <4>1. CASE i = k + 1
          <5>1. i # 0 /\ i - 1 = k /\ k \in 0..(k + 1) /\ k <= k /\ ~(i <= k)
            BY <4>1
          <5>2. g[k] = f[k] /\ g[i] = ObserveServer(f[k], listing[i])
            BY <4>1, <5>1
          <5> HIDE DEF g
          <5> QED BY <5>1, <5>2
        <4>2. CASE i # k + 1 /\ i # 0
          <5>1. i \in 0..k /\ i <= k /\ i - 1 \in 0..(k + 1) /\ i - 1 <= k
            BY <4>2
          <5>2. g[i] = f[i] /\ g[i - 1] = f[i - 1]
            BY <5>1
          <5> HIDE DEF g
          <5> QED BY <3>2, <4>2, <5>1, <5>2
        <4>3. CASE i = 0
          <5>1. 0 \in 0..k /\ 0 <= k
            OBVIOUS
          <5>2. g[0] = f[0]
            BY <5>1
          <5> HIDE DEF g
          <5> QED BY <3>2, <4>3, <5>1, <5>2
        <4> QED BY <4>1, <4>2, <4>3
      <3>4. g = R(g, k + 1)
        <4>1. DOMAIN g = 0..(k + 1) /\ g = [i \in 0..(k + 1) |-> g[i]]
          OBVIOUS
        <4> HIDE DEF g
        <4> QED BY <3>3, <4>1
      <3> HIDE DEF g
      <3>5. \E f1 : f1 = R(f1, k + 1)
        BY <3>4
      <3>6. k + 1 \in Nat
        OBVIOUS
      <3> HIDE DEF R
      <3> QED BY <3>5, <3>6
    <2> HIDE DEF R
    <2>3. n \in 0..n
      OBVIOUS
    <2>4. 0..n \subseteq S
      BY <2>1, <2>2, CountUp
    <2> QED BY <2>3, <2>4
  <1>2. F = R(F, n)
    BY <1>1
  <1>3. ObserveServers(c, listing) = F[n]
    BY Zenon DEF ObserveServers
  <1> HIDE DEF F
  <1>4. \A i \in 0..n : F[i] = IF i = 0 THEN NothingSeen(c) ELSE ObserveServer(F[i - 1], listing[i])
    BY <1>2, Zenon
  <1> HIDE DEF R
  <1>5. F[0] = NothingSeen(c) /\ \A i \in 1..n : i \in 0..n /\ i # 0
    BY <1>4
  <1>6. \A i \in 1..n : F[i] = ObserveServer(F[i - 1], listing[i])
    BY <1>4, <1>5
  <1> QED BY <1>3, <1>5, <1>6

(***************************************************************************)
(* The operators of the router and the catalog.                            *)
(***************************************************************************)
\* A map after an insert.
LEMMA InsertIs ==
    ASSUME NEW f, NEW k, NEW v
    PROVE  /\ DOMAIN Insert(f, k, v) = DOMAIN f \cup {k}
           /\ Insert(f, k, v)[k] = v
           /\ \A x \in DOMAIN f : x # k => Insert(f, k, v)[x] = f[x]
BY DEF Insert

\* A map without some keys.
LEMMA ForgetIs ==
    ASSUME NEW f, NEW keys
    PROVE  /\ DOMAIN Forget(f, keys) = DOMAIN f \ keys
           /\ \A x \in DOMAIN f \ keys : Forget(f, keys)[x] = f[x]
BY DEF Forget, Restrict

IsLive(live, servers, n, gone) ==
    /\ live \in Seq(ServerSet)
    /\ \A i, j \in 1..Len(live) : live[i] = live[j] => i = j
    /\ \A i \in 1..Len(live) : \E j \in 1..n : live[i] = servers[j] /\ servers[j] \notin gone
    /\ \A j \in 1..n : servers[j] \notin gone => \E i \in 1..Len(live) : live[i] = servers[j]

\* One more server looked at.
LEMMA LiveGrows ==
    ASSUME NEW servers \in Seq(ServerSet), \A i, j \in 1..Len(servers) : servers[i] = servers[j] => i = j,
           NEW gone, NEW live, NEW k \in Nat, k < Len(servers), IsLive(live, servers, k, gone)
    PROVE  IsLive((IF servers[k + 1] \in gone THEN live ELSE Append(live, servers[k + 1])), servers, k + 1, gone)
PROOF
  <1>0. /\ k + 1 \in 1..Len(servers) /\ servers[k + 1] \in ServerSet /\ Len(live) \in Nat
        /\ \A j \in 1..(k + 1) : j \in 1..Len(servers) /\ (j \in 1..k \/ j = k + 1)
        /\ \A j \in 1..k : j \in 1..(k + 1) /\ j # k + 1
        /\ live \in Seq(ServerSet)
    BY DEF IsLive
  <1>1. CASE servers[k + 1] \in gone
    <2>1. \A i \in 1..Len(live) : \E j \in 1..(k + 1) : live[i] = servers[j] /\ servers[j] \notin gone
      BY <1>0 DEF IsLive
    <2>2. ASSUME NEW j \in 1..(k + 1), servers[j] \notin gone PROVE \E i \in 1..Len(live) : live[i] = servers[j]
      BY <1>0, <1>1, <2>2 DEF IsLive
    <2> QED BY <1>1, <2>1, <2>2 DEF IsLive
  <1>2. CASE servers[k + 1] \notin gone
    <2> DEFINE longer == Append(live, servers[k + 1])
    <2>1. /\ longer \in Seq(ServerSet) /\ Len(longer) = Len(live) + 1
          /\ \A i \in 1..Len(live) : longer[i] = live[i]
          /\ longer[Len(live) + 1] = servers[k + 1]
      BY <1>0
    <2> HIDE DEF longer
    <2>2. \A i \in 1..Len(longer) : i \in 1..Len(live) \/ i = Len(live) + 1
      BY <1>0, <2>1
    <2>3. \A i \in 1..Len(live) : longer[i] # servers[k + 1]
      BY <1>0, <2>1 DEF IsLive
    <2>4. ASSUME NEW i \in 1..Len(longer), NEW j \in 1..Len(longer), longer[i] = longer[j] PROVE i = j
      <3>1. CASE i \in 1..Len(live) /\ j \in 1..Len(live)
        BY <2>1, <2>4, <3>1 DEF IsLive
      <3> QED BY <2>1, <2>2, <2>3, <2>4, <3>1
    <2>5. ASSUME NEW i \in 1..Len(longer) PROVE \E j \in 1..(k + 1) : longer[i] = servers[j] /\ servers[j] \notin gone
      <3>1. CASE i \in 1..Len(live)
        BY <1>0, <2>1, <3>1 DEF IsLive
      <3>2. CASE i = Len(live) + 1
        BY <1>2, <2>1, <3>2
      <3> QED BY <2>2, <3>1, <3>2
    <2>6. ASSUME NEW j \in 1..(k + 1), servers[j] \notin gone PROVE \E i \in 1..Len(longer) : longer[i] = servers[j]
      <3>1. CASE j \in 1..k
        <4>1. PICK i \in 1..Len(live) : live[i] = servers[j]
          BY <2>6, <3>1 DEF IsLive
        <4> QED BY <1>0, <2>1, <4>1
      <3>2. CASE j = k + 1
        BY <1>0, <2>1, <3>2
      <3> QED BY <1>0, <3>1, <3>2
    <2>7. IsLive(longer, servers, k + 1, gone)
      BY <2>1, <2>4, <2>5, <2>6 DEF IsLive
    <2> QED BY <1>2, <2>7 DEF longer
  <1> QED BY <1>1, <1>2

\* Live keeps the servers that are not gone, each once.
LEMMA LiveIs ==
    ASSUME NEW servers \in Seq(ServerSet), \A i, j \in 1..Len(servers) : servers[i] = servers[j] => i = j, NEW gone
    PROVE  IsLive(Live(servers, gone), servers, Len(servers), gone)
PROOF
  <1> DEFINE n == Len(servers)
  <1>0. n \in Nat
    OBVIOUS
  <1>1. PICK F : /\ Live(servers, gone) = F[n]
                 /\ F[0] = <<>>
                 /\ \A i \in 1..n : F[i] = (IF servers[i] \in gone THEN F[i - 1] ELSE Append(F[i - 1], servers[i]))
    BY <1>0, LiveRecursion
  <1> DEFINE S == {k \in Nat : IsLive(F[k], servers, k, gone)}
  <1>2. 0 \in S
    <2>1. IsLive(<<>>, servers, 0, gone)
      BY DEF IsLive
    <2> QED BY <1>1, <2>1
  <1>3. ASSUME NEW k \in Nat, k < n, k \in S PROVE k + 1 \in S
    <2>1. k + 1 \in 1..n /\ (k + 1) - 1 = k /\ k + 1 \in Nat
      BY <1>0, <1>3
    <2>2. F[k + 1] = (IF servers[k + 1] \in gone THEN F[k] ELSE Append(F[k], servers[k + 1]))
      BY <1>1, <2>1
    <2>3. IsLive(F[k], servers, k, gone)
      BY <1>3
    <2>4. IsLive((IF servers[k + 1] \in gone THEN F[k] ELSE Append(F[k], servers[k + 1])), servers, k + 1, gone)
      BY <1>3, <2>3, LiveGrows
    <2> QED BY <2>1, <2>2, <2>4
  <1>4. 0..n \subseteq S
    BY <1>0, <1>2, <1>3, CountUp
  <1> QED BY <1>0, <1>1, <1>4

\* The agent's names lead to servers there are.
CatalogOK(c) ==
    /\ c \in [routed : {TRUE}, lock : {c.lock}, namespaced : {c.namespaced}, baseline : {c.baseline}, blocked : {c.blocked}, exposed : {c.exposed}]
    /\ \A name \in DOMAIN c.exposed : c.exposed[name][1] \in ServerSet
SeenOK(acc) ==
    /\ acc \in [cat : {acc.cat}, visible : {acc.visible}, drifts : {acc.drifts}, clashes : {acc.clashes}]
    /\ CatalogOK(acc.cat)

\* One tool of a listing keeps every exposed name with a real server.
LEMMA ObserveToolOK ==
    ASSUME NEW acc, SeenOK(acc), NEW server \in ServerSet, NEW tool
    PROVE  SeenOK(ObserveTool(acc, server, tool))
PROOF
  <1> DEFINE c == acc.cat
             name == AgentName(c, server, tool.name)
             key == <<server, tool.name>>
             clash == c.routed /\ name \in DOMAIN c.exposed /\ c.exposed[name][1] # server
             wider == OrInsert(c.exposed, name, key)
             exposing == IF c.routed THEN [c EXCEPT !.exposed = wider] ELSE c
             drifted == IF c.lock.given THEN HashOf(c.lock, server, tool.name) # {ToolHash(tool)}
                        ELSE key \in DOMAIN c.baseline /\ c.baseline[key] # ToolHash(tool)
             known == OrInsert(exposing.baseline, key, ToolHash(tool))
             recorded == IF c.lock.given THEN exposing ELSE [exposing EXCEPT !.baseline = known]
  <1>1. \A x \in DOMAIN wider : wider[x][1] \in ServerSet
    <2>1. \A x \in DOMAIN c.exposed : c.exposed[x][1] \in ServerSet
      BY DEF SeenOK, CatalogOK
    <2>2. key[1] \in ServerSet
      OBVIOUS
    <2> HIDE DEF name, key, c
    <2>3. CASE name \in DOMAIN c.exposed
      <3>1. wider = c.exposed
        BY <2>3 DEF OrInsert
      <3> HIDE DEF wider
      <3> QED BY <2>1, <3>1
    <2>4. CASE name \notin DOMAIN c.exposed
      <3>1. wider = Insert(c.exposed, name, key)
        BY <2>4 DEF OrInsert
      <3> HIDE DEF wider
      <3>2. /\ DOMAIN wider = DOMAIN c.exposed \cup {name} /\ wider[name] = key
            /\ \A x \in DOMAIN c.exposed : x # name => wider[x] = c.exposed[x]
        BY <3>1 DEF Insert
      <3> QED BY <2>1, <2>2, <3>2
    <2> QED BY <2>3, <2>4
  <1> HIDE DEF wider, name
  <1>2. CatalogOK(exposing) /\ exposing.routed
    BY <1>1 DEF SeenOK, CatalogOK
  <1> HIDE DEF exposing
  <1> HIDE DEF known
  <1>3. CatalogOK(recorded)
    BY <1>2 DEF CatalogOK
  <1>4. CatalogOK([exposing EXCEPT !.blocked = @ \cup {key}])
    BY <1>2 DEF CatalogOK
  <1> HIDE DEF recorded, drifted, clash
  <1> DEFINE seen1 == [acc EXCEPT !.clashes = @ \cup {name}]
             seen2 == [acc EXCEPT !.cat = exposing]
             seen3 == [acc EXCEPT !.cat = [exposing EXCEPT !.blocked = @ \cup {key}], !.drifts = @ \cup {name}]
             seen4 == [acc EXCEPT !.cat = recorded, !.visible = Append(@, [name |-> name, def |-> tool.def])]
  <1>5. SeenOK(seen1) /\ SeenOK(seen2)
    BY <1>2 DEF SeenOK
  <1>6. SeenOK(seen3)
    BY <1>4 DEF SeenOK
  <1>7. SeenOK(seen4)
    BY <1>3 DEF SeenOK
  <1>8. ObserveTool(acc, server, tool) \in {seen1, seen2, seen3, seen4}
    <2>1. ObserveTool(acc, server, tool) =
            CASE clash -> seen1
              [] ~clash /\ key \in c.blocked -> seen2
              [] ~clash /\ key \notin c.blocked /\ drifted -> seen3
              [] OTHER -> seen4
      BY Zenon DEF ObserveTool, name, wider, known, exposing, recorded, drifted, clash
    <2> HIDE DEF seen1, seen2, seen3, seen4, c, key
    <2> QED BY <2>1
  <1> HIDE DEF seen1, seen2, seen3, seen4
  <1> QED BY <1>5, <1>6, <1>7, <1>8

\* So do they after a listing of any server, whatever it lists.
LEMMA ObserveOK ==
    ASSUME NEW c, CatalogOK(c), NEW server \in ServerSet, NEW tools, IsSeq(tools)
    PROVE  SeenOK(Observe(c, server, tools))
PROOF
  <1> DEFINE n == Len(tools)
  <1>0. n \in Nat
    BY DEF IsSeq
  <1>1. PICK F : ObserveRun(F, c, server, tools)
    BY <1>0, ObserveRecursion, Zenon
  <1> DEFINE S == {k \in Nat : SeenOK(F[k])}
  <1>2. 0 \in S
    BY <1>1 DEF SeenOK, NothingSeen, ObserveRun
  <1>3. ASSUME NEW k \in Nat, k < n, k \in S PROVE k + 1 \in S
    <2>1. k + 1 \in 1..n /\ (k + 1) - 1 = k /\ k + 1 \in Nat
      BY <1>0, <1>3
    <2>2. F[k + 1] = ObserveTool(F[k], server, tools[k + 1])
      BY <1>1, <2>1 DEF ObserveRun
    <2>3. SeenOK(ObserveTool(F[k], server, tools[k + 1]))
      BY <1>3, ObserveToolOK
    <2> QED BY <2>1, <2>2, <2>3
  <1>4. 0..n \subseteq S
    BY <1>0, <1>2, <1>3, CountUp
  <1> QED BY <1>0, <1>1, <1>4 DEF ObserveRun

\* And at start-up.
LEMMA StartOK == CatalogOK(Start(StartListings, NoLock, {}).cat)
PROOF
  <1> DEFINE listing == StartListings
             n == Len(listing)
             c == EmptyCatalog(NoLock, ServedPerServer(listing, {}))
  <1>0. /\ n \in Nat
        /\ \A i \in 1..n : listing[i].name \in ServerSet /\ IsSeq(listing[i].tools)
    <2>1. Servers \in Seq(ServerSet)
      BY RouterAssumption DEF ServerSet, ToSet
    <2>2. \A i \in 1..Len(Servers) : Servers[i] \in ServerSet
      BY <2>1
    <2>3. n = Len(Servers) /\ \A i \in 1..n : listing[i] = [name |-> Servers[i], tools |-> Listed[Servers[i]]]
      BY <2>1 DEF StartListings
    <2>4. \A s \in ServerSet : IsSeq(Listed[s])
      BY TransportAssumption DEF IsSeq, ServerSet
    <2> HIDE DEF listing
    <2>5. n \in Nat
      BY <2>1, <2>3
    <2>6. ASSUME NEW i \in 1..n PROVE listing[i].name \in ServerSet /\ IsSeq(listing[i].tools)
      <3>1. i \in 1..Len(Servers) /\ listing[i] = [name |-> Servers[i], tools |-> Listed[Servers[i]]]
        BY <2>3
      <3> QED BY <2>2, <2>4, <3>1
    <2> QED BY <2>5, <2>6
  <1>1. CatalogOK(c)
    BY DEF EmptyCatalog, CatalogOK, Empty
  <1>2. Start(listing, NoLock, {}).cat = ObserveServers(c, listing).cat
    BY DEF Start
  <1> HIDE DEF c, listing
  <1>3. PICK F : /\ ObserveServers(c, listing) = F[n]
                 /\ F[0] = NothingSeen(c)
                 /\ \A i \in 1..n : F[i] = ObserveServer(F[i - 1], listing[i])
    BY <1>0, ObserveServersRecursion
  <1> DEFINE S == {k \in Nat : SeenOK(F[k])}
  <1>4. 0 \in S
    BY <1>1, <1>3 DEF SeenOK, NothingSeen
  <1>5. ASSUME NEW k \in Nat, k < n, k \in S PROVE k + 1 \in S
    <2>1. k + 1 \in 1..n /\ (k + 1) - 1 = k /\ k + 1 \in Nat
      BY <1>0, <1>5
    <2>2. F[k + 1] = ObserveServer(F[k], listing[k + 1])
      BY <1>3, <2>1
    <2> DEFINE o == Observe(F[k].cat, listing[k + 1].name, listing[k + 1].tools)
    <2>3. SeenOK(o)
      BY <1>0, <1>5, <2>1, ObserveOK DEF SeenOK
    <2>4. ObserveServer(F[k], listing[k + 1]) = [o EXCEPT !.drifts = @ \cup F[k].drifts, !.clashes = @ \cup F[k].clashes]
      BY DEF ObserveServer
    <2> HIDE DEF o
    <2>5. SeenOK(ObserveServer(F[k], listing[k + 1]))
      BY <2>3, <2>4 DEF SeenOK
    <2> QED BY <2>1, <2>2, <2>5
  <1>6. 0..n \subseteq S
    BY <1>0, <1>4, <1>5, CountUp
  <1> QED BY <1>0, <1>2, <1>3, <1>6 DEF SeenOK, listing

(***************************************************************************)
(* The router's books.  What is awaited agrees with the listings under     *)
(* way, except for the pages of the servers S that the listing `job` is    *)
(* about to ask for.                                                       *)
(***************************************************************************)
ListPage(w, job, s) == w.kind = "list" /\ w.job = job /\ w.server = s

Awaited(W, J, G, job, S) ==
    /\ \A j \in DOMAIN J :
        /\ J[j].remaining # {}
        /\ \A s \in J[j].remaining : (j = job /\ s \in S) \/ \E n \in DOMAIN W : ListPage(W[n], j, s)
    /\ \A n, m \in DOMAIN W :
        W[n].kind = "list" /\ W[m].kind = "list" /\ W[n].job = W[m].job /\ W[n].server = W[m].server => n = m
    /\ \A n \in DOMAIN W : W[n].server \notin G
    /\ \A n \in DOMAIN W : W[n].kind = "list" =>
        /\ W[n].job \in DOMAIN J /\ W[n].server \in J[W[n].job].remaining
        /\ ~(W[n].job = job /\ W[n].server \in S)

\* W2 is W without the keys K.
Shrinks(W, W2, K) == DOMAIN W2 = DOMAIN W \ K /\ \A n \in DOMAIN W2 : W2[n] = W[n]

\* An agent's request is no longer awaited.
LEMMA AgentTaken ==
    ASSUME NEW W, NEW W2, NEW J, NEW G, NEW n \in DOMAIN W, W[n].kind = "agent", Awaited(W, J, G, 0, {}), Shrinks(W, W2, {n})
    PROVE  Awaited(W2, J, G, 0, {})
PROOF
  <1>1. ASSUME NEW j \in DOMAIN J, NEW s \in J[j].remaining
        PROVE  \E m \in DOMAIN W2 : ListPage(W2[m], j, s)
    <2>1. PICK m \in DOMAIN W : ListPage(W[m], j, s)
      BY <1>1 DEF Awaited
    <2>2. m # n
      BY <2>1 DEF ListPage
    <2> QED BY <2>1, <2>2 DEF Shrinks
  <1> QED BY <1>1 DEF Awaited, Shrinks

\* A page has come: its listing owes one from that server.
LEMMA PageTaken ==
    ASSUME NEW W, NEW W2, NEW J, NEW G, NEW n \in DOMAIN W, W[n].kind = "list", Awaited(W, J, G, 0, {}), Shrinks(W, W2, {n})
    PROVE  Awaited(W2, J, G, W[n].job, {W[n].server})
PROOF
  <1>1. ASSUME NEW j \in DOMAIN J, NEW s \in J[j].remaining, ~(j = W[n].job /\ s \in {W[n].server})
        PROVE  \E m \in DOMAIN W2 : ListPage(W2[m], j, s)
    <2>1. PICK m \in DOMAIN W : ListPage(W[m], j, s)
      BY <1>1 DEF Awaited
    <2>2. m # n
      BY <1>1, <2>1 DEF ListPage
    <2> QED BY <2>1, <2>2 DEF Shrinks
  <1>2. ASSUME NEW m \in DOMAIN W2, W2[m].kind = "list"
        PROVE  /\ W2[m].job \in DOMAIN J /\ W2[m].server \in J[W2[m].job].remaining
               /\ ~(W2[m].job = W[n].job /\ W2[m].server \in {W[n].server})
    <2>1. m \in DOMAIN W /\ m # n /\ W2[m] = W[m]
      BY DEF Shrinks
    <2> QED BY <1>2, <2>1 DEF Awaited
  <1>3. \A a, b \in DOMAIN W2 :
            W2[a].kind = "list" /\ W2[b].kind = "list" /\ W2[a].job = W2[b].job /\ W2[a].server = W2[b].server => a = b
    BY DEF Awaited, Shrinks
  <1>4. \A a \in DOMAIN W2 : W2[a].server \notin G
    BY DEF Awaited, Shrinks
  <1>5. \A j \in DOMAIN J : J[j].remaining # {}
    BY DEF Awaited
  <1> QED BY <1>1, <1>2, <1>3, <1>4, <1>5 DEF Awaited

\* A request of an agent is awaited from a server that is there.
LEMMA AgentAdded ==
    ASSUME NEW W, NEW W2, NEW J, NEW G, NEW n, n \notin DOMAIN W, DOMAIN W2 = DOMAIN W \cup {n},
           \A m \in DOMAIN W : W2[m] = W[m], W2[n].kind = "agent", W2[n].server \notin G, Awaited(W, J, G, 0, {})
    PROVE  Awaited(W2, J, G, 0, {})
PROOF
  <1>1. ASSUME NEW j \in DOMAIN J, NEW s \in J[j].remaining
        PROVE  \E m \in DOMAIN W2 : ListPage(W2[m], j, s)
    <2>1. PICK m \in DOMAIN W : ListPage(W[m], j, s)
      BY <1>1 DEF Awaited
    <2> QED BY <2>1
  <1>2. \A m \in DOMAIN W2 : W2[m].kind = "list" => m \in DOMAIN W /\ W2[m] = W[m]
    OBVIOUS
  <1>3. \A m \in DOMAIN W2 : W2[m].server \notin G
    BY DEF Awaited
  <1>4. \A a, b \in DOMAIN W2 :
            W2[a].kind = "list" /\ W2[b].kind = "list" /\ W2[a].job = W2[b].job /\ W2[a].server = W2[b].server => a = b
    BY <1>2 DEF Awaited
  <1>5. \A m \in DOMAIN W2 : W2[m].kind = "list" => W2[m].job \in DOMAIN J /\ W2[m].server \in J[W2[m].job].remaining
    BY <1>2 DEF Awaited
  <1>6. \A j \in DOMAIN J : J[j].remaining # {}
    BY DEF Awaited
  <1> QED BY <1>1, <1>3, <1>4, <1>5, <1>6 DEF Awaited

\* W2 is W with one page of `job` awaited from each server of S, under the numbers N.
Asks(W, W2, N, job, S) ==
    /\ N \cap DOMAIN W = {}
    /\ DOMAIN W2 = DOMAIN W \cup N
    /\ \A m \in DOMAIN W : W2[m] = W[m]
    /\ \A n \in N : W2[n].kind = "list" /\ W2[n].job = job /\ W2[n].server \in S
    /\ \A n, m \in N : W2[n].server = W2[m].server => n = m
    /\ \A s \in S : \E n \in N : W2[n].server = s

\* The pages owed are asked for, one from each server.
LEMMA PagesAdded ==
    ASSUME NEW W, NEW W2, NEW J, NEW G, NEW job \in DOMAIN J, NEW S, NEW N, Asks(W, W2, N, job, S),
           S \subseteq J[job].remaining, S \cap G = {}, Awaited(W, J, G, job, S)
    PROVE  Awaited(W2, J, G, 0, {})
PROOF
  <1>1. ASSUME NEW j \in DOMAIN J, NEW s \in J[j].remaining
        PROVE  \E m \in DOMAIN W2 : ListPage(W2[m], j, s)
    <2>1. CASE j = job /\ s \in S
      BY <2>1 DEF ListPage, Asks
    <2>2. CASE ~(j = job /\ s \in S)
      <3>1. PICK m \in DOMAIN W : ListPage(W[m], j, s)
        BY <1>1, <2>2 DEF Awaited, Asks
      <3> QED BY <3>1 DEF Asks
    <2> QED BY <2>1, <2>2
  <1>2. \A m \in DOMAIN W2 : W2[m].server \notin G
    BY DEF Awaited, Asks
  <1>3. ASSUME NEW m \in DOMAIN W2, W2[m].kind = "list"
        PROVE  W2[m].job \in DOMAIN J /\ W2[m].server \in J[W2[m].job].remaining
    BY <1>3 DEF Awaited, Asks
  <1>4. ASSUME NEW a \in DOMAIN W2, NEW b \in DOMAIN W2, W2[a].kind = "list", W2[b].kind = "list",
               W2[a].job = W2[b].job, W2[a].server = W2[b].server
        PROVE  a = b
    <2>1. CASE a \in DOMAIN W /\ b \in DOMAIN W
      BY <1>4, <2>1 DEF Awaited, Asks
    <2>2. CASE a \in N /\ b \in N
      BY <1>4, <2>2 DEF Asks
    <2>3. CASE a \in DOMAIN W /\ b \in N
      BY <1>4, <2>3 DEF Awaited, Asks
    <2>4. CASE a \in N /\ b \in DOMAIN W
      BY <1>4, <2>4 DEF Awaited, Asks
    <2> QED BY <2>1, <2>2, <2>3, <2>4 DEF Asks
  <1>5. \A j \in DOMAIN J : J[j].remaining # {}
    BY DEF Awaited, Asks
  <1> QED BY <1>1, <1>2, <1>3, <1>4, <1>5 DEF Awaited, Asks

\* A listing begins, owing a page from each server it asks.
LEMMA JobAdded ==
    ASSUME NEW W, NEW J, NEW J2, NEW G, NEW job, job \notin DOMAIN J, DOMAIN J2 = DOMAIN J \cup {job},
           \A j \in DOMAIN J : J2[j].remaining = J[j].remaining, J2[job].remaining # {}, Awaited(W, J, G, 0, {})
    PROVE  Awaited(W, J2, G, job, J2[job].remaining)
PROOF
  <1>1. ASSUME NEW j \in DOMAIN J2 PROVE J2[j].remaining # {} /\ (j # job => j \in DOMAIN J /\ J2[j].remaining = J[j].remaining)
    BY DEF Awaited
  <1>2. \A j \in DOMAIN J2 : \A s \in J2[j].remaining :
            (j = job /\ s \in J2[job].remaining) \/ \E n \in DOMAIN W : ListPage(W[n], j, s)
    BY <1>1 DEF Awaited
  <1>3. \A n \in DOMAIN W : W[n].kind = "list" =>
            /\ W[n].job \in DOMAIN J2 /\ W[n].server \in J2[W[n].job].remaining
            /\ ~(W[n].job = job /\ W[n].server \in J2[job].remaining)
    BY DEF Awaited
  <1> QED BY <1>1, <1>2, <1>3 DEF Awaited

\* What a listing has gathered does not matter to what it awaits.
LEMMA JobFilled ==
    ASSUME NEW W, NEW J, NEW J2, NEW G, NEW job, NEW S, DOMAIN J2 = DOMAIN J,
           \A j \in DOMAIN J : J2[j].remaining = J[j].remaining, Awaited(W, J, G, job, S)
    PROVE  Awaited(W, J2, G, job, S)
BY DEF Awaited

\* The last page of a server has come, and other servers remain.
LEMMA ServerListed ==
    ASSUME NEW W, NEW J, NEW J2, NEW G, NEW job \in DOMAIN J, NEW s, DOMAIN J2 = DOMAIN J,
           \A j \in DOMAIN J : j # job => J2[j].remaining = J[j].remaining,
           J2[job].remaining = J[job].remaining \ {s}, J2[job].remaining # {}, Awaited(W, J, G, job, {s})
    PROVE  Awaited(W, J2, G, 0, {})
PROOF
  <1>1. ASSUME NEW j \in DOMAIN J2, NEW x \in J2[j].remaining PROVE \E n \in DOMAIN W : ListPage(W[n], j, x)
    BY DEF Awaited
  <1>2. \A j \in DOMAIN J2 : J2[j].remaining # {}
    BY DEF Awaited
  <1>3. ASSUME NEW n \in DOMAIN W, W[n].kind = "list" PROVE W[n].job \in DOMAIN J2 /\ W[n].server \in J2[W[n].job].remaining
    BY <1>3 DEF Awaited
  <1> QED BY <1>1, <1>2, <1>3 DEF Awaited

\* The last page of the last server has come.
LEMMA JobListed ==
    ASSUME NEW W, NEW J, NEW J2, NEW G, NEW job \in DOMAIN J, NEW s, Shrinks(J, J2, {job}),
           J[job].remaining \ {s} = {}, Awaited(W, J, G, job, {s})
    PROVE  Awaited(W, J2, G, 0, {})
PROOF
  <1>1. ASSUME NEW j \in DOMAIN J2, NEW x \in J2[j].remaining PROVE \E n \in DOMAIN W : ListPage(W[n], j, x)
    BY DEF Awaited, Shrinks
  <1>2. \A j \in DOMAIN J2 : J2[j].remaining # {}
    BY DEF Awaited, Shrinks
  <1>3. ASSUME NEW n \in DOMAIN W, W[n].kind = "list" PROVE W[n].job \in DOMAIN J2 /\ W[n].server \in J2[W[n].job].remaining
    BY <1>3 DEF Awaited, Shrinks
  <1> QED BY <1>1, <1>2, <1>3 DEF Awaited

\* W2 and J2 are W and J without the server s; `over` are the listings that
\* waited for nothing else.
Loses(W, W2, J, J2, s, touched, over) ==
    /\ Shrinks(W, W2, {n \in DOMAIN W : W[n].server = s})
    /\ touched = {j \in DOMAIN J : \E n \in DOMAIN W : ListPage(W[n], j, s)}
    /\ over = {j \in touched : J[j].remaining \ {s} = {}}
    /\ DOMAIN J2 = DOMAIN J \ over
    /\ \A j \in DOMAIN J2 : J2[j].remaining = IF j \in touched THEN J[j].remaining \ {s} ELSE J[j].remaining

\* A server is gone: nothing is awaited from it, no listing waits for it, and
\* the listings that waited for nothing else are over.
LEMMA ServerLost ==
    ASSUME NEW W, NEW W2, NEW J, NEW J2, NEW G, NEW s, NEW over, NEW touched,
           Loses(W, W2, J, J2, s, touched, over), Awaited(W, J, G, 0, {})
    PROVE  Awaited(W2, J2, G \cup {s}, 0, {})
PROOF
  <1> USE DEF Loses
  <1>0. ASSUME NEW j \in DOMAIN J2 PROVE j \in DOMAIN J /\ J2[j].remaining = J[j].remaining \ {s}
    <2>1. CASE j \in touched
      BY <2>1
    <2>2. CASE j \notin touched
      <3>1. j \in DOMAIN J /\ J2[j].remaining = J[j].remaining
        BY <2>2
      <3>2. s \notin J[j].remaining
        BY <2>2, <3>1 DEF Awaited
      <3> QED BY <3>1, <3>2
    <2> QED BY <2>1, <2>2
  <1>1. ASSUME NEW j \in DOMAIN J2, NEW x \in J2[j].remaining PROVE \E n \in DOMAIN W2 : ListPage(W2[n], j, x)
    <2>1. PICK n \in DOMAIN W : ListPage(W[n], j, x)
      BY <1>0, <1>1 DEF Awaited
    <2> QED BY <1>0, <1>1, <2>1 DEF Shrinks, ListPage
  <1>2. ASSUME NEW j \in DOMAIN J2 PROVE J2[j].remaining # {}
    BY <1>0 DEF Awaited
  <1>3. ASSUME NEW n \in DOMAIN W2, W2[n].kind = "list" PROVE W2[n].job \in DOMAIN J2 /\ W2[n].server \in J2[W2[n].job].remaining
    <2>1. n \in DOMAIN W /\ W2[n] = W[n] /\ W[n].server # s
      BY DEF Shrinks
    <2>2. W[n].job \in DOMAIN J /\ W[n].server \in J[W[n].job].remaining
      BY <1>3, <2>1 DEF Awaited
    <2>3. W[n].job \notin over
      BY <2>1, <2>2
    <2> QED BY <1>0, <2>1, <2>2, <2>3
  <1>4. \A a, b \in DOMAIN W2 :
            W2[a].kind = "list" /\ W2[b].kind = "list" /\ W2[a].job = W2[b].job /\ W2[a].server = W2[b].server => a = b
    BY DEF Awaited, Shrinks
  <1>5. \A n \in DOMAIN W2 : W2[n].server \notin G \cup {s}
    BY DEF Awaited, Shrinks
  <1> QED BY <1>1, <1>2, <1>3, <1>4, <1>5 DEF Awaited

(***************************************************************************)
(* The router's state, and what its operators return.                      *)
(***************************************************************************)
ToolsOK(f) == DOMAIN f \subseteq ServerSet /\ \A s \in DOMAIN f : IsSeq(f[s])
IsListing(l) ==
    /\ l \in [agent : {l.agent}, remaining : SUBSET ServerSet, tools : {l.tools}, pages : {l.pages}]
    /\ ToolsOK(l.tools)
IsWait(w) == w.kind \in {"list", "agent"} /\ w.server \in ServerSet

RouterShape(r) ==
    r \in [nextId : Nat \ {0}, nextJob : Nat \ {0}, waiting : {r.waiting}, jobs : {r.jobs}, gone : SUBSET ServerSet]
RouterTyped(r) ==
    /\ RouterShape(r)
    /\ DOMAIN r.waiting \subseteq 1..(r.nextId - 1)
    /\ DOMAIN r.jobs \subseteq 1..(r.nextJob - 1)
    /\ \A n \in DOMAIN r.waiting : IsWait(r.waiting[n])
    /\ \A j \in DOMAIN r.jobs : IsListing(r.jobs[j])
RouterOwes(r, job, S) == RouterTyped(r) /\ Awaited(r.waiting, r.jobs, r.gone, job, S)
RouterInv(r) == RouterOwes(r, 0, {})

\* Actions that go to the agent or to a server there is; listings to finish.
IsTarget(a) == a.to = "agent" \/ a.to \in ServerSet
ActsOK(acts) == \E T : acts \in Seq(T) /\ \A a \in T : IsTarget(a)
FinOK(fin) == \E T : fin \in Seq(T) /\ \A f \in T : ToolsOK(f.tools)
OutOK(o) == RouterInv(o.st) /\ ActsOK(o.acts) /\ FinOK(o.fin)

\* A sequence of addressed actions, by the set they are from.
LEMMA ActsIn ==
    ASSUME NEW T, NEW acts \in Seq(T), \A a \in T : IsTarget(a)
    PROVE  ActsOK(acts)
PROOF
  <1>1. acts \in Seq(T) /\ \A a \in T : IsTarget(a)
    OBVIOUS
  <1> QED BY <1>1, Zenon DEF ActsOK

\* A sequence of listings to finish, by the set they are from.
LEMMA FinIn ==
    ASSUME NEW T, NEW fin \in Seq(T), \A f \in T : ToolsOK(f.tools)
    PROVE  FinOK(fin)
PROOF
  <1>1. fin \in Seq(T) /\ \A f \in T : ToolsOK(f.tools)
    OBVIOUS
  <1> QED BY <1>1, Zenon DEF FinOK

\* Nothing to do.
LEMMA NoActs == ActsOK(<<>>) /\ FinOK(<<>>)
PROOF
  <1> DEFINE T == {}
  <1>1. <<>> \in Seq(T) /\ (\A a \in T : IsTarget(a)) /\ \A f \in T : ToolsOK(f.tools)
    OBVIOUS
  <1> HIDE DEF T
  <1> QED BY <1>1, ActsIn, FinIn

\* One action to perform.
LEMMA OneAct ==
    ASSUME NEW a, IsTarget(a)
    PROVE  ActsOK(<<a>>)
PROOF
  <1> DEFINE T == {a}
  <1>1. <<a>> \in Seq(T) /\ \A x \in T : IsTarget(x)
    OBVIOUS
  <1> HIDE DEF T
  <1> QED BY <1>1, ActsIn

\* As many actions as there are numbers up to n.
LEMMA ManyActs ==
    ASSUME NEW n \in Nat, NEW f, DOMAIN f = 1..n, f = [i \in 1..n |-> f[i]], \A i \in 1..n : IsTarget(f[i])
    PROVE  ActsOK(f)
PROOF
  <1> DEFINE T == {f[i] : i \in 1..n}
  <1>1. f \in Seq(T)
    OBVIOUS
  <1>2. \A a \in T : IsTarget(a)
    OBVIOUS
  <1> HIDE DEF T
  <1> QED BY <1>1, <1>2, ActsIn

\* One listing to finish.
LEMMA OneFin ==
    ASSUME NEW l, ToolsOK(l.tools)
    PROVE  FinOK(<<l>>)
PROOF
  <1> DEFINE T == {l}
  <1>1. <<l>> \in Seq(T) /\ \A f \in T : ToolsOK(f.tools)
    OBVIOUS
  <1> HIDE DEF T
  <1> QED BY <1>1, FinIn

\* Some servers are asked for a page each.
LEMMA PagesRequested ==
    ASSUME NEW r, NEW job, NEW servers \in Seq(ServerSet), NEW cursor,
           \A i, j \in 1..Len(servers) : servers[i] = servers[j] => i = j,
           job \in DOMAIN r.jobs, ToSet(servers) \subseteq r.jobs[job].remaining, ToSet(servers) \cap r.gone = {},
           RouterOwes(r, job, ToSet(servers))
    PROVE  /\ RouterInv(PageRequests(r, job, servers, cursor).st)
           /\ ActsOK(PageRequests(r, job, servers, cursor).acts)
           /\ PageRequests(r, job, servers, cursor).st.nextJob = r.nextJob
PROOF
  <1> DEFINE k == Len(servers)
             n(i) == r.nextId + i - 1
             N == {n(i) : i \in DOMAIN servers}
             page(server) == [kind |-> "list", job |-> job, id |-> NoId, origin |-> 0, server |-> server]
             W2 == [m \in DOMAIN r.waiting \cup N |-> IF m < r.nextId THEN r.waiting[m] ELSE page(servers[m - r.nextId + 1])]
             q == [r EXCEPT !.nextId = r.nextId + k, !.waiting = W2]
             acts == [i \in DOMAIN servers |->
                        ToUpstream(servers[i], [method |-> "list", id |-> n(i), tool |-> <<>>, ref |-> cursor, origin |-> 0])]
  <1>0. k \in Nat /\ DOMAIN servers = 1..k /\ \A i \in 1..k : servers[i] \in ServerSet
    OBVIOUS
  <1>1. r.nextId \in Nat /\ r.nextId # 0 /\ DOMAIN r.waiting \subseteq 1..(r.nextId - 1)
    BY DEF RouterOwes, RouterTyped, RouterShape
  <1>2. PageRequests(r, job, servers, cursor) = [st |-> q, acts |-> acts]
    BY DEF PageRequests
  <1>3. q.nextId = r.nextId + k /\ q.waiting = W2 /\ q.jobs = r.jobs /\ q.gone = r.gone /\ q.nextJob = r.nextJob /\ RouterShape(q)
    <2> HIDE DEF W2, k
    <2>1. r.nextId + k \in Nat \ {0}
      BY <1>0, <1>1
    <2> QED BY <2>1 DEF RouterOwes, RouterTyped, RouterShape
  <1>4. /\ N \subseteq r.nextId..(r.nextId + k - 1)
        /\ \A i \in 1..k : n(i) \in N /\ n(i) - r.nextId + 1 = i
        /\ \A m \in N : m - r.nextId + 1 \in 1..k /\ ~(m < r.nextId) /\ m = n(m - r.nextId + 1)
    BY <1>0, <1>1
  <1>5. /\ DOMAIN W2 = DOMAIN r.waiting \cup N
        /\ \A m \in DOMAIN r.waiting : W2[m] = r.waiting[m]
        /\ \A m \in N : W2[m] = page(servers[m - r.nextId + 1])
    BY <1>1, <1>4
  <1> HIDE DEF W2, N
  <1>6. N \cap DOMAIN r.waiting = {}
    BY <1>0, <1>1, <1>4
  <1>7. \A m \in N : W2[m].kind = "list" /\ W2[m].job = job /\ W2[m].server = servers[m - r.nextId + 1]
    BY <1>5
  <1>8. \A m \in N : W2[m].server \in ToSet(servers) /\ W2[m].server \in ServerSet
    BY <1>0, <1>4, <1>7 DEF ToSet
  <1>9. \A a, b \in N : W2[a].server = W2[b].server => a = b
    BY <1>0, <1>4, <1>7
  <1>10. ASSUME NEW s \in ToSet(servers) PROVE \E m \in N : W2[m].server = s
    <2>1. PICK i \in 1..k : servers[i] = s
      BY <1>0 DEF ToSet
    <2>2. n(i) \in N /\ n(i) - r.nextId + 1 = i
      BY <1>4
    <2>3. W2[n(i)].server = servers[n(i) - r.nextId + 1]
      BY <1>7, <2>2
    <2> QED BY <2>1, <2>2, <2>3
  <1>11. Awaited(W2, r.jobs, r.gone, 0, {})
    <2>1. Awaited(r.waiting, r.jobs, r.gone, job, ToSet(servers))
      BY DEF RouterOwes
    <2>2. Asks(r.waiting, W2, N, job, ToSet(servers))
      BY <1>5, <1>6, <1>7, <1>8, <1>9, <1>10 DEF Asks
    <2> QED BY <2>1, <2>2, PagesAdded
  <1>12. RouterTyped(q)
    <2>1. DOMAIN q.waiting \subseteq 1..(q.nextId - 1)
      BY <1>0, <1>1, <1>3, <1>4, <1>5
    <2>2. \A m \in DOMAIN q.waiting : IsWait(q.waiting[m])
      BY <1>3, <1>5, <1>7, <1>8 DEF RouterOwes, RouterTyped, IsWait
    <2> HIDE DEF q
    <2> QED BY <1>3, <2>1, <2>2 DEF RouterOwes, RouterTyped
  <1>13. ActsOK(acts)
    <2>1. \A i \in 1..k : acts[i].to = servers[i]
      BY <1>0 DEF ToUpstream
    <2>2. DOMAIN acts = 1..k /\ acts = [i \in 1..k |-> acts[i]]
      BY <1>0
    <2> HIDE DEF acts
    <2>3. \A i \in 1..k : IsTarget(acts[i])
      BY <1>0, <2>1 DEF IsTarget
    <2> QED BY <1>0, <2>2, <2>3, ManyActs
  <1> HIDE DEF q, acts
  <1> QED BY <1>2, <1>3, <1>11, <1>12, <1>13 DEF RouterInv, RouterOwes

\* A listing is begun of servers given once each.
LEMMA ListingStarted ==
    ASSUME NEW r, RouterInv(r), NEW agent, NEW servers \in Seq(ServerSet),
           \A i, j \in 1..Len(servers) : servers[i] = servers[j] => i = j
    PROVE  OutOK(StartListing(r, agent, servers))
PROOF
  <1> DEFINE live == Live(servers, r.gone)
             listing == [agent |-> agent, remaining |-> ToSet(live), tools |-> Empty, pages |-> 0]
             numbered == [r EXCEPT !.nextJob = @ + 1]
             J2 == Insert(numbered.jobs, r.nextJob, listing)
             q == [numbered EXCEPT !.jobs = J2]
             asked == PageRequests(q, r.nextJob, live, NoId)
  <1>1. StartListing(r, agent, servers) =
          IF live = <<>> THEN Out(numbered, <<>>, <<listing>>) ELSE Out(asked.st, asked.acts, <<>>)
    BY Zenon DEF StartListing
  <1>2. IsLive(live, servers, Len(servers), r.gone)
    BY LiveIs
  <1>3. live \in Seq(ServerSet) /\ Len(live) \in Nat /\ DOMAIN live = 1..Len(live)
    BY <1>2 DEF IsLive
  <1> HIDE DEF live
  <1>4. ToSet(live) \subseteq ServerSet /\ ToSet(live) \cap r.gone = {}
    <2>1. ASSUME NEW s \in ToSet(live) PROVE s \in ServerSet /\ s \notin r.gone
      <3>1. PICK i \in 1..Len(live) : s = live[i]
        BY <1>3, <2>1 DEF ToSet
      <3> QED BY <1>2, <1>3, <3>1 DEF IsLive
    <2> QED BY <2>1
  <1>5. IsListing(listing) /\ listing.remaining = ToSet(live) /\ ToolsOK(listing.tools)
    BY <1>4 DEF IsListing, ToolsOK, Empty
  <1>6. /\ r.nextJob \in Nat \ {0} /\ r.nextJob \notin DOMAIN r.jobs /\ DOMAIN r.jobs \subseteq 1..(r.nextJob - 1)
        /\ Awaited(r.waiting, r.jobs, r.gone, 0, {}) /\ RouterTyped(r)
    BY DEF RouterInv, RouterOwes, RouterTyped, RouterShape
  <1> HIDE DEF listing
  <1>7. CASE live = <<>>
    <2>1. RouterTyped(numbered) /\ numbered.waiting = r.waiting /\ numbered.jobs = r.jobs /\ numbered.gone = r.gone
      BY <1>6 DEF RouterTyped, RouterShape
    <2> HIDE DEF numbered
    <2>2. RouterInv(numbered)
      BY <1>6, <2>1 DEF RouterInv, RouterOwes
    <2>3. FinOK(<<listing>>) /\ ActsOK(<<>>)
      BY <1>5, OneFin, NoActs
    <2> QED BY <1>1, <1>7, <2>2, <2>3 DEF OutOK, Out
  <1>8. CASE live # <<>>
    <2>1. /\ DOMAIN J2 = DOMAIN r.jobs \cup {r.nextJob} /\ J2[r.nextJob] = listing
          /\ \A j \in DOMAIN r.jobs : j # r.nextJob /\ J2[j] = r.jobs[j]
      <3>1. numbered.jobs = r.jobs
        BY <1>6 DEF RouterTyped, RouterShape
      <3> HIDE DEF numbered
      <3> QED BY <1>6, <3>1 DEF Insert
    <2> HIDE DEF J2
    <2>2. ToSet(live) # {}
      <3>1. 1 \in DOMAIN live
        BY <1>3, <1>8
      <3> QED BY <3>1 DEF ToSet
    <2>3. Awaited(r.waiting, J2, r.gone, r.nextJob, ToSet(live))
      <3>1. /\ r.nextJob \notin DOMAIN r.jobs /\ J2[r.nextJob].remaining = ToSet(live)
            /\ \A j \in DOMAIN r.jobs : J2[j].remaining = r.jobs[j].remaining
        BY <1>5, <1>6, <2>1
      <3>2. Awaited(r.waiting, J2, r.gone, r.nextJob, J2[r.nextJob].remaining)
        BY <1>6, <2>1, <2>2, <3>1, JobAdded
      <3> QED BY <3>1, <3>2
    <2>4. /\ q.waiting = r.waiting /\ q.jobs = J2 /\ q.gone = r.gone /\ q.nextJob = r.nextJob + 1
          /\ q.nextId = r.nextId /\ RouterShape(q)
      <3>1. /\ numbered.waiting = r.waiting /\ numbered.gone = r.gone /\ numbered.nextJob = r.nextJob + 1
            /\ numbered.nextId = r.nextId /\ RouterShape(numbered)
        BY <1>6 DEF RouterTyped, RouterShape
      <3> HIDE DEF numbered
      <3> QED BY <3>1 DEF RouterShape
    <2> HIDE DEF q
    <2>5. RouterOwes(q, r.nextJob, ToSet(live))
      <3>1. DOMAIN q.jobs \subseteq 1..(q.nextJob - 1)
        BY <1>6, <2>1, <2>4
      <3>2. \A j \in DOMAIN q.jobs : IsListing(q.jobs[j])
        BY <1>5, <1>6, <2>1, <2>4 DEF RouterTyped
      <3> QED BY <1>6, <2>3, <2>4, <3>1, <3>2 DEF RouterOwes, RouterTyped
    <2>6. RouterInv(asked.st) /\ ActsOK(asked.acts)
      <3>1. r.nextJob \in DOMAIN q.jobs /\ ToSet(live) \subseteq q.jobs[r.nextJob].remaining /\ ToSet(live) \cap q.gone = {}
        BY <1>4, <1>5, <2>1, <2>4
      <3>2. \A i, j \in 1..Len(live) : live[i] = live[j] => i = j
        BY <1>2 DEF IsLive
      <3> QED BY <1>3, <2>5, <3>1, <3>2, PagesRequested
    <2> HIDE DEF asked
    <2> QED BY <1>1, <1>8, <2>6, NoActs DEF OutOK, Out
  <1> QED BY <1>7, <1>8

\* What an operator of the router returns.
LEMMA OutBy ==
    ASSUME NEW r, RouterInv(r), NEW acts, ActsOK(acts), NEW fin, FinOK(fin)
    PROVE  OutOK(Out(r, acts, fin))
BY DEF OutOK, Out

\* Each server is given once, and the default one is among them.
LEMMA ServersOnce ==
    /\ Servers \in Seq(ServerSet) /\ ServerSet # {} /\ Only \in ServerSet
    /\ \A i, j \in 1..Len(Servers) : Servers[i] = Servers[j] => i = j
    /\ \A s \in ServerSet : \E i \in 1..Len(Servers) : Servers[i] = s
    /\ Default \subseteq ServerSet
PROOF
  <1>1. Servers \in Seq(ServerSet) /\ Servers # <<>> /\ Default \subseteq ServerSet
    BY RouterAssumption DEF ServerSet
  <1>2. \A i, j \in 1..Len(Servers) : Servers[i] = Servers[j] => i = j
    BY <1>1, RouterAssumption DEF IsInjective
  <1>3. DOMAIN Servers = 1..Len(Servers) /\ 1 \in 1..Len(Servers) /\ Servers[1] \in ServerSet
    BY <1>1
  <1>4. \A s \in ServerSet : \E i \in 1..Len(Servers) : Servers[i] = s
    BY <1>3 DEF ServerSet, ToSet
  <1> QED BY <1>1, <1>2, <1>3, <1>4 DEF Only

\* A message is routed to one server.
LEMMA SentRouted ==
    ASSUME NEW r, RouterInv(r), NEW server \in ServerSet, NEW msg
    PROVE  OutOK(SendRouted(r, server, msg))
PROOF
  <1> DEFINE back == ToAgent(Reply(msg.id, "upstream_unavailable", msg.origin))
             w == [kind |-> "agent", job |-> 0, id |-> msg.id, origin |-> msg.origin, server |-> server]
             W2 == Insert(r.waiting, r.nextId, w)
             q == [r EXCEPT !.nextId = @ + 1, !.waiting = W2]
             forth == ToUpstream(server, [msg EXCEPT !.id = r.nextId])
  <1>1. CASE server \in r.gone
    <2>1. ActsOK(<<back>>)
      <3>1. IsTarget(back)
        BY DEF ToAgent, IsTarget
      <3> QED BY <3>1, OneAct
    <2>2. SendRouted(r, server, msg) = Out(r, IF msg.id = NoId THEN <<>> ELSE <<back>>, <<>>)
      BY <1>1 DEF SendRouted
    <2> HIDE DEF back
    <2> QED BY <2>1, <2>2, OutBy, NoActs
  <1>2. CASE server \notin r.gone /\ msg.id = NoId
    <2>1. IsTarget(ToUpstream(server, msg))
      BY DEF ToUpstream, IsTarget
    <2>2. SendRouted(r, server, msg) = Out(r, <<ToUpstream(server, msg)>>, <<>>)
      BY <1>2 DEF SendRouted
    <2> QED BY <2>1, <2>2, OneAct, OutBy, NoActs
  <1>3. CASE server \notin r.gone /\ msg.id # NoId
    <2>1. SendRouted(r, server, msg) = Out(q, <<forth>>, <<>>)
      BY <1>3 DEF SendRouted
    <2>2. IsTarget(forth)
      BY DEF ToUpstream, IsTarget
    <2>3. /\ r.nextId \in Nat \ {0} /\ DOMAIN r.waiting \subseteq 1..(r.nextId - 1) /\ RouterTyped(r)
          /\ Awaited(r.waiting, r.jobs, r.gone, 0, {})
      BY DEF RouterInv, RouterOwes, RouterTyped, RouterShape
    <2>4. /\ r.nextId \notin DOMAIN r.waiting /\ DOMAIN W2 = DOMAIN r.waiting \cup {r.nextId} /\ W2[r.nextId] = w
          /\ \A m \in DOMAIN r.waiting : W2[m] = r.waiting[m]
      BY <2>3 DEF Insert
    <2>5. w.kind = "agent" /\ w.server = server /\ IsWait(w)
      BY DEF IsWait
    <2> HIDE DEF W2, w, forth
    <2>6. q.nextId = r.nextId + 1 /\ q.waiting = W2 /\ q.jobs = r.jobs /\ q.gone = r.gone /\ q.nextJob = r.nextJob /\ RouterShape(q)
      <3>1. r.nextId + 1 \in Nat \ {0} /\ RouterShape(r)
        BY <2>3 DEF RouterTyped
      <3> QED BY <3>1 DEF RouterShape
    <2> HIDE DEF q
    <2>7. Awaited(W2, r.jobs, r.gone, 0, {})
      <3>1. W2[r.nextId].kind = "agent" /\ W2[r.nextId].server \notin r.gone
        BY <1>3, <2>4, <2>5
      <3> QED BY <2>3, <2>4, <3>1, AgentAdded
    <2>8. DOMAIN q.waiting \subseteq 1..(q.nextId - 1) /\ \A n \in DOMAIN q.waiting : IsWait(q.waiting[n])
      BY <2>3, <2>4, <2>5, <2>6 DEF RouterTyped
    <2>9. RouterInv(q)
      BY <2>3, <2>6, <2>7, <2>8 DEF RouterInv, RouterOwes, RouterTyped
    <2> QED BY <2>1, <2>2, <2>9, OneAct, OutBy, NoActs
  <1> QED BY <1>1, <1>2, <1>3

\* A cancellation, and a notification.
LEMMA Notified ==
    ASSUME NEW r, RouterInv(r), NEW msg
    PROVE  OutOK(Cancel(r, msg)) /\ OutOK(Broadcast(r, msg))
PROOF
  <1>1. OutOK(Cancel(r, msg))
    <2> DEFINE found == {n \in DOMAIN r.waiting : r.waiting[n].kind = "agent" /\ r.waiting[n].id = msg.ref}
               n == CHOOSE n \in found : TRUE
               act == ToUpstream(r.waiting[n].server, [msg EXCEPT !.ref = n])
    <2>1. Cancel(r, msg) = Out(r, IF found = {} THEN <<>> ELSE <<act>>, <<>>)
      BY DEF Cancel
    <2>2. CASE found = {}
      BY <2>1, <2>2, OutBy, NoActs
    <2>3. CASE found # {}
      <3>1. n \in DOMAIN r.waiting
        BY <2>3
      <3> HIDE DEF n
      <3>2. IsTarget(act)
        BY <3>1 DEF IsTarget, ToUpstream, RouterInv, RouterOwes, RouterTyped, IsWait
      <3> HIDE DEF act, found
      <3> QED BY <2>1, <2>3, <3>2, OneAct, OutBy, NoActs
    <2> QED BY <2>2, <2>3
  <1>2. OutOK(Broadcast(r, msg))
    <2> DEFINE live == Live(Servers, r.gone)
               acts == [i \in DOMAIN live |-> ToUpstream(live[i], msg)]
    <2>1. Broadcast(r, msg) = Out(r, acts, <<>>)
      BY DEF Broadcast
    <2>2. live \in Seq(ServerSet)
      BY LiveIs, ServersOnce DEF IsLive
    <2> HIDE DEF live
    <2>3. Len(live) \in Nat /\ DOMAIN acts = 1..Len(live) /\ acts = [i \in 1..Len(live) |-> acts[i]]
      BY <2>2
    <2>4. \A i \in 1..Len(live) : IsTarget(acts[i])
      BY <2>2 DEF IsTarget, ToUpstream
    <2> HIDE DEF acts
    <2>5. ActsOK(acts)
      BY <2>3, <2>4, ManyActs
    <2> QED BY <2>1, <2>5, OutBy, NoActs
  <1> QED BY <1>1, <1>2

\* A message the gate let through is answered or sent on.
LEMMA Dispatched ==
    ASSUME NEW r, RouterInv(r), NEW c, CatalogOK(c), NEW msg, msg.method \in Methods
    PROVE  OutOK(Dispatch(r, c, msg))
PROOF
  <1> DEFINE answer(what) == Out(r, <<ToAgent(Reply(msg.id, what, msg.origin))>>, <<>>)
  <1>1. \A what : OutOK(answer(what))
    <2>1. \A what : IsTarget(ToAgent(Reply(msg.id, what, msg.origin)))
      BY DEF IsTarget, ToAgent
    <2> QED BY <2>1, OneAct, OutBy, NoActs
  <1>2. CASE msg.method \in {"initialize", "ping"}
    <2>1. Dispatch(r, c, msg) = answer("result")
      BY <1>2 DEF Dispatch
    <2> HIDE DEF answer
    <2> QED BY <1>1, <2>1
  <1>3. CASE msg.method = "list"
    <2>1. Dispatch(r, c, msg) = StartListing(r, [id |-> msg.id, origin |-> msg.origin], Servers)
      BY <1>3 DEF Dispatch
    <2> QED BY <2>1, ListingStarted, ServersOnce
  <1>4. CASE msg.method = "call" /\ RouteOf(c, msg.tool) = {}
    <2>1. Dispatch(r, c, msg) = answer("tool_unavailable")
      BY <1>4 DEF Dispatch
    <2> HIDE DEF answer
    <2> QED BY <1>1, <2>1
  <1>5. CASE msg.method = "call" /\ RouteOf(c, msg.tool) # {}
    <2> DEFINE owner == CHOOSE o \in RouteOf(c, msg.tool) : TRUE
    <2>1. Dispatch(r, c, msg) = SendRouted(r, owner[1], [msg EXCEPT !.tool = owner[2]])
      BY <1>5 DEF Dispatch
    <2>2. owner[1] \in ServerSet
      <3>1. owner \in RouteOf(c, msg.tool)
        BY <1>5
      <3> HIDE DEF owner
      <3> QED BY <3>1 DEF RouteOf, CatalogOK
    <2> HIDE DEF owner
    <2> QED BY <2>1, <2>2, SentRouted
  <1>6. CASE msg.method \in {"cancelled", "notification"}
    <2>1. Dispatch(r, c, msg) \in {Cancel(r, msg), Broadcast(r, msg)}
      BY <1>6 DEF Dispatch
    <2> QED BY <2>1, Notified
  <1>7. CASE msg.method = "other" /\ Default = {}
    <2>1. Dispatch(r, c, msg) = answer("method_not_found")
      BY <1>7 DEF Dispatch
    <2> HIDE DEF answer
    <2> QED BY <1>1, <2>1
  <1>8. CASE msg.method = "other" /\ Default # {}
    <2> DEFINE d == CHOOSE s \in Default : TRUE
    <2>1. Dispatch(r, c, msg) = SendRouted(r, d, msg)
      BY <1>8 DEF Dispatch
    <2>2. d \in ServerSet
      BY <1>8, ServersOnce
    <2> HIDE DEF d
    <2> QED BY <2>1, <2>2, SentRouted
  <1> QED BY <1>2, <1>3, <1>4, <1>5, <1>6, <1>7, <1>8 DEF Methods

\* A page, or an error in its place: what it lists is a sequence.
IsPage(page) == IsSeq(page.tools)

\* Tools of one page after those of another.
LEMMA Concatenated ==
    ASSUME NEW s, NEW t, IsSeq(s), IsSeq(t)
    PROVE  IsSeq(s \o t)
PROOF
  <1>1. PICK S : s \in Seq(S)
    BY DEF IsSeq
  <1>2. PICK T : t \in Seq(T)
    BY DEF IsSeq
  <1>3. s \in Seq(S \cup T) /\ t \in Seq(S \cup T)
    BY <1>1, <1>2
  <1>4. s \o t \in Seq(S \cup T)
    BY <1>3
  <1> QED BY <1>4, Zenon DEF IsSeq

\* A page for a listing that owes one from that server.
LEMMA PageCame ==
    ASSUME NEW r, NEW job, NEW server \in ServerSet, NEW page, IsPage(page),
           job \in DOMAIN r.jobs, server \in r.jobs[job].remaining, server \notin r.gone, RouterOwes(r, job, {server})
    PROVE  OutOK(OnPage(r, job, server, page))
PROOF
  <1> DEFINE old == r.jobs[job]
             so_far == IF server \in DOMAIN old.tools THEN old.tools[server] ELSE <<>>
             tools == IF page.kind = "error" THEN Forget(old.tools, {server})
                      ELSE Insert(old.tools, server, so_far \o page.tools)
             more == page.more /\ old.pages + 1 < MaxPages * Len(Servers)
             left == IF more THEN old.remaining ELSE old.remaining \ {server}
             listing == [old EXCEPT !.pages = @ + 1, !.tools = tools, !.remaining = IF more THEN @ ELSE @ \ {server}]
             updated == [r EXCEPT !.jobs[job] = listing]
             asked == PageRequests(updated, job, <<server>>, NextPage)
             over == [r EXCEPT !.jobs = Forget(@, {job})]
  <1>1. OnPage(r, job, server, page) =
            CASE more -> Out(asked.st, asked.acts, <<>>)
              [] ~more /\ listing.remaining # {} -> Out(updated, <<>>, <<>>)
              [] OTHER -> Out(over, <<>>, <<listing>>)
    BY Zenon DEF OnPage
  <1>2. IsListing(old) /\ RouterTyped(r) /\ Awaited(r.waiting, r.jobs, r.gone, job, {server})
    BY DEF RouterOwes, RouterTyped
  <1>3. ToolsOK(tools)
    <2>1. ToolsOK(old.tools)
      BY <1>2 DEF IsListing
    <2> HIDE DEF old
    <2>2. IsSeq(so_far)
      <3>1. IsSeq(<<>>)
        <4>1. <<>> \in Seq({})
          OBVIOUS
        <4> QED BY <4>1, Zenon DEF IsSeq
      <3> QED BY <2>1, <3>1 DEF ToolsOK
    <2> HIDE DEF so_far
    <2>3. IsSeq(so_far \o page.tools)
      BY <2>2, Concatenated DEF IsPage
    <2>4. CASE page.kind = "error"
      <3>1. DOMAIN tools \subseteq DOMAIN old.tools /\ \A s \in DOMAIN tools : tools[s] = old.tools[s]
        BY <2>4 DEF Forget, Restrict
      <3> HIDE DEF tools
      <3> QED BY <2>1, <3>1 DEF ToolsOK
    <2>5. CASE page.kind # "error"
      <3>1. /\ DOMAIN tools = DOMAIN old.tools \cup {server} /\ tools[server] = so_far \o page.tools
            /\ \A s \in DOMAIN old.tools : s # server => tools[s] = old.tools[s]
        BY <2>5 DEF Insert
      <3> HIDE DEF tools
      <3> QED BY <2>1, <2>3, <3>1 DEF ToolsOK
    <2> QED BY <2>4, <2>5
  <1> HIDE DEF tools, more
  <1>4. IsListing(listing) /\ listing.remaining = left /\ listing.tools = tools
    BY <1>2, <1>3 DEF IsListing
  <1> HIDE DEF listing
  <1>5. /\ RouterShape(updated) /\ updated.waiting = r.waiting /\ updated.gone = r.gone /\ updated.nextJob = r.nextJob
        /\ updated.nextId = r.nextId /\ DOMAIN updated.jobs = DOMAIN r.jobs /\ updated.jobs[job] = listing
        /\ \A j \in DOMAIN r.jobs : j # job => updated.jobs[j] = r.jobs[j]
    BY <1>2 DEF RouterTyped, RouterShape
  <1> HIDE DEF updated, old
  <1>6. RouterTyped(updated)
    <2>1. \A j \in DOMAIN updated.jobs : IsListing(updated.jobs[j])
      BY <1>2, <1>4, <1>5 DEF RouterTyped
    <2> QED BY <1>2, <1>5, <2>1 DEF RouterTyped
  <1>7. CASE more
    <2>1. \A j \in DOMAIN r.jobs : updated.jobs[j].remaining = r.jobs[j].remaining
      BY <1>4, <1>5, <1>7 DEF old
    <2>2. Awaited(r.waiting, updated.jobs, r.gone, job, {server})
      BY <1>2, <1>5, <2>1, JobFilled
    <2>3. ToSet(<<server>>) = {server} /\ <<server>> \in Seq(ServerSet) /\ \A i, j \in 1..Len(<<server>>) : i = j
      BY DEF ToSet
    <2>4. RouterOwes(updated, job, ToSet(<<server>>))
      BY <1>5, <1>6, <2>2, <2>3 DEF RouterOwes
    <2>5. RouterInv(asked.st) /\ ActsOK(asked.acts)
      <3> DEFINE servers == <<server>>
      <3>1. /\ servers \in Seq(ServerSet) /\ \A i, j \in 1..Len(servers) : servers[i] = servers[j] => i = j
            /\ ToSet(servers) \subseteq updated.jobs[job].remaining /\ ToSet(servers) \cap updated.gone = {}
            /\ RouterOwes(updated, job, ToSet(servers)) /\ job \in DOMAIN updated.jobs
        BY <1>5, <2>1, <2>3, <2>4
      <3> HIDE DEF servers
      <3>2. RouterInv(PageRequests(updated, job, servers, NextPage).st) /\ ActsOK(PageRequests(updated, job, servers, NextPage).acts)
        BY <3>1, PagesRequested
      <3> QED BY <3>2 DEF servers
    <2> HIDE DEF asked
    <2> QED BY <1>1, <1>7, <2>5, OutBy, NoActs
  <1>8. CASE ~more /\ listing.remaining # {}
    <2>1. Awaited(r.waiting, updated.jobs, r.gone, 0, {})
      <3> DEFINE J2 == updated.jobs
      <3>1. /\ J2[job].remaining = r.jobs[job].remaining \ {server} /\ J2[job].remaining # {} /\ DOMAIN J2 = DOMAIN r.jobs
            /\ \A j \in DOMAIN r.jobs : j # job => J2[j].remaining = r.jobs[j].remaining
        BY <1>4, <1>5, <1>8 DEF old
      <3> HIDE DEF J2
      <3>2. Awaited(r.waiting, J2, r.gone, 0, {})
        BY <1>2, <3>1, ServerListed
      <3> QED BY <3>2 DEF J2
    <2>2. RouterInv(updated)
      BY <1>5, <1>6, <2>1 DEF RouterInv, RouterOwes
    <2> HIDE DEF asked, over
    <2> QED BY <1>1, <1>8, <2>2, OutBy, NoActs
  <1>9. CASE ~more /\ listing.remaining = {}
    <2> DEFINE J2 == Forget(r.jobs, {job})
    <2>1. Shrinks(r.jobs, J2, {job})
      BY DEF Forget, Restrict, Shrinks
    <2> HIDE DEF J2
    <2>2. RouterShape(over) /\ over.waiting = r.waiting /\ over.gone = r.gone /\ over.nextJob = r.nextJob /\ over.nextId = r.nextId /\ over.jobs = J2
      BY <1>2 DEF RouterTyped, RouterShape, J2
    <2> HIDE DEF over
    <2>3. Awaited(r.waiting, J2, r.gone, 0, {})
      BY <1>2, <1>4, <1>9, <2>1, JobListed DEF old
    <2>4. RouterTyped(over)
      BY <1>2, <2>1, <2>2 DEF RouterTyped, Shrinks
    <2>5. RouterInv(over)
      BY <2>2, <2>3, <2>4 DEF RouterInv, RouterOwes
    <2>6. FinOK(<<listing>>)
      BY <1>3, <1>4, OneFin
    <2> HIDE DEF asked
    <2> QED BY <1>1, <1>9, <2>5, <2>6, OutBy, NoActs
  <1> QED BY <1>7, <1>8, <1>9

\* A reply under a number of the gate, or an error in its place.
LEMMA ReplyTaken ==
    ASSUME NEW r, RouterInv(r), NEW n, NEW relayed, NEW page, IsPage(page)
    PROVE  OutOK(TakeReply(r, n, relayed, page))
PROOF
  <1> DEFINE w == r.waiting[n]
             W2 == Forget(r.waiting, {n})
             rest == [r EXCEPT !.waiting = Forget(@, {n})]
             act == ToAgent([relayed EXCEPT !.id = w.id])
  <1>1. CASE n \notin DOMAIN r.waiting
    <2>1. TakeReply(r, n, relayed, page) = Out(r, <<>>, <<>>)
      BY <1>1 DEF TakeReply
    <2> QED BY <2>1, OutBy, NoActs
  <1>2. CASE n \in DOMAIN r.waiting
    <2>1. TakeReply(r, n, relayed, page) =
            IF w.kind = "agent" THEN Out(rest, <<act>>, <<>>) ELSE OnPage(rest, w.job, w.server, page)
      BY <1>2 DEF TakeReply
    <2>2. RouterTyped(r) /\ Awaited(r.waiting, r.jobs, r.gone, 0, {}) /\ IsWait(w)
      BY <1>2 DEF RouterInv, RouterOwes, RouterTyped
    <2>3. Shrinks(r.waiting, W2, {n})
      BY DEF Shrinks, Forget, Restrict
    <2> HIDE DEF W2
    <2>4. RouterShape(rest) /\ rest.waiting = W2 /\ rest.gone = r.gone /\ rest.nextJob = r.nextJob /\ rest.nextId = r.nextId /\ rest.jobs = r.jobs
      BY <2>2 DEF RouterTyped, RouterShape, W2
    <2> HIDE DEF rest
    <2>5. RouterTyped(rest)
      BY <2>2, <2>3, <2>4 DEF RouterTyped, Shrinks
    <2>6. CASE w.kind = "agent"
      <3>1. RouterInv(rest)
        <4>1. Awaited(W2, r.jobs, r.gone, 0, {})
          BY <1>2, <2>2, <2>3, <2>6, AgentTaken
        <4> QED BY <2>4, <2>5, <4>1 DEF RouterInv, RouterOwes
      <3>2. IsTarget(act)
        BY DEF IsTarget, ToAgent
      <3> HIDE DEF act, w
      <3> QED BY <2>1, <2>6, <3>1, <3>2, OneAct, OutBy, NoActs
    <2>7. CASE w.kind = "list"
      <3>1. Awaited(W2, r.jobs, r.gone, w.job, {w.server})
        BY <1>2, <2>2, <2>3, <2>7, PageTaken
      <3>2. RouterOwes(rest, w.job, {w.server})
        BY <2>4, <2>5, <3>1 DEF RouterOwes
      <3>3. w.server \in ServerSet /\ w.job \in DOMAIN rest.jobs /\ w.server \in rest.jobs[w.job].remaining /\ w.server \notin rest.gone
        BY <1>2, <2>2, <2>4, <2>7 DEF Awaited, IsWait
      <3> HIDE DEF w
      <3>4. OutOK(OnPage(rest, w.job, w.server, page))
        BY <3>2, <3>3, PageCame
      <3> QED BY <2>1, <2>7, <3>4
    <2> QED BY <2>2, <2>6, <2>7 DEF IsWait
  <1> QED BY <1>1, <1>2

\* A line of a server: its page is one, whatever else it says.
IsLine(line) == line.what \in {"request", "list_changed", "notification", "reply"} /\ IsPage(line.page)

\* One more action.
LEMMA Appended ==
    ASSUME NEW acts, ActsOK(acts), NEW a, IsTarget(a)
    PROVE  ActsOK(Append(acts, a))
PROOF
  <1>1. PICK T : acts \in Seq(T) /\ \A x \in T : IsTarget(x)
    BY DEF ActsOK
  <1> DEFINE S == T \cup {a}
  <1>2. acts \in Seq(S) /\ \A x \in S : IsTarget(x)
    BY <1>1
  <1>3. a \in S
    OBVIOUS
  <1> HIDE DEF S
  <1>4. Append(acts, a) \in Seq(S)
    BY <1>2, <1>3
  <1> QED BY <1>2, <1>4, ActsIn

\* on_routed_line: whatever a server says, the router's books are kept.
LEMMA LineRouted ==
    ASSUME NEW r, RouterInv(r), NEW server \in ServerSet, NEW line, IsLine(line)
    PROVE  OutOK(OnRoutedLine(r, server, line))
PROOF
  <1>1. CASE line.what = "request"
    <2> DEFINE act == ToUpstream(server, [method |-> "refusal", id |-> NoId, tool |-> <<>>, ref |-> NoId, origin |-> 0])
    <2>1. OnRoutedLine(r, server, line) = Out(r, <<act>>, <<>>)
      BY <1>1 DEF OnRoutedLine
    <2>2. IsTarget(act)
      BY DEF IsTarget, ToUpstream
    <2> HIDE DEF act
    <2> QED BY <2>1, <2>2, OneAct, OutBy, NoActs
  <1>2. CASE line.what = "list_changed"
    <2> DEFINE listing == StartListing(r, NoAgent, <<server>>)
    <2>1. OnRoutedLine(r, server, line) = [listing EXCEPT !.acts = Append(@, ToAgent(Notice))]
      BY <1>2 DEF OnRoutedLine
    <2>2. OutOK(listing)
      <3> DEFINE servers == <<server>>
      <3>1. servers \in Seq(ServerSet) /\ \A i, j \in 1..Len(servers) : servers[i] = servers[j] => i = j
        OBVIOUS
      <3> HIDE DEF servers
      <3>2. OutOK(StartListing(r, NoAgent, servers))
        BY <3>1, ListingStarted
      <3> QED BY <3>2 DEF servers
    <2>3. listing \in [st : {listing.st}, acts : {listing.acts}, fin : {listing.fin}]
      BY DEF StartListing, Out
    <2>4. IsTarget(ToAgent(Notice))
      BY DEF IsTarget, ToAgent
    <2> HIDE DEF listing
    <2>5. ActsOK(Append(listing.acts, ToAgent(Notice)))
      BY <2>2, <2>4, Appended DEF OutOK
    <2> QED BY <2>1, <2>2, <2>3, <2>5 DEF OutOK
  <1>3. CASE line.what = "notification"
    <2>1. OnRoutedLine(r, server, line) = Out(r, <<ToAgent(Notice)>>, <<>>)
      BY <1>3 DEF OnRoutedLine
    <2>2. IsTarget(ToAgent(Notice))
      BY DEF IsTarget, ToAgent
    <2> QED BY <2>1, <2>2, OneAct, OutBy, NoActs
  <1>4. CASE line.what = "reply"
    <2>1. OnRoutedLine(r, server, line) = TakeReply(r, line.id, Reply(line.id, "result", line.origin), line.page)
      BY <1>4 DEF OnRoutedLine
    <2> QED BY <2>1, ReplyTaken DEF IsLine
  <1> QED BY <1>1, <1>2, <1>3, <1>4 DEF IsLine

\* A message the transport could not deliver.
LEMMA ErrorRouted ==
    ASSUME NEW r, RouterInv(r), NEW msg
    PROVE  OutOK(OnRoutedError(r, msg))
PROOF
  <1>1. IsPage(ErrorPage)
    <2>1. <<>> \in Seq({}) /\ ErrorPage.tools = <<>>
      BY DEF ErrorPage
    <2> QED BY <2>1, Zenon DEF IsPage, IsSeq
  <1>2. CASE msg.id = NoId \/ msg.id \notin DOMAIN r.waiting
    <2>1. OnRoutedError(r, msg) = Out(r, <<>>, <<>>)
      BY <1>2 DEF OnRoutedError
    <2> QED BY <2>1, OutBy, NoActs
  <1>3. CASE ~(msg.id = NoId \/ msg.id \notin DOMAIN r.waiting)
    <2>1. OnRoutedError(r, msg) = TakeReply(r, msg.id, Reply(msg.id, "upstream_unavailable", r.waiting[msg.id].origin), ErrorPage)
      BY <1>3 DEF OnRoutedError
    <2> QED BY <1>1, <2>1, ReplyTaken
  <1> QED BY <1>2, <1>3

\* A finite set as a sequence.
LEMMA SetToSeqIs ==
    ASSUME NEW S, IsFiniteSet(S)
    PROVE  SetToSeq(S) \in Seq(S)
PROOF
  <1>1. Cardinality(S) \in Nat /\ ExistsBijection(1..Cardinality(S), S)
    BY FS_CardinalityType
  <1>2. PICK f \in [1..Cardinality(S) -> S] : IsInjective(f)
    BY <1>1 DEF ExistsBijection, Bijection, Injection
  <1>3. SetToSeq(S) \in [1..Cardinality(S) -> S]
    BY <1>2, Zenon DEF SetToSeq
  <1> QED BY <1>1, <1>3

\* A server is gone: what it left is answered, what only waited for it is finished.
LEMMA GoneRouted ==
    ASSUME NEW r, RouterInv(r), NEW server \in ServerSet
    PROVE  OutOK(ServerGone(r, server))
PROOF
  <1> DEFINE ours == {n \in DOMAIN r.waiting : r.waiting[n].server = server}
             asking == {n \in ours : r.waiting[n].kind = "agent"}
             agents == SetToSeq(asking)
             touched == {r.waiting[n].job : n \in {n \in ours : r.waiting[n].kind = "list"}} \cap DOMAIN r.jobs
             without(job) == [r.jobs[job] EXCEPT !.remaining = @ \ {server}, !.tools = Forget(@, {server})]
             over == {job \in touched : without(job).remaining = {}}
             ended == SetToSeq(over)
             W2 == Forget(r.waiting, ours)
             J2 == [job \in DOMAIN r.jobs \ over |-> IF job \in touched THEN without(job) ELSE r.jobs[job]]
             q == [r EXCEPT !.gone = @ \cup {server}, !.waiting = W2, !.jobs = J2]
             acts == [i \in DOMAIN agents |->
                        ToAgent(Reply(r.waiting[agents[i]].id, "upstream_unavailable", r.waiting[agents[i]].origin))]
             fin == [i \in DOMAIN ended |-> without(ended[i])]
  <1>1. ServerGone(r, server) = Out(q, acts, fin)
    BY Zenon DEF ServerGone
  <1>2. RouterTyped(r) /\ Awaited(r.waiting, r.jobs, r.gone, 0, {})
    BY DEF RouterInv, RouterOwes
  <1>3. \A job \in DOMAIN r.jobs : IsListing(r.jobs[job])
    BY <1>2 DEF RouterTyped
  <1>4. ASSUME NEW job \in DOMAIN r.jobs
        PROVE  IsListing(without(job)) /\ without(job).remaining = r.jobs[job].remaining \ {server}
    <2> DEFINE l == r.jobs[job]
               tools == Forget(l.tools, {server})
    <2>1. ToolsOK(tools)
      <3>1. DOMAIN tools \subseteq DOMAIN l.tools /\ \A s \in DOMAIN tools : tools[s] = l.tools[s]
        BY DEF Forget, Restrict
      <3>2. ToolsOK(l.tools)
        BY <1>3 DEF IsListing
      <3> HIDE DEF tools
      <3> QED BY <3>1, <3>2 DEF ToolsOK
    <2>2. IsListing(l) /\ without(job) = [l EXCEPT !.remaining = @ \ {server}, !.tools = tools]
      BY <1>3 DEF IsListing
    <2> HIDE DEF tools, l, without
    <2>3. IsListing(without(job)) /\ without(job).remaining = l.remaining \ {server}
      BY <2>1, <2>2 DEF IsListing
    <2> QED BY <2>3 DEF l
  <1> HIDE DEF without
  <1>5. touched = {j \in DOMAIN r.jobs : \E n \in DOMAIN r.waiting : ListPage(r.waiting[n], j, server)}
    BY DEF ListPage
  <1>6. touched \subseteq DOMAIN r.jobs
    OBVIOUS
  <1> HIDE DEF touched
  <1>7. over = {j \in touched : r.jobs[j].remaining \ {server} = {}}
    BY <1>4, <1>6
  <1>8. over \subseteq DOMAIN r.jobs
    BY <1>6
  <1> HIDE DEF over
  <1>9. Shrinks(r.waiting, W2, ours)
    BY DEF Shrinks, Forget, Restrict
  <1>10. /\ DOMAIN J2 = DOMAIN r.jobs \ over
         /\ \A j \in DOMAIN J2 : J2[j].remaining = IF j \in touched THEN r.jobs[j].remaining \ {server} ELSE r.jobs[j].remaining
         /\ \A j \in DOMAIN J2 : IsListing(J2[j])
    BY <1>3, <1>4
  <1> HIDE DEF W2, J2
  <1>11. Awaited(W2, J2, r.gone \cup {server}, 0, {})
    <2>1. Loses(r.waiting, W2, r.jobs, J2, server, touched, over)
      BY <1>5, <1>7, <1>9, <1>10 DEF Loses
    <2> QED BY <1>2, <2>1, ServerLost
  <1>12. RouterShape(q) /\ q.waiting = W2 /\ q.jobs = J2 /\ q.gone = r.gone \cup {server} /\ q.nextId = r.nextId /\ q.nextJob = r.nextJob
    BY <1>2 DEF RouterTyped, RouterShape
  <1> HIDE DEF q
  <1>13. RouterInv(q)
    <2>1. RouterTyped(q)
      BY <1>2, <1>9, <1>10, <1>12 DEF RouterTyped, Shrinks
    <2> QED BY <1>11, <1>12, <2>1 DEF RouterInv, RouterOwes
  <1>14. IsFiniteSet(asking) /\ IsFiniteSet(over)
    <2>1. /\ r.nextId - 1 \in Int /\ r.nextJob - 1 \in Int
          /\ asking \subseteq 1..(r.nextId - 1) /\ over \subseteq 1..(r.nextJob - 1)
      BY <1>2, <1>8 DEF RouterTyped, RouterShape
    <2> HIDE DEF asking
    <2>2. IsFiniteSet(1..(r.nextId - 1)) /\ IsFiniteSet(1..(r.nextJob - 1))
      BY <2>1, FS_Interval
    <2> QED BY <2>1, <2>2, FS_Subset
  <1>15. ActsOK(acts)
    <2>1. agents \in Seq(asking)
      BY <1>14, SetToSeqIs
    <2> HIDE DEF agents
    <2>2. Len(agents) \in Nat /\ DOMAIN acts = 1..Len(agents) /\ acts = [i \in 1..Len(agents) |-> acts[i]]
      BY <2>1
    <2>3. \A i \in 1..Len(agents) : IsTarget(acts[i])
      BY <2>1 DEF IsTarget, ToAgent
    <2> HIDE DEF acts
    <2> QED BY <2>2, <2>3, ManyActs
  <1>16. FinOK(fin)
    <2>1. ended \in Seq(over)
      BY <1>14, SetToSeqIs
    <2> HIDE DEF ended
    <2> DEFINE T == {without(job) : job \in over}
    <2>2. fin \in Seq(T)
      <3>1. \A i \in 1..Len(ended) : without(ended[i]) \in T
        BY <2>1
      <3>2. Len(ended) \in Nat /\ DOMAIN ended = 1..Len(ended)
        BY <2>1
      <3> HIDE DEF T
      <3> QED BY <3>1, <3>2
    <2>3. \A f \in T : ToolsOK(f.tools)
      BY <1>4, <1>8 DEF IsListing
    <2> HIDE DEF T, fin
    <2> QED BY <2>2, <2>3, FinIn
  <1> HIDE DEF acts, fin
  <1> QED BY <1>1, <1>13, <1>15, <1>16, OutBy

(***************************************************************************)
(* The inductive invariant.                                                *)
(***************************************************************************)
Phases == {"new", "decide", "dispatch", "perform", "wait", "done"}
Early(p) == post[p].phase \in {"new", "decide", "dispatch"}
IsPost(x) ==
    x \in [phase : Phases, session : {x.session}, msg : {x.msg}, n : {x.n}, direct : {x.direct}, reply : {x.reply}, cut : {x.cut}]
Decidable(x, p) == x.phase \in {"decide", "dispatch"} => x.msg.method \in Methods /\ x.msg.origin = p
PostsOK ==
    /\ post = [p \in Posts |-> post[p]]
    /\ \A p \in Posts : IsPost(post[p]) /\ Decidable(post[p], p)

IsFinishing(f) ==
    /\ f \in [agent : {f.agent}, tools : {f.tools}, visible : {f.visible}, direct : {f.direct}, front : {f.front}]
    /\ ToolsOK(f.tools)
FinishingOK(fin) == \E T : fin \in Seq(T) /\ \A f \in T : IsFinishing(f)
IsThread(x) == x \in [fin : {x.fin}, todo : {x.todo}] /\ FinishingOK(x.fin) /\ ActsOK(x.todo)
ThreadsOK == thread = [t \in Threads |-> thread[t]] /\ \A t \in Threads : IsThread(thread[t])

LinesOK(out) == \E T : out \in Seq(T) /\ \A l \in T : IsLine(l)
IsServer(x) ==
    /\ x \in [alive : {x.alive}, stdin : {x.stdin}, inbox : {x.inbox}, out : {x.out}, tools : {x.tools}, ingress : {x.ingress}]
    /\ LinesOK(x.out) /\ IsSeq(x.tools)
ServersOK ==
    /\ srv = [s \in ServerSet |-> srv[s]]
    /\ \A s \in ServerSet : IsServer(srv[s]) /\ (mode = "relay" => srv[s].ingress = "ended")

HubShape(x) ==
    x \in [nextId : Nat \ {0}, waiters : {x.waiters}, sessions : {x.sessions}, listed : {x.listed}, stopping : {x.stopping}]
HubOK == HubShape(hub) /\ DOMAIN hub.waiters \subseteq 1..(hub.nextId - 1)

\* The HTTP client: what is queued or exchanged is counted, one message of each agent message.
IsExchange(x) == x \in [msg : {x.msg}, after : Nat, header : {x.header}]
ClientShape(c) ==
    c \in [queue : {c.queue}, running : {c.running}, session : Nat, inits : Nat, busy : Nat, closed : {c.closed}]
ClientOK ==
    /\ ClientShape(client) /\ IsSeq(client.queue) /\ IsFiniteSet(client.running)
    /\ \A x \in client.running : IsExchange(x)
    /\ client.busy = Len(client.queue) + Cardinality(client.running)
    /\ \A i, j \in 1..Len(client.queue) : client.queue[i].origin = client.queue[j].origin => i = j
    /\ \A i \in 1..Len(client.queue), x \in client.running : client.queue[i].origin # x.msg.origin
    /\ \A x, y \in client.running : x.msg.origin = y.msg.origin => x = y

\* While an initialize is exchanged, everything else was taken before it.
SeenShape(x) ==
    x \in [answers : {x.answers}, shown : {x.shown}, sent : {x.sent}, posted : {x.posted}, granted : SUBSET Nat, faults : {x.faults}]
InitRuns == \E y \in client.running : y.msg.method = "initialize"
Plain(x) == x.msg.method # "initialize"
SessionOK ==
    /\ SeenShape(seen) /\ CarriesSession
    /\ client.session <= client.inits
    /\ \A k \in seen.granted : k <= client.session
    /\ \A x \in seen.posted : Plain(x) => x.after \in Nat /\ x.after <= client.inits /\ x.header.session \in Nat
    /\ \A x \in client.running : x.after <= client.inits
    /\ InitRuns => \A x \in seen.posted \cup client.running : Plain(x) => x.after < client.inits

\* Each agent message is handed to the HTTP client once.
Handed(p) == (\E i \in 1..Len(client.queue) : client.queue[i].origin = p) \/ \E x \in client.running : x.msg.origin = p
RelayThread(t) ==
    /\ thread[t].fin = <<>> /\ Len(thread[t].todo) <= 1
    /\ thread[t].todo # <<>> /\ Head(thread[t].todo).to # "agent" =>
        t \in Posts /\ Head(thread[t].todo).msg.origin = t /\ ~Early(t) /\ ~Handed(t)
RelayOK ==
    /\ mode = "relay" => (\A t \in Threads : RelayThread(t)) /\ \A p \in Posts : Handed(p) => ~Early(p)
    /\ mode # "relay" => client.queue = <<>> /\ client.running = {}

CatOK == Routed => CatalogOK(cat)
Books == RouterInv(st) /\ CatOK /\ PostsOK /\ ThreadsOK /\ ServersOK /\ HubOK
Carried == ClientOK /\ SessionOK /\ RelayOK
TransportBooks == mode \in Modes /\ Books /\ Carried

\* The books give the invariant.
LEMMA BooksSuffice == TransportBooks => TransportInv
PROOF
  <1> SUFFICES ASSUME TransportBooks PROVE TransportInv
    OBVIOUS
  <1>0. RouterInv(st) /\ RouterTyped(st) /\ Awaited(st.waiting, st.jobs, st.gone, 0, {})
    BY DEF TransportBooks, Books, RouterInv, RouterOwes
  <1>1. TypeOK
    <2>1. DOMAIN st.waiting \subseteq 1..(st.nextId - 1) /\ DOMAIN st.jobs \subseteq 1..(st.nextJob - 1) /\ st.gone \subseteq ServerSet
      BY <1>0 DEF RouterTyped, RouterShape
    <2>2. \A p \in Posts : post[p].phase \in {"new", "decide", "dispatch", "perform", "wait", "done"}
      BY DEF TransportBooks, Books, PostsOK, IsPost, Phases
    <2> QED BY <2>1, <2>2 DEF TransportBooks, Books, Carried, TypeOK, HubOK, ClientOK
  <1>2. JobsAwaitPages
    <2>1. ASSUME NEW job \in DOMAIN st.jobs, NEW s \in st.jobs[job].remaining
          PROVE  Cardinality({n \in DOMAIN st.waiting : st.waiting[n].kind = "list" /\ st.waiting[n].job = job /\ st.waiting[n].server = s}) = 1
      <3> DEFINE N == {n \in DOMAIN st.waiting : st.waiting[n].kind = "list" /\ st.waiting[n].job = job /\ st.waiting[n].server = s}
      <3>1. PICK n \in DOMAIN st.waiting : ListPage(st.waiting[n], job, s)
        BY <1>0, <2>1 DEF Awaited
      <3>2. N = {n}
        BY <1>0, <3>1 DEF Awaited, ListPage
      <3> HIDE DEF N
      <3>3. Cardinality(N) = 1
        BY <3>2, FS_Singleton
      <3> QED BY <3>3 DEF N
    <2>2. \A n \in DOMAIN st.waiting :
            /\ st.waiting[n].server \notin st.gone
            /\ st.waiting[n].kind = "list" => st.waiting[n].job \in DOMAIN st.jobs /\ st.waiting[n].server \in st.jobs[st.waiting[n].job].remaining
      BY <1>0 DEF Awaited
    <2>3. \A job \in DOMAIN st.jobs : st.jobs[job].remaining # {}
      BY <1>0 DEF Awaited
    <2> QED BY <2>1, <2>2, <2>3 DEF JobsAwaitPages
  <1>3. CarriesSession
    BY DEF TransportBooks, Carried, SessionOK
  <1> QED BY <1>1, <1>2, <1>3 DEF TransportInv

\* It holds at the start.
LEMMA BooksBegin == Init => TransportBooks
PROOF
  <1> SUFFICES ASSUME Init PROVE TransportBooks
    OBVIOUS
  <1>1. RouterInv(st)
    <2>1. /\ st = [nextId |-> 1, nextJob |-> 1, waiting |-> Empty, jobs |-> Empty, gone |-> {}]
          /\ DOMAIN Empty = {}
      BY DEF Init, RouterInit, Empty
    <2> HIDE DEF Init
    <2>2. st.waiting = Empty /\ st.jobs = Empty /\ RouterShape(st)
      BY <2>1 DEF RouterShape
    <2> QED BY <2>1, <2>2 DEF RouterInv, RouterOwes, RouterTyped, Awaited
  <1>2. CatOK
    BY StartOK DEF Init, CatOK
  <1>3. PostsOK
    <2>1. \A p \in Posts : post[p] = [phase |-> "new", session |-> 0, msg |-> None, n |-> NoId, direct |-> None, reply |-> None, cut |-> FALSE]
      BY DEF Init
    <2>2. post = [p \in Posts |-> post[p]]
      BY DEF Init
    <2> QED BY <2>1, <2>2 DEF PostsOK, IsPost, Decidable, Phases
  <1>4. ThreadsOK /\ \A t \in Threads : thread[t] = AtRest
    <2>1. thread = [t \in Threads |-> thread[t]] /\ \A t \in Threads : thread[t] = AtRest
      BY DEF Init
    <2>2. FinishingOK(<<>>)
      <3> DEFINE T == {}
      <3>1. <<>> \in Seq(T) /\ \A f \in T : IsFinishing(f)
        OBVIOUS
      <3> HIDE DEF T
      <3> QED BY <3>1, Zenon DEF FinishingOK
    <2>3. IsThread(AtRest)
      BY <2>2, NoActs DEF IsThread, AtRest
    <2> QED BY <2>1, <2>3 DEF ThreadsOK
  <1>5. ServersOK
    <2>1. srv = [s \in ServerSet |-> srv[s]]
      BY DEF Init
    <2>2. LinesOK(<<>>)
      <3> DEFINE T == {}
      <3>1. <<>> \in Seq(T) /\ \A l \in T : IsLine(l)
        OBVIOUS
      <3> HIDE DEF T
      <3> QED BY <3>1, Zenon DEF LinesOK
    <2>3. \A s \in ServerSet : IsSeq(Listed[s])
      BY TransportAssumption, Zenon DEF IsSeq, ServerSet
    <2>4. ASSUME NEW s \in ServerSet PROVE IsServer(srv[s]) /\ (mode = "relay" => srv[s].ingress = "ended")
      <3>1. srv[s] = [alive |-> s \in Used(mode), stdin |-> s \in Used(mode), inbox |-> {}, out |-> <<>>,
                      tools |-> Listed[s], ingress |-> IF s \in Used(mode) THEN "reading" ELSE "ended"]
        BY DEF Init
      <3>2. mode = "relay" => s \notin Used(mode)
        BY DEF Used
      <3> HIDE DEF Init
      <3> QED BY <2>2, <2>3, <3>1, <3>2 DEF IsServer
    <2> QED BY <2>1, <2>4 DEF ServersOK
  <1>6. HubOK
    BY DEF Init, HubOK, HubShape, Empty
  <1>7. client = [queue |-> <<>>, running |-> {}, session |-> 1, inits |-> 1, busy |-> 0, closed |-> FALSE]
    BY DEF Init
  <1>8. seen.posted = {} /\ seen.granted = {1} /\ SeenShape(seen) /\ mode \in Modes
    BY DEF Init, SeenShape
  <1> HIDE DEF Init
  <1>9. ClientOK
    <2>1. IsSeq(<<>>)
      <3>1. <<>> \in Seq({})
        OBVIOUS
      <3> QED BY <3>1, Zenon DEF IsSeq
    <2>2. ClientShape(client) /\ client.queue = <<>> /\ client.running = {} /\ client.busy = 0
      BY <1>7 DEF ClientShape
    <2>3. IsFiniteSet({}) /\ Cardinality({}) = 0
      BY FS_EmptySet
    <2> QED BY <2>1, <2>2, <2>3 DEF ClientOK
  <1>10. SessionOK
    BY <1>7, <1>8 DEF SessionOK, CarriesSession, InitRuns
  <1>11. RelayOK
    BY <1>4, <1>7 DEF RelayOK, RelayThread, AtRest, Handed
  <1> QED BY <1>1, <1>2, <1>3, <1>4, <1>5, <1>6, <1>8, <1>9, <1>10, <1>11 DEF TransportBooks, Books, Carried

(***************************************************************************)
(* What a step leaves alone stays as it is.                                *)
(***************************************************************************)
SeenKept == SeenShape(seen') /\ seen'.posted = seen.posted /\ seen'.granted = seen.granted
LateStays == \A p \in Posts : ~Early(p) => ~Early(p)'
ExchangesStay ==
    client'.running = client.running /\ client'.session = client.session /\ client'.inits = client.inits

\* The parts of the invariant.
LEMMA Parts ==
    ASSUME TransportBooks
    PROVE  /\ RouterInv(st) /\ CatOK /\ PostsOK /\ ThreadsOK /\ ServersOK /\ HubOK
           /\ ClientOK /\ SessionOK /\ RelayOK /\ mode \in Modes
BY DEF TransportBooks, Books, Carried

\* What a step does not change keeps its part.
LEMMA Frame ==
    ASSUME TransportBooks, mode' = mode
    PROVE  /\ mode' \in Modes /\ Routed' = Routed
           /\ st' = st => RouterInv(st)'
           /\ cat' = cat => CatOK'
           /\ post' = post => PostsOK' /\ LateStays
           /\ thread' = thread => ThreadsOK'
           /\ srv' = srv => ServersOK'
           /\ hub' = hub => HubOK'
           /\ client' = client => ClientOK' /\ ExchangesStay
           /\ seen' = seen => SeenKept
           /\ ~Routed => CatOK'
PROOF
  <1>1. mode' \in Modes /\ Routed' = Routed
    BY Parts DEF Routed
  <1>2. st' = st => RouterInv(st)'
    BY Parts
  <1>3. (cat' = cat => CatOK') /\ (~Routed => CatOK')
    BY <1>1, Parts DEF CatOK
  <1>4. post' = post => PostsOK' /\ LateStays
    BY Parts DEF PostsOK, LateStays, Early
  <1>5. thread' = thread => ThreadsOK'
    BY Parts DEF ThreadsOK
  <1>6. srv' = srv => ServersOK'
    BY Parts DEF ServersOK
  <1>7. hub' = hub => HubOK'
    BY Parts DEF HubOK
  <1>8. client' = client => ClientOK' /\ ExchangesStay
    BY Parts DEF ClientOK, ExchangesStay
  <1>9. seen' = seen => SeenKept
    BY Parts DEF SeenKept, SessionOK
  <1> QED BY <1>1, <1>2, <1>3, <1>4, <1>5, <1>6, <1>7, <1>8, <1>9

\* So does what was posted and granted while no exchange changes.
LEMMA SessionFrame ==
    ASSUME TransportBooks, ExchangesStay, SeenKept
    PROVE  SessionOK'
BY Parts DEF SessionOK, ExchangesStay, SeenKept, CarriesSession, InitRuns

\* The client's and the threads' work is the same, and no message turns early again.
LEMMA RelayFrame ==
    ASSUME TransportBooks, mode' = mode, LateStays, client'.queue = client.queue, client'.running = client.running,
           mode = "relay" => \A t \in Threads : thread'[t] = thread[t]
    PROVE  RelayOK'
PROOF
  <1>1. \A p : Handed(p)' <=> Handed(p)
    BY DEF Handed
  <1>2. CASE mode = "relay"
    <2>1. ASSUME NEW t \in Threads PROVE RelayThread(t)'
      <3>1. RelayThread(t) /\ thread'[t] = thread[t]
        BY <1>2, Parts DEF RelayOK
      <3> QED BY <1>1, <3>1 DEF RelayThread, LateStays
    <2>2. \A p \in Posts : Handed(p)' => ~Early(p)'
      BY <1>1, <1>2, Parts DEF RelayOK, LateStays
    <2> QED BY <1>2, <2>1, <2>2 DEF RelayOK
  <1>3. CASE mode # "relay"
    BY <1>3, Parts DEF RelayOK
  <1> QED BY <1>2, <1>3

\* The parts make the invariant again.
LEMMA Together ==
    ASSUME mode' \in Modes, RouterInv(st)', CatOK', PostsOK', ThreadsOK', ServersOK', HubOK', ClientOK', SessionOK', RelayOK'
    PROVE  TransportBooks'
BY DEF TransportBooks, Books, Carried

\* One agent message changes.
LEMMA PostSet ==
    ASSUME TransportBooks, NEW p \in Posts, NEW x, post' = [post EXCEPT ![p] = x], IsPost(x), Decidable(x, p),
           Early(p) \/ x.phase \notin {"new", "decide", "dispatch"}
    PROVE  PostsOK' /\ LateStays
PROOF
  <1>1. /\ post' = [q \in Posts |-> post'[q]] /\ post'[p] = x
        /\ \A q \in Posts : q # p => post'[q] = post[q]
    BY Parts DEF PostsOK
  <1>2. PostsOK'
    BY <1>1, Parts DEF PostsOK
  <1> QED BY <1>1, <1>2 DEF LateStays, Early

\* One thread changes.
LEMMA ThreadSet ==
    ASSUME TransportBooks, NEW t \in Threads, NEW x, thread' = [thread EXCEPT ![t] = x], IsThread(x)
    PROVE  ThreadsOK' /\ thread'[t] = x /\ \A u \in Threads : u # t => thread'[u] = thread[u]
BY Parts DEF ThreadsOK

\* One server changes.
LEMMA ServerSetOne ==
    ASSUME TransportBooks, mode' = mode, NEW s \in ServerSet, NEW x, srv' = [srv EXCEPT ![s] = x], IsServer(x),
           mode = "relay" => x.ingress = "ended"
    PROVE  ServersOK'
PROOF
  <1>1. /\ srv' = [q \in ServerSet |-> srv'[q]] /\ srv'[s] = x
        /\ \A q \in ServerSet : q # s => srv'[q] = srv[q]
    BY Parts DEF ServersOK
  <1> QED BY <1>1, Parts DEF ServersOK

(***************************************************************************)
(* What threads hold: actions and listings to finish.                      *)
(***************************************************************************)
\* Actions to perform here or elsewhere are still actions.
LEMMA Addressed ==
    ASSUME NEW acts, ActsOK(acts)
    PROVE  ActsOK(Direct(acts)) /\ ActsOK(Later(acts))
PROOF
  <1>1. PICK T : acts \in Seq(T) /\ \A a \in T : IsTarget(a)
    BY DEF ActsOK
  <1> DEFINE n == Len(acts)
  <1>2. n \in Nat /\ DOMAIN acts = 1..n /\ \A i \in 1..n : IsTarget(acts[i])
    BY <1>1
  <1>3. ASSUME NEW d, NEW f, f = [i \in DOMAIN acts |-> [to |-> acts[i].to, msg |-> acts[i].msg, direct |-> d]]
        PROVE  ActsOK(f)
    <2>1. DOMAIN f = 1..n /\ f = [i \in 1..n |-> f[i]]
      BY <1>2, <1>3
    <2>2. \A i \in 1..n : f[i].to = acts[i].to
      BY <1>2, <1>3
    <2>3. \A i \in 1..n : IsTarget(f[i])
      BY <1>2, <2>2 DEF IsTarget
    <2> QED BY <1>2, <2>1, <2>3, ManyActs
  <1> QED BY <1>3 DEF Direct, Later

\* A sequence of listings being finished, by the set they are from.
LEMMA FinishingIn ==
    ASSUME NEW T, NEW fin \in Seq(T), \A f \in T : IsFinishing(f)
    PROVE  FinishingOK(fin)
PROOF
  <1>1. fin \in Seq(T) /\ \A f \in T : IsFinishing(f)
    OBVIOUS
  <1> QED BY <1>1, Zenon DEF FinishingOK

\* The listings the router ended are ready to be finished.
LEMMA Finished ==
    ASSUME NEW fin, FinOK(fin), NEW d, NEW front
    PROVE  FinishingOK(Finishing(fin, d, front))
PROOF
  <1>1. PICK T : fin \in Seq(T) /\ \A f \in T : ToolsOK(f.tools)
    BY DEF FinOK
  <1> DEFINE F(i) == [agent |-> fin[i].agent, tools |-> fin[i].tools, visible |-> <<>>, direct |-> d, front |-> front]
             U == {F(i) : i \in 1..Len(fin)}
  <1>2. Len(fin) \in Nat /\ DOMAIN fin = 1..Len(fin) /\ \A i \in 1..Len(fin) : ToolsOK(fin[i].tools)
    BY <1>1
  <1>3. Finishing(fin, d, front) = [i \in 1..Len(fin) |-> F(i)]
    BY <1>2 DEF Finishing
  <1>4. \A i \in 1..Len(fin) : IsFinishing(F(i))
    BY <1>2 DEF IsFinishing
  <1>5. \A f \in U : IsFinishing(f)
    BY <1>4
  <1>6. Finishing(fin, d, front) \in Seq(U)
    BY <1>2, <1>3
  <1> HIDE DEF U
  <1> QED BY <1>5, <1>6, FinishingIn

\* The rest of a thread's actions, and two runs of them.
LEMMA Rested ==
    ASSUME NEW acts, ActsOK(acts), acts # <<>>
    PROVE  ActsOK(Tail(acts)) /\ IsTarget(Head(acts)) /\ Len(Tail(acts)) = Len(acts) - 1 /\ Len(acts) \in Nat
PROOF
  <1>1. PICK T : acts \in Seq(T) /\ \A a \in T : IsTarget(a)
    BY DEF ActsOK
  <1>2. Tail(acts) \in Seq(T) /\ Head(acts) \in T /\ Len(Tail(acts)) = Len(acts) - 1 /\ Len(acts) \in Nat
    BY <1>1
  <1> QED BY <1>1, <1>2, ActsIn

\* Actions after actions.
LEMMA Joined ==
    ASSUME NEW acts, ActsOK(acts), NEW more, ActsOK(more)
    PROVE  ActsOK(acts \o more)
PROOF
  <1>1. PICK T : acts \in Seq(T) /\ \A a \in T : IsTarget(a)
    BY DEF ActsOK
  <1>2. PICK U : more \in Seq(U) /\ \A a \in U : IsTarget(a)
    BY DEF ActsOK
  <1> DEFINE V == T \cup U
  <1>3. acts \in Seq(V) /\ more \in Seq(V)
    BY <1>1, <1>2
  <1>4. acts \o more \in Seq(V)
    BY <1>3
  <1>5. \A a \in V : IsTarget(a)
    BY <1>1, <1>2
  <1> HIDE DEF V
  <1> QED BY <1>4, <1>5, ActsIn

\* The first listing to finish is replaced, or done with.
LEMMA FinishingHead ==
    ASSUME NEW fin, FinishingOK(fin), fin # <<>>
    PROVE  IsFinishing(Head(fin)) /\ Head(fin) = fin[1] /\ FinishingOK(Tail(fin))
PROOF
  <1>1. PICK T : fin \in Seq(T) /\ \A f \in T : IsFinishing(f)
    BY DEF FinishingOK
  <1>2. Tail(fin) \in Seq(T) /\ Head(fin) \in T /\ Head(fin) = fin[1]
    BY <1>1
  <1> QED BY <1>1, <1>2, FinishingIn

\* The first listing being finished is replaced by another.
LEMMA FinishingSet ==
    ASSUME NEW fin, FinishingOK(fin), fin # <<>>, NEW f, IsFinishing(f)
    PROVE  FinishingOK([fin EXCEPT ![1] = f])
PROOF
  <1>1. PICK T : fin \in Seq(T) /\ \A x \in T : IsFinishing(x)
    BY DEF FinishingOK
  <1> DEFINE V == T \cup {f}
  <1>2. [fin EXCEPT ![1] = f] \in Seq(V)
    BY <1>1
  <1>3. \A x \in V : IsFinishing(x)
    BY <1>1
  <1> HIDE DEF V
  <1> QED BY <1>2, <1>3, FinishingIn

\* A server's output, by the set of its lines.
LEMMA LinesIn ==
    ASSUME NEW T, NEW out \in Seq(T), \A l \in T : IsLine(l)
    PROVE  LinesOK(out)
PROOF
  <1>1. out \in Seq(T) /\ \A l \in T : IsLine(l)
    OBVIOUS
  <1> QED BY <1>1, Zenon DEF LinesOK

\* A server's output grows at its end and is read at its head.
LEMMA LineRead ==
    ASSUME NEW out, LinesOK(out), out # <<>>
    PROVE  IsLine(Head(out)) /\ LinesOK(Tail(out))
PROOF
  <1>1. PICK T : out \in Seq(T) /\ \A l \in T : IsLine(l)
    BY DEF LinesOK
  <1>2. Tail(out) \in Seq(T) /\ Head(out) \in T
    BY <1>1
  <1> QED BY <1>1, <1>2, LinesIn

\* A server writes one more line.
LEMMA LineWritten ==
    ASSUME NEW out, LinesOK(out), NEW line, IsLine(line)
    PROVE  LinesOK(Append(out, line))
PROOF
  <1>1. PICK T : out \in Seq(T) /\ \A l \in T : IsLine(l)
    BY DEF LinesOK
  <1> DEFINE V == T \cup {line}
  <1>2. Append(out, line) \in Seq(V)
    BY <1>1
  <1>3. \A l \in V : IsLine(l)
    BY <1>1
  <1> HIDE DEF V
  <1> QED BY <1>2, <1>3, LinesIn

\* The server whose tools are observed next is one of the listing's.
LEMMA NextServerIs ==
    ASSUME NEW tools, DOMAIN tools \subseteq ServerSet, DOMAIN tools # {}
    PROVE  NextServer(tools) \in DOMAIN tools
PROOF
  <1> DEFINE I == {i \in 1..Len(Servers) : Servers[i] \in DOMAIN tools}
             P(i) == Servers[i] \in DOMAIN tools /\ \A j \in 1..(i - 1) : Servers[j] \notin DOMAIN tools
  <1>1. Len(Servers) \in Nat /\ DOMAIN Servers = 1..Len(Servers)
    BY ServersOnce
  <1>2. I \in SUBSET Nat /\ I # {}
    BY <1>1, ServersOnce
  <1>3. PICK i \in I : \A j \in I : i <= j
    BY <1>2, LeastOf
  <1>4. i \in DOMAIN Servers /\ P(i)
    BY <1>1, <1>3
  <1> HIDE DEF I, P
  <1>5. (CHOOSE k \in DOMAIN Servers : P(k)) \in DOMAIN Servers /\ P(CHOOSE k \in DOMAIN Servers : P(k))
    BY <1>4, Zenon
  <1>6. NextServer(tools) = Servers[CHOOSE k \in DOMAIN Servers : P(k)]
    BY DEF P, NextServer
  <1> QED BY <1>5, <1>6 DEF P

\* A server's answers are pages.
LEMMA PagesAre ==
    ASSUME NEW s \in ServerSet, IsSeq(srv[s].tools), NEW msg, NEW page \in Answers(s, msg)
    PROVE  IsPage(page)
PROOF
  <1> DEFINE tools == srv[s].tools
  <1>1. IsSeq(<<>>) /\ IsSeq(IF tools = <<>> THEN <<>> ELSE <<Head(tools)>>) /\ IsSeq(IF tools = <<>> THEN <<>> ELSE Tail(tools))
    <2>1. PICK T : tools \in Seq(T)
      BY DEF IsSeq
    <2>2. <<>> \in Seq(T) /\ (tools # <<>> => <<Head(tools)>> \in Seq(T) /\ Tail(tools) \in Seq(T))
      BY <2>1
    <2> QED BY <2>2 DEF IsSeq
  <1>2. IsPage(ErrorPage) /\ IsPage(NoPage)
    BY <1>1 DEF IsPage, ErrorPage, NoPage
  <1>4. ASSUME NEW q, IsSeq(q), NEW more \in BOOLEAN PROVE IsPage(Page(q, more))
    BY <1>4 DEF IsPage, Page
  <1>5. \A kind \in Pages[s] : IsPage(PageOf(kind, tools))
    <2>1. Pages[s] \subseteq {"error", "last", "more"}
      BY TransportAssumption DEF ServerSet
    <2>2. IsPage(PageOf("error", tools))
      BY <1>2 DEF PageOf
    <2>3. IsPage(PageOf("last", tools))
      BY <1>4 DEF PageOf
    <2>4. IsPage(PageOf("more", tools))
      BY <1>1, <1>4 DEF PageOf
    <2> QED BY <2>1, <2>2, <2>3, <2>4
  <1>6. CASE msg.method = "list" /\ msg.ref # NextPage
    BY <1>5, <1>6 DEF Answers
  <1>7. CASE msg.method = "list" /\ msg.ref = NextPage
    BY <1>1, <1>4, <1>7 DEF Answers
  <1>8. CASE msg.method # "list"
    BY <1>2, <1>8 DEF Answers
  <1> QED BY <1>6, <1>7, <1>8

(***************************************************************************)
(* The steps.                                                              *)
(***************************************************************************)
\* What the agents and the servers saw changes, not what was posted or granted.
LEMMA SeenStays ==
    ASSUME TransportBooks
    PROVE  /\ \A p, reply : seen' = Answered(p, reply) => SeenKept
           /\ \A n : Faults(n) => SeenKept
PROOF
  <1>1. SeenShape(seen)
    BY Parts DEF SessionOK
  <1>2. ASSUME NEW p, NEW reply, seen' = Answered(p, reply) PROVE SeenKept
    <2> DEFINE A == [seen.answers EXCEPT ![p] = Append(@, reply.origin)]
               H == seen.shown \cup Shown(reply)
    <2>1. seen' = [seen EXCEPT !.answers = A, !.shown = H]
      BY <1>1, <1>2 DEF Answered, SeenShape
    <2> HIDE DEF A, H
    <2> QED BY <1>1, <2>1 DEF SeenKept, SeenShape
  <1>3. ASSUME NEW n, Faults(n) PROVE SeenKept
    BY <1>1, <1>3 DEF Faults, SeenKept, SeenShape
  <1> QED BY <1>2, <1>3

\* Only agent messages, the listener or what was seen change.
LEMMA PostStep ==
    ASSUME TransportBooks, UNCHANGED <<mode, st, cat, thread, srv, client>>, PostsOK', LateStays, HubOK', SeenKept
    PROVE  TransportBooks'
PROOF
  <1>1. /\ mode' \in Modes /\ RouterInv(st)' /\ CatOK' /\ ThreadsOK' /\ ServersOK' /\ ClientOK' /\ ExchangesStay
    BY Frame
  <1>2. SessionOK'
    BY <1>1, SessionFrame
  <1>3. RelayOK'
    BY RelayFrame
  <1> QED BY <1>1, <1>2, <1>3, Together

\* The listener's tables change.
LEMMA HubStays ==
    ASSUME TransportBooks, NEW w, NEW k, NEW l, NEW z, DOMAIN w \subseteq DOMAIN hub.waiters,
           hub' = [hub EXCEPT !.waiters = w, !.sessions = k, !.listed = l, !.stopping = z]
    PROVE  HubOK'
BY Parts DEF HubOK, HubShape

\* A message that is over.
LEMMA Closing ==
    ASSUME TransportBooks, NEW p \in Posts
    PROVE  IsPost(Closed(p)) /\ Decidable(Closed(p), p) /\ Closed(p).phase = "done"
PROOF
  <1>1. IsPost(post[p])
    BY Parts DEF PostsOK
  <1> QED BY <1>1 DEF Closed, IsPost, Decidable, Phases

\* A message arrives (post_mcp, or a line of the agent).
LEMMA ArrivesKeeps ==
    ASSUME TransportBooks, NEW p \in Posts, Arrives(p)
    PROVE  TransportBooks'
PROOF
  <1>1. PICK m \in Messages[p] :
        LET msg == [method |-> m.method, id |-> IF IsRequest(m.method) THEN OriginalId ELSE NoId,
                    tool |-> m.tool, ref |-> m.ref, origin |-> p]
            known == ForwardedAs(m.session, m.ref)
            forwarded == [msg EXCEPT !.id = IF @ = NoId THEN NoId ELSE hub.nextId,
                                     !.ref = IF m.method = "cancelled" THEN CHOOSE n \in known : TRUE ELSE @]
        IN  IF mode = "stdio"
            THEN /\ m.method # "delete" /\ m.headers = "ok"
                 /\ post' = [post EXCEPT ![p].phase = "decide", ![p].msg = [msg EXCEPT !.id = IF @ = NoId THEN NoId ELSE p]]
                 /\ UNCHANGED hub
            ELSE CASE Admission(m) # "ok" -> post' = [post EXCEPT ![p] = Closed(p)] /\ UNCHANGED hub
                   [] Admission(m) = "ok" /\ m.method = "delete" ->
                        /\ hub' = [hub EXCEPT !.sessions = @ \ {m.session}]
                        /\ post' = [post EXCEPT ![p] = Closed(p)]
                   [] Admission(m) = "ok" /\ m.method = "cancelled" /\ known = {} -> post' = [post EXCEPT ![p] = Closed(p)] /\ UNCHANGED hub
                   [] OTHER ->
                        /\ hub' = IF msg.id = NoId THEN hub
                                  ELSE [hub EXCEPT !.nextId = @ + 1, !.waiters = Insert(@, hub.nextId, p)]
                        /\ post' = [post EXCEPT ![p].phase = "decide", ![p].session = m.session, ![p].msg = forwarded,
                                                ![p].n = IF msg.id = NoId THEN NoId ELSE hub.nextId]
    BY DEF Arrives
  <1> DEFINE msg == [method |-> m.method, id |-> IF IsRequest(m.method) THEN OriginalId ELSE NoId,
                     tool |-> m.tool, ref |-> m.ref, origin |-> p]
             known == ForwardedAs(m.session, m.ref)
             id == IF msg.id = NoId THEN NoId ELSE hub.nextId
             ref == IF m.method = "cancelled" THEN CHOOSE n \in known : TRUE ELSE msg.ref
  <1>2. IsPost(post[p]) /\ Early(p) /\ post = [q \in Posts |-> post[q]]
    BY Parts DEF PostsOK, Arrives, Early
  <1>3. UNCHANGED <<mode, st, cat, thread, srv, client, seen>> /\ SeenKept
    BY Frame DEF Arrives
  <1>4. (hub' = hub => HubOK') /\ HubOK /\ m.method \in Methods \cup {"delete"}
    BY <1>3, Frame, Parts, TransportAssumption
  <1>5. CASE mode = "stdio"
    <2> DEFINE y == [msg EXCEPT !.id = IF @ = NoId THEN NoId ELSE p]
               x == [post[p] EXCEPT !.phase = "decide", !.msg = y]
    <2>1. m.method # "delete" /\ post' = [post EXCEPT ![p].phase = "decide", ![p].msg = y] /\ hub' = hub
      BY <1>1, <1>5
    <2>2. y.method = m.method /\ y.origin = p
      OBVIOUS
    <2> HIDE DEF y
    <2>3. IsPost(x) /\ Decidable(x, p) /\ post' = [post EXCEPT ![p] = x]
      BY <1>2, <1>4, <2>1, <2>2 DEF IsPost, Decidable, Phases
    <2> HIDE DEF x
    <2>4. PostsOK' /\ LateStays
      BY <1>2, <2>3, PostSet
    <2> QED BY <1>3, <1>4, <2>1, <2>4, PostStep
  <1>6. ASSUME post' = [post EXCEPT ![p] = Closed(p)] PROVE PostsOK' /\ LateStays
    BY <1>2, <1>6, Closing, PostSet
  <1>7. CASE mode # "stdio" /\ (Admission(m) # "ok" \/ (m.method = "cancelled" /\ known = {}))
    <2>1. post' = [post EXCEPT ![p] = Closed(p)] /\ hub' = hub
      BY <1>1, <1>7, Zenon
    <2> QED BY <1>3, <1>4, <1>6, <2>1, PostStep
  <1>8. CASE mode # "stdio" /\ Admission(m) = "ok" /\ m.method = "delete"
    <2>1. hub' = [hub EXCEPT !.sessions = @ \ {m.session}] /\ post' = [post EXCEPT ![p] = Closed(p)]
      BY <1>1, <1>8
    <2>2. HubOK'
      BY <1>4, <2>1 DEF HubOK, HubShape
    <2> QED BY <1>3, <1>6, <2>1, <2>2, PostStep
  <1>9. CASE mode # "stdio" /\ Admission(m) = "ok" /\ m.method # "delete" /\ ~(m.method = "cancelled" /\ known = {})
    <2> DEFINE y == [msg EXCEPT !.id = IF @ = NoId THEN NoId ELSE hub.nextId,
                                !.ref = IF m.method = "cancelled" THEN CHOOSE n \in known : TRUE ELSE @]
               x == [post[p] EXCEPT !.phase = "decide", !.session = m.session, !.msg = y, !.n = id]
               w == Insert(hub.waiters, hub.nextId, p)
    <2>1. /\ hub' = (IF msg.id = NoId THEN hub ELSE [hub EXCEPT !.nextId = @ + 1, !.waiters = w])
          /\ post' = [post EXCEPT ![p].phase = "decide", ![p].session = m.session, ![p].msg = y, ![p].n = id]
      BY <1>1, <1>9
    <2>2. y.method = m.method /\ y.origin = p
      OBVIOUS
    <2>3. DOMAIN w = DOMAIN hub.waiters \cup {hub.nextId}
      BY DEF Insert
    <2> HIDE DEF y, w, id, known
    <2>4. HubOK'
      <3>1. CASE msg.id = NoId
        BY <1>4, <2>1, <3>1
      <3>2. CASE msg.id # NoId
        <4>1. hub' = [hub EXCEPT !.nextId = @ + 1, !.waiters = w]
          BY <2>1, <3>2
        <4> HIDE DEF msg
        <4>2. hub.nextId \in Nat \ {0} /\ DOMAIN hub.waiters \subseteq 1..(hub.nextId - 1)
          BY <1>4 DEF HubOK, HubShape
        <4>3. HubShape(hub') /\ hub'.nextId = hub.nextId + 1 /\ hub'.waiters = w
          <5>1. hub.nextId + 1 \in Nat \ {0} /\ HubShape(hub)
            BY <1>4, <4>2 DEF HubOK
          <5> DEFINE k == hub.nextId + 1
          <5>2. hub' = [hub EXCEPT !.nextId = k, !.waiters = w] /\ k \in Nat \ {0}
            BY <4>1, <5>1 DEF HubShape
          <5> HIDE DEF k
          <5>3. HubShape(hub') /\ hub'.nextId = k /\ hub'.waiters = w
            BY <5>1, <5>2 DEF HubShape
          <5> QED BY <5>3 DEF k
        <4>4. DOMAIN w \subseteq 1..hub.nextId
          BY <2>3, <4>2
        <4> QED BY <4>2, <4>3, <4>4 DEF HubOK
      <3> QED BY <3>1, <3>2
    <2> HIDE DEF msg
    <2>5. IsPost(x) /\ Decidable(x, p) /\ post' = [post EXCEPT ![p] = x]
      BY <1>2, <1>4, <1>9, <2>1, <2>2 DEF IsPost, Decidable, Phases
    <2> HIDE DEF x
    <2>6. PostsOK' /\ LateStays
      BY <1>2, <2>5, PostSet
    <2> QED BY <1>3, <2>4, <2>6, PostStep
  <1> QED BY <1>5, <1>7, <1>8, <1>9

\* The client of a POST goes away.
LEMMA DisconnectsKeeps ==
    ASSUME TransportBooks, NEW p \in Posts, Disconnects(p)
    PROVE  TransportBooks'
PROOF
  <1>1. IsPost(post[p]) /\ Decidable(post[p], p) /\ post = [q \in Posts |-> post[q]]
    BY Parts DEF PostsOK
  <1>2. UNCHANGED <<mode, st, cat, thread, srv, hub, client>> /\ SeenKept
    BY SeenStays DEF Disconnects
  <1>3. HubOK'
    BY <1>2, Frame
  <1>4. CASE post[p].phase \in {"decide", "dispatch"} /\ post' = [post EXCEPT ![p].cut = TRUE]
    <2> DEFINE x == [post[p] EXCEPT !.cut = TRUE]
    <2>1. IsPost(x) /\ Decidable(x, p) /\ post' = [post EXCEPT ![p] = x] /\ Early(p)
      BY <1>1, <1>4 DEF IsPost, Decidable, Phases, Early
    <2> HIDE DEF x
    <2>2. PostsOK' /\ LateStays
      BY <2>1, PostSet
    <2> QED BY <1>2, <1>3, <2>2, PostStep
  <1>5. CASE post' = [post EXCEPT ![p] = [Closed(p) EXCEPT !.cut = TRUE]]
    <2> DEFINE x == [Closed(p) EXCEPT !.cut = TRUE]
    <2>1. IsPost(x) /\ Decidable(x, p) /\ x.phase = "done"
      BY Closing DEF IsPost, Decidable, Phases
    <2> HIDE DEF x
    <2>2. PostsOK' /\ LateStays
      BY <1>5, <2>1, PostSet DEF x
    <2> QED BY <1>2, <1>3, <2>2, PostStep
  <1> QED BY <1>4, <1>5 DEF Disconnects

\* The handler of a message ends.
LEMMA PostEndsKeeps ==
    ASSUME TransportBooks, NEW p \in Posts, PostEnds(p)
    PROVE  TransportBooks'
PROOF
  <1>1. IsPost(post[p]) /\ Decidable(post[p], p) /\ post = [q \in Posts |-> post[q]]
    BY Parts DEF PostsOK
  <1>2. UNCHANGED <<mode, st, cat, thread, srv, client>> /\ HubOK /\ HubShape(hub)
    BY Parts DEF PostEnds, HubOK
  <1>3. ASSUME post' = [post EXCEPT ![p] = Closed(p)] PROVE PostsOK' /\ LateStays
    BY <1>3, Closing, PostSet
  <1>4. CASE post' = [post EXCEPT ![p] = Closed(p)] /\ UNCHANGED <<hub, seen>>
    BY <1>2, <1>3, <1>4, Frame, PostStep
  <1>5. ASSUME NEW reply, post' = [post EXCEPT ![p] = Closed(p)],
               hub' = [hub EXCEPT !.waiters = Forget(@, {post[p].n}), !.sessions = @ \cup Issue(p, reply)],
               seen' = Answered(p, reply)
        PROVE  TransportBooks'
    <2> DEFINE w == Forget(hub.waiters, {post[p].n})
               k == hub.sessions \cup Issue(p, reply)
    <2>1. DOMAIN w \subseteq DOMAIN hub.waiters
      BY DEF Forget, Restrict
    <2>2. hub' = [hub EXCEPT !.waiters = w, !.sessions = k]
      BY <1>5
    <2> HIDE DEF w, k
    <2>3. HubOK'
      BY <1>2, <2>1, <2>2 DEF HubOK, HubShape
    <2>4. SeenKept
      BY <1>5, SeenStays
    <2> QED BY <1>2, <1>3, <1>5, <2>3, <2>4, PostStep
  <1>6. CASE post' = [post EXCEPT ![p].phase = "wait"] /\ UNCHANGED <<hub, seen>>
    <2> DEFINE x == [post[p] EXCEPT !.phase = "wait"]
    <2>1. IsPost(x) /\ Decidable(x, p) /\ post' = [post EXCEPT ![p] = x] /\ x.phase = "wait"
      BY <1>1, <1>6 DEF IsPost, Decidable, Phases
    <2> HIDE DEF x
    <2>2. PostsOK' /\ LateStays
      BY <2>1, PostSet
    <2> QED BY <1>2, <1>6, <2>2, Frame, PostStep
  <1> QED BY <1>4, <1>5, <1>6 DEF PostEnds

\* A POST that waited is answered.
LEMMA PostAnsweredKeeps ==
    ASSUME TransportBooks, NEW p \in Posts, PostAnswered(p)
    PROVE  TransportBooks'
PROOF
  <1>1. UNCHANGED <<mode, st, cat, thread, srv, client>> /\ HubOK /\ HubShape(hub)
    BY Parts DEF PostAnswered, HubOK
  <1> DEFINE reply == IF post[p].reply # None THEN post[p].reply ELSE Reply(post[p].n, "upstream_unavailable", p)
             k == hub.sessions \cup Issue(p, reply)
  <1>2. post' = [post EXCEPT ![p] = Closed(p)] /\ hub' = [hub EXCEPT !.sessions = k] /\ seen' = Answered(p, reply)
    BY DEF PostAnswered
  <1> HIDE DEF k, reply
  <1>3. HubOK'
    BY <1>1, <1>2 DEF HubOK, HubShape
  <1>4. PostsOK' /\ LateStays
    BY <1>2, Closing, PostSet
  <1>5. SeenKept
    BY <1>2, SeenStays
  <1> QED BY <1>1, <1>3, <1>4, <1>5, PostStep

\* Every table is kept and the HTTP client is left alone.
LEMMA ThreadStepKeeps ==
    ASSUME TransportBooks, mode' = mode, client' = client, RouterInv(st)', CatOK', PostsOK', ThreadsOK', ServersOK', HubOK',
           SeenKept, RelayOK'
    PROVE  TransportBooks'
PROOF
  <1>1. mode' \in Modes /\ ClientOK' /\ ExchangesStay
    BY Frame
  <1>2. SessionOK'
    BY <1>1, SessionFrame
  <1> QED BY <1>1, <1>2, Together

\* One thread's work changes.
LEMMA RelayThreadSet ==
    ASSUME TransportBooks, mode' = mode, client' = client, LateStays, NEW t \in Threads,
           \A u \in Threads : u # t => thread'[u] = thread[u], mode = "relay" => RelayThread(t)'
    PROVE  RelayOK'
PROOF
  <1>1. \A p : Handed(p)' <=> Handed(p)
    BY DEF Handed
  <1>2. CASE mode = "relay"
    <2>1. ASSUME NEW u \in Threads, u # t PROVE RelayThread(u)'
      <3>1. RelayThread(u) /\ thread'[u] = thread[u]
        BY <1>2, <2>1, Parts DEF RelayOK
      <3> QED BY <1>1, <3>1 DEF RelayThread, LateStays
    <2>2. \A p \in Posts : Handed(p)' => ~Early(p)'
      BY <1>1, <1>2, Parts DEF RelayOK, LateStays
    <2> QED BY <1>2, <2>1, <2>2 DEF RelayOK
  <1>3. CASE mode # "relay"
    BY <1>3, Parts DEF RelayOK
  <1> QED BY <1>2, <1>3

\* A thread's actions change.
LEMMA TodoSet ==
    ASSUME TransportBooks, NEW t \in Threads, NEW acts, ActsOK(acts), thread' = [thread EXCEPT ![t].todo = acts]
    PROVE  /\ ThreadsOK' /\ thread'[t].todo = acts /\ thread'[t].fin = thread[t].fin
           /\ \A u \in Threads : u # t => thread'[u] = thread[u]
PROOF
  <1> DEFINE x == [thread[t] EXCEPT !.todo = acts]
  <1>1. IsThread(thread[t]) /\ thread = [u \in Threads |-> thread[u]]
    BY Parts DEF ThreadsOK
  <1>2. thread' = [thread EXCEPT ![t] = x]
    BY <1>1
  <1>3. x \in [fin : {x.fin}, todo : {x.todo}] /\ x.todo = acts /\ x.fin = thread[t].fin
    BY <1>1 DEF IsThread
  <1> HIDE DEF x
  <1>4. IsThread(x)
    BY <1>1, <1>3 DEF IsThread
  <1> QED BY <1>2, <1>3, <1>4, ThreadSet

\* One action, to be performed directly or later.
LEMMA ActOne ==
    ASSUME NEW a, IsTarget(a)
    PROVE  /\ ActsOK(Direct(<<a>>)) /\ ActsOK(Later(<<a>>))
           /\ Len(Direct(<<a>>)) = 1 /\ Head(Direct(<<a>>)).to = a.to /\ Head(Direct(<<a>>)).msg = a.msg
           /\ Len(Later(<<a>>)) = 1 /\ Head(Later(<<a>>)).to = a.to
PROOF
  <1>1. ActsOK(Direct(<<a>>)) /\ ActsOK(Later(<<a>>))
    BY OneAct, Addressed
  <1>2. DOMAIN <<a>> = 1..1 /\ <<a>>[1] = a
    OBVIOUS
  <1>3. ASSUME NEW d, NEW f, f = [i \in DOMAIN <<a>> |-> [to |-> <<a>>[i].to, msg |-> <<a>>[i].msg, direct |-> d]]
        PROVE  Len(f) = 1 /\ Head(f).to = a.to /\ Head(f).msg = a.msg
    <2> DEFINE r == [to |-> a.to, msg |-> a.msg, direct |-> d]
    <2>1. r.to = a.to /\ r.msg = a.msg
      OBVIOUS
    <2>2. \A i \in 1..1 : <<a>>[i] = a
      BY <1>2
    <2>3. f = [i \in 1..1 |-> r]
      BY <1>2, <1>3, <2>2
    <2> HIDE DEF r
    <2>4. f \in Seq({r}) /\ DOMAIN f = 1..1 /\ f[1] = r
      BY <2>3
    <2>5. Len(f) = 1 /\ Head(f) = f[1]
      BY <2>4
    <2> QED BY <2>1, <2>4, <2>5
  <1>4. Len(Direct(<<a>>)) = 1 /\ Head(Direct(<<a>>)).to = a.to /\ Head(Direct(<<a>>)).msg = a.msg
    BY <1>3 DEF Direct
  <1>5. Len(Later(<<a>>)) = 1 /\ Head(Later(<<a>>)).to = a.to
    BY <1>3 DEF Later
  <1> QED BY <1>1, <1>4, <1>5

\* The gate lets a message through or refuses it.
LEMMA DecidesKeeps ==
    ASSUME TransportBooks, NEW p \in Posts, Decides(p)
    PROVE  TransportBooks'
PROOF
  <1> DEFINE msg == post[p].msg
             why == IF msg.method = "call" THEN Refuse(cat, Only, msg.tool) ELSE "ok"
             a == ToAgent(Reply(msg.id, why, p))
  <1>1. IsPost(post[p]) /\ Decidable(post[p], p) /\ post = [q \in Posts |-> post[q]] /\ Early(p) /\ post[p].phase = "decide"
    BY Parts DEF PostsOK, Decides, Early
  <1>2. UNCHANGED <<mode, st, cat, srv, hub, client, seen>>
    BY DEF Decides
  <1>3. RouterInv(st)' /\ CatOK' /\ ServersOK' /\ HubOK' /\ SeenKept
    BY <1>2, Frame
  <1>4. CASE post' = [post EXCEPT ![p].phase = "dispatch"] /\ UNCHANGED thread
    <2> DEFINE x == [post[p] EXCEPT !.phase = "dispatch"]
    <2>1. IsPost(x) /\ Decidable(x, p) /\ post' = [post EXCEPT ![p] = x]
      BY <1>1, <1>4 DEF IsPost, Decidable, Phases
    <2> HIDE DEF x
    <2>2. PostsOK' /\ LateStays
      BY <1>1, <2>1, PostSet
    <2> QED BY <1>2, <1>3, <1>4, <2>2, PostStep
  <1>5. CASE post' = [post EXCEPT ![p].phase = "perform"] /\ thread' = [thread EXCEPT ![p].todo = Direct(<<a>>)]
    <2> DEFINE x == [post[p] EXCEPT !.phase = "perform"]
               acts == Direct(<<a>>)
    <2>1. IsPost(x) /\ Decidable(x, p) /\ post' = [post EXCEPT ![p] = x] /\ x.phase = "perform"
      BY <1>1, <1>5 DEF IsPost, Decidable, Phases
    <2> HIDE DEF x
    <2>2. PostsOK' /\ LateStays
      BY <2>1, PostSet
    <2>3. a.to = "agent" /\ IsTarget(a)
      BY DEF ToAgent, IsTarget
    <2> HIDE DEF a
    <2>4. ActsOK(acts) /\ Len(acts) = 1 /\ Head(acts).to = "agent"
      BY <2>3, ActOne
    <2>5. p \in Threads /\ thread' = [thread EXCEPT ![p].todo = acts]
      BY <1>5 DEF Threads
    <2> HIDE DEF acts
    <2>6. ThreadsOK' /\ thread'[p].todo = acts /\ thread'[p].fin = thread[p].fin /\ \A u \in Threads : u # p => thread'[u] = thread[u]
      BY <2>4, <2>5, TodoSet
    <2>7. mode = "relay" => RelayThread(p)'
      <3>1. mode = "relay" => thread[p].fin = <<>>
        BY <2>5, Parts DEF RelayOK, RelayThread
      <3> QED BY <2>4, <2>6, <3>1 DEF RelayThread
    <2>8. RelayOK'
      BY <1>2, <2>2, <2>5, <2>6, <2>7, RelayThreadSet
    <2> QED BY <1>2, <1>3, <2>2, <2>6, <2>8, ThreadStepKeeps
  <1> QED BY <1>4, <1>5 DEF Decides

\* A message is dispatched, or handed to the one server.
LEMMA DispatchesKeeps ==
    ASSUME TransportBooks, NEW p \in Posts, Dispatches(p)
    PROVE  TransportBooks'
PROOF
  <1> DEFINE msg == post[p].msg
             routed == Dispatch(st, cat, msg)
             kept(acts) == IF post[p].cut THEN <<>> ELSE acts
  <1>1. IsPost(post[p]) /\ post = [q \in Posts |-> post[q]] /\ Early(p) /\ msg.method \in Methods /\ msg.origin = p /\ p \in Threads
    BY Parts DEF PostsOK, Dispatches, Early, Decidable, Threads
  <1>2. UNCHANGED <<mode, cat, srv, client, seen>> /\ post' = [post EXCEPT ![p].phase = "perform"]
    BY DEF Dispatches
  <1>3. CatOK' /\ ServersOK' /\ SeenKept
    BY <1>2, Frame
  <1>4. PostsOK' /\ LateStays /\ ~Early(p)'
    <2> DEFINE x == [post[p] EXCEPT !.phase = "perform"]
    <2>1. IsPost(x) /\ Decidable(x, p) /\ post' = [post EXCEPT ![p] = x] /\ x.phase = "perform"
      BY <1>1, <1>2 DEF IsPost, Decidable, Phases
    <2> HIDE DEF x
    <2>2. PostsOK' /\ LateStays
      BY <2>1, PostSet
    <2>3. post'[p] = x
      BY <1>1, <2>1
    <2> QED BY <2>1, <2>2, <2>3 DEF Early
  <1>5. CASE Routed
    <2> DEFINE x == [fin |-> Finishing(routed.fin, TRUE, FALSE), todo |-> kept(Direct(routed.acts))]
    <2>1. st' = routed.st /\ thread' = [thread EXCEPT ![p] = x] /\ hub' = hub /\ mode # "relay"
      BY <1>5 DEF Dispatches, Routed
    <2>2. OutOK(routed)
      <3>1. CatalogOK(cat) /\ RouterInv(st)
        BY <1>5, Parts DEF CatOK
      <3> QED BY <1>1, <3>1, Dispatched
    <2> HIDE DEF routed
    <2>3. RouterInv(routed.st) /\ ActsOK(kept(Direct(routed.acts))) /\ FinishingOK(Finishing(routed.fin, TRUE, FALSE))
      BY <2>2, Addressed, Finished, NoActs DEF OutOK
    <2>4. IsThread(x)
      BY <2>3 DEF IsThread
    <2> HIDE DEF x
    <2>5. ThreadsOK' /\ \A u \in Threads : u # p => thread'[u] = thread[u]
      BY <1>1, <2>1, <2>4, ThreadSet
    <2>6. RouterInv(st)'
      BY <2>1, <2>3
    <2>7. HubOK' /\ RelayOK'
      BY <1>1, <1>2, <1>4, <2>1, <2>5, Frame, RelayThreadSet
    <2> QED BY <1>2, <1>3, <1>4, <2>5, <2>6, <2>7, ThreadStepKeeps
  <1>6. CASE ~Routed
    <2> DEFINE a == ToUpstream(Only, msg)
               acts == kept(Direct(<<a>>))
               l == hub.listed \cup {msg.id}
    <2>1. st' = st /\ thread' = [thread EXCEPT ![p].todo = acts] /\ hub' = (IF msg.method = "list" THEN [hub EXCEPT !.listed = l] ELSE hub)
      BY <1>6 DEF Dispatches
    <2>2. a.msg = msg /\ IsTarget(a)
      BY ServersOnce DEF ToUpstream, IsTarget
    <2> HIDE DEF a
    <2>3. ActsOK(acts) /\ Len(acts) <= 1 /\ (acts # <<>> => Head(acts).msg = msg)
      <3>1. ActsOK(Direct(<<a>>)) /\ Len(Direct(<<a>>)) = 1 /\ Head(Direct(<<a>>)).msg = msg
        BY <2>2, ActOne
      <3> DEFINE d == Direct(<<a>>)
      <3>2. ActsOK(d) /\ Len(d) = 1 /\ Head(d).msg = msg
        BY <3>1, Zenon
      <3> HIDE DEF d
      <3>3. CASE post[p].cut
        <4>1. acts = <<>>
          BY <3>3
        <4> HIDE DEF acts
        <4> QED BY <4>1, NoActs
      <3>4. CASE ~post[p].cut
        <4>1. acts = d
          BY <3>4 DEF d
        <4> HIDE DEF acts
        <4>2. ActsOK(acts) /\ Len(acts) = 1 /\ Head(acts).msg = msg
          BY <3>2, <4>1, Zenon
        <4>3. Len(acts) <= 1
          BY <4>2
        <4> QED BY <4>2, <4>3, Zenon
      <3> QED BY <3>3, <3>4
    <2> HIDE DEF acts, l
    <2>4. ThreadsOK' /\ thread'[p].todo = acts /\ thread'[p].fin = thread[p].fin /\ \A u \in Threads : u # p => thread'[u] = thread[u]
      BY <1>1, <2>1, <2>3, TodoSet
    <2>5. HubOK'
      BY <2>1, Parts DEF HubOK, HubShape
    <2>6. mode = "relay" => RelayThread(p)'
      <3>1. mode = "relay" => thread[p].fin = <<>> /\ ~Handed(p)
        BY <1>1, Parts DEF RelayOK, RelayThread
      <3>2. mode = "relay" => ~Handed(p)'
        BY <1>2, <3>1 DEF Handed
      <3> QED BY <1>1, <1>4, <2>3, <2>4, <3>1, <3>2 DEF RelayThread
    <2>7. RouterInv(st)' /\ RelayOK'
      BY <1>1, <1>2, <1>4, <2>1, <2>4, <2>6, Frame, RelayThreadSet
    <2> QED BY <1>2, <1>3, <1>4, <2>4, <2>5, <2>7, ThreadStepKeeps
  <1> QED BY <1>5, <1>6

\* finish_listing: a thread observes one server's tools.
LEMMA FinishesKeeps ==
    ASSUME TransportBooks, NEW t \in Threads, Finishes(t)
    PROVE  TransportBooks'
PROOF
  <1> DEFINE f == Head(thread[t].fin)
             s == NextServer(f.tools)
             o == IF DOMAIN f.tools = {} THEN Observe(cat, Only, <<>>) ELSE Observe(cat, s, f.tools[s])
             left == IF DOMAIN f.tools = {} THEN f.tools ELSE Forget(f.tools, {s})
             visible == f.visible \o o.visible
             answer == [to |-> "agent", direct |-> f.direct,
                        msg |-> [Reply(f.agent.id, "result", f.agent.origin) EXCEPT !.tools = visible]]
             rest == thread[t].todo
             answered == IF f.agent = NoAgent \/ (t \in Posts /\ post[t].cut) THEN rest
                         ELSE IF f.front THEN <<answer>> \o rest ELSE Append(rest, answer)
             x == IF DOMAIN left # {} THEN [thread[t] EXCEPT !.fin[1].tools = left, !.fin[1].visible = visible]
                  ELSE [fin |-> Tail(thread[t].fin), todo |-> answered]
  <1>1. UNCHANGED <<mode, st, post, srv, hub, client, seen>>
    BY DEF Finishes
  <1>2. IsThread(thread[t]) /\ thread = [u \in Threads |-> thread[u]]
    BY Parts DEF ThreadsOK
  <1>3. cat' = o.cat /\ thread' = [thread EXCEPT ![t] = x] /\ thread[t].fin # <<>>
    BY <1>2 DEF Finishes
  <1>4. mode # "relay"
    BY <1>3, Parts DEF RelayOK, RelayThread
  <1>5. IsFinishing(f) /\ f = thread[t].fin[1] /\ FinishingOK(Tail(thread[t].fin)) /\ FinishingOK(thread[t].fin) /\ ActsOK(rest)
    BY <1>2, <1>3, FinishingHead DEF IsThread
  <1>6. ToolsOK(f.tools) /\ DOMAIN f.tools \subseteq ServerSet
    BY <1>5 DEF IsFinishing, ToolsOK
  <1>7. DOMAIN f.tools # {} => s \in DOMAIN f.tools
    BY <1>6, NextServerIs
  <1>8. CatOK'
    <2>1. CASE Routed
      <3>1. CatalogOK(cat)
        BY <2>1, Parts DEF CatOK
      <3>2. IsSeq(<<>>) /\ Only \in ServerSet
        <4>1. <<>> \in Seq({})
          OBVIOUS
        <4> QED BY <4>1, ServersOnce, Zenon DEF IsSeq
      <3>3. SeenOK(o)
        <4>1. CASE DOMAIN f.tools = {}
          BY <3>1, <3>2, <4>1, ObserveOK
        <4>2. CASE DOMAIN f.tools # {}
          <5>1. s \in ServerSet /\ IsSeq(f.tools[s])
            BY <1>6, <1>7, <4>2 DEF ToolsOK
          <5> HIDE DEF s, f
          <5> QED BY <3>1, <4>2, <5>1, ObserveOK
        <4> QED BY <4>1, <4>2
      <3> HIDE DEF o
      <3>4. CatalogOK(o.cat)
        BY <3>3 DEF SeenOK
      <3> QED BY <1>3, <3>4 DEF CatOK
    <2>2. CASE ~Routed
      BY <1>1, <2>2, Frame
    <2> QED BY <2>1, <2>2
  <1>9. ToolsOK(left)
    <2>1. CASE DOMAIN f.tools = {}
      BY <1>6, <2>1
    <2>2. CASE DOMAIN f.tools # {}
      <3>1. left = Forget(f.tools, {s})
        BY <2>2
      <3>2. DOMAIN left \subseteq DOMAIN f.tools /\ \A k \in DOMAIN left : left[k] = f.tools[k]
        BY <3>1 DEF Forget, Restrict
      <3> HIDE DEF left, f
      <3> QED BY <1>6, <3>2 DEF ToolsOK
    <2> QED BY <2>1, <2>2
  <1>10. ActsOK(answered)
    <2>1. IsTarget(answer)
      BY DEF IsTarget
    <2> HIDE DEF answer, f
    <2>2. ActsOK(<<answer>> \o rest) /\ ActsOK(Append(rest, answer))
      BY <1>5, <2>1, OneAct, Joined, Appended
    <2> HIDE DEF rest
    <2> QED BY <1>5, <2>2
  <1> HIDE DEF left, answered, visible, o
  <1>11. IsThread(x)
    <2>1. CASE DOMAIN left # {}
      <3> DEFINE g == [f EXCEPT !.tools = left, !.visible = visible]
                 q == [thread[t].fin EXCEPT ![1] = g]
      <3>1. IsFinishing(g)
        <4> HIDE DEF f
        <4> QED BY <1>5, <1>9 DEF IsFinishing
      <3>2. x = [thread[t] EXCEPT !.fin = q]
        <4>1. x = [thread[t] EXCEPT !.fin[1].tools = left, !.fin[1].visible = visible]
          BY <2>1
        <4>2. thread[t] \in [fin : {thread[t].fin}, todo : {thread[t].todo}]
          BY <1>2 DEF IsThread
        <4>3. PICK T : thread[t].fin \in Seq(T)
          BY <1>5 DEF FinishingOK
        <4>4. 1 \in DOMAIN thread[t].fin
          BY <1>3, <4>3
        <4>5. [thread[t].fin EXCEPT ![1].tools = left, ![1].visible = visible] = q
          BY <1>5, <4>3, <4>4 DEF IsFinishing
        <4> HIDE DEF x, q
        <4> QED BY <4>1, <4>2, <4>4, <4>5 DEF IsFinishing
      <3> HIDE DEF g, x
      <3>3. FinishingOK(q)
        BY <1>3, <1>5, <3>1, FinishingSet
      <3> HIDE DEF q
      <3> QED BY <1>2, <3>2, <3>3 DEF IsThread
    <2>2. CASE DOMAIN left = {}
      <3>1. x = [fin |-> Tail(thread[t].fin), todo |-> answered]
        BY <2>2
      <3> HIDE DEF x
      <3> QED BY <1>5, <1>10, <3>1 DEF IsThread
    <2> QED BY <2>1, <2>2
  <1> HIDE DEF x
  <1>12. ThreadsOK' /\ \A u \in Threads : u # t => thread'[u] = thread[u]
    BY <1>3, <1>11, ThreadSet
  <1>13. RouterInv(st)' /\ PostsOK' /\ LateStays /\ ServersOK' /\ HubOK' /\ SeenKept
    BY <1>1, Frame
  <1>14. RelayOK'
    BY <1>1, <1>4, <1>12, <1>13, RelayThreadSet
  <1> QED BY <1>1, <1>8, <1>12, <1>13, <1>14, ThreadStepKeeps

\* Something of an agent message changes that says nothing of its way.
LEMMA PostField ==
    ASSUME TransportBooks, NEW q, NEW x, post' = [post EXCEPT ![q] = x],
           q \in Posts => IsPost(x) /\ x.phase = post[q].phase /\ x.msg = post[q].msg
    PROVE  PostsOK' /\ LateStays
PROOF
  <1>1. post = [p \in Posts |-> post[p]] /\ \A p \in Posts : Decidable(post[p], p)
    BY Parts DEF PostsOK
  <1>2. CASE q \in Posts
    <2>1. Decidable(x, q)
      BY <1>1, <1>2 DEF Decidable
    <2>2. Early(q) \/ x.phase \notin {"new", "decide", "dispatch"}
      BY <1>2 DEF Early
    <2> QED BY <1>2, <2>1, <2>2, PostSet
  <1>3. CASE q \notin Posts
    <2>1. post' = post
      BY <1>1, <1>3
    <2> QED BY <2>1, Parts DEF PostsOK, LateStays, Early
  <1> QED BY <1>2, <1>3

\* A reply is given to the POST that waits for it.
LEMMA WaiterGiven ==
    ASSUME TransportBooks, NEW reply, GivesWaiter(reply)
    PROVE  PostsOK' /\ LateStays /\ HubOK'
PROOF
  <1>1. post = [p \in Posts |-> post[p]] /\ \A p \in Posts : IsPost(post[p])
    BY Parts DEF PostsOK
  <1> DEFINE w == Forget(hub.waiters, {reply.id})
             l == IF mode = "relay" THEN hub.listed \ {reply.id} ELSE hub.listed
  <1>2. DOMAIN w \subseteq DOMAIN hub.waiters
    BY DEF Forget, Restrict
  <1>3. hub' = [hub EXCEPT !.waiters = w, !.listed = l]
    BY Parts DEF GivesWaiter, HubOK, HubShape
  <1> HIDE DEF w, l
  <1>4. HubOK'
    BY <1>2, <1>3, Parts DEF HubOK, HubShape
  <1>5. CASE reply.id \in DOMAIN hub.waiters
    <2> DEFINE q == hub.waiters[reply.id]
               x == [post[q] EXCEPT !.reply = reply]
    <2>1. post' = [post EXCEPT ![q].reply = reply]
      BY <1>5 DEF GivesWaiter
    <2> HIDE DEF q
    <2>2. q \in Posts => IsPost(x) /\ x.phase = post[q].phase /\ x.msg = post[q].msg
      BY <1>1 DEF IsPost
    <2>3. post' = [post EXCEPT ![q] = x]
      BY <1>1, <2>1
    <2> HIDE DEF x
    <2> QED BY <1>4, <2>2, <2>3, PostField
  <1>6. CASE reply.id \notin DOMAIN hub.waiters
    <2>1. post' = post
      BY <1>6 DEF GivesWaiter
    <2> QED BY <1>4, <2>1, Parts DEF PostsOK, LateStays, Early
  <1> QED BY <1>5, <1>6

\* The first action of a thread is done.
LEMMA ActDone ==
    ASSUME TransportBooks, NEW t \in Threads, thread[t].todo # <<>>, thread' = Rest(t)
    PROVE  /\ ThreadsOK' /\ \A u \in Threads : u # t => thread'[u] = thread[u]
           /\ IsTarget(Head(thread[t].todo))
           /\ mode = "relay" => thread'[t].fin = <<>> /\ thread'[t].todo = <<>>
PROOF
  <1> DEFINE acts == Tail(thread[t].todo)
  <1>1. IsThread(thread[t]) /\ thread = [u \in Threads |-> thread[u]]
    BY Parts DEF ThreadsOK
  <1>2. ActsOK(acts) /\ IsTarget(Head(thread[t].todo)) /\ Len(acts) = Len(thread[t].todo) - 1 /\ Len(thread[t].todo) \in Nat
    BY <1>1, Rested DEF IsThread
  <1>3. thread' = [thread EXCEPT ![t].todo = acts]
    BY DEF Rest
  <1>4. mode = "relay" => thread[t].fin = <<>> /\ Len(thread[t].todo) <= 1
    BY Parts DEF RelayOK, RelayThread
  <1> HIDE DEF acts
  <1>5. mode = "relay" => acts = <<>>
    <2>1. mode = "relay" => Len(acts) <= 0
      BY <1>2, <1>4
    <2>2. PICK T : acts \in Seq(T)
      BY <1>2 DEF ActsOK
    <2> QED BY <2>1, <2>2
  <1> QED BY <1>2, <1>3, <1>4, <1>5, TodoSet

\* A thread answers the agent.
LEMMA PerformsAnswerKeeps ==
    ASSUME TransportBooks, NEW t \in Threads, PerformsAnswer(t)
    PROVE  TransportBooks'
PROOF
  <1> DEFINE a == Head(thread[t].todo)
  <1>1. UNCHANGED <<mode, st, cat, srv, client>> /\ thread' = Rest(t) /\ thread[t].todo # <<>>
    BY DEF PerformsAnswer
  <1>2. /\ ThreadsOK' /\ \A u \in Threads : u # t => thread'[u] = thread[u]
        /\ mode = "relay" => thread'[t].fin = <<>> /\ thread'[t].todo = <<>>
    BY <1>1, ActDone
  <1>3. RouterInv(st)' /\ CatOK' /\ ServersOK'
    BY <1>1, Frame
  <1>4. mode = "relay" => RelayThread(t)'
    BY <1>2 DEF RelayThread
  <1>5. ASSUME PostsOK', LateStays, HubOK', SeenKept PROVE TransportBooks'
    <2>1. RelayOK'
      BY <1>1, <1>2, <1>4, <1>5, RelayThreadSet
    <2> QED BY <1>1, <1>2, <1>3, <1>5, <2>1, ThreadStepKeeps
  <1>6. CASE mode = "stdio"
    <2>1. post' = post /\ hub' = hub /\ (seen' = seen \/ seen' = Answered(a.msg.id, a.msg))
      BY <1>6 DEF PerformsAnswer
    <2>2. SeenKept
      BY <1>1, <2>1, Frame, SeenStays
    <2> QED BY <1>1, <1>5, <2>1, <2>2, Frame
  <1>7. CASE mode # "stdio" /\ a.direct
    <2>1. hub' = hub /\ seen' = seen /\ post' = (IF post[t].direct = None THEN [post EXCEPT ![t].direct = a.msg] ELSE post)
      BY <1>7 DEF PerformsAnswer
    <2>2. PostsOK' /\ LateStays
      <3>1. CASE post' = post
        BY <1>1, <3>1, Frame
      <3>2. CASE post' = [post EXCEPT ![t].direct = a.msg]
        <4> DEFINE x == [post[t] EXCEPT !.direct = a.msg]
        <4>1. post = [p \in Posts |-> post[p]] /\ \A p \in Posts : IsPost(post[p])
          BY Parts DEF PostsOK
        <4>2. t \in Posts => IsPost(x) /\ x.phase = post[t].phase /\ x.msg = post[t].msg
          BY <4>1 DEF IsPost
        <4>3. post' = [post EXCEPT ![t] = x]
          BY <3>2, <4>1
        <4> HIDE DEF x
        <4> QED BY <4>2, <4>3, PostField
      <3> QED BY <2>1, <3>1, <3>2
    <2> QED BY <1>1, <1>5, <2>1, <2>2, Frame
  <1>8. CASE mode # "stdio" /\ ~a.direct
    <2>1. GivesWaiter(a.msg) /\ seen' = seen
      BY <1>8 DEF PerformsAnswer
    <2>2. PostsOK' /\ LateStays /\ HubOK'
      BY <2>1, WaiterGiven
    <2> QED BY <1>1, <1>5, <2>1, <2>2, Frame
  <1> QED BY <1>6, <1>7, <1>8

\* A message is queued for the HTTP client.
LEMMA QueuedKeeps ==
    ASSUME TransportBooks, NEW t \in Threads, thread[t].todo # <<>>, thread' = Rest(t), mode = "relay",
           Head(thread[t].todo).to # "agent", UNCHANGED <<mode, st, cat, post, srv, hub, seen>>,
           client' = [client EXCEPT !.queue = Append(@, Head(thread[t].todo).msg), !.busy = @ + 1]
    PROVE  TransportBooks'
PROOF
  <1> DEFINE a == Head(thread[t].todo)
             q == Append(client.queue, a.msg)
             k == client.busy + 1
             n == Len(client.queue)
  <1>1. t \in Posts /\ a.msg.origin = t /\ ~Early(t) /\ ~Handed(t)
    BY Parts DEF RelayOK, RelayThread
  <1>2. /\ ThreadsOK' /\ \A u \in Threads : u # t => thread'[u] = thread[u]
        /\ thread'[t].fin = <<>> /\ thread'[t].todo = <<>>
    BY ActDone
  <1>3. ClientOK /\ ClientShape(client) /\ client' = [client EXCEPT !.queue = q, !.busy = k]
    BY Parts DEF ClientOK
  <1>4. k \in Nat /\ Cardinality(client.running) \in Nat
    <2>1. client.busy \in Nat /\ IsFiniteSet(client.running)
      BY <1>3 DEF ClientOK, ClientShape
    <2> QED BY <2>1, FS_CardinalityType
  <1>5. PICK T : client.queue \in Seq(T)
    BY <1>3 DEF ClientOK, IsSeq
  <1>6. /\ n \in Nat /\ Len(q) = n + 1 /\ q[n + 1] = a.msg /\ \A i \in 1..n : q[i] = client.queue[i]
        /\ q \in Seq(T \cup {a.msg})
    <2> HIDE DEF a
    <2> QED BY <1>5
  <1>7. IsSeq(q)
    BY <1>6 DEF IsSeq
  <1> HIDE DEF q, k
  <1>8. /\ ClientShape(client') /\ client'.queue = q /\ client'.busy = k /\ client'.running = client.running
        /\ client'.session = client.session /\ client'.inits = client.inits
    BY <1>3, <1>4 DEF ClientShape
  <1>9. \A p : Handed(p)' <=> Handed(p) \/ p = t
    <2>1. \A p : (\E i \in 1..Len(q) : q[i].origin = p) <=> (\E i \in 1..n : client.queue[i].origin = p) \/ p = t
      <3>1. \A i \in 1..(n + 1) : i = n + 1 \/ i \in 1..n
        BY <1>6
      <3>2. n + 1 \in 1..Len(q) /\ 1..n \subseteq 1..Len(q)
        BY <1>6
      <3> QED BY <1>1, <1>6, <3>1, <3>2
    <2> QED BY <1>8, <2>1 DEF Handed
  <1>10. ClientOK'
    <2>1. client'.busy = Len(client'.queue) + Cardinality(client'.running)
      BY <1>3, <1>4, <1>6, <1>8 DEF ClientOK, k
    <2>2. ASSUME NEW i \in 1..Len(q), NEW j \in 1..Len(q), q[i].origin = q[j].origin PROVE i = j
      <3>1. CASE i = n + 1 \/ j = n + 1
        <4>1. \A m \in 1..n : q[m].origin # t
          BY <1>1, <1>6 DEF Handed
        <4> QED BY <1>1, <1>6, <2>2, <3>1, <4>1
      <3>2. CASE i # n + 1 /\ j # n + 1
        <4>1. i \in 1..n /\ j \in 1..n
          BY <1>6, <3>2
        <4> QED BY <1>3, <1>6, <2>2, <4>1 DEF ClientOK
      <3> QED BY <3>1, <3>2
    <2>3. ASSUME NEW i \in 1..Len(q), NEW x \in client.running PROVE q[i].origin # x.msg.origin
      <3>1. CASE i = n + 1
        BY <1>1, <1>6, <3>1 DEF Handed
      <3>2. CASE i # n + 1
        BY <1>3, <1>6, <3>2 DEF ClientOK
      <3> QED BY <3>1, <3>2
    <2> QED BY <1>3, <1>7, <1>8, <2>1, <2>2, <2>3 DEF ClientOK
  <1>11. RelayOK'
    <2>1. \A p : Early(p)' = Early(p)
      BY DEF Early
    <2>2. ASSUME NEW u \in Threads PROVE RelayThread(u)'
      <3>1. CASE u = t
        BY <1>2, <3>1 DEF RelayThread
      <3>2. CASE u # t
        <4>1. RelayThread(u) /\ thread'[u] = thread[u]
          BY <1>2, <3>2, Parts DEF RelayOK
        <4> QED BY <1>9, <2>1, <3>2, <4>1 DEF RelayThread
      <3> QED BY <3>1, <3>2
    <2>3. \A p \in Posts : Handed(p)' => ~Early(p)'
      BY <1>1, <1>9, <2>1, Parts DEF RelayOK
    <2> QED BY <2>2, <2>3 DEF RelayOK
  <1>12. SeenKept /\ ExchangesStay
    BY <1>8, Frame DEF ExchangesStay
  <1>13. SessionOK'
    BY <1>12, SessionFrame
  <1>14. mode' \in Modes /\ RouterInv(st)' /\ CatOK' /\ PostsOK' /\ ServersOK' /\ HubOK'
    BY Frame
  <1> QED BY <1>2, <1>10, <1>11, <1>13, <1>14, Together

\* A message that cannot be sent is answered by the router, or reported.
LEMMA FailsKeeps ==
    ASSUME TransportBooks, NEW t \in Threads, thread[t].todo # <<>>, mode # "relay", NEW s \in ServerSet, NEW msg,
           FailsToSend(t, s, msg), UNCHANGED <<mode, cat, post, hub, srv, client, seen>>
    PROVE  TransportBooks'
PROOF
  <1> DEFINE rest == Tail(thread[t].todo)
             gone == ServerGone(st, s)
             failed == OnRoutedError(st, msg)
  <1>1. IsThread(thread[t]) /\ thread = [u \in Threads |-> thread[u]]
    BY Parts DEF ThreadsOK
  <1>2. ActsOK(rest)
    BY <1>1, Rested DEF IsThread
  <1>3. OutOK(gone) /\ OutOK(failed)
    BY Parts, GoneRouted, ErrorRouted
  <1>4. CatOK' /\ PostsOK' /\ LateStays /\ ServersOK' /\ HubOK' /\ SeenKept
    BY Frame
  <1>5. ASSUME RouterInv(st)', NEW x, IsThread(x), thread' = [thread EXCEPT ![t] = x] PROVE TransportBooks'
    <2>1. ThreadsOK' /\ \A u \in Threads : u # t => thread'[u] = thread[u]
      BY <1>5, ThreadSet
    <2>2. RelayOK'
      BY <1>4, <2>1, RelayThreadSet
    <2> QED BY <1>4, <1>5, <2>1, <2>2, ThreadStepKeeps
  <1>6. CASE mode = "stdio"
    <2> DEFINE x == [fin |-> Finishing(gone.fin, FALSE, FALSE), todo |-> rest \o Later(gone.acts)]
    <2>1. st' = gone.st /\ thread' = [thread EXCEPT ![t] = x]
      BY <1>6 DEF FailsToSend
    <2> HIDE DEF gone, rest
    <2>2. RouterInv(gone.st) /\ ActsOK(rest \o Later(gone.acts)) /\ FinishingOK(Finishing(gone.fin, FALSE, FALSE))
      BY <1>2, <1>3, Addressed, Finished, Joined DEF OutOK
    <2>3. IsThread(x)
      BY <2>2 DEF IsThread
    <2> HIDE DEF x
    <2>4. RouterInv(st)'
      BY <2>1, <2>2
    <2> QED BY <1>5, <2>1, <2>3, <2>4
  <1>7. CASE mode = "listen"
    <2> DEFINE x == [fin |-> Finishing(failed.fin, FALSE, TRUE), todo |-> Later(failed.acts) \o rest]
    <2>1. st' = failed.st /\ thread' = [thread EXCEPT ![t] = x]
      BY <1>7 DEF FailsToSend
    <2> HIDE DEF failed, rest
    <2>2. RouterInv(failed.st) /\ ActsOK(Later(failed.acts) \o rest) /\ FinishingOK(Finishing(failed.fin, FALSE, TRUE))
      BY <1>2, <1>3, Addressed, Finished, Joined DEF OutOK
    <2>3. IsThread(x)
      BY <2>2 DEF IsThread
    <2> HIDE DEF x
    <2>4. RouterInv(st)'
      BY <2>1, <2>2
    <2> QED BY <1>5, <2>1, <2>3, <2>4
  <1>8. CASE mode \notin {"stdio", "listen"}
    <2> DEFINE a == ToAgent(Reply(msg.id, "upstream_unavailable", msg.origin))
               acts == IF msg.id = NoId THEN rest ELSE Later(<<a>>) \o rest
    <2>1. st' = st /\ thread' = [thread EXCEPT ![t].todo = acts]
      BY <1>8 DEF FailsToSend
    <2>2. IsTarget(a)
      BY DEF IsTarget, ToAgent
    <2> HIDE DEF a, rest
    <2>3. ActsOK(Later(<<a>>) \o rest)
      BY <1>2, <2>2, ActOne, Joined
    <2>4. ActsOK(acts)
      BY <1>2, <2>3
    <2> HIDE DEF acts
    <2>5. ThreadsOK' /\ \A u \in Threads : u # t => thread'[u] = thread[u]
      BY <2>1, <2>4, TodoSet
    <2>6. RouterInv(st)' /\ RelayOK'
      BY <1>4, <2>1, <2>5, Frame, RelayThreadSet
    <2> QED BY <1>4, <2>5, <2>6, ThreadStepKeeps
  <1> QED BY <1>6, <1>7, <1>8

\* A thread sends a message to a server.
LEMMA PerformsSendKeeps ==
    ASSUME TransportBooks, NEW t \in Threads, PerformsSend(t)
    PROVE  TransportBooks'
PROOF
  <1> DEFINE a == Head(thread[t].todo)
             s == a.to
  <1>1. thread[t].todo # <<>> /\ s # "agent" /\ UNCHANGED <<mode, cat, post, hub>>
    BY DEF PerformsSend
  <1>2. s \in ServerSet
    <2>1. ActsOK(thread[t].todo)
      BY Parts DEF ThreadsOK, IsThread
    <2> QED BY <1>1, <2>1, Rested DEF IsTarget
  <1>3. CASE mode = "relay"
    <2>1. /\ client' = (IF client.closed THEN client ELSE [client EXCEPT !.queue = Append(@, a.msg), !.busy = @ + 1])
          /\ thread' = Rest(t) /\ UNCHANGED <<st, srv, seen>>
      BY <1>3 DEF PerformsSend
    <2>2. CASE client' = client
      <3>1. /\ ThreadsOK' /\ \A u \in Threads : u # t => thread'[u] = thread[u]
            /\ mode = "relay" => thread'[t].fin = <<>> /\ thread'[t].todo = <<>>
        BY <1>1, <2>1, ActDone
      <3>2. RouterInv(st)' /\ CatOK' /\ PostsOK' /\ LateStays /\ ServersOK' /\ HubOK' /\ SeenKept
        BY <1>1, <2>1, Frame
      <3>3. mode = "relay" => RelayThread(t)'
        BY <3>1 DEF RelayThread
      <3>4. RelayOK'
        BY <1>1, <2>2, <3>1, <3>2, <3>3, RelayThreadSet
      <3> QED BY <1>1, <2>2, <3>1, <3>2, <3>4, ThreadStepKeeps
    <2>3. CASE client' = [client EXCEPT !.queue = Append(@, a.msg), !.busy = @ + 1]
      BY <1>1, <1>3, <2>1, <2>3, QueuedKeeps
    <2> QED BY <2>1, <2>2, <2>3
  <1>4. CASE mode # "relay" /\ srv[s].alive /\ srv[s].stdin
    <2> DEFINE i == IF a.msg.method \in {"notification", "refusal"} THEN srv[s].inbox ELSE srv[s].inbox \cup {a.msg}
               n == seen.sent \cup (IF a.msg.method \in {"call", "other", "cancelled"} THEN {<<a.msg.method, a.msg.origin, s, a.msg>>} ELSE {})
               x == [srv[s] EXCEPT !.inbox = i]
    <2>1. srv' = [srv EXCEPT ![s].inbox = i] /\ seen' = [seen EXCEPT !.sent = n] /\ thread' = Rest(t) /\ UNCHANGED <<st, client>>
      <3>1. srv = [r \in ServerSet |-> srv[r]] /\ SeenShape(seen)
        BY Parts DEF ServersOK, SessionOK
      <3> QED BY <1>2, <1>4, <3>1 DEF PerformsSend, SeenShape
    <2> HIDE DEF i, n, a, s
    <2>2. IsServer(srv[s]) /\ srv = [r \in ServerSet |-> srv[r]]
      BY <1>2, Parts DEF ServersOK
    <2>3. IsServer(x) /\ srv' = [srv EXCEPT ![s] = x]
      BY <1>2, <2>1, <2>2 DEF IsServer
    <2> HIDE DEF x
    <2>4. ServersOK'
      BY <1>1, <1>2, <1>4, <2>3, ServerSetOne
    <2>5. SeenKept
      BY <2>1, Parts DEF SessionOK, SeenShape, SeenKept
    <2>6. ThreadsOK' /\ \A u \in Threads : u # t => thread'[u] = thread[u]
      BY <1>1, <2>1, ActDone
    <2>7. RouterInv(st)' /\ CatOK' /\ PostsOK' /\ LateStays /\ HubOK'
      BY <1>1, <2>1, Frame
    <2>8. RelayOK'
      BY <1>1, <1>4, <2>1, <2>6, <2>7, RelayThreadSet
    <2> QED BY <1>1, <2>1, <2>4, <2>5, <2>6, <2>7, <2>8, ThreadStepKeeps
  <1>5. CASE mode # "relay" /\ ~(srv[s].alive /\ srv[s].stdin)
    <2>1. FailsToSend(t, s, a.msg) /\ UNCHANGED <<srv, client, seen>>
      BY <1>5 DEF PerformsSend
    <2> QED BY <1>1, <1>2, <1>5, <2>1, FailsKeeps
  <1> QED BY <1>3, <1>4, <1>5

\* The servers, or what was seen, change.
LEMMA ServerStepKeeps ==
    ASSUME TransportBooks, UNCHANGED <<mode, st, cat, post, thread, client>>, ServersOK', HubOK', SeenKept
    PROVE  TransportBooks'
PROOF
  <1>1. RouterInv(st)' /\ CatOK' /\ PostsOK' /\ LateStays /\ ThreadsOK'
    BY Frame
  <1>2. RelayOK'
    BY <1>1, RelayFrame
  <1> QED BY <1>1, <1>2, ThreadStepKeeps

\* The ingress of a server reads a line.
LEMMA ReadsKeeps ==
    ASSUME TransportBooks, NEW s \in ServerSet, Reads(s)
    PROVE  TransportBooks'
PROOF
  <1> DEFINE line == Head(srv[s].out)
             routed == OnRoutedLine(st, s, line)
             one == RelayOne(Reply(line.id, "result", line.origin), line.page)
  <1>1. /\ srv[s].ingress = "reading" /\ thread[s] = AtRest /\ srv[s].out # <<>>
        /\ srv' = [srv EXCEPT ![s].out = Tail(@)] /\ UNCHANGED <<mode, post, client, seen>> /\ s \in Threads
    BY DEF Reads, Threads
  <1>2. IsServer(srv[s]) /\ srv = [r \in ServerSet |-> srv[r]] /\ mode # "relay"
    BY <1>1, Parts DEF ServersOK
  <1>3. IsLine(line) /\ LinesOK(Tail(srv[s].out))
    BY <1>1, <1>2, LineRead DEF IsServer
  <1>4. ServersOK'
    <2> DEFINE q == Tail(srv[s].out)
               x == [srv[s] EXCEPT !.out = q]
    <2>1. srv' = [srv EXCEPT ![s] = x]
      BY <1>1, <1>2
    <2> HIDE DEF q
    <2>2. IsServer(x)
      BY <1>2, <1>3 DEF IsServer, q
    <2> HIDE DEF x
    <2> QED BY <1>1, <1>2, <2>1, <2>2, ServerSetOne
  <1>5. PostsOK' /\ LateStays /\ SeenKept
    BY <1>1, Frame
  <1>6. CASE Routed
    <2> DEFINE x == [fin |-> Finishing(routed.fin, FALSE, FALSE), todo |-> Later(routed.acts)]
    <2>1. st' = routed.st /\ thread' = [thread EXCEPT ![s] = x] /\ UNCHANGED <<cat, hub>>
      BY <1>6 DEF Reads
    <2>2. OutOK(routed)
      BY <1>3, Parts, LineRouted
    <2> HIDE DEF routed
    <2>3. RouterInv(routed.st) /\ ActsOK(Later(routed.acts)) /\ FinishingOK(Finishing(routed.fin, FALSE, FALSE))
      BY <2>2, Addressed, Finished DEF OutOK
    <2>4. IsThread(x)
      BY <2>3 DEF IsThread
    <2> HIDE DEF x
    <2>5. ThreadsOK' /\ \A u \in Threads : u # s => thread'[u] = thread[u]
      BY <1>1, <2>1, <2>4, ThreadSet
    <2>6. RouterInv(st)'
      BY <2>1, <2>3
    <2>7. CatOK' /\ HubOK' /\ RelayOK'
      BY <1>1, <1>2, <1>5, <2>1, <2>5, Frame, RelayThreadSet
    <2> QED BY <1>1, <1>4, <1>5, <2>5, <2>6, <2>7, ThreadStepKeeps
  <1>7. CASE ~Routed
    <2> DEFINE a == ToAgent(one.reply)
               acts == Later(<<a>>)
               l == hub.listed \ {line.id}
    <2>1. st' = st /\ thread' = [thread EXCEPT ![s].todo = acts] /\ hub' = [hub EXCEPT !.listed = l]
      BY <1>7 DEF Reads
    <2>2. IsTarget(a)
      BY DEF IsTarget, ToAgent
    <2> HIDE DEF a, l
    <2>3. ActsOK(acts)
      BY <2>2, ActOne
    <2> HIDE DEF acts
    <2>4. ThreadsOK' /\ \A u \in Threads : u # s => thread'[u] = thread[u]
      BY <1>1, <2>1, <2>3, TodoSet
    <2>5. HubOK'
      BY <2>1, Parts DEF HubOK, HubShape
    <2>6. RouterInv(st)' /\ CatOK' /\ RelayOK'
      BY <1>1, <1>2, <1>5, <1>7, <2>1, <2>4, Frame, RelayThreadSet
    <2> QED BY <1>1, <1>4, <1>5, <2>4, <2>5, <2>6, ThreadStepKeeps
  <1> QED BY <1>6, <1>7

\* A server's output ends.
LEMMA OutputEndsKeeps ==
    ASSUME TransportBooks, NEW s \in ServerSet, OutputEnds(s)
    PROVE  TransportBooks'
PROOF
  <1> DEFINE gone == ServerGone(st, s)
  <1>1. /\ srv[s].ingress = "reading" /\ srv' = [srv EXCEPT ![s].ingress = "gone"]
        /\ UNCHANGED <<mode, cat, post, hub, client, seen>> /\ s \in Threads
    BY DEF OutputEnds, Threads
  <1>2. IsServer(srv[s]) /\ srv = [r \in ServerSet |-> srv[r]] /\ mode # "relay"
    BY <1>1, Parts DEF ServersOK
  <1>3. ServersOK'
    <2> DEFINE x == [srv[s] EXCEPT !.ingress = "gone"]
    <2>1. srv' = [srv EXCEPT ![s] = x] /\ IsServer(x)
      BY <1>1, <1>2 DEF IsServer
    <2> HIDE DEF x
    <2> QED BY <1>1, <1>2, <2>1, ServerSetOne
  <1>4. CatOK' /\ PostsOK' /\ LateStays /\ HubOK' /\ SeenKept
    BY <1>1, Frame
  <1>5. CASE Routed
    <2> DEFINE x == [fin |-> Finishing(gone.fin, FALSE, FALSE), todo |-> Later(gone.acts)]
    <2>1. st' = gone.st /\ thread' = [thread EXCEPT ![s] = x]
      BY <1>5 DEF OutputEnds
    <2>2. OutOK(gone)
      BY Parts, GoneRouted
    <2> HIDE DEF gone
    <2>3. RouterInv(gone.st) /\ ActsOK(Later(gone.acts)) /\ FinishingOK(Finishing(gone.fin, FALSE, FALSE))
      BY <2>2, Addressed, Finished DEF OutOK
    <2>4. IsThread(x)
      BY <2>3 DEF IsThread
    <2> HIDE DEF x
    <2>5. ThreadsOK' /\ \A u \in Threads : u # s => thread'[u] = thread[u]
      BY <1>1, <2>1, <2>4, ThreadSet
    <2>6. RouterInv(st)'
      BY <2>1, <2>3
    <2>7. RelayOK'
      BY <1>1, <1>2, <1>4, <2>5, RelayThreadSet
    <2> QED BY <1>1, <1>3, <1>4, <2>5, <2>6, <2>7, ThreadStepKeeps
  <1>6. CASE ~Routed
    <2>1. UNCHANGED <<st, thread>>
      BY <1>6 DEF OutputEnds
    <2> QED BY <1>1, <1>3, <1>4, <2>1, ServerStepKeeps
  <1> QED BY <1>5, <1>6

\* The ingress of a server ends, and with the last one the listener.
LEMMA IngressEndsKeeps ==
    ASSUME TransportBooks, NEW s \in ServerSet, IngressEnds(s)
    PROVE  TransportBooks'
PROOF
  <1>1. srv' = [srv EXCEPT ![s].ingress = "ended"] /\ UNCHANGED <<mode, st, cat, post, thread, client, seen>>
    BY DEF IngressEnds
  <1>2. ServersOK'
    <2> DEFINE x == [srv[s] EXCEPT !.ingress = "ended"]
    <2>1. IsServer(srv[s]) /\ srv = [r \in ServerSet |-> srv[r]]
      BY Parts DEF ServersOK
    <2>2. srv' = [srv EXCEPT ![s] = x] /\ IsServer(x) /\ x.ingress = "ended"
      BY <1>1, <2>1 DEF IsServer
    <2> HIDE DEF x
    <2> QED BY <1>1, <2>2, ServerSetOne
  <1>3. HubOK'
    <2>1. DOMAIN Empty = {}
      BY DEF Empty
    <2>2. hub' = hub \/ hub' = [hub EXCEPT !.waiters = Empty, !.stopping = TRUE]
      BY DEF IngressEnds
    <2> QED BY <2>1, <2>2, Parts DEF HubOK, HubShape
  <1> QED BY <1>1, <1>2, <1>3, Frame, ServerStepKeeps

\* What a server does by itself.
LEMMA ServerKeeps ==
    ASSUME TransportBooks, NEW s \in ServerSet, ServerStep(s)
    PROVE  TransportBooks'
PROOF
  <1>1. UNCHANGED <<mode, st, cat, post, thread, hub, client>>
    BY DEF ServerStep, ServerAnswers, ServerObeys, ServerSpeaks, ServerDies
  <1>2. IsServer(srv[s]) /\ srv = [r \in ServerSet |-> srv[r]] /\ (mode = "relay" => srv[s].ingress = "ended")
    BY Parts DEF ServersOK
  <1>3. ASSUME NEW x, srv' = [srv EXCEPT ![s] = x], IsServer(x), x.ingress = srv[s].ingress, SeenKept PROVE TransportBooks'
    <2>1. ServersOK'
      BY <1>1, <1>2, <1>3, ServerSetOne
    <2> QED BY <1>1, <1>3, <2>1, Frame, ServerStepKeeps
  <1>4. CASE ServerAnswers(s)
    <2>0. PICK msg \in srv[s].inbox : \E page \in Answers(s, msg) :
            srv' = [srv EXCEPT ![s].inbox = @ \ {msg}, ![s].out = Append(@, Line("reply", msg.id, page, msg.origin))]
      BY <1>4 DEF ServerAnswers
    <2>1. PICK page \in Answers(s, msg) :
            srv' = [srv EXCEPT ![s].inbox = @ \ {msg}, ![s].out = Append(@, Line("reply", msg.id, page, msg.origin))]
      BY <2>0
    <2> DEFINE i == srv[s].inbox \ {msg}
               line == Line("reply", msg.id, page, msg.origin)
               q == Append(srv[s].out, line)
               x == [srv[s] EXCEPT !.inbox = i, !.out = q]
    <2>2. srv' = [srv EXCEPT ![s] = x]
      BY <1>2, <2>1
    <2>3. IsPage(page)
      BY <1>2, PagesAre DEF IsServer
    <2>4. IsLine(line)
      BY <2>3 DEF IsLine, Line
    <2> HIDE DEF i, line
    <2>5. LinesOK(q)
      BY <1>2, <2>4, LineWritten DEF IsServer
    <2> HIDE DEF q
    <2>6. IsServer(x) /\ x.ingress = srv[s].ingress
      BY <1>2, <2>5 DEF IsServer
    <2> HIDE DEF x
    <2>7. SeenKept
      BY <1>1, <1>4, Frame DEF ServerAnswers
    <2> QED BY <1>3, <2>2, <2>6, <2>7
  <1>5. CASE ServerObeys(s)
    <2>1. PICK i : srv' = [srv EXCEPT ![s].inbox = i]
      BY <1>5 DEF ServerObeys
    <2> DEFINE x == [srv[s] EXCEPT !.inbox = i]
    <2>2. srv' = [srv EXCEPT ![s] = x] /\ IsServer(x) /\ x.ingress = srv[s].ingress
      BY <1>2, <2>1 DEF IsServer
    <2> HIDE DEF x
    <2>3. SeenKept
      BY <1>1, <1>5, Frame DEF ServerObeys
    <2> QED BY <1>3, <2>2, <2>3
  <1>6. CASE ServerSpeaks(s)
    <2>1. PICK what \in {"request", "list_changed", "notification"} :
            srv' = [srv EXCEPT ![s].out = Append(@, Line(what, NoId, NoPage, 0)), ![s].tools = IF what = "list_changed" THEN Changed[s] ELSE @]
      BY <1>6 DEF ServerSpeaks
    <2> DEFINE line == Line(what, NoId, NoPage, 0)
               q == Append(srv[s].out, line)
               l == IF what = "list_changed" THEN Changed[s] ELSE srv[s].tools
               x == [srv[s] EXCEPT !.out = q, !.tools = l]
    <2>2. srv' = [srv EXCEPT ![s] = x]
      BY <1>2, <2>1
    <2>3. IsLine(line)
      <3>1. <<>> \in Seq({})
        OBVIOUS
      <3>2. IsSeq(<<>>)
        BY <3>1, Zenon DEF IsSeq
      <3> QED BY <3>2 DEF IsLine, Line, IsPage, NoPage
    <2>4. IsSeq(l)
      <3>1. IsSeq(Changed[s])
        BY TransportAssumption, Zenon DEF IsSeq, ServerSet
      <3> QED BY <1>2, <3>1 DEF IsServer
    <2> HIDE DEF line, l
    <2>5. LinesOK(q)
      BY <1>2, <2>3, LineWritten DEF IsServer
    <2> HIDE DEF q
    <2>6. IsServer(x) /\ x.ingress = srv[s].ingress
      BY <1>2, <2>4, <2>5 DEF IsServer
    <2> HIDE DEF x
    <2>7. SeenKept
      BY <1>6, SeenStays DEF ServerSpeaks
    <2> QED BY <1>3, <2>2, <2>6, <2>7
  <1>7. CASE ServerDies(s)
    <2> DEFINE x == [srv[s] EXCEPT !.alive = FALSE, !.inbox = {}]
    <2>1. srv' = [srv EXCEPT ![s].alive = FALSE, ![s].inbox = {}]
      BY <1>7 DEF ServerDies
    <2>2. srv' = [srv EXCEPT ![s] = x] /\ IsServer(x) /\ x.ingress = srv[s].ingress
      BY <1>2, <2>1 DEF IsServer
    <2> HIDE DEF x
    <2>3. SeenKept
      BY <1>7, SeenStays DEF ServerDies
    <2> QED BY <1>3, <2>2, <2>3
  <1> QED BY <1>4, <1>5, <1>6, <1>7 DEF ServerStep

\* The gate closes its servers' input.
LEMMA ClosesServersKeeps ==
    ASSUME TransportBooks, ClosesServers
    PROVE  TransportBooks'
PROOF
  <1>1. UNCHANGED <<mode, st, cat, post, thread, client, seen>> /\ hub' = [hub EXCEPT !.stopping = TRUE]
    BY DEF ClosesServers
  <1>2. ServersOK'
    <2>1. srv' = [s \in ServerSet |-> [srv[s] EXCEPT !.stdin = FALSE]]
      BY DEF ClosesServers
    <2>2. ASSUME NEW s \in ServerSet PROVE IsServer(srv'[s]) /\ srv'[s].ingress = srv[s].ingress
      <3>1. IsServer(srv[s]) /\ srv'[s] = [srv[s] EXCEPT !.stdin = FALSE]
        BY <2>1, Parts DEF ServersOK
      <3> QED BY <3>1 DEF IsServer
    <2>3. srv' = [s \in ServerSet |-> srv'[s]]
      BY <2>1
    <2> QED BY <1>1, <2>2, <2>3, Parts DEF ServersOK
  <1>3. HubOK'
    BY <1>1, Parts DEF HubOK, HubShape
  <1> QED BY <1>1, <1>2, <1>3, Frame, ServerStepKeeps

\* The HTTP client takes the next message off its queue.
LEMMA ClientTakesKeeps ==
    ASSUME TransportBooks, ClientTakes
    PROVE  TransportBooks'
PROOF
  <1> DEFINE msg == Head(client.queue)
             q == Tail(client.queue)
             x == [msg |-> msg, after |-> client.inits, header |-> None]
             R == client.running \cup {x}
             k == IF msg.method = "initialize" THEN client.inits + 1 ELSE client.inits
             n == Len(client.queue)
  <1>1. ClientOK /\ ClientShape(client) /\ SessionOK /\ client.inits \in Nat /\ client.session \in Nat
    BY Parts DEF ClientOK, ClientShape
  <1>2. /\ UNCHANGED <<mode, st, cat, post, thread, srv, hub, seen>> /\ client.queue # <<>>
        /\ \A y \in client.running : Plain(y)
        /\ client' = [client EXCEPT !.queue = q, !.inits = k, !.running = R]
    BY <1>1 DEF ClientTakes, Concurrent, Plain, ClientShape
  <1>3. PICK T : client.queue \in Seq(T)
    BY <1>1 DEF ClientOK, IsSeq
  <1>4. /\ n \in Nat /\ n > 0 /\ Len(q) = n - 1 /\ q \in Seq(T) /\ msg = client.queue[1]
        /\ \A i \in 1..(n - 1) : q[i] = client.queue[i + 1]
    BY <1>2, <1>3
  <1>5. IsSeq(q)
    BY <1>4 DEF IsSeq
  <1>6. x.msg = msg /\ x.after = client.inits /\ IsExchange(x)
    BY <1>1 DEF IsExchange
  <1>7. k \in Nat /\ client.inits <= k
    <2> HIDE DEF msg
    <2> QED BY <1>1
  <1> HIDE DEF q, x, R, msg, k
  <1>8. /\ ClientShape(client') /\ client'.queue = q /\ client'.inits = k /\ client'.running = R
        /\ client'.session = client.session /\ client'.busy = client.busy
    BY <1>1, <1>2, <1>7 DEF ClientShape
  <1>9. \A y \in client.running : y.msg.origin # msg.origin
    <2>1. 1 \in 1..n
      BY <1>4
    <2> QED BY <1>1, <1>4, <2>1 DEF ClientOK
  <1>10. IsFiniteSet(R) /\ Cardinality(R) = Cardinality(client.running) + 1 /\ Cardinality(client.running) \in Nat
    <2>1. x \notin client.running /\ IsFiniteSet(client.running)
      BY <1>1, <1>6, <1>9 DEF ClientOK
    <2> QED BY <2>1, FS_AddElement, FS_CardinalityType DEF R
  <1>11. ClientOK'
    <2>1. client'.busy = Len(q) + Cardinality(R)
      BY <1>1, <1>4, <1>8, <1>10 DEF ClientOK
    <2>2. \A i, j \in 1..Len(q) : q[i].origin = q[j].origin => i = j
      <3>1. ASSUME NEW i \in 1..Len(q), NEW j \in 1..Len(q), q[i].origin = q[j].origin PROVE i = j
        <4>1. i + 1 \in 1..n /\ j + 1 \in 1..n /\ i \in Int /\ j \in Int
          BY <1>4
        <4>2. client.queue[i + 1].origin = client.queue[j + 1].origin
          BY <1>4, <3>1
        <4>3. i + 1 = j + 1
          BY <1>1, <4>1, <4>2 DEF ClientOK
        <4> QED BY <4>1, <4>3
      <3> QED BY <3>1
    <2>3. ASSUME NEW i \in 1..Len(q), NEW y \in R PROVE q[i].origin # y.msg.origin
      <3>1. i + 1 \in 1..n /\ 1 \in 1..n /\ i + 1 # 1 /\ q[i] = client.queue[i + 1]
        BY <1>4
      <3>2. CASE y = x
        <4>1. client.queue[i + 1].origin # client.queue[1].origin
          BY <1>1, <3>1 DEF ClientOK
        <4> QED BY <1>4, <1>6, <3>1, <3>2, <4>1
      <3>3. CASE y \in client.running
        BY <1>1, <3>1, <3>3 DEF ClientOK
      <3> QED BY <3>2, <3>3 DEF R
    <2>4. ASSUME NEW y \in R, NEW z \in R, y.msg.origin = z.msg.origin PROVE y = z
      BY <1>1, <1>6, <1>9, <2>4 DEF R, ClientOK
    <2>5. \A y \in R : IsExchange(y)
      BY <1>1, <1>6 DEF R, ClientOK
    <2> QED BY <1>5, <1>8, <1>10, <2>1, <2>2, <2>3, <2>4, <2>5 DEF ClientOK
  <1>12. SessionOK'
    <2>1. \A y \in client.running : y.after \in Nat /\ y.after <= k
      <3>1. \A y \in client.running : y.after \in Nat /\ y.after <= client.inits
        BY <1>1 DEF SessionOK, ClientOK, IsExchange
      <3> QED BY <1>1, <1>7, <3>1
    <2>2. \A y \in R : y.after <= k
      BY <1>6, <1>7, <2>1 DEF R
    <2>3. \A y \in seen.posted : Plain(y) => y.after \in Nat /\ y.after <= client.inits /\ y.header.session \in Nat
      BY <1>1 DEF SessionOK
    <2>4. \A y \in seen.posted : Plain(y) => y.after \in Nat /\ y.after <= k /\ y.header.session \in Nat
      BY <1>1, <1>7, <2>3
    <2>5. client.session <= k
      BY <1>1, <1>7 DEF SessionOK
    <2>6. (\E y \in R : y.msg.method = "initialize") => \A y \in seen.posted \cup R : Plain(y) => y.after < k
      <3>1. CASE msg.method = "initialize"
        <4>1. k = client.inits + 1 /\ ~Plain(x)
          BY <1>6, <3>1 DEF k, Plain
        <4>2. \A y \in client.running : y.after \in Nat /\ y.after <= client.inits
          BY <1>1 DEF SessionOK, ClientOK, IsExchange
        <4> QED BY <1>1, <2>3, <4>1, <4>2 DEF R
      <3>2. CASE msg.method # "initialize"
        BY <1>2, <1>6, <3>2 DEF R, Plain
      <3> QED BY <3>1, <3>2
    <2>7. SeenShape(seen) /\ CarriesSession /\ \A g \in seen.granted : g <= client.session
      BY <1>1 DEF SessionOK
    <2> QED BY <1>2, <1>8, <2>2, <2>4, <2>5, <2>6, <2>7 DEF SessionOK, InitRuns, CarriesSession
  <1>13. RelayOK'
    <2>1. \A p : Handed(p)' => Handed(p)
      <3>1. ASSUME NEW p, NEW i \in 1..Len(q), q[i].origin = p PROVE Handed(p)
        <4>1. i + 1 \in 1..n /\ q[i] = client.queue[i + 1]
          BY <1>4
        <4> QED BY <3>1, <4>1 DEF Handed
      <3>2. ASSUME NEW p, NEW y \in R, y.msg.origin = p PROVE Handed(p)
        <4>1. CASE y = x
          <5>1. 1 \in 1..n
            BY <1>4
          <5> QED BY <1>4, <1>6, <3>2, <4>1, <5>1 DEF Handed
        <4>2. CASE y \in client.running
          BY <3>2, <4>2 DEF Handed
        <4> QED BY <4>1, <4>2 DEF R
      <3> QED BY <1>8, <3>1, <3>2 DEF Handed
    <2>2. mode = "relay"
      BY <1>2, Parts DEF RelayOK
    <2>3. \A p : Early(p)' = Early(p)
      BY <1>2 DEF Early
    <2>4. ASSUME NEW u \in Threads PROVE RelayThread(u)'
      <3>1. RelayThread(u) /\ thread'[u] = thread[u]
        BY <1>2, <2>2, Parts DEF RelayOK
      <3> QED BY <2>1, <2>3, <3>1 DEF RelayThread
    <2>5. \A p \in Posts : Handed(p)' => ~Early(p)'
      BY <2>1, <2>2, <2>3, Parts DEF RelayOK
    <2> QED BY <1>2, <2>2, <2>4, <2>5 DEF RelayOK
  <1>14. mode' \in Modes /\ RouterInv(st)' /\ CatOK' /\ PostsOK' /\ ThreadsOK' /\ ServersOK' /\ HubOK'
    BY <1>2, Frame
  <1> QED BY <1>11, <1>12, <1>13, <1>14, Together

\* What is exchanged was handed to the client; the rest of it is as before.
LEMMA ExchangeFrame ==
    ASSUME TransportBooks, UNCHANGED <<mode, st, thread, srv>>, PostsOK', LateStays, HubOK', CatOK', ClientOK', SessionOK',
           mode = "relay", client'.queue = client.queue,
           \A y \in client'.running : \E z \in client.running : y.msg.origin = z.msg.origin
    PROVE  TransportBooks'
PROOF
  <1>1. \A p : Handed(p)' => Handed(p)
    BY DEF Handed
  <1>2. ASSUME NEW u \in Threads PROVE RelayThread(u)'
    <2>1. RelayThread(u) /\ thread'[u] = thread[u]
      BY Parts DEF RelayOK
    <2> QED BY <1>1, <2>1 DEF RelayThread, LateStays
  <1>3. \A p \in Posts : Handed(p)' => ~Early(p)'
    BY <1>1, Parts DEF RelayOK, LateStays
  <1>4. RelayOK'
    BY <1>2, <1>3 DEF RelayOK
  <1>5. mode' \in Modes /\ RouterInv(st)' /\ ThreadsOK' /\ ServersOK'
    BY Frame
  <1> QED BY <1>4, <1>5, Together

\* An exchange posts its message under the session of the moment.
LEMMA ExchangeSendsKeeps ==
    ASSUME TransportBooks, NEW x \in client.running, ExchangeSends(x)
    PROVE  TransportBooks'
PROOF
  <1> DEFINE h == [session |-> IF x.msg.method = "initialize" THEN 0 ELSE client.session]
             sent == [x EXCEPT !.header = h]
             R == (client.running \ {x}) \cup {sent}
             P == seen.posted \cup {sent}
  <1>1. ClientOK /\ ClientShape(client) /\ SessionOK /\ client.inits \in Nat /\ client.session \in Nat /\ SeenShape(seen)
    BY Parts DEF ClientOK, ClientShape, SessionOK
  <1>2. /\ UNCHANGED <<mode, st, cat, post, thread, srv, hub>>
        /\ client' = [client EXCEPT !.running = R] /\ seen' = [seen EXCEPT !.posted = P]
    BY <1>1 DEF ExchangeSends, ClientShape, SeenShape
  <1>3. IsExchange(x)
    BY <1>1 DEF ClientOK
  <1>4. h.session \in Nat /\ (Plain(x) => h.session = client.session)
    BY <1>1 DEF Plain
  <1> HIDE DEF h
  <1>5. IsExchange(sent) /\ sent.msg = x.msg /\ sent.after = x.after /\ sent.header = h
    BY <1>3 DEF IsExchange
  <1> HIDE DEF sent, R, P
  <1>6. /\ ClientShape(client') /\ client'.queue = client.queue /\ client'.inits = client.inits /\ client'.running = R
        /\ client'.session = client.session /\ client'.busy = client.busy
    BY <1>1, <1>2 DEF ClientShape
  <1>7. SeenShape(seen') /\ seen'.posted = P /\ seen'.granted = seen.granted
    BY <1>1, <1>2 DEF SeenShape
  <1>8. \A y \in client.running : y.msg.origin = x.msg.origin => y = x
    BY <1>1 DEF ClientOK
  <1>9. IsFiniteSet(R) /\ Cardinality(R) = Cardinality(client.running)
    <2> DEFINE Q == client.running \ {x}
    <2>1. IsFiniteSet(client.running) /\ Cardinality(client.running) \in Nat
      BY <1>1, FS_CardinalityType DEF ClientOK
    <2>2. IsFiniteSet(Q) /\ Cardinality(Q) = Cardinality(client.running) - 1
      BY <2>1, FS_RemoveElement
    <2>3. sent \notin Q
      BY <1>5, <1>8
    <2> HIDE DEF Q
    <2>4. IsFiniteSet(Q \cup {sent}) /\ Cardinality(Q \cup {sent}) = Cardinality(Q) + 1
      BY <2>2, <2>3, FS_AddElement
    <2>5. R = Q \cup {sent}
      BY DEF R, Q
    <2> QED BY <2>1, <2>2, <2>4, <2>5
  <1>10. ClientOK'
    <2>1. \A y \in R : IsExchange(y)
      BY <1>1, <1>5 DEF R, ClientOK
    <2>2. ASSUME NEW i \in 1..Len(client.queue), NEW y \in R PROVE client.queue[i].origin # y.msg.origin
      BY <1>1, <1>5 DEF R, ClientOK
    <2>3. ASSUME NEW y \in R, NEW z \in R, y.msg.origin = z.msg.origin PROVE y = z
      BY <1>1, <1>5, <1>8, <2>3 DEF R, ClientOK
    <2> QED BY <1>1, <1>6, <1>9, <2>1, <2>2, <2>3 DEF ClientOK
  <1>11. SessionOK'
    <2>1. Plain(sent) <=> Plain(x)
      BY <1>5 DEF Plain
    <2>2. x.after \in Nat /\ x.after <= client.inits
      BY <1>1, <1>3 DEF SessionOK, IsExchange
    <2>3. \A y \in P : Plain(y) => y.after \in Nat /\ y.after <= client.inits /\ y.header.session \in Nat
      BY <1>1, <1>4, <1>5, <2>2 DEF SessionOK, P
    <2>4. \A y \in R : y.after <= client.inits
      BY <1>1, <1>5, <2>2 DEF SessionOK, R
    <2>5. (\E y \in R : y.msg.method = "initialize") => \A y \in P \cup R : Plain(y) => y.after < client.inits
      <3>1. SUFFICES ASSUME NEW z \in R, z.msg.method = "initialize" PROVE \A y \in P \cup R : Plain(y) => y.after < client.inits
        OBVIOUS
      <3>2. InitRuns
        BY <1>5, <3>1 DEF R, InitRuns
      <3>3. \A y \in seen.posted \cup client.running : Plain(y) => y.after < client.inits
        BY <1>1, <3>2 DEF SessionOK
      <3> QED BY <1>5, <2>1, <3>3 DEF P, R
    <2>6. ASSUME NEW y \in P, Plain(y), NEW g \in seen.granted, g <= y.after PROVE y.header.session >= g
      <3>1. CASE y = sent
        <4>1. y.header.session = client.session /\ g <= client.session /\ g \in Nat
          BY <1>1, <1>4, <1>5, <2>1, <2>6, <3>1 DEF SessionOK, SeenShape
        <4> QED BY <1>1, <4>1
      <3>2. CASE y \in seen.posted
        BY <1>1, <2>6, <3>2 DEF SessionOK, CarriesSession, Plain
      <3> QED BY <3>1, <3>2 DEF P
    <2>7. CarriesSession'
      BY <1>7, <2>6 DEF CarriesSession, Plain
    <2>8. client.session <= client.inits /\ \A g \in seen.granted : g <= client.session
      BY <1>1 DEF SessionOK
    <2> QED BY <1>6, <1>7, <2>3, <2>4, <2>5, <2>7, <2>8 DEF SessionOK, InitRuns
  <1>12. mode = "relay"
    BY Parts DEF RelayOK
  <1>13. PostsOK' /\ LateStays /\ HubOK' /\ CatOK'
    BY <1>2, Frame
  <1>14. \A y \in client'.running : \E z \in client.running : y.msg.origin = z.msg.origin
    BY <1>5, <1>6 DEF R
  <1> QED BY <1>2, <1>6, <1>10, <1>11, <1>12, <1>13, <1>14, ExchangeFrame

\* An exchange ends: an initialize that was answered grants its session.
LEMMA ExchangeEndsKeeps ==
    ASSUME TransportBooks, NEW x \in client.running, ExchangeEnds(x)
    PROVE  TransportBooks'
PROOF
  <1> DEFINE R == client.running \ {x}
             b == client.busy - 1
             starts(answered) == answered /\ x.msg.method = "initialize"
             k(answered) == IF starts(answered) THEN client.inits ELSE client.session
  <1>1. ClientOK /\ ClientShape(client) /\ SessionOK /\ client.inits \in Nat /\ client.session \in Nat /\ SeenShape(seen)
    BY Parts DEF ClientOK, ClientShape, SessionOK
  <1>2. UNCHANGED <<mode, st, thread, srv>> /\ mode = "relay"
    BY Parts DEF ExchangeEnds, RelayOK
  <1>3. PICK answered \in BOOLEAN :
          /\ client' = [client EXCEPT !.running = R, !.busy = b, !.session = k(answered)]
          /\ UNCHANGED <<post, hub>> \/ \E reply : GivesWaiter(reply)
          /\ seen' = IF starts(answered) THEN [seen EXCEPT !.granted = @ \cup {client.inits}] ELSE seen
    BY <1>1 DEF ExchangeEnds, ClientShape
  <1>4. PostsOK' /\ LateStays /\ HubOK'
    BY <1>2, <1>3, WaiterGiven, Frame
  <1>5. CatOK'
    BY <1>2 DEF CatOK, Routed
  <1> DEFINE c == k(answered)
  <1>6. /\ c \in Nat /\ client.session <= c /\ c <= client.inits
        /\ starts(answered) => c = client.inits
        /\ ~starts(answered) => c = client.session
    <2>1. client.session <= client.inits
      BY <1>1 DEF SessionOK
    <2> HIDE DEF starts
    <2> QED BY <1>1, <2>1
  <1>7. IsFiniteSet(R) /\ Cardinality(R) = Cardinality(client.running) - 1 /\ Cardinality(client.running) \in Nat /\ Cardinality(R) \in Nat
    <2>1. IsFiniteSet(client.running)
      BY <1>1 DEF ClientOK
    <2>2. IsFiniteSet(R) /\ Cardinality(R) = Cardinality(client.running) - 1
      BY <2>1, FS_RemoveElement
    <2> HIDE DEF R
    <2> QED BY <2>1, <2>2, FS_CardinalityType
  <1>8. b = Len(client.queue) + Cardinality(R) /\ b \in Nat
    <2>1. client.busy = Len(client.queue) + Cardinality(client.running) /\ IsSeq(client.queue)
      BY <1>1 DEF ClientOK
    <2>2. Len(client.queue) \in Nat
      BY <2>1 DEF IsSeq
    <2> HIDE DEF R
    <2> QED BY <1>7, <2>1, <2>2
  <1> DEFINE gr == IF starts(answered) THEN seen.granted \cup {client.inits} ELSE seen.granted
  <1>9. SeenShape(seen') /\ seen'.posted = seen.posted /\ seen'.granted = gr
    <2>1. CASE starts(answered)
      <3> DEFINE G == seen.granted \cup {client.inits}
      <3>1. seen' = [seen EXCEPT !.granted = G] /\ gr = G
        BY <1>1, <1>3, <2>1 DEF SeenShape
      <3>2. G \in SUBSET Nat
        BY <1>1 DEF SeenShape
      <3> HIDE DEF G, gr
      <3> QED BY <1>1, <3>1, <3>2 DEF SeenShape
    <2>2. CASE ~starts(answered)
      BY <1>1, <1>3, <2>2
    <2> QED BY <2>1, <2>2
  <1>10. \A y \in R : y \in client.running
    OBVIOUS
  <1> HIDE DEF b, c, R
  <1>11. /\ ClientShape(client') /\ client'.queue = client.queue /\ client'.inits = client.inits /\ client'.running = R
         /\ client'.session = c /\ client'.busy = b
    <2>1. client' = [client EXCEPT !.running = R, !.busy = b, !.session = c]
      BY <1>3 DEF c
    <2> QED BY <1>1, <1>6, <1>8, <2>1 DEF ClientShape
  <1>12. ClientOK'
    BY <1>1, <1>7, <1>8, <1>10, <1>11 DEF ClientOK
  <1>13. SessionOK'
    <2>1. \A g \in seen.granted : g \in Nat /\ g <= c
      <3>1. \A g \in seen.granted : g \in Nat /\ g <= client.session
        BY <1>1 DEF SessionOK, SeenShape
      <3> QED BY <1>1, <1>6, <3>1
    <2>2. \A g \in gr : g <= c
      <3> HIDE DEF starts
      <3> QED BY <1>1, <1>6, <2>1
    <2>3. ASSUME NEW y \in seen.posted, Plain(y), NEW g \in gr, g <= y.after PROVE y.header.session >= g
      <3>1. CASE g \in seen.granted
        BY <1>1, <2>3, <3>1 DEF SessionOK, CarriesSession, Plain
      <3>2. CASE g \notin seen.granted
        <4>1. g = client.inits /\ starts(answered)
          <5> HIDE DEF starts
          <5> QED BY <2>3, <3>2
        <4>2. InitRuns
          BY <4>1 DEF InitRuns
        <4>3. y.after < client.inits /\ y.after \in Nat
          BY <1>1, <2>3, <4>2 DEF SessionOK
        <4> QED BY <1>1, <2>3, <4>1, <4>3
      <3> QED BY <3>1, <3>2
    <2>4. CarriesSession'
      <3> HIDE DEF gr
      <3> QED BY <1>9, <2>3 DEF CarriesSession, Plain
    <2>5. \A y \in seen.posted : Plain(y) => y.after \in Nat /\ y.after <= client.inits /\ y.header.session \in Nat
      BY <1>1 DEF SessionOK
    <2>6. \A y \in R : y.after <= client.inits
      BY <1>1, <1>10 DEF SessionOK
    <2>7. (\E y \in R : y.msg.method = "initialize") => \A y \in seen.posted \cup R : Plain(y) => y.after < client.inits
      BY <1>1, <1>10 DEF SessionOK, InitRuns
    <2> HIDE DEF gr
    <2> QED BY <1>6, <1>9, <1>11, <2>2, <2>4, <2>5, <2>6, <2>7 DEF SessionOK, InitRuns
  <1>14. \A y \in client'.running : \E z \in client.running : y.msg.origin = z.msg.origin
    BY <1>10, <1>11
  <1> QED BY <1>2, <1>4, <1>5, <1>11, <1>12, <1>13, <1>14, ExchangeFrame

\* The HTTP client is closed.
LEMMA ClosesClientKeeps ==
    ASSUME TransportBooks, ClosesClient
    PROVE  TransportBooks'
PROOF
  <1>1. /\ UNCHANGED <<mode, st, cat, post, thread, srv, seen>> /\ mode = "relay"
        /\ client' = [client EXCEPT !.closed = TRUE] /\ hub' = [hub EXCEPT !.stopping = TRUE]
    BY DEF ClosesClient
  <1>2. ClientOK /\ ClientShape(client)
    BY Parts DEF ClientOK
  <1>3. /\ ClientShape(client') /\ client'.queue = client.queue /\ client'.inits = client.inits /\ client'.running = client.running
        /\ client'.session = client.session /\ client'.busy = client.busy
    BY <1>1, <1>2 DEF ClientShape
  <1>4. ClientOK'
    BY <1>2, <1>3 DEF ClientOK
  <1>5. HubOK'
    BY <1>1, Parts DEF HubOK, HubShape
  <1>6. PostsOK' /\ LateStays /\ CatOK' /\ SeenKept
    BY <1>1, Frame
  <1>7. SessionOK'
    BY <1>3, <1>6, SessionFrame DEF ExchangesStay
  <1> QED BY <1>1, <1>3, <1>4, <1>5, <1>6, <1>7, ExchangeFrame

(***************************************************************************)
(* The theorem.                                                            *)
(***************************************************************************)
\* Every step keeps the books.
LEMMA StepKeeps == TransportBooks /\ [Next]_vars => TransportBooks'
PROOF
  <1> SUFFICES ASSUME TransportBooks, [Next]_vars PROVE TransportBooks'
    OBVIOUS
  <1>1. CASE UNCHANGED vars
    <2>1. UNCHANGED <<mode, st, cat, post, thread, srv, hub, client, seen>>
      BY <1>1 DEF vars
    <2> QED BY <2>1, Frame, ServerStepKeeps
  <1>2. ASSUME NEW p \in Posts, AgentStep(p) \/ Disconnects(p) PROVE TransportBooks'
    BY <1>2, ArrivesKeeps, DecidesKeeps, DispatchesKeeps, PostEndsKeeps, PostAnsweredKeeps, DisconnectsKeeps DEF AgentStep
  <1>3. ASSUME NEW t \in Threads, ThreadStep(t) PROVE TransportBooks'
    BY <1>3, FinishesKeeps, PerformsAnswerKeeps, PerformsSendKeeps DEF ThreadStep
  <1>4. ASSUME NEW s \in ServerSet, IngressStep(s) \/ ServerStep(s) PROVE TransportBooks'
    BY <1>4, ReadsKeeps, OutputEndsKeeps, IngressEndsKeeps, ServerKeeps DEF IngressStep
  <1>5. ASSUME ClientStep PROVE TransportBooks'
    BY <1>5, ClientTakesKeeps, ExchangeSendsKeeps, ExchangeEndsKeeps, ClosesClientKeeps DEF ClientStep, ExchangeStep
  <1>6. CASE ClosesServers
    BY <1>6, ClosesServersKeeps
  <1> QED BY <1>1, <1>2, <1>3, <1>4, <1>5, <1>6 DEF Next

\* However agents, servers, threads and the HTTP client interleave, and whoever
\* disconnects or dies: every unfinished listing awaits exactly one page of each
\* server it still waits for and none of a server that is gone; the ids and the
\* exchanges under way are those the counters say; and a message handed to the
\* HTTP client after an initialize that succeeded carries that session or a
\* later one (proxy.rs, Router; http.rs, Hub and HttpClient).
THEOREM TransportKept == Spec => []TransportInv
PROOF
  <1>1. Init => TransportBooks
    BY BooksBegin
  <1>2. TransportBooks /\ [Next]_vars => TransportBooks'
    BY StepKeeps
  <1>3. TransportBooks => TransportInv
    BY BooksSuffice
  <1> QED BY <1>1, <1>2, <1>3, PTL DEF Spec

(***************************************************************************)
(* Tool names.  What a name means is decided once: the catalog never       *)
(* forgets who serves a name nor the definition first seen, whatever order *)
(* listings are observed in, and everything on its way to an agent agrees  *)
(* with the catalog.  With one upstream, a listing is checked only if its  *)
(* request was noted (hub.listed), so each request must be in one place.   *)
(***************************************************************************)
NameOwned(c, name, s) == IF c.routed THEN name \in DOMAIN c.exposed /\ c.exposed[name][1] = s ELSE s = Only
OwnerIn(c, name) == IF c.routed THEN c.exposed[name][1] ELSE Only
Known(c, name, s, def) == NameOwned(c, name, s) /\ <<s, name>> \in DOMAIN c.baseline /\ c.baseline[<<s, name>>] = def
KnownTools(c, tools) ==
    IsSeq(tools) /\ \A i \in 1..Len(tools) : Known(c, tools[i].name, OwnerIn(c, tools[i].name), tools[i].def)

\* A catalog without a lock in which every tool keeps its name.
PlainCatalog(c) ==
    /\ c \in [routed : BOOLEAN, lock : {NoLock}, namespaced : {{}}, baseline : {c.baseline}, blocked : {c.blocked}, exposed : {c.exposed}]
CatPlain == PlainCatalog(cat) /\ cat.routed = Routed

\* A call is on its way to the server that owns the tool the agent named.
Called(p, s) == p \in Posts /\ ~Early(p) /\ NameOwned(cat, post[p].msg.tool, s)
ActNamed(a) ==
    /\ a.to = "agent" => KnownTools(cat, a.msg.tools)
    /\ a.to # "agent" /\ a.msg.method = "call" => Called(a.msg.origin, a.to)
ThreadNamed(t) ==
    /\ \A i \in 1..Len(thread[t].fin) : KnownTools(cat, thread[t].fin[i].visible)
    /\ \A i \in 1..Len(thread[t].todo) : ActNamed(thread[t].todo[i])
ReplyKnown(r) == r # None => KnownTools(cat, r.tools)
PostNamed(p) == ReplyKnown(post[p].direct) /\ ReplyKnown(post[p].reply)
SeenNamed ==
    /\ \A x \in seen.shown : x = <<x[1], x[2], x[3]>> /\ Known(cat, x[1], x[2], x[3])
    /\ \A c \in seen.sent : c[1] = "call" => Called(c[2], c[3])

\* The listener numbers requests, each anew.
IsMessage(m) == m = [method |-> m.method, id |-> m.id, tool |-> m.tool, ref |-> m.ref, origin |-> m.origin]
Numbered ==
    /\ \A p \in Posts : post[p].n \in 0..(hub.nextId - 1)
    /\ \A p, q \in Posts : post[p].n = post[q].n /\ post[p].n # NoId => p = q
    /\ \A p \in Posts : post[p].phase \in {"decide", "dispatch"} =>
            /\ IsMessage(post[p].msg)
            /\ mode # "stdio" => post[p].msg.id = post[p].n /\ (IsRequest(post[p].msg.method) => post[p].n # NoId)

\* A message to the only upstream, or a line from it, bears its request's number,
\* and one that lists tools is noted.
OfPost(m) == m.origin \in Posts /\ ~Early(m.origin) /\ m.id = post[m.origin].n
OneMsg(m) == OfPost(m) /\ (IsRequest(m.method) => m.id # NoId) /\ (m.method = "list" => m.id \in hub.listed)
OneLine(l) == OfPost(l) /\ l.id # NoId /\ (l.page.tools # <<>> => l.page.kind = "tools" /\ l.id \in hub.listed)
Crossed(p) == (\E m \in srv[Only].inbox : m.origin = p) \/ \E i \in 1..Len(srv[Only].out) : srv[Only].out[i].origin = p
OneWork(t, a) ==
    /\ a.to = "agent" /\ mode = "relay" => a.direct
    /\ a.to # "agent" => t \in Posts /\ a.msg.origin = t /\ a.to = Only /\ OneMsg(a.msg) /\ (mode = "single" => ~Crossed(t))
OneThread(t) ==
    /\ thread[t].fin = <<>> /\ Len(thread[t].todo) <= 1
    /\ thread[t].todo # <<>> => OneWork(t, Head(thread[t].todo))
PipeOK ==
    /\ \A s \in ServerSet : s # Only => srv[s].inbox = {} /\ srv[s].out = <<>>
    /\ \A m \in srv[Only].inbox : OneMsg(m) /\ \A i \in 1..Len(srv[Only].out) : srv[Only].out[i].origin # m.origin
    /\ \A m, k \in srv[Only].inbox : m.origin = k.origin => m = k
    /\ \A i \in 1..Len(srv[Only].out) : OneLine(srv[Only].out[i])
    /\ \A i, j \in 1..Len(srv[Only].out) : srv[Only].out[i].origin = srv[Only].out[j].origin => i = j
ClientListed ==
    /\ \A i \in 1..Len(client.queue) : OneMsg(client.queue[i])
    /\ \A x \in client.running : OneMsg(x.msg)
OneUpstream ==
    /\ ~Routed => \A t \in Threads : OneThread(t)
    /\ mode = "single" => PipeOK
    /\ mode = "relay" => ClientListed

Named == CatPlain /\ (\A t \in Threads : ThreadNamed(t)) /\ (\A p \in Posts : PostNamed(p)) /\ SeenNamed
NameBooks == Named /\ Numbered /\ OneUpstream

\* A catalog that knows at least what another knows.
Grows(c, d) ==
    /\ d.routed = c.routed
    /\ \A name \in DOMAIN c.exposed : name \in DOMAIN d.exposed /\ d.exposed[name] = c.exposed[name]
    /\ \A key \in DOMAIN c.baseline : key \in DOMAIN d.baseline /\ d.baseline[key] = c.baseline[key]

\* What one catalog says of a name, one that grew from it says too.
LEMMA GrowsKnows ==
    ASSUME NEW c, NEW d, Grows(c, d)
    PROVE  /\ \A name, s : NameOwned(c, name, s) => NameOwned(d, name, s) /\ OwnerIn(d, name) = OwnerIn(c, name)
           /\ \A name, s, def : Known(c, name, s, def) => Known(d, name, s, def)
           /\ \A tools : KnownTools(c, tools) => KnownTools(d, tools)
PROOF
  <1>1. \A name, s : NameOwned(c, name, s) => NameOwned(d, name, s) /\ OwnerIn(d, name) = OwnerIn(c, name)
    BY DEF Grows, NameOwned, OwnerIn
  <1>2. \A name, s, def : Known(c, name, s, def) => Known(d, name, s, def)
    BY <1>1 DEF Grows, Known
  <1>3. ASSUME NEW tools, KnownTools(c, tools) PROVE KnownTools(d, tools)
    <2>1. ASSUME NEW i \in 1..Len(tools) PROVE Known(d, tools[i].name, OwnerIn(d, tools[i].name), tools[i].def)
      <3>1. Known(c, tools[i].name, OwnerIn(c, tools[i].name), tools[i].def)
        BY <1>3 DEF KnownTools
      <3>2. OwnerIn(d, tools[i].name) = OwnerIn(c, tools[i].name)
        BY <1>1, <3>1 DEF Known
      <3> QED BY <1>2, <3>1, <3>2
    <2> QED BY <1>3, <2>1 DEF KnownTools
  <1> QED BY <1>1, <1>2, <1>3

\* A catalog grows from itself, and from what it grew from.
LEMMA GrowsOn ==
    /\ \A c : Grows(c, c)
    /\ \A c, d, e : Grows(c, d) /\ Grows(d, e) => Grows(c, e)
BY DEF Grows

\* Tools after tools.
LEMMA KnownJoined ==
    ASSUME NEW c, NEW a, NEW b, KnownTools(c, a), KnownTools(c, b)
    PROVE  KnownTools(c, a \o b)
PROOF
  <1>1. PICK T : a \in Seq(T)
    BY DEF KnownTools, IsSeq
  <1>2. PICK U : b \in Seq(U)
    BY DEF KnownTools, IsSeq
  <1>3. a \in Seq(T \cup U) /\ b \in Seq(T \cup U)
    BY <1>1, <1>2
  <1>4. /\ a \o b \in Seq(T \cup U) /\ Len(a \o b) = Len(a) + Len(b)
        /\ \A i \in 1..(Len(a) + Len(b)) : (a \o b)[i] = IF i <= Len(a) THEN a[i] ELSE b[i - Len(a)]
        /\ Len(a) \in Nat /\ Len(b) \in Nat
    BY <1>3
  <1> DEFINE ab == a \o b
             K(x) == Known(c, x.name, OwnerIn(c, x.name), x.def)
  <1>5. (\A i \in 1..Len(a) : K(a[i])) /\ \A i \in 1..Len(b) : K(b[i])
    BY DEF KnownTools
  <1>6. IsSeq(ab)
    BY <1>4, Zenon DEF IsSeq
  <1> HIDE DEF K, ab
  <1>7. ASSUME NEW i \in 1..Len(ab) PROVE K(ab[i])
    <2>1. CASE i <= Len(a)
      BY <1>4, <1>5, <2>1 DEF ab
    <2>2. CASE i > Len(a)
      <3>1. i - Len(a) \in 1..Len(b) /\ ab[i] = b[i - Len(a)]
        BY <1>4, <2>2 DEF ab
      <3> QED BY <1>5, <3>1
    <2> QED BY <1>4, <2>1, <2>2 DEF ab
  <1> QED BY <1>6, <1>7 DEF K, ab, KnownTools

\* Nothing, and one tool.
LEMMA KnownFew ==
    ASSUME NEW c
    PROVE  /\ KnownTools(c, <<>>)
           /\ \A x : Known(c, x.name, OwnerIn(c, x.name), x.def) => KnownTools(c, <<x>>)
PROOF
  <1>1. <<>> \in Seq({})
    OBVIOUS
  <1>2. KnownTools(c, <<>>)
    BY <1>1 DEF KnownTools, IsSeq
  <1>3. ASSUME NEW x, Known(c, x.name, OwnerIn(c, x.name), x.def) PROVE KnownTools(c, <<x>>)
    <2>1. <<x>> \in Seq({x}) /\ Len(<<x>>) = 1 /\ <<x>>[1] = x
      OBVIOUS
    <2>2. IsSeq(<<x>>)
      BY <2>1, Zenon DEF IsSeq
    <2> QED BY <1>3, <2>1, <2>2 DEF KnownTools
  <1> QED BY <1>2, <1>3

\* What observing has come to, from catalog c.
SeenNames(acc, c) ==
    /\ acc \in [cat : {acc.cat}, visible : {acc.visible}, drifts : {acc.drifts}, clashes : {acc.clashes}]
    /\ PlainCatalog(acc.cat) /\ Grows(c, acc.cat) /\ KnownTools(acc.cat, acc.visible)

\* One tool of a listing: an exposed name keeps its server, a known definition
\* stays, and the tool is shown only as it was first seen.
LEMMA ObserveToolNames ==
    ASSUME NEW c, NEW acc, SeenNames(acc, c), NEW server, acc.cat.routed \/ server = Only, NEW tool
    PROVE  SeenNames(ObserveTool(acc, server, tool), c)
PROOF
  <1> DEFINE d == acc.cat
             name == AgentName(d, server, tool.name)
             key == <<server, tool.name>>
             clash == d.routed /\ name \in DOMAIN d.exposed /\ d.exposed[name][1] # server
             wider == OrInsert(d.exposed, name, key)
             exposing == IF d.routed THEN [d EXCEPT !.exposed = wider] ELSE d
             drifted == IF d.lock.given THEN HashOf(d.lock, server, tool.name) # {ToolHash(tool)}
                        ELSE key \in DOMAIN d.baseline /\ d.baseline[key] # ToolHash(tool)
             known == OrInsert(exposing.baseline, key, ToolHash(tool))
             recorded == IF d.lock.given THEN exposing ELSE [exposing EXCEPT !.baseline = known]
             more == [name |-> name, def |-> tool.def]
             barred == [exposing EXCEPT !.blocked = @ \cup {key}]
  <1> DEFINE seen1 == [acc EXCEPT !.clashes = @ \cup {name}]
             seen2 == [acc EXCEPT !.cat = exposing]
             seen3 == [acc EXCEPT !.cat = barred, !.drifts = @ \cup {name}]
             seen4 == [acc EXCEPT !.cat = recorded, !.visible = Append(@, more)]
  <1>0. PlainCatalog(d) /\ Grows(c, d) /\ KnownTools(d, acc.visible) /\ ~d.lock.given
    BY DEF SeenNames, PlainCatalog, NoLock
  <1>1. name = tool.name
    BY <1>0 DEF AgentName, PlainCatalog
  <1>2. /\ ObserveTool(acc, server, tool) =
            CASE clash -> seen1
              [] ~clash /\ key \in d.blocked -> seen2
              [] ~clash /\ key \notin d.blocked /\ drifted -> seen3
              [] OTHER -> seen4
    BY Zenon DEF ObserveTool
  <1>3. /\ DOMAIN wider = DOMAIN d.exposed \cup {name}
        /\ \A x \in DOMAIN d.exposed : wider[x] = d.exposed[x]
        /\ name \notin DOMAIN d.exposed => wider[name] = key
    <2> HIDE DEF d, name, key
    <2> QED BY DEF OrInsert, Insert
  <1> HIDE DEF wider
  <1>4. PlainCatalog(exposing) /\ Grows(d, exposing) /\ exposing.baseline = d.baseline /\ exposing.routed = d.routed
        /\ (d.routed => exposing.exposed = wider)
    BY <1>0, <1>3 DEF PlainCatalog, Grows
  <1> HIDE DEF exposing
  <1>5. /\ DOMAIN known = DOMAIN d.baseline \cup {key}
        /\ \A x \in DOMAIN d.baseline : known[x] = d.baseline[x]
        /\ key \notin DOMAIN d.baseline => known[key] = ToolHash(tool)
    <2> HIDE DEF d, key
    <2> QED BY <1>4 DEF OrInsert, Insert
  <1> HIDE DEF known
  <1>6. /\ PlainCatalog(recorded) /\ Grows(d, recorded) /\ recorded.baseline = known /\ recorded.routed = d.routed
        /\ (d.routed => recorded.exposed = wider)
    BY <1>0, <1>4, <1>5 DEF PlainCatalog, Grows
  <1>7. PlainCatalog(barred) /\ Grows(d, barred)
    BY <1>4 DEF PlainCatalog, Grows
  <1> HIDE DEF recorded, barred
  <1>8. SeenNames(seen1, c)
    BY DEF SeenNames
  <1>9. SeenNames(seen2, c)
    <2>1. KnownTools(exposing, acc.visible) /\ Grows(c, exposing)
      BY <1>0, <1>4, GrowsKnows, GrowsOn
    <2> HIDE DEF d, name
    <2> QED BY <1>4, <2>1 DEF SeenNames
  <1>10. SeenNames(seen3, c)
    <2>1. KnownTools(barred, acc.visible) /\ Grows(c, barred)
      BY <1>0, <1>7, GrowsKnows, GrowsOn
    <2> HIDE DEF d, name
    <2> QED BY <1>7, <2>1 DEF SeenNames
  <1>11. ASSUME ~clash, ~drifted PROVE SeenNames(seen4, c)
    <2>1. known[key] = tool.def /\ key \in DOMAIN known
      BY <1>0, <1>5, <1>11 DEF ToolHash
    <2>2. OwnerIn(recorded, name) = server /\ NameOwned(recorded, name, server)
      <3>1. CASE d.routed
        <4>1. wider[name][1] = server /\ name \in DOMAIN wider
          BY <1>3, <1>11, <3>1
        <4> QED BY <1>6, <3>1, <4>1 DEF OwnerIn, NameOwned
      <3>2. CASE ~d.routed
        BY <1>6, <3>2 DEF OwnerIn, NameOwned
      <3> QED BY <3>1, <3>2
    <2>3. Known(recorded, more.name, OwnerIn(recorded, more.name), more.def)
      BY <1>1, <1>6, <2>1, <2>2 DEF Known
    <2>4. KnownTools(recorded, acc.visible) /\ Grows(c, recorded)
      BY <1>0, <1>6, GrowsKnows, GrowsOn
    <2>5. KnownTools(recorded, <<more>>)
      BY <2>3, KnownFew
    <2> HIDE DEF more
    <2>6. KnownTools(recorded, acc.visible \o <<more>>)
      BY <2>4, <2>5, KnownJoined
    <2>7. acc.visible \o <<more>> = Append(acc.visible, more)
      <3>1. PICK T : acc.visible \in Seq(T)
        BY <1>0 DEF KnownTools, IsSeq
      <3> QED BY <3>1
    <2>8. KnownTools(recorded, Append(acc.visible, more))
      BY <2>6, <2>7
    <2> QED BY <1>6, <2>4, <2>8 DEF SeenNames
  <1> HIDE DEF seen1, seen2, seen3, seen4, clash, drifted, name, key
  <1> QED BY <1>2, <1>8, <1>9, <1>10, <1>11

\* A listing of a server.
LEMMA ObserveNames ==
    ASSUME NEW c, PlainCatalog(c), NEW server, c.routed \/ server = Only, NEW tools, IsSeq(tools)
    PROVE  SeenNames(Observe(c, server, tools), c)
PROOF
  <1> DEFINE n == Len(tools)
  <1>0. n \in Nat
    BY DEF IsSeq
  <1>1. PICK F : ObserveRun(F, c, server, tools)
    BY <1>0, ObserveRecursion, Zenon
  <1> DEFINE S == {k \in Nat : SeenNames(F[k], c)}
  <1>2. 0 \in S
    <2>1. SeenNames(NothingSeen(c), c)
      BY KnownFew, GrowsOn DEF SeenNames, NothingSeen
    <2> QED BY <1>1, <2>1 DEF ObserveRun
  <1>3. ASSUME NEW k \in Nat, k < n, k \in S PROVE k + 1 \in S
    <2>1. k + 1 \in 1..n /\ (k + 1) - 1 = k /\ k + 1 \in Nat
      BY <1>0, <1>3
    <2>2. F[k + 1] = ObserveTool(F[k], server, tools[k + 1])
      BY <1>1, <2>1 DEF ObserveRun
    <2>3. SeenNames(F[k], c)
      BY <1>3
    <2>4. F[k].cat.routed \/ server = Only
      BY <2>3 DEF SeenNames, Grows
    <2>5. SeenNames(ObserveTool(F[k], server, tools[k + 1]), c)
      BY <2>3, <2>4, ObserveToolNames
    <2> QED BY <2>1, <2>2, <2>5
  <1>4. 0..n \subseteq S
    BY <1>0, <1>2, <1>3, CountUp
  <1> QED BY <1>0, <1>1, <1>4 DEF ObserveRun

\* The catalog of a gate that starts is plain.
LEMMA StartNames == PlainCatalog(Start(StartListings, NoLock, {}).cat) /\ Start(StartListings, NoLock, {}).cat.routed
PROOF
  <1> DEFINE listing == StartListings
             n == Len(listing)
             c == EmptyCatalog(NoLock, ServedPerServer(listing, {}))
  <1>0. n \in Nat /\ \A i \in 1..n : IsSeq(listing[i].tools)
    <2>1. Servers \in Seq(ServerSet) /\ \A s \in ServerSet : IsSeq(Listed[s])
      BY RouterAssumption, TransportAssumption DEF ServerSet, IsSeq
    <2>2. n = Len(Servers) /\ Len(Servers) \in Nat /\ \A i \in 1..n : listing[i] = [name |-> Servers[i], tools |-> Listed[Servers[i]]]
      BY <2>1 DEF StartListings
    <2> HIDE DEF listing
    <2>3. ASSUME NEW i \in 1..n PROVE IsSeq(listing[i].tools)
      <3>1. Servers[i] \in ServerSet
        BY <2>1, <2>2
      <3>2. listing[i] = [name |-> Servers[i], tools |-> Listed[Servers[i]]]
        BY <2>2
      <3> QED BY <2>1, <3>1, <3>2
    <2> QED BY <2>2, <2>3
  <1>1. PlainCatalog(c) /\ c.routed
    <2>1. ServedPerServer(listing, {}) = {}
      BY DEF ServedPerServer
    <2> QED BY <2>1 DEF EmptyCatalog, PlainCatalog
  <1>2. Start(listing, NoLock, {}).cat = ObserveServers(c, listing).cat
    BY DEF Start
  <1> HIDE DEF c, listing
  <1>3. PICK F : /\ ObserveServers(c, listing) = F[n]
                 /\ F[0] = NothingSeen(c)
                 /\ \A i \in 1..n : F[i] = ObserveServer(F[i - 1], listing[i])
    BY <1>0, ObserveServersRecursion
  <1> DEFINE S == {k \in Nat : PlainCatalog(F[k].cat) /\ F[k].cat.routed}
  <1>4. 0 \in S
    BY <1>1, <1>3 DEF NothingSeen
  <1>5. ASSUME NEW k \in Nat, k < n, k \in S PROVE k + 1 \in S
    <2>1. k + 1 \in 1..n /\ (k + 1) - 1 = k /\ k + 1 \in Nat
      BY <1>0, <1>5
    <2>2. F[k + 1] = ObserveServer(F[k], listing[k + 1])
      BY <1>3, <2>1
    <2> DEFINE o == Observe(F[k].cat, listing[k + 1].name, listing[k + 1].tools)
    <2>3. SeenNames(o, F[k].cat)
      BY <1>0, <1>5, <2>1, ObserveNames
    <2>4. F[k + 1] = [o EXCEPT !.drifts = @ \cup F[k].drifts, !.clashes = @ \cup F[k].clashes]
      BY <2>2 DEF ObserveServer
    <2> HIDE DEF o
    <2>5. F[k + 1].cat = o.cat
      BY <2>3, <2>4 DEF SeenNames
    <2>6. PlainCatalog(o.cat) /\ o.cat.routed
      BY <1>5, <2>3 DEF SeenNames, Grows
    <2> QED BY <2>1, <2>5, <2>6
  <1>6. 0..n \subseteq S
    BY <1>0, <1>4, <1>5, CountUp
  <1> QED BY <1>0, <1>2, <1>3, <1>6 DEF listing

(***************************************************************************)
(* What the router's actions carry: nothing an agent would read as a tool, *)
(* and no call but the one it was given.                                   *)
(***************************************************************************)
Blank(a) == (a.to = "agent" => a.msg.tools = <<>>) /\ (a.to # "agent" => a.msg.method # "call")
Blanks(acts) == \A i \in DOMAIN acts : Blank(acts[i])

\* Servers are not the agent.
LEMMA NotAgent == \A s \in ServerSet : s # "agent"
BY RouterAssumption DEF ServerSet

\* No action, and one.
LEMMA BlankFew == Blanks(<<>>) /\ \A a : Blank(a) => Blanks(<<a>>)
PROOF
  <1>1. \A a : DOMAIN <<a>> = {1} /\ <<a>>[1] = a
    OBVIOUS
  <1> QED BY <1>1 DEF Blanks

\* An answer the router makes up lists no tools.
LEMMA BlankReply == \A id, what, origin : Blank(ToAgent(Reply(id, what, origin)))
BY DEF Blank, ToAgent, Reply

\* Requests for pages are not calls.
LEMMA PagesBlank ==
    ASSUME NEW r, NEW job, NEW servers \in Seq(ServerSet), NEW cursor
    PROVE  Blanks(PageRequests(r, job, servers, cursor).acts)
PROOF
  <1> DEFINE m(i) == [method |-> "list", id |-> r.nextId + i - 1, tool |-> <<>>, ref |-> cursor, origin |-> 0]
             acts == [i \in DOMAIN servers |-> ToUpstream(servers[i], m(i))]
  <1>1. PageRequests(r, job, servers, cursor).acts = acts
    BY DEF PageRequests
  <1>2. ASSUME NEW i \in DOMAIN acts PROVE Blank(acts[i])
    <2>1. acts[i] = ToUpstream(servers[i], m(i)) /\ servers[i] \in ServerSet
      BY <1>2
    <2>2. m(i).method = "list"
      OBVIOUS
    <2> HIDE DEF acts, m
    <2>3. acts[i].to = servers[i] /\ acts[i].msg = m(i)
      BY <2>1 DEF ToUpstream
    <2> QED BY <2>1, <2>2, <2>3, NotAgent DEF Blank
  <1> HIDE DEF acts
  <1> QED BY <1>1, <1>2 DEF Blanks

\* Nor is the beginning of a listing.
LEMMA ListingBlank ==
    ASSUME NEW r, NEW agent, NEW servers \in Seq(ServerSet), \A i, j \in 1..Len(servers) : servers[i] = servers[j] => i = j
    PROVE  Blanks(StartListing(r, agent, servers).acts)
PROOF
  <1> DEFINE live == Live(servers, r.gone)
             listing == [agent |-> agent, remaining |-> ToSet(live), tools |-> Empty, pages |-> 0]
             numbered == [r EXCEPT !.nextJob = @ + 1]
             q == [numbered EXCEPT !.jobs = Insert(@, r.nextJob, listing)]
             asked == PageRequests(q, r.nextJob, live, NoId)
  <1>1. StartListing(r, agent, servers) =
          IF live = <<>> THEN Out(numbered, <<>>, <<listing>>) ELSE Out(asked.st, asked.acts, <<>>)
    BY Zenon DEF StartListing
  <1>2. live \in Seq(ServerSet)
    BY LiveIs DEF IsLive
  <1> HIDE DEF live, q, listing, numbered
  <1>3. Blanks(asked.acts)
    BY <1>2, PagesBlank
  <1> HIDE DEF asked
  <1>4. StartListing(r, agent, servers).acts \in {<<>>, asked.acts}
    BY <1>1 DEF Out
  <1> QED BY <1>3, <1>4, BlankFew

\* A message routed to a server arrives there as what it was, or the agent is told.
SentAs(a, server, msg) == (a.to = "agent" => Blank(a)) /\ (a.to # "agent" => a.to = server /\ a.msg.method = msg.method /\ a.msg.origin = msg.origin)
\* send_routed.
LEMMA RoutedAs ==
    ASSUME NEW r, NEW server \in ServerSet, NEW msg, IsMessage(msg)
    PROVE  \A i \in DOMAIN SendRouted(r, server, msg).acts : SentAs(SendRouted(r, server, msg).acts[i], server, msg)
PROOF
  <1> DEFINE back == ToAgent(Reply(msg.id, "upstream_unavailable", msg.origin))
             there == ToUpstream(server, msg)
             forth == ToUpstream(server, [msg EXCEPT !.id = r.nextId])
             acts == SendRouted(r, server, msg).acts
  <1>1. SentAs(back, server, msg)
    BY BlankReply DEF SentAs, ToAgent
  <1>2. SentAs(there, server, msg) /\ SentAs(forth, server, msg)
    <2>1. there.to = server /\ forth.to = server /\ there.msg = msg /\ forth.msg = [msg EXCEPT !.id = r.nextId] /\ server # "agent"
      BY NotAgent DEF ToUpstream
    <2>2. forth.msg.method = msg.method /\ forth.msg.origin = msg.origin
      BY <2>1 DEF IsMessage
    <2> QED BY <2>1, <2>2 DEF SentAs
  <1>3. acts \in {<<>>, <<back>>, <<there>>, <<forth>>}
    BY DEF SendRouted, Out
  <1> HIDE DEF back, there, forth, acts
  <1>4. \A i \in DOMAIN acts : acts[i] \in {back, there, forth}
    BY <1>3
  <1> QED BY <1>1, <1>2, <1>4 DEF acts

\* Other messages stay other messages.
LEMMA NotifiedBlank ==
    ASSUME NEW r, RouterInv(r), NEW msg, IsMessage(msg), msg.method # "call"
    PROVE  Blanks(Cancel(r, msg).acts) /\ Blanks(Broadcast(r, msg).acts)
PROOF
  <1>1. Blanks(Cancel(r, msg).acts)
    <2> DEFINE found == {n \in DOMAIN r.waiting : r.waiting[n].kind = "agent" /\ r.waiting[n].id = msg.ref}
               n == CHOOSE n \in found : TRUE
               moved == [msg EXCEPT !.ref = n]
               act == ToUpstream(r.waiting[n].server, moved)
    <2>1. Cancel(r, msg).acts = IF found = {} THEN <<>> ELSE <<act>>
      BY DEF Cancel, Out
    <2>2. CASE found = {}
      BY <2>1, <2>2, BlankFew
    <2>3. CASE found # {}
      <3>1. n \in DOMAIN r.waiting
        BY <2>3
      <3> HIDE DEF n
      <3>2. r.waiting[n].server \in ServerSet
        BY <3>1 DEF RouterInv, RouterOwes, RouterTyped, IsWait
      <3>3. moved.method = msg.method
        BY DEF IsMessage
      <3> HIDE DEF moved
      <3>4. Blank(act)
        BY <3>2, <3>3, NotAgent DEF Blank, ToUpstream
      <3> HIDE DEF act, found
      <3> QED BY <2>1, <2>3, <3>4, BlankFew
    <2> QED BY <2>2, <2>3
  <1>2. Blanks(Broadcast(r, msg).acts)
    <2> DEFINE live == Live(Servers, r.gone)
               acts == [i \in DOMAIN live |-> ToUpstream(live[i], msg)]
    <2>1. Broadcast(r, msg).acts = acts
      BY DEF Broadcast, Out
    <2>2. live \in Seq(ServerSet)
      BY LiveIs, ServersOnce DEF IsLive
    <2> HIDE DEF live
    <2>3. ASSUME NEW i \in DOMAIN acts PROVE Blank(acts[i])
      <3>1. acts[i] = ToUpstream(live[i], msg) /\ live[i] \in ServerSet
        BY <2>2, <2>3
      <3> HIDE DEF acts
      <3>2. acts[i].to = live[i] /\ acts[i].msg = msg
        BY <3>1 DEF ToUpstream
      <3> QED BY <3>1, <3>2, NotAgent DEF Blank
    <2> HIDE DEF acts
    <2> QED BY <2>1, <2>3 DEF Blanks
  <1> QED BY <1>1, <1>2

\* dispatch: a call goes to the server that owns the tool it names.
LEMMA DispatchedAs ==
    ASSUME NEW r, RouterInv(r), NEW c, CatalogOK(c), NEW msg, IsMessage(msg), msg.method \in Methods
    PROVE  \A i \in DOMAIN Dispatch(r, c, msg).acts :
              LET a == Dispatch(r, c, msg).acts[i]
              IN  Blank(a) \/ (a.to # "agent" /\ a.msg.method = "call" /\ a.msg.origin = msg.origin /\ NameOwned(c, msg.tool, a.to))
PROOF
  <1> DEFINE acts == Dispatch(r, c, msg).acts
             answer(what) == Out(r, <<ToAgent(Reply(msg.id, what, msg.origin))>>, <<>>)
             Goal(a) == Blank(a) \/ (a.to # "agent" /\ a.msg.method = "call" /\ a.msg.origin = msg.origin /\ NameOwned(c, msg.tool, a.to))
  <1>1. \A what : Blanks(answer(what).acts)
    BY BlankReply, BlankFew DEF Out
  <1>2. ASSUME NEW what, Dispatch(r, c, msg) = answer(what) PROVE Blanks(acts)
    BY <1>1, <1>2
  <1>3. CASE msg.method \in {"initialize", "ping"}
    BY <1>2, <1>3, Zenon DEF Dispatch, Blanks
  <1>4. CASE msg.method = "list"
    <2>1. Dispatch(r, c, msg) = StartListing(r, [id |-> msg.id, origin |-> msg.origin], Servers)
      BY <1>4 DEF Dispatch
    <2>2. Blanks(acts)
      BY <2>1, ListingBlank, ServersOnce
    <2> QED BY <2>2 DEF Blanks
  <1>5. CASE msg.method = "call" /\ RouteOf(c, msg.tool) = {}
    <2>1. Dispatch(r, c, msg) = answer("tool_unavailable")
      BY <1>5 DEF Dispatch
    <2> QED BY <1>2, <2>1 DEF Blanks
  <1>6. CASE msg.method = "call" /\ RouteOf(c, msg.tool) # {}
    <2> DEFINE owner == CHOOSE o \in RouteOf(c, msg.tool) : TRUE
               sent == [msg EXCEPT !.tool = owner[2]]
    <2>1. Dispatch(r, c, msg) = SendRouted(r, owner[1], sent)
      BY <1>6 DEF Dispatch
    <2>2. owner \in RouteOf(c, msg.tool)
      BY <1>6
    <2> HIDE DEF owner
    <2>3. owner[1] \in ServerSet /\ NameOwned(c, msg.tool, owner[1])
      BY <2>2 DEF RouteOf, CatalogOK, NameOwned
    <2>4. IsMessage(sent) /\ sent.method = "call" /\ sent.origin = msg.origin
      BY <1>6 DEF IsMessage
    <2> HIDE DEF sent
    <2>5. \A i \in DOMAIN acts : SentAs(acts[i], owner[1], sent)
      BY <2>1, <2>3, <2>4, RoutedAs
    <2> HIDE DEF acts
    <2>6. \A i \in DOMAIN acts : Goal(acts[i])
      BY <2>3, <2>4, <2>5 DEF SentAs
    <2> QED BY <2>6 DEF acts
  <1>7. CASE msg.method \in {"cancelled", "notification"}
    <2>1. Dispatch(r, c, msg) \in {Cancel(r, msg), Broadcast(r, msg)}
      BY <1>7 DEF Dispatch
    <2>2. Blanks(acts)
      BY <1>7, <2>1, NotifiedBlank
    <2> QED BY <2>2 DEF Blanks
  <1>8. CASE msg.method = "other" /\ Default = {}
    <2>1. Dispatch(r, c, msg) = answer("method_not_found")
      BY <1>8 DEF Dispatch
    <2> QED BY <1>2, <2>1 DEF Blanks
  <1>9. CASE msg.method = "other" /\ Default # {}
    <2> DEFINE d == CHOOSE s \in Default : TRUE
    <2>1. Dispatch(r, c, msg) = SendRouted(r, d, msg)
      BY <1>9 DEF Dispatch
    <2>2. d \in ServerSet
      BY <1>9, ServersOnce
    <2> HIDE DEF d
    <2>3. \A i \in DOMAIN acts : SentAs(acts[i], d, msg)
      BY <2>1, <2>2, RoutedAs
    <2> HIDE DEF acts
    <2>4. \A i \in DOMAIN acts : Goal(acts[i])
      BY <1>9, <2>3 DEF SentAs, Blank
    <2> QED BY <2>4 DEF acts
  <1> QED BY <1>3, <1>4, <1>5, <1>6, <1>7, <1>8, <1>9 DEF Methods

\* A reply taken, or an error in its place.
LEMMA TakenBlank ==
    ASSUME NEW r, RouterInv(r), NEW n, NEW id, NEW what, NEW origin, NEW page
    PROVE  Blanks(TakeReply(r, n, Reply(id, what, origin), page).acts)
PROOF
  <1> DEFINE w == r.waiting[n]
             rest == [r EXCEPT !.waiting = Forget(@, {n})]
             relayed == [Reply(id, what, origin) EXCEPT !.id = w.id]
             acts == TakeReply(r, n, Reply(id, what, origin), page).acts
  <1>1. CASE n \notin DOMAIN r.waiting
    BY <1>1, BlankFew DEF TakeReply, Out
  <1>2. CASE n \in DOMAIN r.waiting /\ w.kind = "agent"
    <2>1. acts = <<ToAgent(relayed)>>
      BY <1>2 DEF TakeReply, Out
    <2>2. Blank(ToAgent(relayed))
      BY DEF Blank, ToAgent, Reply
    <2> HIDE DEF acts, relayed
    <2>3. Blanks(acts)
      BY <2>1, <2>2, BlankFew
    <2> QED BY <2>3 DEF acts
  <1>3. CASE n \in DOMAIN r.waiting /\ w.kind # "agent"
    <2>1. acts = OnPage(rest, w.job, w.server, page).acts
      BY <1>3 DEF TakeReply
    <2>2. w.server \in ServerSet
      BY <1>3 DEF RouterInv, RouterOwes, RouterTyped, IsWait
    <2> HIDE DEF rest, acts, w
    <2>3. \A q, job : Blanks(PageRequests(q, job, <<w.server>>, NextPage).acts)
      <3> DEFINE servers == <<w.server>>
      <3>1. servers \in Seq(ServerSet)
        BY <2>2
      <3> HIDE DEF servers
      <3>2. \A q, job : Blanks(PageRequests(q, job, servers, NextPage).acts)
        BY <3>1, PagesBlank
      <3> QED BY <3>2 DEF servers
    <2>4. OnPage(rest, w.job, w.server, page).acts = <<>> \/ \E q, job : OnPage(rest, w.job, w.server, page).acts = PageRequests(q, job, <<w.server>>, NextPage).acts
      BY Zenon DEF OnPage, Out
    <2>5. Blanks(acts)
      BY <2>1, <2>3, <2>4, BlankFew
    <2> QED BY <2>5 DEF acts
  <1> QED BY <1>1, <1>2, <1>3

\* A line of a server.
LEMMA LineBlank ==
    ASSUME NEW r, RouterInv(r), NEW server \in ServerSet, NEW line, IsLine(line)
    PROVE  Blanks(OnRoutedLine(r, server, line).acts)
PROOF
  <1>1. CASE line.what = "request"
    <2> DEFINE m == [method |-> "refusal", id |-> NoId, tool |-> <<>>, ref |-> NoId, origin |-> 0]
    <2>1. OnRoutedLine(r, server, line).acts = <<ToUpstream(server, m)>>
      BY <1>1 DEF OnRoutedLine, Out
    <2>2. Blank(ToUpstream(server, m))
      BY NotAgent DEF Blank, ToUpstream
    <2> HIDE DEF m
    <2> QED BY <2>1, <2>2, BlankFew
  <1>2. CASE line.what = "list_changed"
    <2> DEFINE servers == <<server>>
               listing == StartListing(r, NoAgent, servers)
    <2>1. OnRoutedLine(r, server, line) = [listing EXCEPT !.acts = Append(@, ToAgent(Notice))]
      BY <1>2 DEF OnRoutedLine
    <2>2. servers \in Seq(ServerSet) /\ \A i, j \in 1..Len(servers) : servers[i] = servers[j] => i = j
      OBVIOUS
    <2>3. listing \in [st : {listing.st}, acts : {listing.acts}, fin : {listing.fin}]
      BY DEF StartListing, Out
    <2> HIDE DEF servers
    <2>4. Blanks(listing.acts) /\ ActsOK(listing.acts)
      BY <2>2, ListingBlank, ListingStarted DEF OutOK
    <2>5. Blank(ToAgent(Notice))
      BY BlankReply DEF Notice
    <2> HIDE DEF listing
    <2>6. OnRoutedLine(r, server, line).acts = Append(listing.acts, ToAgent(Notice))
      BY <2>1, <2>3
    <2>7. PICK T : listing.acts \in Seq(T)
      BY <2>4 DEF ActsOK
    <2> DEFINE longer == Append(listing.acts, ToAgent(Notice))
    <2>8. /\ DOMAIN longer = 1..(Len(listing.acts) + 1) /\ Len(listing.acts) \in Nat /\ DOMAIN listing.acts = 1..Len(listing.acts)
          /\ \A i \in 1..Len(listing.acts) : longer[i] = listing.acts[i]
          /\ longer[Len(listing.acts) + 1] = ToAgent(Notice)
      BY <2>7
    <2> HIDE DEF longer
    <2>9. ASSUME NEW i \in DOMAIN longer PROVE Blank(longer[i])
      <3>1. i \in 1..Len(listing.acts) \/ i = Len(listing.acts) + 1
        BY <2>8
      <3> QED BY <2>4, <2>5, <2>8, <3>1 DEF Blanks
    <2> QED BY <2>6, <2>9 DEF longer, Blanks
  <1>3. CASE line.what = "notification"
    <2>1. OnRoutedLine(r, server, line).acts = <<ToAgent(Notice)>>
      BY <1>3 DEF OnRoutedLine, Out
    <2>2. Blank(ToAgent(Notice))
      BY BlankReply DEF Notice
    <2> QED BY <2>1, <2>2, BlankFew
  <1>4. CASE line.what = "reply"
    <2>1. OnRoutedLine(r, server, line) = TakeReply(r, line.id, Reply(line.id, "result", line.origin), line.page)
      BY <1>4 DEF OnRoutedLine
    <2> QED BY <2>1, TakenBlank
  <1> QED BY <1>1, <1>2, <1>3, <1>4 DEF IsLine

\* A message that could not be delivered, and a server that is gone.
LEMMA LossBlank ==
    ASSUME NEW r, RouterInv(r)
    PROVE  /\ \A msg : Blanks(OnRoutedError(r, msg).acts)
           /\ \A server : Blanks(ServerGone(r, server).acts)
PROOF
  <1>1. ASSUME NEW msg PROVE Blanks(OnRoutedError(r, msg).acts)
    <2>1. CASE msg.id = NoId \/ msg.id \notin DOMAIN r.waiting
      BY <2>1, BlankFew DEF OnRoutedError, Out
    <2>2. CASE ~(msg.id = NoId \/ msg.id \notin DOMAIN r.waiting)
      <3>1. OnRoutedError(r, msg) = TakeReply(r, msg.id, Reply(msg.id, "upstream_unavailable", r.waiting[msg.id].origin), ErrorPage)
        BY <2>2 DEF OnRoutedError
      <3> QED BY <3>1, TakenBlank
    <2> QED BY <2>1, <2>2
  <1>2. ASSUME NEW server PROVE Blanks(ServerGone(r, server).acts)
    <2> DEFINE agents == SetToSeq({n \in {n \in DOMAIN r.waiting : r.waiting[n].server = server} : r.waiting[n].kind = "agent"})
               acts == [i \in DOMAIN agents |->
                          ToAgent(Reply(r.waiting[agents[i]].id, "upstream_unavailable", r.waiting[agents[i]].origin))]
    <2>1. ServerGone(r, server).acts = acts
      BY DEF ServerGone, Out
    <2>2. \A i \in DOMAIN acts : Blank(acts[i])
      BY BlankReply
    <2> HIDE DEF acts
    <2> QED BY <2>1, <2>2 DEF Blanks
  <1> QED BY <1>1, <1>2

(***************************************************************************)
(* What stays true of a name when a step leaves the late messages alone    *)
(* and the catalog only grows.                                             *)
(***************************************************************************)
LateKept == \A p \in Posts : ~Early(p) => ~Early(p)' /\ post'[p].msg = post[p].msg /\ post'[p].n = post[p].n

\* What was named stays named.
LEMMA NameFrame ==
    ASSUME mode' = mode, Grows(cat, cat'), LateKept
    PROVE  /\ \A tools : KnownTools(cat, tools) => KnownTools(cat', tools)
           /\ \A p, s : Called(p, s) => Called(p, s)'
           /\ \A a : ActNamed(a) => ActNamed(a)'
           /\ \A t : ThreadNamed(t) /\ thread'[t] = thread[t] => ThreadNamed(t)'
           /\ \A r : ReplyKnown(r) => ReplyKnown(r)'
           /\ SeenNamed /\ seen'.shown = seen.shown /\ seen'.sent = seen.sent => SeenNamed'
PROOF
  <1>1. \A tools : KnownTools(cat, tools) => KnownTools(cat', tools)
    BY GrowsKnows
  <1>2. ASSUME NEW p, NEW s, Called(p, s) PROVE Called(p, s)'
    <2>1. p \in Posts /\ ~Early(p) /\ NameOwned(cat, post[p].msg.tool, s)
      BY <1>2 DEF Called
    <2>2. ~Early(p)' /\ post'[p].msg = post[p].msg
      BY <2>1 DEF LateKept
    <2>3. NameOwned(cat', post[p].msg.tool, s)
      BY <2>1, GrowsKnows
    <2> QED BY <2>1, <2>2, <2>3 DEF Called
  <1>3. ASSUME NEW a, ActNamed(a) PROVE ActNamed(a)'
    BY <1>1, <1>2, <1>3 DEF ActNamed
  <1>4. ASSUME NEW t, ThreadNamed(t), thread'[t] = thread[t] PROVE ThreadNamed(t)'
    <2>1. \A i \in 1..Len(thread[t].fin) : KnownTools(cat', thread[t].fin[i].visible)
      BY <1>1, <1>4 DEF ThreadNamed
    <2>2. PICK todo : todo = thread[t].todo
      OBVIOUS
    <2>3. \A i \in 1..Len(todo) : ActNamed(todo[i])
      BY <1>4, <2>2 DEF ThreadNamed
    <2>4. \A i \in 1..Len(todo) : ActNamed(todo[i])'
      BY <1>3, <2>3
    <2>5. todo = thread'[t].todo
      BY <1>4, <2>2
    <2> QED BY <1>4, <2>1, <2>4, <2>5 DEF ThreadNamed, ActNamed
  <1>5. ASSUME NEW r, ReplyKnown(r) PROVE ReplyKnown(r)'
    BY <1>1, <1>5 DEF ReplyKnown
  <1>6. SeenNamed /\ seen'.shown = seen.shown /\ seen'.sent = seen.sent => SeenNamed'
    BY <1>2, GrowsKnows DEF SeenNamed
  <1> QED BY <1>1, <1>2, <1>3, <1>4, <1>5, <1>6

\* What stays true of the only upstream when no number is taken off the list.
LEMMA OneFrame ==
    ASSUME mode' = mode, LateKept
    PROVE  /\ \A m : OneMsg(m) /\ (m.id \in hub.listed => m.id \in hub'.listed) => OneMsg(m)'
           /\ \A l : OneLine(l) /\ (l.id \in hub.listed => l.id \in hub'.listed) => OneLine(l)'
           /\ \A t : OneThread(t) /\ thread'[t] = thread[t] /\ hub.listed \subseteq hub'.listed /\ (Crossed(t)' => Crossed(t)) => OneThread(t)'
           /\ PipeOK /\ hub.listed \subseteq hub'.listed /\ (\A s \in ServerSet : srv'[s].inbox = srv[s].inbox /\ srv'[s].out = srv[s].out) =>
                PipeOK' /\ \A t : Crossed(t)' <=> Crossed(t)
           /\ ClientListed /\ hub.listed \subseteq hub'.listed /\ client'.queue = client.queue /\ client'.running = client.running => ClientListed'
PROOF
  <1>1. ASSUME NEW m, OfPost(m) PROVE OfPost(m)'
    BY <1>1 DEF OfPost, LateKept
  <1>2. ASSUME NEW m, OneMsg(m), m.id \in hub.listed => m.id \in hub'.listed PROVE OneMsg(m)'
    BY <1>1, <1>2 DEF OneMsg
  <1>3. ASSUME NEW l, OneLine(l), l.id \in hub.listed => l.id \in hub'.listed PROVE OneLine(l)'
    BY <1>1, <1>3 DEF OneLine
  <1>4. ASSUME NEW t, OneThread(t), thread'[t] = thread[t], hub.listed \subseteq hub'.listed, Crossed(t)' => Crossed(t) PROVE OneThread(t)'
    <2>1. PICK x : x = thread[t]
      OBVIOUS
    <2>2. x = thread'[t]
      BY <1>4, <2>1
    <2>3. x.todo # <<>> /\ Head(x.todo).to # "agent" => OneMsg(Head(x.todo).msg)
      BY <1>4, <2>1 DEF OneThread, OneWork
    <2>4. x.todo # <<>> /\ Head(x.todo).to # "agent" => OneMsg(Head(x.todo).msg)'
      BY <1>2, <1>4, <2>3
    <2> QED BY <1>4, <2>1, <2>2, <2>4 DEF OneThread, OneWork, OneMsg, OfPost
  <1>5. ASSUME PipeOK, hub.listed \subseteq hub'.listed, \A s \in ServerSet : srv'[s].inbox = srv[s].inbox /\ srv'[s].out = srv[s].out
        PROVE  PipeOK' /\ \A t : Crossed(t)' <=> Crossed(t)
    <2>1. srv'[Only].inbox = srv[Only].inbox /\ srv'[Only].out = srv[Only].out
      BY <1>5, ServersOnce
    <2>2. PICK inbox : inbox = srv[Only].inbox
      OBVIOUS
    <2>3. PICK out : out = srv[Only].out
      OBVIOUS
    <2>4. (\A m \in inbox : OneMsg(m)') /\ \A i \in 1..Len(out) : OneLine(out[i])'
      BY <1>2, <1>3, <1>5, <2>2, <2>3 DEF PipeOK
    <2>5. \A i \in 1..Len(srv'[Only].out) : OneLine(srv[Only].out[i])'
      BY <2>1, <2>3, <2>4 DEF OneLine, OfPost
    <2>6. \A m \in srv'[Only].inbox : OneMsg(m)'
      BY <2>1, <2>2, <2>4
    <2>7. PipeOK'
      BY <1>5, <2>1, <2>5, <2>6 DEF PipeOK
    <2> QED BY <2>1, <2>7 DEF Crossed
  <1>6. ASSUME ClientListed, hub.listed \subseteq hub'.listed, client'.queue = client.queue, client'.running = client.running PROVE ClientListed'
    <2>1. PICK queue : queue = client.queue
      OBVIOUS
    <2>2. \A i \in 1..Len(queue) : OneMsg(queue[i])'
      BY <1>2, <1>6, <2>1 DEF ClientListed
    <2>3. \A i \in 1..Len(client'.queue) : OneMsg(client.queue[i])'
      BY <1>6, <2>1, <2>2 DEF OneMsg, OfPost
    <2>4. PICK running : running = client.running
      OBVIOUS
    <2>5. \A x \in running : OneMsg(x.msg)'
      BY <1>2, <1>6, <2>4 DEF ClientListed
    <2> QED BY <1>6, <2>3, <2>4, <2>5 DEF ClientListed
  <1> QED BY <1>2, <1>3, <1>4, <1>5, <1>6

\* A message moves on and stays the message it is.
PostsKept ==
    \A p \in Posts : /\ post'[p].n = post[p].n /\ post'[p].msg = post[p].msg
                     /\ \/ post'[p].phase = post[p].phase
                        \/ post[p].phase = "decide" /\ post'[p].phase = "dispatch"
                        \/ post'[p].phase \notin {"new", "decide", "dispatch"}
\* Such a step keeps the numbers.
LEMMA PostsFrame ==
    ASSUME mode' = mode, PostsKept
    PROVE  LateKept /\ (Numbered /\ hub'.nextId = hub.nextId => Numbered')
PROOF
  <1>1. LateKept
    BY DEF PostsKept, LateKept, Early
  <1>2. ASSUME Numbered, hub'.nextId = hub.nextId PROVE Numbered'
    <2>1. \A p \in Posts : post'[p].phase \in {"decide", "dispatch"} => post[p].phase \in {"decide", "dispatch"}
      BY DEF PostsKept
    <2>2. /\ \A p \in Posts : post'[p].n \in 0..(hub'.nextId - 1)
          /\ \A p, q \in Posts : post'[p].n = post'[q].n /\ post'[p].n # NoId => p = q
      BY <1>2 DEF PostsKept, Numbered
    <2>3. ASSUME NEW p \in Posts, post'[p].phase \in {"decide", "dispatch"}
          PROVE  IsMessage(post'[p].msg) /\ (mode # "stdio" => post'[p].msg.id = post'[p].n /\ (IsRequest(post'[p].msg.method) => post'[p].n # NoId))
      BY <1>2, <2>1, <2>3 DEF PostsKept, Numbered
    <2> QED BY <2>2, <2>3 DEF Numbered
  <1> QED BY <1>1, <1>2

\* The parts.
LEMMA NameParts ==
    ASSUME NameBooks
    PROVE  /\ CatPlain /\ (\A t \in Threads : ThreadNamed(t)) /\ (\A p \in Posts : PostNamed(p)) /\ SeenNamed /\ Numbered
           /\ (~Routed => \A t \in Threads : OneThread(t)) /\ (mode = "single" => PipeOK) /\ (mode = "relay" => ClientListed)
BY DEF NameBooks, Named, OneUpstream

\* An answer shows what the catalog knows.
LEMMA AnswerShown ==
    ASSUME TransportBooks, NameBooks, mode' = mode, cat' = cat, LateKept, NEW q, NEW reply, KnownTools(cat, reply.tools),
           seen' = Answered(q, reply)
    PROVE  SeenNamed'
PROOF
  <1>1. seen'.shown = seen.shown \cup Shown(reply) /\ seen'.sent = seen.sent
    <2>1. SeenShape(seen)
      BY Parts DEF SessionOK
    <2> DEFINE A == [seen.answers EXCEPT ![q] = Append(@, reply.origin)]
               H == seen.shown \cup Shown(reply)
    <2>2. seen' = [seen EXCEPT !.answers = A, !.shown = H]
      BY <2>1 DEF Answered, SeenShape
    <2> HIDE DEF A, H
    <2>3. seen'.shown = H /\ seen'.sent = seen.sent
      BY <2>1, <2>2 DEF SeenShape
    <2> QED BY <2>3 DEF H
  <1>2. ASSUME NEW x \in Shown(reply) PROVE x = <<x[1], x[2], x[3]>> /\ Known(cat, x[1], x[2], x[3])
    <2>1. PICK i \in DOMAIN reply.tools : x = <<reply.tools[i].name, IF Routed THEN cat.exposed[reply.tools[i].name][1] ELSE Only, reply.tools[i].def>>
      BY <1>2 DEF Shown
    <2>2. i \in 1..Len(reply.tools)
      BY <2>1 DEF KnownTools, IsSeq
    <2>3. Known(cat, reply.tools[i].name, OwnerIn(cat, reply.tools[i].name), reply.tools[i].def)
      BY <2>2 DEF KnownTools
    <2>4. OwnerIn(cat, reply.tools[i].name) = IF Routed THEN cat.exposed[reply.tools[i].name][1] ELSE Only
      BY NameParts DEF OwnerIn, CatPlain
    <2> QED BY <2>1, <2>3, <2>4
  <1>3. Grows(cat, cat')
    BY GrowsOn
  <1>4. \A p, s : Called(p, s) => Called(p, s)'
    BY <1>3, NameFrame
  <1> QED BY <1>1, <1>2, <1>4, NameParts DEF SeenNamed

(***************************************************************************)
(* The steps.                                                              *)
(***************************************************************************)
\* The parts make the whole.
LEMMA NamesTogether ==
    ASSUME mode' = mode, CatPlain', \A t \in Threads : ThreadNamed(t)', \A p \in Posts : PostNamed(p)', SeenNamed', Numbered',
           ~Routed => \A t \in Threads : OneThread(t)', mode = "single" => PipeOK', mode = "relay" => ClientListed'
    PROVE  NameBooks'
BY DEF NameBooks, Named, OneUpstream, Routed

\* What threads, servers and the client hold does not change.
LEMMA AgentSide ==
    ASSUME TransportBooks, NameBooks, UNCHANGED <<mode, cat, thread>>, LateKept, Numbered', hub.listed \subseteq hub'.listed,
           \A s \in ServerSet : srv'[s].inbox = srv[s].inbox /\ srv'[s].out = srv[s].out,
           client'.queue = client.queue, client'.running = client.running,
           \A p \in Posts : PostNamed(p)', SeenNamed'
    PROVE  NameBooks'
PROOF
  <1>1. CatPlain'
    BY NameParts DEF CatPlain, Routed
  <1>2. Grows(cat, cat')
    BY GrowsOn
  <1>3. \A t \in Threads : ThreadNamed(t)'
    BY <1>2, NameFrame, NameParts
  <1>4. ~Routed => \A t \in Threads : OneThread(t)'
    <2>1. \A t : Crossed(t)' => Crossed(t)
      BY ServersOnce DEF Crossed
    <2> QED BY <2>1, OneFrame, NameParts
  <1>5. mode = "single" => PipeOK'
    BY OneFrame, NameParts
  <1>6. mode = "relay" => ClientListed'
    BY OneFrame, NameParts
  <1> QED BY <1>1, <1>3, <1>4, <1>5, <1>6, NamesTogether

\* One message changes, and with it neither of the answers it holds.
LEMMA PostNamedSet ==
    ASSUME TransportBooks, NameBooks, mode' = mode, cat' = cat, LateKept, NEW p, NEW x, post' = [post EXCEPT ![p] = x],
           p \in Posts => x.direct \in {None, post[p].direct} /\ x.reply \in {None, post[p].reply}
    PROVE  \A q \in Posts : PostNamed(q)'
PROOF
  <1> SUFFICES ASSUME NEW q \in Posts PROVE PostNamed(q)'
    OBVIOUS
  <1>1. PostNamed(q)
    BY NameParts
  <1>2. post'[q].direct \in {None, post[q].direct} /\ post'[q].reply \in {None, post[q].reply}
    BY Parts DEF PostsOK
  <1>3. \A r : ReplyKnown(r) => ReplyKnown(r)'
    BY GrowsOn, NameFrame
  <1>4. ReplyKnown(None)
    BY DEF ReplyKnown
  <1>5. PICK d : d = post'[q].direct
    OBVIOUS
  <1>6. PICK r : r = post'[q].reply
    OBVIOUS
  <1>7. ReplyKnown(d) /\ ReplyKnown(r)
    BY <1>1, <1>2, <1>4, <1>5, <1>6 DEF PostNamed
  <1>8. ReplyKnown(d)' /\ ReplyKnown(r)'
    BY <1>3, <1>7
  <1> QED BY <1>5, <1>6, <1>8 DEF PostNamed, ReplyKnown

\* What was seen does not change.
LEMMA SeenNamedStays ==
    ASSUME NameBooks, mode' = mode, cat' = cat, LateKept, seen'.shown = seen.shown, seen'.sent = seen.sent
    PROVE  SeenNamed'
BY GrowsOn, NameFrame, NameParts

\* One message is replaced.
LEMMA PostReplaced ==
    ASSUME TransportBooks, NEW p \in Posts, NEW x, post' = [post EXCEPT ![p] = x]
    PROVE  post'[p] = x /\ \A q \in Posts : q # p => post'[q] = post[q]
BY Parts DEF PostsOK

\* A message that is over is still the one it was.
LEMMA ClosingKeeps ==
    ASSUME TransportBooks, NEW p \in Posts
    PROVE  Closed(p).n = post[p].n /\ Closed(p).msg = post[p].msg /\ Closed(p).direct = None /\ Closed(p).reply = None /\ Closed(p).phase = "done"
PROOF
  <1>1. IsPost(post[p])
    BY Parts DEF PostsOK
  <1> QED BY <1>1 DEF IsPost, Closed

\* A message arrives.
LEMMA ArrivesNames ==
    ASSUME TransportBooks, NameBooks, NEW p \in Posts, Arrives(p)
    PROVE  NameBooks'
PROOF
  <1> USE DEF NoId
  <1>0. /\ post[p].phase = "new" /\ UNCHANGED <<mode, st, cat, thread, srv, client, seen>> /\ IsPost(post[p]) /\ HubShape(hub)
        /\ hub.nextId \in Nat \ {0}
    BY Parts DEF Arrives, PostsOK, HubOK, HubShape
  <1>1. PICK m \in Messages[p] : 
        LET msg == [method |-> m.method, id |-> IF IsRequest(m.method) THEN OriginalId ELSE NoId,
                    tool |-> m.tool, ref |-> m.ref, origin |-> p]
            known == ForwardedAs(m.session, m.ref)
            forwarded == [msg EXCEPT !.id = IF @ = NoId THEN NoId ELSE hub.nextId,
                                     !.ref = IF m.method = "cancelled" THEN CHOOSE n \in known : TRUE ELSE @]
        IN  IF mode = "stdio"
            THEN /\ m.method # "delete" /\ m.headers = "ok"
                 /\ post' = [post EXCEPT ![p].phase = "decide", ![p].msg = [msg EXCEPT !.id = IF @ = NoId THEN NoId ELSE p]]
                 /\ UNCHANGED hub
            ELSE CASE Admission(m) # "ok" -> post' = [post EXCEPT ![p] = Closed(p)] /\ UNCHANGED hub
                   [] Admission(m) = "ok" /\ m.method = "delete" ->
                        /\ hub' = [hub EXCEPT !.sessions = @ \ {m.session}]
                        /\ post' = [post EXCEPT ![p] = Closed(p)]
                   [] Admission(m) = "ok" /\ m.method = "cancelled" /\ known = {} -> post' = [post EXCEPT ![p] = Closed(p)] /\ UNCHANGED hub
                   [] OTHER ->
                        /\ hub' = IF msg.id = NoId THEN hub
                                  ELSE [hub EXCEPT !.nextId = @ + 1, !.waiters = Insert(@, hub.nextId, p)]
                        /\ post' = [post EXCEPT ![p].phase = "decide", ![p].session = m.session, ![p].msg = forwarded,
                                                ![p].n = IF msg.id = NoId THEN NoId ELSE hub.nextId]
    BY Zenon DEF Arrives
  <1> DEFINE msg == [method |-> m.method, id |-> IF IsRequest(m.method) THEN OriginalId ELSE NoId,
                     tool |-> m.tool, ref |-> m.ref, origin |-> p]
             known == ForwardedAs(m.session, m.ref)
             found == CHOOSE n \in known : TRUE
             forwarded == [msg EXCEPT !.id = IF @ = NoId THEN NoId ELSE hub.nextId,
                                      !.ref = IF m.method = "cancelled" THEN found ELSE @]
             numbered == [msg EXCEPT !.id = IF @ = NoId THEN NoId ELSE p]
             n == IF msg.id = NoId THEN NoId ELSE hub.nextId
             x1 == [post[p] EXCEPT !.phase = "decide", !.msg = numbered]
             x3 == [post[p] EXCEPT !.phase = "decide", !.session = m.session, !.msg = forwarded, !.n = n]
  <1>2. \/ mode = "stdio" /\ post' = [post EXCEPT ![p] = x1] /\ hub' = hub
        \/ post' = [post EXCEPT ![p] = Closed(p)] /\ (hub' = hub \/ hub' = [hub EXCEPT !.sessions = @ \ {m.session}])
        \/ /\ mode # "stdio" /\ post' = [post EXCEPT ![p] = x3]
           /\ hub' = IF msg.id = NoId THEN hub ELSE [hub EXCEPT !.nextId = @ + 1, !.waiters = Insert(@, hub.nextId, p)]
    <2>1. CASE mode = "stdio"
      <3>1. post' = [post EXCEPT ![p].phase = "decide", ![p].msg = numbered] /\ hub' = hub
        BY <1>1, <2>1
      <3> HIDE DEF numbered
      <3>2. post' = [post EXCEPT ![p] = x1]
        BY <1>0, <3>1, Parts DEF IsPost, PostsOK
      <3> QED BY <2>1, <3>1, <3>2
    <2>2. CASE mode # "stdio" /\ (Admission(m) # "ok" \/ m.method = "delete" \/ (m.method = "cancelled" /\ known = {}))
      BY <1>1, <2>2
    <2>3. CASE mode # "stdio" /\ ~(Admission(m) # "ok" \/ m.method = "delete" \/ (m.method = "cancelled" /\ known = {}))
      <3>1. /\ hub' = IF msg.id = NoId THEN hub ELSE [hub EXCEPT !.nextId = @ + 1, !.waiters = Insert(@, hub.nextId, p)]
            /\ post' = [post EXCEPT ![p].phase = "decide", ![p].session = m.session, ![p].msg = forwarded, ![p].n = n]
        BY <1>1, <2>3
      <3> HIDE DEF forwarded, msg, n
      <3>2. post' = [post EXCEPT ![p] = x3]
        BY <1>0, <3>1, Parts DEF IsPost, PostsOK
      <3> QED BY <2>3, <3>1, <3>2
    <2> QED BY <2>1, <2>2, <2>3
  <1>3. IsMessage(numbered) /\ IsMessage(forwarded)
    <2>1. ASSUME NEW a, NEW b, NEW c, NEW d, NEW e PROVE IsMessage([method |-> a, id |-> b, tool |-> c, ref |-> d, origin |-> e])
      BY DEF IsMessage
    <2> DEFINE ref == IF m.method = "cancelled" THEN found ELSE m.ref
    <2>2. numbered = [method |-> m.method, id |-> IF msg.id = NoId THEN NoId ELSE p, tool |-> m.tool, ref |-> m.ref, origin |-> p]
      OBVIOUS
    <2> HIDE DEF found
    <2>3. forwarded = [method |-> m.method, id |-> n, tool |-> m.tool, ref |-> ref, origin |-> p]
      <3>1. PICK i : i = IF IsRequest(m.method) THEN OriginalId ELSE NoId
        OBVIOUS
      <3>2. msg = [method |-> m.method, id |-> i, tool |-> m.tool, ref |-> m.ref, origin |-> p] /\ msg.id = i /\ msg.ref = m.ref
        BY <3>1
      <3> HIDE DEF msg
      <3>3. PICK j : j = n
        OBVIOUS
      <3>4. PICK k : k = ref
        OBVIOUS
      <3>5. forwarded = [msg EXCEPT !.id = j, !.ref = k]
        BY <3>2, <3>3, <3>4
      <3> HIDE DEF forwarded, n, ref
      <3>6. [msg EXCEPT !.id = j, !.ref = k] = [method |-> m.method, id |-> j, tool |-> m.tool, ref |-> k, origin |-> p]
        <4> DEFINE a == [msg EXCEPT !.id = j]
        <4>1. a = [method |-> m.method, id |-> j, tool |-> m.tool, ref |-> m.ref, origin |-> p]
          BY <3>2
        <4> HIDE DEF a
        <4>2. [a EXCEPT !.ref = k] = [method |-> m.method, id |-> j, tool |-> m.tool, ref |-> k, origin |-> p]
          BY <4>1
        <4> QED BY <4>2 DEF a
      <3> QED BY <3>3, <3>4, <3>5, <3>6
    <2> HIDE DEF ref, n, forwarded, numbered, msg
    <2> QED BY <2>1, <2>2, <2>3
  <1>4. /\ forwarded.id = n /\ forwarded.method = m.method
        /\ (IsRequest(m.method) => n = hub.nextId) /\ n \in {NoId, hub.nextId}
    BY DEF OriginalId
  <1> DEFINE grown == [hub EXCEPT !.nextId = @ + 1, !.waiters = Insert(@, hub.nextId, p)]
  <1>5. grown.nextId = hub.nextId + 1 /\ grown.listed = hub.listed
    BY <1>0 DEF HubShape
  <1>6. n = hub.nextId \/ (n = NoId /\ msg.id = NoId)
    OBVIOUS
  <1>7. msg.id # NoId => n = hub.nextId
    OBVIOUS
  <1>13. msg.id = NoId => n = NoId
    OBVIOUS
  <1> HIDE DEF numbered, forwarded, grown, n, msg
  <1>8. /\ x1.phase = "decide" /\ x1.msg = numbered /\ x1.n = post[p].n /\ x1.direct = post[p].direct /\ x1.reply = post[p].reply
        /\ x3.phase = "decide" /\ x3.msg = forwarded /\ x3.n = n /\ x3.direct = post[p].direct /\ x3.reply = post[p].reply
    BY <1>0 DEF IsPost
  <1> HIDE DEF x1, x3
  <1>9. ASSUME NEW x, post' = [post EXCEPT ![p] = x], x.direct \in {None, post[p].direct}, x.reply \in {None, post[p].reply},
               hub.listed \subseteq hub'.listed, Numbered'
        PROVE  NameBooks'
    <2>1. LateKept
      BY <1>0, <1>9, PostReplaced DEF LateKept, Early
    <2>2. \A q \in Posts : PostNamed(q)'
      BY <1>0, <1>9, <2>1, PostNamedSet
    <2>3. SeenNamed'
      BY <1>0, <2>1, SeenNamedStays
    <2>4. /\ \A s \in ServerSet : srv'[s].inbox = srv[s].inbox /\ srv'[s].out = srv[s].out
          /\ client'.queue = client.queue /\ client'.running = client.running /\ UNCHANGED <<mode, cat, thread>>
      BY <1>0
    <2> QED BY <1>9, <2>1, <2>2, <2>3, <2>4, AgentSide
  <1>10. CASE mode = "stdio" /\ post' = [post EXCEPT ![p] = x1] /\ hub' = hub
    <2>1. post'[p] = x1 /\ \A q \in Posts : q # p => post'[q] = post[q]
      BY <1>10, PostReplaced
    <2>2. Numbered'
      <3>1. /\ \A q \in Posts : post'[q].n = post[q].n
            /\ \A q \in Posts : post'[q].phase \in {"decide", "dispatch"} => IsMessage(post'[q].msg)
        BY <1>3, <1>8, <2>1, NameParts DEF Numbered
      <3> QED BY <1>0, <1>10, <3>1, NameParts DEF Numbered
    <2> QED BY <1>8, <1>9, <1>10, <2>2
  <1>11. CASE post' = [post EXCEPT ![p] = Closed(p)] /\ (hub' = hub \/ hub' = [hub EXCEPT !.sessions = @ \ {m.session}])
    <2>1. post'[p] = Closed(p) /\ \A q \in Posts : q # p => post'[q] = post[q]
      BY <1>11, PostReplaced
    <2>2. hub'.nextId = hub.nextId /\ hub'.listed = hub.listed
      BY <1>0, <1>11 DEF HubShape
    <2>3. PostsKept
      BY <2>1, ClosingKeeps DEF PostsKept
    <2>4. Numbered'
      BY <1>0, <2>2, <2>3, PostsFrame, NameParts
    <2> QED BY <1>9, <1>11, <2>2, <2>4, ClosingKeeps
  <1>12. CASE mode # "stdio" /\ post' = [post EXCEPT ![p] = x3] /\ hub' = IF msg.id = NoId THEN hub ELSE grown
    <2>1. post'[p] = x3 /\ \A q \in Posts : q # p => post'[q] = post[q]
      BY <1>12, PostReplaced
    <2>2. /\ hub'.listed = hub.listed
          /\ hub'.nextId \in {hub.nextId, hub.nextId + 1} /\ n \in 0..(hub'.nextId - 1)
      <3>1. CASE msg.id = NoId
        BY <1>0, <1>12, <1>13, <3>1
      <3>2. CASE msg.id # NoId
        BY <1>0, <1>5, <1>7, <1>12, <3>2
      <3> QED BY <3>1, <3>2
    <2>3. \A q \in Posts : post[q].n \in 0..(hub.nextId - 1)
      BY NameParts DEF Numbered
    <2>4. \A q \in Posts : post'[q].n \in 0..(hub'.nextId - 1)
      BY <1>0, <1>8, <2>1, <2>2, <2>3
    <2>5. ASSUME NEW q \in Posts, NEW r \in Posts, post'[q].n = post'[r].n, post'[q].n # NoId PROVE q = r
      <3>1. CASE q # p /\ r # p
        BY <2>1, <2>5, <3>1, NameParts DEF Numbered
      <3>2. CASE (q = p /\ r # p) \/ (q # p /\ r = p)
        BY <1>0, <1>4, <1>8, <2>1, <2>3, <2>5, <3>2
      <3> QED BY <3>1, <3>2
    <2>6. ASSUME NEW q \in Posts, post'[q].phase \in {"decide", "dispatch"}
          PROVE  IsMessage(post'[q].msg) /\ post'[q].msg.id = post'[q].n /\ (IsRequest(post'[q].msg.method) => post'[q].n # NoId)
      <3>1. CASE q = p
        BY <1>0, <1>3, <1>4, <1>8, <2>1, <3>1
      <3>2. CASE q # p
        BY <1>12, <2>1, <2>6, <3>2, NameParts DEF Numbered
      <3> QED BY <3>1, <3>2
    <2>7. Numbered'
      BY <2>4, <2>5, <2>6 DEF Numbered
    <2> QED BY <1>8, <1>9, <1>12, <2>2, <2>7
  <1> QED BY <1>2, <1>10, <1>11, <1>12 DEF grown

\* A message's state changes and nothing else that matters here.
LEMMA MessageMoves ==
    ASSUME TransportBooks, NameBooks, UNCHANGED <<mode, cat, thread, srv, client>>, NEW p \in Posts, NEW x,
           post' = [post EXCEPT ![p] = x], x.n = post[p].n, x.msg = post[p].msg,
           x.phase = post[p].phase \/ (post[p].phase = "decide" /\ x.phase = "dispatch") \/ x.phase \notin {"new", "decide", "dispatch"},
           x.direct \in {None, post[p].direct}, x.reply \in {None, post[p].reply},
           hub'.nextId = hub.nextId, hub'.listed = hub.listed,
           \/ seen'.shown = seen.shown /\ seen'.sent = seen.sent
           \/ \E q, reply : KnownTools(cat, reply.tools) /\ seen' = Answered(q, reply)
    PROVE  NameBooks'
PROOF
  <1>1. post'[p] = x /\ \A q \in Posts : q # p => post'[q] = post[q]
    BY PostReplaced
  <1>2. PostsKept
    BY <1>1 DEF PostsKept
  <1>3. LateKept /\ Numbered'
    BY <1>2, PostsFrame, NameParts
  <1>4. \A q \in Posts : PostNamed(q)'
    BY <1>3, PostNamedSet
  <1>5. SeenNamed'
    BY <1>3, SeenNamedStays, AnswerShown
  <1>6. /\ \A s \in ServerSet : srv'[s].inbox = srv[s].inbox /\ srv'[s].out = srv[s].out
        /\ client'.queue = client.queue /\ client'.running = client.running /\ UNCHANGED <<mode, cat, thread>>
    OBVIOUS
  <1> QED BY <1>3, <1>4, <1>5, <1>6, AgentSide

\* A client disconnects.
LEMMA DisconnectsNames ==
    ASSUME TransportBooks, NameBooks, NEW p \in Posts, Disconnects(p)
    PROVE  NameBooks'
PROOF
  <1>0. IsPost(post[p]) /\ SeenShape(seen)
    BY Parts DEF PostsOK, SessionOK
  <1>1. UNCHANGED <<mode, cat, thread, srv, client>> /\ hub' = hub /\ seen' = [seen EXCEPT !.faults = @ + 1]
    BY DEF Disconnects, Faults
  <1>2. seen'.shown = seen.shown /\ seen'.sent = seen.sent
    BY <1>0, <1>1 DEF SeenShape
  <1> DEFINE x1 == [post[p] EXCEPT !.cut = TRUE]
             x2 == [Closed(p) EXCEPT !.cut = TRUE]
  <1>3. /\ x1.n = post[p].n /\ x1.msg = post[p].msg /\ x1.phase = post[p].phase /\ x1.direct = post[p].direct /\ x1.reply = post[p].reply
        /\ x2.n = post[p].n /\ x2.msg = post[p].msg /\ x2.phase = "done" /\ x2.direct = None /\ x2.reply = None
    BY <1>0 DEF IsPost, Closed
  <1>4. post' = [post EXCEPT ![p] = x1] \/ post' = [post EXCEPT ![p] = x2]
    <2>1. post' = [post EXCEPT ![p].cut = TRUE] \/ post' = [post EXCEPT ![p] = x2]
      BY DEF Disconnects
    <2> QED BY <2>1
  <1> HIDE DEF x1, x2
  <1> QED BY <1>1, <1>2, <1>3, <1>4, MessageMoves

\* A handler ends.
LEMMA PostEndsNames ==
    ASSUME TransportBooks, NameBooks, NEW p \in Posts, PostEnds(p)
    PROVE  NameBooks'
PROOF
  <1>0. IsPost(post[p]) /\ HubShape(hub)
    BY Parts DEF PostsOK, HubOK
  <1>1. UNCHANGED <<mode, cat, thread, srv, client>>
    BY DEF PostEnds
  <1> DEFINE reply == post[p].direct
             x == [post[p] EXCEPT !.phase = "wait"]
             over == [hub EXCEPT !.waiters = Forget(@, {post[p].n}), !.sessions = @ \cup Issue(p, reply)]
  <1>2. \/ post' = [post EXCEPT ![p] = Closed(p)] /\ hub' = hub /\ seen' = seen
        \/ reply # None /\ post' = [post EXCEPT ![p] = Closed(p)] /\ hub' = over /\ seen' = Answered(p, reply)
        \/ post' = [post EXCEPT ![p] = x] /\ hub' = hub /\ seen' = seen
    BY DEF PostEnds
  <1>3. over.nextId = hub.nextId /\ over.listed = hub.listed
    BY <1>0 DEF HubShape
  <1>4. x.n = post[p].n /\ x.msg = post[p].msg /\ x.phase = "wait" /\ x.direct = post[p].direct /\ x.reply = post[p].reply
    BY <1>0 DEF IsPost
  <1>5. reply # None => KnownTools(cat, reply.tools)
    BY NameParts DEF PostNamed, ReplyKnown
  <1> HIDE DEF x, over, reply
  <1> QED BY <1>1, <1>2, <1>3, <1>4, <1>5, ClosingKeeps, MessageMoves

\* A message that waits is answered.
LEMMA PostAnsweredNames ==
    ASSUME TransportBooks, NameBooks, NEW p \in Posts, PostAnswered(p)
    PROVE  NameBooks'
PROOF
  <1>0. HubShape(hub)
    BY Parts DEF HubOK
  <1>1. UNCHANGED <<mode, cat, thread, srv, client>>
    BY DEF PostAnswered
  <1> DEFINE lost == Reply(post[p].n, "upstream_unavailable", p)
             reply == IF post[p].reply # None THEN post[p].reply ELSE lost
             issued == [hub EXCEPT !.sessions = @ \cup Issue(p, reply)]
  <1>2. post' = [post EXCEPT ![p] = Closed(p)] /\ hub' = issued /\ seen' = Answered(p, reply)
    BY DEF PostAnswered
  <1>3. issued.nextId = hub.nextId /\ issued.listed = hub.listed
    BY <1>0 DEF HubShape
  <1>4. KnownTools(cat, reply.tools)
    <2>1. lost.tools = <<>>
      BY DEF Reply
    <2>2. KnownTools(cat, lost.tools)
      BY <2>1, KnownFew
    <2>3. post[p].reply # None => KnownTools(cat, post[p].reply.tools)
      BY NameParts DEF PostNamed, ReplyKnown
    <2> HIDE DEF lost
    <2> QED BY <2>2, <2>3
  <1> HIDE DEF issued, reply, lost
  <1> QED BY <1>1, <1>2, <1>3, <1>4, ClosingKeeps, MessageMoves

\* The servers' and the client's work stays, and so does every message.
LEMMA WorkStays ==
    ASSUME TransportBooks, NameBooks, UNCHANGED <<mode, cat, post, thread>>, hub'.nextId = hub.nextId, hub'.listed = hub.listed,
           \A s \in ServerSet : srv'[s].inbox = srv[s].inbox /\ srv'[s].out = srv[s].out,
           client'.queue = client.queue, client'.running = client.running, seen'.shown = seen.shown, seen'.sent = seen.sent
    PROVE  NameBooks'
PROOF
  <1>1. PostsKept
    BY DEF PostsKept
  <1>2. LateKept /\ Numbered'
    BY <1>1, PostsFrame, NameParts
  <1>3. \A q \in Posts : PostNamed(q)'
    BY NameParts DEF PostNamed, ReplyKnown
  <1>4. SeenNamed'
    BY <1>2, SeenNamedStays
  <1> QED BY <1>2, <1>3, <1>4, AgentSide

\* An ingress ends.
LEMMA IngressEndsNames ==
    ASSUME TransportBooks, NameBooks, NEW s \in ServerSet, IngressEnds(s)
    PROVE  NameBooks'
PROOF
  <1>0. /\ srv = [r \in ServerSet |-> srv[r]] /\ IsServer(srv[s]) /\ HubShape(hub)
    BY Parts DEF ServersOK, HubOK
  <1>1. /\ UNCHANGED <<mode, cat, post, thread, client, seen>> /\ srv' = [srv EXCEPT ![s].ingress = "ended"]
        /\ hub' = hub \/ hub' = [hub EXCEPT !.waiters = Empty, !.stopping = TRUE]
    BY DEF IngressEnds
  <1>2. hub'.nextId = hub.nextId /\ hub'.listed = hub.listed
    BY <1>0, <1>1 DEF HubShape
  <1>3. \A r \in ServerSet : srv'[r].inbox = srv[r].inbox /\ srv'[r].out = srv[r].out
    BY <1>0, <1>1 DEF IsServer
  <1> QED BY <1>1, <1>2, <1>3, WorkStays

\* The servers' input is closed; the client is.
LEMMA ClosesNames ==
    ASSUME TransportBooks, NameBooks, ClosesServers \/ ClosesClient
    PROVE  NameBooks'
PROOF
  <1>0. /\ \A s \in ServerSet : IsServer(srv[s])
        /\ HubShape(hub) /\ ClientShape(client)
    BY Parts DEF ServersOK, HubOK, ClientOK
  <1>1. CASE ClosesServers
    <2>1. /\ UNCHANGED <<mode, cat, post, thread, client, seen>> /\ hub' = [hub EXCEPT !.stopping = TRUE]
          /\ srv' = [s \in ServerSet |-> [srv[s] EXCEPT !.stdin = FALSE]]
      BY <1>1 DEF ClosesServers
    <2>2. hub'.nextId = hub.nextId /\ hub'.listed = hub.listed
      BY <1>0, <2>1 DEF HubShape
    <2>3. \A s \in ServerSet : srv'[s].inbox = srv[s].inbox /\ srv'[s].out = srv[s].out
      BY <1>0, <2>1 DEF IsServer
    <2> QED BY <2>1, <2>2, <2>3, WorkStays
  <1>2. CASE ClosesClient
    <2>1. /\ UNCHANGED <<mode, cat, post, thread, srv, seen>> /\ hub' = [hub EXCEPT !.stopping = TRUE]
          /\ client' = [client EXCEPT !.closed = TRUE]
      BY <1>2 DEF ClosesClient
    <2>2. hub'.nextId = hub.nextId /\ hub'.listed = hub.listed
      BY <1>0, <2>1 DEF HubShape
    <2>3. client'.queue = client.queue /\ client'.running = client.running
      BY <1>0, <2>1 DEF ClientShape
    <2> QED BY <2>1, <2>2, <2>3, WorkStays
  <1> QED BY <1>1, <1>2

(***************************************************************************)
(* A thread's work.                                                        *)
(***************************************************************************)
Sending(t) == thread[t].todo # <<>> /\ Head(thread[t].todo).to # "agent"

\* One thread changes: what it holds is named.
LEMMA ThreadNamedSet ==
    ASSUME TransportBooks, NameBooks, mode' = mode, Grows(cat, cat'), LateKept, NEW t \in Threads, NEW x,
           thread' = [thread EXCEPT ![t] = x],
           \A i \in 1..Len(x.fin) : KnownTools(cat', x.fin[i].visible),
           \A i \in 1..Len(x.todo) : ActNamed(x.todo[i])'
    PROVE  \A u \in Threads : ThreadNamed(u)'
PROOF
  <1>1. thread'[t] = x /\ \A u \in Threads : u # t => thread'[u] = thread[u]
    BY Parts DEF ThreadsOK
  <1>2. \A u \in Threads : u # t => ThreadNamed(u)'
    BY <1>1, NameFrame, NameParts
  <1>3. ThreadNamed(t)'
    BY <1>1 DEF ThreadNamed, ActNamed
  <1> QED BY <1>2, <1>3

\* With one upstream, what another step does to the list or the pipes does not touch a thread's message.
LEMMA OneThreadKept ==
    ASSUME mode' = mode, LateKept, NEW u, OneThread(u), thread'[u] = thread[u],
           u \in Posts /\ Sending(u) =>
                (post[u].n \in hub.listed => post[u].n \in hub'.listed) /\ (mode = "single" /\ Crossed(u)' => Crossed(u))
    PROVE  OneThread(u)'
PROOF
  <1>1. PICK w : w = thread[u]
    OBVIOUS
  <1>2. w = thread'[u]
    BY <1>1
  <1>3. PICK a : a = Head(w.todo)
    OBVIOUS
  <1>4. ASSUME w.todo # <<>> PROVE OneWork(u, a)'
    <2>1. OneWork(u, a)
      BY <1>1, <1>3, <1>4 DEF OneThread
    <2>2. CASE a.to = "agent"
      BY <2>1, <2>2 DEF OneWork
    <2>3. CASE a.to # "agent"
      <3>1. u \in Posts /\ a.msg.origin = u /\ a.to = Only /\ OneMsg(a.msg) /\ (mode = "single" => ~Crossed(u))
        BY <2>1, <2>3 DEF OneWork
      <3>2. Sending(u)
        BY <1>1, <1>3, <1>4, <2>3 DEF Sending
      <3>3. a.msg.id = post[u].n
        BY <3>1 DEF OneMsg, OfPost
      <3>4. OneMsg(a.msg)'
        BY <3>1, <3>2, <3>3, OneFrame
      <3> QED BY <2>3, <3>1, <3>2, <3>4 DEF OneWork
    <2> QED BY <2>2, <2>3
  <1> QED BY <1>1, <1>2, <1>3, <1>4 DEF OneThread, OneWork, OneMsg, OfPost

\* With one upstream, a thread's work is one action.
LEMMA OneThreadSet ==
    ASSUME TransportBooks, NameBooks, mode' = mode, ~Routed, LateKept, NEW t \in Threads, NEW x,
           thread' = [thread EXCEPT ![t] = x], x.fin = <<>>, Len(x.todo) <= 1, x.todo # <<>> => OneWork(t, Head(x.todo))',
           \A u \in Posts : u # t /\ Sending(u) =>
                (post[u].n \in hub.listed => post[u].n \in hub'.listed) /\ (mode = "single" /\ Crossed(u)' => Crossed(u))
    PROVE  \A u \in Threads : OneThread(u)'
PROOF
  <1>1. thread'[t] = x /\ \A u \in Threads : u # t => thread'[u] = thread[u]
    BY Parts DEF ThreadsOK
  <1>2. OneThread(t)'
    BY <1>1 DEF OneThread, OneWork
  <1>3. \A u \in Threads : u # t => OneThread(u)'
    BY <1>1, OneThreadKept, NameParts
  <1> QED BY <1>2, <1>3

\* An action that lists no tool and calls none needs no name.
LEMMA BlankNamed == \A a : Blank(a) => ActNamed(a)
PROOF
  <1>1. KnownTools(cat, <<>>)
    BY KnownFew
  <1> QED BY <1>1 DEF Blank, ActNamed

\* What is still to be done and what is added, by place or by mark.
LEMMA MarkedActs ==
    ASSUME NEW acts, ActsOK(acts)
    PROVE  /\ Len(Direct(acts)) = Len(acts) /\ Len(Later(acts)) = Len(acts) /\ Len(acts) \in Nat /\ DOMAIN acts = 1..Len(acts)
           /\ \A i \in 1..Len(acts) :
                /\ Direct(acts)[i].to = acts[i].to /\ Direct(acts)[i].msg = acts[i].msg /\ Direct(acts)[i].direct
                /\ Later(acts)[i].to = acts[i].to /\ Later(acts)[i].msg = acts[i].msg
           /\ IsSeq(Direct(acts)) /\ IsSeq(Later(acts))
PROOF
  <1>1. PICK T : acts \in Seq(T)
    BY DEF ActsOK
  <1> DEFINE n == Len(acts)
             f == Direct(acts)
             g == Later(acts)
  <1>2. n \in Nat /\ DOMAIN acts = 1..n
    BY <1>1
  <1>3. /\ f = [i \in 1..n |-> [to |-> acts[i].to, msg |-> acts[i].msg, direct |-> TRUE]]
        /\ g = [i \in 1..n |-> [to |-> acts[i].to, msg |-> acts[i].msg, direct |-> FALSE]]
    BY <1>2 DEF Direct, Later
  <1> HIDE DEF f, g
  <1>4. IsSeq(f) /\ IsSeq(g)
    BY <1>2, Addressed, ActsIn DEF f, g, ActsOK, IsSeq
  <1>5. Len(f) = n /\ Len(g) = n
    <2>1. DOMAIN f = 1..n /\ DOMAIN g = 1..n
      BY <1>3
    <2> QED BY <1>2, <1>4, <2>1 DEF IsSeq
  <1> QED BY <1>2, <1>3, <1>4, <1>5 DEF f, g

\* Actions with nothing to name, marked.
LEMMA BlankMarked ==
    ASSUME NEW acts, ActsOK(acts), Blanks(acts)
    PROVE  (\A i \in 1..Len(Direct(acts)) : Blank(Direct(acts)[i])) /\ (\A i \in 1..Len(Later(acts)) : Blank(Later(acts)[i]))
PROOF
  <1>1. PICK f : f = Direct(acts)
    OBVIOUS
  <1>2. PICK g : g = Later(acts)
    OBVIOUS
  <1>3. /\ Len(f) = Len(acts) /\ Len(g) = Len(acts) /\ DOMAIN acts = 1..Len(acts)
        /\ \A i \in 1..Len(acts) : f[i].to = acts[i].to /\ f[i].msg = acts[i].msg /\ g[i].to = acts[i].to /\ g[i].msg = acts[i].msg
    BY <1>1, <1>2, MarkedActs
  <1>4. \A i \in 1..Len(acts) : Blank(acts[i])
    BY <1>3 DEF Blanks
  <1>5. \A i \in 1..Len(acts) : Blank(f[i]) /\ Blank(g[i])
    BY <1>3, <1>4 DEF Blank
  <1> QED BY <1>1, <1>2, <1>3, <1>5

\* A listing that begins to be finished shows nothing yet.
LEMMA FinishingNamed ==
    ASSUME NEW fin, FinOK(fin), NEW d, NEW front, NEW c
    PROVE  \A i \in 1..Len(Finishing(fin, d, front)) : KnownTools(c, Finishing(fin, d, front)[i].visible)
PROOF
  <1>1. PICK T : fin \in Seq(T)
    BY DEF FinOK
  <1> DEFINE n == Len(fin)
             f == Finishing(fin, d, front)
  <1>2. n \in Nat /\ DOMAIN fin = 1..n
    BY <1>1
  <1>3. f = [i \in 1..n |-> [agent |-> fin[i].agent, tools |-> fin[i].tools, visible |-> <<>>, direct |-> d, front |-> front]]
    BY <1>2 DEF Finishing
  <1>4. FinishingOK(f)
    BY Finished
  <1> HIDE DEF f
  <1>5. \A i \in 1..n : f[i].visible = <<>>
    BY <1>3
  <1>6. DOMAIN f = 1..n
    BY <1>3
  <1>7. Len(f) = n
    BY <1>2, <1>4, <1>6 DEF FinishingOK
  <1>8. KnownTools(c, <<>>)
    BY KnownFew
  <1> QED BY <1>5, <1>7, <1>8 DEF f

\* One thread's work changes; messages move on, and servers and client keep theirs.
LEMMA WorkMoves ==
    ASSUME TransportBooks, NameBooks, UNCHANGED <<mode, cat>>, PostsKept, hub'.nextId = hub.nextId, hub.listed \subseteq hub'.listed,
           NEW t \in Threads, NEW x, thread' = [thread EXCEPT ![t] = x],
           \A i \in 1..Len(x.fin) : KnownTools(cat, x.fin[i].visible),
           \A i \in 1..Len(x.todo) : ActNamed(x.todo[i])',
           ~Routed => x.fin = <<>> /\ Len(x.todo) <= 1 /\ (x.todo # <<>> => OneWork(t, Head(x.todo))'),
           \A s \in ServerSet : srv'[s].inbox = srv[s].inbox /\ srv'[s].out = srv[s].out,
           client'.queue = client.queue, client'.running = client.running,
           \A p \in Posts : PostNamed(p)', SeenNamed'
    PROVE  NameBooks'
PROOF
  <1>1. LateKept /\ Numbered'
    BY PostsFrame, NameParts
  <1>2. CatPlain' /\ Grows(cat, cat')
    BY GrowsOn, NameParts DEF CatPlain, Routed
  <1>3. \A u \in Threads : ThreadNamed(u)'
    BY <1>1, <1>2, ThreadNamedSet
  <1>4. \A u : Crossed(u)' => Crossed(u)
    BY ServersOnce DEF Crossed
  <1>5. ~Routed => \A u \in Threads : OneThread(u)'
    BY <1>1, <1>4, OneThreadSet
  <1>6. (mode = "single" => PipeOK') /\ (mode = "relay" => ClientListed')
    BY <1>1, OneFrame, NameParts
  <1> QED BY <1>1, <1>2, <1>3, <1>5, <1>6, NamesTogether

\* A message that moves on holds the answers it held.
LEMMA PostNamedKept ==
    ASSUME TransportBooks, NameBooks, UNCHANGED <<mode, cat>>, LateKept, NEW p, NEW ph, post' = [post EXCEPT ![p].phase = ph]
    PROVE  \A q \in Posts : PostNamed(q)'
PROOF
  <1> DEFINE x == [post[p] EXCEPT !.phase = ph]
  <1>1. post' = [post EXCEPT ![p] = x]
    OBVIOUS
  <1>2. p \in Posts => x.direct = post[p].direct /\ x.reply = post[p].reply
    BY Parts DEF PostsOK, IsPost
  <1> HIDE DEF x
  <1> QED BY <1>1, <1>2, PostNamedSet

\* A message moves on.
LEMMA PhaseMoves ==
    ASSUME TransportBooks, NEW p \in Posts, NEW ph, post' = [post EXCEPT ![p].phase = ph],
           (post[p].phase = "decide" /\ ph = "dispatch") \/ ph \notin {"new", "decide", "dispatch"}
    PROVE  PostsKept
PROOF
  <1> DEFINE x == [post[p] EXCEPT !.phase = ph]
  <1>1. post' = [post EXCEPT ![p] = x]
    OBVIOUS
  <1>2. x.n = post[p].n /\ x.msg = post[p].msg /\ x.phase = ph
    BY Parts DEF PostsOK, IsPost
  <1> HIDE DEF x
  <1>3. post'[p] = x /\ \A q \in Posts : q # p => post'[q] = post[q]
    BY <1>1, PostReplaced
  <1> QED BY <1>2, <1>3 DEF PostsKept

\* A message is decided.
LEMMA DecidesNames ==
    ASSUME TransportBooks, NameBooks, NEW p \in Posts, Decides(p)
    PROVE  NameBooks'
PROOF
  <1> DEFINE msg == post[p].msg
             why == IF msg.method = "call" THEN Refuse(cat, Only, msg.tool) ELSE "ok"
             acts == <<ToAgent(Reply(msg.id, why, p))>>
             x == [thread[p] EXCEPT !.todo = Direct(acts)]
  <1>0. p \in Threads /\ IsThread(thread[p]) /\ post[p].phase = "decide" /\ UNCHANGED <<mode, cat, srv, hub, client, seen>>
    BY Parts DEF Decides, ThreadsOK, Threads
  <1>1. \/ post' = [post EXCEPT ![p].phase = "dispatch"] /\ thread' = thread
        \/ post' = [post EXCEPT ![p].phase = "perform"] /\ thread' = [thread EXCEPT ![p] = x]
    BY DEF Decides
  <1>2. PostsKept
    BY <1>0, <1>1, PhaseMoves
  <1>3. LateKept /\ Numbered'
    BY <1>0, <1>2, PostsFrame, NameParts
  <1>4. (\A q \in Posts : PostNamed(q)') /\ SeenNamed'
    BY <1>0, <1>1, <1>3, PostNamedKept, SeenNamedStays
  <1>5. CASE thread' = thread
    BY <1>0, <1>3, <1>4, <1>5, AgentSide
  <1>6. CASE thread' = [thread EXCEPT ![p] = x]
    <2>1. PICK w : w = x
      OBVIOUS
    <2>2. w.fin = thread[p].fin /\ w.todo = Direct(acts)
      BY <1>0, <2>1 DEF IsThread
    <2>3. ActsOK(acts) /\ Blanks(acts) /\ Len(acts) = 1
      BY OneAct, BlankReply, BlankFew DEF IsTarget, ToAgent
    <2> HIDE DEF acts
    <2>4. /\ Len(w.todo) = 1 /\ IsSeq(w.todo) /\ w.todo[1].direct
          /\ \A i \in 1..Len(w.todo) : Blank(w.todo[i])
      BY <2>2, <2>3, MarkedActs, BlankMarked
    <2>5. w.todo[1].to = "agent" /\ w.todo[1] = Head(w.todo)
      <3>1. acts[1].to = "agent"
        BY DEF acts, ToAgent
      <3>2. w.todo[1].to = acts[1].to
        BY <2>2, <2>3, MarkedActs
      <3> QED BY <2>4, <3>1, <3>2 DEF IsSeq
    <2>6. \A i \in 1..Len(w.todo) : ActNamed(w.todo[i])'
      <3>1. \A i \in 1..Len(w.todo) : ActNamed(w.todo[i])
        BY <2>4, BlankNamed
      <3> QED BY <1>0, <1>3, <3>1, NameFrame, GrowsOn
    <2>7. \A i \in 1..Len(w.fin) : KnownTools(cat, w.fin[i].visible)
      BY <1>0, <2>2, NameParts DEF ThreadNamed
    <2>8. ~Routed => w.fin = <<>> /\ Len(w.todo) <= 1 /\ OneWork(p, Head(w.todo))'
      BY <1>0, <2>2, <2>4, <2>5, NameParts DEF OneThread, OneWork
    <2> HIDE DEF x
    <2> QED BY <1>0, <1>2, <1>4, <1>6, <2>1, <2>6, <2>7, <2>8, WorkMoves
  <1> QED BY <1>1, <1>5, <1>6

\* A message on its way to the only upstream is no longer early.
LEMMA CrossedLate ==
    ASSUME NameBooks, mode = "single", NEW p \in Posts, Crossed(p)
    PROVE  ~Early(p)
BY NameParts DEF PipeOK, Crossed, OneMsg, OneLine, OfPost

\* One action, marked.
LEMMA OneMarked ==
    ASSUME NEW a, IsTarget(a)
    PROVE  /\ Len(Direct(<<a>>)) = 1 /\ Head(Direct(<<a>>)) = Direct(<<a>>)[1]
           /\ Direct(<<a>>)[1].to = a.to /\ Direct(<<a>>)[1].msg = a.msg /\ Direct(<<a>>)[1].direct
           /\ Len(Later(<<a>>)) = 1 /\ Head(Later(<<a>>)) = Later(<<a>>)[1]
           /\ Later(<<a>>)[1].to = a.to /\ Later(<<a>>)[1].msg = a.msg
PROOF
  <1>1. PICK acts : acts = <<a>>
    OBVIOUS
  <1>2. ActsOK(acts) /\ Len(acts) = 1 /\ acts[1] = a
    BY <1>1, OneAct
  <1>3. \A s : IsSeq(s) /\ Len(s) = 1 => Head(s) = s[1]
    BY DEF IsSeq
  <1> QED BY <1>1, <1>2, <1>3, MarkedActs

\* A message is dispatched.
LEMMA DispatchesNames ==
    ASSUME TransportBooks, NameBooks, NEW p \in Posts, Dispatches(p)
    PROVE  NameBooks'
PROOF
  <1> DEFINE routed == Dispatch(st, cat, post[p].msg)
             kept(acts) == IF post[p].cut THEN <<>> ELSE acts
  <1>0. /\ post[p].phase = "dispatch" /\ UNCHANGED <<mode, cat, srv, client, seen>> /\ post' = [post EXCEPT ![p].phase = "perform"]
        /\ p \in Threads /\ IsThread(thread[p]) /\ HubShape(hub) /\ RouterInv(st)
    BY Parts DEF Dispatches, ThreadsOK, Threads, HubOK
  <1>1. PICK msg : msg = post[p].msg
    OBVIOUS
  <1>2. msg.method \in Methods /\ msg.origin = p /\ IsMessage(msg)
    BY <1>0, <1>1, Parts, NameParts DEF PostsOK, Decidable, Numbered
  <1>3. PostsKept
    BY <1>0, PhaseMoves
  <1>4. LateKept
    BY <1>0, <1>3, PostsFrame
  <1>5. (\A q \in Posts : PostNamed(q)') /\ SeenNamed'
    BY <1>0, <1>4, PostNamedKept, SeenNamedStays
  <1>6. ~Early(p)' /\ post'[p].msg = msg /\ post'[p].n = post[p].n
    <2>1. post'[p].phase = "perform"
      BY <1>0, Parts DEF PostsOK, IsPost
    <2> QED BY <1>1, <1>3, <2>1 DEF Early, PostsKept
  <1>7. ASSUME NEW a, a.msg.method = "call" => a.msg.origin = p /\ NameOwned(cat, msg.tool, a.to), a.to # "agent"
        PROVE  ActNamed(a)'
    BY <1>0, <1>6, <1>7 DEF ActNamed, Called
  <1>8. CASE Routed
    <2>1. thread' = [thread EXCEPT ![p] = [fin |-> Finishing(routed.fin, TRUE, FALSE), todo |-> kept(Direct(routed.acts))]] /\ hub' = hub
      BY <1>8 DEF Dispatches
    <2>2. PICK acts : acts = routed.acts
      OBVIOUS
    <2>3. PICK fin : fin = Finishing(routed.fin, TRUE, FALSE)
      OBVIOUS
    <2>4. CatalogOK(cat)
      BY <1>8, Parts DEF CatOK
    <2>5. OutOK(routed)
      BY <1>0, <1>1, <1>2, <2>4, Dispatched
    <2>6. \A i \in DOMAIN acts : Blank(acts[i]) \/
              (acts[i].to # "agent" /\ acts[i].msg.method = "call" /\ acts[i].msg.origin = p /\ NameOwned(cat, msg.tool, acts[i].to))
      BY <1>0, <1>1, <1>2, <2>2, <2>4, DispatchedAs
    <2> HIDE DEF routed
    <2>7. ActsOK(acts) /\ \A i \in 1..Len(fin) : KnownTools(cat, fin[i].visible)
      BY <2>2, <2>3, <2>5, FinishingNamed DEF OutOK
    <2>8. PICK todo : todo = kept(Direct(acts))
      OBVIOUS
    <2>9. ASSUME NEW i \in 1..Len(todo) PROVE ActNamed(todo[i])'
      <3>1. ~post[p].cut
        BY <2>8
      <3>2. todo = Direct(acts)
        BY <2>8, <3>1
      <3>3. i \in 1..Len(acts) /\ i \in DOMAIN acts /\ todo[i].to = acts[i].to /\ todo[i].msg = acts[i].msg
        BY <2>7, <3>2, MarkedActs
      <3>4. CASE Blank(acts[i])
        <4>1. Blank(todo[i])
          BY <3>3, <3>4 DEF Blank
        <4>2. ActNamed(todo[i])
          BY <4>1, BlankNamed
        <4> QED BY <1>0, <1>4, <4>2, NameFrame, GrowsOn
      <3>5. CASE ~Blank(acts[i])
        <4>1. todo[i].to # "agent" /\ todo[i].msg.origin = p /\ NameOwned(cat, msg.tool, todo[i].to)
          BY <2>6, <3>3, <3>5
        <4> QED BY <1>7, <4>1
      <3> QED BY <3>4, <3>5
    <2>10. PICK x : x = [fin |-> fin, todo |-> todo]
      OBVIOUS
    <2>11. x.fin = fin /\ x.todo = todo /\ thread' = [thread EXCEPT ![p] = x]
      BY <2>1, <2>2, <2>3, <2>8, <2>10
    <2>12. \A i \in 1..Len(x.todo) : ActNamed(x.todo[i])'
      BY <2>9, <2>11
    <2> QED BY <1>0, <1>3, <1>5, <1>8, <2>1, <2>7, <2>11, <2>12, WorkMoves
  <1>9. CASE ~Routed
    <2>1. PICK a : a = ToUpstream(Only, msg)
      OBVIOUS
    <2>2. a.to = Only /\ a.msg = msg /\ IsTarget(a) /\ Only # "agent"
      BY <2>1, ServersOnce, NotAgent DEF ToUpstream, IsTarget
    <2>3. PICK todo : todo = kept(Direct(<<a>>))
      OBVIOUS
    <2>4. PICK x : x = [thread[p] EXCEPT !.todo = todo]
      OBVIOUS
    <2>5. thread' = [thread EXCEPT ![p] = x] /\ hub' = IF msg.method = "list" THEN [hub EXCEPT !.listed = @ \cup {msg.id}] ELSE hub
      BY <1>1, <1>9, <2>1, <2>3, <2>4 DEF Dispatches
    <2>6. x.fin = thread[p].fin /\ x.todo = todo
      BY <1>0, <2>4 DEF IsThread
    <2>7. hub'.nextId = hub.nextId /\ hub.listed \subseteq hub'.listed /\ (msg.method = "list" => msg.id \in hub'.listed)
      BY <1>0, <2>5 DEF HubShape
    <2>8. thread[p].fin = <<>>
      BY <1>0, <1>9, NameParts DEF OneThread
    <2>9. OneMsg(msg)'
      <3>1. mode # "stdio" => msg.id = post[p].n /\ (IsRequest(msg.method) => post[p].n # NoId)
        BY <1>0, <1>1, NameParts DEF Numbered
      <3> QED BY <1>2, <1>6, <1>9, <2>7, <3>1 DEF OneMsg, OfPost, Routed
    <2>10. mode = "single" => ~Crossed(p)'
      BY <1>0, CrossedLate DEF Crossed, Early
    <2>11. ASSUME todo # <<>>
           PROVE  Len(todo) = 1 /\ Head(todo) = todo[1] /\ OneWork(p, todo[1])' /\ ActNamed(todo[1])'
      <3>1. todo = Direct(<<a>>)
        BY <2>3, <2>11
      <3>2. Len(todo) = 1 /\ Head(todo) = todo[1] /\ todo[1].to = Only /\ todo[1].msg = msg /\ todo[1].direct
        BY <2>2, <3>1, OneMarked
      <3>3. OneWork(p, todo[1])'
        <4>1. OneMsg(todo[1].msg)'
          BY <2>9, <3>2 DEF OneMsg, OfPost
        <4> QED BY <1>0, <1>2, <2>2, <2>10, <3>2, <4>1 DEF OneWork
      <3>4. NameOwned(cat, msg.tool, Only)
        BY <1>9, NameParts DEF CatPlain, NameOwned
      <3>5. ActNamed(todo[1])'
        BY <1>2, <1>7, <2>2, <3>2, <3>4
      <3> QED BY <3>2, <3>3, <3>5
    <2>12. \A i \in 1..Len(x.todo) : ActNamed(x.todo[i])'
      <3>1. CASE todo = <<>>
        BY <2>6, <3>1
      <3>2. CASE todo # <<>>
        <4>1. \A i \in 1..Len(todo) : i = 1
          BY <2>11, <3>2
        <4>2. \A i \in 1..Len(todo) : ActNamed(todo[i])'
          BY <2>11, <3>2, <4>1
        <4> QED BY <2>6, <4>2
      <3> QED BY <3>1, <3>2
    <2>13. x.fin = <<>> /\ Len(x.todo) <= 1 /\ (x.todo # <<>> => OneWork(p, Head(x.todo))')
      <3>1. todo # <<>> => OneWork(p, Head(todo))'
        BY <2>11 DEF OneWork, OneMsg, OfPost
      <3>2. Len(todo) <= 1
        BY <2>11
      <3> QED BY <2>6, <2>8, <3>1, <3>2
    <2>14. \A i \in 1..Len(x.fin) : KnownTools(cat, x.fin[i].visible)
      BY <2>13
    <2> QED BY <1>0, <1>3, <1>5, <2>5, <2>7, <2>12, <2>13, <2>14, WorkMoves
  <1> QED BY <1>8, <1>9

\* A message holds another answer.
LEMMA PostHeld ==
    ASSUME TransportBooks, NameBooks, mode' = mode, Grows(cat, cat'), NEW q, NEW x, post' = [post EXCEPT ![q] = x],
           q \in Posts =>
                /\ x.n = post[q].n /\ x.msg = post[q].msg /\ x.phase = post[q].phase
                /\ (x.direct # post[q].direct => KnownTools(cat', x.direct.tools))
                /\ (x.reply # post[q].reply => KnownTools(cat', x.reply.tools))
    PROVE  PostsKept /\ \A p \in Posts : PostNamed(p)'
PROOF
  <1>1. ASSUME NEW p \in Posts
        PROVE  /\ post'[p].n = post[p].n /\ post'[p].msg = post[p].msg /\ post'[p].phase = post[p].phase
               /\ (post'[p].direct # post[p].direct => KnownTools(cat', post'[p].direct.tools))
               /\ (post'[p].reply # post[p].reply => KnownTools(cat', post'[p].reply.tools))
    BY Parts DEF PostsOK
  <1>2. PostsKept
    BY <1>1 DEF PostsKept
  <1>3. ASSUME NEW p \in Posts PROVE PostNamed(p)'
    <2>1. ReplyKnown(post[p].direct) /\ ReplyKnown(post[p].reply)
      BY NameParts DEF PostNamed
    <2>2. (post[p].direct # None => KnownTools(cat', post[p].direct.tools)) /\ (post[p].reply # None => KnownTools(cat', post[p].reply.tools))
      BY <2>1, GrowsKnows DEF ReplyKnown
    <2> QED BY <1>1, <2>2 DEF PostNamed, ReplyKnown
  <1> QED BY <1>2, <1>3

\* A reply is given to the POST that waits for it.
LEMMA WaiterNamed ==
    ASSUME TransportBooks, NameBooks, mode' = mode, Grows(cat, cat'), NEW reply, KnownTools(cat', reply.tools), GivesWaiter(reply)
    PROVE  /\ PostsKept /\ (\A p \in Posts : PostNamed(p)') /\ hub'.nextId = hub.nextId
           /\ hub'.listed = IF mode = "relay" THEN hub.listed \ {reply.id} ELSE hub.listed
PROOF
  <1>1. post = [p \in Posts |-> post[p]] /\ \A p \in Posts : IsPost(post[p])
    BY Parts DEF PostsOK
  <1> DEFINE w == Forget(hub.waiters, {reply.id})
             l == IF mode = "relay" THEN hub.listed \ {reply.id} ELSE hub.listed
  <1>2. hub' = [hub EXCEPT !.waiters = w, !.listed = l]
    BY Parts DEF GivesWaiter, HubOK, HubShape
  <1> HIDE DEF w, l
  <1>3. hub'.nextId = hub.nextId /\ hub'.listed = l
    BY <1>2, Parts DEF HubOK, HubShape
  <1>4. CASE reply.id \in DOMAIN hub.waiters
    <2> DEFINE q == hub.waiters[reply.id]
               x == [post[q] EXCEPT !.reply = reply]
    <2>1. post' = [post EXCEPT ![q].reply = reply]
      BY <1>4 DEF GivesWaiter
    <2> HIDE DEF q
    <2>2. q \in Posts => x.n = post[q].n /\ x.msg = post[q].msg /\ x.phase = post[q].phase /\ x.direct = post[q].direct /\ x.reply = reply
      BY <1>1 DEF IsPost
    <2>3. post' = [post EXCEPT ![q] = x]
      BY <1>1, <2>1
    <2> HIDE DEF x
    <2>4. PostsKept /\ \A p \in Posts : PostNamed(p)'
      BY <2>2, <2>3, PostHeld
    <2> QED BY <1>3, <2>4 DEF l
  <1>5. CASE reply.id \notin DOMAIN hub.waiters
    <2>1. post' = post
      BY <1>5 DEF GivesWaiter
    <2>2. PostsKept
      BY <2>1 DEF PostsKept
    <2>3. ASSUME NEW p \in Posts PROVE PostNamed(p)'
      BY <2>1, GrowsKnows, NameParts DEF PostNamed, ReplyKnown
    <2> QED BY <1>3, <2>2, <2>3 DEF l
  <1> QED BY <1>4, <1>5

\* The first action of a thread is done; with one upstream it was the only one.
LEMMA RestNamed ==
    ASSUME TransportBooks, NameBooks, UNCHANGED <<mode, cat>>, LateKept, NEW t \in Threads, thread[t].todo # <<>>, NEW x,
           x = [thread[t] EXCEPT !.todo = Tail(@)]
    PROVE  /\ x.fin = thread[t].fin /\ x.todo = Tail(thread[t].todo) /\ ActNamed(Head(thread[t].todo))
           /\ \A i \in 1..Len(x.fin) : KnownTools(cat, x.fin[i].visible)
           /\ \A i \in 1..Len(x.todo) : ActNamed(x.todo[i])'
           /\ ~Routed => x.fin = <<>> /\ x.todo = <<>> /\ OneWork(t, Head(thread[t].todo))
PROOF
  <1>0. IsThread(thread[t]) /\ ThreadNamed(t)
    BY Parts, NameParts DEF ThreadsOK
  <1>1. x.fin = thread[t].fin /\ x.todo = Tail(thread[t].todo)
    BY <1>0 DEF IsThread
  <1>2. PICK todo : todo = thread[t].todo
    OBVIOUS
  <1>3. PICK T : todo \in Seq(T)
    BY <1>0, <1>2 DEF IsThread, ActsOK
  <1>4. /\ Head(todo) = todo[1] /\ Len(Tail(todo)) = Len(todo) - 1 /\ Len(todo) \in Nat \ {0} /\ Tail(todo) \in Seq(T)
        /\ \A i \in 1..Len(Tail(todo)) : Tail(todo)[i] = todo[i + 1] /\ i + 1 \in 1..Len(todo)
    BY <1>2, <1>3
  <1>5. \A i \in 1..Len(todo) : ActNamed(todo[i])
    BY <1>0, <1>2 DEF ThreadNamed
  <1>6. 1 \in 1..Len(todo)
    BY <1>4
  <1>7. ActNamed(Head(thread[t].todo))
    BY <1>2, <1>4, <1>5, <1>6
  <1>8. \A i \in 1..Len(todo) : ActNamed(todo[i])'
    BY <1>5, NameFrame, GrowsOn
  <1>9. \A i \in 1..Len(x.todo) : ActNamed(x.todo[i])'
    BY <1>1, <1>2, <1>4, <1>8
  <1>10. \A i \in 1..Len(x.fin) : KnownTools(cat, x.fin[i].visible)
    BY <1>0, <1>1 DEF ThreadNamed
  <1>11. ~Routed => x.fin = <<>> /\ x.todo = <<>> /\ OneWork(t, Head(thread[t].todo))
    <2>1. ~Routed => thread[t].fin = <<>> /\ Len(todo) <= 1 /\ OneWork(t, Head(thread[t].todo))
      BY <1>2, NameParts DEF OneThread
    <2>2. Len(todo) <= 1 => Tail(todo) = <<>>
      BY <1>4
    <2> QED BY <1>1, <1>2, <2>1, <2>2
  <1> QED BY <1>1, <1>7, <1>9, <1>10, <1>11

\* A thread answers the agent.
LEMMA PerformsAnswerNames ==
    ASSUME TransportBooks, NameBooks, NEW t \in Threads, PerformsAnswer(t)
    PROVE  NameBooks'
PROOF
  <1> DEFINE a == Head(thread[t].todo)
  <1>1. UNCHANGED <<mode, cat, srv, client>> /\ thread' = Rest(t) /\ thread[t].todo # <<>> /\ a.to = "agent"
    BY DEF PerformsAnswer
  <1>2. PICK x : x = [thread[t] EXCEPT !.todo = Tail(@)]
    OBVIOUS
  <1>3. thread' = [thread EXCEPT ![t] = x]
    BY <1>1, <1>2 DEF Rest
  <1>4. ASSUME PostsKept, \A p \in Posts : PostNamed(p)', LateKept => SeenNamed', hub'.nextId = hub.nextId, hub'.listed = hub.listed
        PROVE  NameBooks'
    <2>1. LateKept
      BY <1>1, <1>4, PostsFrame
    <2>2. /\ \A i \in 1..Len(x.fin) : KnownTools(cat, x.fin[i].visible)
          /\ \A i \in 1..Len(x.todo) : ActNamed(x.todo[i])'
          /\ ~Routed => x.fin = <<>> /\ x.todo = <<>>
      BY <1>1, <1>2, <2>1, RestNamed
    <2>3. ~Routed => x.fin = <<>> /\ Len(x.todo) <= 1 /\ (x.todo # <<>> => OneWork(t, Head(x.todo))')
      BY <2>2
    <2> QED BY <1>1, <1>3, <1>4, <2>1, <2>2, <2>3, WorkMoves
  <1>5. KnownTools(cat, a.msg.tools) /\ (mode = "relay" => a.direct)
    <2>1. ActNamed(a) /\ (~Routed => OneWork(t, a))
      <3>1. ThreadNamed(t) /\ IsThread(thread[t]) /\ (~Routed => OneThread(t))
        BY Parts, NameParts DEF ThreadsOK
      <3>2. a = thread[t].todo[1] /\ 1 \in 1..Len(thread[t].todo)
        BY <1>1, <3>1 DEF IsThread, ActsOK
      <3>3. ~Routed => OneWork(t, a)
        BY <1>1, <3>1 DEF OneThread
      <3> HIDE DEF a
      <3> QED BY <3>1, <3>2, <3>3 DEF ThreadNamed
    <2> QED BY <1>1, <2>1 DEF ActNamed, OneWork, Routed
  <1>6. post' = post => PostsKept /\ \A p \in Posts : PostNamed(p)'
    BY <1>1, NameParts DEF PostsKept, PostNamed, ReplyKnown
  <1>7. Grows(cat, cat')
    BY <1>1, GrowsOn
  <1>8. CASE mode = "stdio"
    <2>1. post' = post /\ hub' = hub /\ (seen' = seen \/ seen' = Answered(a.msg.id, a.msg))
      BY <1>8 DEF PerformsAnswer
    <2>2. LateKept => SeenNamed'
      <3> HIDE DEF a
      <3> QED BY <1>1, <1>5, <2>1, SeenNamedStays, AnswerShown
    <2> QED BY <1>4, <1>6, <2>1, <2>2
  <1>9. CASE mode # "stdio" /\ a.direct
    <2>1. hub' = hub /\ seen' = seen /\ post' = (IF post[t].direct = None THEN [post EXCEPT ![t].direct = a.msg] ELSE post)
      BY <1>9 DEF PerformsAnswer
    <2>2. PostsKept /\ \A p \in Posts : PostNamed(p)'
      <3>1. CASE post' = post
        BY <1>6, <3>1
      <3>2. CASE post' = [post EXCEPT ![t].direct = a.msg]
        <4> DEFINE y == [post[t] EXCEPT !.direct = a.msg]
        <4>1. t \in Posts => y.n = post[t].n /\ y.msg = post[t].msg /\ y.phase = post[t].phase /\ y.direct = a.msg /\ y.reply = post[t].reply
          BY Parts DEF PostsOK, IsPost
        <4>2. post' = [post EXCEPT ![t] = y]
          BY <3>2
        <4>3. KnownTools(cat', a.msg.tools)
          BY <1>1, <1>5
        <4> HIDE DEF y, a
        <4> QED BY <1>1, <1>7, <4>1, <4>2, <4>3, PostHeld
      <3> QED BY <2>1, <3>1, <3>2
    <2> QED BY <1>1, <1>4, <2>1, <2>2, SeenNamedStays
  <1>10. CASE mode # "stdio" /\ ~a.direct
    <2>1. GivesWaiter(a.msg) /\ seen' = seen
      BY <1>10 DEF PerformsAnswer
    <2>2. KnownTools(cat', a.msg.tools)
      BY <1>1, <1>5
    <2>3. /\ PostsKept /\ (\A p \in Posts : PostNamed(p)') /\ hub'.nextId = hub.nextId
          /\ hub'.listed = IF mode = "relay" THEN hub.listed \ {a.msg.id} ELSE hub.listed
      <3> HIDE DEF a
      <3> QED BY <1>1, <1>7, <2>1, <2>2, WaiterNamed
    <2> QED BY <1>1, <1>4, <1>5, <1>10, <2>1, <2>3, SeenNamedStays
  <1> QED BY <1>8, <1>9, <1>10

\* Actions after actions.
LEMMA JoinedNamed ==
    ASSUME NEW acts, IsSeq(acts), NEW more, IsSeq(more),
           \A i \in 1..Len(acts) : ActNamed(acts[i])', \A i \in 1..Len(more) : ActNamed(more[i])'
    PROVE  \A i \in 1..Len(acts \o more) : ActNamed((acts \o more)[i])'
PROOF
  <1>1. PICK T : acts \in Seq(T)
    BY DEF IsSeq
  <1>2. PICK U : more \in Seq(U)
    BY DEF IsSeq
  <1>3. PICK all : all = acts \o more
    OBVIOUS
  <1>4. /\ Len(all) = Len(acts) + Len(more) /\ Len(acts) \in Nat /\ Len(more) \in Nat
        /\ \A i \in 1..Len(all) : all[i] = IF i <= Len(acts) THEN acts[i] ELSE more[i - Len(acts)]
    BY <1>1, <1>2, <1>3
  <1>5. ASSUME NEW i \in 1..Len(all) PROVE ActNamed(all[i])'
    <2>1. CASE i <= Len(acts)
      <3>1. i \in 1..Len(acts) /\ all[i] = acts[i]
        BY <1>4, <2>1
      <3> QED BY <3>1
    <2>2. CASE ~(i <= Len(acts))
      <3>1. i - Len(acts) \in 1..Len(more) /\ all[i] = more[i - Len(acts)]
        BY <1>4, <2>2
      <3> QED BY <3>1
    <2> QED BY <2>1, <2>2
  <1> QED BY <1>3, <1>5

\* Actions the router made up, marked to be performed later.
LEMMA LaterNamed ==
    ASSUME UNCHANGED <<mode, cat>>, LateKept, NEW acts, ActsOK(acts), Blanks(acts)
    PROVE  IsSeq(Later(acts)) /\ \A i \in 1..Len(Later(acts)) : ActNamed(Later(acts)[i])'
PROOF
  <1>1. PICK f : f = Later(acts)
    OBVIOUS
  <1>2. IsSeq(f) /\ \A i \in 1..Len(f) : Blank(f[i])
    BY <1>1, MarkedActs, BlankMarked
  <1>3. \A i \in 1..Len(f) : ActNamed(f[i])
    BY <1>2, BlankNamed
  <1>4. \A i \in 1..Len(f) : ActNamed(f[i])'
    BY <1>3, NameFrame, GrowsOn
  <1> QED BY <1>1, <1>2, <1>4

\* A message cannot be sent.
LEMMA FailsNames ==
    ASSUME TransportBooks, NameBooks, NEW t \in Threads, thread[t].fin = <<>>, thread[t].todo # <<>>, mode # "relay",
           UNCHANGED <<mode, cat, post, srv, hub, client, seen>>, NEW s \in ServerSet, NEW msg, FailsToSend(t, s, msg)
    PROVE  NameBooks'
PROOF
  <1> DEFINE gone == ServerGone(st, s)
             failed == OnRoutedError(st, msg)
             back == ToAgent(Reply(msg.id, "upstream_unavailable", msg.origin))
  <1>1. PICK y : y = [thread[t] EXCEPT !.todo = Tail(@)]
    OBVIOUS
  <1>2. PICK rest : rest = Tail(thread[t].todo)
    OBVIOUS
  <1>3. PostsKept
    BY DEF PostsKept
  <1>4. LateKept /\ (\A p \in Posts : PostNamed(p)')
    BY <1>3, PostsFrame, NameParts DEF PostNamed, ReplyKnown
  <1>5. SeenNamed'
    BY <1>4, SeenNamedStays
  <1>6. (\A i \in 1..Len(rest) : ActNamed(rest[i])') /\ IsSeq(rest) /\ (~Routed => rest = <<>>)
    <2>1. IsSeq(rest)
      BY <1>2, Rested, Parts DEF ThreadsOK, IsThread, ActsOK, IsSeq
    <2>2. y.todo = rest /\ (\A i \in 1..Len(y.todo) : ActNamed(y.todo[i])') /\ (~Routed => y.todo = <<>>)
      BY <1>1, <1>2, <1>4, RestNamed
    <2> QED BY <2>1, <2>2
  <1>7. ASSUME NEW x, thread' = [thread EXCEPT ![t] = x],
               \A i \in 1..Len(x.fin) : KnownTools(cat, x.fin[i].visible),
               \A i \in 1..Len(x.todo) : ActNamed(x.todo[i])',
               ~Routed => x.fin = <<>> /\ Len(x.todo) <= 1 /\ (x.todo # <<>> => OneWork(t, Head(x.todo))')
        PROVE  NameBooks'
    BY <1>3, <1>4, <1>5, <1>7, WorkMoves
  <1>8. RouterInv(st)
    BY Parts
  <1>9. CASE mode = "stdio"
    <2>1. thread' = [thread EXCEPT ![t] = [fin |-> Finishing(gone.fin, FALSE, FALSE), todo |-> Tail(thread[t].todo) \o Later(gone.acts)]]
      BY <1>9 DEF FailsToSend
    <2>2. OutOK(gone) /\ Blanks(gone.acts)
      BY <1>8, GoneRouted, LossBlank
    <2> HIDE DEF gone
    <2>3. PICK fin : fin = Finishing(gone.fin, FALSE, FALSE)
      OBVIOUS
    <2>4. PICK more : more = Later(gone.acts)
      OBVIOUS
    <2>5. /\ \A i \in 1..Len(fin) : KnownTools(cat, fin[i].visible)
          /\ IsSeq(more) /\ \A i \in 1..Len(more) : ActNamed(more[i])'
      BY <1>4, <2>2, <2>3, <2>4, FinishingNamed, LaterNamed DEF OutOK
    <2>6. PICK todo : todo = rest \o more
      OBVIOUS
    <2>7. \A i \in 1..Len(todo) : ActNamed(todo[i])'
      BY <1>6, <2>5, <2>6, JoinedNamed
    <2>8. PICK x : x = [fin |-> fin, todo |-> todo]
      OBVIOUS
    <2>9. x.fin = fin /\ x.todo = todo /\ thread' = [thread EXCEPT ![t] = x]
      BY <1>2, <2>1, <2>3, <2>4, <2>6, <2>8
    <2>10. \A i \in 1..Len(x.todo) : ActNamed(x.todo[i])'
      BY <2>7, <2>9
    <2>11. Routed
      BY <1>9 DEF Routed
    <2> QED BY <1>7, <2>5, <2>9, <2>10, <2>11
  <1>10. CASE mode = "listen"
    <2>1. thread' = [thread EXCEPT ![t] = [fin |-> Finishing(failed.fin, FALSE, TRUE), todo |-> Later(failed.acts) \o Tail(thread[t].todo)]]
      BY <1>10 DEF FailsToSend
    <2>2. OutOK(failed) /\ Blanks(failed.acts)
      BY <1>8, ErrorRouted, LossBlank
    <2> HIDE DEF failed
    <2>3. PICK fin : fin = Finishing(failed.fin, FALSE, TRUE)
      OBVIOUS
    <2>4. PICK more : more = Later(failed.acts)
      OBVIOUS
    <2>5. /\ \A i \in 1..Len(fin) : KnownTools(cat, fin[i].visible)
          /\ IsSeq(more) /\ \A i \in 1..Len(more) : ActNamed(more[i])'
      BY <1>4, <2>2, <2>3, <2>4, FinishingNamed, LaterNamed DEF OutOK
    <2>6. PICK todo : todo = more \o rest
      OBVIOUS
    <2>7. \A i \in 1..Len(todo) : ActNamed(todo[i])'
      BY <1>6, <2>5, <2>6, JoinedNamed
    <2>8. PICK x : x = [fin |-> fin, todo |-> todo]
      OBVIOUS
    <2>9. x.fin = fin /\ x.todo = todo /\ thread' = [thread EXCEPT ![t] = x]
      BY <1>2, <2>1, <2>3, <2>4, <2>6, <2>8
    <2>10. \A i \in 1..Len(x.todo) : ActNamed(x.todo[i])'
      BY <2>7, <2>9
    <2>11. Routed
      BY <1>10 DEF Routed
    <2> QED BY <1>7, <2>5, <2>9, <2>10, <2>11
  <1>11. CASE ~Routed
    <2>1. IsTarget(back) /\ Blank(back) /\ back.to = "agent"
      BY BlankReply DEF IsTarget, ToAgent
    <2>2. PICK todo : todo = IF msg.id = NoId THEN rest ELSE Later(<<back>>) \o rest
      OBVIOUS
    <2>3. thread' = [thread EXCEPT ![t].todo = todo]
      BY <1>2, <1>11, <2>2 DEF FailsToSend, Routed
    <2> HIDE DEF back
    <2>4. PICK x : x = [thread[t] EXCEPT !.todo = todo]
      OBVIOUS
    <2>5. x.fin = <<>> /\ x.todo = todo /\ thread' = [thread EXCEPT ![t] = x]
      BY <2>3, <2>4, Parts DEF ThreadsOK, IsThread
    <2>6. todo = <<>> \/ todo = Later(<<back>>)
      <3>1. PICK f : f = Later(<<back>>)
        OBVIOUS
      <3>2. IsSeq(f)
        BY <2>1, <3>1, OneAct, MarkedActs
      <3>3. f \o <<>> = f
        BY <3>2 DEF IsSeq
      <3> QED BY <1>6, <1>11, <2>2, <3>1, <3>3
    <2>7. (\A i \in 1..Len(todo) : ActNamed(todo[i])') /\ Len(todo) <= 1 /\ (todo # <<>> => Head(todo).to = "agent")
      <3>1. CASE todo = <<>>
        BY <3>1
      <3>2. CASE todo = Later(<<back>>)
        <4>1. Len(todo) = 1 /\ Head(todo).to = "agent"
          BY <2>1, <3>2, OneMarked
        <4>2. \A i \in 1..Len(todo) : ActNamed(todo[i])'
          BY <1>4, <2>1, <3>2, OneAct, BlankFew, LaterNamed
        <4> QED BY <4>1, <4>2
      <3> QED BY <2>6, <3>1, <3>2
    <2>8. \A i \in 1..Len(x.todo) : ActNamed(x.todo[i])'
      BY <2>5, <2>7
    <2>9. x.todo # <<>> => OneWork(t, Head(x.todo))'
      BY <2>5, <2>7 DEF OneWork
    <2>10. (\A i \in 1..Len(x.fin) : KnownTools(cat, x.fin[i].visible)) /\ Len(x.todo) <= 1
      BY <2>5, <2>7
    <2> QED BY <1>7, <2>5, <2>8, <2>9, <2>10
  <1> QED BY <1>9, <1>10, <1>11 DEF Routed

\* A message is queued for the HTTP client.
LEMMA QueuedNames ==
    ASSUME TransportBooks, NameBooks, NEW t \in Threads, thread[t].todo # <<>>, thread' = Rest(t), mode = "relay",
           Head(thread[t].todo).to # "agent", UNCHANGED <<mode, cat, post, srv, hub, seen>>,
           \/ client' = client
           \/ client' = [client EXCEPT !.queue = Append(@, Head(thread[t].todo).msg), !.busy = @ + 1]
    PROVE  NameBooks'
PROOF
  <1>1. PICK x : x = [thread[t] EXCEPT !.todo = Tail(@)]
    OBVIOUS
  <1>2. thread' = [thread EXCEPT ![t] = x]
    BY <1>1 DEF Rest
  <1>3. PostsKept
    BY DEF PostsKept
  <1>4. LateKept /\ Numbered' /\ (\A p \in Posts : PostNamed(p)')
    BY <1>3, PostsFrame, NameParts DEF PostNamed, ReplyKnown
  <1>5. SeenNamed'
    BY <1>4, SeenNamedStays
  <1>6. ~Routed
    BY DEF Routed
  <1>7. PICK msg : msg = Head(thread[t].todo).msg
    OBVIOUS
  <1>8. /\ x.fin = <<>> /\ x.todo = <<>> /\ OneMsg(msg)
    BY <1>1, <1>4, <1>6, <1>7, RestNamed DEF OneWork
  <1>9. CatPlain' /\ Grows(cat, cat')
    BY GrowsOn, NameParts DEF CatPlain, Routed
  <1>13. /\ \A i \in 1..Len(x.fin) : KnownTools(cat', x.fin[i].visible)
         /\ \A i \in 1..Len(x.todo) : ActNamed(x.todo[i])'
         /\ Len(x.todo) <= 1
    BY <1>8
  <1>10. \A u \in Threads : ThreadNamed(u)'
    BY <1>2, <1>4, <1>9, <1>13, ThreadNamedSet
  <1>11. \A u \in Threads : OneThread(u)'
    <2>1. \A u : Crossed(u)' => Crossed(u)
      BY DEF Crossed
    <2> QED BY <1>2, <1>4, <1>6, <1>8, <1>13, <2>1, OneThreadSet
  <1>12. ClientListed'
    <2>1. PICK queue : queue = client.queue
      OBVIOUS
    <2>2. PICK longer : longer = client'.queue
      OBVIOUS
    <2>3. client'.running = client.running /\ (longer = queue \/ longer = Append(queue, msg))
      BY <1>7, <2>1, <2>2, Parts DEF ClientOK, ClientShape
    <2>4. \A i \in 1..Len(queue) : OneMsg(queue[i])
      BY <2>1, NameParts DEF ClientListed
    <2>5. PICK T : queue \in Seq(T)
      BY <2>1, Parts DEF ClientOK, IsSeq
    <2>6. ASSUME NEW i \in 1..Len(longer) PROVE OneMsg(longer[i])
      <3>1. longer[i] = msg \/ (i \in 1..Len(queue) /\ longer[i] = queue[i])
        BY <2>3, <2>5
      <3> QED BY <1>8, <2>4, <3>1
    <2>7. \A i \in 1..Len(longer) : OneMsg(longer[i])'
      BY <1>4, <2>6, OneFrame
    <2>8. PICK running : running = client.running
      OBVIOUS
    <2>9. \A e \in running : OneMsg(e.msg)'
      BY <1>4, <2>8, OneFrame, NameParts DEF ClientListed
    <2> QED BY <2>2, <2>3, <2>7, <2>8, <2>9 DEF ClientListed, OneMsg, OfPost
  <1> QED BY <1>4, <1>5, <1>9, <1>10, <1>11, <1>12, NamesTogether

\* The pipes of the only upstream, part by part.
LEMMA PipeBy ==
    ASSUME NEW inbox, NEW out, srv'[Only].inbox = inbox, srv'[Only].out = out,
           \A m \in inbox : OneMsg(m)', \A m \in inbox : \A i \in 1..Len(out) : out[i].origin # m.origin,
           \A m, k \in inbox : m.origin = k.origin => m = k,
           \A i \in 1..Len(out) : OneLine(out[i])',
           \A i, j \in 1..Len(out) : out[i].origin = out[j].origin => i = j,
           \A s \in ServerSet : s # Only => srv'[s].inbox = {} /\ srv'[s].out = <<>>
    PROVE  PipeOK'
PROOF
  <1>1. \A i \in 1..Len(srv'[Only].out) : OneLine(srv[Only].out[i])'
    BY DEF OneLine, OfPost
  <1>2. \A m \in srv'[Only].inbox : OneMsg(m)'
    OBVIOUS
  <1> QED BY <1>1, <1>2 DEF PipeOK

\* The only upstream's inbox grows by a message that is nowhere else.
LEMMA InboxGrows ==
    ASSUME NameBooks, mode = "single", mode' = mode, LateKept, hub' = hub, NEW t, NEW msg, msg.origin = t, OneMsg(msg), ~Crossed(t),
           srv'[Only].inbox = srv[Only].inbox \/ srv'[Only].inbox = srv[Only].inbox \cup {msg}, srv'[Only].out = srv[Only].out,
           \A s \in ServerSet : s # Only => srv'[s] = srv[s]
    PROVE  PipeOK'
PROOF
  <1>1. PICK inbox : inbox = srv[Only].inbox
    OBVIOUS
  <1>2. PICK out : out = srv[Only].out
    OBVIOUS
  <1>3. PICK fuller : fuller = srv'[Only].inbox
    OBVIOUS
  <1>4. (\A m \in inbox : m.origin # t) /\ \A i \in 1..Len(out) : out[i].origin # t
    BY <1>1, <1>2 DEF Crossed
  <1>5. /\ \A m, k \in inbox : m.origin = k.origin => m = k
        /\ \A m \in inbox : OneMsg(m) /\ \A i \in 1..Len(out) : out[i].origin # m.origin
        /\ \A i, j \in 1..Len(out) : out[i].origin = out[j].origin => i = j
        /\ \A i \in 1..Len(out) : OneLine(out[i])
    BY <1>1, <1>2, NameParts DEF PipeOK
  <1>6. \A m \in fuller : m \in inbox \/ m = msg
    BY <1>1, <1>3
  <1>7. /\ \A m, k \in fuller : m.origin = k.origin => m = k
        /\ \A m \in fuller : \A i \in 1..Len(out) : out[i].origin # m.origin
        /\ \A m \in fuller : OneMsg(m)
    BY <1>4, <1>5, <1>6
  <1>8. (\A m \in fuller : OneMsg(m)') /\ \A i \in 1..Len(out) : OneLine(out[i])'
    BY <1>5, <1>7, OneFrame
  <1>9. \A s \in ServerSet : s # Only => srv'[s].inbox = {} /\ srv'[s].out = <<>>
    BY NameParts DEF PipeOK
  <1>10. srv'[Only].inbox = fuller /\ srv'[Only].out = out
    BY <1>2, <1>3
  <1> QED BY <1>5, <1>7, <1>8, <1>9, <1>10, PipeBy

\* A message is written to a server.
LEMMA WrittenNames ==
    ASSUME TransportBooks, NameBooks, NEW t \in Threads, thread[t].todo # <<>>, thread' = Rest(t), mode # "relay",
           UNCHANGED <<mode, cat, post, hub, client>>, NEW a, a = Head(thread[t].todo), a.to # "agent",
           srv' = [srv EXCEPT ![a.to].inbox = IF a.msg.method \in {"notification", "refusal"} THEN @ ELSE @ \cup {a.msg}],
           seen' = [seen EXCEPT !.sent = @ \cup (IF a.msg.method \in {"call", "other", "cancelled"} THEN {<<a.msg.method, a.msg.origin, a.to, a.msg>>} ELSE {})]
    PROVE  NameBooks'
PROOF
  <1>1. PICK x : x = [thread[t] EXCEPT !.todo = Tail(@)]
    OBVIOUS
  <1>2. thread' = [thread EXCEPT ![t] = x]
    BY <1>1 DEF Rest
  <1>3. PostsKept
    BY DEF PostsKept
  <1>4. LateKept /\ Numbered' /\ (\A p \in Posts : PostNamed(p)')
    BY <1>3, PostsFrame, NameParts DEF PostNamed, ReplyKnown
  <1>5. /\ ActNamed(a) /\ (~Routed => x.fin = <<>> /\ x.todo = <<>> /\ OneWork(t, a))
        /\ \A i \in 1..Len(x.fin) : KnownTools(cat, x.fin[i].visible)
        /\ \A i \in 1..Len(x.todo) : ActNamed(x.todo[i])'
    BY <1>1, <1>4, RestNamed
  <1>6. CatPlain' /\ Grows(cat, cat')
    BY GrowsOn, NameParts DEF CatPlain, Routed
  <1>7. \A u \in Threads : ThreadNamed(u)'
    <2>1. \A i \in 1..Len(x.fin) : KnownTools(cat', x.fin[i].visible)
      BY <1>5
    <2> QED BY <1>2, <1>4, <1>5, <1>6, <2>1, ThreadNamedSet
  <1>8. SeenNamed'
    <2> DEFINE more == IF a.msg.method \in {"call", "other", "cancelled"} THEN {<<a.msg.method, a.msg.origin, a.to, a.msg>>} ELSE {}
    <2>1. seen'.shown = seen.shown /\ seen'.sent = seen.sent \cup more
      <3> HIDE DEF more
      <3> QED BY Parts DEF SessionOK, SeenShape, more
    <2>2. \A c \in more : c[1] = "call" => Called(c[2], c[3])
      BY <1>5 DEF ActNamed
    <2>3. \A c \in seen'.sent : c[1] = "call" => Called(c[2], c[3])
      BY <2>1, <2>2, NameParts DEF SeenNamed
    <2>4. PICK sent : sent = seen'.sent
      OBVIOUS
    <2>5. \A c \in sent : c[1] = "call" => Called(c[2], c[3])'
      BY <1>4, <1>6, <2>3, <2>4, NameFrame
    <2> HIDE DEF more
    <2> QED BY <2>1, <2>4, <2>5, NameParts DEF SeenNamed
  <1>9. CASE Routed
    BY <1>4, <1>6, <1>7, <1>8, <1>9, NamesTogether DEF Routed
  <1>10. CASE ~Routed
    <2>1. t \in Posts /\ a.msg.origin = t /\ a.to = Only /\ OneMsg(a.msg) /\ (mode = "single" => ~Crossed(t)) /\ x.fin = <<>> /\ x.todo = <<>>
      BY <1>5, <1>10 DEF OneWork
    <2>2. PICK inbox : inbox = srv[Only].inbox
      OBVIOUS
    <2>3. PICK fuller : fuller = srv'[Only].inbox
      OBVIOUS
    <2>4. /\ fuller \in {inbox, inbox \cup {a.msg}} /\ srv'[Only].out = srv[Only].out
          /\ \A s \in ServerSet : s # Only => srv'[s] = srv[s]
      <3>1. Only \in ServerSet /\ IsServer(srv[Only]) /\ srv = [s \in ServerSet |-> srv[s]]
        BY Parts, ServersOnce DEF ServersOK
      <3> DEFINE y == [srv[Only] EXCEPT !.inbox = IF a.msg.method \in {"notification", "refusal"} THEN @ ELSE @ \cup {a.msg}]
      <3>2. srv' = [srv EXCEPT ![Only] = y]
        BY <2>1
      <3>3. y.inbox \in {inbox, inbox \cup {a.msg}} /\ y.out = srv[Only].out
        BY <2>2, <3>1 DEF IsServer
      <3> HIDE DEF y
      <3>4. srv'[Only] = y /\ \A s \in ServerSet : s # Only => srv'[s] = srv[s]
        BY <3>1, <3>2
      <3> QED BY <2>3, <3>3, <3>4
    <2>5. \A u : u # t /\ Crossed(u)' => Crossed(u)
      BY <2>1, <2>2, <2>3, <2>4 DEF Crossed
    <2>6. \A u \in Threads : OneThread(u)'
      <3>1. Len(x.todo) <= 1
        BY <2>1
      <3> QED BY <1>2, <1>4, <1>10, <2>1, <2>5, <3>1, OneThreadSet
    <2>7. mode = "single" => PipeOK'
      BY <1>4, <2>1, <2>2, <2>3, <2>4, InboxGrows
    <2> QED BY <1>4, <1>6, <1>7, <1>8, <2>6, <2>7, NamesTogether
  <1> QED BY <1>9, <1>10

\* A thread sends a message.
LEMMA PerformsSendNames ==
    ASSUME TransportBooks, NameBooks, NEW t \in Threads, PerformsSend(t)
    PROVE  NameBooks'
PROOF
  <1>1. PICK a : a = Head(thread[t].todo)
    OBVIOUS
  <1>2. thread[t].fin = <<>> /\ thread[t].todo # <<>> /\ a.to # "agent" /\ UNCHANGED <<mode, cat, post, hub>>
    BY <1>1 DEF PerformsSend
  <1>3. CASE mode = "relay"
    <2>1. /\ client' = IF client.closed THEN client ELSE [client EXCEPT !.queue = Append(@, a.msg), !.busy = @ + 1]
          /\ thread' = Rest(t) /\ UNCHANGED <<srv, seen>>
      BY <1>1, <1>3 DEF PerformsSend
    <2> QED BY <1>1, <1>2, <1>3, <2>1, QueuedNames
  <1>4. CASE mode # "relay" /\ srv[a.to].alive /\ srv[a.to].stdin
    <2>1. /\ srv' = [srv EXCEPT ![a.to].inbox = IF a.msg.method \in {"notification", "refusal"} THEN @ ELSE @ \cup {a.msg}]
          /\ seen' = [seen EXCEPT !.sent = @ \cup (IF a.msg.method \in {"call", "other", "cancelled"} THEN {<<a.msg.method, a.msg.origin, a.to, a.msg>>} ELSE {})]
          /\ thread' = Rest(t) /\ client' = client
      BY <1>1, <1>4 DEF PerformsSend
    <2> QED BY <1>1, <1>2, <1>4, <2>1, WrittenNames
  <1>5. CASE mode # "relay" /\ ~(srv[a.to].alive /\ srv[a.to].stdin)
    <2>1. FailsToSend(t, a.to, a.msg) /\ UNCHANGED <<srv, client, seen>>
      BY <1>1, <1>5 DEF PerformsSend
    <2>2. a.to \in ServerSet
      BY <1>1, <1>2, Rested, Parts DEF ThreadsOK, IsThread, IsTarget
    <2> QED BY <1>2, <1>5, <2>1, <2>2, FailsNames
  <1> QED BY <1>3, <1>4, <1>5

\* A thread observes one server's tools.
LEMMA FinishesNames ==
    ASSUME TransportBooks, NameBooks, NEW t \in Threads, Finishes(t)
    PROVE  NameBooks'
PROOF
  <1> DEFINE f == Head(thread[t].fin)
             s == NextServer(f.tools)
             o == IF DOMAIN f.tools = {} THEN Observe(cat, Only, <<>>) ELSE Observe(cat, s, f.tools[s])
             left == IF DOMAIN f.tools = {} THEN f.tools ELSE Forget(f.tools, {s})
             visible == f.visible \o o.visible
             answer == [to |-> "agent", direct |-> f.direct,
                        msg |-> [Reply(f.agent.id, "result", f.agent.origin) EXCEPT !.tools = visible]]
             rest == thread[t].todo
             answered == IF f.agent = NoAgent \/ (t \in Posts /\ post[t].cut) THEN rest
                         ELSE IF f.front THEN <<answer>> \o rest ELSE Append(rest, answer)
             x == IF DOMAIN left # {} THEN [thread[t] EXCEPT !.fin[1].tools = left, !.fin[1].visible = visible]
                  ELSE [fin |-> Tail(thread[t].fin), todo |-> answered]
  <1>1. UNCHANGED <<mode, st, post, srv, hub, client, seen>>
    BY DEF Finishes
  <1>2. IsThread(thread[t]) /\ ThreadNamed(t) /\ thread = [u \in Threads |-> thread[u]]
    BY Parts, NameParts DEF ThreadsOK
  <1>3. cat' = o.cat /\ thread' = [thread EXCEPT ![t] = x] /\ thread[t].fin # <<>>
    BY <1>2 DEF Finishes
  <1>4. Routed /\ cat.routed /\ PlainCatalog(cat)
    BY <1>3, NameParts DEF OneThread, CatPlain
  <1>5. IsFinishing(f) /\ f = thread[t].fin[1] /\ ActsOK(rest)
    BY <1>2, <1>3, FinishingHead DEF IsThread
  <1>6. ToolsOK(f.tools) /\ DOMAIN f.tools \subseteq ServerSet
    BY <1>5 DEF IsFinishing, ToolsOK
  <1>7. SeenNames(o, cat)
    <2>1. CASE DOMAIN f.tools = {}
      <3>1. IsSeq(<<>>)
        BY KnownFew DEF KnownTools
      <3> QED BY <1>4, <2>1, <3>1, ObserveNames
    <2>2. CASE DOMAIN f.tools # {}
      <3>1. IsSeq(f.tools[s])
        BY <1>6, <2>2, NextServerIs DEF ToolsOK
      <3> HIDE DEF s, f
      <3> QED BY <1>4, <2>2, <3>1, ObserveNames
    <2> QED BY <2>1, <2>2
  <1> HIDE DEF o
  <1>8. Grows(cat, cat') /\ PlainCatalog(cat') /\ KnownTools(cat', o.visible)
    BY <1>3, <1>7 DEF SeenNames
  <1>9. PICK fin : fin = thread[t].fin
    OBVIOUS
  <1>10. PICK T : fin \in Seq(T)
    BY <1>2, <1>9 DEF IsThread, FinishingOK
  <1>11. \A i \in 1..Len(fin) : KnownTools(cat', fin[i].visible)
    BY <1>2, <1>8, <1>9, GrowsKnows DEF ThreadNamed
  <1>12. KnownTools(cat', visible)
    <2>1. 1 \in 1..Len(fin)
      <3>1. fin # <<>>
        BY <1>3, <1>9
      <3> QED BY <1>10, <3>1
    <2>2. KnownTools(cat', f.visible)
      BY <1>5, <1>9, <1>11, <2>1
    <2> HIDE DEF f
    <2> QED BY <1>8, <2>2, KnownJoined
  <1>13. PostsKept
    BY <1>1 DEF PostsKept
  <1>14. LateKept /\ Numbered'
    BY <1>1, <1>13, PostsFrame, NameParts
  <1>15. (\A p \in Posts : PostNamed(p)') /\ SeenNamed' /\ CatPlain'
    <2>1. SeenNamed'
      BY <1>1, <1>8, <1>14, NameFrame, NameParts
    <2>2. \A p \in Posts : PostNamed(p)'
      BY <1>1, <1>8, GrowsKnows, NameParts DEF PostNamed, ReplyKnown
    <2>3. CatPlain'
      BY <1>1, <1>8, NameParts DEF CatPlain, Grows, Routed
    <2> QED BY <2>1, <2>2, <2>3
  <1> HIDE DEF visible
  <1>16. PICK a : a = answer
    OBVIOUS
  <1>17. a.to = "agent" /\ a.msg.tools = visible
    <2> HIDE DEF f
    <2> QED BY <1>16 DEF Reply
  <1>18. ActNamed(a)'
    BY <1>12, <1>17 DEF ActNamed
  <1>19. PICK todo : todo = rest
    OBVIOUS
  <1>20. IsSeq(todo) /\ \A i \in 1..Len(todo) : ActNamed(todo[i])'
    <2>1. \A i \in 1..Len(todo) : ActNamed(todo[i])
      BY <1>2, <1>19 DEF ThreadNamed
    <2>2. IsSeq(todo)
      BY <1>5, <1>19 DEF ActsOK, IsSeq
    <2> QED BY <1>1, <1>8, <1>14, <2>1, <2>2, NameFrame
  <1>21. PICK done : done = answered
    OBVIOUS
  <1>22. \A i \in 1..Len(done) : ActNamed(done[i])'
    <2>1. done \in {todo, <<a>> \o todo, Append(todo, a)}
      BY <1>16, <1>19, <1>21
    <2>2. IsSeq(<<a>>) /\ \A i \in 1..Len(<<a>>) : ActNamed(<<a>>[i])'
      <3>1. <<a>> \in Seq({a})
        OBVIOUS
      <3>2. \A i \in 1..Len(<<a>>) : <<a>>[i] = a
        OBVIOUS
      <3> QED BY <1>18, <3>1, <3>2 DEF IsSeq
    <2>3. Append(todo, a) = todo \o <<a>>
      BY <1>20 DEF IsSeq
    <2>4. \A i \in 1..Len(<<a>> \o todo) : ActNamed((<<a>> \o todo)[i])'
      BY <1>20, <2>2, JoinedNamed
    <2>5. \A i \in 1..Len(todo \o <<a>>) : ActNamed((todo \o <<a>>)[i])'
      BY <1>20, <2>2, JoinedNamed
    <2>6. CASE done = todo
      BY <1>20, <2>6
    <2>7. CASE done = <<a>> \o todo
      BY <2>4, <2>7
    <2>8. CASE done = Append(todo, a)
      BY <2>3, <2>5, <2>8
    <2> QED BY <2>1, <2>6, <2>7, <2>8
  <1>23. PICK y : y = x
    <2> HIDE DEF x
    <2> QED OBVIOUS
  <1>24. /\ \A i \in 1..Len(y.fin) : KnownTools(cat', y.fin[i].visible)
         /\ \A i \in 1..Len(y.todo) : ActNamed(y.todo[i])'
    <2>1. CASE DOMAIN left # {}
      <3> DEFINE g == [f EXCEPT !.tools = left, !.visible = visible]
                 q == [fin EXCEPT ![1] = g]
      <3>1. g.visible = visible
        <4> HIDE DEF f, left
        <4> QED BY <1>5 DEF IsFinishing
      <3>2. y = [thread[t] EXCEPT !.fin = q]
        <4>1. y = [thread[t] EXCEPT !.fin[1].tools = left, !.fin[1].visible = visible]
          BY <1>23, <2>1
        <4>2. thread[t] \in [fin : {thread[t].fin}, todo : {thread[t].todo}]
          BY <1>2 DEF IsThread
        <4>4. 1 \in DOMAIN fin
          BY <1>3, <1>9, <1>10
        <4> HIDE DEF left
        <4>5. [fin EXCEPT ![1].tools = left, ![1].visible = visible] = q
          BY <1>5, <1>9, <1>10, <4>4 DEF IsFinishing
        <4> HIDE DEF q
        <4> QED BY <1>9, <4>1, <4>2, <4>4, <4>5 DEF IsFinishing
      <3>3. /\ Len(q) = Len(fin) /\ q[1] = g /\ \A i \in 1..Len(fin) : i # 1 => q[i] = fin[i]
        <4> HIDE DEF g
        <4> QED BY <1>3, <1>9, <1>10
      <3> HIDE DEF q, g
      <3>4. y.fin = q /\ y.todo = todo
        BY <1>2, <1>19, <3>2 DEF IsThread
      <3>5. \A i \in 1..Len(q) : KnownTools(cat', q[i].visible)
        BY <1>11, <1>12, <3>1, <3>3
      <3>6. \A i \in 1..Len(y.todo) : ActNamed(y.todo[i])'
        BY <1>20, <3>4
      <3> QED BY <3>4, <3>5, <3>6
    <2>2. CASE DOMAIN left = {}
      <3>1. y = [fin |-> Tail(thread[t].fin), todo |-> answered]
        BY <1>23, <2>2
      <3> HIDE DEF answered, left
      <3>2. y.fin = Tail(fin) /\ y.todo = done
        BY <1>9, <1>21, <3>1
      <3>3. \A i \in 1..Len(Tail(fin)) : Tail(fin)[i] = fin[i + 1] /\ i + 1 \in 1..Len(fin)
        BY <1>3, <1>9, <1>10
      <3>4. \A i \in 1..Len(Tail(fin)) : KnownTools(cat', Tail(fin)[i].visible)
        BY <1>11, <3>3
      <3>5. \A i \in 1..Len(y.todo) : ActNamed(y.todo[i])'
        BY <1>22, <3>2
      <3> QED BY <3>2, <3>4, <3>5
    <2> QED BY <2>1, <2>2
  <1> HIDE DEF x
  <1>25. \A u \in Threads : ThreadNamed(u)'
    BY <1>1, <1>3, <1>8, <1>14, <1>23, <1>24, ThreadNamedSet
  <1> QED BY <1>1, <1>4, <1>14, <1>15, <1>25, NamesTogether DEF Routed

(***************************************************************************)
(* The servers' side.                                                      *)
(***************************************************************************)
\* Only servers change.
LEMMA ServerSide ==
    ASSUME TransportBooks, NameBooks, UNCHANGED <<mode, cat, post, thread, hub, client>>, seen'.shown = seen.shown, seen'.sent = seen.sent,
           mode = "single" => PipeOK' /\ \A u : Crossed(u)' => Crossed(u)
    PROVE  NameBooks'
PROOF
  <1>1. PostsKept
    BY DEF PostsKept
  <1>2. LateKept /\ Numbered' /\ (\A p \in Posts : PostNamed(p)')
    BY <1>1, PostsFrame, NameParts DEF PostNamed, ReplyKnown
  <1>3. SeenNamed'
    BY <1>2, SeenNamedStays
  <1>4. CatPlain' /\ Grows(cat, cat')
    BY GrowsOn, NameParts DEF CatPlain, Routed
  <1>5. \A t \in Threads : ThreadNamed(t)'
    BY <1>2, <1>4, NameFrame, NameParts
  <1>6. ~Routed => \A t \in Threads : OneThread(t)'
    BY <1>2, OneThreadKept, NameParts
  <1>7. mode = "relay" => ClientListed'
    BY <1>2, OneFrame, NameParts
  <1> QED BY <1>2, <1>3, <1>4, <1>5, <1>6, <1>7, NamesTogether

\* A server lists tools only when it was asked to.
LEMMA PagesAsked ==
    ASSUME NEW s \in ServerSet, NEW msg, NEW page \in Answers(s, msg), page.tools # <<>>
    PROVE  page.kind = "tools" /\ msg.method = "list"
PROOF
  <1>1. NoPage.tools = <<>> /\ ErrorPage.tools = <<>> /\ \A q, more : Page(q, more).kind = "tools"
    BY DEF NoPage, ErrorPage, Page
  <1>2. CASE msg.method = "list" /\ msg.ref # NextPage
    <2>1. PICK kind \in Pages[s] : page = PageOf(kind, srv[s].tools)
      BY <1>2 DEF Answers
    <2>2. kind \in {"error", "last", "more"}
      BY <2>1, TransportAssumption DEF ServerSet
    <2>3. page = ErrorPage \/ \E q, more : page = Page(q, more)
      BY <2>1, <2>2 DEF PageOf
    <2> QED BY <1>1, <1>2, <2>3
  <1>3. CASE msg.method = "list" /\ msg.ref = NextPage
    <2>1. \E q, more : page = Page(q, more)
      BY <1>3 DEF Answers
    <2> QED BY <1>1, <1>3, <2>1
  <1>4. CASE msg.method # "list"
    <2>1. page = NoPage
      BY <1>4 DEF Answers
    <2> QED BY <1>1, <2>1
  <1> QED BY <1>2, <1>3, <1>4

\* The only upstream answers one of its messages.
LEMMA PipeAnswers ==
    ASSUME TransportBooks, NameBooks, mode = "single", UNCHANGED <<mode, post, hub>>, NEW s \in ServerSet,
           NEW msg \in srv[s].inbox, IsRequest(msg.method), NEW page \in Answers(s, msg), NEW line, line = Line("reply", msg.id, page, msg.origin),
           srv'[s].inbox = srv[s].inbox \ {msg}, srv'[s].out = Append(srv[s].out, line), \A r \in ServerSet : r # s => srv'[r] = srv[r]
    PROVE  PipeOK' /\ \A u : Crossed(u)' => Crossed(u)
PROOF
  <1>1. s = Only /\ OneMsg(msg) /\ srv = [r \in ServerSet |-> srv[r]] /\ IsServer(srv[s])
    BY Parts, NameParts DEF PipeOK, ServersOK
  <1>2. PICK inbox : inbox = srv[Only].inbox
    OBVIOUS
  <1>3. PICK out : out = srv[Only].out
    OBVIOUS
  <1>4. PICK longer : longer = Append(out, line)
    OBVIOUS
  <1>5. PICK fewer : fewer = inbox \ {msg}
    OBVIOUS
  <1>6. /\ srv'[Only].inbox = fewer /\ srv'[Only].out = longer
        /\ \A r \in ServerSet : r # Only => srv'[r] = srv[r]
    BY <1>1, <1>2, <1>3, <1>4, <1>5
  <1>7. LateKept
    BY DEF LateKept, Early
  <1>8. line.id = msg.id /\ line.page = page /\ line.origin = msg.origin
    BY DEF Line
  <1>9. OneLine(line)
    BY <1>1, <1>8, PagesAsked DEF OneMsg, OneLine, OfPost
  <1>10. PICK T : out \in Seq(T)
    BY <1>1, <1>3 DEF IsServer, LinesOK
  <1>11. /\ Len(longer) = Len(out) + 1 /\ Len(out) \in Nat /\ longer[Len(out) + 1] = line
         /\ \A i \in 1..Len(out) : longer[i] = out[i]
    BY <1>4, <1>10
  <1>12. \A i \in 1..Len(longer) : i \in 1..Len(out) \/ i = Len(out) + 1
    BY <1>11
  <1>13. /\ \A m, k \in inbox : m.origin = k.origin => m = k
         /\ \A m \in inbox : OneMsg(m) /\ \A i \in 1..Len(out) : out[i].origin # m.origin
         /\ \A i, j \in 1..Len(out) : out[i].origin = out[j].origin => i = j
         /\ \A i \in 1..Len(out) : OneLine(out[i])
    BY <1>2, <1>3, NameParts DEF PipeOK
  <1>14. msg \in inbox /\ \A m \in fewer : m \in inbox /\ m # msg
    BY <1>1, <1>2, <1>5
  <1>15. \A m \in fewer : \A i \in 1..Len(longer) : longer[i].origin # m.origin
    BY <1>8, <1>11, <1>12, <1>13, <1>14
  <1>16. \A i, j \in 1..Len(longer) : longer[i].origin = longer[j].origin => i = j
    <2> SUFFICES ASSUME NEW i \in 1..Len(longer), NEW j \in 1..Len(longer), longer[i].origin = longer[j].origin PROVE i = j
      OBVIOUS
    <2>1. CASE i \in 1..Len(out) /\ j \in 1..Len(out)
      BY <1>11, <1>13, <2>1
    <2>2. CASE i = Len(out) + 1 /\ j \in 1..Len(out)
      BY <1>8, <1>11, <1>13, <1>14, <2>2
    <2>3. CASE j = Len(out) + 1 /\ i \in 1..Len(out)
      BY <1>8, <1>11, <1>13, <1>14, <2>3
    <2> QED BY <1>12, <2>1, <2>2, <2>3
  <1>17. \A i \in 1..Len(longer) : OneLine(longer[i])
    BY <1>9, <1>11, <1>12, <1>13
  <1>18. (\A m \in fewer : OneMsg(m)') /\ \A i \in 1..Len(longer) : OneLine(longer[i])'
    BY <1>7, <1>13, <1>14, <1>17, OneFrame
  <1>19. \A r \in ServerSet : r # Only => srv'[r].inbox = {} /\ srv'[r].out = <<>>
    BY <1>6, NameParts DEF PipeOK
  <1>20. ASSUME NEW u, Crossed(u)' PROVE Crossed(u)
    <2>1. CASE \E m \in fewer : m.origin = u
      BY <1>2, <1>14, <2>1 DEF Crossed
    <2>2. CASE \E i \in 1..Len(longer) : longer[i].origin = u
      <3>1. PICK i \in 1..Len(longer) : longer[i].origin = u
        BY <2>2
      <3>2. CASE i = Len(out) + 1
        BY <1>2, <1>8, <1>11, <1>14, <3>1, <3>2 DEF Crossed
      <3>3. CASE i \in 1..Len(out)
        <4>1. out[i].origin = u
          BY <1>11, <3>1, <3>3
        <4> QED BY <1>3, <3>3, <4>1 DEF Crossed
      <3> QED BY <1>12, <3>2, <3>3
    <2> QED BY <1>6, <1>20, <2>1, <2>2 DEF Crossed
  <1>21. \A m, k \in fewer : m.origin = k.origin => m = k
    BY <1>13, <1>14
  <1>22. PipeOK'
    BY <1>6, <1>15, <1>16, <1>18, <1>19, <1>21, PipeBy
  <1> QED BY <1>20, <1>22

\* The only upstream drops messages.
LEMMA PipeDrops ==
    ASSUME TransportBooks, NameBooks, mode = "single", UNCHANGED <<mode, post, hub>>, NEW s \in ServerSet, NEW x, srv' = [srv EXCEPT ![s] = x],
           x.out = srv[s].out, x.inbox \subseteq srv[s].inbox
    PROVE  PipeOK' /\ \A u : Crossed(u)' => Crossed(u)
PROOF
  <1>1. srv'[s] = x /\ \A r \in ServerSet : r # s => srv'[r] = srv[r]
    BY Parts DEF ServersOK
  <1>2. \A r \in ServerSet : srv'[r].out = srv[r].out /\ srv'[r].inbox \subseteq srv[r].inbox
    BY <1>1
  <1>3. Only \in ServerSet
    BY ServersOnce
  <1>4. PICK fewer : fewer = srv'[Only].inbox
    OBVIOUS
  <1>5. PICK out : out = srv[Only].out
    OBVIOUS
  <1>6. PICK inbox : inbox = srv[Only].inbox
    OBVIOUS
  <1>7. fewer \subseteq inbox /\ srv'[Only].out = out
    BY <1>2, <1>3, <1>4, <1>5, <1>6
  <1>8. /\ \A m, k \in inbox : m.origin = k.origin => m = k
        /\ \A m \in inbox : OneMsg(m) /\ \A i \in 1..Len(out) : out[i].origin # m.origin
        /\ \A i, j \in 1..Len(out) : out[i].origin = out[j].origin => i = j
        /\ \A i \in 1..Len(out) : OneLine(out[i])
        /\ \A r \in ServerSet : r # Only => srv[r].inbox = {} /\ srv[r].out = <<>>
    BY <1>5, <1>6, NameParts DEF PipeOK
  <1>9. LateKept
    BY DEF LateKept, Early
  <1>10. (\A m \in fewer : OneMsg(m)') /\ \A i \in 1..Len(out) : OneLine(out[i])'
    BY <1>7, <1>8, <1>9, OneFrame
  <1>11. \A r \in ServerSet : r # Only => srv'[r].inbox = {} /\ srv'[r].out = <<>>
    BY <1>2, <1>8
  <1>12. /\ \A m, k \in fewer : m.origin = k.origin => m = k
         /\ \A m \in fewer : \A i \in 1..Len(out) : out[i].origin # m.origin
    BY <1>7, <1>8
  <1>13. PipeOK'
    BY <1>4, <1>7, <1>8, <1>10, <1>11, <1>12, PipeBy
  <1> QED BY <1>4, <1>5, <1>6, <1>7, <1>13 DEF Crossed

\* A server does something.
LEMMA ServerNames ==
    ASSUME TransportBooks, NameBooks, NEW s \in ServerSet, ServerStep(s)
    PROVE  NameBooks'
PROOF
  <1>1. UNCHANGED <<mode, cat, post, thread, hub, client>>
    BY DEF ServerStep, ServerAnswers, ServerObeys, ServerSpeaks, ServerDies
  <1>2. seen'.shown = seen.shown /\ seen'.sent = seen.sent
    <2>1. seen' = seen \/ \E n : seen' = [seen EXCEPT !.faults = @ + n]
      BY DEF ServerStep, ServerAnswers, ServerObeys, ServerSpeaks, ServerDies, Faults
    <2>2. SeenShape(seen)
      BY Parts DEF SessionOK
    <2>3. ASSUME NEW n, seen' = [seen EXCEPT !.faults = @ + n] PROVE seen'.shown = seen.shown /\ seen'.sent = seen.sent
      BY <2>2, <2>3 DEF SeenShape
    <2> QED BY <2>1, <2>3
  <1>3. IsServer(srv[s])
    BY Parts DEF ServersOK
  <1>4. CASE ServerAnswers(s)
    <2>1. PICK msg \in srv[s].inbox : IsRequest(msg.method) /\ \E page \in Answers(s, msg) :
            srv' = [srv EXCEPT ![s].inbox = @ \ {msg}, ![s].out = Append(@, Line("reply", msg.id, page, msg.origin))]
      BY <1>4 DEF ServerAnswers
    <2>2. PICK page \in Answers(s, msg) :
            srv' = [srv EXCEPT ![s].inbox = @ \ {msg}, ![s].out = Append(@, Line("reply", msg.id, page, msg.origin))]
      BY <2>1
    <2>3. PICK line : line = Line("reply", msg.id, page, msg.origin)
      OBVIOUS
    <2>4. srv' = [srv EXCEPT ![s].inbox = @ \ {msg}, ![s].out = Append(@, line)]
      BY <2>2, <2>3
    <2>5. srv'[s].inbox = srv[s].inbox \ {msg} /\ srv'[s].out = Append(srv[s].out, line) /\ \A r \in ServerSet : r # s => srv'[r] = srv[r]
      <3> DEFINE x == [srv[s] EXCEPT !.inbox = @ \ {msg}, !.out = Append(@, line)]
      <3>1. srv' = [srv EXCEPT ![s] = x]
        BY <2>4
      <3>2. x.inbox = srv[s].inbox \ {msg} /\ x.out = Append(srv[s].out, line)
        BY <1>3 DEF IsServer
      <3> HIDE DEF x
      <3>3. srv'[s] = x /\ \A r \in ServerSet : r # s => srv'[r] = srv[r]
        BY <3>1, Parts DEF ServersOK
      <3> QED BY <3>2, <3>3
    <2>6. mode = "single" => PipeOK' /\ \A u : Crossed(u)' => Crossed(u)
      BY <1>1, <2>1, <2>3, <2>5, PipeAnswers
    <2> QED BY <1>1, <1>2, <2>6, ServerSide
  <1>5. CASE ServerObeys(s)
    <2>1. PICK c, msg \in srv[s].inbox : srv' = [srv EXCEPT ![s].inbox = @ \ {c, msg}]
      BY <1>5 DEF ServerObeys
    <2> DEFINE x == [srv[s] EXCEPT !.inbox = @ \ {c, msg}]
    <2>2. srv' = [srv EXCEPT ![s] = x] /\ x.out = srv[s].out /\ x.inbox \subseteq srv[s].inbox
      BY <1>3, <2>1 DEF IsServer
    <2> HIDE DEF x
    <2>3. mode = "single" => PipeOK' /\ \A u : Crossed(u)' => Crossed(u)
      BY <1>1, <2>2, PipeDrops
    <2> QED BY <1>1, <1>2, <2>3, ServerSide
  <1>6. CASE ServerSpeaks(s)
    <2>1. mode # "single"
      BY <1>6 DEF ServerSpeaks, Routed
    <2> QED BY <1>1, <1>2, <2>1, ServerSide
  <1>7. CASE ServerDies(s)
    <2> DEFINE x == [srv[s] EXCEPT !.alive = FALSE, !.inbox = {}]
    <2>1. srv' = [srv EXCEPT ![s].alive = FALSE, ![s].inbox = {}]
      BY <1>7 DEF ServerDies
    <2>2. srv' = [srv EXCEPT ![s] = x] /\ x.out = srv[s].out /\ x.inbox \subseteq srv[s].inbox
      BY <1>3, <2>1 DEF IsServer
    <2> HIDE DEF x
    <2>3. mode = "single" => PipeOK' /\ \A u : Crossed(u)' => Crossed(u)
      BY <1>1, <2>2, PipeDrops
    <2> QED BY <1>1, <1>2, <2>3, ServerSide
  <1> QED BY <1>4, <1>5, <1>6, <1>7 DEF ServerStep

\* With several servers, a thread is given what the router returned.
LEMMA RoutedMoves ==
    ASSUME TransportBooks, NameBooks, Routed, UNCHANGED <<mode, cat, post, hub, seen>>, NEW t \in Threads, NEW acts, ActsOK(acts), Blanks(acts),
           NEW fin, FinOK(fin), thread' = [thread EXCEPT ![t] = [fin |-> Finishing(fin, FALSE, FALSE), todo |-> Later(acts)]]
    PROVE  NameBooks'
PROOF
  <1>1. PostsKept
    BY DEF PostsKept
  <1>2. LateKept /\ Numbered' /\ (\A p \in Posts : PostNamed(p)')
    BY <1>1, PostsFrame, NameParts DEF PostNamed, ReplyKnown
  <1>3. SeenNamed'
    BY <1>2, SeenNamedStays
  <1>4. CatPlain' /\ Grows(cat, cat')
    BY GrowsOn, NameParts DEF CatPlain, Routed
  <1>5. PICK f : f = Finishing(fin, FALSE, FALSE)
    OBVIOUS
  <1>6. PICK todo : todo = Later(acts)
    OBVIOUS
  <1>7. PICK x : x = [fin |-> f, todo |-> todo]
    OBVIOUS
  <1>8. x.fin = f /\ x.todo = todo /\ thread' = [thread EXCEPT ![t] = x]
    BY <1>5, <1>6, <1>7
  <1>9. (\A i \in 1..Len(f) : KnownTools(cat', f[i].visible)) /\ \A i \in 1..Len(todo) : ActNamed(todo[i])'
    BY <1>2, <1>5, <1>6, FinishingNamed, LaterNamed
  <1>10. (\A i \in 1..Len(x.fin) : KnownTools(cat', x.fin[i].visible)) /\ \A i \in 1..Len(x.todo) : ActNamed(x.todo[i])'
    BY <1>8, <1>9
  <1>11. \A u \in Threads : ThreadNamed(u)'
    BY <1>2, <1>4, <1>8, <1>10, ThreadNamedSet
  <1> QED BY <1>2, <1>3, <1>4, <1>11, NamesTogether DEF Routed

\* A server's output ends.
LEMMA OutputEndsNames ==
    ASSUME TransportBooks, NameBooks, NEW s \in ServerSet, OutputEnds(s)
    PROVE  NameBooks'
PROOF
  <1>1. UNCHANGED <<mode, cat, post, hub, client, seen>> /\ srv' = [srv EXCEPT ![s].ingress = "gone"] /\ s \in Threads
    BY DEF OutputEnds, Threads
  <1>2. CASE Routed
    <2> DEFINE gone == ServerGone(st, s)
    <2>1. thread' = [thread EXCEPT ![s] = [fin |-> Finishing(gone.fin, FALSE, FALSE), todo |-> Later(gone.acts)]]
      BY <1>2 DEF OutputEnds
    <2>2. OutOK(gone) /\ Blanks(gone.acts)
      BY GoneRouted, LossBlank, Parts
    <2> HIDE DEF gone
    <2> QED BY <1>1, <1>2, <2>1, <2>2, RoutedMoves DEF OutOK
  <1>3. CASE ~Routed
    <2>1. thread' = thread
      BY <1>3 DEF OutputEnds
    <2>2. \A r \in ServerSet : srv'[r].inbox = srv[r].inbox /\ srv'[r].out = srv[r].out
      BY <1>1, Parts DEF ServersOK, IsServer
    <2> QED BY <1>1, <2>1, <2>2, WorkStays
  <1> QED BY <1>2, <1>3

\* What the only upstream lists is shown as the catalog knows it.
LEMMA RelayNamed ==
    ASSUME NameBooks, ~Routed, NEW id, NEW origin, NEW page, IsPage(page), page.tools # <<>> => page.kind = "tools" /\ id \in hub.listed,
           NEW r, r = RelayOne(Reply(id, "result", origin), page)
    PROVE  PlainCatalog(r.cat) /\ Grows(cat, r.cat) /\ KnownTools(r.cat, r.reply.tools) /\ r.reply.id = id
PROOF
  <1> DEFINE reply == Reply(id, "result", origin)
             o == Observe(cat, Only, page.tools)
             listing == reply.id \in hub.listed /\ page.kind = "tools"
             shown == [reply EXCEPT !.tools = o.visible]
             as_is == [reply EXCEPT !.tools = page.tools]
  <1>1. reply.id = id /\ reply \in [id : {id}, what : {reply.what}, tools : {reply.tools}, origin : {origin}]
    BY DEF Reply
  <1>2. r = [cat |-> IF listing THEN o.cat ELSE cat, reply |-> IF listing THEN shown ELSE as_is]
    BY DEF RelayOne
  <1>3. SeenNames(o, cat)
    BY ObserveNames, NameParts DEF IsPage, CatPlain
  <1> HIDE DEF o, reply
  <1>4. shown.tools = o.visible /\ as_is.tools = page.tools /\ shown.id = id /\ as_is.id = id
    BY <1>1
  <1> HIDE DEF shown, as_is
  <1>5. CASE listing
    <2>1. r.cat = o.cat /\ r.reply = shown
      BY <1>2, <1>5
    <2> QED BY <1>3, <1>4, <2>1 DEF SeenNames
  <1>6. CASE ~listing
    <2>1. r.cat = cat /\ r.reply = as_is /\ page.tools = <<>>
      BY <1>1, <1>2, <1>6
    <2> QED BY <1>4, <2>1, KnownFew, GrowsOn, NameParts DEF CatPlain
  <1> QED BY <1>5, <1>6

\* The same of what is in the pipes, whatever they are.
Piped(inbox, out) ==
    /\ \A m \in inbox : OneMsg(m)
    /\ \A m \in inbox : \A i \in 1..Len(out) : out[i].origin # m.origin
    /\ \A m, k \in inbox : m.origin = k.origin => m = k
    /\ \A i \in 1..Len(out) : OneLine(out[i])
    /\ \A i, j \in 1..Len(out) : out[i].origin = out[j].origin => i = j
\* The pipes of the only upstream, whatever they hold.
LEMMA PipeWhole ==
    ASSUME NEW inbox, NEW out, srv'[Only].inbox = inbox, srv'[Only].out = out, Piped(inbox, out)',
           \A s \in ServerSet : s # Only => srv'[s].inbox = {} /\ srv'[s].out = <<>>
    PROVE  PipeOK'
BY PipeBy DEF Piped

\* The first line of the only upstream is read.
LEMMA PipeRead ==
    ASSUME TransportBooks, NameBooks, mode = "single", UNCHANGED <<mode, post>>, srv[Only].out # <<>>, NEW line, line = Head(srv[Only].out),
           NEW inbox, inbox = srv[Only].inbox, srv'[Only].inbox = inbox, NEW out, out = srv[Only].out, NEW fewer, fewer = Tail(out), srv'[Only].out = fewer,
           \A r \in ServerSet : r # Only => srv'[r] = srv[r],
           hub'.listed = hub.listed \ {line.id}
    PROVE  /\ PipeOK' /\ (\A u : Crossed(u)' => Crossed(u))
           /\ \A u \in Posts : ~Crossed(u) /\ post[u].n \in hub.listed => post[u].n \in hub'.listed
PROOF
  <1>4. PICK T : out \in Seq(T)
    BY ServersOnce, Parts DEF ServersOK, IsServer, LinesOK
  <1>5. /\ line = out[1] /\ Len(out) \in Nat \ {0} /\ Len(fewer) = Len(out) - 1
        /\ \A i \in 1..Len(fewer) : fewer[i] = out[i + 1] /\ i + 1 \in 1..Len(out)
    BY <1>4
  <1>6. 1 \in 1..Len(out)
    BY <1>5
  <1>7. /\ \A m, k \in inbox : m.origin = k.origin => m = k
        /\ \A m \in inbox : OneMsg(m) /\ \A i \in 1..Len(out) : out[i].origin # m.origin
        /\ \A i, j \in 1..Len(out) : out[i].origin = out[j].origin => i = j
        /\ \A i \in 1..Len(out) : OneLine(out[i])
        /\ \A r \in ServerSet : r # Only => srv[r].inbox = {} /\ srv[r].out = <<>>
    BY NameParts DEF PipeOK
  <1>8. line.origin \in Posts /\ line.id = post[line.origin].n /\ line.id # NoId
    BY <1>5, <1>6, <1>7 DEF OneLine, OfPost
  <1>9. \A u \in Posts : post[u].n = line.id => u = line.origin
    BY <1>8, NameParts DEF Numbered
  <1>10. LateKept
    BY DEF LateKept, Early
  <1>11. \A i \in 1..Len(fewer) : OneLine(fewer[i])' /\ fewer[i].origin # line.origin
    <2> SUFFICES ASSUME NEW i \in 1..Len(fewer) PROVE OneLine(fewer[i])' /\ fewer[i].origin # line.origin
      OBVIOUS
    <2>1. fewer[i] = out[i + 1] /\ i + 1 \in 1..Len(out) /\ i + 1 # 1
      BY <1>5
    <2>2. OneLine(fewer[i]) /\ fewer[i].origin # line.origin
      BY <1>5, <1>6, <1>7, <2>1
    <2>3. fewer[i].id # line.id
      BY <1>9, <2>2 DEF OneLine, OfPost
    <2> QED BY <1>10, <2>2, <2>3, OneFrame
  <1>12. \A m \in inbox : OneMsg(m)'
    <2> SUFFICES ASSUME NEW m \in inbox PROVE OneMsg(m)'
      OBVIOUS
    <2>1. OneMsg(m) /\ m.origin # line.origin
      BY <1>5, <1>6, <1>7
    <2>2. m.id # line.id
      BY <1>9, <2>1 DEF OneMsg, OfPost
    <2> QED BY <1>10, <2>1, <2>2, OneFrame
  <1>13. /\ \A m \in inbox : \A i \in 1..Len(fewer) : fewer[i].origin # m.origin
         /\ \A i, j \in 1..Len(fewer) : fewer[i].origin = fewer[j].origin => i = j
    <2>1. \A m \in inbox : \A i \in 1..Len(fewer) : fewer[i].origin # m.origin
      BY <1>5, <1>7
    <2>2. ASSUME NEW i \in 1..Len(fewer), NEW j \in 1..Len(fewer), fewer[i].origin = fewer[j].origin PROVE i = j
      <3>1. i + 1 = j + 1
        BY <1>5, <1>7, <2>2
      <3> QED BY <1>5, <3>1
    <2> QED BY <2>1, <2>2
  <1>14. \A r \in ServerSet : r # Only => srv'[r].inbox = {} /\ srv'[r].out = <<>>
    BY <1>7
  <1>15. srv'[Only].inbox = inbox /\ srv'[Only].out = fewer
    OBVIOUS
  <1>16. PipeOK'
    <2>1. \A i \in 1..Len(fewer) : OneLine(fewer[i])'
      BY <1>11
    <2>2. \A m, k \in inbox : m.origin = k.origin => m = k
      BY <1>7
    <2>3. \A m \in inbox : \A i \in 1..Len(fewer) : fewer[i].origin # m.origin
      BY <1>13
    <2>4. \A i, j \in 1..Len(fewer) : fewer[i].origin = fewer[j].origin => i = j
      BY <1>13
    <2>5. Piped(inbox, fewer)'
      BY <1>12, <2>1, <2>2, <2>3, <2>4 DEF Piped
    <2> QED BY <1>14, <1>15, <2>5, PipeWhole
  <1>17. ASSUME NEW u, Crossed(u)' PROVE Crossed(u)
    <2>1. CASE \E m \in inbox : m.origin = u
      BY <2>1 DEF Crossed
    <2>2. CASE \E i \in 1..Len(fewer) : fewer[i].origin = u
      <3>1. PICK i \in 1..Len(fewer) : fewer[i].origin = u
        BY <2>2
      <3>2. i + 1 \in 1..Len(out) /\ out[i + 1].origin = u
        BY <1>5, <3>1
      <3> QED BY <3>2 DEF Crossed
    <2> QED BY <1>15, <1>17, <2>1, <2>2 DEF Crossed
  <1>18. Crossed(line.origin)
    BY <1>5, <1>6 DEF Crossed
  <1>19. \A u \in Posts : ~Crossed(u) /\ post[u].n \in hub.listed => post[u].n \in hub'.listed
    BY <1>9, <1>18
  <1> QED BY <1>16, <1>17, <1>19

\* A line of a server is read.
LEMMA ReadsNames ==
    ASSUME TransportBooks, NameBooks, NEW s \in ServerSet, Reads(s)
    PROVE  NameBooks'
PROOF
  <1>0. PICK line : line = Head(srv[s].out)
    OBVIOUS
  <1>1. /\ UNCHANGED <<mode, post, client, seen>> /\ srv' = [srv EXCEPT ![s].out = Tail(@)] /\ srv[s].out # <<>>
        /\ thread[s] = AtRest /\ srv[s].ingress = "reading" /\ s \in Threads
    BY DEF Reads, Threads
  <1>2. IsServer(srv[s]) /\ mode # "relay" /\ IsLine(line) /\ HubShape(hub)
    BY <1>0, <1>1, LineRead, Parts DEF ServersOK, IsServer, HubOK
  <1>3. CASE Routed
    <2> DEFINE routed == OnRoutedLine(st, s, line)
    <2>1. thread' = [thread EXCEPT ![s] = [fin |-> Finishing(routed.fin, FALSE, FALSE), todo |-> Later(routed.acts)]] /\ cat' = cat /\ hub' = hub
      BY <1>0, <1>3 DEF Reads
    <2>2. OutOK(routed) /\ Blanks(routed.acts)
      BY <1>2, LineRouted, LineBlank, Parts
    <2> HIDE DEF routed
    <2> QED BY <1>1, <1>3, <2>1, <2>2, RoutedMoves DEF OutOK
  <1>4. CASE ~Routed
    <2>1. PICK one : one = RelayOne(Reply(line.id, "result", line.origin), line.page)
      OBVIOUS
    <2>2. PICK todo : todo = Later(<<ToAgent(one.reply)>>)
      OBVIOUS
    <2>3. cat' = one.cat /\ hub' = [hub EXCEPT !.listed = @ \ {line.id}] /\ thread' = [thread EXCEPT ![s].todo = todo]
      BY <1>0, <1>4, <2>1, <2>2 DEF Reads
    <2>4. hub'.listed = hub.listed \ {line.id} /\ hub'.nextId = hub.nextId
      BY <1>2, <2>3 DEF HubShape
    <2>5. mode = "single" /\ s = Only
      <3>1. mode = "single"
        BY <1>2, <1>4, Parts, TransportAssumption DEF Routed
      <3> QED BY <1>1, <3>1, NameParts DEF PipeOK
    <2>6. srv'[s].inbox = srv[s].inbox /\ srv'[s].out = Tail(srv[s].out) /\ \A r \in ServerSet : r # s => srv'[r] = srv[r]
      <3> DEFINE y == [srv[s] EXCEPT !.out = Tail(@)]
      <3>1. srv' = [srv EXCEPT ![s] = y]
        BY <1>1
      <3>2. y.inbox = srv[s].inbox /\ y.out = Tail(srv[s].out)
        BY <1>2 DEF IsServer
      <3> HIDE DEF y
      <3>3. srv'[s] = y /\ \A r \in ServerSet : r # s => srv'[r] = srv[r]
        BY <3>1, Parts DEF ServersOK
      <3> QED BY <3>2, <3>3
    <2>7. /\ PipeOK' /\ (\A u : Crossed(u)' => Crossed(u))
          /\ \A u \in Posts : ~Crossed(u) /\ post[u].n \in hub.listed => post[u].n \in hub'.listed
      BY <1>0, <1>1, <2>4, <2>5, <2>6, PipeRead
    <2>8. OneLine(line)
      <3>1. PICK T : srv[s].out \in Seq(T)
        BY <1>2 DEF IsServer, LinesOK
      <3>2. line = srv[s].out[1] /\ 1 \in 1..Len(srv[s].out)
        BY <1>0, <1>1, <3>1
      <3> QED BY <2>5, <3>2, NameParts DEF PipeOK
    <2>9. PlainCatalog(cat') /\ Grows(cat, cat') /\ KnownTools(cat', one.reply.tools)
      BY <1>2, <1>4, <2>1, <2>3, <2>8, RelayNamed DEF IsLine, OneLine
    <2>10. PostsKept
      BY <1>1 DEF PostsKept
    <2>11. LateKept /\ Numbered'
      BY <1>1, <2>4, <2>10, PostsFrame, NameParts
    <2>12. SeenNamed' /\ (\A p \in Posts : PostNamed(p)') /\ CatPlain'
      <3>1. SeenNamed'
        BY <1>1, <2>9, <2>11, NameFrame, NameParts
      <3>2. \A p \in Posts : PostNamed(p)'
        BY <1>1, <2>9, GrowsKnows, NameParts DEF PostNamed, ReplyKnown
      <3>3. CatPlain'
        BY <1>1, <2>9, NameParts DEF CatPlain, Grows, Routed
      <3> QED BY <3>1, <3>2, <3>3
    <2>13. PICK x : x = [fin |-> <<>>, todo |-> todo]
      OBVIOUS
    <2>14. x.fin = <<>> /\ x.todo = todo /\ thread' = [thread EXCEPT ![s] = x]
      <3>1. [thread[s] EXCEPT !.todo = todo] = x
        BY <1>1, <2>13 DEF AtRest
      <3>2. thread' = [thread EXCEPT ![s] = [thread[s] EXCEPT !.todo = todo]]
        BY <2>3
      <3>3. x.fin = <<>> /\ x.todo = todo
        BY <2>13
      <3>4. thread' = [thread EXCEPT ![s] = x]
        BY <3>1, <3>2
      <3> QED BY <3>3, <3>4
    <2>15. Len(todo) = 1 /\ Head(todo) = todo[1] /\ todo[1].to = "agent" /\ todo[1].msg = one.reply
      <3> DEFINE a == ToAgent(one.reply)
      <3>1. IsTarget(a) /\ a.to = "agent" /\ a.msg = one.reply
        BY DEF IsTarget, ToAgent
      <3> HIDE DEF a
      <3>2. todo = Later(<<a>>)
        BY <2>2 DEF a
      <3> QED BY <3>1, <3>2, OneMarked
    <2>16. ActNamed(todo[1])'
      BY <2>9, <2>15 DEF ActNamed
    <2>17. /\ \A i \in 1..Len(x.fin) : KnownTools(cat', x.fin[i].visible)
           /\ \A i \in 1..Len(x.todo) : ActNamed(x.todo[i])'
      <3>1. \A i \in 1..Len(todo) : i = 1
        BY <2>15
      <3>2. \A i \in 1..Len(todo) : ActNamed(todo[i])'
        BY <2>16, <3>1
      <3>3. \A i \in 1..Len(x.fin) : KnownTools(cat', x.fin[i].visible)
        BY <2>14
      <3> QED BY <2>14, <3>2, <3>3
    <2>18. \A u \in Threads : ThreadNamed(u)'
      BY <1>1, <2>9, <2>11, <2>14, <2>17, ThreadNamedSet
    <2>19. ASSUME NEW u \in Posts, Sending(u) PROVE ~Crossed(u)
      <3>1. u \in Threads /\ OneThread(u)
        BY <1>4, NameParts DEF Threads
      <3>2. OneWork(u, Head(thread[u].todo)) /\ Head(thread[u].todo).to # "agent"
        BY <2>19, <3>1 DEF OneThread, Sending
      <3> QED BY <2>5, <3>2 DEF OneWork
    <2>20. Len(x.todo) <= 1 /\ OneWork(s, Head(x.todo))'
      BY <1>1, <2>5, <2>14, <2>15 DEF OneWork
    <2>21. \A u \in Threads : OneThread(u)'
      BY <1>1, <1>4, <2>7, <2>11, <2>14, <2>19, <2>20, OneThreadSet
    <2> QED BY <1>1, <2>5, <2>7, <2>11, <2>12, <2>18, <2>21, NamesTogether
  <1> QED BY <1>3, <1>4

\* Only what the HTTP client holds changes.
LEMMA ClientSide ==
    ASSUME TransportBooks, NameBooks, mode = "relay", UNCHANGED <<mode, cat, post, thread, srv, hub>>,
           seen'.shown = seen.shown, seen'.sent = seen.sent, ClientListed'
    PROVE  NameBooks'
PROOF
  <1>1. PostsKept
    BY DEF PostsKept
  <1>2. LateKept /\ Numbered' /\ (\A p \in Posts : PostNamed(p)')
    BY <1>1, PostsFrame, NameParts DEF PostNamed, ReplyKnown
  <1>3. CatPlain' /\ Grows(cat, cat')
    BY GrowsOn, NameParts DEF CatPlain, Routed
  <1>4. SeenNamed' /\ \A t \in Threads : ThreadNamed(t)'
    BY <1>2, <1>3, NameFrame, NameParts
  <1>5. ~Routed => \A t \in Threads : OneThread(t)'
    BY <1>2, OneThreadKept, NameParts
  <1> QED BY <1>2, <1>3, <1>4, <1>5, NamesTogether

\* The HTTP client takes a message.
LEMMA ClientTakesNames ==
    ASSUME TransportBooks, NameBooks, ClientTakes
    PROVE  NameBooks'
PROOF
  <1>1. PICK msg : msg = Head(client.queue)
    OBVIOUS
  <1>2. PICK x : x = [msg |-> msg, after |-> client.inits, header |-> None]
    OBVIOUS
  <1>3. PICK q : q = Tail(client.queue)
    OBVIOUS
  <1>4. PICK R : R = client.running \cup {x}
    OBVIOUS
  <1>5. UNCHANGED <<mode, cat, post, thread, srv, hub, seen>> /\ client.queue # <<>>
    BY DEF ClientTakes
  <1>6. client'.queue = q /\ client'.running = R
    <2>1. ClientShape(client)
      BY Parts DEF ClientOK
    <2> DEFINE k == IF msg.method = "initialize" THEN client.inits + 1 ELSE client.inits
    <2>2. client' = [client EXCEPT !.queue = q, !.inits = k, !.running = R]
      BY <1>1, <1>2, <1>3, <1>4, <2>1 DEF ClientTakes, ClientShape
    <2> HIDE DEF k
    <2> QED BY <2>1, <2>2 DEF ClientShape
  <1>7. mode = "relay"
    BY <1>5, Parts DEF RelayOK
  <1>8. PICK T : client.queue \in Seq(T)
    BY Parts DEF ClientOK, IsSeq
  <1>9. /\ msg = client.queue[1] /\ 1 \in 1..Len(client.queue)
        /\ \A i \in 1..Len(q) : q[i] = client.queue[i + 1] /\ i + 1 \in 1..Len(client.queue)
    BY <1>1, <1>3, <1>5, <1>8
  <1>10. (\A i \in 1..Len(client.queue) : OneMsg(client.queue[i])) /\ \A y \in client.running : OneMsg(y.msg)
    BY <1>7, NameParts DEF ClientListed
  <1>11. LateKept /\ hub' = hub
    BY <1>5 DEF LateKept, Early
  <1>12. \A m : OneMsg(m) => OneMsg(m)'
    BY <1>5, <1>11, OneFrame
  <1>13. \A i \in 1..Len(q) : OneMsg(q[i])'
    BY <1>9, <1>10, <1>12
  <1>14. \A y \in R : OneMsg(y.msg)'
    <2>1. x.msg = msg
      BY <1>2
    <2>2. OneMsg(x.msg)'
      BY <1>9, <1>10, <1>12, <2>1
    <2> QED BY <1>4, <1>10, <1>12, <2>2
  <1>15. ClientListed'
    BY <1>6, <1>13, <1>14 DEF ClientListed
  <1> QED BY <1>5, <1>7, <1>15, ClientSide

\* A request is made.
LEMMA ExchangeSendsNames ==
    ASSUME TransportBooks, NameBooks, NEW x \in client.running, ExchangeSends(x)
    PROVE  NameBooks'
PROOF
  <1> DEFINE h == [session |-> IF x.msg.method = "initialize" THEN 0 ELSE client.session]
  <1>1. PICK sent : sent = [x EXCEPT !.header = h]
    OBVIOUS
  <1>2. PICK R : R = (client.running \ {x}) \cup {sent}
    OBVIOUS
  <1>3. ClientShape(client) /\ SeenShape(seen) /\ IsExchange(x) /\ mode = "relay"
    BY Parts DEF ClientOK, SessionOK, RelayOK
  <1>4. /\ UNCHANGED <<mode, cat, post, thread, srv, hub>>
        /\ client' = [client EXCEPT !.running = R] /\ seen' = [seen EXCEPT !.posted = @ \cup {sent}]
    BY <1>1, <1>2, <1>3 DEF ExchangeSends, ClientShape
  <1> HIDE DEF h
  <1>5. sent.msg = x.msg
    BY <1>1, <1>3 DEF IsExchange
  <1>6. client'.queue = client.queue /\ client'.running = R
    BY <1>3, <1>4 DEF ClientShape
  <1>7. seen'.shown = seen.shown /\ seen'.sent = seen.sent
    BY <1>3, <1>4 DEF SeenShape
  <1>8. LateKept
    BY <1>4 DEF LateKept, Early
  <1>9. \A m : OneMsg(m) => OneMsg(m)'
    BY <1>4, <1>8, OneFrame
  <1>10. (\A i \in 1..Len(client.queue) : OneMsg(client.queue[i])) /\ \A y \in client.running : OneMsg(y.msg)
    BY <1>3, NameParts DEF ClientListed
  <1>11. \A y \in R : OneMsg(y.msg)'
    BY <1>2, <1>5, <1>9, <1>10
  <1>12. PICK q : q = client.queue
    OBVIOUS
  <1>13. ClientListed'
    <2>1. \A i \in 1..Len(q) : OneMsg(q[i])'
      BY <1>9, <1>10, <1>12
    <2> QED BY <1>6, <1>11, <1>12, <2>1 DEF ClientListed
  <1> QED BY <1>3, <1>4, <1>7, <1>13, ClientSide

\* An exchange is over: the reply is relayed or the message reported undelivered.
LEMMA ExchangeEndsNames ==
    ASSUME TransportBooks, NameBooks, NEW x \in client.running, ExchangeEnds(x)
    PROVE  NameBooks'
PROOF
  <1>1. PICK m : m = x.msg
    OBVIOUS
  <1>2. PICK R : R = client.running \ {x}
    OBVIOUS
  <1>3. PICK q : q = client.queue
    OBVIOUS
  <1>4. ClientShape(client) /\ SeenShape(seen) /\ mode = "relay" /\ ~Routed
    BY Parts DEF ClientOK, SessionOK, RelayOK, Routed
  <1>5. UNCHANGED <<mode, st, thread, srv>>
    BY DEF ExchangeEnds
  <1>6. PICK answered \in BOOLEAN, page \in Answers(Only, m) :
          LET relayed == RelayOne(Reply(m.id, "result", m.origin), page)
          IN  /\ client' = [client EXCEPT !.running = @ \ {x}, !.busy = @ - 1,
                                          !.session = IF answered /\ m.method = "initialize" THEN client.inits ELSE @]
              /\ CASE m.id = NoId -> UNCHANGED <<cat, post, hub>>
                   [] m.id # NoId /\ answered -> GivesWaiter(relayed.reply) /\ cat' = relayed.cat
                   [] OTHER -> GivesWaiter(Reply(m.id, "upstream_unavailable", m.origin)) /\ UNCHANGED cat
              /\ seen' = IF answered /\ m.method = "initialize" THEN [seen EXCEPT !.granted = @ \cup {client.inits}] ELSE seen
    BY <1>1, Zenon DEF ExchangeEnds
  <1>7. client'.queue = q /\ client'.running = R
    <2> DEFINE k == IF answered /\ m.method = "initialize" THEN client.inits ELSE client.session
    <2>1. client' = [client EXCEPT !.running = R, !.busy = client.busy - 1, !.session = k]
      BY <1>2, <1>4, <1>6 DEF ClientShape
    <2> HIDE DEF k
    <2> QED BY <1>3, <1>4, <2>1 DEF ClientShape
  <1>8. seen'.shown = seen.shown /\ seen'.sent = seen.sent
    <2>1. seen' = [seen EXCEPT !.granted = @ \cup {client.inits}] \/ seen' = seen
      BY <1>6
    <2> QED BY <1>4, <2>1 DEF SeenShape
  <1>9. (\A i \in 1..Len(q) : OneMsg(q[i])) /\ (\A y \in client.running : OneMsg(y.msg)) /\ OneMsg(m)
    BY <1>1, <1>3, <1>4, NameParts DEF ClientListed
  <1>10. /\ PostsKept /\ (\A p \in Posts : PostNamed(p)') /\ hub'.nextId = hub.nextId
         /\ hub'.listed = hub.listed \/ (m.id # NoId /\ hub'.listed = hub.listed \ {m.id})
         /\ PlainCatalog(cat') /\ Grows(cat, cat')
    <2>1. CASE m.id = NoId
      <3>1. UNCHANGED <<cat, post, hub>>
        BY <1>6, <2>1
      <3>2. \A p \in Posts : PostNamed(p)'
        BY <3>1, NameParts DEF PostNamed, ReplyKnown
      <3>3. PlainCatalog(cat') /\ Grows(cat, cat')
        BY <3>1, GrowsOn, NameParts DEF CatPlain
      <3> QED BY <3>1, <3>2, <3>3 DEF PostsKept
    <2>2. CASE m.id # NoId /\ answered
      <3>1. PICK r : r = RelayOne(Reply(m.id, "result", m.origin), page)
        OBVIOUS
      <3>2. PICK reply : reply = r.reply
        OBVIOUS
      <3>3. GivesWaiter(reply) /\ cat' = r.cat
        BY <1>6, <2>2, <3>1, <3>2
      <3>4. IsPage(page)
        BY ServersOnce, PagesAre, Parts DEF ServersOK, IsServer
      <3>5. page.tools # <<>> => page.kind = "tools" /\ m.id \in hub.listed
        BY <1>9, ServersOnce, PagesAsked DEF OneMsg
      <3>6. PlainCatalog(r.cat) /\ Grows(cat, r.cat) /\ KnownTools(r.cat, reply.tools) /\ reply.id = m.id
        BY <1>4, <3>1, <3>2, <3>4, <3>5, RelayNamed
      <3>7. Grows(cat, cat') /\ KnownTools(cat', reply.tools) /\ PlainCatalog(cat')
        BY <3>3, <3>6
      <3> QED BY <1>4, <1>5, <2>2, <3>3, <3>6, <3>7, WaiterNamed
    <2>3. CASE m.id # NoId /\ ~answered
      <3>1. PICK reply : reply = Reply(m.id, "upstream_unavailable", m.origin)
        OBVIOUS
      <3>2. GivesWaiter(reply) /\ cat' = cat
        BY <1>6, <2>3, <3>1
      <3>3. reply.tools = <<>> /\ reply.id = m.id
        BY <3>1 DEF Reply
      <3>4. Grows(cat, cat') /\ KnownTools(cat', reply.tools) /\ PlainCatalog(cat')
        BY <3>2, <3>3, KnownFew, GrowsOn, NameParts DEF CatPlain
      <3> QED BY <1>4, <1>5, <2>3, <3>2, <3>3, <3>4, WaiterNamed
    <2> QED BY <2>1, <2>2, <2>3
  <1>11. LateKept /\ Numbered'
    BY <1>5, <1>10, PostsFrame, NameParts
  <1>12. SeenNamed' /\ (\A t \in Threads : ThreadNamed(t)') /\ CatPlain'
    <2>1. SeenNamed'
      BY <1>5, <1>8, <1>10, <1>11, NameFrame, NameParts
    <2>2. \A t \in Threads : ThreadNamed(t)'
      BY <1>5, <1>10, <1>11, NameFrame, NameParts
    <2>3. CatPlain'
      BY <1>5, <1>10, NameParts DEF CatPlain, Grows, Routed
    <2> QED BY <2>1, <2>2, <2>3
  <1>13. m.origin \in Posts /\ m.id = post[m.origin].n
    BY <1>9 DEF OneMsg, OfPost
  <1>14. \A u \in Posts : u # m.origin /\ post[u].n \in hub.listed => post[u].n \in hub'.listed
    BY <1>10, <1>13, NameParts DEF Numbered
  <1>15. \A k : OneMsg(k) /\ k.origin # m.origin => OneMsg(k)'
    <2> SUFFICES ASSUME NEW k, OneMsg(k), k.origin # m.origin PROVE OneMsg(k)'
      OBVIOUS
    <2>1. k.id \in hub.listed => k.id \in hub'.listed
      BY <1>14 DEF OneMsg, OfPost
    <2> QED BY <1>5, <1>11, <2>1, OneFrame
  <1>16. ClientListed'
    <2>1. \A i \in 1..Len(q) : q[i].origin # m.origin
      BY <1>1, <1>3, Parts DEF ClientOK
    <2>2. \A y \in R : y.msg.origin # m.origin /\ y \in client.running
      BY <1>1, <1>2, Parts DEF ClientOK
    <2>3. \A i \in 1..Len(q) : OneMsg(q[i])'
      BY <1>9, <1>15, <2>1
    <2>4. \A y \in R : OneMsg(y.msg)'
      BY <1>9, <1>15, <2>2
    <2> QED BY <1>7, <2>3, <2>4 DEF ClientListed
  <1>17. ASSUME NEW u \in Posts, Sending(u) PROVE u # m.origin
    <2>1. u \in Threads /\ RelayThread(u)
      BY <1>4, Parts DEF RelayOK, Threads
    <2>2. ~Handed(u)
      BY <1>17, <2>1 DEF RelayThread, Sending
    <2> QED BY <1>1, <2>2 DEF Handed
  <1>18. \A t \in Threads : OneThread(t)'
    BY <1>4, <1>5, <1>11, <1>14, <1>17, OneThreadKept, NameParts
  <1> QED BY <1>4, <1>5, <1>10, <1>11, <1>12, <1>16, <1>18, NamesTogether

(***************************************************************************)
(* The result.                                                             *)
(***************************************************************************)
\* The names at the start.
LEMMA NamesBegin == Init => NameBooks
PROOF
  <1> SUFFICES ASSUME Init PROVE NameBooks
    OBVIOUS
  <1>1. CatPlain
    <2>1. CASE Routed
      BY <2>1, StartNames DEF Init, CatPlain
    <2>2. CASE ~Routed
      <3>1. cat = Passthrough
        BY <2>2 DEF Init
      <3>2. PlainCatalog(Passthrough) /\ Passthrough.routed = FALSE
        BY DEF PlainCatalog, Passthrough, EmptyCatalog
      <3>3. Routed = FALSE
        <4>1. mode # "stdio" /\ mode # "listen"
          BY <2>2 DEF Routed
        <4> QED BY <4>1 DEF Routed
      <3> QED BY <3>1, <3>2, <3>3 DEF CatPlain
    <2> QED BY <2>1, <2>2
  <1>2. \A t \in Threads : thread[t].fin = <<>> /\ thread[t].todo = <<>>
    BY DEF Init, AtRest
  <1>3. Len(<<>>) = 0 /\ 1..0 = {}
    OBVIOUS
  <1>4. \A t \in Threads : ThreadNamed(t) /\ OneThread(t)
    BY <1>2, <1>3 DEF ThreadNamed, OneThread
  <1>5. \A p \in Posts : post[p].direct = None /\ post[p].reply = None /\ post[p].n = NoId /\ post[p].phase = "new"
    BY DEF Init
  <1>6. \A p \in Posts : PostNamed(p)
    BY <1>5 DEF PostNamed, ReplyKnown
  <1>7. hub.nextId = 1 /\ seen.shown = {} /\ seen.sent = {} /\ client.queue = <<>> /\ client.running = {}
    BY DEF Init
  <1>8. SeenNamed
    BY <1>7 DEF SeenNamed
  <1>9. Numbered
    BY <1>5, <1>7 DEF Numbered, NoId
  <1>10. \A s \in ServerSet : srv[s].inbox = {} /\ srv[s].out = <<>>
    BY DEF Init
  <1>11. PipeOK
    BY <1>3, <1>10, ServersOnce DEF PipeOK
  <1>12. ClientListed
    BY <1>3, <1>7 DEF ClientListed
  <1> QED BY <1>1, <1>4, <1>6, <1>8, <1>9, <1>11, <1>12 DEF NameBooks, Named, OneUpstream

\* Every step keeps them.
LEMMA NamesKept == TransportBooks /\ NameBooks /\ [Next]_vars => NameBooks'
PROOF
  <1> SUFFICES ASSUME TransportBooks, NameBooks, [Next]_vars PROVE NameBooks'
    OBVIOUS
  <1>1. CASE UNCHANGED vars
    <2>1. UNCHANGED <<mode, cat, post, thread, srv, hub, client, seen>>
      BY <1>1 DEF vars
    <2> QED BY <2>1, WorkStays
  <1>2. ASSUME NEW p \in Posts, AgentStep(p) \/ Disconnects(p) PROVE NameBooks'
    BY <1>2, ArrivesNames, DecidesNames, DispatchesNames, PostEndsNames, PostAnsweredNames, DisconnectsNames DEF AgentStep
  <1>3. ASSUME NEW t \in Threads, ThreadStep(t) PROVE NameBooks'
    BY <1>3, FinishesNames, PerformsAnswerNames, PerformsSendNames DEF ThreadStep
  <1>4. ASSUME NEW s \in ServerSet, IngressStep(s) \/ ServerStep(s) PROVE NameBooks'
    BY <1>4, ReadsNames, OutputEndsNames, IngressEndsNames, ServerNames DEF IngressStep
  <1>5. ASSUME ClientStep PROVE NameBooks'
    BY <1>5, ClientTakesNames, ExchangeSendsNames, ExchangeEndsNames, ClosesNames DEF ClientStep, ExchangeStep
  <1>6. CASE ClosesServers
    BY <1>6, ClosesNames
  <1> QED BY <1>1, <1>2, <1>3, <1>4, <1>5, <1>6 DEF Next

\* What agents saw and what was sent agree with one catalog, so with each other.
LEMMA NamesSuffice == NameBooks => OneToolPerName
PROOF
  <1> SUFFICES ASSUME NameBooks PROVE OneToolPerName
    OBVIOUS
  <1>1. \A x \in seen.shown : x = <<x[1], x[2], x[3]>> /\ Known(cat, x[1], x[2], x[3])
    BY NameParts DEF SeenNamed
  <1>2. \A name, s, r : NameOwned(cat, name, s) /\ NameOwned(cat, name, r) => s = r
    BY DEF NameOwned
  <1>3. ASSUME NEW x \in seen.shown, NEW y \in seen.shown, x[1] = y[1] PROVE x = y
    <2>1. x[2] = y[2]
      BY <1>1, <1>2, <1>3 DEF Known
    <2>2. x[3] = cat.baseline[<<x[2], x[1]>>] /\ y[3] = cat.baseline[<<y[2], y[1]>>]
      BY <1>1 DEF Known
    <2>3. x[3] = y[3]
      BY <1>3, <2>1, <2>2
    <2> QED BY <1>1, <1>3, <2>1, <2>3
  <1>4. ASSUME NEW c \in seen.sent, NEW x \in seen.shown, c[1] = "call", post[c[2]].msg.tool = x[1] PROVE c[3] = x[2]
    <2>1. NameOwned(cat, x[1], c[3])
      BY <1>4, NameParts DEF SeenNamed, Called
    <2> QED BY <1>1, <1>2, <2>1 DEF Known
  <1> QED BY <1>3, <1>4 DEF OneToolPerName

\* Whatever the servers list, however listings are observed and answered outside
\* the router's lock, and whoever disconnects or dies: an agent never sees a
\* second definition or a second server behind a tool name, and every call goes
\* to the server whose definition agents saw (Catalog::observe, Catalog::route,
\* Interceptor::finish_listing, note_list_request, on_upstream_line).
THEOREM ToolNamesKept == Spec => []OneToolPerName
PROOF
  <1>1. Init => TransportBooks /\ NameBooks
    BY BooksBegin, NamesBegin
  <1>2. TransportBooks /\ NameBooks /\ [Next]_vars => (TransportBooks /\ NameBooks)'
    BY StepKeeps, NamesKept
  <1>3. NameBooks => OneToolPerName
    BY NamesSuffice
  <1> QED BY <1>1, <1>2, <1>3, PTL DEF Spec
=============================================================================
