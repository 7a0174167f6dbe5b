---------------------------- MODULE VaultProofs ----------------------------
(***************************************************************************)
(* Proofs about the vaults and about the processes that mask with one.     *)
(*                                                                         *)
(* VaultStores, for every set of processes, users, keys and originals, any *)
(* resolver and any numbering: a file vault saved, loaded and resolved in  *)
(* any order never gives a token a second meaning, and what a process of   *)
(* the shared vault rehydrates is what the database says, whoever wrote    *)
(* it.                                                                     *)
(*                                                                         *)
(* PrivacyProxy, for every set of requests, sessions, phrases, prefixes    *)
(* and profiles: tokens stay one to one with originals, every token a      *)
(* session refers to is in the vault, and the detector in use is the one   *)
(* last reported.                                                          *)
(***************************************************************************)
EXTENDS VaultStores, PrivacyProxy, FiniteSetTheorems, WellFoundedInduction, TLAPS

(***************************************************************************)
(* The inductive invariant.  A vault is rebuilt from its file, so what the *)
(* file holds must be as sound as what memory holds; a prefix in use must  *)
(* have a counter, or it would be counted from 1 again.  The caches of a   *)
(* process answer from rows of the database as that process decrypts them, *)
(* and a token is in one row only, so no other row contradicts them.       *)
(***************************************************************************)
Books(forward, counters) ==
    /\ \A o \in DOMAIN forward : PrefixOf[forward[o].category] \in DOMAIN counters
    /\ \A prefix \in DOMAIN counters :
          /\ counters[prefix] \in Nat
          /\ {forward[o].id : o \in {p \in DOMAIN forward : PrefixOf[forward[p].category] = prefix}} = 1..counters[prefix]

LibBooked ==
    /\ lib = [forward |-> lib.forward, reverse |-> lib.reverse, counters |-> lib.counters]
    /\ Books(lib.forward, lib.counters)
FileBooked == file.key # "none" => Books(file.forward, file.counters)

Shown(row, key) == IF row.key = key THEN row.original ELSE Undecryptable
BackedBy(reverse, rows, n, key) ==
    \A t \in DOMAIN reverse : \E i \in 1..n : rows[i].token = t /\ reverse[t] = Shown(rows[i], key)

IsProcess(r) ==
    r \in [pc : {r.pc}, cache : {r.cache}, key : {r.key}, user : {r.user}, original : {r.original}, token : {r.token}]
Shapes ==
    /\ db = [rows |-> db.rows, counters |-> db.counters]
    /\ \E T : db.rows \in Seq(T)
    /\ proc = [p \in Processes |-> proc[p]]
    /\ \A p \in Processes : IsProcess(proc[p])
TokensOnce == \A i, j \in DOMAIN db.rows : db.rows[i].token = db.rows[j].token => i = j
CachesBacked == \A p \in Processes : BackedBy(proc[p].cache.reverse, db.rows, Len(db.rows), proc[p].key)

LibraryInv == VaultInverse /\ LibBooked /\ FileBooked
SharedInv == Shapes /\ TokensOnce /\ CachesBacked

(***************************************************************************)
(* The operators.                                                          *)
(***************************************************************************)

\* A map with one more entry.
LEMMA PutIs ==
    ASSUME NEW f, NEW k, NEW v
    PROVE  /\ DOMAIN Put(f, k, v) = DOMAIN f \cup {k}
           /\ Put(f, k, v)[k] = v
           /\ \A x \in DOMAIN f : x # k => Put(f, k, v)[x] = f[x]
BY DEF Put

\* What holds of 0 and is handed on from each number below n to the next
\* holds of all up to n.
LEMMA CountUp ==
    ASSUME NEW n \in Nat, NEW S, 0 \in S, \A k \in Nat : k < n /\ k \in S => k + 1 \in S
    PROVE  0..n \subseteq S
PROOF
  <1> DEFINE Less == {ss \in Nat \X Nat : ss[1] < ss[2]}
             T == {k \in 0..n : k \notin S}
  <1> SUFFICES ASSUME T # {} PROVE FALSE
    OBVIOUS
  <1>1. IsWellFoundedOn(Less, Nat)
    BY NatLessThanWellFounded DEF OpToRel
  <1>2. \A x, y \in Nat : x < y => <<x, y>> \in Less
    OBVIOUS
  <1>3. T \subseteq Nat
    OBVIOUS
  <1> HIDE DEF Less
  <1>4. PICK x \in T : \A y \in T : ~(<<y, x>> \in Less)
    BY <1>1, <1>3, WFMin
  <1>5. x \in Nat /\ x <= n /\ x \notin S /\ x # 0
    OBVIOUS
  <1>6. x - 1 \in Nat /\ x - 1 < n /\ x - 1 < x /\ (x - 1) + 1 = x
    BY <1>5
  <1>7. x - 1 \notin T
    BY <1>2, <1>4, <1>5, <1>6
  <1>8. x - 1 \in S
    BY <1>5, <1>6, <1>7
  <1> QED BY <1>5, <1>6, <1>8

\* One row more in the caches.
LEMMA CacheRowBacked ==
    ASSUME NEW cache, NEW rows, NEW n \in Nat, NEW m \in Nat, n <= m, NEW i \in 1..m, NEW key,
           BackedBy(cache.reverse, rows, n, key)
    PROVE  BackedBy(CacheRow(cache, rows[i], key).reverse, rows, m, key)
PROOF
  <1> DEFINE r == Put(cache.reverse, rows[i].token, Shown(rows[i], key))
  <1>1. CacheRow(cache, rows[i], key).reverse = r
    BY DEF CacheRow, Shown
  <1>0. /\ DOMAIN r = DOMAIN cache.reverse \cup {rows[i].token}
        /\ r[rows[i].token] = Shown(rows[i], key)
        /\ \A x \in DOMAIN cache.reverse : x # rows[i].token => r[x] = cache.reverse[x]
    BY DEF Put
  <1> HIDE DEF r
  <1>2. ASSUME NEW t \in DOMAIN r
        PROVE  \E j \in 1..m : rows[j].token = t /\ r[t] = Shown(rows[j], key)
    <2>1. CASE t = rows[i].token
      BY <1>0, <2>1
    <2>2. CASE t # rows[i].token
      <3>1. t \in DOMAIN cache.reverse /\ r[t] = cache.reverse[t]
        BY <1>0, <1>2, <2>2
      <3>2. PICK j \in 1..n : rows[j].token = t /\ cache.reverse[t] = Shown(rows[j], key)
        BY <3>1 DEF BackedBy
      <3>3. j \in 1..m
        OBVIOUS
      <3> QED BY <3>1, <3>2, <3>3
    <2> QED BY <2>1, <2>2
  <1> QED BY <1>1, <1>2 DEF BackedBy

\* load_cache answers from the rows it read.
LEMMA LoadCacheBacked ==
    ASSUME NEW d, NEW key, Len(d.rows) \in Nat
    PROVE  BackedBy(LoadCache(d, key).reverse, d.rows, Len(d.rows), key)
PROOF
  <1> DEFINE n == Len(d.rows)
             R(f, m) == [i \in 0..m |-> IF i = 0 THEN NoCache ELSE CacheRow(f[i - 1], d.rows[i], key)]
             F == CHOOSE f : f = R(f, n)
  <1>1. \E f : f = R(f, n)
    <2> DEFINE S == {m \in Nat : \E f : f = R(f, m)}
    <2>1. 0 \in S
      <3> DEFINE f == [i \in 0..0 |-> NoCache]
      <3>1. f = R(f, 0)
        OBVIOUS
      <3> QED BY <3>1
    <2>2. ASSUME NEW k \in Nat, k < n, k \in S PROVE k + 1 \in S
      <3>1. PICK f : f = R(f, k)
        BY <2>2
      <3> DEFINE g == [i \in 0..(k + 1) |-> IF i <= k THEN f[i] ELSE CacheRow(f[k], d.rows[k + 1], key)]
      <3>2. \A i \in 0..k : f[i] = IF i = 0 THEN NoCache ELSE CacheRow(f[i - 1], d.rows[i], key)
        BY <3>1, Zenon
      <3>3. ASSUME NEW i \in 0..(k + 1)
            PROVE  g[i] = IF i = 0 THEN NoCache ELSE CacheRow(g[i - 1], d.rows[i], key)
        <4>1. CASE i = k + 1
          <5>1. i # 0 /\ i - 1 = k /\ k \in 0..(k + 1) /\ k <= k /\ ~(i <= k)
            BY <4>1
          <5>2. g[k] = f[k] /\ g[i] = CacheRow(f[k], d.rows[i], key)
            BY <4>1, <5>1
          <5> HIDE DEF g
          <5> QED BY <5>1, <5>2
        <4>2. CASE i # k + 1 /\ i # 0
          <5>1. i \in 0..k /\ i <= k /\ i - 1 \in 0..(k + 1) /\ i - 1 <= k
            BY <4>2
          <5>2. g[i] = f[i] /\ g[i - 1] = f[i - 1]
            BY <5>1
          <5> HIDE DEF g
          <5> QED BY <3>2, <4>2, <5>1, <5>2
        <4>3. CASE i = 0
          <5>1. 0 \in 0..k /\ 0 <= k
            OBVIOUS
          <5>2. g[0] = f[0]
            BY <5>1
          <5> HIDE DEF g
          <5> QED BY <3>2, <4>3, <5>1, <5>2
        <4> QED BY <4>1, <4>2, <4>3
      <3>4. g = R(g, k + 1)
        <4>1. DOMAIN g = 0..(k + 1) /\ g = [i \in 0..(k + 1) |-> g[i]]
          OBVIOUS
        <4> HIDE DEF g
        <4> QED BY <3>3, <4>1
      <3> HIDE DEF g
      <3>5. \E f1 : f1 = R(f1, k + 1)
        BY <3>4
      <3> QED BY <3>5
    <2>3. 0..n \subseteq S
      BY <2>1, <2>2, CountUp
    <2> QED BY <2>3
  <1>2. F = R(F, n)
    BY <1>1
  <1>3. LoadCache(d, key) = F[n]
    BY Zenon DEF LoadCache
  <1> HIDE DEF F
  <1>4. \A i \in 0..n : F[i] = IF i = 0 THEN NoCache ELSE CacheRow(F[i - 1], d.rows[i], key)
    BY <1>2, Zenon
  <1> DEFINE S == {k \in Nat : BackedBy(F[k].reverse, d.rows, k, key)}
  <1>5. 0 \in S
    <2>1. F[0] = NoCache
      BY <1>4
    <2> QED BY <2>1 DEF NoCache, Empty, BackedBy
  <1>6. ASSUME NEW k \in Nat, k < n, k \in S PROVE k + 1 \in S
    <2>1. k + 1 \in 0..n /\ k + 1 # 0 /\ (k + 1) - 1 = k /\ k + 1 \in 1..(k + 1) /\ k <= k + 1 /\ k + 1 \in Nat
      BY <1>6
    <2>2. F[k + 1] = CacheRow(F[k], d.rows[k + 1], key)
      BY <1>4, <2>1
    <2>3. BackedBy(CacheRow(F[k], d.rows[k + 1], key).reverse, d.rows, k + 1, key)
      BY <1>6, <2>1, CacheRowBacked
    <2> QED BY <2>1, <2>2, <2>3
  <1>7. 0..n \subseteq S
    BY <1>5, <1>6, CountUp
  <1> QED BY <1>3, <1>7

(***************************************************************************)
(* The SQLite vault.                                                       *)
(***************************************************************************)

\* A process that holds its rows' caches steps, and no row is added.
LEMMA RowsStay ==
    ASSUME SharedInv, NEW p \in Processes, NEW r, proc' = [proc EXCEPT ![p] = r], IsProcess(r),
           BackedBy(r.cache.reverse, db.rows, Len(db.rows), r.key),
           NEW c, db' = [rows |-> db.rows, counters |-> c]
    PROVE  SharedInv'
PROOF
  <1>1. db'.rows = db.rows /\ db' = [rows |-> db'.rows, counters |-> db'.counters]
    OBVIOUS
  <1>2. proc = [o \in Processes |-> proc[o]]
    BY DEF SharedInv, Shapes
  <1>3. proc' = [o \in Processes |-> proc'[o]] /\ proc'[p] = r /\ \A o \in Processes : o # p => proc'[o] = proc[o]
    BY <1>2
  <1>4. Shapes'
    <2>1. \A o \in Processes : IsProcess(proc'[o])
      BY <1>3 DEF SharedInv, Shapes
    <2>2. \E T : db'.rows \in Seq(T)
      BY <1>1 DEF SharedInv, Shapes
    <2> QED BY <1>1, <1>3, <2>1, <2>2 DEF Shapes, IsProcess
  <1>5. TokensOnce'
    BY <1>1 DEF SharedInv, TokensOnce
  <1>6. CachesBacked'
    <2> SUFFICES ASSUME NEW o \in Processes PROVE BackedBy(proc'[o].cache.reverse, db'.rows, Len(db'.rows), proc'[o].key)
      BY DEF CachesBacked
    <2>1. BackedBy(proc[o].cache.reverse, db.rows, Len(db.rows), proc[o].key)
      BY DEF SharedInv, CachesBacked
    <2> QED BY <1>1, <1>3, <2>1
  <1> QED BY <1>4, <1>5, <1>6 DEF SharedInv

\* The process a step changes, in the words of RowsStay.
LEMMA ProcessIs ==
    ASSUME SharedInv, NEW p \in Processes
    PROVE  /\ IsProcess(proc[p])
           /\ BackedBy(proc[p].cache.reverse, db.rows, Len(db.rows), proc[p].key)
           /\ db = [rows |-> db.rows, counters |-> db.counters]
           /\ Len(db.rows) \in Nat
           /\ proc = [o \in Processes |-> proc[o]]
BY DEF SharedInv, Shapes, CachesBacked

\* The first statement of get_or_create_for_user writes no row.
LEMMA BumpsPreserves ==
    ASSUME SharedInv, NEW p \in Processes, NEW o, NEW user, Bumps(p, o, user)
    PROVE  SharedInv'
PROOF
  <1> DEFINE me == proc[p]
             c == Put(db.counters, <<PrefixOf[Originals[o]], user>>, CounterOf(db, PrefixOf[Originals[o]], user) + 1)
             r == [me EXCEPT !.pc = "bumped", !.original = o, !.user = user]
  <1>1. IsProcess(me) /\ BackedBy(me.cache.reverse, db.rows, Len(db.rows), me.key)
        /\ db = [rows |-> db.rows, counters |-> db.counters] /\ proc = [q \in Processes |-> proc[q]]
    BY ProcessIs
  <1>2. db' = [rows |-> db.rows, counters |-> c]
    <2>1. db' = [db EXCEPT !.counters = c]
      BY DEF Bumps, BumpCounter
    <2> HIDE DEF c
    <2> QED BY <1>1, <2>1
  <1>3. proc' = [proc EXCEPT ![p] = r]
    BY <1>1 DEF Bumps
  <1>4. IsProcess(r) /\ r.cache = me.cache /\ r.key = me.key
    <2> HIDE DEF me
    <2> QED BY <1>1 DEF IsProcess
  <1> HIDE DEF c, r, me
  <1> QED BY <1>1, <1>2, <1>3, <1>4, RowsStay

\* The second reads the counter, whoever bumped it last.
LEMMA ReadsCounterPreserves ==
    ASSUME SharedInv, NEW p \in Processes, ReadsCounter(p)
    PROVE  SharedInv'
PROOF
  <1> DEFINE me == proc[p]
             prefix == PrefixOf[Originals[me.original]]
             t == UserToken(prefix, me.user, CounterOf(db, prefix, me.user))
             r == [me EXCEPT !.pc = "read", !.token = t]
  <1>1. IsProcess(me) /\ BackedBy(me.cache.reverse, db.rows, Len(db.rows), me.key)
        /\ db = [rows |-> db.rows, counters |-> db.counters] /\ proc = [q \in Processes |-> proc[q]]
    BY ProcessIs
  <1>2. db' = [rows |-> db.rows, counters |-> db.counters]
    BY <1>1 DEF ReadsCounter
  <1>3. proc' = [proc EXCEPT ![p] = r]
    <2>1. proc' = [proc EXCEPT ![p].pc = "read", ![p].token = t]
      BY DEF ReadsCounter
    <2> HIDE DEF t
    <2> QED BY <1>1, <2>1
  <1> HIDE DEF t
  <1>4. IsProcess(r) /\ r.cache = me.cache /\ r.key = me.key
    <2> HIDE DEF me
    <2> QED BY <1>1 DEF IsProcess
  <1> HIDE DEF r, me
  <1> QED BY <1>1, <1>2, <1>3, <1>4, RowsStay

\* A process started again answers from the rows it loads.
LEMMA StartsPreserves ==
    ASSUME SharedInv, NEW p \in Processes, NEW key, Starts(p, key)
    PROVE  SharedInv'
PROOF
  <1> DEFINE r == Started(db, key)
  <1>1. IsProcess(r) /\ r.cache = LoadCache(db, key) /\ r.key = key
    BY DEF Started, IsProcess
  <1>2. BackedBy(r.cache.reverse, db.rows, Len(db.rows), r.key)
    BY <1>1, ProcessIs, LoadCacheBacked
  <1>3. db' = [rows |-> db.rows, counters |-> db.counters] /\ proc' = [proc EXCEPT ![p] = r]
    BY ProcessIs DEF Starts
  <1> HIDE DEF r
  <1> QED BY <1>1, <1>2, <1>3, RowsStay

\* A row is added only when no row has its token: no cache of another
\* process is contradicted, and the writer's own is extended by that row.
LEMMA InsertsPreserves ==
    ASSUME SharedInv, NEW p \in Processes, Inserts(p)
    PROVE  SharedInv'
PROOF
  <1> DEFINE me == proc[p]
             n == Len(db.rows)
             row == [original |-> me.original, token |-> me.token, user |-> me.user, key |-> me.key]
             seen == [original |-> me.original, token |-> me.token, key |-> me.key]
  <1>1. IsProcess(me) /\ BackedBy(me.cache.reverse, db.rows, n, me.key) /\ n \in Nat
        /\ db = [rows |-> db.rows, counters |-> db.counters] /\ proc = [q \in Processes |-> proc[q]]
    BY ProcessIs
  <1>2. CASE TokenTaken(db, me.token)
    <2> DEFINE r == [me EXCEPT !.pc = "panicked"]
    <2>1. db' = [rows |-> db.rows, counters |-> db.counters]
      BY <1>1, <1>2 DEF Inserts
    <2>2. proc' = [proc EXCEPT ![p] = r]
      BY <1>1, <1>2 DEF Inserts
    <2>3. IsProcess(r) /\ r.cache = me.cache /\ r.key = me.key
      <3> HIDE DEF me
      <3> QED BY <1>1 DEF IsProcess
    <2> HIDE DEF r, me
    <2> QED BY <1>1, <2>1, <2>2, <2>3, RowsStay
  <1>3. CASE ~TokenTaken(db, me.token)
    <2> DEFINE cache == CacheRow(me.cache, seen, me.key)
               r == [me EXCEPT !.pc = "idle", !.user = "", !.original = NoMatch, !.token = NoMatch, !.cache = cache]
    <2>1. db' = [rows |-> Append(db.rows, row), counters |-> db.counters]
      <3>1. db' = [db EXCEPT !.rows = Append(@, row)]
        BY <1>3 DEF Inserts, InsertMapping
      <3> HIDE DEF row
      <3> QED BY <1>1, <3>1
    <2>2. proc' = [proc EXCEPT ![p] = r]
      BY <1>3 DEF Inserts
    <2>3. proc' = [o \in Processes |-> proc'[o]] /\ proc'[p] = r /\ \A o \in Processes : o # p => proc'[o] = proc[o]
      <3> HIDE DEF r
      <3> QED BY <1>1, <2>2
    <2>4. IsProcess(r) /\ r.cache = cache /\ r.key = me.key
      <3> HIDE DEF me, cache
      <3> QED BY <1>1 DEF IsProcess
    <2>5. PICK T : db.rows \in Seq(T)
      BY DEF SharedInv, Shapes
    <2> DEFINE U == T \cup {row}
    <2>6. db.rows \in Seq(U) /\ row \in U
      BY <2>5
    <2> HIDE DEF U
    <2>7. /\ db'.rows \in Seq(U) /\ Len(db'.rows) = n + 1 /\ DOMAIN db'.rows = 1..(n + 1)
          /\ \A i \in 1..n : db'.rows[i] = db.rows[i]
          /\ db'.rows[n + 1] = row
      <3>1. db'.rows = Append(db.rows, row)
        BY <2>1
      <3> HIDE DEF row
      <3> QED BY <1>1, <2>6, <3>1
    <2>8. DOMAIN db.rows = 1..n
      BY <2>5
    <2>9. Shapes'
      <3>1. \A o \in Processes : IsProcess(proc'[o])
        BY <2>3, <2>4 DEF SharedInv, Shapes
      <3>2. db' = [rows |-> db'.rows, counters |-> db'.counters]
        BY <2>1
      <3> QED BY <2>3, <2>7, <3>1, <3>2 DEF Shapes, IsProcess
    <2>10. TokensOnce'
      <3>1. \A i \in 1..n : db.rows[i].token # me.token
        BY <1>3, <2>8 DEF TokenTaken
      <3>2. row.token = me.token
        OBVIOUS
      <3>3. \A i, j \in 1..n : db.rows[i].token = db.rows[j].token => i = j
        BY <2>8 DEF SharedInv, TokensOnce
      <3>4. \A i \in 1..(n + 1) : i \in 1..n \/ i = n + 1
        BY <1>1
      <3> HIDE DEF row, me, n
      <3> QED BY <2>7, <3>1, <3>2, <3>3, <3>4 DEF TokensOnce
    <2>11. CachesBacked'
      <3>1. ASSUME NEW o \in Processes, o # p
            PROVE  BackedBy(proc'[o].cache.reverse, db'.rows, n + 1, proc'[o].key)
        <4>1. proc'[o] = proc[o] /\ BackedBy(proc[o].cache.reverse, db.rows, n, proc[o].key)
          BY <2>3, <3>1 DEF SharedInv, CachesBacked
        <4>2. \A i \in 1..n : i \in 1..(n + 1)
          BY <1>1
        <4> QED BY <2>7, <4>1, <4>2 DEF BackedBy
      <3>2. BackedBy(cache.reverse, db'.rows, n + 1, me.key)
        <4>1. CacheRow(me.cache, seen, me.key) = CacheRow(me.cache, row, me.key)
          BY DEF CacheRow
        <4>2. BackedBy(me.cache.reverse, db'.rows, n, me.key)
          BY <1>1, <2>7 DEF BackedBy
        <4>3. BackedBy(CacheRow(me.cache, db'.rows[n + 1], me.key).reverse, db'.rows, n + 1, me.key)
          <5>1. n + 1 \in Nat /\ n <= n + 1 /\ n + 1 \in 1..(n + 1)
            BY <1>1
          <5> QED BY <1>1, <4>2, <5>1, CacheRowBacked
        <4> QED BY <2>7, <4>1, <4>3
      <3>3. BackedBy(proc'[p].cache.reverse, db'.rows, n + 1, proc'[p].key)
        BY <2>3, <2>4, <3>2
      <3>4. \A o \in Processes : BackedBy(proc'[o].cache.reverse, db'.rows, Len(db'.rows), proc'[o].key)
        BY <2>7, <3>1, <3>3
      <3> QED BY <3>4 DEF CachesBacked
    <2> QED BY <2>9, <2>10, <2>11 DEF SharedInv
  <1> QED BY <1>2, <1>3

(***************************************************************************)
(* The file vault.                                                         *)
(***************************************************************************)

\* VaultInverse and LibBooked, of any vault.
Sound(v) ==
    /\ \A t \in DOMAIN v.reverse : v.reverse[t] \in DOMAIN v.forward /\ v.forward[v.reverse[t]].token = t
    /\ \A o \in DOMAIN v.forward : v.forward[o].token \in DOMAIN v.reverse
    /\ v = [forward |-> v.forward, reverse |-> v.reverse, counters |-> v.counters]
    /\ Books(v.forward, v.counters)

\* It is the invariant, of the vault in memory.
LEMMA SoundIsInv == VaultInverse /\ LibBooked <=> Sound(lib)
BY DEF VaultInverse, LibBooked, Sound, Numbers, Books

\* The vault of a first start.
LEMMA EmptySound == Sound(EmptyVault)
BY DEF Sound, EmptyVault, Empty, Books

\* load: whichever of the originals that share a token is read last, the
\* token looks up one of them.
LEMMA LoadedSound ==
    ASSUME NEW f, Books(f.forward, f.counters), NEW v \in Loaded(f)
    PROVE  Sound(v)
PROOF
  <1> DEFINE tokens == {f.forward[o].token : o \in DOMAIN f.forward}
  <1>1. PICK r \in [tokens -> DOMAIN f.forward] :
           /\ \A t \in tokens : r[t] \in {o \in DOMAIN f.forward : f.forward[o].token = t}
           /\ v = [forward |-> f.forward, reverse |-> r, counters |-> f.counters]
    BY DEF Loaded
  <1>2. v.forward = f.forward /\ v.reverse = r /\ v.counters = f.counters
        /\ v = [forward |-> v.forward, reverse |-> v.reverse, counters |-> v.counters]
    BY <1>1
  <1>3. DOMAIN r = tokens
    OBVIOUS
  <1>4. \A o \in DOMAIN f.forward : f.forward[o].token \in tokens
    OBVIOUS
  <1> HIDE DEF tokens
  <1> QED BY <1>1, <1>2, <1>3, <1>4 DEF Sound

\* get_or_create: an original known already, a variant of one that is, or
\* the next number of its prefix.
LEMMA CreateSound ==
    ASSUME NEW v, Sound(v), NEW canonical, NEW original, NEW category
    PROVE  Sound(GetOrCreate(v, canonical, original, category).vault)
PROOF
  <1> DEFINE prefix == PrefixOf[category]
             n == (IF prefix \in DOMAIN v.counters THEN v.counters[prefix] ELSE 0) + 1
             token == [token |-> Spell(prefix, n), category |-> category, id |-> n]
             w == GetOrCreate(v, canonical, original, category).vault
  <1>1. CASE original \in DOMAIN v.forward
    <2>1. w = v
      BY <1>1 DEF GetOrCreate
    <2> QED BY <2>1
  <1>2. CASE original \notin DOMAIN v.forward /\ canonical \in DOMAIN v.forward
    <2> DEFINE g == Put(v.forward, original, v.forward[canonical])
    <2>1. w = [v EXCEPT !.forward = g]
      BY <1>2 DEF GetOrCreate
    <2>2. /\ DOMAIN g = DOMAIN v.forward \cup {original}
          /\ g[original] = v.forward[canonical]
          /\ \A x \in DOMAIN v.forward : g[x] = v.forward[x]
      BY <1>2 DEF Put
    <2> HIDE DEF g, w
    <2>3. w = [forward |-> g, reverse |-> v.reverse, counters |-> v.counters]
      BY <2>1 DEF Sound
    <2>4. w.forward = g /\ w.reverse = v.reverse /\ w.counters = v.counters
          /\ w = [forward |-> w.forward, reverse |-> w.reverse, counters |-> w.counters]
      BY <2>3
    <2>5. Books(g, v.counters)
      <3>1. \A o \in DOMAIN g : PrefixOf[g[o].category] \in DOMAIN v.counters
        BY <1>2, <2>2 DEF Sound, Books
      <3>2. ASSUME NEW pre \in DOMAIN v.counters
            PROVE  {g[o].id : o \in {p \in DOMAIN g : PrefixOf[g[p].category] = pre}}
                   = {v.forward[o].id : o \in {p \in DOMAIN v.forward : PrefixOf[v.forward[p].category] = pre}}
        BY <1>2, <2>2
      <3> QED BY <3>1, <3>2 DEF Sound, Books
    <2>6. /\ \A t \in DOMAIN v.reverse : v.reverse[t] \in DOMAIN g /\ g[v.reverse[t]].token = t
          /\ \A o \in DOMAIN g : g[o].token \in DOMAIN v.reverse
      BY <1>2, <2>2 DEF Sound
    <2> QED BY <2>4, <2>5, <2>6 DEF Sound, w
  <1>3. CASE original \notin DOMAIN v.forward /\ canonical \notin DOMAIN v.forward
    <2> DEFINE g == Put(v.forward, original, token)
               r == Put(v.reverse, token.token, original)
               c == Put(v.counters, prefix, n)
    <2>1. w = [forward |-> g, reverse |-> r, counters |-> c]
      BY <1>3 DEF GetOrCreate
    <2>2. token.category = category /\ token.id = n
      OBVIOUS
    <2>3. n \in Nat /\ n # 0 /\ (prefix \in DOMAIN v.counters => v.counters[prefix] \in Nat /\ n = v.counters[prefix] + 1)
          /\ (prefix \notin DOMAIN v.counters => n = 1)
      BY DEF Sound, Books
    <2> HIDE DEF token, n
    <2>4. /\ DOMAIN g = DOMAIN v.forward \cup {original}
          /\ g[original] = token
          /\ \A x \in DOMAIN v.forward : g[x] = v.forward[x]
      BY <1>3 DEF Put
    <2>5. /\ DOMAIN r = DOMAIN v.reverse \cup {token.token}
          /\ r[token.token] = original
          /\ \A x \in DOMAIN v.reverse : x # token.token => r[x] = v.reverse[x]
      BY DEF Put
    <2>6. /\ DOMAIN c = DOMAIN v.counters \cup {prefix}
          /\ c[prefix] = n
          /\ \A x \in DOMAIN v.counters : x # prefix => c[x] = v.counters[x]
      BY DEF Put
    <2> HIDE DEF g, r, c, w
    <2>7. w.forward = g /\ w.reverse = r /\ w.counters = c
          /\ w = [forward |-> w.forward, reverse |-> w.reverse, counters |-> w.counters]
      BY <2>1
    <2>8. /\ \A t \in DOMAIN r : r[t] \in DOMAIN g /\ g[r[t]].token = t
          /\ \A o \in DOMAIN g : g[o].token \in DOMAIN r
      BY <1>3, <2>4, <2>5 DEF Sound
    <2> DEFINE Old(pre) == {v.forward[o].id : o \in {p \in DOMAIN v.forward : PrefixOf[v.forward[p].category] = pre}}
               New(pre) == {g[o].id : o \in {p \in DOMAIN g : PrefixOf[g[p].category] = pre}}
    <2>9. \A o \in DOMAIN g : PrefixOf[g[o].category] \in DOMAIN c
      BY <1>3, <2>2, <2>4, <2>6 DEF Sound, Books
    <2>10. ASSUME NEW pre \in DOMAIN c, pre # prefix
           PROVE  c[pre] \in Nat /\ New(pre) = 1..c[pre]
      <3>1. pre \in DOMAIN v.counters /\ c[pre] = v.counters[pre]
        BY <2>6, <2>10
      <3>2. New(pre) = Old(pre)
        BY <1>3, <2>2, <2>4, <2>10
      <3> QED BY <3>1, <3>2 DEF Sound, Books
    <2>11. New(prefix) = 1..n
      <3>1. New(prefix) = Old(prefix) \cup {n}
        BY <1>3, <2>2, <2>4
      <3>2. Old(prefix) = 1..(n - 1)
        <4>1. CASE prefix \in DOMAIN v.counters
          <5>1. Old(prefix) = 1..v.counters[prefix]
            BY <4>1 DEF Sound, Books
          <5>2. v.counters[prefix] = n - 1
            BY <2>3, <4>1
          <5> QED BY <5>1, <5>2
        <4>2. CASE prefix \notin DOMAIN v.counters
          <5>1. Old(prefix) = {}
            BY <4>2 DEF Sound, Books
          <5>2. 1..(n - 1) = {}
            BY <2>3, <4>2
          <5> QED BY <5>1, <5>2
        <4> QED BY <4>1, <4>2
      <3>3. (1..(n - 1)) \cup {n} = 1..n
        BY <2>3
      <3> QED BY <3>1, <3>2, <3>3
    <2>12. Books(g, c)
      <3>1. \A pre \in DOMAIN c : c[pre] \in Nat /\ New(pre) = 1..c[pre]
        BY <2>3, <2>6, <2>10, <2>11
      <3> QED BY <2>9, <3>1 DEF Books
    <2> QED BY <2>7, <2>8, <2>12 DEF Sound, w
  <1> QED BY <1>1, <1>2, <1>3

(***************************************************************************)
(* The steps together.                                                     *)
(***************************************************************************)

\* Creating, saving and opening again.
LEMMA LibraryPreserves == LibraryInv /\ LibraryNext => LibraryInv'
PROOF
  <1> SUFFICES ASSUME LibraryInv, LibraryNext PROVE LibraryInv'
    OBVIOUS
  <1>0. Sound(lib) /\ FileBooked
    BY SoundIsInv DEF LibraryInv
  <1>1. ASSUME NEW o \in DOMAIN Originals, Creates(o)
        PROVE  Sound(lib)' /\ FileBooked'
    <2>1. PICK canonical \in Resolve(lib, o, Originals[o]) : lib' = GetOrCreate(lib, canonical, o, Originals[o]).vault
      BY <1>1 DEF Creates
    <2>2. Sound(lib')
      BY <1>0, <2>1, CreateSound
    <2>3. file' = file
      BY <1>1 DEF Creates
    <2> QED BY <1>0, <2>2, <2>3 DEF FileBooked, Sound, Books
  <1>2. ASSUME Saves
        PROVE  Sound(lib)' /\ FileBooked'
    <2>1. lib' = lib /\ file'.forward = lib.forward /\ file'.counters = lib.counters
      BY <1>2 DEF Saves, Saved
    <2> QED BY <1>0, <2>1 DEF FileBooked, Sound, Books
  <1>3. ASSUME NEW key, Reopens(key)
        PROVE  Sound(lib)' /\ FileBooked'
    <2>1. lib' \in Opened(file, key) /\ file' = file
      BY <1>3 DEF Reopens
    <2>2. CASE file.key = "none"
      <3>1. lib' = EmptyVault
        BY <2>1, <2>2 DEF Opened
      <3> QED BY <1>0, <2>1, <3>1, EmptySound DEF FileBooked, Sound, Books
    <2>3. CASE file.key # "none"
      <3>1. lib' \in Loaded(file) /\ Books(file.forward, file.counters)
        BY <1>0, <2>1, <2>3 DEF Opened, FileBooked
      <3>2. Sound(lib')
        BY <3>1, LoadedSound
      <3> QED BY <1>0, <2>1, <3>2 DEF FileBooked, Sound, Books
    <2> QED BY <2>2, <2>3
  <1>4. Sound(lib)' /\ FileBooked'
    BY <1>1, <1>2, <1>3 DEF LibraryNext
  <1> QED BY <1>4, SoundIsInv, PTL DEF LibraryInv

\* The statements of the processes, and their starts.
LEMMA SharedPreserves == SharedInv /\ SharedNext => SharedInv'
BY BumpsPreserves, ReadsCounterPreserves, InsertsPreserves, StartsPreserves DEF SharedNext

\* Nothing written: an empty vault, an empty database, empty caches.
LEMMA StoresInitInv == StoresInit => LibraryInv /\ SharedInv
PROOF
  <1> SUFFICES ASSUME StoresInit PROVE LibraryInv /\ SharedInv
    OBVIOUS
  <1>1. LibraryInv
    <2>1. Sound(lib) /\ FileBooked
      BY EmptySound DEF StoresInit, FileBooked, NoFile
    <2> QED BY <2>1, SoundIsInv DEF LibraryInv
  <1>2. db.rows = <<>> /\ Len(db.rows) = 0 /\ DOMAIN db.rows = {} /\ db = [rows |-> db.rows, counters |-> db.counters]
    BY DEF StoresInit, EmptyDatabase
  <1>3. db.rows \in Seq({})
    BY <1>2
  <1>4. proc = [p \in Processes |-> proc[p]] /\ \A p \in Processes : \E key \in Keys : proc[p] = Started(db, key)
    BY DEF StoresInit
  <1>5. ASSUME NEW p \in Processes
        PROVE  IsProcess(proc[p]) /\ BackedBy(proc[p].cache.reverse, db.rows, Len(db.rows), proc[p].key)
    <2>1. PICK key \in Keys : proc[p] = Started(db, key)
      BY <1>4
    <2>2. IsProcess(Started(db, key)) /\ Started(db, key).cache = LoadCache(db, key) /\ Started(db, key).key = key
      BY DEF Started, IsProcess
    <2> QED BY <1>2, <2>1, <2>2, LoadCacheBacked
  <1>6. SharedInv
    BY <1>2, <1>3, <1>4, <1>5 DEF SharedInv, Shapes, TokensOnce, CachesBacked
  <1> QED BY <1>1, <1>6

\* The library's steps leave the database alone, and the other way round.
LEMMA StoresStep == LibraryInv /\ SharedInv /\ [LibraryNext \/ SharedNext]_storeVars => LibraryInv' /\ SharedInv'
PROOF
  <1> SUFFICES ASSUME LibraryInv, SharedInv, [LibraryNext \/ SharedNext]_storeVars PROVE LibraryInv' /\ SharedInv'
    OBVIOUS
  <1>1. ASSUME UNCHANGED <<lib, file>> PROVE LibraryInv'
    BY <1>1 DEF LibraryInv, VaultInverse, LibBooked, FileBooked, Numbers, Books
  <1>2. ASSUME UNCHANGED <<db, proc>> PROVE SharedInv'
    BY <1>2 DEF SharedInv, Shapes, TokensOnce, CachesBacked, IsProcess, BackedBy, Shown
  <1>3. CASE LibraryNext
    <2>1. UNCHANGED <<db, proc>>
      BY <1>3 DEF LibraryNext, Creates, Saves, Reopens
    <2> QED BY <1>2, <1>3, <2>1, LibraryPreserves
  <1>4. CASE SharedNext
    <2>1. UNCHANGED <<lib, file>>
      BY <1>4 DEF SharedNext, Bumps, ReadsCounter, Inserts, Starts
    <2> QED BY <1>1, <1>4, <2>1, SharedPreserves
  <1>5. CASE UNCHANGED storeVars
    BY <1>1, <1>2, <1>5 DEF storeVars
  <1> QED BY <1>3, <1>4, <1>5

\* A cache backed by rows with different tokens contradicts none of them.
LEMMA InvAgrees == LibraryInv /\ SharedInv => StoresInv
PROOF
  <1> SUFFICES ASSUME LibraryInv, SharedInv PROVE CachesAgree
    BY DEF StoresInv, LibraryInv
  <1> SUFFICES ASSUME NEW p \in Processes, NEW t \in DOMAIN proc[p].cache.reverse,
                      NEW i \in DOMAIN db.rows, db.rows[i].token = t
               PROVE  proc[p].cache.reverse[t] = IF db.rows[i].key = proc[p].key THEN db.rows[i].original ELSE Undecryptable
    BY DEF CachesAgree
  <1>1. PICK j \in 1..Len(db.rows) : db.rows[j].token = t /\ proc[p].cache.reverse[t] = Shown(db.rows[j], proc[p].key)
    BY DEF SharedInv, CachesBacked, BackedBy
  <1>2. DOMAIN db.rows = 1..Len(db.rows)
    BY DEF SharedInv, Shapes
  <1>3. j = i
    BY <1>1, <1>2 DEF SharedInv, TokensOnce
  <1> QED BY <1>1, <1>3 DEF Shown

(***************************************************************************)
(* The theorem.                                                            *)
(***************************************************************************)

\* Whatever is created, resolved to a variant, saved and loaded, and however
\* the statements of any number of processes interleave, a token keeps its
\* one meaning, and a prefix gives no number twice.
THEOREM TokensKeepTheirMeaning == StoresSpec => []StoresInv
BY StoresInitInv, StoresStep, InvAgrees, PTL DEF StoresSpec

(***************************************************************************)
(* The processes that mask with one vault: the folds the model is written  *)
(* with, position by position.                                             *)
(***************************************************************************)
\* The greatest of some numbers up to k + 1 is k + 1 if it is one of them.
LEMMA TopOf ==
    ASSUME NEW k \in Nat, NEW s \in SUBSET (1..(k + 1)), k + 1 \in s
    PROVE  Max(s) = k + 1
PROOF
  <1>1. \A y \in s : k + 1 >= y
    OBVIOUS
  <1>2. ASSUME NEW x \in s, \A y \in s : x >= y PROVE x = k + 1
    BY <1>2
  <1> QED BY <1>1, <1>2 DEF Max

\* deduplicate_spans, span by span.
LEMMA KeepsRecursion ==
    ASSUME NEW es, NEW n \in Nat, DOMAIN es = 1..n
    PROVE  \E g : /\ g[0] = <<>>
                  /\ \A i \in 1..n : g[i] = KeepSpan(g[i - 1], es[i])
                  /\ DeduplicateSpans(es) = g[n]
PROOF
  <1> DEFINE Op(u, i) == KeepSpan(u, es[i])
             base == <<>>
             R(f, m) == [s \in SUBSET (1..m) |-> IF s = {} THEN base ELSE Op(f[s \ {Max(s)}], Max(s))]
             F == CHOOSE f : f = R(f, n)
  <1>0. DeduplicateSpans(es) = F[1..n]
    BY Zenon DEF DeduplicateSpans, FoldLeft, MapThenFoldSet
  <1> HIDE DEF Op, base
  <1>1. \E f : f = R(f, n)
    <2> DEFINE S == {m \in Nat : \E f : f = R(f, m)}
    <2>1. 0 \in S
      <3> DEFINE f == [s \in SUBSET (1..0) |-> base]
      <3>1. \A s \in SUBSET (1..0) : s = {}
        OBVIOUS
      <3>2. f = R(f, 0)
        BY <3>1
      <3> QED BY <3>2
    <2>2. ASSUME NEW k \in Nat, k < n, k \in S PROVE k + 1 \in S
      <3>1. PICK f : f = R(f, k)
        BY <2>2
      <3> DEFINE g == [s \in SUBSET (1..(k + 1)) |-> IF k + 1 \in s THEN Op(f[s \ {k + 1}], k + 1) ELSE f[s]]
      <3>2. \A s \in SUBSET (1..k) : f[s] = IF s = {} THEN base ELSE Op(f[s \ {Max(s)}], Max(s))
        BY <3>1, Zenon
      <3>3. ASSUME NEW s \in SUBSET (1..(k + 1))
            PROVE  g[s] = IF s = {} THEN base ELSE Op(g[s \ {Max(s)}], Max(s))
        <4>1. CASE k + 1 \in s
          <5>1. Max(s) = k + 1 /\ s # {}
            BY <4>1, TopOf
          <5>2. s \ {k + 1} \in SUBSET (1..(k + 1)) /\ k + 1 \notin s \ {k + 1}
            OBVIOUS
          <5>3. g[s] = Op(f[s \ {k + 1}], k + 1) /\ g[s \ {k + 1}] = f[s \ {k + 1}]
            BY <4>1, <5>2
          <5> HIDE DEF g
          <5> QED BY <5>1, <5>3
        <4>2. CASE k + 1 \notin s
          <5>0. \A y \in s : y \in 1..k
            BY <4>2
          <5>1. s \in SUBSET (1..k) /\ \A x : s \ {x} \in SUBSET (1..(k + 1)) /\ k + 1 \notin s \ {x}
            BY <4>2, <5>0, Zenon
          <5>2. g[s] = f[s] /\ \A x : g[s \ {x}] = f[s \ {x}]
            BY <4>2, <5>1
          <5> HIDE DEF g
          <5> QED BY <3>2, <5>1, <5>2
        <4> QED BY <4>1, <4>2
      <3>4. g = R(g, k + 1)
        <4>1. g = [s \in SUBSET (1..(k + 1)) |-> g[s]]
          OBVIOUS
        <4> HIDE DEF g
        <4> QED BY <3>3, <4>1
      <3> HIDE DEF g
      <3>5. \E f1 : f1 = R(f1, k + 1)
        BY <3>4
      <3>6. k + 1 \in Nat
        OBVIOUS
      <3> QED BY <3>5, <3>6, Zenon
    <2>3. 0..n \subseteq S
      BY <2>1, <2>2, CountUp
    <2>4. n \in 0..n
      OBVIOUS
    <2> QED BY <2>3, <2>4, Zenon
  <1>2. F = R(F, n)
    BY <1>1
  <1> HIDE DEF F
  <1>3. \A s \in SUBSET (1..n) : F[s] = IF s = {} THEN base ELSE Op(F[s \ {Max(s)}], Max(s))
    BY <1>2, Zenon
  <1> DEFINE g == [i \in 0..n |-> F[1..i]]
  <1>4. g[0] = base /\ g[n] = F[1..n]
    <2>1. 1..0 = {} /\ {} \in SUBSET (1..n) /\ 0 \in 0..n /\ n \in 0..n
      OBVIOUS
    <2>2. F[{}] = base
      BY <1>3, <2>1, Zenon
    <2> QED BY <2>1, <2>2
  <1>5. ASSUME NEW i \in 1..n PROVE g[i] = Op(g[i - 1], i)
    <2>1. 1..i \in SUBSET (1..n) /\ 1..i # {} /\ Max(1..i) = i /\ (1..i) \ {i} = 1..(i - 1)
      <3>1. i - 1 \in Nat /\ i = (i - 1) + 1 /\ i \in 1..i
        OBVIOUS
      <3>2. 1..i \in SUBSET (1..((i - 1) + 1)) /\ (i - 1) + 1 \in 1..i
        BY <3>1
      <3>3. Max(1..i) = (i - 1) + 1
        BY <3>1, <3>2, TopOf
      <3>4. \A y : y \in (1..i) \ {i} <=> y \in 1..(i - 1)
        OBVIOUS
      <3>5. 1..i \in SUBSET (1..n) /\ 1..i # {}
        BY <3>1
      <3> QED BY <3>1, <3>3, <3>4, <3>5
    <2>2. F[1..i] = Op(F[1..(i - 1)], i)
      BY <1>3, <2>1
    <2> QED BY <2>2
  <1> HIDE DEF g
  <1> QED BY <1>0, <1>4, <1>5 DEF Op, base

\* The coreferences of a message, one by one.
LEMMA AddsRecursion ==
    ASSUME NEW es, NEW n \in Nat, DOMAIN es = 1..n,
           NEW found
    PROVE  \E g : /\ g[0] = [entities |-> found, resolved |-> Empty]
                  /\ \A i \in 1..n : g[i] = AddCoreference(g[i - 1], es[i])
                  /\ AddCoreferences(found, es) = g[n]
PROOF
  <1> DEFINE Op(u, i) == AddCoreference(u, es[i])
             base == [entities |-> found, resolved |-> Empty]
             R(f, m) == [s \in SUBSET (1..m) |-> IF s = {} THEN base ELSE Op(f[s \ {Max(s)}], Max(s))]
             F == CHOOSE f : f = R(f, n)
  <1>0. AddCoreferences(found, es) = F[1..n]
    BY Zenon DEF AddCoreferences, FoldLeft, MapThenFoldSet
  <1> HIDE DEF Op, base
  <1>1. \E f : f = R(f, n)
    <2> DEFINE S == {m \in Nat : \E f : f = R(f, m)}
    <2>1. 0 \in S
      <3> DEFINE f == [s \in SUBSET (1..0) |-> base]
      <3>1. \A s \in SUBSET (1..0) : s = {}
        OBVIOUS
      <3>2. f = R(f, 0)
        BY <3>1
      <3> QED BY <3>2
    <2>2. ASSUME NEW k \in Nat, k < n, k \in S PROVE k + 1 \in S
      <3>1. PICK f : f = R(f, k)
        BY <2>2
      <3> DEFINE g == [s \in SUBSET (1..(k + 1)) |-> IF k + 1 \in s THEN Op(f[s \ {k + 1}], k + 1) ELSE f[s]]
      <3>2. \A s \in SUBSET (1..k) : f[s] = IF s = {} THEN base ELSE Op(f[s \ {Max(s)}], Max(s))
        BY <3>1, Zenon
      <3>3. ASSUME NEW s \in SUBSET (1..(k + 1))
            PROVE  g[s] = IF s = {} THEN base ELSE Op(g[s \ {Max(s)}], Max(s))
        <4>1. CASE k + 1 \in s
          <5>1. Max(s) = k + 1 /\ s # {}
            BY <4>1, TopOf
          <5>2. s \ {k + 1} \in SUBSET (1..(k + 1)) /\ k + 1 \notin s \ {k + 1}
            OBVIOUS
          <5>3. g[s] = Op(f[s \ {k + 1}], k + 1) /\ g[s \ {k + 1}] = f[s \ {k + 1}]
            BY <4>1, <5>2
          <5> HIDE DEF g
          <5> QED BY <5>1, <5>3
        <4>2. CASE k + 1 \notin s
          <5>0. \A y \in s : y \in 1..k
            BY <4>2
          <5>1. s \in SUBSET (1..k) /\ \A x : s \ {x} \in SUBSET (1..(k + 1)) /\ k + 1 \notin s \ {x}
            BY <4>2, <5>0, Zenon
          <5>2. g[s] = f[s] /\ \A x : g[s \ {x}] = f[s \ {x}]
            BY <4>2, <5>1
          <5> HIDE DEF g
          <5> QED BY <3>2, <5>1, <5>2
        <4> QED BY <4>1, <4>2
      <3>4. g = R(g, k + 1)
        <4>1. g = [s \in SUBSET (1..(k + 1)) |-> g[s]]
          OBVIOUS
        <4> HIDE DEF g
        <4> QED BY <3>3, <4>1
      <3> HIDE DEF g
      <3>5. \E f1 : f1 = R(f1, k + 1)
        BY <3>4
      <3>6. k + 1 \in Nat
        OBVIOUS
      <3> QED BY <3>5, <3>6, Zenon
    <2>3. 0..n \subseteq S
      BY <2>1, <2>2, CountUp
    <2>4. n \in 0..n
      OBVIOUS
    <2> QED BY <2>3, <2>4, Zenon
  <1>2. F = R(F, n)
    BY <1>1
  <1> HIDE DEF F
  <1>3. \A s \in SUBSET (1..n) : F[s] = IF s = {} THEN base ELSE Op(F[s \ {Max(s)}], Max(s))
    BY <1>2, Zenon
  <1> DEFINE g == [i \in 0..n |-> F[1..i]]
  <1>4. g[0] = base /\ g[n] = F[1..n]
    <2>1. 1..0 = {} /\ {} \in SUBSET (1..n) /\ 0 \in 0..n /\ n \in 0..n
      OBVIOUS
    <2>2. F[{}] = base
      BY <1>3, <2>1, Zenon
    <2> QED BY <2>1, <2>2
  <1>5. ASSUME NEW i \in 1..n PROVE g[i] = Op(g[i - 1], i)
    <2>1. 1..i \in SUBSET (1..n) /\ 1..i # {} /\ Max(1..i) = i /\ (1..i) \ {i} = 1..(i - 1)
      <3>1. i - 1 \in Nat /\ i = (i - 1) + 1 /\ i \in 1..i
        OBVIOUS
      <3>2. 1..i \in SUBSET (1..((i - 1) + 1)) /\ (i - 1) + 1 \in 1..i
        BY <3>1
      <3>3. Max(1..i) = (i - 1) + 1
        BY <3>1, <3>2, TopOf
      <3>4. \A y : y \in (1..i) \ {i} <=> y \in 1..(i - 1)
        OBVIOUS
      <3>5. 1..i \in SUBSET (1..n) /\ 1..i # {}
        BY <3>1
      <3> QED BY <3>1, <3>3, <3>4, <3>5
    <2>2. F[1..i] = Op(F[1..(i - 1)], i)
      BY <1>3, <2>1
    <2> QED BY <2>2
  <1> HIDE DEF g
  <1> QED BY <1>0, <1>4, <1>5 DEF Op, base

\* mask_value, string by string.
LEMMA MasksRecursion ==
    ASSUME NEW es, NEW n \in Nat, DOMAIN es = 1..n,
           NEW start
    PROVE  \E g : /\ g[0] = start
                  /\ \A i \in 1..n : g[i] = MaskString(g[i - 1], es[i])
                  /\ MaskStrings(start, es) = g[n]
PROOF
  <1> DEFINE Op(u, i) == MaskString(u, es[i])
             base == start
             R(f, m) == [s \in SUBSET (1..m) |-> IF s = {} THEN base ELSE Op(f[s \ {Max(s)}], Max(s))]
             F == CHOOSE f : f = R(f, n)
  <1>0. MaskStrings(start, es) = F[1..n]
    BY Zenon DEF MaskStrings, FoldLeft, MapThenFoldSet
  <1> HIDE DEF Op, base
  <1>1. \E f : f = R(f, n)
    <2> DEFINE S == {m \in Nat : \E f : f = R(f, m)}
    <2>1. 0 \in S
      <3> DEFINE f == [s \in SUBSET (1..0) |-> base]
      <3>1. \A s \in SUBSET (1..0) : s = {}
        OBVIOUS
      <3>2. f = R(f, 0)
        BY <3>1
      <3> QED BY <3>2
    <2>2. ASSUME NEW k \in Nat, k < n, k \in S PROVE k + 1 \in S
      <3>1. PICK f : f = R(f, k)
        BY <2>2
      <3> DEFINE g == [s \in SUBSET (1..(k + 1)) |-> IF k + 1 \in s THEN Op(f[s \ {k + 1}], k + 1) ELSE f[s]]
      <3>2. \A s \in SUBSET (1..k) : f[s] = IF s = {} THEN base ELSE Op(f[s \ {Max(s)}], Max(s))
        BY <3>1, Zenon
      <3>3. ASSUME NEW s \in SUBSET (1..(k + 1))
            PROVE  g[s] = IF s = {} THEN base ELSE Op(g[s \ {Max(s)}], Max(s))
        <4>1. CASE k + 1 \in s
          <5>1. Max(s) = k + 1 /\ s # {}
            BY <4>1, TopOf
          <5>2. s \ {k + 1} \in SUBSET (1..(k + 1)) /\ k + 1 \notin s \ {k + 1}
            OBVIOUS
          <5>3. g[s] = Op(f[s \ {k + 1}], k + 1) /\ g[s \ {k + 1}] = f[s \ {k + 1}]
            BY <4>1, <5>2
          <5> HIDE DEF g
          <5> QED BY <5>1, <5>3
        <4>2. CASE k + 1 \notin s
          <5>0. \A y \in s : y \in 1..k
            BY <4>2
          <5>1. s \in SUBSET (1..k) /\ \A x : s \ {x} \in SUBSET (1..(k + 1)) /\ k + 1 \notin s \ {x}
            BY <4>2, <5>0, Zenon
          <5>2. g[s] = f[s] /\ \A x : g[s \ {x}] = f[s \ {x}]
            BY <4>2, <5>1
          <5> HIDE DEF g
          <5> QED BY <3>2, <5>1, <5>2
        <4> QED BY <4>1, <4>2
      <3>4. g = R(g, k + 1)
        <4>1. g = [s \in SUBSET (1..(k + 1)) |-> g[s]]
          OBVIOUS
        <4> HIDE DEF g
        <4> QED BY <3>3, <4>1
      <3> HIDE DEF g
      <3>5. \E f1 : f1 = R(f1, k + 1)
        BY <3>4
      <3>6. k + 1 \in Nat
        OBVIOUS
      <3> QED BY <3>5, <3>6, Zenon
    <2>3. 0..n \subseteq S
      BY <2>1, <2>2, CountUp
    <2>4. n \in 0..n
      OBVIOUS
    <2> QED BY <2>3, <2>4, Zenon
  <1>2. F = R(F, n)
    BY <1>1
  <1> HIDE DEF F
  <1>3. \A s \in SUBSET (1..n) : F[s] = IF s = {} THEN base ELSE Op(F[s \ {Max(s)}], Max(s))
    BY <1>2, Zenon
  <1> DEFINE g == [i \in 0..n |-> F[1..i]]
  <1>4. g[0] = base /\ g[n] = F[1..n]
    <2>1. 1..0 = {} /\ {} \in SUBSET (1..n) /\ 0 \in 0..n /\ n \in 0..n
      OBVIOUS
    <2>2. F[{}] = base
      BY <1>3, <2>1, Zenon
    <2> QED BY <2>1, <2>2
  <1>5. ASSUME NEW i \in 1..n PROVE g[i] = Op(g[i - 1], i)
    <2>1. 1..i \in SUBSET (1..n) /\ 1..i # {} /\ Max(1..i) = i /\ (1..i) \ {i} = 1..(i - 1)
      <3>1. i - 1 \in Nat /\ i = (i - 1) + 1 /\ i \in 1..i
        OBVIOUS
      <3>2. 1..i \in SUBSET (1..((i - 1) + 1)) /\ (i - 1) + 1 \in 1..i
        BY <3>1
      <3>3. Max(1..i) = (i - 1) + 1
        BY <3>1, <3>2, TopOf
      <3>4. \A y : y \in (1..i) \ {i} <=> y \in 1..(i - 1)
        OBVIOUS
      <3>5. 1..i \in SUBSET (1..n) /\ 1..i # {}
        BY <3>1
      <3> QED BY <3>1, <3>3, <3>4, <3>5
    <2>2. F[1..i] = Op(F[1..(i - 1)], i)
      BY <1>3, <2>1
    <2> QED BY <2>2
  <1> HIDE DEF g
  <1> QED BY <1>0, <1>4, <1>5 DEF Op, base

\* Replacer::pseudonymize, entity by entity.
LEMMA ReplacesRecursion ==
    ASSUME NEW es, NEW n \in Nat, DOMAIN es = 1..n,
           NEW text, NEW v
    PROVE  \E g : /\ g[0] = v
                  /\ \A i \in 1..n : g[i] = GetOrCreate(g[i - 1], NoMatch, es[i].original, es[i].category).vault
                  /\ Pseudonymize(text, es, v).vault = g[n]
PROOF
  <1> DEFINE Op(u, i) == [text |-> u.text \o SubSeq(text, u.last + 1, es[i].start - 1) \o GetOrCreate(u.vault, NoMatch, es[i].original, es[i].category).token.token, last |-> es[i].end, vault |-> GetOrCreate(u.vault, NoMatch, es[i].original, es[i].category).vault]
             base == [text |-> <<>>, last |-> 0, vault |-> v]
             R(f, m) == [s \in SUBSET (1..m) |-> IF s = {} THEN base ELSE Op(f[s \ {Max(s)}], Max(s))]
             F == CHOOSE f : f = R(f, n)
  <1>0. Pseudonymize(text, es, v).vault = F[1..n].vault
    BY Zenon DEF Pseudonymize, FoldLeft, MapThenFoldSet
  <1> HIDE DEF Op, base
  <1>1. \E f : f = R(f, n)
    <2> DEFINE S == {m \in Nat : \E f : f = R(f, m)}
    <2>1. 0 \in S
      <3> DEFINE f == [s \in SUBSET (1..0) |-> base]
      <3>1. \A s \in SUBSET (1..0) : s = {}
        OBVIOUS
      <3>2. f = R(f, 0)
        BY <3>1
      <3> QED BY <3>2
    <2>2. ASSUME NEW k \in Nat, k < n, k \in S PROVE k + 1 \in S
      <3>1. PICK f : f = R(f, k)
        BY <2>2
      <3> DEFINE g == [s \in SUBSET (1..(k + 1)) |-> IF k + 1 \in s THEN Op(f[s \ {k + 1}], k + 1) ELSE f[s]]
      <3>2. \A s \in SUBSET (1..k) : f[s] = IF s = {} THEN base ELSE Op(f[s \ {Max(s)}], Max(s))
        BY <3>1, Zenon
      <3>3. ASSUME NEW s \in SUBSET (1..(k + 1))
            PROVE  g[s] = IF s = {} THEN base ELSE Op(g[s \ {Max(s)}], Max(s))
        <4>1. CASE k + 1 \in s
          <5>1. Max(s) = k + 1 /\ s # {}
            BY <4>1, TopOf
          <5>2. s \ {k + 1} \in SUBSET (1..(k + 1)) /\ k + 1 \notin s \ {k + 1}
            OBVIOUS
          <5>3. g[s] = Op(f[s \ {k + 1}], k + 1) /\ g[s \ {k + 1}] = f[s \ {k + 1}]
            BY <4>1, <5>2
          <5> HIDE DEF g
          <5> QED BY <5>1, <5>3
        <4>2. CASE k + 1 \notin s
          <5>0. \A y \in s : y \in 1..k
            BY <4>2
          <5>1. s \in SUBSET (1..k) /\ \A x : s \ {x} \in SUBSET (1..(k + 1)) /\ k + 1 \notin s \ {x}
            BY <4>2, <5>0, Zenon
          <5>2. g[s] = f[s] /\ \A x : g[s \ {x}] = f[s \ {x}]
            BY <4>2, <5>1
          <5> HIDE DEF g
          <5> QED BY <3>2, <5>1, <5>2
        <4> QED BY <4>1, <4>2
      <3>4. g = R(g, k + 1)
        <4>1. g = [s \in SUBSET (1..(k + 1)) |-> g[s]]
          OBVIOUS
        <4> HIDE DEF g
        <4> QED BY <3>3, <4>1
      <3> HIDE DEF g
      <3>5. \E f1 : f1 = R(f1, k + 1)
        BY <3>4
      <3>6. k + 1 \in Nat
        OBVIOUS
      <3> QED BY <3>5, <3>6, Zenon
    <2>3. 0..n \subseteq S
      BY <2>1, <2>2, CountUp
    <2>4. n \in 0..n
      OBVIOUS
    <2> QED BY <2>3, <2>4, Zenon
  <1>2. F = R(F, n)
    BY <1>1
  <1> HIDE DEF F
  <1>3. \A s \in SUBSET (1..n) : F[s] = IF s = {} THEN base ELSE Op(F[s \ {Max(s)}], Max(s))
    BY <1>2, Zenon
  <1> DEFINE g == [i \in 0..n |-> F[1..i]]
  <1>4. g[0] = base /\ g[n] = F[1..n]
    <2>1. 1..0 = {} /\ {} \in SUBSET (1..n) /\ 0 \in 0..n /\ n \in 0..n
      OBVIOUS
    <2>2. F[{}] = base
      BY <1>3, <2>1, Zenon
    <2> QED BY <2>1, <2>2
  <1>5. ASSUME NEW i \in 1..n PROVE g[i] = Op(g[i - 1], i)
    <2>1. 1..i \in SUBSET (1..n) /\ 1..i # {} /\ Max(1..i) = i /\ (1..i) \ {i} = 1..(i - 1)
      <3>1. i - 1 \in Nat /\ i = (i - 1) + 1 /\ i \in 1..i
        OBVIOUS
      <3>2. 1..i \in SUBSET (1..((i - 1) + 1)) /\ (i - 1) + 1 \in 1..i
        BY <3>1
      <3>3. Max(1..i) = (i - 1) + 1
        BY <3>1, <3>2, TopOf
      <3>4. \A y : y \in (1..i) \ {i} <=> y \in 1..(i - 1)
        OBVIOUS
      <3>5. 1..i \in SUBSET (1..n) /\ 1..i # {}
        BY <3>1
      <3> QED BY <3>1, <3>3, <3>4, <3>5
    <2>2. F[1..i] = Op(F[1..(i - 1)], i)
      BY <1>3, <2>1
    <2> QED BY <2>2
  <1> HIDE DEF g
  <1>6. g[0].vault = v
    BY <1>4 DEF base
  <1>7. ASSUME NEW i \in 1..n
        PROVE  g[i].vault = GetOrCreate(g[i - 1].vault, NoMatch, es[i].original, es[i].category).vault
    <2> DEFINE u == g[i - 1]
               made == GetOrCreate(u.vault, NoMatch, es[i].original, es[i].category)
               a == u.text \o SubSeq(text, u.last + 1, es[i].start - 1) \o made.token.token
               b == es[i].end
               c == made.vault
    <2>1. Op(u, i) = [text |-> a, last |-> b, vault |-> c]
      BY Zenon DEF Op
    <2> HIDE DEF a, b, c, u
    <2>2. Op(u, i).vault = c
      BY <2>1
    <2> QED BY <1>5, <2>2 DEF c, u
  <1> DEFINE h == [i \in 0..n |-> g[i].vault]
  <1>8. h[0] = v /\ h[n] = g[n].vault /\ \A i \in 1..n : h[i] = g[i].vault /\ h[i - 1] = g[i - 1].vault
    BY <1>6
  <1> HIDE DEF h
  <1>9. \A i \in 1..n : h[i] = GetOrCreate(h[i - 1], NoMatch, es[i].original, es[i].category).vault
    BY <1>7, <1>8
  <1>10. Pseudonymize(text, es, v).vault = h[n]
    BY <1>0, <1>4, <1>8
  <1> QED BY <1>8, <1>9, <1>10

(***************************************************************************)
(* Numbers as digits.                                                      *)
(***************************************************************************)

\* Division by the base.
LEMMA BaseIs == Base \in {2, 3, 4, 5, 6, 7, 8, 9, 10}
PROOF
  <1>1. Len(DigitGlyph) = 10
    BY DEF DigitGlyph
  <1>2. Base \in 2..10
    BY <1>1, PrivacyAssumption
  <1> QED BY <1>2

LEMMA DivisionIs ==
    ASSUME NEW n \in Nat
    PROVE  /\ n \div Base \in Nat /\ n % Base \in 0..9
           /\ n >= Base => n \div Base < n
           /\ \A m \in Nat : m \div Base = n \div Base /\ m % Base = n % Base => m = n
PROOF
  <1>2. CASE Base = 2
    BY <1>2
  <1>3. CASE Base = 3
    BY <1>3
  <1>4. CASE Base = 4
    BY <1>4
  <1>5. CASE Base = 5
    BY <1>5
  <1>6. CASE Base = 6
    BY <1>6
  <1>7. CASE Base = 7
    BY <1>7
  <1>8. CASE Base = 8
    BY <1>8
  <1>9. CASE Base = 9
    BY <1>9
  <1>10. CASE Base = 10
    BY <1>10
  <1> QED BY <1>2, <1>3, <1>4, <1>5, <1>6, <1>7, <1>8, <1>9, <1>10, BaseIs

DigitSet == {DigitGlyph[i] : i \in 1..10}
LEMMA GlyphsDiffer ==
    /\ \A i, j \in 0..9 : DigitGlyph[i + 1] = DigitGlyph[j + 1] => i = j
    /\ "_" \notin DigitSet
    /\ \A i \in 0..9 : DigitGlyph[i + 1] \in DigitSet
PROOF
  <1>1. \A i \in 1..10 : i \in {1, 2, 3, 4, 5, 6, 7, 8, 9, 10}
    OBVIOUS
  <1>2. /\ DigitGlyph[1] = "0" /\ DigitGlyph[2] = "1" /\ DigitGlyph[3] = "2" /\ DigitGlyph[4] = "3" /\ DigitGlyph[5] = "4"
        /\ DigitGlyph[6] = "5" /\ DigitGlyph[7] = "6" /\ DigitGlyph[8] = "7" /\ DigitGlyph[9] = "8" /\ DigitGlyph[10] = "9"
    BY DEF DigitGlyph
  <1>3. \A i, j \in 1..10 : DigitGlyph[i] = DigitGlyph[j] => i = j
    BY <1>1, <1>2
  <1>4. \A i \in 0..9 : i + 1 \in 1..10
    OBVIOUS
  <1>5. \A i \in 1..10 : DigitGlyph[i] # "_"
    BY <1>1, <1>2
  <1>6. \A i, j \in 0..9 : i + 1 = j + 1 => i = j
    OBVIOUS
  <1> QED BY <1>3, <1>4, <1>5, <1>6 DEF DigitSet

\* The digits of a number, from those of the number without its last one.
LEMMA DigitsRecursion ==
    \A n \in Nat : Digits[n] = IF n < Base THEN <<DigitGlyph[n + 1]>> ELSE Digits[n \div Base] \o <<DigitGlyph[(n % Base) + 1]>>
PROOF
  <1> DEFINE Op(u, n) == IF n < Base THEN <<DigitGlyph[n + 1]>> ELSE u \o <<DigitGlyph[(n % Base) + 1]>>
             d(n) == n \div Base
             R(f, D) == [n \in D |-> Op(f[d(n)], n)]
             F == CHOOSE f : f = R(f, Nat)
  <1>0. Digits = CHOOSE f : f = [n \in Nat |-> IF n < Base THEN <<DigitGlyph[n + 1]>> ELSE f[n \div Base] \o <<DigitGlyph[(n % Base) + 1]>>]
    BY Zenon DEF Digits
  <1>1. Digits = F
    BY <1>0, Zenon
  <1>2. \A n \in Nat : d(n) \in Nat /\ (n >= Base => d(n) < n)
    BY DivisionIs
  <1>3. \A n \in Nat : \A u, v : (n < Base \/ u = v) => Op(u, n) = Op(v, n)
    BY Zenon
  <1>4. Base \in Nat /\ Base > 0
    BY BaseIs
  <1> HIDE DEF Op, d
  <1>5. ASSUME NEW N \in Nat PROVE \E f : f = R(f, 0..N)
    <2> DEFINE S == {m \in Nat : \E f : f = R(f, 0..m)}
    <2>1. 0 \in S
      <3> DEFINE f == [i \in 0..0 |-> Op(0, 0)]
      <3>1. ASSUME NEW i \in 0..0 PROVE f[i] = Op(f[d(i)], i)
        <4>1. i = 0 /\ 0 \in Nat /\ 0 < Base
          BY <1>4
        <4>2. f[i] = Op(0, 0)
          OBVIOUS
        <4> HIDE DEF f
        <4> QED BY <1>3, <4>1, <4>2
      <3>2. f = [i \in 0..0 |-> f[i]]
        OBVIOUS
      <3> HIDE DEF f
      <3>3. f = R(f, 0..0)
        BY <3>1, <3>2
      <3> QED BY <3>3, 0 \in Nat, Zenon
    <2>2. ASSUME NEW k \in Nat, k < N, k \in S PROVE k + 1 \in S
      <3>1. PICK f : f = R(f, 0..k)
        BY <2>2
      <3>2. \A i \in 0..k : f[i] = Op(f[d(i)], i)
        BY <3>1, Zenon
      <3> DEFINE g == [i \in 0..(k + 1) |-> IF i <= k THEN f[i] ELSE Op(f[d(i)], i)]
      <3>3. ASSUME NEW i \in 0..(k + 1) PROVE g[i] = Op(g[d(i)], i)
        <4>1. g[i] = Op(f[d(i)], i)
          BY <3>2
        <4>2. i \in Nat /\ (i >= Base => d(i) \in 0..k /\ d(i) \in 0..(k + 1) /\ d(i) <= k)
          BY <1>2
        <4>3. i >= Base => g[d(i)] = f[d(i)]
          BY <4>2
        <4> HIDE DEF g
        <4>4. i < Base \/ g[d(i)] = f[d(i)]
          BY <1>4, <4>2, <4>3
        <4> QED BY <1>3, <4>1, <4>2, <4>4
      <3>4. g = [i \in 0..(k + 1) |-> g[i]]
        OBVIOUS
      <3> HIDE DEF g
      <3>5. g = R(g, 0..(k + 1))
        BY <3>3, <3>4
      <3>6. k + 1 \in Nat
        OBVIOUS
      <3> QED BY <3>5, <3>6, Zenon
    <2>3. 0..N \subseteq S
      BY <2>1, <2>2, CountUp
    <2>4. N \in 0..N
      OBVIOUS
    <2> QED BY <2>3, <2>4, Zenon
  <1> DEFINE h(N) == CHOOSE f : f = R(f, 0..N)
  <1>6. ASSUME NEW N \in Nat PROVE h(N) = R(h(N), 0..N)
    BY <1>5
  <1>7. ASSUME NEW N \in Nat, NEW i \in 0..N PROVE h(N)[i] = Op(h(N)[d(i)], i)
    BY <1>6, Zenon
  <1> HIDE DEF h
  <1>8. ASSUME NEW a \in Nat, NEW b \in Nat, a <= b PROVE h(a)[a] = h(b)[a]
    <2> DEFINE S == {k \in Nat : \A i \in 0..k : i <= a => h(a)[i] = h(b)[i]}
    <2>1. ASSUME NEW i \in Nat, i <= a, i < Base \/ h(a)[d(i)] = h(b)[d(i)] PROVE h(a)[i] = h(b)[i]
      <3>1. i \in 0..a /\ i \in 0..b
        BY <1>8, <2>1
      <3>2. h(a)[i] = Op(h(a)[d(i)], i) /\ h(b)[i] = Op(h(b)[d(i)], i)
        BY <1>7, <3>1
      <3>3. Op(h(a)[d(i)], i) = Op(h(b)[d(i)], i)
        BY <1>3, <2>1
      <3> QED BY <3>2, <3>3
    <2>2. 0 \in S
      <3>1. h(a)[0] = h(b)[0]
        BY <1>4, <1>8, <2>1
      <3>2. \A i \in 0..0 : i = 0
        OBVIOUS
      <3> QED BY <3>1, <3>2
    <2>3. ASSUME NEW k \in Nat, k < a, k \in S PROVE k + 1 \in S
      <3>1. \A i \in 0..k : i <= a => h(a)[i] = h(b)[i]
        BY <2>3
      <3>2. k + 1 >= Base => d(k + 1) \in 0..k /\ d(k + 1) <= a
        BY <1>2, <2>3
      <3>3. k + 1 \in Nat /\ k + 1 <= a
        BY <2>3
      <3>4. k + 1 < Base \/ h(a)[d(k + 1)] = h(b)[d(k + 1)]
        BY <1>4, <3>1, <3>2, <3>3
      <3>5. h(a)[k + 1] = h(b)[k + 1]
        BY <2>1, <3>3, <3>4
      <3>6. \A i \in 0..(k + 1) : i \in 0..k \/ i = k + 1
        OBVIOUS
      <3>7. \A i \in 0..(k + 1) : i <= a => h(a)[i] = h(b)[i]
        BY <3>1, <3>5, <3>6
      <3> QED BY <3>3, <3>7
    <2>4. 0..a \subseteq S
      BY <2>2, <2>3, CountUp
    <2>5. a \in 0..a /\ a <= a
      OBVIOUS
    <2>6. a \in S
      BY <2>4, <2>5
    <2> QED BY <2>5, <2>6
  <1> DEFINE f == [n \in Nat |-> h(n)[n]]
  <1>9. ASSUME NEW n \in Nat PROVE f[n] = Op(f[d(n)], n)
    <2>1. d(n) \in Nat /\ n \in 0..n
      BY <1>2
    <2>2. f[n] = h(n)[n] /\ f[d(n)] = h(d(n))[d(n)]
      BY <2>1
    <2>3. h(n)[n] = Op(h(n)[d(n)], n)
      BY <1>7, <2>1
    <2>4. n >= Base => h(d(n))[d(n)] = h(n)[d(n)]
      <3>1. SUFFICES ASSUME n >= Base PROVE h(d(n))[d(n)] = h(n)[d(n)]
        OBVIOUS
      <3>2. d(n) <= n
        BY <1>2, <2>1, <3>1
      <3> QED BY <1>8, <2>1, <3>2
    <2>5. n < Base \/ h(n)[d(n)] = h(d(n))[d(n)]
      BY <1>4, <2>4
    <2>6. Op(h(n)[d(n)], n) = Op(h(d(n))[d(n)], n)
      BY <1>3, <2>5
    <2> HIDE DEF f
    <2> QED BY <2>2, <2>3, <2>6
  <1>10. f = [n \in Nat |-> f[n]]
    OBVIOUS
  <1> HIDE DEF f
  <1>11. f = R(f, Nat)
    BY <1>9, <1>10
  <1>12. F = R(F, Nat)
    BY <1>11
  <1> HIDE DEF F
  <1>13. \A n \in Nat : F[n] = Op(F[d(n)], n)
    BY <1>12, Zenon
  <1> QED BY <1>1, <1>13 DEF Op, d

\* A number is at least one digit, and nothing but digits.
LEMMA DigitsAre ==
    ASSUME NEW n \in Nat
    PROVE  Digits[n] \in Seq(DigitSet) /\ Len(Digits[n]) >= 1
PROOF
  <1> DEFINE OK(k) == Digits[k] \in Seq(DigitSet) /\ Len(Digits[k]) >= 1
             S == {k \in Nat : \A i \in 0..k : OK(i)}
  <1>1. ASSUME NEW i \in Nat, i < Base \/ OK(i \div Base) PROVE OK(i)
    <2>1. i < Base => i \in 0..9
      BY BaseIs
    <2>2. i % Base \in 0..9
      BY DivisionIs
    <2>3. CASE i < Base
      <3>1. Digits[i] = <<DigitGlyph[i + 1]>> /\ DigitGlyph[i + 1] \in DigitSet
        BY <2>1, <2>3, DigitsRecursion, GlyphsDiffer
      <3> QED BY <3>1
    <2>4. CASE ~(i < Base)
      <3>1. Digits[i] = Digits[i \div Base] \o <<DigitGlyph[(i % Base) + 1]>> /\ DigitGlyph[(i % Base) + 1] \in DigitSet
        BY <2>2, <2>4, DigitsRecursion, GlyphsDiffer
      <3> QED BY <1>1, <2>4, <3>1
    <2> QED BY <2>3, <2>4
  <1> HIDE DEF OK
  <1>2. Base \in Nat /\ Base > 0
    BY BaseIs
  <1>3. 0 \in S
    <2>1. \A i \in 0..0 : i = 0 /\ 0 < Base /\ i \in Nat
      BY <1>2
    <2> QED BY <1>1, <2>1
  <1>4. ASSUME NEW k \in Nat, k < n, k \in S PROVE k + 1 \in S
    <2>1. k + 1 \in Nat /\ (k + 1 >= Base => (k + 1) \div Base \in 0..k)
      <3>1. (k + 1) \div Base \in Nat /\ (k + 1 >= Base => (k + 1) \div Base < k + 1)
        BY DivisionIs
      <3> QED BY <3>1
    <2>2. k + 1 < Base \/ OK((k + 1) \div Base)
      BY <1>2, <1>4, <2>1
    <2>3. OK(k + 1)
      BY <1>1, <2>1, <2>2
    <2>4. \A i \in 0..(k + 1) : i \in 0..k \/ i = k + 1
      OBVIOUS
    <2> QED BY <1>4, <2>1, <2>3, <2>4
  <1>5. 0..n \subseteq S
    BY <1>3, <1>4, CountUp
  <1>6. n \in 0..n
    OBVIOUS
  <1>7. OK(n)
    BY <1>5, <1>6
  <1> QED BY <1>7 DEF OK

\* Two numbers are never written alike.
LEMMA DigitsDiffer ==
    ASSUME NEW m \in Nat, NEW n \in Nat, Digits[m] = Digits[n]
    PROVE  m = n
PROOF
  <1> DEFINE S == {k \in Nat : \A i, j \in 0..k : Digits[i] = Digits[j] => i = j}
  <1>0. \A i \in Nat : i < Base => i \in 0..9
    BY BaseIs
  <1>1. ASSUME NEW i \in Nat, NEW j \in Nat, Digits[i] = Digits[j],
               i >= Base /\ j >= Base => (Digits[i \div Base] = Digits[j \div Base] => i \div Base = j \div Base)
        PROVE  i = j
    <2>1. ASSUME NEW a \in Nat, a < Base PROVE Digits[a] = <<DigitGlyph[a + 1]>> /\ Len(Digits[a]) = 1
      <3>1. Digits[a] = <<DigitGlyph[a + 1]>>
        BY <2>1, DigitsRecursion
      <3> QED BY <3>1
    <2>2. ASSUME NEW a \in Nat, ~(a < Base)
          PROVE  /\ Digits[a] = Digits[a \div Base] \o <<DigitGlyph[(a % Base) + 1]>>
                 /\ Digits[a \div Base] \in Seq(DigitSet) /\ Len(Digits[a]) = Len(Digits[a \div Base]) + 1 /\ Len(Digits[a]) >= 2
      <3>1. Digits[a] = Digits[a \div Base] \o <<DigitGlyph[(a % Base) + 1]>>
        BY <2>2, DigitsRecursion
      <3>2. a \div Base \in Nat
        BY DivisionIs
      <3>3. Digits[a \div Base] \in Seq(DigitSet) /\ Len(Digits[a \div Base]) >= 1
        BY <3>2, DigitsAre
      <3> QED BY <3>1, <3>3
    <2>3. CASE i < Base /\ j < Base
      <3>1. DigitGlyph[i + 1] = DigitGlyph[j + 1]
        BY <1>1, <2>1, <2>3
      <3> QED BY <1>0, <2>3, <3>1, GlyphsDiffer
    <2>4. CASE i < Base /\ ~(j < Base)
      <3>1. Len(Digits[i]) = 1
        BY <2>1, <2>4
      <3>2. Len(Digits[j]) >= 2
        BY <2>2, <2>4
      <3>3. Len(Digits[i]) = Len(Digits[j])
        BY <1>1
      <3>4. ~(1 >= 2)
        OBVIOUS
      <3> QED BY <3>1, <3>2, <3>3, <3>4
    <2>5. CASE ~(i < Base) /\ j < Base
      <3>1. Len(Digits[j]) = 1
        BY <2>1, <2>5
      <3>2. Len(Digits[i]) >= 2
        BY <2>2, <2>5
      <3>3. Len(Digits[i]) = Len(Digits[j])
        BY <1>1
      <3>4. ~(1 >= 2)
        OBVIOUS
      <3> QED BY <3>1, <3>2, <3>3, <3>4
    <2>6. CASE ~(i < Base) /\ ~(j < Base)
      <3> DEFINE u == Digits[i \div Base]
                 v == Digits[j \div Base]
                 x == DigitGlyph[(i % Base) + 1]
                 y == DigitGlyph[(j % Base) + 1]
      <3>1. u \in Seq(DigitSet) /\ v \in Seq(DigitSet) /\ u \o <<x>> = v \o <<y>>
        BY <1>1, <2>2, <2>6
      <3> HIDE DEF u, v, x, y
      <3>2. Len(u) = Len(v)
        <4>1. Len(u \o <<x>>) = Len(u) + 1 /\ Len(v \o <<y>>) = Len(v) + 1
          BY <3>1
        <4> QED BY <3>1, <4>1
      <3>3. \A k \in 1..Len(u) : u[k] = v[k]
        <4>1. \A k \in 1..Len(u) : (u \o <<x>>)[k] = u[k] /\ (v \o <<y>>)[k] = v[k]
          BY <3>1, <3>2
        <4> QED BY <3>1, <4>1
      <3>4. u = v
        BY <3>1, <3>2, <3>3
      <3>5. x = y
        <4>1. (u \o <<x>>)[Len(u) + 1] = x /\ (v \o <<y>>)[Len(v) + 1] = y
          BY <3>1
        <4> QED BY <3>1, <3>2, <4>1
      <3>6. i % Base \in 0..9 /\ j % Base \in 0..9
        BY DivisionIs
      <3>7. i % Base = j % Base
        BY <3>5, <3>6, GlyphsDiffer DEF x, y
      <3>8. i \div Base = j \div Base
        <4>1. i >= Base /\ j >= Base
          BY <2>6, BaseIs
        <4> QED BY <1>1, <3>4, <4>1 DEF u, v
      <3> QED BY <3>7, <3>8, DivisionIs
    <2> QED BY <2>3, <2>4, <2>5, <2>6
  <1>2. 0 \in S
    <2>1. \A i, j \in 0..0 : i = j
      OBVIOUS
    <2> QED BY <2>1
  <1>3. ASSUME NEW k \in Nat, k < m + n, k \in S PROVE k + 1 \in S
    <2>1. ASSUME NEW i \in 0..(k + 1), NEW j \in 0..(k + 1), Digits[i] = Digits[j] PROVE i = j
      <3>1. i \in Nat /\ j \in Nat /\ i \div Base \in Nat /\ j \div Base \in Nat
            /\ (i >= Base => i \div Base < i) /\ (j >= Base => j \div Base < j)
        BY DivisionIs
      <3>2. i >= Base /\ j >= Base => i \div Base \in 0..k /\ j \div Base \in 0..k
        BY <3>1
      <3>3. i >= Base /\ j >= Base => (Digits[i \div Base] = Digits[j \div Base] => i \div Base = j \div Base)
        BY <1>3, <3>2
      <3> QED BY <1>1, <2>1, <3>1, <3>3
    <2>2. k + 1 \in Nat
      OBVIOUS
    <2> QED BY <2>1, <2>2
  <1>4. m + n \in Nat /\ m + n \in 0..(m + n) /\ m \in 0..(m + n) /\ n \in 0..(m + n)
    OBVIOUS
  <1>5. 0..(m + n) \subseteq S
    BY <1>2, <1>3, <1>4, CountUp
  <1>6. m + n \in S
    BY <1>4, <1>5
  <1> QED BY <1>4, <1>6

\* A text, a glyph and another text.
LEMMA JoinIs ==
    ASSUME NEW P, NEW a \in Seq(P), NEW D, NEW b \in Seq(D), NEW w, NEW z, z = a \o <<w>> \o b
    PROVE  /\ Len(z) = Len(a) + 1 + Len(b) /\ z[Len(a) + 1] = w
           /\ \A k \in 1..Len(a) : z[k] = a[k]
           /\ \A k \in 1..Len(b) : z[Len(a) + 1 + k] = b[k]
PROOF
  <1> DEFINE Q == P \cup D \cup {w}
             c == a \o <<w>>
  <1>1. a \in Seq(Q) /\ b \in Seq(Q) /\ <<w>> \in Seq(Q)
    OBVIOUS
  <1> HIDE DEF Q
  <1>2. /\ c \in Seq(Q) /\ Len(c) = Len(a) + 1 /\ c[Len(a) + 1] = w
        /\ \A k \in 1..Len(a) : c[k] = a[k]
    BY <1>1
  <1> HIDE DEF c
  <1>3. z = c \o b
    BY DEF c
  <1>4. /\ Len(z) = Len(c) + Len(b)
        /\ \A k \in 1..Len(c) : z[k] = c[k]
        /\ \A k \in 1..Len(b) : z[Len(c) + k] = b[k]
    BY <1>1, <1>2, <1>3
  <1>5. Len(a) \in Nat /\ Len(b) \in Nat
    OBVIOUS
  <1> QED BY <1>2, <1>4, <1>5

\* PseudoToken: a token tells its prefix and its number, so that ORG_1 and
\* ORG_12, though one begins the other, are never the same.
LEMMA SpellDiffers ==
    ASSUME NEW P, NEW p \in Seq(P), NEW q \in Seq(P), NEW m \in Nat, NEW n \in Nat, Spell(p, m) = Spell(q, n)
    PROVE  p = q /\ m = n
PROOF
  <1>0. PICK w : w = "_"
    OBVIOUS
  <1> DEFINE x == Digits[m]
             y == Digits[n]
             s == p \o <<w>> \o x
             t == q \o <<w>> \o y
  <1>1. x \in Seq(DigitSet) /\ y \in Seq(DigitSet) /\ s = t
    <2>1. s = Spell(p, m) /\ t = Spell(q, n)
      BY <1>0, Zenon DEF Spell
    <2>2. s = t
      BY <2>1, Zenon
    <2> HIDE DEF s, t
    <2> QED BY <2>2, DigitsAre
  <1> HIDE DEF x, y
  <1>3. /\ Len(s) = Len(p) + 1 + Len(x) /\ s[Len(p) + 1] = w
        /\ \A k \in 1..Len(p) : s[k] = p[k]
        /\ \A k \in 1..Len(x) : s[Len(p) + 1 + k] = x[k]
    BY <1>1, JoinIs
  <1>4. /\ Len(t) = Len(q) + 1 + Len(y) /\ t[Len(q) + 1] = w
        /\ \A k \in 1..Len(q) : t[k] = q[k]
        /\ \A k \in 1..Len(y) : t[Len(q) + 1 + k] = y[k]
    BY <1>1, JoinIs
  <1> HIDE DEF s, t
  <1>5. (\A k \in 1..Len(x) : x[k] # w) /\ (\A k \in 1..Len(y) : y[k] # w)
    <2>1. w \notin DigitSet
      BY <1>0, GlyphsDiffer
    <2>2. (\A k \in 1..Len(x) : x[k] \in DigitSet) /\ (\A k \in 1..Len(y) : y[k] \in DigitSet)
      BY <1>1
    <2> QED BY <2>1, <2>2
  <1>6. Len(p) \in Nat /\ Len(q) \in Nat /\ Len(x) \in Nat /\ Len(y) \in Nat
    BY <1>1
  <1>7. ~(Len(p) < Len(q))
    <2> SUFFICES ASSUME Len(p) < Len(q) PROVE FALSE
      OBVIOUS
    <2>0. PICK k : k = Len(q) - Len(p)
      OBVIOUS
    <2>1. k \in 1..Len(x) /\ Len(p) + 1 + k = Len(q) + 1
      BY <2>0, <1>1, <1>3, <1>4, <1>6
    <2>2. s[Len(q) + 1] = x[k] /\ s[Len(q) + 1] = w
      BY <1>1, <1>3, <1>4, <2>1
    <2> QED BY <1>5, <2>1, <2>2
  <1>8. ~(Len(q) < Len(p))
    <2> SUFFICES ASSUME Len(q) < Len(p) PROVE FALSE
      OBVIOUS
    <2>0. PICK k : k = Len(p) - Len(q)
      OBVIOUS
    <2>1. k \in 1..Len(y) /\ Len(q) + 1 + k = Len(p) + 1
      BY <2>0, <1>1, <1>3, <1>4, <1>6
    <2>2. t[Len(p) + 1] = y[k] /\ t[Len(p) + 1] = w
      BY <1>1, <1>3, <1>4, <2>1
    <2> QED BY <1>5, <2>1, <2>2
  <1>9. Len(p) = Len(q) /\ Len(x) = Len(y)
    BY <1>1, <1>3, <1>4, <1>6, <1>7, <1>8
  <1>10. p = q
    <2>1. \A k \in 1..Len(p) : p[k] = q[k]
      BY <1>1, <1>3, <1>4, <1>9
    <2> QED BY <1>9, <2>1
  <1>11. x = y
    <2>1. \A k \in 1..Len(x) : x[k] = y[k]
      BY <1>1, <1>3, <1>4, <1>9
    <2> QED BY <1>1, <1>9, <2>1
  <1>12. m = n
    BY <1>11, DigitsDiffer DEF x, y
  <1> QED BY <1>10, <1>12

(***************************************************************************)
(* A set in an order: a sequence of its members.                           *)
(***************************************************************************)
LEMMA InsertIn ==
    ASSUME NEW S, NEW x \in S, NEW seq \in Seq(S), NEW before
    PROVE  InsertSorted(x, seq, before) \in Seq(S)
PROOF
  <1> DEFINE T == {i \in DOMAIN seq : <<x, seq[i]>> \notin before}
             k == Cardinality(T)
  <1>1. DOMAIN seq = 1..Len(seq) /\ Len(seq) \in Nat
    OBVIOUS
  <1>2. IsFiniteSet(1..Len(seq)) /\ Cardinality(1..Len(seq)) = Len(seq)
    <2>1. 1 \in Int /\ Len(seq) \in Int
      BY <1>1
    <2>2. IsFiniteSet(1..Len(seq)) /\ Cardinality(1..Len(seq)) = IF 1 > Len(seq) THEN 0 ELSE Len(seq) - 1 + 1
      BY <2>1, FS_Interval
    <2> QED BY <1>1, <2>2
  <1>3. T \in SUBSET (1..Len(seq))
    BY <1>1
  <1>4. IsFiniteSet(T) /\ k <= Len(seq)
    BY <1>2, <1>3, FS_Subset
  <1>5. k \in Nat
    BY <1>4, FS_CardinalityType
  <1> HIDE DEF k
  <1>6. SubSeq(seq, 1, k) \in Seq(S) /\ SubSeq(seq, k + 1, Len(seq)) \in Seq(S)
    BY <1>1, <1>4, <1>5
  <1>7. SubSeq(seq, 1, k) \o <<x>> \o SubSeq(seq, k + 1, Len(seq)) \in Seq(S)
    BY <1>6
  <1> QED BY <1>7 DEF InsertSorted, k

LEMMA SortedIn ==
    ASSUME NEW S, IsFiniteSet(S), NEW before
    PROVE  Sorted(S, before) \in Seq(S)
PROOF
  <1> DEFINE Op(x, u) == InsertSorted(x, u, before)
             c(s) == CHOOSE x \in s : TRUE
             D(m) == {s \in SUBSET S : Cardinality(s) <= m}
             R(f, dom) == [s \in dom |-> IF s = {} THEN <<>> ELSE Op(c(s), f[s \ {c(s)}])]
             F == CHOOSE f : f = R(f, SUBSET S)
             n == Cardinality(S)
  <1>0. Sorted(S, before) = F[S]
    BY Zenon DEF Sorted, FoldSet, MapThenFoldSet
  <1>1. n \in Nat
    BY FS_CardinalityType
  <1>2. ASSUME NEW s \in SUBSET S
        PROVE  /\ Cardinality(s) \in Nat /\ Cardinality(s) <= n
               /\ s # {} => c(s) \in s /\ s \ {c(s)} \in SUBSET S /\ Cardinality(s \ {c(s)}) = Cardinality(s) - 1
               /\ Cardinality(s) <= 0 => s = {}
    <2>1. IsFiniteSet(s) /\ Cardinality(s) <= n
      BY FS_Subset
    <2>2. Cardinality(s) \in Nat
      BY <2>1, FS_CardinalityType
    <2>3. s # {} => c(s) \in s
      OBVIOUS
    <2>4. s # {} => Cardinality(s \ {c(s)}) = Cardinality(s) - 1
      BY <2>1, <2>3, FS_RemoveElement
    <2>5. Cardinality(s) <= 0 => s = {}
      BY <2>1, <2>2, FS_EmptySet
    <2> QED BY <2>1, <2>2, <2>3, <2>4, <2>5
  <1> HIDE DEF Op, c, n
  <1>3. \E f : f = R(f, SUBSET S)
    <2> DEFINE T == {m \in Nat : \E f : f = R(f, D(m))}
    <2>1. 0 \in T
      <3> DEFINE f == [s \in D(0) |-> <<>>]
      <3>1. \A s \in D(0) : s = {}
        BY <1>2
      <3>2. f = R(f, D(0))
        BY <3>1
      <3> QED BY <3>2, 0 \in Nat, Zenon
    <2>2. ASSUME NEW k \in Nat, k < n, k \in T PROVE k + 1 \in T
      <3>1. PICK f : f = R(f, D(k))
        BY <2>2
      <3>2. \A s \in D(k) : f[s] = IF s = {} THEN <<>> ELSE Op(c(s), f[s \ {c(s)}])
        BY <3>1, Zenon
      <3> DEFINE g == [s \in D(k + 1) |-> IF s \in D(k) THEN f[s] ELSE Op(c(s), f[s \ {c(s)}])]
      <3>3. ASSUME NEW s \in D(k + 1) PROVE g[s] = IF s = {} THEN <<>> ELSE Op(c(s), g[s \ {c(s)}])
        <4>1. CASE s = {}
          <5>1. s \in SUBSET S /\ Cardinality(s) = 0
            BY <4>1, FS_EmptySet
          <5>2. s \in D(k)
            BY <5>1
          <5>3. g[s] = f[s] /\ f[s] = <<>>
            BY <3>2, <4>1, <5>2
          <5> HIDE DEF g
          <5> QED BY <4>1, <5>3
        <4>2. CASE s # {}
          <5>1. s \ {c(s)} \in SUBSET S /\ Cardinality(s \ {c(s)}) = Cardinality(s) - 1 /\ Cardinality(s) \in Nat /\ Cardinality(s) <= k + 1
            BY <1>2, <4>2
          <5>2. s \ {c(s)} \in D(k) /\ s \ {c(s)} \in D(k + 1)
            BY <5>1
          <5>3. g[s \ {c(s)}] = f[s \ {c(s)}]
            BY <5>2
          <5>4. g[s] = Op(c(s), f[s \ {c(s)}])
            BY <3>2, <4>2
          <5> HIDE DEF g
          <5> QED BY <4>2, <5>3, <5>4
        <4> QED BY <4>1, <4>2
      <3>4. g = [s \in D(k + 1) |-> g[s]]
        OBVIOUS
      <3> HIDE DEF g
      <3>5. g = R(g, D(k + 1))
        BY <3>3, <3>4
      <3>6. k + 1 \in Nat
        OBVIOUS
      <3> QED BY <3>5, <3>6, Zenon
    <2>3. 0..n \subseteq T
      BY <1>1, <2>1, <2>2, CountUp
    <2>4. n \in 0..n
      BY <1>1
    <2>5. D(n) = SUBSET S
      BY <1>2
    <2>6. n \in T
      BY <2>3, <2>4
    <2>7. \E f : f = R(f, D(n))
      BY <2>6, Zenon
    <2> QED BY <2>5, <2>7, Zenon
  <1>4. F = R(F, SUBSET S)
    BY <1>3
  <1> HIDE DEF F
  <1>5. \A s \in SUBSET S : F[s] = IF s = {} THEN <<>> ELSE Op(c(s), F[s \ {c(s)}])
    BY <1>4, Zenon
  <1> DEFINE T == {k \in Nat : \A s \in SUBSET S : Cardinality(s) <= k => F[s] \in Seq(S)}
  <1>E. F[{}] \in Seq(S)
    <2>1. F[{}] = <<>>
      BY <1>5
    <2> QED BY <2>1
  <1>6. 0 \in T
    <2>1. \A s \in SUBSET S : Cardinality(s) <= 0 => F[s] \in Seq(S)
      BY <1>2, <1>E
    <2> QED BY <2>1
  <1>7. ASSUME NEW k \in Nat, k < n, k \in T PROVE k + 1 \in T
    <2>1. ASSUME NEW s \in SUBSET S, Cardinality(s) <= k + 1 PROVE F[s] \in Seq(S)
      <3>1. CASE s = {}
        BY <1>E, <3>1
      <3>2. CASE s # {}
        <4>1. s \ {c(s)} \in SUBSET S /\ Cardinality(s \ {c(s)}) <= k /\ c(s) \in S
          BY <1>2, <2>1, <3>2
        <4>2. F[s \ {c(s)}] \in Seq(S)
          BY <1>7, <4>1
        <4>3. Op(c(s), F[s \ {c(s)}]) \in Seq(S)
          BY <4>1, <4>2, InsertIn DEF Op
        <4> QED BY <1>5, <3>2, <4>3
      <3> QED BY <3>1, <3>2
    <2>2. k + 1 \in Nat
      OBVIOUS
    <2> QED BY <2>1, <2>2
  <1>8. 0..n \subseteq T
    BY <1>1, <1>6, <1>7, CountUp
  <1>9. n \in T
    BY <1>1, <1>8
  <1>10. S \in SUBSET S /\ Cardinality(S) <= n
    BY <1>1 DEF n
  <1> QED BY <1>0, <1>9, <1>10

(***************************************************************************)
(* The inductive invariant of the processes that share a vault.  What a    *)
(* request has detected is never empty and has a prefix, or one token      *)
(* could be spelled like another; the tokens it is about to record are in  *)
(* the vault, which only grows while a request holds them; a session knows *)
(* finitely many entities, so that a pronoun stands for one when exactly   *)
(* one is recent; and who builds a detector is the only one to change the  *)
(* configuration it is built from.                                         *)
(***************************************************************************)
IsEntity(e) == e.original # NoMatch /\ e.category \in DOMAIN PrefixOf
Entities(es) == IsText(es) /\ \A k \in DOMAIN es : IsEntity(es[k])

Distinct(v) ==
    /\ NoMatch \notin DOMAIN v.forward
    /\ \A o \in DOMAIN v.forward :
          /\ v.forward[o].category \in DOMAIN PrefixOf
          /\ v.forward[o].token = Spell(PrefixOf[v.forward[o].category], v.forward[o].id)
          /\ v.reverse[v.forward[o].token] = o
GoodVault(v) == Sound(v) /\ Distinct(v)
Grown(v, w) == DOMAIN v.forward \subseteq DOMAIN w.forward /\ DOMAIN v.reverse \subseteq DOMAIN w.reverse

GoodSession(s, v) ==
    /\ s = [entities |-> s.entities, count |-> s.count, sensitivity |-> s.sensitivity, keywords |-> s.keywords,
            corefs |-> s.corefs, stale |-> s.stale]
    /\ IsFiniteSet(DOMAIN s.entities) /\ s.count \in Nat
    /\ \A o \in DOMAIN s.entities :
          /\ s.entities[o].token \in DOMAIN v.reverse /\ s.entities[o].category \in DOMAIN PrefixOf
          /\ s.entities[o].last \in Nat /\ s.entities[o].last <= s.count
    /\ \A c \in DOMAIN s.corefs : \E o \in DOMAIN s.entities : s.entities[o].token = s.corefs[c]

InRequest == {"pc", "ask", "i", "entities", "tokens", "sent", "reply", "out", "buffer", "echo", "scanned", "blind", "built"}
Shaped ==
    /\ mode \in Modes
    /\ req = [r \in Requests |-> req[r]]
    /\ \A r \in Requests :
          /\ req[r] = [f \in InRequest |-> req[r][f]]
          /\ req[r].ask \in Asks[r][mode]
          /\ req[r].i \in Nat /\ req[r].i >= 1
          /\ At(r, "detect") => req[r].i <= Len(Body(r))
HoldsLock(r) == req[r].pc \in {"message", "detect", "record"}
Locked ==
    /\ lock = Nobody \/ (lock \in Requests /\ HoldsLock(lock))
    /\ \A r \in Requests : HoldsLock(r) => lock = r
RecordingOf(r) ==
    /\ mode # "server" => Len(req[r].tokens) = Len(req[r].entities)
    /\ At(r, "record") =>
          /\ Entities(req[r].entities) /\ DOMAIN req[r].tokens = DOMAIN req[r].entities
          /\ \A k \in DOMAIN req[r].tokens : req[r].tokens[k] \in DOMAIN vault.reverse
    /\ At(r, "replace") => Entities(req[r].entities)
Recording == \A r \in Requests : RecordingOf(r)
Conversing == DOMAIN sessions \subseteq Ids /\ \A id \in DOMAIN sessions : GoodSession(sessions[id], vault)
Configured ==
    /\ config = [on |-> config.on, building |-> config.building]
    /\ config.building \in {Nobody} \cup Requests /\ config.on \subseteq Categories
    /\ detector = reported /\ detector \subseteq Categories
    /\ \A r \in Requests : At(r, "swap") => config.building = r /\ req[r].built = config.on
PrivacyBooks == Shaped /\ GoodVault(vault) /\ Locked /\ Recording /\ Conversing /\ Configured

(***************************************************************************)
(* Detection.                                                              *)
(***************************************************************************)
LEMMA SeqIs ==
    ASSUME NEW T, NEW s \in Seq(T)
    PROVE  IsText(s) /\ DOMAIN s = 1..Len(s) /\ Len(s) \in Nat /\ \A k \in DOMAIN s : s[k] \in T
PROOF
  <1>1. DOMAIN s = 1..Len(s) /\ Len(s) \in Nat /\ s \in [1..Len(s) -> T]
    OBVIOUS
  <1>2. \A k \in 1..Len(s) : s[k] \in ToSet(s)
    BY <1>1 DEF ToSet
  <1>3. s \in Seq(ToSet(s))
    BY <1>1, <1>2
  <1> QED BY <1>1, <1>3 DEF IsText

LEMMA TextIs ==
    ASSUME NEW t, IsText(t)
    PROVE  DOMAIN t = 1..Len(t) /\ Len(t) \in Nat
BY DEF IsText

\* A function of numbers up to n is a sequence of what it answers.
LEMMA ListIs ==
    ASSUME NEW f, NEW n \in Nat, f = [i \in 1..n |-> f[i]]
    PROVE  IsText(f) /\ Len(f) = n
PROOF
  <1> DEFINE T == {f[i] : i \in 1..n}
  <1>1. f \in [1..n -> T]
    OBVIOUS
  <1>2. f \in Seq(T) /\ Len(f) = n
    BY <1>1
  <1> QED BY <1>2, SeqIs

\* Of finitely many things there are finitely many pictures.
LEMMA PicturesFinite ==
    ASSUME NEW S, IsFiniteSet(S), NEW T, NEW f, DOMAIN f = S, f = [x \in S |-> f[x]], \A y \in T : \E x \in S : y = f[x]
    PROVE  IsFiniteSet(T)
PROOF
  <1> DEFINE U == {f[x] : x \in S}
  <1>1. f \in Surjection(S, U)
    BY DEF Surjection
  <1>2. IsFiniteSet(U)
    BY <1>1, FS_Surjection
  <1>3. T \in SUBSET U
    OBVIOUS
  <1> QED BY <1>2, <1>3, FS_Subset

LEMMA OccurrencesFinite ==
    ASSUME NEW text, IsText(text), NEW words, IsText(words)
    PROVE  IsFiniteSet(Occurrences(text, words))
PROOF
  <1> DEFINE n == Len(text) - Len(words) + 1
  <1>1. n \in Int /\ 1 \in Int
    BY TextIs
  <1>2. IsFiniteSet(1..n)
    BY <1>1, FS_Interval
  <1>3. Occurrences(text, words) \in SUBSET (1..n)
    BY DEF Occurrences
  <1> QED BY <1>2, <1>3, FS_Subset

LEMMA SpanIs ==
    ASSUME NEW words, words # NoMatch, NEW i, NEW category \in DOMAIN PrefixOf, NEW confidence
    PROVE  IsEntity(SpanAt(words, i, category, confidence))
BY DEF SpanAt, IsEntity

\* Whatever layer finds it.
LEMMA LayersFind ==
    ASSUME NEW text, IsText(text), NEW on
    PROVE  /\ IsFiniteSet(LayerSpans(text, on))
           /\ \A x \in LayerSpans(text, on) : IsEntity(x[2])
PROOF
  <1> DEFINE Q == {q \in Phrases : q.toggle \in on /\ q.words \notin Preserve}
             At1(p) == {<<p.layer, SpanAt(p.words, i, p.category, p.confidence)>> : i \in Occurrences(text, p.words)}
             All == {At1(p) : p \in Q}
  <1>1. LayerSpans(text, on) = UNION All
    BY Zenon DEF LayerSpans
  <1>2. IsFiniteSet(Q)
    <2>1. Q \in SUBSET Phrases
      OBVIOUS
    <2> QED BY <2>1, PrivacyAssumption, FS_Subset
  <1>3. ASSUME NEW p \in Q PROVE IsFiniteSet(At1(p)) /\ \A x \in At1(p) : IsEntity(x[2])
    <2>1. IsText(p.words) /\ p.words # NoMatch /\ p.category \in DOMAIN PrefixOf
      <3>1. p \in Phrases
        OBVIOUS
      <3>2. p.category \in {q.category : q \in Phrases}
        BY <3>1
      <3> QED BY <3>1, <3>2, PrivacyAssumption
    <2>2. IsFiniteSet(Occurrences(text, p.words))
      BY <2>1, OccurrencesFinite
    <2> DEFINE f == [i \in Occurrences(text, p.words) |-> <<p.layer, SpanAt(p.words, i, p.category, p.confidence)>>]
    <2>3. DOMAIN f = Occurrences(text, p.words) /\ f = [i \in Occurrences(text, p.words) |-> f[i]]
          /\ \A y \in At1(p) : \E i \in Occurrences(text, p.words) : y = f[i]
      BY Zenon
    <2> HIDE DEF f
    <2>4. IsFiniteSet(At1(p))
      BY <2>2, <2>3, PicturesFinite
    <2>5. ASSUME NEW x \in At1(p) PROVE IsEntity(x[2])
      <3>1. PICK i \in Occurrences(text, p.words) : x = <<p.layer, SpanAt(p.words, i, p.category, p.confidence)>>
        OBVIOUS
      <3>2. x[2] = SpanAt(p.words, i, p.category, p.confidence)
        BY <3>1
      <3> QED BY <2>1, <3>2, SpanIs
    <2> QED BY <2>4, <2>5
  <1> HIDE DEF Q, At1
  <1>4. IsFiniteSet(All)
    <2> DEFINE f == [p \in Q |-> At1(p)]
    <2>1. DOMAIN f = Q /\ f = [p \in Q |-> f[p]] /\ \A y \in All : \E p \in Q : y = f[p]
      BY Zenon
    <2> HIDE DEF f, All
    <2> QED BY <1>2, <2>1, PicturesFinite
  <1>5. \A T \in All : IsFiniteSet(T)
    BY <1>3, Zenon
  <1>6. IsFiniteSet(UNION All)
    BY <1>4, <1>5, FS_UNION
  <1>7. \A x \in UNION All : IsEntity(x[2])
    BY <1>3, Zenon
  <1> QED BY <1>1, <1>6, <1>7

LEMMA ForcedFind ==
    ASSUME NEW text
    PROVE  /\ IsFiniteSet(ForcedSpans(text))
           /\ \A x \in ForcedSpans(text) : IsEntity(x[2])
PROOF
  <1> DEFINE J == {j \in DOMAIN Forced : Occurrences(text, Forced[j]) # {}}
             Sp(i) == SpanAt(Forced[i], FirstOccurrence(text, Forced[i]), "forced", 100)
             f == [i \in J |-> <<100 + i, Sp(i)>>]
  <1>1. ForcedSpans(text) = {<<100 + i, Sp(i)>> : i \in J}
    BY Zenon DEF ForcedSpans
  <1>2. IsFiniteSet(J)
    <2>1. DOMAIN Forced = 1..Len(Forced) /\ Len(Forced) \in Nat
      BY PrivacyAssumption, TextIs
    <2>2. IsFiniteSet(1..Len(Forced))
      BY <2>1, FS_Interval
    <2>3. J \in SUBSET (1..Len(Forced))
      BY <2>1
    <2> QED BY <2>2, <2>3, FS_Subset
  <1>3. ASSUME NEW i \in J PROVE IsEntity(Sp(i))
    <2>1. Forced[i] # NoMatch /\ "forced" \in DOMAIN PrefixOf
      BY PrivacyAssumption
    <2> QED BY <2>1, SpanIs
  <1> HIDE DEF J, Sp
  <1>4. DOMAIN f = J /\ f = [i \in J |-> f[i]] /\ \A y \in ForcedSpans(text) : \E i \in J : y = f[i]
    BY <1>1
  <1>5. \A x \in ForcedSpans(text) : \E i \in J : x[2] = Sp(i)
    BY <1>1
  <1> HIDE DEF f
  <1>6. IsFiniteSet(ForcedSpans(text))
    BY <1>2, <1>4, PicturesFinite
  <1> QED BY <1>3, <1>5, <1>6

\* deduplicate_spans keeps some of the spans.
LEMMA KeptAre ==
    ASSUME NEW es, Entities(es)
    PROVE  Entities(DeduplicateSpans(es))
PROOF
  <1> DEFINE n == Len(es)
             T == {es[k] : k \in DOMAIN es}
  <1>1. n \in Nat /\ DOMAIN es = 1..n
    BY TextIs DEF Entities
  <1>2. PICK g : /\ g[0] = <<>>
                 /\ \A i \in 1..n : g[i] = KeepSpan(g[i - 1], es[i])
                 /\ DeduplicateSpans(es) = g[n]
    BY <1>1, KeepsRecursion
  <1>3. ASSUME NEW kept \in Seq(T), NEW e \in T PROVE KeepSpan(kept, e) \in Seq(T)
    <2>1. CASE kept = <<>> \/ e.start > Last(kept).end
      <3>1. KeepSpan(kept, e) = Append(kept, e)
        BY <2>1 DEF KeepSpan
      <3> HIDE DEF T
      <3> QED BY <3>1
    <2>2. CASE ~(kept = <<>> \/ e.start > Last(kept).end)
      <3>1. KeepSpan(kept, e) = IF Supersedes(e, Last(kept)) THEN Append(Front(kept), e) ELSE kept
        BY <2>2 DEF KeepSpan
      <3> HIDE DEF T
      <3>2. Front(kept) \in Seq(T)
        <4>1. kept # <<>>
          BY <2>2
        <4>2. Len(kept) - 1 \in Nat /\ Len(kept) - 1 <= Len(kept)
          BY <4>1
        <4> QED BY <4>2 DEF Front
      <3>3. Append(Front(kept), e) \in Seq(T)
        BY <3>2
      <3> QED BY <3>1, <3>3
    <2> QED BY <2>1, <2>2
  <1>4. \A i \in 1..n : es[i] \in T
    BY <1>1
  <1> HIDE DEF T
  <1> DEFINE S == {k \in Nat : g[k] \in Seq(T)}
  <1>5. 0 \in S
    <2>1. <<>> \in Seq(T)
      OBVIOUS
    <2> QED BY <1>2, <2>1
  <1>6. ASSUME NEW k \in Nat, k < n, k \in S PROVE k + 1 \in S
    <2>1. k + 1 \in 1..n /\ (k + 1) - 1 = k /\ k + 1 \in Nat
      BY <1>1, <1>6
    <2>2. g[k + 1] = KeepSpan(g[k], es[k + 1])
      BY <1>2, <2>1
    <2>3. g[k] \in Seq(T)
      BY <1>6
    <2>4. g[k + 1] \in Seq(T)
      BY <1>3, <1>4, <2>1, <2>2, <2>3
    <2> QED BY <2>1, <2>4
  <1>7. 0..n \subseteq S
    BY <1>1, <1>5, <1>6, CountUp
  <1>8. n \in S
    BY <1>1, <1>7
  <1>9. \A e \in T : IsEntity(e)
    BY DEF T, Entities
  <1> QED BY <1>2, <1>8, <1>9, SeqIs DEF Entities

\* Detector::detect.
LEMMA DetectIs ==
    ASSUME NEW text, IsText(text), NEW on
    PROVE  Entities(Detect(text, on))
PROOF
  <1> DEFINE spans == LayerSpans(text, on) \cup ForcedSpans(text)
             earlier(x, y) == x[2].start < y[2].start \/ (x[2].start = y[2].start /\ x[1] < y[1])
             before == {xy \in spans \X spans : earlier(xy[1], xy[2])}
             found == Sorted(spans, before)
             es == [i \in DOMAIN found |-> found[i][2]]
  <1>1. Detect(text, on) = DeduplicateSpans(es)
    BY Zenon DEF Detect
  <1>2. IsFiniteSet(spans) /\ \A x \in spans : IsEntity(x[2])
    BY LayersFind, ForcedFind, FS_Union
  <1> HIDE DEF spans, before
  <1>3. found \in Seq(spans)
    BY <1>2, SortedIn
  <1> HIDE DEF found
  <1>4. DOMAIN found = 1..Len(found) /\ Len(found) \in Nat /\ \A k \in DOMAIN found : found[k] \in spans
    BY <1>3, SeqIs
  <1>5. DOMAIN es = 1..Len(found) /\ es = [i \in 1..Len(found) |-> es[i]] /\ \A k \in DOMAIN es : es[k] = found[k][2]
    BY <1>4
  <1> HIDE DEF es
  <1>6. IsText(es)
    BY <1>4, <1>5, ListIs
  <1>7. Entities(es)
    BY <1>2, <1>4, <1>5, <1>6 DEF Entities
  <1> QED BY <1>1, <1>7, KeptAre

(***************************************************************************)
(* The vault.                                                              *)
(***************************************************************************)
\* get_or_create without a resolver: a number that was not given, so a token
\* that was not.
LEMMA CreateGood ==
    ASSUME NEW v, GoodVault(v), NEW original, original # NoMatch, NEW category \in DOMAIN PrefixOf,
           NEW w, w = GetOrCreate(v, NoMatch, original, category).vault
    PROVE  GoodVault(w) /\ Grown(v, w) /\ original \in DOMAIN w.forward
PROOF
  <1> DEFINE prefix == PrefixOf[category]
             n == (IF prefix \in DOMAIN v.counters THEN v.counters[prefix] ELSE 0) + 1
             token == [token |-> Spell(prefix, n), category |-> category, id |-> n]
  <1>1. Sound(w)
    BY CreateSound DEF GoodVault
  <1>2. CASE original \in DOMAIN v.forward
    <2>1. w = v
      BY <1>2 DEF GetOrCreate
    <2> QED BY <1>2, <2>1 DEF Grown
  <1>3. CASE original \notin DOMAIN v.forward
    <2> DEFINE g == Put(v.forward, original, token)
               t == Put(v.reverse, token.token, original)
    <2>0. NoMatch \notin DOMAIN v.forward
      BY DEF GoodVault, Distinct
    <2>1. w = [forward |-> g, reverse |-> t, counters |-> Put(v.counters, prefix, n)]
      BY <1>3, <2>0 DEF GetOrCreate
    <2>2. w.forward = g /\ w.reverse = t
      BY <2>1
    <2>3. token.token = Spell(prefix, n) /\ token.category = category /\ token.id = n
      OBVIOUS
    <2>4. n \in Nat /\ (prefix \in DOMAIN v.counters => v.counters[prefix] \in Nat /\ n = v.counters[prefix] + 1)
      BY DEF GoodVault, Sound, Books
    <2>5. /\ \A o \in DOMAIN v.forward : PrefixOf[v.forward[o].category] \in DOMAIN v.counters
          /\ \A pre \in DOMAIN v.counters : v.counters[pre] \in Nat
          /\ \A o \in DOMAIN v.forward : v.forward[o].id \in 1..v.counters[PrefixOf[v.forward[o].category]]
      BY DEF GoodVault, Sound, Books
    <2> HIDE DEF token, n
    <2>6. Spell(prefix, n) \notin DOMAIN v.reverse
      <3> SUFFICES ASSUME Spell(prefix, n) \in DOMAIN v.reverse PROVE FALSE
        OBVIOUS
      <3> DEFINE o == v.reverse[Spell(prefix, n)]
                 q == PrefixOf[v.forward[o].category]
                 m == v.forward[o].id
      <3>1. o \in DOMAIN v.forward /\ v.forward[o].token = Spell(prefix, n)
        BY DEF GoodVault, Sound
      <3>2. Spell(q, m) = Spell(prefix, n) /\ v.forward[o].category \in DOMAIN PrefixOf
        BY <3>1 DEF GoodVault, Distinct
      <3>3. m \in 1..v.counters[q] /\ q \in DOMAIN v.counters /\ v.counters[q] \in Nat
        BY <2>5, <3>1
      <3>4. IsText(q) /\ IsText(prefix)
        BY <3>2, PrivacyAssumption
      <3> HIDE DEF o, q, m
      <3> DEFINE A == ToSet(q) \cup ToSet(prefix)
      <3>5. q \in Seq(A) /\ prefix \in Seq(A)
        BY <3>4 DEF IsText
      <3>6. m \in Nat
        BY <3>3
      <3> HIDE DEF A, prefix
      <3>7. q = prefix /\ m = n
        BY <2>4, <3>2, <3>5, <3>6, SpellDiffers
      <3> QED BY <2>4, <3>3, <3>7
    <2>7. /\ DOMAIN g = DOMAIN v.forward \cup {original} /\ g[original] = token
          /\ \A x \in DOMAIN v.forward : g[x] = v.forward[x]
      BY <1>3 DEF Put
    <2>8. /\ DOMAIN t = DOMAIN v.reverse \cup {Spell(prefix, n)} /\ t[Spell(prefix, n)] = original
          /\ \A x \in DOMAIN v.reverse : t[x] = v.reverse[x]
      BY <2>3, <2>6 DEF Put
    <2> HIDE DEF g, t, prefix
    <2>9. \A o \in DOMAIN v.forward : v.forward[o].token \in DOMAIN v.reverse
      BY DEF GoodVault, Sound
    <2>10. ASSUME NEW o \in DOMAIN g
           PROVE  /\ g[o].category \in DOMAIN PrefixOf
                  /\ g[o].token = Spell(PrefixOf[g[o].category], g[o].id)
                  /\ t[g[o].token] = o
      <3>1. CASE o = original
        BY <2>3, <2>7, <2>8, <3>1 DEF prefix
      <3>2. CASE o # original
        BY <2>7, <2>8, <2>9, <3>2 DEF GoodVault, Distinct
      <3> QED BY <3>1, <3>2
    <2>11. Distinct(w)
      BY <2>0, <2>2, <2>7, <2>10 DEF Distinct
    <2> QED BY <1>1, <2>2, <2>7, <2>8, <2>11 DEF GoodVault, Grown
  <1> QED BY <1>2, <1>3

LEMMA GrownStays ==
    ASSUME NEW u, NEW v, NEW w, Grown(u, v), Grown(v, w)
    PROVE  Grown(u, w)
BY DEF Grown

\* Replacer::pseudonymize: afterwards each of the entities has its token.
LEMMA ReplaceGood ==
    ASSUME NEW text, NEW es, Entities(es), NEW v, GoodVault(v), NEW w, w = Pseudonymize(text, es, v).vault
    PROVE  GoodVault(w) /\ Grown(v, w) /\ \A k \in DOMAIN es : es[k].original \in DOMAIN w.forward
PROOF
  <1> DEFINE n == Len(es)
  <1>1. n \in Nat /\ DOMAIN es = 1..n
    BY TextIs DEF Entities
  <1>2. PICK g : /\ g[0] = v
                 /\ \A i \in 1..n : g[i] = GetOrCreate(g[i - 1], NoMatch, es[i].original, es[i].category).vault
                 /\ w = g[n]
    BY <1>1, ReplacesRecursion
  <1> DEFINE S == {k \in Nat : GoodVault(g[k]) /\ Grown(v, g[k]) /\ \A i \in 1..k : es[i].original \in DOMAIN g[k].forward}
  <1>4. 0 \in S
    BY <1>2 DEF Grown
  <1>5. ASSUME NEW k \in Nat, k < n, k \in S PROVE k + 1 \in S
    <2>1. k + 1 \in 1..n /\ (k + 1) - 1 = k /\ k + 1 \in Nat
      BY <1>1, <1>5
    <2> DEFINE u == g[k]
               z == g[k + 1]
    <2>2. z = GetOrCreate(u, NoMatch, es[k + 1].original, es[k + 1].category).vault
      BY <1>2, <2>1
    <2>3. IsEntity(es[k + 1])
      BY <1>1, <2>1 DEF Entities
    <2>4. GoodVault(u) /\ Grown(v, u) /\ \A i \in 1..k : es[i].original \in DOMAIN u.forward
      BY <1>5
    <2> HIDE DEF u, z
    <2>5. GoodVault(z) /\ Grown(u, z) /\ es[k + 1].original \in DOMAIN z.forward
      BY <2>2, <2>3, <2>4, CreateGood DEF IsEntity
    <2>6. Grown(v, z)
      BY <2>4, <2>5, GrownStays
    <2>7. \A i \in 1..(k + 1) : i \in 1..k \/ i = k + 1
      OBVIOUS
    <2>8. \A i \in 1..(k + 1) : es[i].original \in DOMAIN z.forward
      BY <2>4, <2>5, <2>7 DEF Grown
    <2> QED BY <2>1, <2>5, <2>6, <2>8 DEF z
  <1>6. 0..n \subseteq S
    BY <1>1, <1>4, <1>5, CountUp
  <1>7. n \in S
    BY <1>1, <1>6
  <1> QED BY <1>1, <1>2, <1>7

LEMMA MaskedVault ==
    ASSUME NEW s, NEW m
    PROVE  MaskString(s, m).vault = Pseudonymize(m.text, Detect(m.text, Toggles), s.vault).vault
PROOF
  <1> DEFINE es == Detect(m.text, Toggles)
             done == Pseudonymize(m.text, es, s.vault)
             a == Append(s.sent, done.text)
             b == s.count + Len(es)
             c == s.given \cup Given(es, done.vault)
  <1>1. MaskString(s, m) = [vault |-> done.vault, sent |-> a, count |-> b, given |-> c]
    BY Zenon DEF MaskString
  <1> HIDE DEF done, a, b, c
  <1>2. MaskString(s, m).vault = done.vault
    BY <1>1
  <1> QED BY <1>2 DEF done

\* mask_value, over the strings of a call.
LEMMA CallGood ==
    ASSUME NEW start, GoodVault(start.vault), NEW body, IsText(body), \A k \in DOMAIN body : IsText(body[k].text),
           NEW w, w = MaskStrings(start, body).vault
    PROVE  GoodVault(w) /\ Grown(start.vault, w)
PROOF
  <1> DEFINE n == Len(body)
             v == start.vault
  <1>1. n \in Nat /\ DOMAIN body = 1..n
    BY TextIs
  <1>2. PICK g : /\ g[0] = start
                 /\ \A i \in 1..n : g[i] = MaskString(g[i - 1], body[i])
                 /\ MaskStrings(start, body) = g[n]
    BY <1>1, MasksRecursion
  <1>3. \A i \in 1..n : g[i].vault = Pseudonymize(body[i].text, Detect(body[i].text, Toggles), g[i - 1].vault).vault
    BY <1>2, MaskedVault
  <1> DEFINE S == {k \in Nat : GoodVault(g[k].vault) /\ Grown(v, g[k].vault)}
  <1>4. 0 \in S
    BY <1>2 DEF Grown
  <1>5. ASSUME NEW k \in Nat, k < n, k \in S PROVE k + 1 \in S
    <2>1. k + 1 \in 1..n /\ (k + 1) - 1 = k /\ k + 1 \in Nat
      BY <1>1, <1>5
    <2> DEFINE u == g[k].vault
               z == g[k + 1].vault
               es == Detect(body[k + 1].text, Toggles)
    <2>2. z = Pseudonymize(body[k + 1].text, es, u).vault
      BY <1>3, <2>1
    <2>3. Entities(es)
      BY <1>1, <2>1, DetectIs
    <2>4. GoodVault(u) /\ Grown(v, u)
      BY <1>5
    <2> HIDE DEF u, z, es
    <2>5. GoodVault(z) /\ Grown(u, z)
      BY <2>2, <2>3, <2>4, ReplaceGood
    <2>6. Grown(v, z)
      BY <2>4, <2>5, GrownStays
    <2> QED BY <2>1, <2>5, <2>6 DEF z
  <1>6. 0..n \subseteq S
    BY <1>1, <1>4, <1>5, CountUp
  <1>7. n \in S
    BY <1>1, <1>6
  <1>8. w = g[n].vault
    BY <1>2
  <1> QED BY <1>7, <1>8

(***************************************************************************)
(* Sessions.                                                               *)
(***************************************************************************)
LEMMA NewGood == ASSUME NEW v PROVE GoodSession(NewSession, v)
BY FS_EmptySet DEF NewSession, GoodSession, Empty

LEMMA GoodGrown ==
    ASSUME NEW s, NEW v, NEW w, GoodSession(s, v), Grown(v, w)
    PROVE  GoodSession(s, w)
BY DEF GoodSession, Grown

LEMMA Elevates ==
    ASSUME NEW s, s = [entities |-> s.entities, count |-> s.count, sensitivity |-> s.sensitivity, keywords |-> s.keywords, corefs |-> s.corefs, stale |-> s.stale],
           NEW x, NEW y
    PROVE  [s EXCEPT !.sensitivity = x, !.keywords = y]
               = [entities |-> s.entities, count |-> s.count, sensitivity |-> x, keywords |-> y, corefs |-> s.corefs, stale |-> s.stale]
PROOF
  <1> DEFINE t == [s EXCEPT !.sensitivity = x, !.keywords = y]
             N == {"entities", "count", "sensitivity", "keywords", "corefs", "stale"}
  <1>1. DOMAIN s = N
    OBVIOUS
  <1>2. t = [z \in N |-> IF z = "sensitivity" THEN x ELSE IF z = "keywords" THEN y ELSE s[z]]
    BY <1>1
  <1> HIDE DEF t
  <1> QED BY <1>2 DEF t

LEMMA Ages ==
    ASSUME NEW s, s = [entities |-> s.entities, count |-> s.count, sensitivity |-> s.sensitivity, keywords |-> s.keywords, corefs |-> s.corefs, stale |-> s.stale],
           NEW x
    PROVE  [s EXCEPT !.stale = x]
               = [entities |-> s.entities, count |-> s.count, sensitivity |-> s.sensitivity, keywords |-> s.keywords, corefs |-> s.corefs, stale |-> x]
OBVIOUS

LEMMA CheckedGood ==
    ASSUME NEW s, NEW v, GoodSession(s, v), NEW text
    PROVE  GoodSession(CheckSensitivity(s, text), v)
PROOF
  <1> DEFINE found == Keywords \cap ToSet(text)
             t == [s EXCEPT !.sensitivity = "elevated", !.keywords = found]
  <1>1. CheckSensitivity(s, text) \in {s, t}
    BY DEF CheckSensitivity
  <1> HIDE DEF found
  <1>r. s = [entities |-> s.entities, count |-> s.count, sensitivity |-> s.sensitivity, keywords |-> s.keywords, corefs |-> s.corefs, stale |-> s.stale]
    BY DEF GoodSession
  <1>2. t = [entities |-> s.entities, count |-> s.count, sensitivity |-> "elevated", keywords |-> found, corefs |-> s.corefs, stale |-> s.stale]
    BY <1>r, Elevates, Zenon
  <1> HIDE DEF t
  <1>3. t.entities = s.entities /\ t.count = s.count /\ t.corefs = s.corefs /\ t.sensitivity = "elevated" /\ t.keywords = found /\ t.stale = s.stale
    BY <1>2
  <1>4. GoodSession(t, v)
    BY <1>2, <1>3 DEF GoodSession
  <1> QED BY <1>1, <1>4

LEMMA StaleGood ==
    ASSUME NEW s, NEW v, GoodSession(s, v)
    PROVE  GoodSession([s EXCEPT !.stale = TRUE], v)
PROOF
  <1> DEFINE t == [s EXCEPT !.stale = TRUE]
  <1>r. s = [entities |-> s.entities, count |-> s.count, sensitivity |-> s.sensitivity, keywords |-> s.keywords, corefs |-> s.corefs, stale |-> s.stale]
    BY DEF GoodSession
  <1>2. t = [entities |-> s.entities, count |-> s.count, sensitivity |-> s.sensitivity, keywords |-> s.keywords, corefs |-> s.corefs, stale |-> TRUE]
    BY <1>r, Ages, Zenon
  <1> HIDE DEF t
  <1>3. t.entities = s.entities /\ t.count = s.count /\ t.corefs = s.corefs /\ t.sensitivity = s.sensitivity /\ t.keywords = s.keywords /\ t.stale = TRUE
    BY <1>2
  <1>4. GoodSession(t, v)
    BY <1>2, <1>3 DEF GoodSession
  <1> QED BY <1>4 DEF t

\* One entity of a message: known already, or new with the token it was given.
LEMMA RecordGood ==
    ASSUME NEW s, NEW v, GoodSession(s, v), NEW e, IsEntity(e), NEW token \in DOMAIN v.reverse, NEW tokens
    PROVE  GoodSession(RecordEntity(s, e, token, tokens), v)
PROOF
  <1> DEFINE known == e.original \in DOMAIN s.entities
             related == (IF known THEN s.entities[e.original].related ELSE {}) \cup (tokens \ {token})
             entry == [token |-> IF known THEN s.entities[e.original].token ELSE token,
                       category |-> IF known THEN s.entities[e.original].category ELSE e.category,
                       first |-> IF known THEN s.entities[e.original].first ELSE s.count, last |-> s.count, related |-> related]
             m == Put(s.entities, e.original, entry)
             t == RecordEntity(s, e, token, tokens)
  <1>1. t = [s EXCEPT !.entities = m]
    BY Zenon DEF RecordEntity
  <1>2. /\ entry.token = IF known THEN s.entities[e.original].token ELSE token
        /\ entry.category = IF known THEN s.entities[e.original].category ELSE e.category
        /\ entry.last = s.count
    OBVIOUS
  <1> HIDE DEF entry
  <1>3. DOMAIN m = DOMAIN s.entities \cup {e.original} /\ m[e.original] = entry
        /\ \A x \in DOMAIN s.entities : x # e.original => m[x] = s.entities[x]
    BY DEF Put
  <1> HIDE DEF m
  <1>4. t = [entities |-> m, count |-> s.count, sensitivity |-> s.sensitivity, keywords |-> s.keywords, corefs |-> s.corefs, stale |-> s.stale]
    BY <1>1 DEF GoodSession
  <1> HIDE DEF t
  <1>5. t.entities = m /\ t.count = s.count /\ t.corefs = s.corefs /\ t.sensitivity = s.sensitivity /\ t.keywords = s.keywords /\ t.stale = s.stale
    BY <1>4
  <1>6. IsFiniteSet(DOMAIN m)
    BY <1>3, FS_AddElement DEF GoodSession
  <1>7. ASSUME NEW o \in DOMAIN m
        PROVE  /\ m[o].token \in DOMAIN v.reverse /\ m[o].category \in DOMAIN PrefixOf
               /\ m[o].last \in Nat /\ m[o].last <= s.count
    <2>1. CASE o = e.original
      BY <1>2, <1>3, <2>1 DEF GoodSession, IsEntity
    <2>2. CASE o # e.original
      BY <1>3, <2>2 DEF GoodSession
    <2> QED BY <2>1, <2>2
  <1>8. \A o \in DOMAIN s.entities : o \in DOMAIN m /\ m[o].token = s.entities[o].token
    BY <1>2, <1>3
  <1>9. \A c \in DOMAIN s.corefs : \E o \in DOMAIN m : m[o].token = s.corefs[c]
    BY <1>8 DEF GoodSession
  <1>10. t = [entities |-> t.entities, count |-> t.count, sensitivity |-> t.sensitivity, keywords |-> t.keywords, corefs |-> t.corefs, stale |-> t.stale]
    BY <1>4, <1>5
  <1>11. s.count \in Nat
    BY DEF GoodSession
  <1>12. GoodSession(t, v)
    BY <1>5, <1>6, <1>7, <1>9, <1>10, <1>11 DEF GoodSession
  <1> QED BY <1>12 DEF t

\* What may refer to an entity of a session refers to one it knows.
LEMMA SomeonePerson ==
    ASSUME NEW s, NEW category, Cardinality(RecentEntities(s, category)) = 1
    PROVE  /\ \E o : o \in RecentEntities(s, category)
           /\ RecentEntities(s, category) \subseteq OfCategory(s, category)
PROOF
  <1>1. Cardinality({}) = 0
    BY FS_EmptySet
  <1>2. RecentEntities(s, category) # {}
    BY <1>1
  <1> QED BY <1>2 DEF RecentEntities

LEMMA LatestIs ==
    ASSUME NEW s, NEW pick \in Latest(s)
    PROVE  /\ DOMAIN pick = {s.entities[o].category : o \in DOMAIN s.entities}
           /\ \A c \in DOMAIN pick : pick[c] \in DOMAIN s.entities
BY DEF Latest

LEMMA CorefsGood ==
    ASSUME NEW s, NEW c \in UpdateCoreferences(s)
    PROVE  \A x \in DOMAIN c : \E o \in DOMAIN s.entities : s.entities[o].token = c[x]
PROOF
  <1> DEFINE persons == RecentEntities(s, "person")
             pronouns == IF Cardinality(persons) = 1 THEN Pronouns ELSE {}
             articles(pick) == {a \in DOMAIN Articles : Articles[a] \in DOMAIN pick}
             initials == {Initials[o] : o \in Abbreviated(s)}
             meant(x, pick) ==
                 IF x \in pronouns THEN CHOOSE o \in persons : TRUE
                 ELSE IF x \in articles(pick) THEN pick[Articles[x]]
                 ELSE CHOOSE o \in Abbreviated(s) : Initials[o] = x
  <1>1. PICK pick \in Latest(s) : c = [x \in pronouns \cup articles(pick) \cup initials |-> s.entities[meant(x, pick)].token]
    BY Zenon DEF UpdateCoreferences
  <1>2. ASSUME NEW x \in pronouns \cup articles(pick) \cup initials PROVE meant(x, pick) \in DOMAIN s.entities
    <2>1. CASE x \in pronouns
      <3>1. Cardinality(persons) = 1
        BY <2>1
      <3>2. (CHOOSE o \in persons : TRUE) \in DOMAIN s.entities
        BY <3>1, SomeonePerson DEF OfCategory
      <3> QED BY <2>1, <3>2
    <2>2. CASE x \notin pronouns /\ x \in articles(pick)
      <3>1. meant(x, pick) = pick[Articles[x]]
        BY <2>2
      <3> QED BY <2>2, <3>1, LatestIs
    <2>3. CASE x \notin pronouns /\ x \notin articles(pick)
      <3>1. x \in initials
        BY <1>2, <2>3
      <3>2. (CHOOSE o \in Abbreviated(s) : Initials[o] = x) \in Abbreviated(s)
        BY <3>1
      <3>3. meant(x, pick) = CHOOSE o \in Abbreviated(s) : Initials[o] = x
        BY <2>3
      <3> QED BY <3>2, <3>3 DEF Abbreviated
    <2> QED BY <2>1, <2>2, <2>3
  <1> HIDE DEF meant, pronouns, articles, initials
  <1>3. DOMAIN c = pronouns \cup articles(pick) \cup initials
        /\ \A x \in DOMAIN c : c[x] = s.entities[meant(x, pick)].token
    BY <1>1
  <1> QED BY <1>2, <1>3

\* record_entities, entity by entity.
Counted(s) == [s EXCEPT !.count = @ + 1, !.stale = FALSE]
Referring(s, c) == [s EXCEPT !.corefs = c]
Settled(s, t) == t = s \/ \E c \in UpdateCoreferences(s) : t = Referring(s, c)

LEMMA RecordsRecursion ==
    ASSUME NEW s, NEW es, NEW tokens, NEW n \in Nat, Len(es) = n, NEW t \in RecordEntities(s, es, tokens)
    PROVE  \E g : /\ g[0] = Counted(s)
                  /\ \A i \in 1..n : g[i] = RecordEntity(g[i - 1], es[i], tokens[i], ToSet(tokens))
                  /\ Settled(g[n], t)
PROOF
  <1> DEFINE base == Counted(s)
             Op(u, i) == RecordEntity(u, es[i], tokens[i], ToSet(tokens))
             R(f, m) == [i \in 0..m |-> IF i = 0 THEN base ELSE Op(f[i - 1], i)]
             F == CHOOSE f : f = R(f, Len(es))
             G == F[Len(es)]
  <1>0. t \in IF Coreference THEN {Referring(G, c) : c \in UpdateCoreferences(G)} ELSE {G}
    BY Zenon DEF RecordEntities, Counted, Referring
  <1> HIDE DEF G
  <1>1. t = G \/ \E c \in UpdateCoreferences(G) : t = Referring(G, c)
    BY <1>0
  <1>2. G = (CHOOSE f : f = R(f, n))[n]
    BY Zenon DEF G
  <1> HIDE DEF Op, base, F
  <1>3. \E f : f = R(f, n)
    <2> DEFINE S == {m \in Nat : \E f : f = R(f, m)}
    <2>1. 0 \in S
      <3> DEFINE f == [i \in 0..0 |-> base]
      <3>1. f = R(f, 0)
        OBVIOUS
      <3> QED BY <3>1, 0 \in Nat, Zenon
    <2>2. ASSUME NEW k \in Nat, k < n, k \in S PROVE k + 1 \in S
      <3>1. PICK f : f = R(f, k)
        BY <2>2
      <3> DEFINE g == [i \in 0..(k + 1) |-> IF i <= k THEN f[i] ELSE Op(f[k], k + 1)]
      <3>2. \A i \in 0..k : f[i] = IF i = 0 THEN base ELSE Op(f[i - 1], i)
        BY <3>1, Zenon
      <3>3. ASSUME NEW i \in 0..(k + 1) PROVE g[i] = IF i = 0 THEN base ELSE Op(g[i - 1], i)
        <4>1. CASE i = k + 1
          <5>1. i # 0 /\ i - 1 = k /\ k \in 0..(k + 1) /\ k <= k /\ ~(i <= k)
            BY <4>1
          <5>2. g[k] = f[k] /\ g[i] = Op(f[k], i)
            BY <4>1, <5>1
          <5> HIDE DEF g
          <5> QED BY <5>1, <5>2
        <4>2. CASE i # k + 1 /\ i # 0
          <5>1. i \in 0..k /\ i <= k /\ i - 1 \in 0..(k + 1) /\ i - 1 <= k
            BY <4>2
          <5>2. g[i] = f[i] /\ g[i - 1] = f[i - 1]
            BY <5>1
          <5> HIDE DEF g
          <5> QED BY <3>2, <4>2, <5>1, <5>2
        <4>3. CASE i = 0
          <5>1. 0 \in 0..k /\ 0 <= k
            OBVIOUS
          <5>2. g[0] = f[0]
            BY <5>1
          <5> HIDE DEF g
          <5> QED BY <3>2, <4>3, <5>1, <5>2
        <4> QED BY <4>1, <4>2, <4>3
      <3>4. g = [i \in 0..(k + 1) |-> g[i]]
        OBVIOUS
      <3> HIDE DEF g
      <3>5. g = R(g, k + 1)
        BY <3>3, <3>4
      <3>6. k + 1 \in Nat
        OBVIOUS
      <3> QED BY <3>5, <3>6, Zenon
    <2>3. 0..n \subseteq S
      BY <2>1, <2>2, CountUp
    <2>4. n \in 0..n
      OBVIOUS
    <2> QED BY <2>3, <2>4, Zenon
  <1> DEFINE H == CHOOSE f : f = R(f, n)
  <1>4. H = R(H, n)
    BY <1>3
  <1> HIDE DEF H
  <1>5. \A i \in 0..n : H[i] = IF i = 0 THEN base ELSE Op(H[i - 1], i)
    BY <1>4, Zenon
  <1>6. H[0] = base /\ \A i \in 1..n : H[i] = Op(H[i - 1], i)
    BY <1>5
  <1>7. G = H[n]
    BY <1>2 DEF H
  <1> QED BY <1>1, <1>6, <1>7 DEF Op, base, Settled

LEMMA RecordsGood ==
    ASSUME NEW s, NEW v, GoodSession(s, v), NEW es, Entities(es), NEW tokens, DOMAIN tokens = DOMAIN es,
           \A k \in DOMAIN tokens : tokens[k] \in DOMAIN v.reverse, NEW t \in RecordEntities(s, es, tokens)
    PROVE  GoodSession(t, v)
PROOF
  <1> DEFINE n == Len(es)
  <1>1. n \in Nat /\ DOMAIN es = 1..n /\ Len(es) = n
    BY TextIs DEF Entities
  <1> HIDE DEF n
  <1>2. PICK g : /\ g[0] = Counted(s)
                 /\ \A i \in 1..n : g[i] = RecordEntity(g[i - 1], es[i], tokens[i], ToSet(tokens))
                 /\ Settled(g[n], t)
    BY <1>1, RecordsRecursion
  <1>r. s = [entities |-> s.entities, count |-> s.count, sensitivity |-> s.sensitivity, keywords |-> s.keywords, corefs |-> s.corefs, stale |-> s.stale]
    BY DEF GoodSession
  <1> DEFINE S == {k \in Nat : GoodSession(g[k], v)}
  <1>3. 0 \in S
    <2> DEFINE u == g[0]
    <2>1. u = [entities |-> s.entities, count |-> s.count + 1, sensitivity |-> s.sensitivity, keywords |-> s.keywords, corefs |-> s.corefs, stale |-> FALSE]
      BY <1>2, <1>r DEF Counted
    <2> HIDE DEF u
    <2>2. u.entities = s.entities /\ u.count = s.count + 1 /\ u.corefs = s.corefs /\ u.sensitivity = s.sensitivity /\ u.keywords = s.keywords /\ u.stale = FALSE
      BY <2>1
    <2>3. GoodSession(u, v)
      BY <2>1, <2>2 DEF GoodSession
    <2> QED BY <2>3 DEF u
  <1>4. ASSUME NEW k \in Nat, k < n, k \in S PROVE k + 1 \in S
    <2>1. k + 1 \in 1..n /\ (k + 1) - 1 = k /\ k + 1 \in Nat
      BY <1>1, <1>4
    <2>2. g[k + 1] = RecordEntity(g[k], es[k + 1], tokens[k + 1], ToSet(tokens))
      BY <1>2, <2>1
    <2>3. IsEntity(es[k + 1]) /\ tokens[k + 1] \in DOMAIN v.reverse
      BY <1>1, <2>1 DEF Entities
    <2>4. GoodSession(g[k + 1], v)
      BY <1>4, <2>2, <2>3, RecordGood
    <2> QED BY <2>1, <2>4
  <1>5. 0..n \subseteq S
    BY <1>1, <1>3, <1>4, CountUp
  <1>6. GoodSession(g[n], v)
    BY <1>1, <1>5
  <1>7. ASSUME NEW c \in UpdateCoreferences(g[n]), t = Referring(g[n], c) PROVE GoodSession(t, v)
    <2> DEFINE u == g[n]
    <2>0. u = [entities |-> u.entities, count |-> u.count, sensitivity |-> u.sensitivity, keywords |-> u.keywords, corefs |-> u.corefs, stale |-> u.stale]
      BY <1>6 DEF GoodSession
    <2>1. t = [entities |-> u.entities, count |-> u.count, sensitivity |-> u.sensitivity, keywords |-> u.keywords, corefs |-> c, stale |-> u.stale]
      BY <1>7, <2>0 DEF Referring
    <2>2. \A x \in DOMAIN c : \E o \in DOMAIN u.entities : u.entities[o].token = c[x]
      BY <1>7, CorefsGood
    <2> HIDE DEF u
    <2>3. t.entities = u.entities /\ t.count = u.count /\ t.corefs = c /\ t.sensitivity = u.sensitivity /\ t.keywords = u.keywords /\ t.stale = u.stale
      BY <2>1
    <2>4. GoodSession(u, v)
      BY <1>6 DEF u
    <2> QED BY <2>1, <2>2, <2>3, <2>4 DEF GoodSession
  <1> QED BY <1>2, <1>6, <1>7 DEF Settled

(***************************************************************************)
(* What a text refers to.                                                  *)
(***************************************************************************)
IsReference(c, v) == IsEntity(c.span) /\ c.token \in DOMAIN v.reverse
References(cs, v) == (\E n \in Nat : DOMAIN cs = 1..n) /\ \A k \in DOMAIN cs : IsReference(cs[k], v)

LEMMA CandidateIs ==
    ASSUME NEW text, NEW words, words # NoMatch, NEW category \in DOMAIN PrefixOf, NEW confidence, NEW v, NEW token \in DOMAIN v.reverse
    PROVE  IsReference(CandidateAt(text, words, category, confidence, token), v)
PROOF
  <1> DEFINE span == SpanAt(words, FirstOccurrence(text, words), category, confidence)
             c == CandidateAt(text, words, category, confidence, token)
  <1>1. c = [span |-> span, token |-> token]
    BY Zenon DEF CandidateAt
  <1>2. IsEntity(span)
    BY SpanIs
  <1> HIDE DEF span, c
  <1>3. c.span = span /\ c.token = token
    BY <1>1
  <1>4. IsReference(c, v)
    BY <1>2, <1>3 DEF IsReference
  <1> QED BY <1>4 DEF c

\* One of the four sources of references.
LEMMA PicturesRefer ==
    ASSUME NEW S, IsFiniteSet(S), NEW Q \in SUBSET S, NEW f, f = [x \in Q |-> f[x]], NEW v, \A x \in Q : IsReference(f[x], v),
           NEW T, T = {f[x] : x \in Q}
    PROVE  IsFiniteSet(T) /\ \A c \in T : IsReference(c, v)
PROOF
  <1>1. IsFiniteSet(Q)
    BY FS_Subset
  <1>2. DOMAIN f = Q /\ \A y \in T : \E x \in Q : y = f[x]
    BY Zenon
  <1>3. IsFiniteSet(T)
    BY <1>1, <1>2, PicturesFinite
  <1> QED BY <1>3

LEMMA CandidatesRefer ==
    ASSUME NEW s, NEW v, GoodSession(s, v), NEW text, NEW pick \in Latest(s)
    PROVE  IsFiniteSet(Candidates(s, text, pick)) /\ \A c \in Candidates(s, text, pick) : IsReference(c, v)
PROOF
  <1> DEFINE QA == {q \in Pronouns : Occurs(text, <<q>>) /\ Cardinality(RecentEntities(s, "person")) = 1}
             QB == {x \in DOMAIN Articles : Occurs(text, <<x>>) /\ Articles[x] \in DOMAIN pick}
             QC == {x \in Abbreviated(s) : Occurs(text, <<Initials[x]>>)}
             QD == {x \in OfCategory(s, "person") : x \in DOMAIN FirstName /\ Occurs(text, <<FirstName[x], "'s">>)}
             CA(p) == CandidateAt(text, <<p>>, "person", 70, s.entities[pick["person"]].token)
             CB(a) == CandidateAt(text, <<a>>, Articles[a], 60, s.entities[pick[Articles[a]]].token)
             CC(o) == CandidateAt(text, <<Initials[o]>>, s.entities[o].category, 65, s.entities[o].token)
             CD(o) == CandidateAt(text, <<FirstName[o], "'s">>, "person", 75, s.entities[o].token)
  <1>1. Candidates(s, text, pick) = {CA(p) : p \in QA} \cup {CB(a) : a \in QB} \cup {CC(o) : o \in QC} \cup {CD(o) : o \in QD}
    BY Zenon DEF Candidates
  <1>2. /\ QA \in SUBSET Pronouns /\ QB \in SUBSET DOMAIN Articles
        /\ QC \in SUBSET DOMAIN s.entities /\ QD \in SUBSET DOMAIN s.entities
    BY DEF Abbreviated, OfCategory
  <1>3. /\ IsFiniteSet(Pronouns) /\ IsFiniteSet(DOMAIN Articles) /\ IsFiniteSet(DOMAIN s.entities)
        /\ "person" \in DOMAIN PrefixOf /\ \A a \in DOMAIN Articles : Articles[a] \in DOMAIN PrefixOf
    BY PrivacyAssumption DEF GoodSession
  <1>4. \A o \in DOMAIN s.entities : s.entities[o].token \in DOMAIN v.reverse /\ s.entities[o].category \in DOMAIN PrefixOf
    BY DEF GoodSession
  <1>5. /\ DOMAIN pick = {s.entities[o].category : o \in DOMAIN s.entities}
        /\ \A c \in DOMAIN pick : pick[c] \in DOMAIN s.entities
    BY LatestIs
  <1>6. \A x : <<x>> # NoMatch /\ <<x, "'s">> # NoMatch
    BY DEF NoMatch
  <1>A. ASSUME NEW p \in QA PROVE IsReference(CA(p), v)
    <2>1. PICK o : o \in OfCategory(s, "person")
      BY SomeonePerson
    <2>2. "person" \in DOMAIN pick
      BY <1>5, <2>1 DEF OfCategory
    <2> QED BY <1>3, <1>4, <1>5, <1>6, <2>2, CandidateIs
  <1>B. ASSUME NEW a \in QB PROVE IsReference(CB(a), v)
    <2>1. Articles[a] \in DOMAIN PrefixOf /\ pick[Articles[a]] \in DOMAIN s.entities
      BY <1>3, <1>5
    <2> QED BY <1>4, <1>6, <2>1, CandidateIs
  <1>C. ASSUME NEW o \in QC PROVE IsReference(CC(o), v)
    BY <1>2, <1>4, <1>6, CandidateIs
  <1>D. ASSUME NEW o \in QD PROVE IsReference(CD(o), v)
    BY <1>2, <1>3, <1>4, <1>6, CandidateIs
  <1> HIDE DEF QA, QB, QC, QD, CA, CB, CC, CD
  <1> DEFINE TA == {CA(p) : p \in QA}
             TB == {CB(a) : a \in QB}
             TC == {CC(o) : o \in QC}
             TD == {CD(o) : o \in QD}
  <1>7. IsFiniteSet(TA) /\ \A c \in TA : IsReference(c, v)
    <2> DEFINE f == [p \in QA |-> CA(p)]
    <2>1. f = [x \in QA |-> f[x]] /\ (\A x \in QA : IsReference(f[x], v)) /\ TA = {f[x] : x \in QA}
      BY <1>A
    <2> HIDE DEF f, TA
    <2> QED BY <1>2, <1>3, <2>1, PicturesRefer
  <1>8. IsFiniteSet(TB) /\ \A c \in TB : IsReference(c, v)
    <2> DEFINE f == [p \in QB |-> CB(p)]
    <2>1. f = [x \in QB |-> f[x]] /\ (\A x \in QB : IsReference(f[x], v)) /\ TB = {f[x] : x \in QB}
      BY <1>B
    <2> HIDE DEF f, TB
    <2> QED BY <1>2, <1>3, <2>1, PicturesRefer
  <1>9. IsFiniteSet(TC) /\ \A c \in TC : IsReference(c, v)
    <2> DEFINE f == [p \in QC |-> CC(p)]
    <2>1. f = [x \in QC |-> f[x]] /\ (\A x \in QC : IsReference(f[x], v)) /\ TC = {f[x] : x \in QC}
      BY <1>C
    <2> HIDE DEF f, TC
    <2> QED BY <1>2, <1>3, <2>1, PicturesRefer
  <1>10. IsFiniteSet(TD) /\ \A c \in TD : IsReference(c, v)
    <2> DEFINE f == [p \in QD |-> CD(p)]
    <2>1. f = [x \in QD |-> f[x]] /\ (\A x \in QD : IsReference(f[x], v)) /\ TD = {f[x] : x \in QD}
      BY <1>D
    <2> HIDE DEF f, TD
    <2> QED BY <1>2, <1>3, <2>1, PicturesRefer
  <1>11. Candidates(s, text, pick) = TA \cup TB \cup TC \cup TD
    BY <1>1
  <1> HIDE DEF TA, TB, TC, TD
  <1>12. IsFiniteSet(TA \cup TB \cup TC \cup TD)
    <2>1. IsFiniteSet(TA \cup TB)
      BY <1>7, <1>8, FS_Union
    <2>2. IsFiniteSet(TA \cup TB \cup TC)
      BY <1>9, <2>1, FS_Union
    <2> QED BY <1>10, <2>2, FS_Union
  <1> QED BY <1>7, <1>8, <1>9, <1>10, <1>11, <1>12

\* resolve_coreferences.
LEMMA ResolveGood ==
    ASSUME NEW s, NEW v, GoodSession(s, v), NEW text, NEW cs \in ResolveCoreferences(s, text)
    PROVE  References(cs, v)
PROOF
  <1> DEFINE cands(pick) == Candidates(s, text, pick)
             places(pick) == {c.span.start : c \in cands(pick)}
             starts(pick) == Sorted(places(pick), {ij \in places(pick) \X places(pick) : ij[1] < ij[2]})
             lists(pick) == {f \in [DOMAIN starts(pick) -> cands(pick)] : \A i \in DOMAIN starts(pick) : f[i] \in Surviving(cands(pick), starts(pick)[i])}
  <1>1. cs \in IF ~Coreference \/ DOMAIN s.entities = {} THEN {<<>>} ELSE UNION {lists(pick) : pick \in Latest(s)}
    BY Zenon DEF ResolveCoreferences
  <1>2. CASE cs = <<>>
    <2>1. DOMAIN cs = 1..0 /\ 0 \in Nat
      BY <1>2
    <2>2. DOMAIN cs = {}
      BY <1>2
    <2> QED BY <2>1, <2>2 DEF References
  <1>3. CASE cs # <<>>
    <2>1. PICK pick \in Latest(s) : cs \in lists(pick)
      <3> HIDE DEF lists
      <3> QED BY <1>1, <1>3
    <2>2. IsFiniteSet(cands(pick)) /\ \A c \in cands(pick) : IsReference(c, v)
      BY CandidatesRefer
    <2>3. cs \in [DOMAIN starts(pick) -> cands(pick)]
      BY <2>1, Zenon
    <2>4. IsFiniteSet(places(pick))
      <3> DEFINE f == [c \in cands(pick) |-> c.span.start]
      <3>1. DOMAIN f = cands(pick) /\ f = [c \in cands(pick) |-> f[c]] /\ \A y \in places(pick) : \E c \in cands(pick) : y = f[c]
        BY Zenon
      <3> HIDE DEF f, cands, places
      <3> QED BY <2>2, <3>1, PicturesFinite
    <2> HIDE DEF cands, places
    <2>5. starts(pick) \in Seq(places(pick))
      BY <2>4, SortedIn
    <2> HIDE DEF starts
    <2>6. DOMAIN starts(pick) = 1..Len(starts(pick)) /\ Len(starts(pick)) \in Nat
      BY <2>5, SeqIs
    <2>7. DOMAIN cs = 1..Len(starts(pick)) /\ \A k \in DOMAIN cs : cs[k] \in cands(pick)
      BY <2>3, <2>6
    <2> QED BY <2>2, <2>6, <2>7 DEF References
  <1> QED BY <1>2, <1>3

\* What the session resolves is added to what was found.
LEMMA AddsGood ==
    ASSUME NEW es, Entities(es), NEW v, NEW cs, References(cs, v), NEW f, f = AddCoreferences(es, cs)
    PROVE  Entities(f.entities) /\ \A k \in DOMAIN f.resolved : f.resolved[k] \in DOMAIN v.reverse
PROOF
  <1> DEFINE Good(u) == Entities(u.entities) /\ \A k \in DOMAIN u.resolved : u.resolved[k] \in DOMAIN v.reverse
  <1>1. PICK n \in Nat : DOMAIN cs = 1..n
    BY DEF References
  <1>2. PICK g : /\ g[0] = [entities |-> es, resolved |-> Empty]
                 /\ \A i \in 1..n : g[i] = AddCoreference(g[i - 1], cs[i])
                 /\ AddCoreferences(es, cs) = g[n]
    BY <1>1, AddsRecursion
  <1>3. ASSUME NEW u, Good(u), NEW c, IsReference(c, v) PROVE Good(AddCoreference(u, c))
    <2> DEFINE e == Append(u.entities, c.span)
               r == Put(u.resolved, Len(u.entities) + 1, c.token)
               w == AddCoreference(u, c)
    <2>1. w = u \/ w = [entities |-> e, resolved |-> r]
      BY Zenon DEF AddCoreference
    <2>2. Entities(e)
      <3> DEFINE T == {x \in ToSet(u.entities) \cup {c.span} : IsEntity(x)}
      <3>1. u.entities \in Seq(T)
        <4>1. DOMAIN u.entities = 1..Len(u.entities) /\ Len(u.entities) \in Nat /\ u.entities \in [1..Len(u.entities) -> ToSet(u.entities)]
          BY <1>3 DEF Entities, IsText
        <4>2. \A k \in 1..Len(u.entities) : u.entities[k] \in T
          BY <1>3, <4>1 DEF Entities
        <4> HIDE DEF T
        <4>3. u.entities \in [1..Len(u.entities) -> T]
          BY <4>1, <4>2
        <4> QED BY <4>1, <4>3
      <3>2. c.span \in T
        BY <1>3 DEF IsReference
      <3>3. \A x \in T : IsEntity(x)
        OBVIOUS
      <3> HIDE DEF T
      <3>4. e \in Seq(T)
        BY <3>1, <3>2
      <3> HIDE DEF e
      <3> QED BY <3>3, <3>4, SeqIs DEF Entities
    <2>3. \A k \in DOMAIN r : r[k] \in DOMAIN v.reverse
      BY <1>3 DEF Put, IsReference
    <2> HIDE DEF e, r, w
    <2>4. w = [entities |-> e, resolved |-> r] => w.entities = e /\ w.resolved = r
      OBVIOUS
    <2>5. Good(w)
      BY <1>3, <2>1, <2>2, <2>3, <2>4
    <2> QED BY <2>5 DEF w
  <1> DEFINE S == {k \in Nat : Good(g[k])}
  <1>4. 0 \in S
    <2>1. g[0].entities = es /\ g[0].resolved = Empty
      BY <1>2
    <2>2. DOMAIN Empty = {}
      BY DEF Empty
    <2> QED BY <2>1, <2>2
  <1> HIDE DEF Good
  <1>5. ASSUME NEW k \in Nat, k < n, k \in S PROVE k + 1 \in S
    <2>1. k + 1 \in 1..n /\ (k + 1) - 1 = k /\ k + 1 \in Nat
      BY <1>5
    <2>2. g[k + 1] = AddCoreference(g[k], cs[k + 1])
      BY <1>2, <2>1
    <2>3. IsReference(cs[k + 1], v)
      BY <1>1, <2>1 DEF References
    <2>4. Good(g[k + 1])
      BY <1>3, <1>5, <2>2, <2>3
    <2> QED BY <2>1, <2>4
  <1>6. 0..n \subseteq S
    BY <1>4, <1>5, CountUp
  <1>7. Good(g[n])
    BY <1>6
  <1> QED BY <1>2, <1>7 DEF Good

LEMMA OrderGood ==
    ASSUME NEW es, Entities(es)
    PROVE  Entities(InOrder(es))
PROOF
  <1> DEFINE all == ToSet(es)
             before == {xy \in all \X all : xy[1].start < xy[2].start}
  <1>1. InOrder(es) = Sorted(all, before)
    BY Zenon DEF InOrder
  <1>2. DOMAIN es = 1..Len(es) /\ Len(es) \in Nat /\ es = [k \in 1..Len(es) |-> es[k]]
    BY DEF Entities, IsText
  <1>3. \A x \in all : \E k \in 1..Len(es) : x = es[k]
    BY <1>2 DEF ToSet
  <1>4. \A x \in all : IsEntity(x)
    BY <1>2, <1>3 DEF Entities
  <1> HIDE DEF all, before
  <1>5. IsFiniteSet(1..Len(es))
    BY <1>2, FS_Interval
  <1>6. IsFiniteSet(all)
    BY <1>2, <1>3, <1>5, PicturesFinite
  <1>7. InOrder(es) \in Seq(all)
    BY <1>1, <1>6, SortedIn
  <1> QED BY <1>4, <1>7, SeqIs DEF Entities

\* The tokens a message is recorded with are in the vault.
LEMMA TokensGood ==
    ASSUME NEW es, NEW resolved, NEW v, NEW w, Grown(v, w), GoodVault(w),
           \A k \in DOMAIN resolved : resolved[k] \in DOMAIN v.reverse, \A k \in DOMAIN es : es[k].original \in DOMAIN w.forward,
           NEW ts, ts = TokensFor(es, resolved, w)
    PROVE  DOMAIN ts = DOMAIN es /\ \A k \in DOMAIN ts : ts[k] \in DOMAIN w.reverse
PROOF
  <1>1. DOMAIN ts = DOMAIN es /\ \A k \in DOMAIN ts : ts[k] = IF k \in DOMAIN resolved THEN resolved[k] ELSE w.forward[es[k].original].token
    BY DEF TokensFor
  <1>2. \A o \in DOMAIN w.forward : w.forward[o].token \in DOMAIN w.reverse
    BY DEF GoodVault, Sound
  <1> QED BY <1>1, <1>2 DEF Grown

(***************************************************************************)
(* The steps.  A step of a request changes that request only, in one of    *)
(* three ways as to the vault's lock, and the vault only grows.            *)
(***************************************************************************)
Frame(r) ==
    /\ mode' = mode
    /\ req' = [q \in Requests |-> req'[q]]
    /\ \A q \in Requests : q # r => req'[q] = req[q]
    /\ req'[r] = [f \in InRequest |-> req'[r][f]]
    /\ req'[r].ask = req[r].ask
Counting(r) == req'[r].i \in Nat /\ req'[r].i >= 1 /\ (req'[r].pc = "detect" => req'[r].i <= Len(Body(r)))
LockMoves(r) ==
    \/ lock' = lock /\ (HoldsLock(r)' <=> HoldsLock(r))
    \/ lock = Nobody /\ lock' = r /\ HoldsLock(r)'
    \/ HoldsLock(r) /\ lock' = Nobody /\ ~HoldsLock(r)'
SameDetector(r) == UNCHANGED <<config, detector, reported>> /\ req'[r].pc # "swap"

LEMMA FieldsAre ==
    ASSUME Shaped, NEW r \in Requests
    PROVE  DOMAIN req = Requests /\ DOMAIN req[r] = InRequest
BY DEF Shaped

LEMMA SameDetectorGood ==
    ASSUME Configured, NEW r \in Requests, Frame(r), SameDetector(r)
    PROVE  Configured'
PROOF
  <1>1. ASSUME NEW q \in Requests, At(q, "swap")' PROVE config'.building = q /\ req'[q].built = config'.on
    <2>1. q # r
      BY <1>1 DEF At, SameDetector
    <2>2. req'[q] = req[q]
      BY <2>1 DEF Frame
    <2> QED BY <1>1, <2>2 DEF At, SameDetector, Configured
  <1>2. config' = config /\ detector' = detector /\ reported' = reported
    BY DEF SameDetector
  <1> QED BY <1>1, <1>2 DEF Configured

LEMMA StepGood ==
    ASSUME PrivacyBooks, NEW r \in Requests, Frame(r), Counting(r), LockMoves(r), Configured',
           GoodVault(vault'), Grown(vault, vault'), RecordingOf(r)', Conversing'
    PROVE  PrivacyBooks'
PROOF
  <1> USE DEF PrivacyBooks
  <1>1. Shaped'
    <2>1. ASSUME NEW q \in Requests
          PROVE  /\ req'[q] = [f \in InRequest |-> req'[q][f]]
                 /\ req'[q].ask \in Asks[q][mode']
                 /\ req'[q].i \in Nat /\ req'[q].i >= 1
                 /\ At(q, "detect")' => req'[q].i <= Len(Body(q)')
      <3>1. CASE q = r
        BY <3>1 DEF Frame, Counting, Shaped, At, Body
      <3>2. CASE q # r
        <4>1. req'[q] = req[q]
          BY <3>2 DEF Frame
        <4> QED BY <4>1 DEF Frame, Shaped, At, Body
      <3> QED BY <3>1, <3>2
    <2>2. mode' \in Modes /\ req' = [q \in Requests |-> req'[q]]
      BY DEF Frame, Shaped
    <2> QED BY <2>1, <2>2 DEF Shaped
  <1>2. Locked'
    <2>1. \A q \in Requests : q # r => (HoldsLock(q)' <=> HoldsLock(q))
      BY DEF Frame, HoldsLock
    <2>2. Nobody \notin Requests
      BY PrivacyAssumption DEF Nobody
    <2>3. /\ lock = Nobody \/ (lock \in Requests /\ HoldsLock(lock))
          /\ \A q \in Requests : HoldsLock(q) => lock = q
      BY DEF Locked
    <2>4. CASE lock' = lock /\ (HoldsLock(r)' <=> HoldsLock(r))
      <3>1. \A q \in Requests : HoldsLock(q)' <=> HoldsLock(q)
        BY <2>1, <2>4
      <3>2. \A q \in Requests : HoldsLock(q)' => lock' = q
        BY <2>3, <2>4, <3>1
      <3>3. lock' = Nobody \/ (lock' \in Requests /\ req'[lock'].pc \in {"message", "detect", "record"})
        BY <2>3, <2>4, <3>1 DEF HoldsLock
      <3> QED BY <3>2, <3>3 DEF Locked, HoldsLock
    <2>5. CASE lock = Nobody /\ lock' = r /\ HoldsLock(r)'
      <3>1. \A q \in Requests : HoldsLock(q)' => lock' = q
        BY <2>1, <2>2, <2>3, <2>5
      <3>2. lock' \in Requests /\ req'[lock'].pc \in {"message", "detect", "record"}
        BY <2>5 DEF HoldsLock
      <3> QED BY <3>1, <3>2 DEF Locked, HoldsLock
    <2>6. CASE HoldsLock(r) /\ lock' = Nobody /\ ~HoldsLock(r)'
      <3>1. \A q \in Requests : ~HoldsLock(q)'
        BY <2>1, <2>3, <2>6
      <3> QED BY <2>6, <3>1 DEF Locked, HoldsLock
    <2> QED BY <2>4, <2>5, <2>6 DEF LockMoves
  <1>3. Recording'
    <2>1. ASSUME NEW q \in Requests, q # r PROVE RecordingOf(q)'
      <3>1. req'[q] = req[q] /\ mode' = mode
        BY <2>1 DEF Frame
      <3>2. RecordingOf(q)
        BY DEF Recording
      <3>3. DOMAIN vault.reverse \subseteq DOMAIN vault'.reverse
        BY DEF Grown
      <3> QED BY <3>1, <3>2, <3>3 DEF RecordingOf, At
    <2> QED BY <2>1 DEF Recording
  <1> QED BY <1>1, <1>2, <1>3

\* A step that leaves vault, sessions and configuration alone.
LEMMA QuietGood ==
    ASSUME PrivacyBooks, NEW r \in Requests, Frame(r), Counting(r), LockMoves(r), UNCHANGED <<vault, sessions, config, detector, reported>>,
           req'[r].pc \notin {"swap", "record"}, RecordingOf(r)'
    PROVE  PrivacyBooks'
PROOF
  <1>1. vault' = vault /\ sessions' = sessions
    OBVIOUS
  <1>2. GoodVault(vault') /\ Grown(vault, vault')
    BY <1>1 DEF PrivacyBooks, Grown
  <1>3. Conversing'
    BY <1>1 DEF PrivacyBooks, Conversing
  <1>4. Configured'
    BY SameDetectorGood DEF PrivacyBooks, SameDetector
  <1> QED BY <1>2, <1>3, <1>4, StepGood

LEMMA GrownConversing ==
    ASSUME Conversing, Grown(vault, vault'), sessions' = sessions
    PROVE  Conversing'
BY GoodGrown DEF Conversing

\* A request that keeps its entities and tokens and is not about to use them.
LEMMA CarriesOn ==
    ASSUME PrivacyBooks, NEW r \in Requests, Frame(r), req'[r].entities = req[r].entities, req'[r].tokens = req[r].tokens,
           req'[r].pc \notin {"record", "replace"}
    PROVE  RecordingOf(r)'
BY DEF PrivacyBooks, Recording, RecordingOf, Frame, At

LEMMA PassGood ==
    ASSUME PrivacyBooks, NEW r \in Requests, Frame(r), LockMoves(r), UNCHANGED <<vault, sessions, config, detector, reported>>,
           req'[r].i = req[r].i, req'[r].entities = req[r].entities, req'[r].tokens = req[r].tokens,
           req'[r].pc \notin {"swap", "record", "replace", "detect"}
    PROVE  PrivacyBooks'
PROOF
  <1>1. Counting(r)
    BY DEF PrivacyBooks, Shaped, Counting
  <1>2. RecordingOf(r)'
    BY CarriesOn
  <1> QED BY <1>1, <1>2, QuietGood

\* What a request may ask.
LEMMA AskIs ==
    ASSUME Shaped, NEW r \in Requests
    PROVE  /\ mode \in {"proxy", "server", "interceptor"}
           /\ Kind(r) \in {"mask", "restore", "configure"} => mode = "server"
           /\ IsText(Body(r)) /\ \A k \in DOMAIN Body(r) : IsText(Body(r)[k].text)
           /\ Kind(r) = "mask" => Body(r) # <<>>
           /\ Kind(r) = "chat" => SessionOf(r) \in Ids \cup {NoSession}
           /\ Kind(r) = "configure" => req[r].ask.enable \subseteq Categories
PROOF
  <1> DEFINE a == req[r].ask
  <1>1. mode \in Modes /\ a \in Asks[r][mode]
    BY DEF Shaped
  <1>2. mode \in DOMAIN Kinds
    BY <1>1, PrivacyAssumption
  <1>3. mode \in {"proxy", "server", "interceptor"}
    BY <1>2 DEF Kinds
  <1>4. /\ a.kind \in Kinds[mode]
        /\ IsText(a.body) /\ \A k \in DOMAIN a.body : IsText(a.body[k].text)
        /\ a.kind = "mask" => a.body # <<>>
        /\ a.kind = "chat" => a.session \in Ids \cup {NoSession}
        /\ a.kind = "configure" => a.enable \subseteq Categories
    BY <1>1, PrivacyAssumption
  <1>5. a.kind \in {"mask", "restore", "configure"} => mode = "server"
    BY <1>3, <1>4 DEF Kinds
  <1> QED BY <1>3, <1>4, <1>5 DEF Kind, Body, SessionOf

LEMMA ArrivesPreserves == ASSUME PrivacyBooks, NEW r \in Requests, Arrives(r) PROVE PrivacyBooks'
PROOF
  <1>0. DOMAIN req = Requests /\ DOMAIN req[r] = InRequest /\ req' = [req EXCEPT ![r].pc = "wait"]
    BY FieldsAre DEF PrivacyBooks, Arrives
  <1>1. /\ Frame(r) /\ req'[r].pc = "wait" /\ req'[r].i = req[r].i /\ req'[r].entities = req[r].entities
        /\ req'[r].tokens = req[r].tokens
    BY <1>0 DEF Arrives, Frame, InRequest
  <1>2. Counting(r) /\ LockMoves(r) /\ SameDetector(r)
    BY <1>1 DEF Arrives, PrivacyBooks, Shaped, Counting, LockMoves, SameDetector, HoldsLock, At
  <1>3. RecordingOf(r)' /\ Configured'
    BY <1>1, <1>2, CarriesOn, SameDetectorGood DEF PrivacyBooks
  <1>4. vault' = vault
    BY DEF Arrives
  <1>5. Conversing'
    <2>1. CASE sessions' = sessions
      BY <1>4, <2>1 DEF PrivacyBooks, Conversing
    <2>2. CASE sessions' # sessions
      <3>1. SessionOf(r) \in Ids /\ sessions' = Put(sessions, SessionOf(r), NewSession)
        BY <2>2, AskIs DEF Arrives, OpenSession, PrivacyBooks
      <3> DEFINE id == SessionOf(r)
      <3>2. /\ DOMAIN sessions' = DOMAIN sessions \cup {id} /\ sessions'[id] = NewSession
            /\ \A x \in DOMAIN sessions : x # id => sessions'[x] = sessions[x]
        BY <3>1 DEF Put
      <3>3. GoodSession(NewSession, vault)
        BY NewGood
      <3> QED BY <1>4, <3>1, <3>2, <3>3 DEF PrivacyBooks, Conversing
    <2> QED BY <2>1, <2>2
  <1>6. GoodVault(vault') /\ Grown(vault, vault')
    BY <1>4 DEF PrivacyBooks, Grown
  <1> QED BY <1>1, <1>2, <1>3, <1>5, <1>6, StepGood

LEMMA TakesVaultPreserves == ASSUME PrivacyBooks, NEW r \in Requests, TakesVault(r) PROVE PrivacyBooks'
PROOF
  <1>0. DOMAIN req = Requests /\ DOMAIN req[r] = InRequest /\ req' = [req EXCEPT ![r].pc = "message"]
    BY FieldsAre DEF PrivacyBooks, TakesVault
  <1>1. /\ Frame(r) /\ req'[r].pc = "message" /\ req'[r].i = req[r].i /\ req'[r].entities = req[r].entities
        /\ req'[r].tokens = req[r].tokens
    BY <1>0 DEF TakesVault, Frame, InRequest
  <1>2. LockMoves(r)
    BY <1>1 DEF TakesVault, LockMoves, HoldsLock
  <1> QED BY <1>1, <1>2, PassGood DEF TakesVault

LEMMA NextMessagePreserves == ASSUME PrivacyBooks, NEW r \in Requests, NextMessage(r) PROVE PrivacyBooks'
PROOF
  <1>0. DOMAIN req = Requests /\ DOMAIN req[r] = InRequest /\ req[r].i \in Nat /\ req[r].i >= 1
    BY FieldsAre DEF PrivacyBooks, Shaped
  <1>1. CASE Body(r)[req[r].i].form = "text"
    <2>0. req' = [req EXCEPT ![r].pc = "detect"]
      BY <1>1 DEF NextMessage
    <2>1. /\ Frame(r) /\ req'[r].pc = "detect" /\ req'[r].i = req[r].i /\ req'[r].entities = req[r].entities
          /\ req'[r].tokens = req[r].tokens
      BY <1>0, <2>0 DEF NextMessage, Frame, InRequest
    <2>2. Counting(r) /\ LockMoves(r) /\ SameDetector(r)
      BY <1>0, <2>1 DEF NextMessage, Counting, LockMoves, SameDetector, HoldsLock, At
    <2>3. RecordingOf(r)' /\ Configured'
      BY <2>1, <2>2, CarriesOn, SameDetectorGood DEF PrivacyBooks
    <2>4. vault' = vault
      BY DEF NextMessage
    <2>5. Conversing'
      <3>1. CASE ~InSession(r)
        <4>1. sessions' = sessions
          BY <1>1, <3>1 DEF NextMessage
        <4> QED BY <2>4, <4>1 DEF PrivacyBooks, Conversing
      <3>2. CASE InSession(r)
        <4> DEFINE id == SessionOf(r)
                   s == CheckSensitivity(sessions[id], Text(r))
        <4>1. id \in DOMAIN sessions /\ sessions' = [sessions EXCEPT ![id] = s]
          BY <1>1, <3>2 DEF NextMessage, InSession
        <4>2. GoodSession(s, vault)
          BY <4>1, CheckedGood DEF PrivacyBooks, Conversing
        <4> HIDE DEF id, s
        <4>3. DOMAIN sessions' = DOMAIN sessions /\ \A x \in DOMAIN sessions : sessions'[x] = s \/ sessions'[x] = sessions[x]
          BY <4>1
        <4> QED BY <2>4, <4>2, <4>3 DEF PrivacyBooks, Conversing
      <3> QED BY <3>1, <3>2
    <2>6. GoodVault(vault') /\ Grown(vault, vault')
      BY <2>4 DEF PrivacyBooks, Grown
    <2> QED BY <2>1, <2>2, <2>3, <2>5, <2>6, StepGood
  <1>2. CASE Body(r)[req[r].i].form # "text"
    <2>0. req' = [req EXCEPT ![r].i = @ + 1, ![r].sent = Append(@, Text(r))]
      BY <1>2 DEF NextMessage
    <2>1. /\ Frame(r) /\ req'[r].pc = req[r].pc /\ req'[r].i = req[r].i + 1 /\ req'[r].entities = req[r].entities
          /\ req'[r].tokens = req[r].tokens
      BY <1>0, <2>0 DEF NextMessage, Frame, InRequest
    <2>2. req[r].pc = "message" /\ UNCHANGED <<vault, sessions, config, detector, reported>>
      BY <1>2 DEF NextMessage, At
    <2>3. Counting(r) /\ LockMoves(r)
      BY <1>0, <2>1, <2>2 DEF NextMessage, Counting, LockMoves, HoldsLock
    <2>4. RecordingOf(r)'
      BY <2>1, <2>2, CarriesOn
    <2> QED BY <2>1, <2>2, <2>3, <2>4, QuietGood
  <1> QED BY <1>1, <1>2

LEMMA MasksPreserves == ASSUME PrivacyBooks, NEW r \in Requests, Masks(r) PROVE PrivacyBooks'
PROOF
  <1>0. /\ DOMAIN req = Requests /\ DOMAIN req[r] = InRequest /\ req[r].i \in Nat /\ req[r].i >= 1
        /\ req[r].pc = "detect" /\ req[r].i <= Len(Body(r))
    BY FieldsAre DEF PrivacyBooks, Shaped, Masks, At
  <1>1. IsText(Text(r))
    <2>1. IsText(Body(r)) /\ \A k \in DOMAIN Body(r) : IsText(Body(r)[k].text)
      BY AskIs DEF PrivacyBooks
    <2>2. DOMAIN Body(r) = 1..Len(Body(r)) /\ Len(Body(r)) \in Nat
      BY <2>1, TextIs
    <2>3. req[r].i \in DOMAIN Body(r)
      BY <1>0, <2>2
    <2> QED BY <2>1, <2>3 DEF Text
  <1> DEFINE Found(cs) == AddCoreferences(Detect(Text(r), Toggles), cs)
             Es(cs) == InOrder(Found(cs).entities)
             Done(cs) == Pseudonymize(Text(r), Es(cs), vault)
  <1>2. PICK cs \in (IF InSession(r) THEN ResolveCoreferences(sessions[SessionOf(r)], Text(r)) ELSE {<<>>}) :
          IF Es(cs) = <<>>
          THEN /\ req' = [req EXCEPT ![r].pc = "message", ![r].i = @ + 1, ![r].sent = Append(@, Text(r))]
               /\ UNCHANGED <<vault, given>>
          ELSE /\ req' = [req EXCEPT ![r].pc = "record", ![r].entities = Es(cs), ![r].sent = Append(@, Done(cs).text),
                                     ![r].tokens = TokensFor(Es(cs), Found(cs).resolved, Done(cs).vault)]
               /\ vault' = Done(cs).vault
               /\ given' = given \cup Given(Es(cs), Done(cs).vault)
    BY Zenon DEF Masks
  <1>3. References(cs, vault)
    <2>1. CASE InSession(r)
      <3>1. cs \in ResolveCoreferences(sessions[SessionOf(r)], Text(r))
        BY <1>2, <2>1
      <3>2. GoodSession(sessions[SessionOf(r)], vault)
        BY <2>1 DEF InSession, PrivacyBooks, Conversing
      <3> QED BY <3>1, <3>2, ResolveGood
    <2>2. CASE ~InSession(r)
      <3>1. cs = <<>>
        BY <1>2, <2>2
      <3>2. DOMAIN cs = 1..0 /\ 0 \in Nat /\ DOMAIN cs = {}
        BY <3>1
      <3> QED BY <3>2 DEF References
    <2> QED BY <2>1, <2>2
  <1> DEFINE f == Found(cs)
             es == Es(cs)
             w == Done(cs).vault
             ts == TokensFor(es, f.resolved, w)
             text == Done(cs).text
  <1>4. Entities(f.entities) /\ \A k \in DOMAIN f.resolved : f.resolved[k] \in DOMAIN vault.reverse
    BY <1>1, <1>3, DetectIs, AddsGood
  <1>5. Entities(es)
    BY <1>4, OrderGood
  <1>6. GoodVault(w) /\ Grown(vault, w) /\ \A k \in DOMAIN es : es[k].original \in DOMAIN w.forward
    BY <1>5, ReplaceGood DEF PrivacyBooks
  <1>7. IF es = <<>>
        THEN /\ req' = [req EXCEPT ![r].pc = "message", ![r].i = @ + 1, ![r].sent = Append(@, Text(r))]
             /\ vault' = vault
        ELSE /\ req' = [req EXCEPT ![r].pc = "record", ![r].entities = es, ![r].sent = Append(@, text), ![r].tokens = ts]
             /\ vault' = w
    BY <1>2, Zenon
  <1>8. DOMAIN ts = DOMAIN es /\ \A k \in DOMAIN ts : ts[k] \in DOMAIN w.reverse
    <2> HIDE DEF f, es, w
    <2> QED BY <1>4, <1>6, TokensGood
  <1>9. Len(ts) = Len(es)
    <2>1. DOMAIN es = 1..Len(es) /\ Len(es) \in Nat
      BY <1>5, TextIs DEF Entities
    <2>2. ts = [k \in DOMAIN es |-> ts[k]]
      BY Zenon DEF TokensFor
    <2> HIDE DEF ts, es
    <2>3. ts = [k \in 1..Len(es) |-> ts[k]]
      BY <2>1, <2>2
    <2> QED BY <2>1, <2>3, ListIs
  <1> HIDE DEF f, es, w, ts, text, Found, Es, Done
  <1>10. lock' = lock /\ sessions' = sessions /\ mode' = mode /\ UNCHANGED <<config, detector, reported>>
    BY DEF Masks
  <1>11. CASE es = <<>>
    <2>0. req' = [req EXCEPT ![r].pc = "message", ![r].i = @ + 1, ![r].sent = Append(@, Text(r))] /\ vault' = vault
      BY <1>7, <1>11
    <2>1. /\ Frame(r) /\ req'[r].pc = "message" /\ req'[r].i = req[r].i + 1 /\ req'[r].entities = req[r].entities
          /\ req'[r].tokens = req[r].tokens
      BY <1>0, <1>10, <2>0 DEF Frame, InRequest
    <2>2. Counting(r) /\ LockMoves(r)
      BY <1>0, <1>10, <2>1 DEF Counting, LockMoves, HoldsLock
    <2>3. RecordingOf(r)'
      BY <2>1, CarriesOn
    <2> QED BY <1>10, <2>0, <2>1, <2>2, <2>3, QuietGood
  <1>12. CASE es # <<>>
    <2>0. req' = [req EXCEPT ![r].pc = "record", ![r].entities = es, ![r].sent = Append(@, text), ![r].tokens = ts] /\ vault' = w
      BY <1>7, <1>12
    <2>1. /\ Frame(r) /\ req'[r].pc = "record" /\ req'[r].i = req[r].i /\ req'[r].entities = es
          /\ req'[r].tokens = ts
      BY <1>0, <1>10, <2>0 DEF Frame, InRequest
    <2>2. Counting(r) /\ LockMoves(r) /\ SameDetector(r)
      BY <1>0, <1>10, <2>1 DEF Counting, LockMoves, HoldsLock, SameDetector
    <2>3. RecordingOf(r)'
      BY <1>5, <1>8, <1>9, <2>0, <2>1 DEF RecordingOf, At
    <2>4. Conversing' /\ Configured'
      BY <1>6, <1>10, <2>0, <2>1, <2>2, GrownConversing, SameDetectorGood DEF PrivacyBooks
    <2> QED BY <1>6, <2>0, <2>1, <2>2, <2>3, <2>4, StepGood
  <1> QED BY <1>11, <1>12

LEMMA RecordsPreserves == ASSUME PrivacyBooks, NEW r \in Requests, Records(r) PROVE PrivacyBooks'
PROOF
  <1>0. /\ DOMAIN req = Requests /\ DOMAIN req[r] = InRequest /\ req[r].i \in Nat /\ req[r].i >= 1 /\ req[r].pc = "record"
        /\ req' = [req EXCEPT ![r].pc = "message", ![r].i = @ + 1, ![r].entities = <<>>, ![r].tokens = <<>>]
    BY FieldsAre DEF PrivacyBooks, Shaped, Records, At
  <1>1. Frame(r) /\ req'[r].pc = "message" /\ req'[r].i = req[r].i + 1 /\ req'[r].entities = <<>> /\ req'[r].tokens = <<>>
    BY <1>0 DEF Records, Frame, InRequest
  <1>2. Counting(r) /\ LockMoves(r) /\ SameDetector(r)
    BY <1>0, <1>1 DEF Records, Counting, LockMoves, SameDetector, HoldsLock
  <1>3. RecordingOf(r)' /\ Configured'
    <2>1. RecordingOf(r)'
      BY <1>1 DEF RecordingOf, At
    <2> QED BY <1>1, <1>2, <2>1, SameDetectorGood DEF PrivacyBooks
  <1>4. vault' = vault
    BY DEF Records
  <1>5. Conversing'
    <2>1. CASE ~InSession(r)
      <3>1. sessions' = sessions
        BY <2>1 DEF Records
      <3> QED BY <1>4, <3>1 DEF PrivacyBooks, Conversing
    <2>2. CASE InSession(r)
      <3> DEFINE id == SessionOf(r)
      <3>1. PICK s \in RecordEntities(sessions[id], req[r].entities, req[r].tokens) : sessions' = [sessions EXCEPT ![id] = s]
        BY <2>2 DEF Records
      <3>2. id \in DOMAIN sessions /\ GoodSession(sessions[id], vault)
        BY <2>2 DEF InSession, PrivacyBooks, Conversing
      <3>3. /\ Entities(req[r].entities) /\ DOMAIN req[r].tokens = DOMAIN req[r].entities
            /\ \A k \in DOMAIN req[r].tokens : req[r].tokens[k] \in DOMAIN vault.reverse
        BY <1>0 DEF PrivacyBooks, Recording, RecordingOf, At
      <3>4. GoodSession(s, vault)
        BY <3>1, <3>2, <3>3, RecordsGood
      <3> HIDE DEF id
      <3>5. DOMAIN sessions' = DOMAIN sessions /\ \A x \in DOMAIN sessions : sessions'[x] = s \/ sessions'[x] = sessions[x]
        BY <3>1, <3>2
      <3> QED BY <1>4, <3>4, <3>5 DEF PrivacyBooks, Conversing
    <2> QED BY <2>1, <2>2
  <1>6. GoodVault(vault') /\ Grown(vault, vault')
    BY <1>4 DEF PrivacyBooks, Grown
  <1> QED BY <1>1, <1>2, <1>3, <1>5, <1>6, StepGood

LEMMA DetectionFailsPreserves == ASSUME PrivacyBooks, NEW r \in Requests, DetectionFails(r) PROVE PrivacyBooks'
PROOF
  <1>0. /\ DOMAIN req = Requests /\ DOMAIN req[r] = InRequest /\ req[r].pc = "detect"
        /\ req' = [req EXCEPT ![r].pc = "failed"]
    BY FieldsAre DEF PrivacyBooks, DetectionFails, At
  <1>1. /\ Frame(r) /\ req'[r].pc = "failed" /\ req'[r].i = req[r].i /\ req'[r].entities = req[r].entities
        /\ req'[r].tokens = req[r].tokens
    BY <1>0 DEF DetectionFails, Frame, InRequest
  <1>2. LockMoves(r)
    BY <1>0, <1>1 DEF DetectionFails, LockMoves, HoldsLock
  <1> QED BY <1>1, <1>2, PassGood DEF DetectionFails

LEMMA ReleasesVaultPreserves == ASSUME PrivacyBooks, NEW r \in Requests, ReleasesVault(r) PROVE PrivacyBooks'
PROOF
  <1>0. /\ DOMAIN req = Requests /\ DOMAIN req[r] = InRequest /\ req[r].pc = "message"
        /\ req' = [req EXCEPT ![r].pc = "send"]
    BY FieldsAre DEF PrivacyBooks, ReleasesVault, At
  <1>1. /\ Frame(r) /\ req'[r].pc = "send" /\ req'[r].i = req[r].i /\ req'[r].entities = req[r].entities
        /\ req'[r].tokens = req[r].tokens
    BY <1>0 DEF ReleasesVault, Frame, InRequest
  <1>2. LockMoves(r)
    BY <1>0, <1>1 DEF ReleasesVault, LockMoves, HoldsLock
  <1> QED BY <1>1, <1>2, PassGood DEF ReleasesVault

LEMMA ProviderFailsPreserves == ASSUME PrivacyBooks, NEW r \in Requests, ProviderFails(r) PROVE PrivacyBooks'
PROOF
  <1>0. /\ DOMAIN req = Requests /\ DOMAIN req[r] = InRequest /\ req[r].pc = "send"
        /\ req' = [req EXCEPT ![r].pc = "failed"]
    BY FieldsAre DEF PrivacyBooks, ProviderFails, At
  <1>1. /\ Frame(r) /\ req'[r].pc = "failed" /\ req'[r].i = req[r].i /\ req'[r].entities = req[r].entities
        /\ req'[r].tokens = req[r].tokens
    BY <1>0 DEF ProviderFails, Frame, InRequest
  <1>2. LockMoves(r)
    BY <1>0, <1>1 DEF ProviderFails, LockMoves, HoldsLock
  <1> QED BY <1>1, <1>2, PassGood DEF ProviderFails

LEMMA RehydratesPreserves == ASSUME PrivacyBooks, NEW r \in Requests, Rehydrates(r) PROVE PrivacyBooks'
PROOF
  <1>0. /\ DOMAIN req = Requests /\ DOMAIN req[r] = InRequest /\ req[r].pc = "rehydrate"
        /\ req' = [req EXCEPT ![r].pc = "done", ![r].out = Rehydrate(req[r].reply, vault)]
    BY FieldsAre DEF PrivacyBooks, Rehydrates, At
  <1>1. /\ Frame(r) /\ req'[r].pc = "done" /\ req'[r].i = req[r].i /\ req'[r].entities = req[r].entities
        /\ req'[r].tokens = req[r].tokens
    BY <1>0 DEF Rehydrates, Frame, InRequest
  <1>2. LockMoves(r)
    BY <1>0, <1>1 DEF Rehydrates, LockMoves, HoldsLock
  <1> QED BY <1>1, <1>2, PassGood DEF Rehydrates

LEMMA StreamEndsPreserves == ASSUME PrivacyBooks, NEW r \in Requests, StreamEnds(r) PROVE PrivacyBooks'
PROOF
  <1>0. DOMAIN req = Requests /\ DOMAIN req[r] = InRequest /\ req[r].pc = "stream"
    BY FieldsAre DEF PrivacyBooks, StreamEnds, At
  <1> DEFINE tail == Rehydrate(req[r].buffer, vault)
  <1>1. req' = [req EXCEPT ![r].pc = "done", ![r].out = @ \o tail, ![r].buffer = <<>>]
    BY Zenon DEF StreamEnds
  <1>2. mode' = mode /\ lock' = lock /\ UNCHANGED <<vault, sessions, config, detector, reported>>
    BY DEF StreamEnds
  <1> HIDE DEF tail
  <1>3. /\ Frame(r) /\ req'[r].pc = "done" /\ req'[r].i = req[r].i /\ req'[r].entities = req[r].entities
        /\ req'[r].tokens = req[r].tokens
    BY <1>0, <1>1, <1>2 DEF Frame, InRequest
  <1>4. LockMoves(r)
    BY <1>0, <1>2, <1>3 DEF LockMoves, HoldsLock
  <1> QED BY <1>2, <1>3, <1>4, PassGood

LEMMA ToolRecordsPreserves == ASSUME PrivacyBooks, NEW r \in Requests, ToolRecords(r) PROVE PrivacyBooks'
PROOF
  <1>0. /\ DOMAIN req = Requests /\ DOMAIN req[r] = InRequest /\ req[r].pc = "hop"
        /\ req' = [req EXCEPT ![r].pc = "done"]
    BY FieldsAre DEF PrivacyBooks, ToolRecords, At
  <1>1. /\ Frame(r) /\ req'[r].pc = "done" /\ req'[r].i = req[r].i /\ req'[r].entities = req[r].entities
        /\ req'[r].tokens = req[r].tokens
    BY <1>0 DEF ToolRecords, Frame, InRequest
  <1>2. LockMoves(r)
    BY <1>0, <1>1 DEF ToolRecords, LockMoves, HoldsLock
  <1> QED BY <1>1, <1>2, PassGood DEF ToolRecords

LEMMA ToolRestoresPreserves == ASSUME PrivacyBooks, NEW r \in Requests, ToolRestores(r) PROVE PrivacyBooks'
PROOF
  <1>0. /\ DOMAIN req = Requests /\ DOMAIN req[r] = InRequest /\ req[r].pc = "new"
        /\ req' = [req EXCEPT ![r].pc = "done", ![r].out = Rehydrate(Body(r)[1].text, vault)]
    BY FieldsAre DEF PrivacyBooks, ToolRestores, At
  <1>1. /\ Frame(r) /\ req'[r].pc = "done" /\ req'[r].i = req[r].i /\ req'[r].entities = req[r].entities
        /\ req'[r].tokens = req[r].tokens
    BY <1>0 DEF ToolRestores, Frame, InRequest
  <1>2. LockMoves(r)
    BY <1>0, <1>1 DEF ToolRestores, LockMoves, HoldsLock
  <1> QED BY <1>1, <1>2, PassGood DEF ToolRestores

LEMMA RepliesPreserves == ASSUME PrivacyBooks, NEW r \in Requests, Replies(r) PROVE PrivacyBooks'
PROOF
  <1>0. DOMAIN req = Requests /\ DOMAIN req[r] = InRequest /\ req[r].pc = "send"
    BY FieldsAre DEF PrivacyBooks, Replies, At
  <1> DEFINE to == AfterReply(r)
  <1>1. to \in {"done", "stream", "scan", "rehydrate"}
    BY DEF AfterReply
  <1> HIDE DEF to
  <1>2. PICK a, b, c : req' = [req EXCEPT ![r].pc = to, ![r].reply = a, ![r].echo = b, ![r].out = c]
    <2>1. PICK extra \in {<<>>} \cup Extras :
            LET text == FlattenSeq(req[r].sent) \o extra
            IN req' = [req EXCEPT ![r].pc = AfterReply(r), ![r].reply = text, ![r].echo = (extra = <<>>),
                                  ![r].out = IF Kind(r) = "embed" THEN text ELSE <<>>]
      BY Zenon DEF Replies
    <2> QED BY <2>1, Zenon DEF to
  <1>3. /\ Frame(r) /\ req'[r].pc = to /\ req'[r].i = req[r].i /\ req'[r].entities = req[r].entities
        /\ req'[r].tokens = req[r].tokens
    BY <1>0, <1>2 DEF Replies, Frame, InRequest
  <1>4. LockMoves(r) /\ to \notin {"swap", "record", "replace", "detect"}
    BY <1>0, <1>1, <1>3 DEF Replies, LockMoves, HoldsLock
  <1> QED BY <1>3, <1>4, PassGood DEF Replies

LEMMA ScansPreserves == ASSUME PrivacyBooks, NEW r \in Requests, Scans(r) PROVE PrivacyBooks'
PROOF
  <1>0. DOMAIN req = Requests /\ DOMAIN req[r] = InRequest /\ req[r].pc = "scan"
    BY FieldsAre DEF PrivacyBooks, Scans, At
  <1> DEFINE text == RedactFrom(req[r].reply, SelectSeq(Detect(req[r].reply, Toggles), LAMBDA e : ~ContainsOriginal(vault, e.original)))
  <1>1. \/ req' = [req EXCEPT ![r].pc = "rehydrate", ![r].scanned = TRUE, ![r].reply = text]
        \/ req' = [req EXCEPT ![r].pc = "rehydrate"]
    BY Zenon DEF Scans
  <1>2. mode' = mode /\ lock' = lock /\ UNCHANGED <<vault, sessions, config, detector, reported>>
    BY DEF Scans
  <1> HIDE DEF text
  <1>3. /\ Frame(r) /\ req'[r].pc = "rehydrate" /\ req'[r].i = req[r].i /\ req'[r].entities = req[r].entities
        /\ req'[r].tokens = req[r].tokens
    BY <1>0, <1>1, <1>2 DEF Frame, InRequest
  <1>4. LockMoves(r)
    BY <1>0, <1>2, <1>3 DEF LockMoves, HoldsLock
  <1> QED BY <1>2, <1>3, <1>4, PassGood

LEMMA StreamsPreserves == ASSUME PrivacyBooks, NEW r \in Requests, Streams(r) PROVE PrivacyBooks'
PROOF
  <1>0. DOMAIN req = Requests /\ DOMAIN req[r] = InRequest /\ req[r].pc = "stream"
    BY FieldsAre DEF PrivacyBooks, Streams, At
  <1>1. PICK a, b, c : req' = [req EXCEPT ![r].reply = a, ![r].out = b, ![r].buffer = c]
    <2>1. PICK n \in 1..Len(req[r].reply) :
            LET chunk == RehydrateChunk(SubSeq(req[r].reply, 1, n), req[r].buffer, vault)
            IN req' = [req EXCEPT ![r].reply = SubSeq(@, n + 1, Len(@)), ![r].out = @ \o chunk.text, ![r].buffer = chunk.buffer]
      BY Zenon DEF Streams
    <2> DEFINE chunk == RehydrateChunk(SubSeq(req[r].reply, 1, n), req[r].buffer, vault)
               a == SubSeq(req[r].reply, n + 1, Len(req[r].reply))
               b == req[r].out \o chunk.text
    <2>2. req' = [req EXCEPT ![r].reply = a, ![r].out = b, ![r].buffer = chunk.buffer]
      BY <1>0, <2>1 DEF InRequest
    <2> QED BY <2>2, Zenon
  <1>2. mode' = mode /\ lock' = lock /\ UNCHANGED <<vault, sessions, config, detector, reported>>
    BY DEF Streams
  <1>3. /\ Frame(r) /\ req'[r].pc = "stream" /\ req'[r].i = req[r].i /\ req'[r].entities = req[r].entities
        /\ req'[r].tokens = req[r].tokens
    BY <1>0, <1>1, <1>2 DEF Frame, InRequest
  <1>4. LockMoves(r)
    BY <1>0, <1>2, <1>3 DEF LockMoves, HoldsLock
  <1> QED BY <1>2, <1>3, <1>4, PassGood

LEMMA ToolDetectsPreserves == ASSUME PrivacyBooks, NEW r \in Requests, ToolDetects(r) PROVE PrivacyBooks'
PROOF
  <1>0. DOMAIN req = Requests /\ DOMAIN req[r] = InRequest /\ req[r].pc = "new" /\ req[r].i \in Nat /\ req[r].i >= 1
    BY FieldsAre DEF PrivacyBooks, Shaped, ToolDetects, At
  <1>1. mode' = mode /\ lock' = lock /\ UNCHANGED <<vault, sessions, config, detector, reported>>
    BY DEF ToolDetects
  <1> DEFINE es == Detect(Body(r)[1].text, detector)
  <1>2. CASE req' = [req EXCEPT ![r].pc = "failed"]
    <2>1. /\ Frame(r) /\ req'[r].pc = "failed" /\ req'[r].i = req[r].i /\ req'[r].entities = req[r].entities
          /\ req'[r].tokens = req[r].tokens
      BY <1>0, <1>1, <1>2 DEF Frame, InRequest
    <2>2. LockMoves(r)
      BY <1>0, <1>1, <2>1 DEF LockMoves, HoldsLock
    <2> QED BY <1>1, <2>1, <2>2, PassGood
  <1>3. CASE req' = [req EXCEPT ![r].pc = "replace", ![r].entities = es]
    <2>1. mode = "server" /\ IsText(Body(r)) /\ Body(r) # <<>> /\ \A k \in DOMAIN Body(r) : IsText(Body(r)[k].text)
      BY AskIs DEF PrivacyBooks, ToolDetects
    <2>2. 1 \in DOMAIN Body(r)
      BY <2>1 DEF IsText
    <2>3. Entities(es)
      BY <2>1, <2>2, DetectIs
    <2> HIDE DEF es
    <2>4. /\ Frame(r) /\ req'[r].pc = "replace" /\ req'[r].i = req[r].i /\ req'[r].entities = es
          /\ req'[r].tokens = req[r].tokens
      BY <1>0, <1>1, <1>3 DEF Frame, InRequest
    <2>5. LockMoves(r) /\ Counting(r)
      BY <1>0, <1>1, <2>4 DEF LockMoves, HoldsLock, Counting
    <2>6. RecordingOf(r)'
      BY <1>1, <2>1, <2>3, <2>4 DEF RecordingOf, At
    <2> QED BY <1>1, <2>4, <2>5, <2>6, QuietGood
  <1>4. \/ req' = [req EXCEPT ![r].pc = "failed"]
        \/ req' = [req EXCEPT ![r].pc = "replace", ![r].entities = es]
    BY Zenon DEF ToolDetects
  <1> QED BY <1>2, <1>3, <1>4

LEMMA ToolReplacesPreserves == ASSUME PrivacyBooks, NEW r \in Requests, ToolReplaces(r) PROVE PrivacyBooks'
PROOF
  <1>0. DOMAIN req = Requests /\ DOMAIN req[r] = InRequest /\ req[r].pc = "replace" /\ req[r].i \in Nat /\ req[r].i >= 1
    BY FieldsAre DEF PrivacyBooks, Shaped, ToolReplaces, At
  <1> DEFINE done == Pseudonymize(Body(r)[1].text, req[r].entities, vault)
             text == done.text
             to == IF req[r].entities = <<>> THEN "done" ELSE "hop"
  <1>1. req' = [req EXCEPT ![r].pc = to, ![r].sent = <<text>>] /\ vault' = done.vault
    BY Zenon DEF ToolReplaces
  <1>2. mode' = mode /\ lock' = lock /\ sessions' = sessions /\ UNCHANGED <<config, detector, reported>>
    BY DEF ToolReplaces
  <1>3. Entities(req[r].entities) /\ GoodVault(vault)
    BY <1>0 DEF PrivacyBooks, Recording, RecordingOf, At
  <1>4. GoodVault(vault') /\ Grown(vault, vault')
    BY <1>1, <1>3, ReplaceGood
  <1>5. to \in {"done", "hop"}
    OBVIOUS
  <1> HIDE DEF done, text, to
  <1>6. /\ Frame(r) /\ req'[r].pc = to /\ req'[r].i = req[r].i /\ req'[r].entities = req[r].entities
        /\ req'[r].tokens = req[r].tokens
    BY <1>0, <1>1, <1>2 DEF Frame, InRequest
  <1>7. LockMoves(r) /\ Counting(r) /\ SameDetector(r)
    BY <1>0, <1>2, <1>5, <1>6 DEF LockMoves, HoldsLock, Counting, SameDetector
  <1>8. RecordingOf(r)'
    BY <1>5, <1>6, CarriesOn
  <1>9. Conversing' /\ Configured'
    BY <1>2, <1>4, <1>6, <1>7, GrownConversing, SameDetectorGood DEF PrivacyBooks
  <1> QED BY <1>4, <1>6, <1>7, <1>8, <1>9, StepGood

LEMMA MasksCallPreserves == ASSUME PrivacyBooks, NEW r \in Requests, MasksCall(r) PROVE PrivacyBooks'
PROOF
  <1>0. DOMAIN req = Requests /\ DOMAIN req[r] = InRequest /\ req[r].pc = "new" /\ req[r].i \in Nat /\ req[r].i >= 1
    BY FieldsAre DEF PrivacyBooks, Shaped, MasksCall, At
  <1>1. mode' = mode /\ lock' = lock /\ sessions' = sessions /\ UNCHANGED <<config, detector, reported>>
    BY DEF MasksCall
  <1> DEFINE start == [vault |-> vault, sent |-> <<>>, count |-> 0, given |-> given]
             done == MaskStrings(start, Body(r))
             plain == [k \in DOMAIN Body(r) |-> Body(r)[k].text]
  <1>2. \/ vault' = done.vault /\ req' = [req EXCEPT ![r].pc = "send", ![r].sent = done.sent]
        \/ vault' = vault /\ req' = [req EXCEPT ![r].pc = "send", ![r].sent = plain, ![r].blind = TRUE]
    BY Zenon DEF MasksCall
  <1>3. GoodVault(done.vault) /\ Grown(vault, done.vault)
    <2>1. start.vault = vault
      OBVIOUS
    <2>2. IsText(Body(r)) /\ \A k \in DOMAIN Body(r) : IsText(Body(r)[k].text)
      BY AskIs DEF PrivacyBooks
    <2>3. GoodVault(start.vault)
      BY <2>1 DEF PrivacyBooks
    <2> HIDE DEF start
    <2> QED BY <2>1, <2>2, <2>3, CallGood
  <1> HIDE DEF done, plain
  <1>4. GoodVault(vault') /\ Grown(vault, vault')
    BY <1>2, <1>3 DEF PrivacyBooks, Grown
  <1>5. /\ Frame(r) /\ req'[r].pc = "send" /\ req'[r].i = req[r].i /\ req'[r].entities = req[r].entities
        /\ req'[r].tokens = req[r].tokens
    BY <1>0, <1>1, <1>2 DEF Frame, InRequest
  <1>6. LockMoves(r) /\ Counting(r) /\ SameDetector(r)
    BY <1>0, <1>1, <1>5 DEF LockMoves, HoldsLock, Counting, SameDetector
  <1>7. RecordingOf(r)'
    BY <1>5, CarriesOn
  <1>8. Conversing' /\ Configured'
    BY <1>1, <1>4, <1>5, <1>6, GrownConversing, SameDetectorGood DEF PrivacyBooks
  <1> QED BY <1>4, <1>5, <1>6, <1>7, <1>8, StepGood

LEMMA ConfiguresPreserves == ASSUME PrivacyBooks, NEW r \in Requests, Configures(r) PROVE PrivacyBooks'
PROOF
  <1>0. DOMAIN req = Requests /\ DOMAIN req[r] = InRequest /\ req[r].pc = "new" /\ req[r].i \in Nat /\ req[r].i >= 1
    BY FieldsAre DEF PrivacyBooks, Shaped, Configures, ApplyConfig, At
  <1> DEFINE a == req[r].ask
             on == ((IF a.profile = "" THEN config.on ELSE Profiles[a.profile]) \cup a.enable) \ a.disable
  <1>1. mode' = mode /\ lock' = lock /\ vault' = vault /\ sessions' = sessions /\ detector' = detector /\ reported' = reported
    BY DEF Configures, ApplyConfig
  <1>2. \/ req' = [req EXCEPT ![r].pc = "failed"] /\ config' = config
        \/ /\ a.profile = "" \/ a.profile \in DOMAIN Profiles
           /\ \/ config' = [on |-> on, building |-> r] /\ req' = [req EXCEPT ![r].pc = "swap", ![r].built = on]
              \/ config' = [config EXCEPT !.on = on] /\ req' = [req EXCEPT ![r].pc = "failed"]
    BY Zenon DEF Configures, ApplyConfig
  <1>3. /\ config = [on |-> config.on, building |-> config.building] /\ config.building = Nobody /\ config.on \subseteq Categories
        /\ detector = reported /\ detector \subseteq Categories
        /\ \A q \in Requests : req[q].pc # "swap"
    <2>1. Nobody \notin Requests
      BY PrivacyAssumption DEF Nobody
    <2>2. config.building = Nobody
      BY DEF Configures
    <2> QED BY <2>1, <2>2 DEF PrivacyBooks, Configured, At
  <1>4. a.profile = "" \/ a.profile \in DOMAIN Profiles => on \subseteq Categories
    <2>1. a.enable \subseteq Categories
      BY AskIs DEF PrivacyBooks, Configures, ApplyConfig
    <2>2. \A p \in DOMAIN Profiles : Profiles[p] \subseteq Categories
      BY PrivacyAssumption
    <2> QED BY <1>3, <2>1, <2>2
  <1> HIDE DEF on
  <1>5. CASE req' = [req EXCEPT ![r].pc = "failed"] /\ config' = config
    <2>1. /\ Frame(r) /\ req'[r].pc = "failed" /\ req'[r].i = req[r].i /\ req'[r].entities = req[r].entities
          /\ req'[r].tokens = req[r].tokens
      BY <1>0, <1>1, <1>5 DEF Frame, InRequest
    <2>2. LockMoves(r)
      BY <1>0, <1>1, <2>1 DEF LockMoves, HoldsLock
    <2> QED BY <1>1, <1>5, <2>1, <2>2, PassGood
  <1>6. ASSUME a.profile = "" \/ a.profile \in DOMAIN Profiles,
               \/ config' = [on |-> on, building |-> r] /\ req' = [req EXCEPT ![r].pc = "swap", ![r].built = on]
               \/ config' = [config EXCEPT !.on = on] /\ req' = [req EXCEPT ![r].pc = "failed"]
        PROVE PrivacyBooks'
    <2>1. /\ Frame(r) /\ req'[r].pc \in {"swap", "failed"} /\ req'[r].i = req[r].i /\ req'[r].entities = req[r].entities
          /\ req'[r].tokens = req[r].tokens
      <3>1. CASE req' = [req EXCEPT ![r].pc = "swap", ![r].built = on]
        BY <1>0, <1>1, <3>1 DEF Frame, InRequest
      <3>2. CASE req' = [req EXCEPT ![r].pc = "failed"]
        BY <1>0, <1>1, <3>2 DEF Frame, InRequest
      <3> QED BY <1>6, <3>1, <3>2
    <2>2. LockMoves(r) /\ Counting(r)
      BY <1>0, <1>1, <2>1 DEF LockMoves, HoldsLock, Counting
    <2>3. RecordingOf(r)'
      BY <2>1, CarriesOn
    <2>4. GoodVault(vault') /\ Grown(vault, vault') /\ Conversing'
      BY <1>1 DEF PrivacyBooks, Grown, Conversing
    <2>5. on \subseteq Categories
      BY <1>4, <1>6
    <2>6. \A q \in Requests : q # r => req'[q].pc # "swap"
      BY <1>3, <2>1 DEF Frame
    <2>7. Configured'
      <3>1. CASE config' = [on |-> on, building |-> r] /\ req' = [req EXCEPT ![r].pc = "swap", ![r].built = on]
        <4>1. config'.on = on /\ config'.building = r /\ req'[r].built = on /\ config' = [on |-> config'.on, building |-> config'.building]
          BY <1>0, <3>1 DEF InRequest
        <4> QED BY <1>1, <1>3, <2>5, <2>6, <4>1 DEF Configured, At
      <3>2. CASE config' = [config EXCEPT !.on = on] /\ req' = [req EXCEPT ![r].pc = "failed"]
        <4>1. config' = [on |-> on, building |-> Nobody]
          BY <1>3, <3>2
        <4>2. config'.on = on /\ config'.building = Nobody /\ config' = [on |-> config'.on, building |-> config'.building]
          BY <4>1
        <4>3. req'[r].pc = "failed"
          BY <1>0, <3>2 DEF InRequest
        <4> QED BY <1>1, <1>3, <2>5, <2>6, <4>2, <4>3 DEF Configured, At
      <3> QED BY <1>6, <3>1, <3>2
    <2> QED BY <2>1, <2>2, <2>3, <2>4, <2>7, StepGood
  <1> QED BY <1>2, <1>5, <1>6

LEMMA SwapsPreserves == ASSUME PrivacyBooks, NEW r \in Requests, Swaps(r) PROVE PrivacyBooks'
PROOF
  <1>0. /\ DOMAIN req = Requests /\ DOMAIN req[r] = InRequest /\ req[r].pc = "swap" /\ req[r].i \in Nat /\ req[r].i >= 1
        /\ req' = [req EXCEPT ![r].pc = "done"]
    BY FieldsAre DEF PrivacyBooks, Shaped, Swaps, At
  <1>1. mode' = mode /\ lock' = lock /\ vault' = vault /\ sessions' = sessions
    BY DEF Swaps
  <1>2. /\ Frame(r) /\ req'[r].pc = "done" /\ req'[r].i = req[r].i /\ req'[r].entities = req[r].entities
        /\ req'[r].tokens = req[r].tokens
    BY <1>0, <1>1 DEF Frame, InRequest
  <1>3. LockMoves(r) /\ Counting(r)
    BY <1>0, <1>1, <1>2 DEF LockMoves, HoldsLock, Counting
  <1>4. RecordingOf(r)'
    BY <1>2, CarriesOn
  <1>5. GoodVault(vault') /\ Grown(vault, vault') /\ Conversing'
    BY <1>1 DEF PrivacyBooks, Grown, Conversing
  <1>6. Configured'
    <2>1. /\ config = [on |-> config.on, building |-> config.building] /\ config.building = r /\ req[r].built = config.on
          /\ config.on \subseteq Categories /\ \A q \in Requests : q # r => req[q].pc # "swap"
      BY <1>0 DEF PrivacyBooks, Configured, At
    <2>2. config' = [on |-> config.on, building |-> Nobody]
      <3>1. config' = [config EXCEPT !.building = Nobody]
        BY DEF Swaps
      <3> QED BY <2>1, <3>1
    <2>3. config'.on = config.on /\ config'.building = Nobody /\ config' = [on |-> config'.on, building |-> config'.building]
      BY <2>2
    <2>4. detector' = config.on /\ reported' = config.on
      BY <2>1 DEF Swaps
    <2>5. \A q \in Requests : req'[q].pc # "swap"
      BY <1>2, <2>1 DEF Frame
    <2> QED BY <2>1, <2>3, <2>4, <2>5 DEF Configured, At
  <1> QED BY <1>2, <1>3, <1>4, <1>5, <1>6, StepGood

\* A step of the session endpoints or of time.
LEMMA SessionsGood ==
    ASSUME PrivacyBooks, UNCHANGED <<mode, vault, lock, req, config, detector, reported>>, Conversing'
    PROVE  PrivacyBooks'
PROOF
  <1>1. mode' = mode /\ vault' = vault /\ lock' = lock /\ req' = req /\ config' = config /\ detector' = detector /\ reported' = reported
    OBVIOUS
  <1>2. Shaped'
    BY <1>1 DEF PrivacyBooks, Shaped, At, Body
  <1>3. Locked'
    BY <1>1 DEF PrivacyBooks, Locked, HoldsLock
  <1>4. Recording'
    BY <1>1 DEF PrivacyBooks, Recording, RecordingOf, At
  <1>5. Configured'
    BY <1>1 DEF PrivacyBooks, Configured, At
  <1> QED BY <1>1, <1>2, <1>3, <1>4, <1>5 DEF PrivacyBooks

LEMMA FlushesPreserves == ASSUME PrivacyBooks, NEW id \in Ids, Flushes(id) PROVE PrivacyBooks'
PROOF
  <1>1. DOMAIN sessions' \subseteq DOMAIN sessions /\ \A x \in DOMAIN sessions' : sessions'[x] = sessions[x]
    <2>1. CASE sessions' = Empty
      <3>1. DOMAIN sessions' = {}
        BY <2>1 DEF Empty
      <3> QED BY <3>1
    <2>2. CASE sessions' = FlushSession(sessions, id)
      BY <2>2 DEF FlushSession, Without
    <2> QED BY <2>1, <2>2 DEF Flushes
  <1>2. UNCHANGED <<mode, vault, lock, req, config, detector, reported>>
    BY DEF Flushes
  <1>3. Conversing'
    BY <1>1, <1>2 DEF PrivacyBooks, Conversing
  <1> QED BY <1>2, <1>3, SessionsGood

LEMMA GoesStalePreserves == ASSUME PrivacyBooks, NEW id \in Ids, GoesStale(id) PROVE PrivacyBooks'
PROOF
  <1> DEFINE s == [sessions[id] EXCEPT !.stale = TRUE]
  <1>1. id \in DOMAIN sessions /\ sessions' = [sessions EXCEPT ![id] = s]
    BY DEF GoesStale
  <1>2. UNCHANGED <<mode, vault, lock, req, config, detector, reported>>
    BY DEF GoesStale
  <1>3. GoodSession(s, vault)
    BY <1>1, StaleGood DEF PrivacyBooks, Conversing
  <1> HIDE DEF s
  <1>4. DOMAIN sessions' = DOMAIN sessions /\ \A x \in DOMAIN sessions : sessions'[x] = s \/ sessions'[x] = sessions[x]
    BY <1>1
  <1>5. Conversing'
    BY <1>2, <1>3, <1>4 DEF PrivacyBooks, Conversing
  <1> QED BY <1>2, <1>5, SessionsGood

LEMMA EmptyGood == GoodVault(EmptyVault)
BY EmptySound DEF GoodVault, Distinct, EmptyVault, Empty

\* A process that starts: an empty vault, no sessions, the detector of the file.
LEMMA StartsEmpty ==
    ASSUME vault = EmptyVault, sessions = Empty, config = [on |-> Toggles, building |-> Nobody], detector = Toggles, reported = Toggles,
           \A r \in Requests : req[r].pc # "swap"
    PROVE  GoodVault(vault) /\ Conversing /\ Configured
PROOF
  <1>1. GoodVault(vault)
    BY EmptyGood
  <1>2. DOMAIN sessions = {}
    BY DEF Empty
  <1>3. Conversing
    BY <1>2 DEF Conversing
  <1>4. config.on = Toggles /\ config.building = Nobody /\ config = [on |-> config.on, building |-> config.building]
    OBVIOUS
  <1>5. Toggles \subseteq Categories
    BY PrivacyAssumption
  <1>6. Configured
    BY <1>4, <1>5 DEF Configured, At
  <1> QED BY <1>1, <1>3, <1>6

LEMMA RestartsPreserves == ASSUME PrivacyBooks, Restarts PROVE PrivacyBooks'
PROOF
  <1> DEFINE Ended(q) == [q EXCEPT !.pc = "failed"]
             calm == {"new", "done", "failed"}
  <1>1. /\ vault' = EmptyVault /\ lock' = Nobody /\ sessions' = Empty /\ config' = [on |-> Toggles, building |-> Nobody]
        /\ detector' = Toggles /\ reported' = Toggles /\ mode' = mode
    BY DEF Restarts, Opened, NoFile
  <1>2. req' = [r \in Requests |-> IF req[r].pc \in calm THEN req[r] ELSE Ended(req[r])]
    BY Zenon DEF Restarts
  <1>3. ASSUME NEW r \in Requests
        PROVE  /\ req'[r].pc \in calm
               /\ req'[r] = [f \in InRequest |-> req'[r][f]]
               /\ req'[r].ask = req[r].ask /\ req'[r].i = req[r].i
               /\ req'[r].tokens = req[r].tokens /\ req'[r].entities = req[r].entities
    <2>1. DOMAIN req[r] = InRequest /\ req[r] = [f \in InRequest |-> req[r][f]]
      BY FieldsAre DEF PrivacyBooks, Shaped
    <2>2. CASE req[r].pc \in calm
      <3>1. req'[r] = req[r]
        BY <1>2, <2>2
      <3> QED BY <2>1, <2>2, <3>1
    <2>3. CASE req[r].pc \notin calm
      <3>1. req'[r] = Ended(req[r])
        BY <1>2, <2>3
      <3>2. req'[r] = [f \in InRequest |-> IF f = "pc" THEN "failed" ELSE req[r][f]]
        BY <2>1, <3>1
      <3> QED BY <3>2 DEF InRequest
    <2> QED BY <2>2, <2>3
  <1> HIDE DEF Ended
  <1>4. req' = [r \in Requests |-> req'[r]]
    BY <1>2
  <1>5. Shaped'
    BY <1>1, <1>3, <1>4 DEF PrivacyBooks, Shaped, At
  <1>6. Locked'
    BY <1>1, <1>3 DEF Locked, HoldsLock
  <1>7. Recording'
    BY <1>1, <1>3 DEF PrivacyBooks, Recording, RecordingOf, At
  <1>8. GoodVault(vault') /\ Conversing' /\ Configured'
    <2>1. GoodVault(vault')
      BY <1>1, EmptyGood
    <2>2. DOMAIN sessions' = {}
      BY <1>1 DEF Empty
    <2>3. Conversing'
      BY <2>2 DEF Conversing
    <2>4. config'.on = Toggles /\ config'.building = Nobody /\ config' = [on |-> config'.on, building |-> config'.building]
      BY <1>1
    <2>5. Toggles \subseteq Categories
      BY PrivacyAssumption
    <2>6. Configured'
      BY <1>1, <1>3, <2>4, <2>5 DEF Configured, At
    <2> QED BY <2>1, <2>3, <2>6
  <1> QED BY <1>5, <1>6, <1>7, <1>8 DEF PrivacyBooks

LEMMA PrivacyInit == Init => PrivacyBooks
PROOF
  <1> SUFFICES ASSUME Init PROVE PrivacyBooks
    OBVIOUS
  <1>1. ASSUME NEW r \in Requests
        PROVE  \E a : req[r] = Fresh(a)
    BY DEF Init
  <1>2. ASSUME NEW a
        PROVE  /\ DOMAIN Fresh(a) = InRequest /\ Fresh(a).pc = "new" /\ Fresh(a).i = 1 /\ Fresh(a).tokens = <<>> /\ Fresh(a).entities = <<>>
               /\ Fresh(a) = [f \in InRequest |-> Fresh(a)[f]]
    <2>1. DOMAIN Fresh(a) = InRequest /\ Fresh(a).pc = "new" /\ Fresh(a).i = 1 /\ Fresh(a).tokens = <<>> /\ Fresh(a).entities = <<>>
      BY DEF Fresh, InRequest
    <2>2. Fresh(a) = [f \in DOMAIN Fresh(a) |-> Fresh(a)[f]]
      BY DEF Fresh
    <2> QED BY <2>1, <2>2
  <1>3. \A r \in Requests : /\ req[r].pc = "new" /\ req[r].i = 1 /\ req[r].tokens = <<>> /\ req[r].entities = <<>>
                            /\ req[r] = [f \in InRequest |-> req[r][f]]
    BY <1>1, <1>2
  <1>4. mode \in Modes /\ lock = Nobody /\ req = [r \in Requests |-> req[r]] /\ \A r \in Requests : req[r].ask \in Asks[r][mode]
    BY DEF Init
  <1>5. Shaped
    BY <1>3, <1>4 DEF Shaped, At
  <1>6. Locked
    BY <1>3, <1>4 DEF Locked, HoldsLock
  <1>7. Recording
    BY <1>3 DEF Recording, RecordingOf, At
  <1>8. GoodVault(vault) /\ Conversing /\ Configured
    <2>1. /\ vault = EmptyVault /\ sessions = Empty /\ config = [on |-> Toggles, building |-> Nobody] /\ detector = Toggles /\ reported = Toggles
          /\ \A r \in Requests : req[r].pc # "swap"
      BY <1>3 DEF Init
    <2> QED BY <2>1, StartsEmpty
  <1> QED BY <1>5, <1>6, <1>7, <1>8 DEF PrivacyBooks

LEMMA RequestStepPreserves == ASSUME PrivacyBooks, NEW r \in Requests, RequestStep(r) PROVE PrivacyBooks'
PROOF
  <1>1. \/ Arrives(r) \/ TakesVault(r) \/ NextMessage(r) \/ Masks(r) \/ DetectionFails(r) \/ Records(r) \/ ReleasesVault(r)
        \/ Replies(r) \/ ProviderFails(r) \/ Scans(r) \/ Rehydrates(r) \/ Streams(r) \/ StreamEnds(r)
        \/ ToolDetects(r) \/ ToolReplaces(r) \/ ToolRecords(r) \/ ToolRestores(r) \/ Configures(r) \/ Swaps(r)
        \/ MasksCall(r)
    BY DEF RequestStep
  <1> QED BY <1>1, ArrivesPreserves, TakesVaultPreserves, NextMessagePreserves, MasksPreserves, DetectionFailsPreserves,
             RecordsPreserves, ReleasesVaultPreserves, RepliesPreserves, ProviderFailsPreserves, ScansPreserves,
             RehydratesPreserves, StreamsPreserves, StreamEndsPreserves, ToolDetectsPreserves, ToolReplacesPreserves,
             ToolRecordsPreserves, ToolRestoresPreserves, ConfiguresPreserves, SwapsPreserves, MasksCallPreserves, Zenon

LEMMA PrivacyStep == PrivacyBooks /\ [Next]_vars => PrivacyBooks'
PROOF
  <1> SUFFICES ASSUME PrivacyBooks, [Next]_vars PROVE PrivacyBooks'
    OBVIOUS
  <1>1. CASE UNCHANGED vars
    <2>1. UNCHANGED <<mode, vault, lock, req, config, detector, reported>> /\ vault' = vault /\ sessions' = sessions
      BY <1>1 DEF vars
    <2>2. Conversing'
      BY <2>1 DEF PrivacyBooks, Conversing
    <2> QED BY <2>1, <2>2, SessionsGood
  <1>2. ASSUME NEW r \in Requests, RequestStep(r) PROVE PrivacyBooks'
    BY <1>2, RequestStepPreserves
  <1>3. ASSUME NEW id \in Ids, Flushes(id) PROVE PrivacyBooks'
    BY <1>3, FlushesPreserves
  <1>4. ASSUME NEW id \in Ids, GoesStale(id) PROVE PrivacyBooks'
    BY <1>4, GoesStalePreserves
  <1>5. CASE Restarts
    BY <1>5, RestartsPreserves
  <1> QED BY <1>1, <1>2, <1>3, <1>4, <1>5, Zenon DEF Next

LEMMA BooksAgree == PrivacyBooks => PrivacyInv
PROOF
  <1> SUFFICES ASSUME PrivacyBooks PROVE PrivacyInv
    OBVIOUS
  <1>1. Sound(vault) /\ Distinct(vault)
    BY DEF PrivacyBooks, GoodVault
  <1>2. TypeOK
    <2>1. {vault.forward[o].token : o \in DOMAIN vault.forward} = DOMAIN vault.reverse
      <3>1. \A o \in DOMAIN vault.forward : vault.forward[o].token \in DOMAIN vault.reverse
        BY <1>1 DEF Sound
      <3>2. \A t \in DOMAIN vault.reverse : vault.reverse[t] \in DOMAIN vault.forward /\ vault.forward[vault.reverse[t]].token = t
        BY <1>1 DEF Sound
      <3> QED BY <3>1, <3>2
    <2>2. lock \in {Nobody} \cup {r \in Requests : req[r].pc \in {"message", "detect", "record"}}
      BY DEF PrivacyBooks, Locked, HoldsLock
    <2>3. DOMAIN sessions \subseteq Ids
      BY DEF PrivacyBooks, Conversing
    <2>4. \A r \in Requests : Len(req[r].tokens) = Len(req[r].entities) \/ mode = "server"
      BY DEF PrivacyBooks, Recording, RecordingOf
    <2>5. detector \subseteq Categories /\ config.building \in {Nobody} \cup Requests
      BY DEF PrivacyBooks, Configured
    <2> QED BY <2>1, <2>2, <2>3, <2>4, <2>5 DEF TypeOK
  <1>3. TokensAreOneToOne
    <2>1. \A o \in DOMAIN vault.forward : vault.reverse[vault.forward[o].token] = o
      BY <1>1 DEF Distinct
    <2>2. \A o, p \in DOMAIN vault.forward : vault.forward[o].token = vault.forward[p].token => o = p
      BY <2>1
    <2> QED BY <2>1, <2>2 DEF TokensAreOneToOne
  <1>4. SessionsNameTokens
    BY DEF PrivacyBooks, Conversing, GoodSession, SessionsNameTokens
  <1>5. DetectorAsReported
    BY DEF PrivacyBooks, Configured, DetectorAsReported
  <1> QED BY <1>2, <1>3, <1>4, <1>5 DEF PrivacyInv

\* Whatever requests, tools, flushes, expiries, failures and restarts
\* interleave, for every set of phrases, prefixes, sessions and requests: a
\* token stands for one original and an original for one token, every token a
\* session refers to is in the vault, and the detector in use is the one last
\* reported (Vault::get_or_create, record_entities, configure).
THEOREM PrivacyHolds == Spec => []PrivacyInv
PROOF
  <1>1. Init => PrivacyBooks
    BY PrivacyInit
  <1>2. PrivacyBooks /\ [Next]_vars => PrivacyBooks'
    BY PrivacyStep
  <1>3. PrivacyBooks => PrivacyInv
    BY BooksAgree
  <1> QED BY <1>1, <1>2, <1>3, PTL DEF Spec
=============================================================================
