--------------------------- MODULE EvidenceProofs ---------------------------
(***************************************************************************)
(* Proofs about ReleaseFlow: what a release audit pack that passes shows,  *)
(* and that an honest one passes; about the hash trees of batches and the  *)
(* sealed bundles a pack carries; and about EvidenceFlow: an honest host's *)
(* bundles are trusted, and what is trusted is true.                       *)
(***************************************************************************)
EXTENDS EvidenceFlow, ReleaseFlow, FiniteSetTheorems, WellFoundedInduction, TLAPS

(***************************************************************************)
(* Times.                                                                  *)
(***************************************************************************)
LEMMA SecondsDown ==
    ASSUME NEW t \in Nat
    PROVE  /\ Rfc3339(t) \in Nat /\ Rfc3339(t) <= t /\ t < Rfc3339(t) + TicksPerSecond
           /\ Rfc3339(Rfc3339(t)) = Rfc3339(t)
PROOF
<1> DEFINE T == TicksPerSecond
<1>1. T \in Nat /\ T > 0
    BY TicksAssumption
<1>2. t % T \in 0..(T - 1)
    BY <1>1
<1>3. PICK q \in Int : t = T * q + (t % T)
    <2>1. t = T * (t \div T) + (t % T) /\ t \div T \in Int
        BY <1>1
    <2> QED BY <2>1
<1>4. Rfc3339(t) = T * q /\ Rfc3339(t) \in Int
    BY <1>1, <1>2, <1>3 DEF Rfc3339
<1>5. Rfc3339(t) <= t /\ t < Rfc3339(t) + T
    BY <1>1, <1>2, <1>4 DEF Rfc3339
<1>6. q >= 0
    <2>1. ASSUME q < 0 PROVE FALSE
        <3>1. q <= -1
            BY <2>1
        <3>2. T * q <= T * (-1)
            BY <1>1, <3>1
        <3>3. T * (-1) = -T
            BY <1>1
        <3> QED BY <1>1, <1>2, <1>3, <3>2, <3>3
    <2> QED BY <2>1
<1>7. T * q \in Nat /\ (T * q) % T = 0
    BY <1>1, <1>6
<1> QED BY <1>1, <1>4, <1>5, <1>7 DEF Rfc3339

\* A time in whole seconds is reached when the clock, cut to seconds, reaches it.
LEMMA WholeSeconds ==
    ASSUME NEW t \in Nat, NEW u \in Nat, Rfc3339(u) = u
    PROVE  u <= t <=> u <= Rfc3339(t)
PROOF
<1> DEFINE T == TicksPerSecond
           w == Rfc3339(t)
<1>1. T \in Nat /\ T > 0
    BY TicksAssumption
<1>2. w \in Nat /\ w <= t /\ t < w + T /\ Rfc3339(w) = w
    BY SecondsDown
<1>3. PICK p \in Int : u = T * p
    <2>1. u % T = 0
        <3>1. u % T \in 0..(T - 1)
            BY <1>1
        <3> QED BY <3>1, <1>1 DEF Rfc3339
    <2>2. u = T * (u \div T) + (u % T) /\ u \div T \in Int
        BY <1>1
    <2>3. T * (u \div T) \in Int
        BY <1>1, <2>2
    <2>4. u = T * (u \div T)
        BY <2>1, <2>2, <2>3
    <2> QED BY <2>2, <2>4
<1>4. PICK q \in Int : w = T * q
    <2>1. w % T = 0
        <3>1. w % T \in 0..(T - 1)
            BY <1>1, <1>2
        <3> QED BY <3>1, <1>1, <1>2 DEF Rfc3339
    <2>2. w = T * (w \div T) + (w % T) /\ w \div T \in Int
        BY <1>1, <1>2
    <2>3. T * (w \div T) \in Int
        BY <1>1, <2>2
    <2>4. w = T * (w \div T)
        BY <2>1, <2>2, <2>3
    <2> QED BY <2>2, <2>4
<1>5. ASSUME u <= t, u > w PROVE FALSE
    <2>1. p > q
        <3>1. ASSUME p <= q PROVE FALSE
            <4>1. T * p <= T * q
                BY <1>1, <3>1
            <4> QED BY <4>1, <1>3, <1>4, <1>5, <1>2
        <3> QED BY <3>1
    <2>2. p >= q + 1
        BY <2>1
    <2>3. T * p >= T * (q + 1)
        BY <1>1, <2>2
    <2>4. T * (q + 1) = T * q + T
        BY <1>1
    <2> QED BY <2>3, <2>4, <1>3, <1>4, <1>2, <1>5, <1>1
<1> QED BY <1>2, <1>5

(***************************************************************************)
(* Certifications.                                                         *)
(***************************************************************************)
LEMMA WorstFinding ==
    ASSUME NEW S \in SUBSET (0..5), S # {}
    PROVE  Max(S) \in S /\ \A y \in S : y <= Max(S)
PROOF
<1>1. \E x \in S : \A y \in S : x >= y
    <2>1. CASE 5 \in S
        BY <2>1
    <2>2. CASE 5 \notin S /\ 4 \in S
        BY <2>2
    <2>3. CASE 5 \notin S /\ 4 \notin S /\ 3 \in S
        BY <2>3
    <2>4. CASE 5 \notin S /\ 4 \notin S /\ 3 \notin S /\ 2 \in S
        BY <2>4
    <2>5. CASE 5 \notin S /\ 4 \notin S /\ 3 \notin S /\ 2 \notin S /\ 1 \in S
        BY <2>5
    <2>6. CASE 5 \notin S /\ 4 \notin S /\ 3 \notin S /\ 2 \notin S /\ 1 \notin S
        <3>1. ASSUME NEW x \in S PROVE x = 0
            <4>1. x \in 0..5 /\ x # 1 /\ x # 2 /\ x # 3 /\ x # 4 /\ x # 5
                BY <2>6
            <4> QED BY <4>1
        <3>2. S = {0}
            BY <3>1
        <3> QED BY <3>2
    <2> QED BY <2>1, <2>2, <2>3, <2>4, <2>5, <2>6
<1>2. Max(S) \in S /\ \A y \in S : Max(S) >= y
    BY <1>1 DEF Max
<1> QED BY <1>2

\* What the certifications of this flow are: the i-th one of a certify command
\* run by `now`, signed with one key.
SignedWith(e, key) == e.sigs = {[keyid |-> Keyid(key), by |-> key, over |-> Pae(InToto, e.payload)]}
Certificate(e, i, now) ==
    LET c == e.payload.certification
    IN /\ e.type = InToto /\ e.payload = StatementOf(c)
       /\ SignedWith(e, IssuerKey) \/ SignedWith(e, ExporterKey)
       /\ c.id = i /\ c.release = This /\ c.decision.release = This /\ c.limited
       /\ c.decision.runs \in {{1}, {2}}
       /\ c.issued \in Nat /\ c.issued <= now /\ Rfc3339(c.issued) = c.issued
       /\ c.until \in Nat /\ Rfc3339(c.until) = c.until

\* is_certified in terms of the certification: the signer is trusted, the
\* decision is to certify, the statement is not revoked, and the time is within
\* the window (statement.rs check_statement).
InForce(e, keys, revoked, now) ==
    LET c == e.payload.certification
    IN /\ \E k \in keys : SignedWith(e, k)
       /\ c.decision.outcome = "certified" /\ StatementDigest(e) \notin revoked
       /\ c.issued <= now /\ now < c.until
ContextOf(keys, revoked, now) ==
    [trusted |-> {TrustedKey(Keyid(k), k) : k \in keys}, revoked |-> revoked, revokedKeys |-> {},
     now |-> now, expected |-> This, required |-> {}]
LEMMA FindingsRange ==
    ASSUME NEW e, NEW ctx
    PROVE  Findings(e, ctx) \cup {Valid} \in SUBSET (0..5)
PROOF
BY DEF Findings, CheckSignatures, CheckStatement, CheckCertification, CheckValidityWindow, When,
       Valid, ValidWithLimitations, Incomplete, Expired, Revoked, Invalid

LEMMA StatusBound ==
    ASSUME NEW e, NEW ctx
    PROVE  /\ StatementStatus(e, ctx) <= ValidWithLimitations <=> \A f \in Findings(e, ctx) : f <= 1
           /\ StatementStatus(e, ctx) = Invalid <=> Invalid \in Findings(e, ctx)
PROOF
<1> DEFINE S == Findings(e, ctx) \cup {Valid}
<1>1. S \in SUBSET (0..5) /\ S # {}
    BY FindingsRange
<1>2. Max(S) \in S /\ \A y \in S : y <= Max(S)
    BY <1>1, WorstFinding
<1>3. StatementStatus(e, ctx) = Max(S)
    BY DEF StatementStatus
<1> HIDE DEF S
<1>4. \A f \in S : f \in 0..5
    BY <1>1
<1>5. Max(S) <= 1 <=> \A f \in S : f <= 1
    BY <1>2, <1>4
<1>6. Max(S) = 5 <=> 5 \in S
    BY <1>2, <1>4
<1> QED BY <1>3, <1>5, <1>6 DEF S, Valid, ValidWithLimitations, Invalid

LEMMA SignerFound ==
    ASSUME NEW e, e.type = InToto, SignedWith(e, IssuerKey) \/ SignedWith(e, ExporterKey), NEW keys
    PROVE  VerifiedKeyids(e, {TrustedKey(Keyid(k), k) : k \in keys}) # {} <=> \E k \in keys : SignedWith(e, k)
PROOF
<1>1. PICK key : SignedWith(e, key)
    OBVIOUS
<1> DEFINE s == [keyid |-> Keyid(key), by |-> key, over |-> Pae(InToto, e.payload)]
           trusted == {TrustedKey(Keyid(k), k) : k \in keys}
<1>2. e.sigs = {s}
    BY <1>1 DEF SignedWith
<1>3. CheckSignature(s, Pae(e.type, e.payload), trusted) <=> key \in keys
    <2>1. ASSUME key \in keys PROVE CheckSignature(s, Pae(e.type, e.payload), trusted)
        <3>1. TrustedKey(Keyid(key), key) \in trusted
            BY <2>1
        <3> QED BY <3>1 DEF CheckSignature, TrustedKey
    <2>2. ASSUME CheckSignature(s, Pae(e.type, e.payload), trusted) PROVE key \in keys
        <3>1. PICK t \in trusted : t.key = s.by
            BY <2>2 DEF CheckSignature
        <3>2. PICK k \in keys : t = TrustedKey(Keyid(k), k)
            BY <3>1
        <3> QED BY <3>1, <3>2 DEF TrustedKey
    <2> QED BY <2>1, <2>2
<1>4. VerifiedKeyids(e, trusted) # {} <=> key \in keys
    BY <1>2, <1>3 DEF VerifiedKeyids
<1>5. ASSUME NEW k \in keys, SignedWith(e, k) PROVE key \in keys
    <2>1. {[keyid |-> Keyid(k), by |-> k, over |-> Pae(InToto, e.payload)]} = {s}
        BY <1>2, <1>5 DEF SignedWith
    <2>2. [keyid |-> Keyid(k), by |-> k, over |-> Pae(InToto, e.payload)] = s
        BY <2>1
    <2>3. k = key
        BY <2>2
    <2> QED BY <2>3
<1> QED BY <1>1, <1>4, <1>5

\* The findings on such a certification.
LEMMA FindingsAre ==
    ASSUME NEW e, NEW i, NEW n, Certificate(e, i, n), NEW keys, NEW revoked, NEW now \in Int
    PROVE  LET c == e.payload.certification
           IN Findings(e, ContextOf(keys, revoked, now)) =
                When(~ \E k \in keys : SignedWith(e, k), Invalid) \cup When(StatementDigest(e) \in revoked, Revoked)
                  \cup When(c.until <= c.issued, Invalid) \cup When(now < c.issued, Invalid)
                  \cup When(now >= c.until, Expired) \cup {ValidWithLimitations}
PROOF
<1> DEFINE c == e.payload.certification
           ctx == ContextOf(keys, revoked, now)
<1>1. /\ e.type = InToto /\ e.payload = StatementOf(c)
      /\ SignedWith(e, IssuerKey) \/ SignedWith(e, ExporterKey)
      /\ c.release = This /\ c.decision.release = This /\ c.limited
    BY DEF Certificate
<1>2. CheckSignatures(e, ctx) = When(~ \E k \in keys : SignedWith(e, k), Invalid)
    BY <1>1, SignerFound DEF CheckSignatures, ContextOf, When
<1>3. /\ e.payload.json = TRUE /\ e.payload.type = StatementV1 /\ e.payload.predicate = "cloakpipe.co"
      /\ e.payload.subject = This
    BY <1>1 DEF StatementOf
<1>4. Decodes(e)
    BY <1>3 DEF Decodes, Undecodable
<1>5. CheckValidityWindow(c, ctx) =
        When(c.until <= c.issued, Invalid) \cup When(now < c.issued, Invalid) \cup When(now >= c.until, Expired)
    BY DEF CheckValidityWindow, ContextOf
<1>6. CheckCertification(c, e.payload.subject, ctx) = CheckValidityWindow(c, ctx) \cup {ValidWithLimitations}
    BY <1>1, <1>3 DEF CheckCertification, ReleaseHashes, This, When, ContextOf
<1>7. CheckStatement(e.payload, ctx) = CheckCertification(c, e.payload.subject, ctx)
    BY <1>1, <1>3 DEF CheckStatement, CertificationTypes, When, ContextOf
<1>8. Findings(e, ctx) = CheckSignatures(e, ctx) \cup When(StatementDigest(e) \in revoked, Revoked)
                           \cup CheckStatement(e.payload, ctx)
    BY <1>1, <1>4 DEF Findings, When, ContextOf
<1> HIDE DEF ctx, c
<1>9. Findings(e, ctx) =
         When(~ \E k \in keys : SignedWith(e, k), Invalid) \cup When(StatementDigest(e) \in revoked, Revoked)
           \cup ((When(c.until <= c.issued, Invalid) \cup When(now < c.issued, Invalid) \cup When(now >= c.until, Expired))
                   \cup {ValidWithLimitations})
    BY <1>2, <1>5, <1>6, <1>7, <1>8
<1>10. Findings(e, ctx) =
                When(~ \E k \in keys : SignedWith(e, k), Invalid) \cup When(StatementDigest(e) \in revoked, Revoked)
                  \cup When(c.until <= c.issued, Invalid) \cup When(now < c.issued, Invalid)
                  \cup When(now >= c.until, Expired) \cup {ValidWithLimitations}
    BY <1>9
<1> QED BY <1>10 DEF ctx, c

LEMMA CertifiedIs ==
    ASSUME NEW e, NEW i, NEW n, Certificate(e, i, n), NEW keys, NEW revoked, NEW now \in Int
    PROVE  IsCertified(e, ContextOf(keys, revoked, now)) <=> InForce(e, keys, revoked, now)
PROOF
<1> DEFINE c == e.payload.certification
           ctx == ContextOf(keys, revoked, now)
<1>1. Decodes(e) /\ c.issued \in Nat /\ c.until \in Nat
    <2>1. e.payload.json = TRUE
        BY DEF Certificate, StatementOf
    <2> QED BY <2>1 DEF Certificate, Decodes, Undecodable
<1>2. StatementStatus(e, ctx) <= ValidWithLimitations <=> \A f \in Findings(e, ctx) : f <= 1
    BY StatusBound
<1>3. (\A f \in Findings(e, ctx) : f <= 1) <=>
        /\ \E k \in keys : SignedWith(e, k)
        /\ StatementDigest(e) \notin revoked
        /\ ~ (c.until <= c.issued) /\ ~ (now < c.issued) /\ ~ (now >= c.until)
    <2>1. Findings(e, ctx) =
                When(~ \E k \in keys : SignedWith(e, k), Invalid) \cup When(StatementDigest(e) \in revoked, Revoked)
                  \cup When(c.until <= c.issued, Invalid) \cup When(now < c.issued, Invalid)
                  \cup When(now >= c.until, Expired) \cup {ValidWithLimitations}
        BY FindingsAre
    <2> HIDE DEF ctx, c
    <2> QED BY <2>1 DEF When, Invalid, Revoked, Expired, ValidWithLimitations
<1>4. IsCertified(e, ctx) <=> (\A f \in Findings(e, ctx) : f <= 1) /\ c.decision.outcome = "certified"
    BY <1>1, <1>2 DEF IsCertified
<1>5. ~ (c.until <= c.issued) /\ ~ (now < c.issued) /\ ~ (now >= c.until) <=> c.issued <= now /\ now < c.until
    BY <1>1
<1> QED BY <1>3, <1>4, <1>5 DEF InForce

(***************************************************************************)
(* The order of the events of a pack.                                      *)
(***************************************************************************)
Earlier(es, i, j) == es[i].at < es[j].at \/ (es[i].at = es[j].at /\ i < j)
Predecessors(es, i) == {j \in DOMAIN es : Earlier(es, j, i)}
Rank(es, i) == Cardinality(Predecessors(es, i)) + 1
Timed(es, n) == DOMAIN es = 1..n /\ \A i \in 1..n : es[i].at \in Int

LEMMA RankType ==
    ASSUME NEW n \in Nat, NEW es, Timed(es, n), NEW i \in 1..n
    PROVE  /\ Rank(es, i) \in 1..n
           /\ IsFiniteSet(Predecessors(es, i)) /\ Cardinality(Predecessors(es, i)) \in Nat
PROOF
<1>1. IsFiniteSet(1..n) /\ Cardinality(1..n) = n
    BY FS_Interval
<1>2. Predecessors(es, i) \in SUBSET ((1..n) \ {i})
    BY DEF Predecessors, Timed, Earlier
<1>3. IsFiniteSet((1..n) \ {i}) /\ Cardinality((1..n) \ {i}) = n - 1
    BY <1>1, FS_RemoveElement
<1>4. IsFiniteSet(Predecessors(es, i)) /\ Cardinality(Predecessors(es, i)) <= n - 1
    BY <1>2, <1>3, FS_Subset
<1>5. Cardinality(Predecessors(es, i)) \in Nat
    BY <1>4, FS_CardinalityType
<1> QED BY <1>4, <1>5 DEF Rank

LEMMA RankOrders ==
    ASSUME NEW n \in Nat, NEW es, Timed(es, n), NEW i \in 1..n, NEW j \in 1..n, Earlier(es, i, j)
    PROVE  Rank(es, i) < Rank(es, j)
PROOF
<1>1. \A k \in 1..n : es[k].at \in Int
    BY DEF Timed
<1>2. Predecessors(es, i) \subseteq Predecessors(es, j)
    <2> SUFFICES ASSUME NEW k \in 1..n, Earlier(es, k, i) PROVE Earlier(es, k, j)
        BY DEF Predecessors, Timed
    <2> QED BY <1>1 DEF Earlier
<1>3. i \in Predecessors(es, j) /\ i \notin Predecessors(es, i)
    BY <1>1 DEF Predecessors, Earlier, Timed
<1>4. IsFiniteSet(Predecessors(es, j)) /\ Cardinality(Predecessors(es, j)) \in Nat /\ Cardinality(Predecessors(es, i)) \in Nat
    BY RankType
<1>5. Cardinality(Predecessors(es, i)) <= Cardinality(Predecessors(es, j))
    BY <1>2, <1>4, FS_Subset
<1>6. Cardinality(Predecessors(es, j)) # Cardinality(Predecessors(es, i))
    BY <1>2, <1>3, <1>4, FS_Subset
<1> QED BY <1>4, <1>5, <1>6 DEF Rank

LEMMA EarlierTotal ==
    ASSUME NEW n \in Nat, NEW es, Timed(es, n), NEW i \in 1..n, NEW j \in 1..n, i # j
    PROVE  Earlier(es, i, j) \/ Earlier(es, j, i)
PROOF
<1>1. es[i].at \in Int /\ es[j].at \in Int
    BY DEF Timed
<1> QED BY <1>1 DEF Earlier

\* A one-to-one map of 1..n into itself is onto.
LEMMA OneToOneIsOnto ==
    ASSUME NEW n \in Nat, NEW r \in [1..n -> 1..n], \A i, j \in 1..n : i # j => r[i] # r[j], NEW k \in 1..n
    PROVE  \E i \in 1..n : r[i] = k
PROOF
<1>1. IsFiniteSet(1..n)
    BY FS_Interval
<1>2. r \in Injection(1..n, 1..n)
    BY DEF Injection, IsInjective
<1>3. r \in Surjection(1..n, 1..n)
    BY <1>1, <1>2, FS_Injection
<1> QED BY <1>3 DEF Surjection

\* Sorting is a stable permutation into the order of time (build.rs, sort_by).
Position(es, n) == [k \in 1..n |-> CHOOSE i \in DOMAIN es : Rank(es, i) = k]
LEMMA SortPermutes ==
    ASSUME NEW n \in Nat, NEW es, Timed(es, n)
    PROVE  /\ DOMAIN SortEvents(es) = 1..n
           /\ Position(es, n) \in [1..n -> 1..n]
           /\ \A k \in 1..n : SortEvents(es)[k] = es[Position(es, n)[k]] /\ Rank(es, Position(es, n)[k]) = k
           /\ \A i \in 1..n : Position(es, n)[Rank(es, i)] = i
           /\ \A k, l \in 1..n : k < l => Earlier(es, Position(es, n)[k], Position(es, n)[l])
PROOF
<1> DEFINE p == Position(es, n)
           r == [i \in 1..n |-> Rank(es, i)]
<1>1. DOMAIN es = 1..n
    BY DEF Timed
<1>2. r \in [1..n -> 1..n]
    BY RankType
<1>3. ASSUME NEW i \in 1..n, NEW j \in 1..n, i # j PROVE Rank(es, i) # Rank(es, j)
    <2>1. Rank(es, i) \in 1..n /\ Rank(es, j) \in 1..n
        BY RankType
    <2>2. Rank(es, i) < Rank(es, j) \/ Rank(es, j) < Rank(es, i)
        BY <1>3, EarlierTotal, RankOrders
    <2> QED BY <2>1, <2>2
<1>4. ASSUME NEW k \in 1..n PROVE \E i \in 1..n : Rank(es, i) = k
    <2>1. \A i, j \in 1..n : i # j => r[i] # r[j]
        BY <1>3
    <2> HIDE DEF r
    <2>2. PICK i \in 1..n : r[i] = k
        BY <1>2, <2>1, OneToOneIsOnto
    <2> QED BY <2>2 DEF r
<1>5. ASSUME NEW k \in 1..n PROVE p[k] \in 1..n /\ Rank(es, p[k]) = k
    BY <1>1, <1>4 DEF Position
<1>6. p \in [1..n -> 1..n]
    BY <1>1, <1>4 DEF Position
<1>7. SortEvents(es) = [k \in 1..n |-> es[p[k]]]
    <2>1. \A k \in 1..n : p[k] = CHOOSE i \in DOMAIN es : Rank(es, i) = k
        BY DEF Position
    <2>2. SortEvents(es) = [k \in DOMAIN es |-> es[CHOOSE i \in DOMAIN es : Rank(es, i) = k]]
        BY DEF SortEvents, Rank, Predecessors, Earlier
    <2> HIDE DEF p
    <2>3. SortEvents(es) = [k \in 1..n |-> es[CHOOSE i \in DOMAIN es : Rank(es, i) = k]]
        BY <1>1, <2>2
    <2> QED BY <2>1, <2>3
<1>8. ASSUME NEW i \in 1..n PROVE p[Rank(es, i)] = i
    <2>1. Rank(es, i) \in 1..n
        BY RankType
    <2> QED BY <2>1, <1>3, <1>5
<1>9. ASSUME NEW k \in 1..n, NEW l \in 1..n, k < l PROVE Earlier(es, p[k], p[l])
    <2>1. p[k] # p[l]
        BY <1>5, <1>9
    <2>2. p[k] \in 1..n /\ p[l] \in 1..n /\ Rank(es, p[k]) = k /\ Rank(es, p[l]) = l
        BY <1>5
    <2>3. Earlier(es, p[l], p[k]) => l < k
        BY <2>2, RankOrders
    <2> QED BY <2>1, <2>2, <2>3, <1>9, EarlierTotal
<1> HIDE DEF p
<1> QED BY <1>5, <1>6, <1>7, <1>8, <1>9 DEF p

(***************************************************************************)
(* Sequences whose elements have no type of their own.                     *)
(***************************************************************************)
IsSeq(s) == Len(s) \in Nat /\ s \in [1..Len(s) -> {s[i] : i \in 1..Len(s)}]

LEMMA SeqOver ==
    ASSUME NEW s, IsSeq(s), NEW X, {s[i] : i \in 1..Len(s)} \subseteq X
    PROVE  s \in Seq(X)
PROOF
<1> DEFINE n == Len(s)
<1>1. n \in Nat /\ s \in [1..n -> X]
    BY DEF IsSeq
<1>2. s \in UNION {[1..m -> X] : m \in Nat}
    BY <1>1
<1> QED BY <1>1 DEF IsSeq

LEMMA SeqBack ==
    ASSUME NEW X, NEW s \in Seq(X)
    PROVE  IsSeq(s) /\ DOMAIN s = 1..Len(s)
PROOF
BY DEF IsSeq

LEMMA SeqEmpty == IsSeq(<<>>) /\ Len(<<>>) = 0
PROOF
<1>1. <<>> \in Seq({})
    OBVIOUS
<1>2. Len(<<>>) = 0
    OBVIOUS
<1> QED BY <1>1, <1>2, SeqBack

LEMMA SeqConcat ==
    ASSUME NEW s, NEW t, IsSeq(s), IsSeq(t)
    PROVE  /\ IsSeq(s \o t) /\ DOMAIN (s \o t) = 1..Len(s \o t) /\ Len(s \o t) = Len(s) + Len(t)
           /\ \A i \in 1..Len(s) : (s \o t)[i] = s[i]
           /\ \A i \in 1..Len(t) : (s \o t)[Len(s) + i] = t[i]
           /\ \A i \in (Len(s) + 1)..(Len(s) + Len(t)) : (s \o t)[i] = t[i - Len(s)]
PROOF
<1> DEFINE X == {s[i] : i \in 1..Len(s)} \cup {t[i] : i \in 1..Len(t)}
<1>1. s \in Seq(X) /\ t \in Seq(X)
    BY SeqOver
<1> HIDE DEF X
<1>2. s \o t \in Seq(X)
    BY <1>1
<1>3. IsSeq(s \o t) /\ DOMAIN (s \o t) = 1..Len(s \o t)
    BY <1>2, SeqBack
<1>4. Len(s \o t) = Len(s) + Len(t) /\ Len(s) \in Nat /\ Len(t) \in Nat
    BY <1>1
<1>5. \A i \in 1..(Len(s) + Len(t)) : (s \o t)[i] = IF i <= Len(s) THEN s[i] ELSE t[i - Len(s)]
    BY <1>1
<1>6. \A i \in 1..Len(s) : (s \o t)[i] = s[i]
    BY <1>4, <1>5
<1>7. \A i \in 1..Len(t) : (s \o t)[Len(s) + i] = t[i]
    <2> TAKE i \in 1..Len(t)
    <2>1. Len(s) + i \in 1..(Len(s) + Len(t)) /\ ~ (Len(s) + i <= Len(s)) /\ Len(s) + i - Len(s) = i
        BY <1>4
    <2> QED BY <2>1, <1>5
<1>8. \A i \in (Len(s) + 1)..(Len(s) + Len(t)) : (s \o t)[i] = t[i - Len(s)]
    <2> TAKE i \in (Len(s) + 1)..(Len(s) + Len(t))
    <2>1. i \in 1..(Len(s) + Len(t)) /\ ~ (i <= Len(s))
        BY <1>4
    <2> QED BY <2>1, <1>5
<1> QED BY <1>3, <1>4, <1>6, <1>7, <1>8

LEMMA SeqAppend ==
    ASSUME NEW s, NEW e, IsSeq(s)
    PROVE  /\ IsSeq(Append(s, e)) /\ DOMAIN Append(s, e) = 1..(Len(s) + 1) /\ Len(Append(s, e)) = Len(s) + 1
           /\ \A i \in 1..Len(s) : Append(s, e)[i] = s[i]
           /\ Append(s, e)[Len(s) + 1] = e
PROOF
<1> DEFINE X == {s[i] : i \in 1..Len(s)} \cup {e}
<1>1. s \in Seq(X) /\ e \in X
    BY SeqOver
<1> HIDE DEF X
<1>2. Append(s, e) \in Seq(X)
    BY <1>1
<1>3. IsSeq(Append(s, e)) /\ DOMAIN Append(s, e) = 1..Len(Append(s, e))
    BY <1>2, SeqBack
<1>4. Len(Append(s, e)) = Len(s) + 1
    BY <1>1
<1>5. \A i \in 1..Len(s) : Append(s, e)[i] = s[i]
    BY <1>1
<1>6. Append(s, e)[Len(s) + 1] = e
    BY <1>1
<1> QED BY <1>3, <1>4, <1>5, <1>6

LEMMA SeqRemove ==
    ASSUME NEW s, IsSeq(s), NEW i \in 1..Len(s)
    PROVE  /\ IsSeq(RemoveAt(s, i)) /\ DOMAIN RemoveAt(s, i) = 1..(Len(s) - 1) /\ Len(RemoveAt(s, i)) = Len(s) - 1
           /\ \A j \in 1..(Len(s) - 1) : RemoveAt(s, i)[j] = s[IF j < i THEN j ELSE j + 1]
PROOF
<1> DEFINE X == {s[k] : k \in 1..Len(s)}
           a == SubSeq(s, 1, i - 1)
           b == SubSeq(s, i + 1, Len(s))
<1>1. s \in Seq(X) /\ Len(s) \in Nat
    BY SeqOver DEF IsSeq
<1> HIDE DEF X
<1>2. a \in Seq(X) /\ Len(a) = i - 1 /\ \A j \in 1..(i - 1) : a[j] = s[j]
    BY <1>1
<1>3. b \in Seq(X) /\ Len(b) = Len(s) - i /\ \A j \in 1..(Len(s) - i) : b[j] = s[j + i]
    BY <1>1
<1>4. RemoveAt(s, i) = a \o b
    BY DEF RemoveAt
<1> HIDE DEF a, b
<1>5. IsSeq(a) /\ IsSeq(b)
    BY <1>2, <1>3, SeqBack
<1>6. IsSeq(a \o b) /\ DOMAIN (a \o b) = 1..Len(a \o b) /\ Len(a \o b) = Len(s) - 1
    <2>1. IsSeq(a \o b) /\ DOMAIN (a \o b) = 1..Len(a \o b) /\ Len(a \o b) = Len(a) + Len(b)
        BY <1>5, SeqConcat
    <2>2. Len(a) + Len(b) = Len(s) - 1
        BY <1>1, <1>2, <1>3
    <2> QED BY <2>1, <2>2
<1>7. ASSUME NEW j \in 1..(Len(s) - 1) PROVE (a \o b)[j] = s[IF j < i THEN j ELSE j + 1]
    <2>1. CASE j < i
        <3>1. j \in 1..Len(a) /\ (a \o b)[j] = a[j] /\ a[j] = s[j]
            BY <2>1, <1>1, <1>2, <1>5, SeqConcat
        <3> QED BY <2>1, <3>1
    <2>2. CASE ~ (j < i)
        <3>1. j \in (Len(a) + 1)..(Len(a) + Len(b)) /\ j - Len(a) \in 1..(Len(s) - i)
            BY <2>2, <1>1, <1>2, <1>3
        <3>2. (a \o b)[j] = b[j - Len(a)]
            BY <3>1, <1>5, SeqConcat
        <3>3. b[j - Len(a)] = s[j - Len(a) + i] /\ j - Len(a) + i = j + 1
            BY <3>1, <1>1, <1>2, <1>3
        <3> QED BY <2>2, <3>2, <3>3
    <2> QED BY <2>1, <2>2
<1> QED BY <1>4, <1>6, <1>7

LEMMA SeqReverse ==
    ASSUME NEW s, IsSeq(s)
    PROVE  /\ IsSeq(Reverse(s)) /\ DOMAIN Reverse(s) = 1..Len(s) /\ Len(Reverse(s)) = Len(s)
           /\ \A j \in 1..Len(s) : Reverse(s)[j] = s[Len(s) - j + 1]
PROOF
<1> DEFINE X == {s[k] : k \in 1..Len(s)}
           n == Len(s)
<1>1. n \in Nat
    BY DEF IsSeq
<1>2. \A j \in 1..n : n - j + 1 \in 1..n
    BY <1>1
<1>3. Reverse(s) \in [1..n -> X] /\ \A j \in 1..n : Reverse(s)[j] = s[n - j + 1]
    BY <1>2 DEF Reverse
<1>4. Reverse(s) \in Seq(X) /\ Len(Reverse(s)) = n
    <2> HIDE DEF X
    <2>1. Reverse(s) \in Seq(X)
        BY <1>1, <1>3
    <2> QED BY <1>1, <1>3, <2>1
<1> QED BY <1>3, <1>4, SeqBack

(***************************************************************************)
(* What each way of exporting writes.                                      *)
(***************************************************************************)
ThisManifest == [hash |-> This, agent |-> "agent", certifiable |-> TRUE]
RunsTold(way) == IF way[1] = "no runs" THEN <<>> ELSE Evaluations
CertsTold(way) == IF way[1] = "no certification" THEN RemoveAt(issued, way[2]) ELSE issued
EventsTold(way) ==
    CASE way[1] = "newest first"     -> Reverse(history)
      [] way[1] = "no event"         -> RemoveAt(history, way[2])
      [] way[1] = "a promotion more" -> Append(history, ReleasePromoted(way[2], CertifiedEnvironment, "none", FALSE))
      [] OTHER                       -> history
ExportsTold(way) ==
    CASE way[1] = "with a ledger"               -> <<SealedExport>>
      [] way[1] = "a ledger twice"              -> <<LedgerExport, SealedExport>>
      [] way[1] = "a ledger of another release" -> <<ExportBundle(SubSeq(Ledger, 1, 1), "bundle", LedgerSignerKey)>>
      [] way[1] = "a ledger of another key"     -> <<ExportBundle(Ledger, "bundle", ExporterKey)>>
      [] OTHER                                  -> <<>>
InputTold(way, created) ==
    [manifest |-> ThisManifest, created |-> created, runs |-> RunsTold(way), certs |-> CertsTold(way),
     events |-> EventsTold(way), exports |-> ExportsTold(way)]
SpecTold(way, created) ==
    [manifest |-> ThisManifest, created |-> created, runs |-> RunsTold(way), certs |-> CertsTold(way),
     events |-> SortEvents(EventsTold(way)), exports |-> ExportsTold(way)]
PackTold(way, created) ==
    [spec |-> SpecTold(way, created), keyid |-> Keyid(ExporterKey), sig |-> Signed(ExporterKey, SpecTold(way, created))]
WayNames ==
    {"complete", "newest first", "with a ledger", "no runs", "a ledger twice", "a ledger of another release",
     "a ledger of another key", "no event", "no certification", "a promotion more"}

LEMMA WaysAre ==
    ASSUME NEW way \in Ways
    PROVE  /\ way[1] \in WayNames
           /\ way[1] = "no event" => way[2] \in DOMAIN history
           /\ way[1] = "no certification" => way[2] \in DOMAIN issued
           /\ way[1] = "a promotion more" => way[2] \in 0..instant
           /\ way[1] \in {"with a ledger", "a ledger twice", "a ledger of another release", "a ledger of another key"}
                => Len(history) = 1 /\ issued = <<>>
PROOF
<1> DEFINE ledgers == {"with a ledger", "a ledger twice", "a ledger of another release", "a ledger of another key"}
<1>1. CASE \E w \in {"complete", "newest first", "no runs"} \cup LedgerWays : way = <<w, 0>>
    <2>1. way[1] \in {"complete", "newest first", "no runs"} \cup LedgerWays
        <3>1. PICK w \in {"complete", "newest first", "no runs"} \cup LedgerWays : way = <<w, 0>>
            BY <1>1
        <3>2. way[1] = w
            BY <3>1
        <3> QED BY <3>2
    <2>2. LedgerWays \subseteq ledgers /\ (LedgerWays # {} => Len(history) = 1 /\ issued = <<>>)
        BY DEF LedgerWays
    <2> QED BY <2>1, <2>2 DEF WayNames
<1>2. CASE \E i \in DOMAIN history : way = <<"no event", i>>
    <2>1. PICK i \in DOMAIN history : way = <<"no event", i>>
        BY <1>2
    <2>2. way[1] = "no event" /\ way[2] = i
        BY <2>1
    <2> QED BY <2>2 DEF WayNames
<1>3. CASE \E i \in DOMAIN issued : way = <<"no certification", i>>
    <2>1. PICK i \in DOMAIN issued : way = <<"no certification", i>>
        BY <1>3
    <2>2. way[1] = "no certification" /\ way[2] = i
        BY <2>1
    <2> QED BY <2>2 DEF WayNames
<1>4. CASE \E t \in 0..instant : way = <<"a promotion more", t>>
    <2>1. PICK t \in 0..instant : way = <<"a promotion more", t>>
        BY <1>4
    <2>2. way[1] = "a promotion more" /\ way[2] = t
        BY <2>1
    <2> QED BY <2>2 DEF WayNames
<1>5. \/ \E w \in {"complete", "newest first", "no runs"} \cup LedgerWays : way = <<w, 0>>
      \/ \E i \in DOMAIN history : way = <<"no event", i>>
      \/ \E i \in DOMAIN issued : way = <<"no certification", i>>
      \/ \E t \in 0..instant : way = <<"a promotion more", t>>
    BY DEF Ways
<1> QED BY <1>1, <1>2, <1>3, <1>4, <1>5

LEMMA InputIs ==
    ASSUME NEW way \in Ways
    PROVE  /\ InputOf(way) = InputTold(way, Rfc3339(instant))
           /\ Build(InputOf(way), ExporterKey) = PackTold(way, Rfc3339(instant))
PROOF
<1>1. way[1] \in WayNames
    BY WaysAre
<1> DEFINE full == [manifest |-> ThisManifest, created |-> Rfc3339(instant),
                    runs |-> Evaluations, certs |-> issued, events |-> history, exports |-> <<>>]
           in == InputTold(way, Rfc3339(instant))
           made == [spec |-> [in EXCEPT !.events = SortEvents(in.events)], keyid |-> Keyid(ExporterKey),
                    sig |-> Signed(ExporterKey, [in EXCEPT !.events = SortEvents(in.events)])]
<1>2. InputOf(way) = in
    <2>1. CASE way[1] = "complete"
        BY <2>1 DEF InputOf, ThisManifest, InputTold, RunsTold, CertsTold, EventsTold, ExportsTold
    <2>2. CASE way[1] = "newest first"
        BY <2>2 DEF InputOf, ThisManifest, InputTold, RunsTold, CertsTold, EventsTold, ExportsTold
    <2>3. CASE way[1] = "with a ledger"
        BY <2>3 DEF InputOf, ThisManifest, InputTold, RunsTold, CertsTold, EventsTold, ExportsTold
    <2>4. CASE way[1] = "no runs"
        BY <2>4 DEF InputOf, ThisManifest, InputTold, RunsTold, CertsTold, EventsTold, ExportsTold
    <2>5. CASE way[1] = "a ledger twice"
        BY <2>5 DEF InputOf, ThisManifest, InputTold, RunsTold, CertsTold, EventsTold, ExportsTold
    <2>6. CASE way[1] = "a ledger of another release"
        BY <2>6 DEF InputOf, ThisManifest, InputTold, RunsTold, CertsTold, EventsTold, ExportsTold
    <2>7. CASE way[1] = "a ledger of another key"
        BY <2>7 DEF InputOf, ThisManifest, InputTold, RunsTold, CertsTold, EventsTold, ExportsTold
    <2>8. CASE way[1] = "no event"
        BY <2>8 DEF InputOf, ThisManifest, InputTold, RunsTold, CertsTold, EventsTold, ExportsTold
    <2>9. CASE way[1] = "no certification"
        BY <2>9 DEF InputOf, ThisManifest, InputTold, RunsTold, CertsTold, EventsTold, ExportsTold
    <2>10. CASE way[1] = "a promotion more"
        BY <2>10 DEF InputOf, ThisManifest, InputTold, RunsTold, CertsTold, EventsTold, ExportsTold
    <2> QED BY <1>1, <2>1, <2>2, <2>3, <2>4, <2>5, <2>6, <2>7, <2>8, <2>9, <2>10 DEF WayNames
<1>3. Build(in, ExporterKey) = PackTold(way, Rfc3339(instant))
    <2>1. in.events = EventsTold(way)
        BY DEF InputTold
    <2>2. [in EXCEPT !.events = SortEvents(in.events)] = SpecTold(way, Rfc3339(instant))
        BY <2>1 DEF InputTold, SpecTold
    <2>3. Build(in, ExporterKey) = made
        BY DEF Build
    <2> QED BY <2>2, <2>3 DEF PackTold
<1> QED BY <1>2, <1>3

(***************************************************************************)
(* The inductive invariant of ReleaseFlow.                                 *)
(***************************************************************************)
\* Every certification is one that certify_inner made and signed.
IssuedInv ==
    /\ instant \in Nat /\ IsSeq(issued)
    /\ \A i \in 1..Len(issued) : Certificate(issued[i], i, instant)

\* The history is in the order of time, sound, and starts with the registration.
EventKinds == {"registered", "promoted", "superseded", "revoked", "breach"}
SoundEvent(e) == e.kind \in EventKinds /\ EventIsSound(e, This, "agent")
HistoryInv ==
    /\ IsSeq(history)
    /\ \A i \in 1..Len(history) : history[i].at \in Nat /\ history[i].at <= instant /\ SoundEvent(history[i])
    /\ \A i, j \in 1..Len(history) : i < j => history[i].at <= history[j].at
    /\ history # <<>> => OfKind(history, "registered") = {1}

\* A certification is revoked at most once, and not before it was issued.
RevokedInv ==
    \A i \in OfKind(history, "revoked") :
        /\ \E j \in 1..Len(issued) :
              /\ history[i].digest = StatementDigest(issued[j])
              /\ issued[j].payload.certification.issued <= history[i].at
        /\ \A k \in OfKind(history, "revoked") : k # i => history[k].digest # history[i].digest

\* The pointer of an environment is what the last move of its history says.
MovesTo(e, env) == e.kind \in {"promoted", "superseded"} /\ e.environment = env
LiveIn(es, env) ==
    \E i \in 1..Len(es) : /\ es[i].kind = "promoted" /\ es[i].environment = env
                          /\ \A k \in (i + 1)..Len(es) : ~MovesTo(es[k], env)
PointerInv ==
    /\ \E env \in Deployable : pointer \in [{env} -> {"none", This, "other"}]
    /\ \A env \in DOMAIN pointer : pointer[env] = This <=> LiveIn(history, env)

\* A promotion to production without break-glass stood on a certification that
\* was in force.
RevokedBefore(i) == {history[k].digest : k \in {r \in OfKind(history, "revoked") : r < i}}
PromotedInv ==
    \A i \in OfKind(history, "promoted") :
        history[i].environment = CertifiedEnvironment /\ ~history[i].breakGlass =>
        \E j \in 1..Len(issued) :
            /\ issued[j].payload.certification.environment = CertifiedEnvironment
            /\ InForce(issued[j], {IssuerKey}, RevokedBefore(i), history[i].at)

\* A breach that revokes left no certification of its environment in force,
\* but for those issued in its second.
BreachInv ==
    \A b \in OfKind(history, "breach"), j \in 1..Len(issued) :
        LET c == issued[j].payload.certification
        IN /\ history[b].action = "revoke" /\ c.environment = history[b].environment
           /\ InForce(issued[j], {IssuerKey}, {}, history[b].at)
           /\ c.issued # Rfc3339(history[b].at)
           => StatementDigest(issued[j]) \in RevokedSoFar

\* The pack is what its way writes of the history and the certifications.
FileInv ==
    Exported =>
    \E created \in 0..instant :
        /\ Rfc3339(created) = created
        /\ file.way \in Ways /\ BuildProblem(InputTold(file.way, created)) = "ok"
        /\ file.pack = PackTold(file.way, created)

ReleaseInv == IssuedInv /\ HistoryInv /\ RevokedInv /\ PointerInv /\ PromotedInv /\ BreachInv /\ FileInv

(***************************************************************************)
(* The certify command.                                                    *)
(***************************************************************************)
LEMMA DecisionIs ==
    ASSUME NEW run \in {1, 2}
    PROVE  LET d == Decide([release |-> This, required |-> {1}, runs |-> <<Evaluations[run]>>,
                            baselines |-> <<>>, policy |-> Policy])
           IN d.release = This /\ d.runs \in {{1}, {2}}
PROOF
<1> DEFINE in == [release |-> This, required |-> {1}, runs |-> <<Evaluations[run]>>, baselines |-> <<>>, policy |-> Policy]
<1>1. Evaluations[run].hash = run
    BY DEF Evaluations, RunOf
<1>2. in.runs = <<Evaluations[run]>> /\ in.release = This
    OBVIOUS
<1>3. DOMAIN in.runs = {1} /\ in.runs[1] = Evaluations[run]
    BY <1>2
<1>4. {in.runs[i].hash : i \in DOMAIN in.runs} = {run}
    BY <1>1, <1>3
<1> HIDE DEF in
<1>5. Decide(in).release = This /\ Decide(in).runs = {run}
    BY <1>2, <1>4 DEF Decide
<1> QED BY <1>5 DEF in

LEMMA CertifiableIs ==
    ASSUME NEW c \in Certifiable
    PROVE  c[2] \in {1, 2} /\ c[3] \in {IssuerKey, ExporterKey}
PROOF
<1>1. c = Plain \/ c \in Amiss
    BY DEF Certifiable
<1>2. CASE c = Plain
    BY <1>2 DEF Plain
<1>3. CASE c = <<"staging", 1, IssuerKey>>
    BY <1>3
<1>4. CASE c = <<CertifiedEnvironment, 2, IssuerKey>>
    BY <1>4
<1>5. CASE c = <<CertifiedEnvironment, 1, ExporterKey>>
    BY <1>5
<1> QED BY <1>1, <1>2, <1>3, <1>4, <1>5 DEF Amiss

LEMMA CertificateLater ==
    ASSUME NEW e, NEW i, NEW n \in Nat, NEW m \in Nat, n <= m, Certificate(e, i, n)
    PROVE  Certificate(e, i, m)
PROOF
<1>1. e.payload.certification.issued <= m
    BY DEF Certificate
<1> QED BY <1>1 DEF Certificate

LEMMA CertifyMakes ==
    ASSUME IssuedInv, NEW env, NEW run \in {1, 2}, NEW key \in {IssuerKey, ExporterKey}, Certify(env, run, key)
    PROVE  /\ IssuedInv' /\ Len(issued') = Len(issued) + 1
           /\ \A i \in 1..Len(issued) : issued'[i] = issued[i]
           /\ issued'[Len(issued) + 1].payload.certification.issued = Rfc3339(instant)
           /\ UNCHANGED <<instant, history, pointer, file>> /\ ~Exported
PROOF
<1> DEFINE until == Rfc3339(instant + Policy.days * DayTicks)
           c == CertificationOf(env, run, Rfc3339(instant), until)
           e == Sign(StatementOf(c), key, Keyid(key))
<1>1. instant \in Nat /\ Policy.days = 1 /\ DayTicks \in Nat
    BY ReleaseAssumption DEF IssuedInv, Policy
<1>2. /\ Rfc3339(instant) \in Nat /\ Rfc3339(instant) <= instant /\ Rfc3339(Rfc3339(instant)) = Rfc3339(instant)
      /\ until \in Nat /\ Rfc3339(until) = until
    <2>1. instant + Policy.days * DayTicks \in Nat
        BY <1>1
    <2> QED BY <1>1, <2>1, SecondsDown
<1>3. issued' = Append(issued, e) /\ UNCHANGED <<instant, history, pointer, file>> /\ ~Exported
    BY DEF Certify, Issue
<1>4. /\ c.id = Len(issued) + 1 /\ c.release = This /\ c.issued = Rfc3339(instant) /\ c.until = until /\ c.limited
      /\ c.decision.release = This /\ c.decision.runs \in {{1}, {2}}
    BY DecisionIs DEF CertificationOf
<1> HIDE DEF c
<1>5. e.type = InToto /\ e.payload = StatementOf(c) /\ SignedWith(e, key)
    BY DEF Sign, SignedWith
<1>6. e.payload.certification = c
    BY <1>5 DEF StatementOf
<1> HIDE DEF e, until
<1>7. Certificate(e, Len(issued) + 1, instant)
    BY <1>2, <1>4, <1>5, <1>6 DEF Certificate
<1>8. /\ IsSeq(issued') /\ Len(issued') = Len(issued) + 1 /\ \A i \in 1..Len(issued) : issued'[i] = issued[i]
      /\ issued'[Len(issued) + 1] = e
    BY <1>3, SeqAppend DEF IssuedInv
<1>9. Len(issued) \in Nat /\ \A i \in 1..Len(issued) : Certificate(issued[i], i, instant)
    BY DEF IssuedInv, IsSeq
<1>10. \A i \in 1..Len(issued') : Certificate(issued'[i], i, instant)
    <2> TAKE i \in 1..Len(issued')
    <2>1. CASE i \in 1..Len(issued)
        BY <2>1, <1>8, <1>9
    <2>2. CASE i = Len(issued) + 1
        BY <2>2, <1>7, <1>8
    <2> QED BY <2>1, <2>2, <1>8, <1>9
<1>11. IssuedInv'
    <2>1. instant' = instant
        BY <1>3
    <2> QED BY <1>1, <1>8, <1>10, <2>1 DEF IssuedInv
<1> QED BY <1>3, <1>4, <1>6, <1>8, <1>11

(***************************************************************************)
(* The control plane records events.                                       *)
(***************************************************************************)
LEMMA Grown ==
    ASSUME IsSeq(history), NEW evs, IsSeq(evs), history' = history \o evs
    PROVE  /\ Len(history) \in Nat /\ Len(evs) \in Nat
           /\ DOMAIN history = 1..Len(history) /\ DOMAIN evs = 1..Len(evs)
           /\ IsSeq(history') /\ Len(history') = Len(history) + Len(evs) /\ DOMAIN history' = 1..Len(history')
           /\ \A i \in 1..Len(history) : i \in 1..Len(history') /\ history'[i] = history[i]
           /\ \A k \in 1..Len(evs) : Len(history) + k \in 1..Len(history') /\ history'[Len(history) + k] = evs[k]
           /\ \A i \in 1..Len(history') :
                 i \in 1..Len(history) \/ (i > Len(history) /\ i - Len(history) \in 1..Len(evs) /\ history'[i] = evs[i - Len(history)])
PROOF
<1>1. /\ Len(history) \in Nat /\ Len(evs) \in Nat
      /\ DOMAIN history = 1..Len(history) /\ DOMAIN evs = 1..Len(evs)
    BY DEF IsSeq
<1>2. /\ IsSeq(history') /\ Len(history') = Len(history) + Len(evs) /\ DOMAIN history' = 1..Len(history')
      /\ \A i \in 1..Len(history) : history'[i] = history[i]
      /\ \A i \in 1..Len(evs) : history'[Len(history) + i] = evs[i]
      /\ \A i \in (Len(history) + 1)..(Len(history) + Len(evs)) : history'[i] = evs[i - Len(history)]
    BY SeqConcat
<1>3. ASSUME NEW i \in 1..Len(history'), i \notin 1..Len(history)
      PROVE  i > Len(history) /\ i - Len(history) \in 1..Len(evs) /\ history'[i] = evs[i - Len(history)]
    <2>1. i \in (Len(history) + 1)..(Len(history) + Len(evs))
        BY <1>1, <1>2, <1>3
    <2> QED BY <1>1, <1>2, <2>1
<1>4. /\ \A i \in 1..Len(history) : i \in 1..Len(history')
      /\ \A k \in 1..Len(evs) : Len(history) + k \in 1..Len(history')
    BY <1>1, <1>2
<1> QED BY <1>1, <1>2, <1>3, <1>4

LEMMA HistoryGrows ==
    ASSUME IssuedInv, HistoryInv, NEW evs, IsSeq(evs), history' = history \o evs, instant' = instant,
           \A k \in 1..Len(evs) : evs[k].at = instant /\ SoundEvent(evs[k]),
           history = <<>> => Len(evs) = 1 /\ evs[1].kind = "registered",
           history # <<>> => \A k \in 1..Len(evs) : evs[k].kind # "registered"
    PROVE  HistoryInv'
PROOF
<1> DEFINE N == Len(history)
<1>1. instant \in Nat /\ IsSeq(history)
    BY DEF IssuedInv, HistoryInv
<1>2. /\ N \in Nat /\ Len(evs) \in Nat /\ DOMAIN history = 1..N
      /\ IsSeq(history') /\ Len(history') = N + Len(evs) /\ DOMAIN history' = 1..Len(history')
      /\ \A i \in 1..N : i \in 1..Len(history') /\ history'[i] = history[i]
      /\ \A k \in 1..Len(evs) : N + k \in 1..Len(history') /\ history'[N + k] = evs[k]
      /\ \A i \in 1..Len(history') : i \in 1..N \/ (i > N /\ i - N \in 1..Len(evs) /\ history'[i] = evs[i - N])
    BY <1>1, Grown
<1>3. \A i \in 1..N : history[i].at \in Nat /\ history[i].at <= instant /\ SoundEvent(history[i])
    BY DEF HistoryInv
<1>4. \A i \in 1..Len(history') : history'[i].at \in Nat /\ history'[i].at <= instant /\ SoundEvent(history'[i])
    BY <1>1, <1>2, <1>3
<1>5. ASSUME NEW i \in 1..Len(history'), NEW j \in 1..Len(history'), i < j
      PROVE  history'[i].at <= history'[j].at
    <2>1. CASE j \in 1..N
        <3>1. i \in 1..N
            BY <1>2, <1>5, <2>1
        <3> QED BY <2>1, <3>1, <1>2, <1>5 DEF HistoryInv
    <2>2. CASE j \notin 1..N
        <3>1. history'[j].at = instant
            BY <1>2, <2>2
        <3> QED BY <3>1, <1>4
    <2> QED BY <2>1, <2>2
<1>6. OfKind(history', "registered") = {1}
    <2>1. CASE history = <<>>
        <3>1. N = 0
            BY <2>1, SeqEmpty
        <3>2. Len(history') = 1 /\ history'[1] = evs[1]
            BY <1>2, <2>1, <3>1
        <3> QED BY <1>2, <2>1, <3>2 DEF OfKind
    <2>2. CASE history # <<>>
        <3>1. OfKind(history, "registered") = {1}
            BY <2>2 DEF HistoryInv
        <3>2. 1 \in 1..N /\ history[1].kind = "registered" /\ \A i \in 1..N : history[i].kind = "registered" => i = 1
            BY <3>1, <1>2 DEF OfKind
        <3>3. \A i \in 1..Len(history') : history'[i].kind = "registered" <=> i = 1
            BY <2>2, <3>2, <1>2
        <3> QED BY <1>2, <3>2, <3>3 DEF OfKind
    <2> QED BY <2>1, <2>2
<1>7. \A i \in 1..Len(history') : history'[i].at <= instant'
    BY <1>4
<1> QED BY <1>2, <1>4, <1>5, <1>6, <1>7 DEF HistoryInv, SoundEvent

\* Revocations among the new events are of issued certifications, of each once.
LEMMA RevokedGrows ==
    ASSUME IssuedInv, HistoryInv, RevokedInv, NEW evs, IsSeq(evs), history' = history \o evs, issued' = issued,
           \A k \in OfKind(evs, "revoked") :
              /\ evs[k].digest \notin RevokedSoFar
              /\ \E j \in 1..Len(issued) : evs[k].digest = StatementDigest(issued[j]) /\ evs[k].at = instant
              /\ \A l \in OfKind(evs, "revoked") : l # k => evs[l].digest # evs[k].digest
    PROVE  RevokedInv'
PROOF
<1> DEFINE N == Len(history)
<1>1. /\ N \in Nat /\ Len(evs) \in Nat /\ DOMAIN history = 1..N /\ DOMAIN evs = 1..Len(evs)
      /\ Len(history') = N + Len(evs) /\ DOMAIN history' = 1..Len(history')
      /\ \A i \in 1..N : i \in 1..Len(history') /\ history'[i] = history[i]
      /\ \A i \in 1..Len(history') : i \in 1..N \/ (i > N /\ i - N \in 1..Len(evs) /\ history'[i] = evs[i - N])
    BY Grown DEF HistoryInv
<1>2. ASSUME NEW i \in OfKind(history', "revoked")
      PROVE  \/ i \in OfKind(history, "revoked") /\ history'[i] = history[i]
             \/ i > N /\ i - N \in OfKind(evs, "revoked") /\ history'[i] = evs[i - N]
    BY <1>1 DEF OfKind
<1>3. \A i \in OfKind(history, "revoked") : i \in 1..N /\ history[i].digest \in RevokedSoFar
    BY <1>1 DEF OfKind, RevokedSoFar
<1> HIDE DEF N
<1>4. ASSUME NEW i \in OfKind(history', "revoked")
      PROVE  \E j \in 1..Len(issued) :
                /\ history'[i].digest = StatementDigest(issued[j])
                /\ issued[j].payload.certification.issued <= history'[i].at
    <2>1. CASE i \in OfKind(history, "revoked") /\ history'[i] = history[i]
        BY <2>1 DEF RevokedInv
    <2>2. CASE i > N /\ i - N \in OfKind(evs, "revoked") /\ history'[i] = evs[i - N]
        <3>1. PICK j \in 1..Len(issued) : evs[i - N].digest = StatementDigest(issued[j]) /\ evs[i - N].at = instant
            BY <2>2
        <3>2. issued[j].payload.certification.issued <= instant
            BY DEF IssuedInv, Certificate
        <3> QED BY <2>2, <3>1, <3>2
    <2> QED BY <1>2, <2>1, <2>2
<1>5. ASSUME NEW i \in OfKind(history', "revoked"), NEW k \in OfKind(history', "revoked"), k # i
      PROVE  history'[k].digest # history'[i].digest
    <2>1. CASE i \in OfKind(history, "revoked") /\ k \in OfKind(history, "revoked")
        <3>1. history'[i] = history[i] /\ history'[k] = history[k]
            BY <2>1, <1>1, <1>3
        <3> QED BY <2>1, <3>1, <1>5 DEF RevokedInv
    <2>2. CASE i \in OfKind(history, "revoked") /\ k \notin OfKind(history, "revoked")
        <3>1. history'[i].digest \in RevokedSoFar
            BY <2>2, <1>1, <1>3
        <3>2. k - N \in OfKind(evs, "revoked") /\ history'[k] = evs[k - N]
            BY <2>2, <1>2
        <3>3. evs[k - N].digest \notin RevokedSoFar
            BY <3>2
        <3> QED BY <3>1, <3>2, <3>3
    <2>3. CASE i \notin OfKind(history, "revoked") /\ k \in OfKind(history, "revoked")
        <3>1. history'[k].digest \in RevokedSoFar
            BY <2>3, <1>1, <1>3
        <3>2. i - N \in OfKind(evs, "revoked") /\ history'[i] = evs[i - N]
            BY <2>3, <1>2
        <3>3. evs[i - N].digest \notin RevokedSoFar
            BY <3>2
        <3> QED BY <3>1, <3>2, <3>3
    <2>4. CASE i \notin OfKind(history, "revoked") /\ k \notin OfKind(history, "revoked")
        <3>1. i \in 1..Len(history') /\ k \in 1..Len(history')
            BY <1>1 DEF OfKind
        <3>2. i - N # k - N
            BY <3>1, <1>1, <1>5
        <3> QED BY <2>4, <3>2, <1>2
    <2> QED BY <2>1, <2>2, <2>3, <2>4
<1> QED BY <1>4, <1>5 DEF RevokedInv

LEMMA RevokedAfter ==
    ASSUME IsSeq(history), NEW evs, IsSeq(evs), history' = history \o evs
    PROVE  RevokedSoFar' = RevokedSoFar \cup {evs[k].digest : k \in OfKind(evs, "revoked")}
PROOF
<1> DEFINE N == Len(history)
<1>1. /\ N \in Nat /\ Len(evs) \in Nat /\ DOMAIN history = 1..N /\ DOMAIN evs = 1..Len(evs)
      /\ Len(history') = N + Len(evs) /\ DOMAIN history' = 1..Len(history')
      /\ \A i \in 1..N : i \in 1..Len(history') /\ history'[i] = history[i]
      /\ \A k \in 1..Len(evs) : N + k \in 1..Len(history') /\ history'[N + k] = evs[k]
      /\ \A i \in 1..Len(history') : i \in 1..N \/ (i > N /\ i - N \in 1..Len(evs) /\ history'[i] = evs[i - N])
    BY Grown
<1> HIDE DEF N
<1>2. ASSUME NEW d \in RevokedSoFar' PROVE d \in RevokedSoFar \cup {evs[k].digest : k \in OfKind(evs, "revoked")}
    <2>1. PICK i \in 1..Len(history') : history'[i].kind = "revoked" /\ d = history'[i].digest
        BY <1>1, <1>2 DEF RevokedSoFar, OfKind
    <2>2. CASE i \in 1..N
        BY <2>1, <2>2, <1>1 DEF RevokedSoFar, OfKind
    <2>3. CASE i \notin 1..N
        <3>1. i - N \in OfKind(evs, "revoked") /\ d = evs[i - N].digest
            BY <2>1, <2>3, <1>1 DEF OfKind
        <3> QED BY <3>1
    <2> QED BY <2>2, <2>3
<1>3. ASSUME NEW i \in OfKind(history, "revoked") PROVE history[i].digest \in RevokedSoFar'
    <2>1. i \in OfKind(history', "revoked") /\ history'[i] = history[i]
        BY <1>1 DEF OfKind
    <2> QED BY <2>1 DEF RevokedSoFar
<1>4. ASSUME NEW k \in OfKind(evs, "revoked") PROVE evs[k].digest \in RevokedSoFar'
    <2>1. N + k \in OfKind(history', "revoked") /\ history'[N + k] = evs[k]
        BY <1>1 DEF OfKind
    <2> QED BY <2>1 DEF RevokedSoFar
<1>5. RevokedSoFar = {history[i].digest : i \in OfKind(history, "revoked")}
    BY DEF RevokedSoFar
<1> QED BY <1>2, <1>3, <1>4, <1>5

LEMMA LiveKept ==
    ASSUME IsSeq(history), NEW evs, IsSeq(evs), history' = history \o evs,
           \A k \in 1..Len(evs) : evs[k].kind \notin {"promoted", "superseded"}, NEW env
    PROVE  LiveIn(history', env) <=> LiveIn(history, env)
PROOF
<1> DEFINE N == Len(history)
<1>1. /\ N \in Nat /\ Len(evs) \in Nat
      /\ Len(history') = N + Len(evs)
      /\ \A i \in 1..N : i \in 1..Len(history') /\ history'[i] = history[i]
      /\ \A i \in 1..Len(history') : i \in 1..N \/ (i > N /\ i - N \in 1..Len(evs) /\ history'[i] = evs[i - N])
    BY Grown
<1> HIDE DEF N
<1>2. ASSUME NEW i \in 1..Len(history'), i \notin 1..N PROVE history'[i].kind \notin {"promoted", "superseded"}
    BY <1>1, <1>2
<1>3. ASSUME LiveIn(history, env) PROVE LiveIn(history', env)
    <2>1. PICK i \in 1..N : /\ history[i].kind = "promoted" /\ history[i].environment = env
                            /\ \A k \in (i + 1)..N : ~MovesTo(history[k], env)
        BY <1>3 DEF LiveIn, N
    <2>2. ASSUME NEW k \in (i + 1)..Len(history') PROVE ~MovesTo(history'[k], env)
        <3>1. CASE k \in 1..N
            <4>1. k \in (i + 1)..N /\ history'[k] = history[k]
                BY <3>1, <1>1
            <4> QED BY <2>1, <4>1
        <3>2. CASE k \notin 1..N
            <4>1. k \in 1..Len(history')
                BY <1>1
            <4> QED BY <1>2, <3>2, <4>1 DEF MovesTo
        <3> QED BY <3>1, <3>2
    <2> QED BY <1>1, <2>1, <2>2 DEF LiveIn
<1>4. ASSUME LiveIn(history', env) PROVE LiveIn(history, env)
    <2>1. PICK i \in 1..Len(history') : /\ history'[i].kind = "promoted" /\ history'[i].environment = env
                                        /\ \A k \in (i + 1)..Len(history') : ~MovesTo(history'[k], env)
        BY <1>4 DEF LiveIn
    <2>2. i \in 1..N
        BY <1>2, <2>1
    <2>3. ASSUME NEW k \in (i + 1)..N PROVE ~MovesTo(history[k], env)
        <3>1. k \in (i + 1)..Len(history') /\ k \in 1..N
            BY <1>1, <2>2
        <3> QED BY <1>1, <2>1, <3>1
    <2> QED BY <1>1, <2>1, <2>2, <2>3 DEF LiveIn, N
<1> QED BY <1>3, <1>4

LEMMA SeqOne ==
    ASSUME NEW e
    PROVE  IsSeq(<<e>>) /\ Len(<<e>>) = 1 /\ <<e>>[1] = e /\ DOMAIN <<e>> = 1..1
PROOF
<1>1. <<e>> \in Seq({e}) /\ Len(<<e>>) = 1 /\ <<e>>[1] = e
    OBVIOUS
<1> QED BY <1>1, SeqBack

LEMMA LiveMoved ==
    ASSUME IsSeq(history), NEW e, history' = history \o <<e>>, e.kind \in {"promoted", "superseded"}
    PROVE  LiveIn(history', e.environment) <=> e.kind = "promoted"
PROOF
<1> DEFINE N == Len(history)
<1>1. IsSeq(<<e>>) /\ Len(<<e>>) = 1 /\ <<e>>[1] = e
    BY SeqOne
<1>2. N \in Nat /\ Len(history') = N + 1 /\ history'[N + 1] = e
    BY <1>1, Grown
<1> HIDE DEF N
<1>3. ASSUME e.kind = "promoted" PROVE LiveIn(history', e.environment)
    <2>1. (N + 1 + 1)..(N + 1) = {}
        BY <1>2
    <2> QED BY <1>2, <1>3, <2>1 DEF LiveIn
<1>4. ASSUME LiveIn(history', e.environment), e.kind # "promoted" PROVE FALSE
    <2>1. PICK i \in 1..(N + 1) : /\ history'[i].kind = "promoted"
                                  /\ \A k \in (i + 1)..(N + 1) : ~MovesTo(history'[k], e.environment)
        BY <1>2, <1>4 DEF LiveIn
    <2>2. i # N + 1
        BY <1>2, <1>4, <2>1
    <2>3. N + 1 \in (i + 1)..(N + 1)
        BY <1>2, <2>2
    <2> QED BY <1>2, <2>1, <2>3 DEF MovesTo
<1> QED BY <1>3, <1>4

LEMMA PromotedGrows ==
    ASSUME IsSeq(history), PromotedInv, NEW evs, IsSeq(evs), history' = history \o evs, issued' = issued,
           \A k \in OfKind(evs, "promoted") :
              /\ k = 1 /\ evs[k].at = instant
              /\ evs[k].environment = CertifiedEnvironment /\ ~evs[k].breakGlass =>
                 \E j \in 1..Len(issued) :
                    /\ issued[j].payload.certification.environment = CertifiedEnvironment
                    /\ InForce(issued[j], {IssuerKey}, RevokedSoFar, instant)
    PROVE  PromotedInv'
PROOF
<1> DEFINE N == Len(history)
<1>1. /\ N \in Nat /\ Len(evs) \in Nat /\ DOMAIN history = 1..N /\ DOMAIN evs = 1..Len(evs)
      /\ Len(history') = N + Len(evs) /\ DOMAIN history' = 1..Len(history')
      /\ \A i \in 1..N : i \in 1..Len(history') /\ history'[i] = history[i]
      /\ \A i \in 1..Len(history') : i \in 1..N \/ (i > N /\ i - N \in 1..Len(evs) /\ history'[i] = evs[i - N])
    BY Grown
<1> HIDE DEF N
<1> SUFFICES ASSUME NEW i \in OfKind(history', "promoted"),
                    history'[i].environment = CertifiedEnvironment, ~history'[i].breakGlass
             PROVE  \E j \in 1..Len(issued) :
                        /\ issued[j].payload.certification.environment = CertifiedEnvironment
                        /\ InForce(issued[j], {IssuerKey}, {history'[k].digest : k \in {r \in OfKind(history', "revoked") : r < i}}, history'[i].at)
    BY DEF PromotedInv, RevokedBefore
<1> DEFINE before == {r \in OfKind(history', "revoked") : r < i}
<1>2. i \in 1..Len(history') /\ history'[i].kind = "promoted"
    BY <1>1 DEF OfKind
<1>3. CASE i \in 1..N
    <2>1. i \in OfKind(history, "promoted") /\ history'[i] = history[i]
        BY <1>1, <1>2, <1>3 DEF OfKind
    <2>2. before = {r \in OfKind(history, "revoked") : r < i}
        BY <1>1, <1>3 DEF OfKind
    <2>3. \A r \in before : history'[r] = history[r]
        BY <1>1, <1>3, <2>2 DEF OfKind
    <2>4. {history'[k].digest : k \in before} = RevokedBefore(i)
        BY <2>2, <2>3 DEF RevokedBefore
    <2>5. PICK j \in 1..Len(issued) :
              /\ issued[j].payload.certification.environment = CertifiedEnvironment
              /\ InForce(issued[j], {IssuerKey}, RevokedBefore(i), history[i].at)
        BY <2>1 DEF PromotedInv
    <2> QED BY <2>1, <2>4, <2>5
<1>4. CASE i \notin 1..N
    <2>1. i - N \in OfKind(evs, "promoted") /\ history'[i] = evs[i - N] /\ i > N
        BY <1>1, <1>2, <1>4 DEF OfKind
    <2>2. i - N = 1 /\ evs[i - N].at = instant
        BY <2>1
    <2>3. i = N + 1
        BY <1>1, <1>2, <2>2
    <2>4. before = OfKind(history, "revoked") /\ \A r \in before : history'[r] = history[r]
        BY <1>1, <2>3 DEF OfKind
    <2>5. {history'[k].digest : k \in before} = RevokedSoFar
        BY <2>4 DEF RevokedSoFar
    <2>6. PICK j \in 1..Len(issued) :
              /\ issued[j].payload.certification.environment = CertifiedEnvironment
              /\ InForce(issued[j], {IssuerKey}, RevokedSoFar, instant)
        BY <2>1
    <2> QED BY <2>1, <2>2, <2>5, <2>6
<1> QED BY <1>3, <1>4

LEMMA BreachGrows ==
    ASSUME IsSeq(history), BreachInv, NEW evs, IsSeq(evs), history' = history \o evs, issued' = issued,
           \A k \in OfKind(evs, "breach") : evs[k].at = instant /\ (evs[k].action = "revoke" =>
              \A j \in 1..Len(issued) :
                 /\ issued[j].payload.certification.environment = evs[k].environment
                 /\ InForce(issued[j], {IssuerKey}, {}, instant)
                 => StatementDigest(issued[j]) \in RevokedSoFar \cup {evs[l].digest : l \in OfKind(evs, "revoked")})
    PROVE  BreachInv'
PROOF
<1> DEFINE N == Len(history)
<1>1. /\ N \in Nat /\ Len(evs) \in Nat /\ DOMAIN history = 1..N /\ DOMAIN evs = 1..Len(evs)
      /\ Len(history') = N + Len(evs) /\ DOMAIN history' = 1..Len(history')
      /\ \A i \in 1..N : i \in 1..Len(history') /\ history'[i] = history[i]
      /\ \A i \in 1..Len(history') : i \in 1..N \/ (i > N /\ i - N \in 1..Len(evs) /\ history'[i] = evs[i - N])
    BY Grown
<1> HIDE DEF N
<1>2. RevokedSoFar' = RevokedSoFar \cup {evs[k].digest : k \in OfKind(evs, "revoked")}
    BY RevokedAfter
<1>3. ASSUME NEW b \in OfKind(history', "breach"), NEW j \in 1..Len(issued),
             history'[b].action = "revoke",
             issued[j].payload.certification.environment = history'[b].environment,
             InForce(issued[j], {IssuerKey}, {}, history'[b].at),
             issued[j].payload.certification.issued # Rfc3339(history'[b].at)
      PROVE  StatementDigest(issued[j]) \in RevokedSoFar'
    <2>1. b \in 1..Len(history') /\ history'[b].kind = "breach"
        BY <1>1 DEF OfKind
    <2>2. CASE b \in 1..N
        <3>1. b \in OfKind(history, "breach") /\ history'[b] = history[b]
            BY <1>1, <2>1, <2>2 DEF OfKind
        <3>2. StatementDigest(issued[j]) \in RevokedSoFar
            BY <1>3, <3>1 DEF BreachInv
        <3> QED BY <1>2, <3>2
    <2>3. CASE b \notin 1..N
        <3>1. b - N \in OfKind(evs, "breach") /\ history'[b] = evs[b - N]
            BY <1>1, <2>1, <2>3 DEF OfKind
        <3> QED BY <1>2, <1>3, <3>1
    <2> QED BY <2>2, <2>3
<1> QED BY <1>3 DEF BreachInv

LEMMA ValidIs ==
    ASSUME IssuedInv, NEW env
    PROVE  \A i : i \in CurrentlyValid(env) <=>
              /\ i \in 1..Len(issued) /\ issued[i].payload.certification.environment = env
              /\ InForce(issued[i], {IssuerKey}, RevokedSoFar, instant)
PROOF
<1> DEFINE ctx == [trusted |-> TrustedIssuers, revoked |-> RevokedSoFar, revokedKeys |-> {},
                   now |-> instant, expected |-> This, required |-> {}]
<1>1. DOMAIN issued = 1..Len(issued) /\ instant \in Nat /\ \A i \in 1..Len(issued) : Certificate(issued[i], i, instant)
    BY DEF IssuedInv, IsSeq
<1>2. TrustedIssuers = {TrustedKey(Keyid(k), k) : k \in {IssuerKey}}
    BY DEF TrustedIssuers
<1>3. ctx = ContextOf({IssuerKey}, RevokedSoFar, instant)
    BY <1>2 DEF ContextOf
<1>4. ASSUME NEW i \in 1..Len(issued)
      PROVE  IsCertified(issued[i], ctx) <=> InForce(issued[i], {IssuerKey}, RevokedSoFar, instant)
    BY <1>1, <1>3, CertifiedIs
<1>5. \A i : i \in CurrentlyValid(env) <=>
          i \in 1..Len(issued) /\ issued[i].payload.certification.environment = env /\ IsCertified(issued[i], ctx)
    BY <1>1 DEF CurrentlyValid
<1> HIDE DEF ctx
<1> QED BY <1>4, <1>5

LEMMA DigestsDiffer ==
    ASSUME IssuedInv, NEW i \in 1..Len(issued), NEW j \in 1..Len(issued),
           StatementDigest(issued[i]) = StatementDigest(issued[j])
    PROVE  i = j
PROOF
<1>1. issued[i].payload = issued[j].payload
    BY DEF StatementDigest
<1>2. issued[i].payload.certification.id = i /\ issued[j].payload.certification.id = j
    BY DEF IssuedInv, Certificate
<1> QED BY <1>1, <1>2

\* The events of a breach: the revocations of what was valid, then the breach.
LEMMA ValidListed ==
    ASSUME IssuedInv, NEW env
    PROVE  LET s == SetToSeq(CurrentlyValid(env))
           IN /\ IsSeq(s) /\ \A k \in 1..Len(s) : s[k] \in CurrentlyValid(env)
              /\ \A k, l \in 1..Len(s) : k # l => s[k] # s[l]
              /\ \A i \in CurrentlyValid(env) : \E k \in 1..Len(s) : s[k] = i
PROOF
<1> DEFINE S == CurrentlyValid(env)
           n == Cardinality(S)
           s == SetToSeq(S)
<1>1. IsFiniteSet(1..Len(issued)) /\ S \in SUBSET (1..Len(issued))
    <2>1. Len(issued) \in Nat
        BY DEF IssuedInv, IsSeq
    <2> QED BY <2>1, FS_Interval, ValidIs
<1>2. IsFiniteSet(S)
    BY <1>1, FS_Subset
<1> HIDE DEF S
<1>3. n \in Nat /\ ExistsBijection(1..n, S)
    BY <1>2, FS_CardinalityType
<1>4. PICK f \in Bijection(1..n, S) : TRUE
    BY <1>3 DEF ExistsBijection
<1>5. f \in [1..n -> S] /\ IsInjective(f)
    BY <1>4 DEF Bijection, Injection
<1>6. s \in [1..n -> S] /\ IsInjective(s)
    BY <1>5 DEF SetToSeq
<1>7. s \in Injection(1..n, S)
    BY <1>6 DEF Injection
<1>8. s \in Surjection(1..n, S)
    <2>1. Cardinality(1..n) = n
        BY <1>3, FS_Interval
    <2> QED BY <1>2, <1>7, <2>1, FS_Injection
<1> HIDE DEF s
<1>9. Len(s) = n /\ IsSeq(s)
    <2>1. s \in Seq(S) /\ Len(s) = n
        BY <1>3, <1>6
    <2> QED BY <2>1, SeqBack
<1>10. \A k, l \in 1..n : k # l => s[k] # s[l]
    BY <1>6 DEF IsInjective
<1>11. \A i \in S : \E k \in 1..n : s[k] = i
    BY <1>8 DEF Surjection
<1> QED BY <1>6, <1>9, <1>10, <1>11 DEF s, S

BreachWrites(evs, m, env, action) ==
    /\ Record(evs) /\ IsSeq(evs) /\ m \in Nat /\ Len(evs) = m + 1
    /\ evs[m + 1] = SentinelBreach(instant, env, action)
    /\ \A k \in 1..m : \E i \in CurrentlyValid(env) : evs[k] = CertificationRevoked(instant, StatementDigest(issued[i]))
    /\ \A k, l \in 1..m : k # l => evs[k].digest # evs[l].digest
    /\ action = "revoke" => \A i \in CurrentlyValid(env) : \E k \in 1..m : evs[k].digest = StatementDigest(issued[i])
LEMMA BreachEvents ==
    ASSUME IssuedInv, NEW env, NEW action, Breach(env, action)
    PROVE  \E evs, m : BreachWrites(evs, m, env, action)
PROOF
<1> DEFINE valid == IF action = "revoke" THEN SetToSeq(CurrentlyValid(env)) ELSE <<>>
           m == Len(valid)
           revs == [k \in DOMAIN valid |-> CertificationRevoked(instant, StatementDigest(issued[valid[k]]))]
           last == SentinelBreach(instant, env, action)
           evs == revs \o <<last>>
<1>1. Record(evs)
    BY DEF Breach
<1>2. /\ IsSeq(valid) /\ \A k \in 1..m : valid[k] \in CurrentlyValid(env)
      /\ \A k, l \in 1..m : k # l => valid[k] # valid[l]
      /\ action = "revoke" => \A i \in CurrentlyValid(env) : \E k \in 1..m : valid[k] = i
    <2>1. CASE action = "revoke"
        BY <2>1, ValidListed
    <2>2. CASE action # "revoke"
        <3>1. valid = <<>> /\ m = 0 /\ IsSeq(valid)
            BY <2>2, SeqEmpty
        <3> QED BY <2>2, <3>1
    <2> QED BY <2>1, <2>2
<1> HIDE DEF valid
<1>3. m \in Nat /\ DOMAIN valid = 1..m
    BY <1>2 DEF IsSeq
<1>4. IsSeq(revs) /\ Len(revs) = m
    <2> DEFINE X == {revs[k] : k \in 1..m}
    <2>1. revs \in [1..m -> X]
        BY <1>3
    <2> HIDE DEF revs, X
    <2>2. revs \in Seq(X) /\ Len(revs) = m
        BY <1>3, <2>1
    <2> QED BY <2>2, SeqBack
<1>5. \A k \in 1..m : revs[k] = CertificationRevoked(instant, StatementDigest(issued[valid[k]]))
    BY <1>3
<1> HIDE DEF revs, m
<1>6. IsSeq(<<last>>) /\ Len(<<last>>) = 1 /\ <<last>>[1] = last
    BY SeqOne
<1> HIDE DEF last
<1>7. /\ IsSeq(evs) /\ Len(evs) = m + 1 /\ evs[m + 1] = last
      /\ \A k \in 1..m : evs[k] = revs[k]
    <2>1. /\ IsSeq(evs) /\ Len(evs) = Len(revs) + Len(<<last>>)
          /\ \A i \in 1..Len(revs) : evs[i] = revs[i]
          /\ \A i \in 1..Len(<<last>>) : evs[Len(revs) + i] = <<last>>[i]
        BY <1>4, <1>6, SeqConcat
    <2>2. 1 \in 1..Len(<<last>>)
        BY <1>6
    <2> QED BY <1>4, <1>6, <2>1, <2>2
<1> HIDE DEF evs
<1>8. \A k \in 1..m : evs[k] = CertificationRevoked(instant, StatementDigest(issued[valid[k]])) /\ valid[k] \in 1..Len(issued)
    BY <1>2, <1>5, <1>7, ValidIs
<1>9. \A k \in 1..m : evs[k].digest = StatementDigest(issued[valid[k]])
    <2>1. \A t, d : CertificationRevoked(t, d).digest = d
        BY DEF CertificationRevoked
    <2> QED BY <1>8, <2>1
<1>10. \A k, l \in 1..m : k # l => evs[k].digest # evs[l].digest
    BY <1>2, <1>8, <1>9, DigestsDiffer
<1>11. \A k \in 1..m : \E i \in CurrentlyValid(env) : evs[k] = CertificationRevoked(instant, StatementDigest(issued[i]))
    BY <1>2, <1>8
<1>12. action = "revoke" => \A i \in CurrentlyValid(env) : \E k \in 1..m : evs[k].digest = StatementDigest(issued[i])
    BY <1>2, <1>9
<1>13. evs[m + 1] = SentinelBreach(instant, env, action)
    BY <1>7 DEF last
<1>14. BreachWrites(evs, m, env, action)
    BY <1>1, <1>3, <1>7, <1>10, <1>11, <1>12, <1>13 DEF BreachWrites
<1> QED BY <1>14

LEMMA RecordKeeps ==
    ASSUME ReleaseInv, NEW evs, IsSeq(evs), Record(evs), PointerInv',
           \A k \in 1..Len(evs) : evs[k].at = instant /\ SoundEvent(evs[k]),
           history = <<>> => Len(evs) = 1 /\ evs[1].kind = "registered",
           history # <<>> => \A k \in 1..Len(evs) : evs[k].kind # "registered",
           \A k \in OfKind(evs, "revoked") :
              /\ evs[k].digest \notin RevokedSoFar
              /\ \E j \in 1..Len(issued) : evs[k].digest = StatementDigest(issued[j]) /\ evs[k].at = instant
              /\ \A l \in OfKind(evs, "revoked") : l # k => evs[l].digest # evs[k].digest,
           \A k \in OfKind(evs, "promoted") :
              /\ k = 1 /\ evs[k].at = instant
              /\ evs[k].environment = CertifiedEnvironment /\ ~evs[k].breakGlass =>
                 \E j \in 1..Len(issued) :
                    /\ issued[j].payload.certification.environment = CertifiedEnvironment
                    /\ InForce(issued[j], {IssuerKey}, RevokedSoFar, instant),
           \A k \in OfKind(evs, "breach") : evs[k].at = instant /\ (evs[k].action = "revoke" =>
              \A j \in 1..Len(issued) :
                 /\ issued[j].payload.certification.environment = evs[k].environment
                 /\ InForce(issued[j], {IssuerKey}, {}, instant)
                 => StatementDigest(issued[j]) \in RevokedSoFar \cup {evs[l].digest : l \in OfKind(evs, "revoked")})
    PROVE  ReleaseInv'
PROOF
<1>1. history' = history \o evs /\ instant' = instant /\ issued' = issued /\ file' = file /\ ~Exported
    BY DEF Record
<1>2. IssuedInv /\ HistoryInv /\ RevokedInv /\ PromotedInv /\ BreachInv /\ IsSeq(history)
    BY DEF ReleaseInv, HistoryInv
<1>3. IssuedInv'
    BY <1>1, <1>2 DEF IssuedInv
<1>4. HistoryInv'
    BY <1>1, <1>2, HistoryGrows
<1>5. RevokedInv'
    BY <1>1, <1>2, RevokedGrows
<1>6. PromotedInv'
    BY <1>1, <1>2, PromotedGrows
<1>7. BreachInv'
    BY <1>1, <1>2, BreachGrows
<1>8. FileInv'
    BY <1>1 DEF FileInv, Exported
<1> QED BY <1>3, <1>4, <1>5, <1>6, <1>7, <1>8 DEF ReleaseInv

LEMMA OneOfKind ==
    ASSUME NEW e, NEW kind
    PROVE  \A k \in OfKind(<<e>>, kind) : k = 1 /\ <<e>>[k] = e /\ e.kind = kind
PROOF
<1>1. DOMAIN <<e>> = 1..1 /\ <<e>>[1] = e
    BY SeqOne
<1> QED BY <1>1 DEF OfKind

LEMMA RegisterKeeps ==
    ASSUME ReleaseInv, Register
    PROVE  ReleaseInv'
PROOF
<1> DEFINE e == ReleaseRegistered(instant, "agent")
<1>1. history = <<>> /\ Record(<<e>>) /\ pointer' = pointer
    BY DEF Register
<1>2. e.kind = "registered" /\ e.at = instant /\ e.agent = "agent"
    BY DEF ReleaseRegistered
<1>3. SoundEvent(e)
    BY <1>2 DEF SoundEvent, EventIsSound, EventKinds
<1> HIDE DEF e
<1>4. IsSeq(<<e>>) /\ Len(<<e>>) = 1 /\ <<e>>[1] = e
    BY SeqOne
<1>5. PointerInv'
    <2>1. IsSeq(history) /\ history' = history \o <<e>>
        BY <1>1 DEF ReleaseInv, HistoryInv, Record
    <2>2. \A k \in 1..Len(<<e>>) : <<e>>[k].kind \notin {"promoted", "superseded"}
        BY <1>2, <1>4
    <2>3. ASSUME NEW env PROVE LiveIn(history', env) <=> LiveIn(history, env)
        BY <2>1, <2>2, <1>4, LiveKept
    <2> QED BY <1>1, <2>3 DEF ReleaseInv, PointerInv
<1>6. OfKind(<<e>>, "revoked") = {} /\ OfKind(<<e>>, "promoted") = {} /\ OfKind(<<e>>, "breach") = {}
    BY <1>2, OneOfKind
<1> QED BY <1>1, <1>2, <1>3, <1>4, <1>5, <1>6, RecordKeeps

LEMMA PointerDomain ==
    ASSUME PointerInv, NEW env \in Environments
    PROVE  DOMAIN pointer = {env} /\ env \in Deployable /\ env \in KnownEnvironments /\ pointer[env] \in {"none", This, "other"}
PROOF
<1>1. PICK d \in Deployable : pointer \in [{d} -> {"none", This, "other"}]
    BY DEF PointerInv
<1>2. DOMAIN pointer = {d} /\ env = d
    BY <1>1 DEF Environments
<1> QED BY <1>1, <1>2, ReleaseAssumption

LEMMA PromoteKeeps ==
    ASSUME ReleaseInv, NEW env \in Environments, NEW glass \in BOOLEAN, Promote(env, glass)
    PROVE  ReleaseInv'
PROOF
<1> DEFINE e == ReleasePromoted(instant, env, pointer[env], glass)
<1>1. /\ history # <<>> /\ pointer[env] # This /\ Record(<<e>>) /\ pointer' = [pointer EXCEPT ![env] = This]
      /\ env = CertifiedEnvironment => glass \/ CurrentlyValid(env) # {}
    BY DEF Promote
<1>2. e.kind = "promoted" /\ e.at = instant /\ e.environment = env /\ e.from = pointer[env]
    BY DEF ReleasePromoted
<1>3. e.breakGlass = glass /\ e.reason = glass
    BY DEF ReleasePromoted
<1>4. DOMAIN pointer = {env} /\ env \in Deployable /\ env \in KnownEnvironments
    BY PointerDomain DEF ReleaseInv
<1>5. SoundEvent(e)
    <2>1. e.breakGlass => e.reason
        BY <1>3
    <2>2. e.from # This
        BY <1>1, <1>2
    <2> HIDE DEF e
    <2> QED BY <1>2, <1>4, <2>1, <2>2 DEF SoundEvent, EventIsSound, EventKinds
<1> HIDE DEF e
<1>6. IsSeq(<<e>>) /\ Len(<<e>>) = 1 /\ <<e>>[1] = e
    BY SeqOne
<1>7. PointerInv'
    <2>1. IsSeq(history) /\ history' = history \o <<e>>
        BY <1>1 DEF ReleaseInv, HistoryInv, Record
    <2>2. LiveIn(history', env)
        BY <2>1, <1>2, LiveMoved
    <2>3. pointer' = [x \in {env} |-> This]
        BY <1>1, <1>4
    <2> QED BY <1>4, <2>2, <2>3 DEF PointerInv
<1>8. OfKind(<<e>>, "revoked") = {} /\ OfKind(<<e>>, "breach") = {}
    BY <1>2, OneOfKind
<1>9. ASSUME env = CertifiedEnvironment, ~e.breakGlass
      PROVE  \E j \in 1..Len(issued) :
                /\ issued[j].payload.certification.environment = CertifiedEnvironment
                /\ InForce(issued[j], {IssuerKey}, RevokedSoFar, instant)
    <2>1. CurrentlyValid(env) # {}
        BY <1>1, <1>3, <1>9
    <2> QED BY <1>9, <2>1, ValidIs DEF ReleaseInv
<1>10. \A k \in OfKind(<<e>>, "promoted") : k = 1 /\ <<e>>[k] = e
    BY OneOfKind
<1>11. \A k \in OfKind(<<e>>, "promoted") :
          /\ k = 1 /\ <<e>>[k].at = instant
          /\ <<e>>[k].environment = CertifiedEnvironment /\ ~<<e>>[k].breakGlass =>
             \E j \in 1..Len(issued) :
                /\ issued[j].payload.certification.environment = CertifiedEnvironment
                /\ InForce(issued[j], {IssuerKey}, RevokedSoFar, instant)
    <2> TAKE k \in OfKind(<<e>>, "promoted")
    <2>1. k = 1 /\ <<e>>[k] = e
        BY <1>10
    <2> QED BY <2>1, <1>2, <1>9
<1>12. \A k \in 1..Len(<<e>>) : <<e>>[k].at = instant /\ SoundEvent(<<e>>[k]) /\ <<e>>[k].kind # "registered"
    BY <1>2, <1>5, <1>6
<1> QED BY <1>1, <1>6, <1>7, <1>8, <1>11, <1>12, RecordKeeps

LEMMA SupersedeKeeps ==
    ASSUME ReleaseInv, NEW env \in Environments, Supersede(env)
    PROVE  ReleaseInv'
PROOF
<1> DEFINE e == ReleaseSuperseded(instant, env, "other")
<1>1. /\ pointer[env] = This /\ Record(<<e>>) /\ pointer' = [pointer EXCEPT ![env] = "other"]
    BY DEF Supersede
<1>2. e.kind = "superseded" /\ e.at = instant /\ e.environment = env /\ e.to = "other"
    BY DEF ReleaseSuperseded
<1>3. DOMAIN pointer = {env} /\ env \in Deployable /\ env \in KnownEnvironments
    BY PointerDomain DEF ReleaseInv
<1>4. SoundEvent(e)
    <2> HIDE DEF e
    <2> QED BY <1>2, <1>3 DEF SoundEvent, EventIsSound, EventKinds, This
<1> HIDE DEF e
<1>5. IsSeq(<<e>>) /\ Len(<<e>>) = 1 /\ <<e>>[1] = e
    BY SeqOne
<1>6. IsSeq(history) /\ history' = history \o <<e>>
    BY <1>1 DEF ReleaseInv, HistoryInv, Record
<1>7. PointerInv'
    <2>1. ~LiveIn(history', env)
        BY <1>6, <1>2, LiveMoved
    <2>2. pointer' = [x \in {env} |-> "other"]
        BY <1>1, <1>3
    <2> QED BY <1>3, <2>1, <2>2 DEF PointerInv, This
<1>8. history # <<>>
    <2>1. LiveIn(history, env)
        BY <1>1, <1>3 DEF ReleaseInv, PointerInv
    <2>2. PICK i \in 1..Len(history) : TRUE
        BY <2>1 DEF LiveIn
    <2> QED BY <2>2, SeqEmpty
<1>9. OfKind(<<e>>, "revoked") = {} /\ OfKind(<<e>>, "promoted") = {} /\ OfKind(<<e>>, "breach") = {}
    BY <1>2, OneOfKind
<1> QED BY <1>1, <1>2, <1>4, <1>5, <1>7, <1>8, <1>9, RecordKeeps

LEMMA RevokeKeeps ==
    ASSUME ReleaseInv, NEW i \in DOMAIN issued, Revoke(i)
    PROVE  ReleaseInv'
PROOF
<1> DEFINE e == CertificationRevoked(instant, StatementDigest(issued[i]))
<1>1. history # <<>> /\ StatementDigest(issued[i]) \notin RevokedSoFar /\ Record(<<e>>) /\ pointer' = pointer
    BY DEF Revoke
<1>2. e.kind = "revoked" /\ e.at = instant /\ e.digest = StatementDigest(issued[i])
    BY DEF CertificationRevoked
<1>3. SoundEvent(e)
    <2> HIDE DEF e
    <2> QED BY <1>2 DEF SoundEvent, EventIsSound, EventKinds
<1> HIDE DEF e
<1>4. IsSeq(<<e>>) /\ Len(<<e>>) = 1 /\ <<e>>[1] = e
    BY SeqOne
<1>5. PointerInv'
    <2>1. IsSeq(history) /\ history' = history \o <<e>>
        BY <1>1 DEF ReleaseInv, HistoryInv, Record
    <2>2. \A k \in 1..Len(<<e>>) : <<e>>[k].kind \notin {"promoted", "superseded"}
        BY <1>2, <1>4
    <2>3. ASSUME NEW env PROVE LiveIn(history', env) <=> LiveIn(history, env)
        BY <2>1, <2>2, <1>4, LiveKept
    <2> QED BY <1>1, <2>3 DEF ReleaseInv, PointerInv
<1>6. OfKind(<<e>>, "promoted") = {} /\ OfKind(<<e>>, "breach") = {}
    BY <1>2, OneOfKind
<1>7. \A k \in OfKind(<<e>>, "revoked") : k = 1 /\ <<e>>[k] = e
    BY OneOfKind
<1>8. i \in 1..Len(issued)
    BY DEF ReleaseInv, IssuedInv, IsSeq
<1> QED BY <1>1, <1>2, <1>3, <1>4, <1>5, <1>6, <1>7, <1>8, RecordKeeps

LEMMA BreachKeeps ==
    ASSUME ReleaseInv, NEW env \in Environments, NEW action \in {"alert", "revoke"}, Breach(env, action)
    PROVE  ReleaseInv'
PROOF
<1>1. IssuedInv /\ HistoryInv /\ PointerInv /\ IsSeq(history)
    BY DEF ReleaseInv, HistoryInv
<1>2. PICK evs, m : BreachWrites(evs, m, env, action)
    BY <1>1, BreachEvents
<1>3. /\ Record(evs) /\ IsSeq(evs) /\ m \in Nat /\ Len(evs) = m + 1
      /\ evs[m + 1] = SentinelBreach(instant, env, action)
      /\ \A k \in 1..m : \E i \in CurrentlyValid(env) : evs[k] = CertificationRevoked(instant, StatementDigest(issued[i]))
      /\ \A k, l \in 1..m : k # l => evs[k].digest # evs[l].digest
      /\ action = "revoke" => \A i \in CurrentlyValid(env) : \E k \in 1..m : evs[k].digest = StatementDigest(issued[i])
    BY <1>2 DEF BreachWrites
<1>4. pointer[env] = This /\ pointer' = pointer /\ history' = history \o evs
    BY <1>3 DEF Breach, Record
<1>5. env \in KnownEnvironments /\ DOMAIN pointer = {env}
    BY <1>1, PointerDomain
<1>6. /\ evs[m + 1].kind = "breach" /\ evs[m + 1].at = instant /\ evs[m + 1].environment = env
      /\ evs[m + 1].action = action /\ SoundEvent(evs[m + 1])
    BY <1>3, <1>5 DEF SentinelBreach, SoundEvent, EventIsSound, EventKinds
<1>7. ASSUME NEW k \in 1..m
      PROVE  /\ evs[k].kind = "revoked" /\ evs[k].at = instant /\ SoundEvent(evs[k])
             /\ evs[k].digest \notin RevokedSoFar
             /\ \E j \in 1..Len(issued) : evs[k].digest = StatementDigest(issued[j])
    <2>1. PICK i \in CurrentlyValid(env) : evs[k] = CertificationRevoked(instant, StatementDigest(issued[i]))
        BY <1>3
    <2>2. i \in 1..Len(issued) /\ StatementDigest(issued[i]) \notin RevokedSoFar
        BY <1>1, <2>1, ValidIs DEF InForce
    <2>3. evs[k].kind = "revoked" /\ evs[k].at = instant /\ evs[k].digest = StatementDigest(issued[i])
        BY <2>1 DEF CertificationRevoked
    <2>4. SoundEvent(evs[k])
        BY <2>3 DEF SoundEvent, EventIsSound, EventKinds
    <2> QED BY <2>2, <2>3, <2>4
<1>8. \A k \in 1..Len(evs) : k \in 1..m \/ k = m + 1
    BY <1>3
<1>9. DOMAIN evs = 1..Len(evs)
    BY <1>3 DEF IsSeq
<1>10. OfKind(evs, "revoked") = 1..m /\ OfKind(evs, "breach") = {m + 1} /\ OfKind(evs, "promoted") = {}
    BY <1>3, <1>6, <1>7, <1>8, <1>9 DEF OfKind
<1>11. PointerInv'
    <2>1. \A k \in 1..Len(evs) : evs[k].kind \notin {"promoted", "superseded"}
        BY <1>6, <1>7, <1>8
    <2>2. ASSUME NEW x PROVE LiveIn(history', x) <=> LiveIn(history, x)
        BY <1>1, <1>3, <1>4, <2>1, LiveKept
    <2> QED BY <1>1, <1>4, <2>2 DEF PointerInv
<1>12. history # <<>>
    <2>1. LiveIn(history, env)
        BY <1>1, <1>4, <1>5 DEF PointerInv
    <2>2. PICK i \in 1..Len(history) : TRUE
        BY <2>1 DEF LiveIn
    <2> QED BY <2>2, SeqEmpty
<1>13. \A k \in 1..Len(evs) : evs[k].at = instant /\ SoundEvent(evs[k]) /\ evs[k].kind # "registered"
    BY <1>6, <1>7, <1>8
<1>14. \A k \in OfKind(evs, "revoked") :
              /\ evs[k].digest \notin RevokedSoFar
              /\ \E j \in 1..Len(issued) : evs[k].digest = StatementDigest(issued[j]) /\ evs[k].at = instant
              /\ \A l \in OfKind(evs, "revoked") : l # k => evs[l].digest # evs[k].digest
    BY <1>3, <1>7, <1>10
<1>15. ASSUME action = "revoke", NEW j \in 1..Len(issued), issued[j].payload.certification.environment = env,
              InForce(issued[j], {IssuerKey}, {}, instant)
       PROVE  StatementDigest(issued[j]) \in RevokedSoFar \cup {evs[l].digest : l \in OfKind(evs, "revoked")}
    <2>1. CASE StatementDigest(issued[j]) \notin RevokedSoFar
        <3>1. InForce(issued[j], {IssuerKey}, RevokedSoFar, instant)
            BY <1>15, <2>1 DEF InForce
        <3>2. j \in CurrentlyValid(env)
            BY <1>1, <1>15, <3>1, ValidIs
        <3>3. PICK k \in 1..m : evs[k].digest = StatementDigest(issued[j])
            BY <1>3, <1>15, <3>2
        <3> QED BY <1>10, <3>3
    <2> QED BY <2>1
<1>16. \A k \in OfKind(evs, "breach") : evs[k].at = instant /\ (evs[k].action = "revoke" =>
              \A j \in 1..Len(issued) :
                 /\ issued[j].payload.certification.environment = evs[k].environment
                 /\ InForce(issued[j], {IssuerKey}, {}, instant)
                 => StatementDigest(issued[j]) \in RevokedSoFar \cup {evs[l].digest : l \in OfKind(evs, "revoked")})
    <2> TAKE k \in OfKind(evs, "breach")
    <2>1. k = m + 1
        BY <1>10
    <2> QED BY <1>6, <1>15, <2>1
<1> QED BY <1>3, <1>10, <1>11, <1>12, <1>13, <1>14, <1>16, RecordKeeps

LEMMA CertifyKeeps ==
    ASSUME ReleaseInv, NEW c \in Certifiable, Certify(c[1], c[2], c[3])
    PROVE  ReleaseInv'
PROOF
<1> DEFINE n == Len(issued)
<1>1. IssuedInv /\ HistoryInv /\ RevokedInv /\ PointerInv /\ PromotedInv /\ BreachInv
    BY DEF ReleaseInv
<1>2. /\ IssuedInv' /\ Len(issued') = n + 1 /\ \A i \in 1..n : issued'[i] = issued[i]
      /\ issued'[n + 1].payload.certification.issued = Rfc3339(instant)
      /\ UNCHANGED <<instant, history, pointer, file>> /\ ~Exported
    BY <1>1, CertifiableIs, CertifyMakes
<1>3. n \in Nat /\ \A j \in 1..n : j \in 1..Len(issued') /\ issued'[j] = issued[j]
    BY <1>1, <1>2 DEF IssuedInv, IsSeq
<1>4. DOMAIN history = 1..Len(history) /\ instant \in Nat
    BY <1>1 DEF HistoryInv, IsSeq, IssuedInv
<1> HIDE DEF n
<1>5. HistoryInv' /\ PointerInv'
    BY <1>1, <1>2 DEF HistoryInv, PointerInv
<1>6. RevokedInv'
    <2>1. ASSUME NEW i \in OfKind(history, "revoked")
          PROVE  \E j \in 1..Len(issued') : history[i].digest = StatementDigest(issued'[j])
                                              /\ issued'[j].payload.certification.issued <= history[i].at
        <3>1. PICK j \in 1..n : history[i].digest = StatementDigest(issued[j])
                                  /\ issued[j].payload.certification.issued <= history[i].at
            BY <1>1 DEF RevokedInv, n
        <3> QED BY <1>3, <3>1
    <2>2. \A i, k \in OfKind(history, "revoked") : k # i => history[k].digest # history[i].digest
        BY <1>1 DEF RevokedInv
    <2> QED BY <1>2, <2>1, <2>2 DEF RevokedInv, StatementDigest
<1>7. PromotedInv'
    <2>1. ASSUME NEW i \in OfKind(history, "promoted"), history[i].environment = CertifiedEnvironment, ~history[i].breakGlass
          PROVE  \E j \in 1..Len(issued') :
                    /\ issued'[j].payload.certification.environment = CertifiedEnvironment
                    /\ InForce(issued'[j], {IssuerKey}, RevokedBefore(i), history[i].at)
        <3>1. PICK j \in 1..n : /\ issued[j].payload.certification.environment = CertifiedEnvironment
                                /\ InForce(issued[j], {IssuerKey}, RevokedBefore(i), history[i].at)
            BY <1>1, <2>1 DEF PromotedInv, n
        <3> QED BY <1>3, <3>1
    <2>2. \A i : RevokedBefore(i)' = RevokedBefore(i)
        BY <1>2 DEF RevokedBefore
    <2> QED BY <1>2, <2>1, <2>2 DEF PromotedInv, InForce, SignedWith, StatementDigest
<1>8. BreachInv'
    <2>1. ASSUME NEW b \in OfKind(history, "breach"), NEW j \in 1..Len(issued'),
                 history[b].action = "revoke", issued'[j].payload.certification.environment = history[b].environment,
                 InForce(issued'[j], {IssuerKey}, {}, history[b].at),
                 issued'[j].payload.certification.issued # Rfc3339(history[b].at)
          PROVE  StatementDigest(issued'[j]) \in RevokedSoFar
        <3>1. CASE j \in 1..n
            BY <1>1, <1>3, <2>1, <3>1 DEF BreachInv, n
        <3>2. CASE j = n + 1
            <4> DEFINE t == history[b].at
                       u == Rfc3339(instant)
            <4>1. t \in Nat /\ t <= instant
                BY <1>1, <1>4 DEF HistoryInv, OfKind
            <4>2. u <= t
                BY <1>2, <2>1, <3>2 DEF InForce
            <4>3. u \in Nat /\ Rfc3339(u) = u /\ Rfc3339(t) \in Nat /\ Rfc3339(t) <= t /\ Rfc3339(Rfc3339(t)) = Rfc3339(t)
                BY <1>4, <4>1, SecondsDown
            <4>4. Rfc3339(t) <= instant
                BY <1>4, <4>1, <4>3
            <4>5. u <= Rfc3339(t) /\ Rfc3339(t) <= u
                BY <1>4, <4>1, <4>2, <4>3, <4>4, WholeSeconds
            <4>6. u = Rfc3339(t)
                BY <4>3, <4>5
            <4> QED BY <1>2, <2>1, <3>2, <4>6
        <3> QED BY <1>2, <1>3, <3>1, <3>2
    <2>2. RevokedSoFar' = RevokedSoFar
        BY <1>2 DEF RevokedSoFar
    <2> QED BY <1>2, <2>1, <2>2 DEF BreachInv, InForce, SignedWith, StatementDigest
<1>9. FileInv'
    BY <1>2 DEF FileInv, Exported
<1> QED BY <1>2, <1>5, <1>6, <1>7, <1>8, <1>9 DEF ReleaseInv

LEMMA ToldSame ==
    ASSUME history' = history, issued' = issued, NEW w, w = file'.way, NEW c
    PROVE  InputTold(file.way, c)' = InputTold(w, c) /\ PackTold(file.way, c)' = PackTold(w, c)
PROOF
<1>1. RunsTold(file.way)' = RunsTold(w)
    BY DEF RunsTold, Evaluations
<1>2. CertsTold(file.way)' = CertsTold(w)
    BY DEF CertsTold
<1>3. EventsTold(file.way)' = EventsTold(w)
    BY DEF EventsTold
<1>4. ExportsTold(file.way)' = ExportsTold(w)
    BY DEF ExportsTold
<1>5. InputTold(file.way, c)' = InputTold(w, c)
    BY <1>1, <1>2, <1>3, <1>4 DEF InputTold
<1>6. SpecTold(file.way, c)' = SpecTold(w, c)
    BY <1>1, <1>2, <1>3, <1>4 DEF SpecTold
<1>7. PackTold(file.way, c)' = PackTold(w, c)
    BY <1>6 DEF PackTold
<1> QED BY <1>5, <1>7

LEMMA WaysStay ==
    ASSUME history' = history, issued' = issued, instant \in Nat, instant' \in Nat, instant <= instant', NEW w \in Ways
    PROVE  w \in Ways'
PROOF
<1>1. 0..instant \subseteq 0..instant'
    OBVIOUS
<1>2. LedgerWays' = LedgerWays
    BY DEF LedgerWays
<1> QED BY <1>1, <1>2 DEF Ways

LEMMA ExportKeeps ==
    ASSUME ReleaseInv, NEW way \in Ways, Export(way)
    PROVE  ReleaseInv'
PROOF
<1>0. PICK c : c = Rfc3339(instant)
    OBVIOUS
<1>1. /\ instant' = instant /\ history' = history /\ issued' = issued /\ pointer' = pointer
      /\ BuildProblem(InputOf(way)) = "ok" /\ file' = [way |-> way, pack |-> Build(InputOf(way), ExporterKey)]
    BY DEF Export
<1>2. IssuedInv' /\ HistoryInv' /\ RevokedInv' /\ PointerInv'
    BY <1>1 DEF ReleaseInv, IssuedInv, HistoryInv, RevokedInv, PointerInv
<1>3. PromotedInv' /\ BreachInv'
    BY <1>1 DEF ReleaseInv, PromotedInv, BreachInv, RevokedBefore, RevokedSoFar
<1>4. instant \in Nat /\ c \in Nat /\ c <= instant /\ Rfc3339(c) = c
    BY <1>0, SecondsDown DEF ReleaseInv, IssuedInv
<1>5. BuildProblem(InputTold(way, c)) = "ok" /\ file' = [way |-> way, pack |-> PackTold(way, c)]
    BY <1>0, <1>1, InputIs
<1>6. way = file'.way /\ file'.pack = PackTold(way, c)
    BY <1>5
<1>7. InputTold(file.way, c)' = InputTold(way, c) /\ PackTold(file.way, c)' = PackTold(way, c)
    BY <1>1, <1>6, ToldSame
<1>8. file'.way \in Ways'
    BY <1>1, <1>4, <1>6, WaysStay
<1>9. c \in 0..instant'
    BY <1>1, <1>4
<1>10. FileInv'
    BY <1>4, <1>5, <1>6, <1>7, <1>8, <1>9 DEF FileInv
<1> QED BY <1>2, <1>3, <1>10 DEF ReleaseInv

\* A later instant changes nothing of what was written.
LEMMA TickKeeps ==
    ASSUME ReleaseInv, history' = history, issued' = issued, pointer' = pointer, file' = file,
           instant' \in Nat, instant <= instant'
    PROVE  ReleaseInv'
PROOF
<1>1. instant \in Nat
    BY DEF ReleaseInv, IssuedInv
<1>2. IssuedInv'
    BY <1>1, CertificateLater DEF ReleaseInv, IssuedInv
<1>3. HistoryInv'
    <2>1. \A i \in 1..Len(history) : history[i].at \in Nat /\ history[i].at <= instant /\ SoundEvent(history[i])
        BY DEF ReleaseInv, HistoryInv
    <2>2. \A i \in 1..Len(history) : history[i].at <= instant'
        BY <1>1, <2>1
    <2> QED BY <2>1, <2>2 DEF ReleaseInv, HistoryInv
<1>4. RevokedInv' /\ PointerInv'
    BY DEF ReleaseInv, RevokedInv, PointerInv
<1>5. PromotedInv' /\ BreachInv'
    BY DEF ReleaseInv, PromotedInv, BreachInv, RevokedBefore, RevokedSoFar
<1>6. FileInv'
    <2> SUFFICES ASSUME Exported' PROVE FileInv'
        BY DEF FileInv
    <2>1. Exported
        BY DEF Exported
    <2>2. PICK c \in 0..instant : /\ Rfc3339(c) = c
                                  /\ file.way \in Ways /\ BuildProblem(InputTold(file.way, c)) = "ok"
                                  /\ file.pack = PackTold(file.way, c)
        BY <2>1 DEF ReleaseInv, FileInv
    <2>3. PICK w : w = file.way
        OBVIOUS
    <2>4. InputTold(file.way, c)' = InputTold(w, c) /\ PackTold(file.way, c)' = PackTold(w, c)
        BY <2>3, ToldSame
    <2>5. file'.way \in Ways'
        BY <1>1, <2>2, WaysStay
    <2>6. c \in 0..instant'
        BY <1>1, <2>2
    <2> QED BY <2>2, <2>3, <2>4, <2>5, <2>6 DEF FileInv
<1> QED BY <1>2, <1>3, <1>4, <1>5, <1>6 DEF ReleaseInv

LEMMA ReleaseInitInv == ReleaseInit => ReleaseInv
PROOF
<1> SUFFICES ASSUME ReleaseInit PROVE ReleaseInv
    OBVIOUS
<1>1. instant = 0 /\ history = <<>> /\ issued = <<>> /\ file = NoFile
    BY DEF ReleaseInit
<1>2. IsSeq(<<>>) /\ Len(<<>>) = 0 /\ 1..0 = {} /\ DOMAIN <<>> = {}
    BY SeqEmpty
<1>3. Len(history) = 0 /\ Len(issued) = 0 /\ \A kind : OfKind(history, kind) = {}
    BY <1>1, <1>2 DEF OfKind
<1>4. IssuedInv /\ HistoryInv
    BY <1>1, <1>2, <1>3 DEF IssuedInv, HistoryInv
<1>5. RevokedInv /\ PromotedInv /\ BreachInv
    BY <1>3 DEF RevokedInv, PromotedInv, BreachInv
<1>6. PointerInv
    <2>1. PICK env \in Deployable : pointer = [e \in {env} |-> "none"]
        BY DEF ReleaseInit
    <2>2. \A x : ~LiveIn(history, x)
        BY <1>2, <1>3 DEF LiveIn
    <2> QED BY <2>1, <2>2 DEF PointerInv, This
<1>7. FileInv
    BY <1>1 DEF FileInv, Exported
<1> QED BY <1>4, <1>5, <1>6, <1>7 DEF ReleaseInv

LEMMA ReleaseStep == ReleaseInv /\ [ReleaseNext]_releaseVars => ReleaseInv'
PROOF
<1> SUFFICES ASSUME ReleaseInv, [ReleaseNext]_releaseVars PROVE ReleaseInv'
    OBVIOUS
<1>1. ASSUME NEW c \in Certifiable, Certify(c[1], c[2], c[3]) PROVE ReleaseInv'
    BY <1>1, CertifyKeeps
<1>2. CASE Register
    BY <1>2, RegisterKeeps
<1>3. ASSUME NEW env \in Environments, NEW glass \in BOOLEAN, Promote(env, glass) PROVE ReleaseInv'
    BY <1>3, PromoteKeeps
<1>4. ASSUME NEW env \in Environments, Supersede(env) PROVE ReleaseInv'
    BY <1>4, SupersedeKeeps
<1>5. ASSUME NEW i \in DOMAIN issued, Revoke(i) PROVE ReleaseInv'
    BY <1>5, RevokeKeeps
<1>6. ASSUME NEW env \in Environments, NEW action \in {"alert", "revoke"}, Breach(env, action) PROVE ReleaseInv'
    BY <1>6, BreachKeeps
<1>7. ASSUME NEW way \in Ways, Export(way) PROVE ReleaseInv'
    BY <1>7, ExportKeeps
<1>8. CASE Tick
    <2>1. instant \in Nat
        BY DEF ReleaseInv, IssuedInv
    <2>2. instant' = instant + 1 /\ UNCHANGED <<history, issued, pointer, file>>
        BY <1>8 DEF Tick
    <2>3. instant' \in Nat /\ instant <= instant'
        BY <2>1, <2>2
    <2> QED BY <2>2, <2>3, TickKeeps
<1>9. CASE UNCHANGED releaseVars
    <2>1. instant \in Nat
        BY DEF ReleaseInv, IssuedInv
    <2>2. instant' = instant /\ UNCHANGED <<history, issued, pointer, file>>
        BY <1>9 DEF releaseVars
    <2>3. instant' \in Nat /\ instant <= instant'
        BY <2>1, <2>2
    <2> QED BY <2>2, <2>3, TickKeeps
<1> QED BY <1>1, <1>2, <1>3, <1>4, <1>5, <1>6, <1>7, <1>8, <1>9 DEF ReleaseNext

\* The inductive invariant holds throughout: certifications are what `release
\* certify` signs, the history is one of a control plane that keeps its rules,
\* and the pack tells what its way of exporting leaves of them (cert.rs
\* certify_inner, build.rs).
THEOREM ReleaseInvariant == ReleaseSpec => []ReleaseInv
PROOF
BY ReleaseInitInv, ReleaseStep, PTL DEF ReleaseSpec

(***************************************************************************)
(* What a pack that passes says.                                           *)
(***************************************************************************)
LEMMA EventsToldAre ==
    ASSUME ReleaseInv, NEW way \in Ways
    PROVE  LET es == EventsTold(way)
           IN /\ IsSeq(es) /\ Timed(es, Len(es))
              /\ \A i \in 1..Len(es) :
                    \/ \E j \in 1..Len(history) : es[i] = history[j]
                    \/ way[1] = "a promotion more" /\ es[i] = ReleasePromoted(way[2], CertifiedEnvironment, "none", FALSE)
              /\ \A j \in 1..Len(history) : (way[1] = "no event" /\ way[2] = j) \/ \E i \in 1..Len(es) : es[i] = history[j]
              /\ way[1] = "no event" => \A i \in 1..Len(es) : \E j \in 1..Len(history) : j # way[2] /\ es[i] = history[j]
PROOF
<1> DEFINE es == EventsTold(way)
           n == Len(history)
           extra == ReleasePromoted(way[2], CertifiedEnvironment, "none", FALSE)
<1>1. IsSeq(history) /\ n \in Nat /\ DOMAIN history = 1..n /\ \A j \in 1..n : history[j].at \in Nat
    BY DEF ReleaseInv, HistoryInv, IsSeq
<1>2. way[1] = "no event" => way[2] \in 1..n
    BY <1>1, WaysAre
<1>3. way[1] = "a promotion more" => way[2] \in Nat
    <2>1. instant \in Nat
        BY DEF ReleaseInv, IssuedInv
    <2>2. ASSUME way[1] = "a promotion more" PROVE way[2] \in Nat
        <3>1. way[2] \in 0..instant
            BY <2>2, WaysAre
        <3>2. PICK t \in 0..instant : way[2] = t
            BY <3>1
        <3> QED BY <2>1, <3>2
    <2> QED BY <2>2
<1>4. extra.at = way[2]
    BY DEF ReleasePromoted
<1> HIDE DEF n, extra
<1>5. CASE way[1] = "newest first"
    <2>1. es = Reverse(history)
        BY <1>5 DEF EventsTold
    <2> HIDE DEF es
    <2>2. IsSeq(es) /\ DOMAIN es = 1..n /\ Len(es) = n /\ \A j \in 1..n : es[j] = history[n - j + 1]
        BY <1>1, <2>1, SeqReverse DEF n
    <2>3. \A j \in 1..n : n - j + 1 \in 1..n /\ n - (n - j + 1) + 1 = j
        BY <1>1
    <2>4. \A j \in 1..n : es[n - j + 1] = history[j]
        BY <2>2, <2>3
    <2>5. Timed(es, n)
        BY <1>1, <2>2, <2>3 DEF Timed
    <2>6. \A i \in 1..n : \E j \in 1..n : es[i] = history[j]
        BY <2>2, <2>3
    <2>7. \A j \in 1..n : \E i \in 1..n : es[i] = history[j]
        BY <2>3, <2>4
    <2> QED BY <1>5, <2>2, <2>5, <2>6, <2>7 DEF es, n
<1>6. CASE way[1] = "no event"
    <2>1. es = RemoveAt(history, way[2])
        BY <1>6 DEF EventsTold
    <2> HIDE DEF es
    <2>2. way[2] \in 1..n
        BY <1>2, <1>6
    <2>3. IsSeq(es) /\ DOMAIN es = 1..(n - 1) /\ Len(es) = n - 1
          /\ \A j \in 1..(n - 1) : es[j] = history[IF j < way[2] THEN j ELSE j + 1]
        BY <1>1, <2>1, <2>2, SeqRemove DEF n
    <2>4. \A j \in 1..(n - 1) : (IF j < way[2] THEN j ELSE j + 1) \in 1..n /\ (IF j < way[2] THEN j ELSE j + 1) # way[2]
        BY <1>1, <2>2
    <2>5. ASSUME NEW j \in 1..n, j # way[2] PROVE \E i \in 1..(n - 1) : es[i] = history[j]
        <3>1. CASE j < way[2]
            <4>1. j \in 1..(n - 1)
                BY <1>1, <2>2, <3>1
            <4> QED BY <2>3, <3>1, <4>1
        <3>2. CASE j > way[2]
            <4>1. j - 1 \in 1..(n - 1) /\ ~ (j - 1 < way[2]) /\ j - 1 + 1 = j
                BY <1>1, <2>2, <3>2
            <4> QED BY <2>3, <4>1
        <3> QED BY <1>1, <2>2, <2>5, <3>1, <3>2
    <2>6. Timed(es, n - 1)
        BY <1>1, <2>3, <2>4 DEF Timed
    <2>7. \A i \in 1..(n - 1) : \E j \in 1..n : j # way[2] /\ es[i] = history[j]
        BY <2>3, <2>4
    <2> QED BY <1>6, <2>3, <2>5, <2>6, <2>7 DEF es, n
<1>7. CASE way[1] = "a promotion more"
    <2>1. es = Append(history, extra)
        BY <1>7 DEF EventsTold, extra
    <2> HIDE DEF es
    <2>2. IsSeq(es) /\ DOMAIN es = 1..(n + 1) /\ Len(es) = n + 1 /\ es[n + 1] = extra /\ \A j \in 1..n : es[j] = history[j]
        BY <1>1, <2>1, SeqAppend DEF n
    <2>3. \A i \in 1..(n + 1) : i \in 1..n \/ i = n + 1
        BY <1>1
    <2>4. Timed(es, n + 1)
        <3>1. ASSUME NEW i \in 1..(n + 1) PROVE es[i].at \in Int
            <4>1. CASE i \in 1..n
                BY <1>1, <2>2, <4>1
            <4>2. CASE i = n + 1
                <5>1. PICK t \in Nat : way[2] = t
                    BY <1>3, <1>7
                <5>2. es[i].at = t
                    BY <1>4, <2>2, <4>2, <5>1
                <5> QED BY <5>2
            <4> QED BY <2>3, <4>1, <4>2
        <3> QED BY <2>2, <3>1 DEF Timed
    <2>5. \A j \in 1..n : j \in 1..(n + 1)
        BY <1>1
    <2> QED BY <1>7, <2>2, <2>3, <2>4, <2>5 DEF es, n, extra
<1>8. CASE way[1] \notin {"newest first", "no event", "a promotion more"}
    <2>1. es = history
        BY <1>8 DEF EventsTold
    <2>2. Timed(history, n)
        BY <1>1 DEF Timed
    <2> HIDE DEF es
    <2> QED BY <1>1, <1>8, <2>1, <2>2 DEF es, n
<1> QED BY <1>5, <1>6, <1>7, <1>8

LEMMA CertsToldAre ==
    ASSUME ReleaseInv, NEW way \in Ways
    PROVE  LET cs == CertsTold(way)
           IN /\ IsSeq(cs) /\ DOMAIN cs = 1..Len(cs)
              /\ \A i \in 1..Len(cs) : \E j \in 1..Len(issued) : cs[i] = issued[j] /\ (way[1] = "no certification" => j # way[2])
              /\ \A j \in 1..Len(issued) : (way[1] = "no certification" /\ way[2] = j) \/ \E i \in 1..Len(cs) : cs[i] = issued[j]
PROOF
<1> DEFINE cs == CertsTold(way)
           n == Len(issued)
<1>1. IsSeq(issued) /\ n \in Nat /\ DOMAIN issued = 1..n
    BY DEF ReleaseInv, IssuedInv, IsSeq
<1>2. CASE way[1] = "no certification"
    <2>1. cs = RemoveAt(issued, way[2]) /\ way[2] \in 1..n
        BY <1>1, <1>2, WaysAre DEF CertsTold
    <2> HIDE DEF cs, n
    <2>3. IsSeq(cs) /\ DOMAIN cs = 1..(n - 1) /\ Len(cs) = n - 1
          /\ \A j \in 1..(n - 1) : cs[j] = issued[IF j < way[2] THEN j ELSE j + 1]
        BY <1>1, <2>1, SeqRemove DEF n
    <2>4. \A j \in 1..(n - 1) : (IF j < way[2] THEN j ELSE j + 1) \in 1..n /\ (IF j < way[2] THEN j ELSE j + 1) # way[2]
        BY <1>1, <2>1
    <2>5. ASSUME NEW j \in 1..n, j # way[2] PROVE \E i \in 1..(n - 1) : cs[i] = issued[j]
        <3>1. CASE j < way[2]
            <4>1. j \in 1..(n - 1)
                BY <1>1, <2>1, <3>1
            <4> QED BY <2>3, <3>1, <4>1
        <3>2. CASE j > way[2]
            <4>1. j - 1 \in 1..(n - 1) /\ ~ (j - 1 < way[2]) /\ j - 1 + 1 = j
                BY <1>1, <2>1, <3>2
            <4> QED BY <2>3, <4>1
        <3> QED BY <1>1, <2>1, <2>5, <3>1, <3>2
    <2>7. \A i \in 1..(n - 1) : \E j \in 1..n : j # way[2] /\ cs[i] = issued[j]
        BY <2>3, <2>4
    <2> QED BY <1>2, <2>3, <2>5, <2>7 DEF cs, n
<1>3. CASE way[1] # "no certification"
    <2>1. cs = issued
        BY <1>3 DEF CertsTold
    <2> HIDE DEF cs
    <2> QED BY <1>1, <1>3, <2>1 DEF cs, n
<1> QED BY <1>2, <1>3

\* The events of a pack are those of the history, but for what its way leaves out or adds.
ExtraEvent(way) == ReleasePromoted(way[2], CertifiedEnvironment, "none", FALSE)
FromHistory(e, way) ==
    \/ \E j \in 1..Len(history) : e = history[j] /\ (way[1] = "no event" => j # way[2])
    \/ way[1] = "a promotion more" /\ e = ExtraEvent(way)
LeftOut(j, way) == way[1] = "no event" /\ way[2] = j
EventsFrom(te, n, way) ==
    /\ n \in Nat /\ DOMAIN te = 1..n
    /\ \A i \in 1..n : te[i].at \in Nat /\ FromHistory(te[i], way)
    /\ \A j \in 1..Len(history) : LeftOut(j, way) \/ \E i \in 1..n : te[i] = history[j]

LEMMA ToldIs ==
    ASSUME ReleaseInv, Exported
    PROVE  /\ file.way \in Ways
           /\ Told.manifest = ThisManifest /\ Told.runs = RunsTold(file.way)
           /\ Told.certs = CertsTold(file.way) /\ Told.exports = ExportsTold(file.way)
           /\ \E n : EventsFrom(Told.events, n, file.way)
PROOF
<1>1. PICK created \in 0..instant : file.way \in Ways /\ file.pack = PackTold(file.way, created)
    BY DEF ReleaseInv, FileInv
<1>2. Told = SpecTold(file.way, created)
    BY <1>1 DEF Told, PackTold
<1>3. PICK way : way = file.way
    OBVIOUS
<1>4. way \in Ways
    BY <1>1, <1>3
<1>5. PICK es : es = EventsTold(way)
    OBVIOUS
<1>6. PICK n : n = Len(es)
    OBVIOUS
<1>7. /\ IsSeq(es) /\ Timed(es, n)
      /\ \A i \in 1..n :
            \/ \E j \in 1..Len(history) : es[i] = history[j]
            \/ way[1] = "a promotion more" /\ es[i] = ReleasePromoted(way[2], CertifiedEnvironment, "none", FALSE)
      /\ \A j \in 1..Len(history) : (way[1] = "no event" /\ way[2] = j) \/ \E i \in 1..n : es[i] = history[j]
      /\ way[1] = "no event" => \A i \in 1..n : \E j \in 1..Len(history) : j # way[2] /\ es[i] = history[j]
    BY <1>4, <1>5, <1>6, EventsToldAre
<1>8. n \in Nat
    BY <1>6, <1>7 DEF IsSeq
<1>9. /\ DOMAIN SortEvents(es) = 1..n /\ Position(es, n) \in [1..n -> 1..n]
      /\ \A k \in 1..n : SortEvents(es)[k] = es[Position(es, n)[k]]
      /\ \A i \in 1..n : Position(es, n)[Rank(es, i)] = i
    <2>1. Timed(es, n)
        BY <1>7
    <2>2. \A k \in 1..n : SortEvents(es)[k] = es[Position(es, n)[k]] /\ Rank(es, Position(es, n)[k]) = k
        BY <1>8, <2>1, SortPermutes
    <2>3. DOMAIN SortEvents(es) = 1..n /\ Position(es, n) \in [1..n -> 1..n]
        BY <1>8, <2>1, SortPermutes
    <2>4. \A i \in 1..n : Position(es, n)[Rank(es, i)] = i
        BY <1>8, <2>1, SortPermutes
    <2> QED BY <2>2, <2>3, <2>4
<1>10. PICK te, p : te = SortEvents(es) /\ p = Position(es, n)
    OBVIOUS
<1>11. /\ DOMAIN te = 1..n /\ p \in [1..n -> 1..n]
       /\ \A k \in 1..n : te[k] = es[p[k]]
       /\ \A i \in 1..n : p[Rank(es, i)] = i
    BY <1>9, <1>10
<1>12. \A i \in 1..n : Rank(es, i) \in 1..n
    BY <1>7, <1>8, RankType
<1>13. \A i \in 1..n : \E k \in 1..n : te[k] = es[i]
    BY <1>11, <1>12
<1>14. \A k \in 1..n : \E i \in 1..n : te[k] = es[i]
    BY <1>11
<1>15. \A i \in 1..n : FromHistory(es[i], way)
    BY <1>7 DEF FromHistory, ExtraEvent
<1>16. \A k \in 1..n : FromHistory(te[k], way)
    BY <1>14, <1>15
<1>17. \A j \in 1..Len(history) : LeftOut(j, way) \/ \E i \in 1..n : es[i] = history[j]
    BY <1>7 DEF LeftOut
<1>18. ASSUME NEW j \in 1..Len(history) PROVE LeftOut(j, way) \/ \E k \in 1..n : te[k] = history[j]
    <2>1. CASE LeftOut(j, way)
        BY <2>1
    <2>2. CASE \E i \in 1..n : es[i] = history[j]
        <3>1. PICK i \in 1..n : es[i] = history[j]
            BY <2>2
        <3>2. PICK k \in 1..n : te[k] = es[i]
            BY <1>13
        <3>3. te[k] = history[j]
            BY <3>1, <3>2
        <3> QED BY <3>3
    <2> QED BY <1>17, <2>1, <2>2
<1>19. ASSUME NEW k \in 1..n PROVE te[k].at \in Nat
    <2>1. CASE \E j \in 1..Len(history) : te[k] = history[j]
        <3>1. \A j \in 1..Len(history) : history[j].at \in Nat
            BY DEF ReleaseInv, HistoryInv
        <3> QED BY <2>1, <3>1
    <2>2. CASE way[1] = "a promotion more" /\ te[k] = ExtraEvent(way)
        <3>1. instant \in Nat
            BY DEF ReleaseInv, IssuedInv
        <3>2. way[2] \in 0..instant
            BY <2>2, <1>4, WaysAre
        <3>3. PICK t \in 0..instant : way[2] = t
            BY <3>2
        <3>4. ExtraEvent(way).at = t
            BY <3>3 DEF ExtraEvent, ReleasePromoted
        <3>5. te[k].at = t
            BY <2>2, <3>4
        <3> QED BY <3>1, <3>3, <3>5
    <2> QED BY <1>16, <2>1, <2>2 DEF FromHistory
<1>20. EventsFrom(te, n, way)
    BY <1>8, <1>11, <1>16, <1>18, <1>19 DEF EventsFrom
<1>21. Told = SpecTold(way, created)
    BY <1>2, <1>3
<1>22. Told.events = te /\ Told.manifest = ThisManifest /\ Told.runs = RunsTold(way)
       /\ Told.certs = CertsTold(way) /\ Told.exports = ExportsTold(way)
    BY <1>21, <1>5, <1>10 DEF SpecTold
<1>23. EventsFrom(Told.events, n, way)
    BY <1>20, <1>22
<1> HIDE DEF Told
<1> QED BY <1>3, <1>4, <1>22, <1>23

(***************************************************************************)
(* What a pack without failures has passed.                                *)
(***************************************************************************)
LEMMA RolesApart ==
    ASSUME NEW pack, NEW issuers, Failures(pack, OptionsWith(issuers)) = {}
    PROVE  ExporterKey \notin issuers /\ LedgerSignerKey # ExporterKey /\ LedgerSignerKey \notin issuers
PROOF
<1> DEFINE opts == OptionsWith(issuers)
<1>1. CheckRoles(opts) = {}
    BY DEF Failures
<1>2. /\ opts.keys["exporter"] = {ExporterKey} /\ opts.keys["ledger"] = {LedgerSignerKey} /\ opts.keys["issuer"] = issuers
    BY DEF OptionsWith
<1> HIDE DEF opts
<1>3. \A r, s \in {"exporter", "ledger", "issuer"} : r # s => opts.keys[r] \cap opts.keys[s] = {}
    BY <1>1 DEF CheckRoles, When
<1>4. {ExporterKey} \cap issuers = {} /\ {LedgerSignerKey} \cap {ExporterKey} = {} /\ {LedgerSignerKey} \cap issuers = {}
    BY <1>2, <1>3
<1> QED BY <1>4

\* A revocation of a pack that passes is in its list of revocations, with its time.
LEMMA RevokedOnce ==
    ASSUME NEW spec, NEW n \in Nat, DOMAIN spec.events = 1..n, NEW opts, CheckEvents(spec, opts) = {},
           NEW k \in OfKind(spec.events, "revoked")
    PROVE  <<spec.events[k].digest, spec.events[k].at>> \in Revocations(spec)
PROOF
<1>1. \A i, j \in OfKind(spec.events, "revoked") : i # j => spec.events[i].digest # spec.events[j].digest
    BY DEF CheckEvents, When
<1>2. \A i \in OfKind(spec.events, "revoked") : i \in 1..n
    BY DEF OfKind
<1>3. \A i \in OfKind(spec.events, "revoked") : i > k => spec.events[i].digest # spec.events[k].digest
    BY <1>1, <1>2
<1> QED BY <1>3 DEF Revocations

LEMMA RevokedIsListed ==
    ASSUME NEW spec, NEW n \in Nat, DOMAIN spec.events = 1..n, NEW opts, CheckEvents(spec, opts) = {},
           NEW k \in OfKind(spec.events, "revoked")
    PROVE  /\ spec.events[k].digest \in AllRevoked(spec)
           /\ \A at : spec.events[k].at <= at => spec.events[k].digest \in RevokedBy(spec, at)
PROOF
<1>1. PICK r : r = <<spec.events[k].digest, spec.events[k].at>>
    OBVIOUS
<1>2. r \in Revocations(spec)
    BY <1>1, RevokedOnce
<1>3. r[1] = spec.events[k].digest /\ r[2] = spec.events[k].at
    BY <1>1
<1>4. r[1] \in AllRevoked(spec)
    BY <1>2 DEF AllRevoked
<1>5. \A at : r[2] <= at => r[1] \in RevokedBy(spec, at)
    BY <1>2 DEF RevokedBy
<1> QED BY <1>3, <1>4, <1>5

LEMMA ListedIsRevoked ==
    ASSUME NEW spec, NEW d \in AllRevoked(spec)
    PROVE  \E k \in OfKind(spec.events, "revoked") : spec.events[k].digest = d
PROOF
<1>1. PICK r \in Revocations(spec) : r[1] = d
    BY DEF AllRevoked
<1>2. PICK k \in OfKind(spec.events, "revoked") : r = <<spec.events[k].digest, spec.events[k].at>>
    BY <1>1 DEF Revocations
<1>3. r[1] = spec.events[k].digest
    BY <1>2
<1> QED BY <1>1, <1>3

\* The verifier's view of a certification of this flow.
LEMMA ContextIs ==
    ASSUME NEW issuers, NEW at, NEW revoked
    PROVE  CertContext(OptionsWith(issuers), at, This, revoked) = ContextOf(issuers, revoked, Rfc3339(at))
PROOF
BY DEF CertContext, OptionsWith, ContextOf

\* A certification of the pack that the verifier finds certified at a time is
\* one that was in force at that time.
LEMMA CertifiedThen ==
    ASSUME ReleaseInv, Exported, NEW issuers, NEW revoked, NEW at \in Nat, NEW i \in DOMAIN Told.certs,
           IsCertified(Told.certs[i], CertContext(OptionsWith(issuers), at, Told.manifest.hash, revoked))
    PROVE  \E j \in 1..Len(issued) :
              /\ Told.certs[i] = issued[j]
              /\ InForce(issued[j], issuers, revoked, at)
PROOF
<1>1. PICK way : way = file.way
    OBVIOUS
<1>2. way \in Ways /\ Told.certs = CertsTold(way) /\ Told.manifest.hash = This
    BY <1>1, ToldIs DEF ThisManifest
<1>3. DOMAIN CertsTold(way) = 1..Len(CertsTold(way))
      /\ \A k \in 1..Len(CertsTold(way)) : \E j \in 1..Len(issued) : CertsTold(way)[k] = issued[j]
    BY <1>2, CertsToldAre
<1>4. PICK j \in 1..Len(issued) : Told.certs[i] = issued[j]
    BY <1>2, <1>3
<1>5. Certificate(issued[j], j, instant)
    BY DEF ReleaseInv, IssuedInv
<1>6. Rfc3339(at) \in Nat /\ Rfc3339(at) <= at
    BY SecondsDown
<1>7. IsCertified(issued[j], ContextOf(issuers, revoked, Rfc3339(at)))
    BY <1>2, <1>4, ContextIs
<1>8. InForce(issued[j], issuers, revoked, Rfc3339(at))
    BY <1>5, <1>6, <1>7, CertifiedIs
<1>9. PICK c : c = issued[j].payload.certification
    OBVIOUS
<1>10. c.issued \in Nat /\ c.until \in Nat /\ Rfc3339(c.until) = c.until
    BY <1>5, <1>9 DEF Certificate
<1>11. c.issued <= Rfc3339(at) /\ Rfc3339(at) < c.until
    BY <1>8, <1>9 DEF InForce
<1>12. c.until <= at <=> c.until <= Rfc3339(at)
    BY <1>10, WholeSeconds
<1>13. c.issued <= at /\ at < c.until
    BY <1>6, <1>10, <1>11, <1>12
<1>14. InForce(issued[j], issuers, revoked, at)
    BY <1>8, <1>9, <1>13 DEF InForce
<1> QED BY <1>4, <1>14

LEMMA JustifiedHolds == ReleaseInv => PromotionsJustified
PROOF
<1> SUFFICES ASSUME ReleaseInv, Exported, NEW issuers \in {{IssuerKey}, {IssuerKey, ExporterKey}},
                    Passes(OptionsWith(issuers)), NEW i \in OfKind(Told.events, "promoted"),
                    Told.events[i].environment = CertifiedEnvironment, ~Told.events[i].breakGlass
             PROVE  \E j \in DOMAIN issued :
                      LET c == issued[j].payload.certification
                      IN /\ Keyid(IssuerKey) \in {s.keyid : s \in issued[j].sigs}
                         /\ c.environment = CertifiedEnvironment /\ c.decision.outcome = "certified"
                         /\ c.issued <= Told.events[i].at /\ Told.events[i].at < c.until
                         /\ ~ \E k \in OfKind(Told.events, "revoked") :
                                 Told.events[k].digest = StatementDigest(issued[j]) /\ Told.events[k].at <= Told.events[i].at
    BY DEF PromotionsJustified
<1> DEFINE opts == OptionsWith(issuers)
           e == Told.events[i]
<1>1. Failures(file.pack, opts) = {}
    BY DEF Passes
<1>2. CheckEvents(Told, opts) = {} /\ CheckPromotions(Told, opts) = {}
    BY <1>1 DEF Failures, Told
<1>3. issuers = {IssuerKey}
    <2>1. ExporterKey \notin issuers
        BY <1>1, RolesApart
    <2> QED BY <2>1
<1>4. PICK n : EventsFrom(Told.events, n, file.way)
    BY ToldIs
<1>5. n \in Nat /\ DOMAIN Told.events = 1..n /\ i \in 1..n /\ e.at \in Nat
    BY <1>4 DEF EventsFrom, OfKind
<1> HIDE DEF Told
<1>6. CertifiedAt(Told, opts, CertifiedEnvironment, e.at)
    <2>1. Basis(Told, opts, e) # "uncertified"
        BY <1>2 DEF CheckPromotions, When
    <2> QED BY <2>1 DEF Basis
<1>7. PICK c \in DOMAIN Told.certs :
         /\ Told.certs[c].payload.certification.environment = CertifiedEnvironment
         /\ IsCertified(Told.certs[c], CertContext(opts, e.at, Told.manifest.hash, RevokedBy(Told, e.at)))
    BY <1>6 DEF CertifiedAt
<1>8. PICK j \in 1..Len(issued) :
         Told.certs[c] = issued[j] /\ InForce(issued[j], issuers, RevokedBy(Told, e.at), e.at)
    BY <1>5, <1>7, CertifiedThen
<1>9. DOMAIN issued = 1..Len(issued)
    BY DEF ReleaseInv, IssuedInv, IsSeq
<1>10. SignedWith(issued[j], IssuerKey)
    BY <1>3, <1>8 DEF InForce
<1>11. Keyid(IssuerKey) \in {s.keyid : s \in issued[j].sigs}
    BY <1>10 DEF SignedWith
<1>12. ASSUME NEW k \in OfKind(Told.events, "revoked"), Told.events[k].digest = StatementDigest(issued[j]),
              Told.events[k].at <= e.at
       PROVE  FALSE
    <2>1. Told.events[k].digest \in RevokedBy(Told, e.at)
        BY <1>2, <1>5, <1>12, RevokedIsListed
    <2> QED BY <1>8, <1>12, <2>1 DEF InForce
<1>13. issued[j].payload.certification.environment = CertifiedEnvironment
    BY <1>7, <1>8
<1>14. /\ issued[j].payload.certification.decision.outcome = "certified"
       /\ issued[j].payload.certification.issued <= e.at /\ e.at < issued[j].payload.certification.until
    BY <1>8 DEF InForce
<1> QED BY <1>9, <1>11, <1>12, <1>13, <1>14

\* Whatever the exporter leaves out, invents or signs itself, and whatever the
\* auditor trusts it for: a promotion to production in a pack that passes was
\* by break-glass, or stood on a certification of the issuer that was in force
\* at that very instant (check.rs check_promotions, check_roles).
THEOREM Justified == ReleaseSpec => []PromotionsJustified
PROOF
BY ReleaseInvariant, JustifiedHolds, PTL

(***************************************************************************)
(* What is left out of a pack.                                             *)
(***************************************************************************)
LEMMA SeqFirst ==
    ASSUME NEW e
    PROVE  <<e>>[1] = e /\ 1 \in DOMAIN <<e>>
PROOF
BY SeqOne

LEMMA SeqNothing == DOMAIN <<>> = {}
PROOF
<1>1. DOMAIN <<>> = 1..0
    BY SeqEmpty DEF IsSeq
<1> QED BY <1>1

LEMMA SeqNonempty ==
    ASSUME NEW s, IsSeq(s), Len(s) # 0
    PROVE  1 \in 1..Len(s)
PROOF
BY DEF IsSeq

LEMMA VersionFour ==
    ASSUME NEW v, v = 4
    PROVE  ~ (v < 3)
PROOF
OBVIOUS

LEMMA ThisHash == ThisManifest.hash = This
PROOF
BY DEF ThisManifest

LEMMA OtherKeyFails ==
    ASSUME ReleaseInv, Exported, Passes(Proper)
    PROVE  file.way[1] # "a ledger of another key"
PROOF
<1> SUFFICES ASSUME file.way[1] = "a ledger of another key" PROVE FALSE
    OBVIOUS
<1>1. Failures(file.pack, Proper) = {}
    BY DEF Passes
<1>2. ExporterKey # LedgerSignerKey
    BY <1>1, RolesApart DEF Proper
<1>3. Told.exports = ExportsTold(file.way)
    BY ToldIs
<1>4. Told.exports = <<ExportBundle(Ledger, "bundle", ExporterKey)>>
    BY <1>3 DEF ExportsTold
<1>5. CheckLedger(Told, Proper) = {}
    BY <1>1 DEF Failures, Told
<1> HIDE DEF Told
<1>6. PICK b : b = ExportBundle(Ledger, "bundle", ExporterKey)
    OBVIOUS
<1>7. Told.exports[1] = b /\ 1 \in DOMAIN Told.exports
    <2>1. Told.exports = <<b>>
        BY <1>4, <1>6
    <2>2. <<b>>[1] = b /\ 1 \in DOMAIN <<b>>
        BY SeqFirst
    <2> QED BY <2>1, <2>2
<1>8. LedgerSound(b, Proper, Told.manifest.hash)
    BY <1>5, <1>7 DEF CheckLedger, Bad, When
<1>9. b.version = 4 /\ b.manifest.keyid = Operator /\ b.keys = [k \in {Operator} |-> ExporterKey]
    BY <1>6 DEF ExportBundle, BuildManifest, BundleVersion
<1>10. b.manifest # None
    <2>1. VerifyManifest(b)
        BY <1>8 DEF LedgerSound
    <2>2. ~ (b.version < 3)
        BY <1>9, VersionFour
    <2> QED BY <2>1, <2>2 DEF VerifyManifest
<1>11. b.keys[Operator] \in Proper.keys["ledger"]
    BY <1>8, <1>9, <1>10 DEF LedgerSound
<1>12. Proper.keys["ledger"] = {LedgerSignerKey}
    BY DEF Proper, OptionsWith
<1> QED BY <1>2, <1>9, <1>11, <1>12

LEMMA SeqNone ==
    ASSUME NEW s, IsSeq(s), Len(s) = 0
    PROVE  s = <<>>
PROOF
<1>1. PICK X : X = {s[i] : i \in 1..Len(s)}
    OBVIOUS
<1>2. s \in Seq(X)
    BY <1>1, SeqOver
<1> QED BY <1>2

LEMMA RunsAreCited ==
    ASSUME ReleaseInv, Exported, Passes(Proper), file.way[1] = "no runs"
    PROVE  issued = <<>>
PROOF
<1>1. Told.runs = RunsTold(file.way) /\ Told.certs = CertsTold(file.way)
    BY ToldIs
<1>2. Told.runs = <<>> /\ Told.certs = issued
    BY <1>1 DEF RunsTold, CertsTold
<1>3. CheckCertifications(Told, Proper) = {}
    BY DEF Passes, Failures, Told
<1> HIDE DEF Told
<1>4. \A i \in DOMAIN Told.certs :
         Told.certs[i].payload.certification.decision.runs \subseteq {Told.runs[k].hash : k \in DOMAIN Told.runs}
    BY <1>3 DEF CheckCertifications, Bad, When
<1>5. {Told.runs[k].hash : k \in DOMAIN Told.runs} = {}
    <2>1. DOMAIN Told.runs = {}
        <3>1. DOMAIN <<>> = {}
            BY SeqNothing
        <3> QED BY <1>2, <3>1
    <2> QED BY <2>1
<1>6. IsSeq(issued) /\ Len(issued) \in Nat /\ DOMAIN issued = 1..Len(issued)
      /\ \A i \in 1..Len(issued) : issued[i].payload.certification.decision.runs \in {{1}, {2}}
    BY DEF ReleaseInv, IssuedInv, IsSeq, Certificate
<1>7. Len(issued) = 0
    <2>1. ASSUME Len(issued) # 0 PROVE FALSE
        <3>1. 1 \in 1..Len(issued)
            BY <1>6, <2>1, SeqNonempty
        <3>2. issued[1].payload.certification.decision.runs \subseteq {}
            BY <1>2, <1>4, <1>5, <1>6, <3>1
        <3>3. issued[1].payload.certification.decision.runs \in {{1}, {2}}
            BY <1>6, <3>1
        <3> QED BY <3>2, <3>3
    <2> QED BY <2>1
<1> QED BY <1>6, <1>7, SeqNone

\* An event of the history that is not left out is in the pack.
LEMMA RevocationTold ==
    ASSUME ReleaseInv, Exported, NEW opts, CheckEvents(Told, opts) = {}, NEW r \in OfKind(history, "revoked"), ~LeftOut(r, file.way)
    PROVE  history[r].digest \in AllRevoked(Told)
PROOF
<1>1. PICK n : EventsFrom(Told.events, n, file.way)
    BY ToldIs
<1>2. r \in 1..Len(history) /\ history[r].kind = "revoked"
    BY DEF OfKind, ReleaseInv, HistoryInv, IsSeq
<1>3. n \in Nat /\ DOMAIN Told.events = 1..n
    BY <1>1 DEF EventsFrom
<1>4. PICK i \in 1..n : Told.events[i] = history[r]
    BY <1>1, <1>2 DEF EventsFrom
<1>5. i \in OfKind(Told.events, "revoked")
    BY <1>2, <1>3, <1>4 DEF OfKind
<1>6. Told.events[i].digest \in AllRevoked(Told)
    BY <1>3, <1>5, RevokedIsListed
<1> QED BY <1>4, <1>6

LEMMA RevokedIsTold ==
    ASSUME ReleaseInv, Exported, Passes(Proper), file.way[1] = "no certification"
    PROVE  StatementDigest(issued[file.way[2]]) \notin RevokedSoFar
PROOF
<1> SUFFICES ASSUME StatementDigest(issued[file.way[2]]) \in RevokedSoFar PROVE FALSE
    OBVIOUS
<1>1. PICK way : way = file.way
    OBVIOUS
<1>2. way \in Ways /\ Told.certs = CertsTold(way) /\ way[1] = "no certification"
    BY <1>1, ToldIs
<1>3. PICK r \in OfKind(history, "revoked") : history[r].digest = StatementDigest(issued[way[2]])
    BY <1>1 DEF RevokedSoFar
<1>4. CheckEvents(Told, Proper) = {} /\ CheckCertifications(Told, Proper) = {}
    BY DEF Passes, Failures, Told
<1>5. ~LeftOut(r, file.way)
    BY DEF LeftOut
<1>6. history[r].digest \in AllRevoked(Told)
    BY <1>4, <1>5, RevocationTold
<1> HIDE DEF Told
<1>7. AllRevoked(Told) \subseteq {StatementDigest(Told.certs[i]) : i \in DOMAIN Told.certs}
    BY <1>4 DEF CheckCertifications, When
<1>8. PICK i \in DOMAIN Told.certs : StatementDigest(Told.certs[i]) = history[r].digest
    BY <1>6, <1>7
<1>9. DOMAIN CertsTold(way) = 1..Len(CertsTold(way))
      /\ \A k \in 1..Len(CertsTold(way)) : \E j \in 1..Len(issued) :
            CertsTold(way)[k] = issued[j] /\ (way[1] = "no certification" => j # way[2])
    BY <1>2, CertsToldAre
<1>10. PICK j \in 1..Len(issued) : Told.certs[i] = issued[j] /\ j # way[2]
    BY <1>2, <1>8, <1>9
<1>11. way[2] \in 1..Len(issued)
    BY <1>2, WaysAre DEF ReleaseInv, IssuedInv, IsSeq
<1>12. StatementDigest(issued[j]) = StatementDigest(issued[way[2]])
    BY <1>3, <1>8, <1>10
<1>13. j = way[2]
    BY <1>11, <1>12, DigestsDiffer DEF ReleaseInv
<1> QED BY <1>10, <1>13

LEMMA IssuerSigned ==
    ASSUME NEW e, SignedWith(e, IssuerKey) \/ SignedWith(e, ExporterKey), Keyid(IssuerKey) \in {s.keyid : s \in e.sigs}
    PROVE  SignedWith(e, IssuerKey)
PROOF
<1> SUFFICES ASSUME SignedWith(e, ExporterKey) PROVE SignedWith(e, IssuerKey)
    OBVIOUS
<1>1. PICK s \in e.sigs : s.keyid = Keyid(IssuerKey)
    OBVIOUS
<1>2. s.keyid = Keyid(ExporterKey)
    BY <1>1 DEF SignedWith
<1>3. <<"ed25519", IssuerKey>> = <<"ed25519", ExporterKey>>
    BY <1>1, <1>2 DEF Keyid
<1>4. IssuerKey = ExporterKey
    BY <1>3
<1> QED BY <1>4

\* A certification that was in force counts as certified at that time.
LEMMA InForceCounts ==
    ASSUME ReleaseInv, NEW j \in 1..Len(issued), NEW issuers, NEW revoked, NEW at \in Nat,
           InForce(issued[j], issuers, revoked, at)
    PROVE  IsCertified(issued[j], CertContext(OptionsWith(issuers), at, This, revoked))
PROOF
<1>1. Certificate(issued[j], j, instant)
    BY DEF ReleaseInv, IssuedInv
<1>2. Rfc3339(at) \in Nat /\ Rfc3339(at) <= at
    BY SecondsDown
<1>3. PICK c : c = issued[j].payload.certification
    OBVIOUS
<1>4. c.issued \in Nat /\ c.until \in Nat /\ Rfc3339(c.issued) = c.issued
    BY <1>1, <1>3 DEF Certificate
<1>5. c.issued <= at /\ at < c.until
    BY <1>3 DEF InForce
<1>6. c.issued <= Rfc3339(at)
    BY <1>4, <1>5, WholeSeconds
<1>7. Rfc3339(at) < c.until
    BY <1>2, <1>4, <1>5
<1>8. InForce(issued[j], issuers, revoked, Rfc3339(at))
    BY <1>3, <1>6, <1>7 DEF InForce
<1>9. IsCertified(issued[j], ContextOf(issuers, revoked, Rfc3339(at)))
    BY <1>1, <1>2, <1>8, CertifiedIs
<1> QED BY <1>9, ContextIs

LEMMA BreachRevokes ==
    ASSUME ReleaseInv, Exported, Passes(Proper), file.way[1] = "no event",
           NEW b \in OfKind(history, "breach"), MadeByBreach(file.way[2], b), history[file.way[2]].kind = "revoked"
    PROVE  FALSE
PROOF
<1>1. PICK way, r : way = file.way /\ r = way[2]
    OBVIOUS
<1>2. way \in Ways /\ Told.certs = CertsTold(way) /\ way[1] = "no event" /\ Told.manifest.hash = This
    <2>1. file.way \in Ways /\ Told.certs = CertsTold(file.way) /\ Told.manifest = ThisManifest
        BY ToldIs
    <2>2. ThisManifest.hash = This
        BY ThisHash
    <2> QED BY <1>1, <2>1, <2>2
<1>3. DOMAIN history = 1..Len(history) /\ Len(history) \in Nat
    BY DEF ReleaseInv, HistoryInv, IsSeq
<1>4. r \in 1..Len(history) /\ history[r].kind = "revoked" /\ r \in OfKind(history, "revoked")
    BY <1>1, <1>2, <1>3, WaysAre DEF OfKind
<1>5. b \in 1..Len(history) /\ history[b].kind = "breach"
    BY <1>3 DEF OfKind
<1>6. MadeByBreach(r, b)
    BY <1>1
<1>7. history[b].action = "revoke" /\ b # r /\ history[b].at = history[r].at
    BY <1>4, <1>5, <1>6 DEF MadeByBreach
<1>8. PICK j \in DOMAIN issued :
          LET c == issued[j].payload.certification
          IN /\ StatementDigest(issued[j]) = history[r].digest
             /\ c.environment = history[b].environment /\ c.decision.outcome = "certified"
             /\ Keyid(IssuerKey) \in {s.keyid : s \in issued[j].sigs}
             /\ history[b].at < c.until
    BY <1>6 DEF MadeByBreach
<1>9. j \in 1..Len(issued) /\ Certificate(issued[j], j, instant)
    BY DEF ReleaseInv, IssuedInv, IsSeq
<1>10. PICK c : c = issued[j].payload.certification
    OBVIOUS
<1>11. c.issued <= history[b].at
    <2>1. PICK l \in 1..Len(issued) :
              history[r].digest = StatementDigest(issued[l]) /\ issued[l].payload.certification.issued <= history[r].at
        BY <1>4 DEF ReleaseInv, RevokedInv
    <2>2. l = j
        BY <1>8, <1>9, <2>1, DigestsDiffer DEF ReleaseInv
    <2> QED BY <1>7, <1>10, <2>1, <2>2
<1>12. SignedWith(issued[j], IssuerKey)
    BY <1>8, <1>9, IssuerSigned DEF Certificate
<1>13. InForce(issued[j], {IssuerKey}, {}, history[b].at)
    BY <1>8, <1>10, <1>11, <1>12 DEF InForce
<1>14. history[b].at \in Nat
    BY <1>5 DEF ReleaseInv, HistoryInv
<1>15. IsCertified(issued[j], CertContext(Proper, history[b].at, This, {}))
    BY <1>9, <1>13, <1>14, InForceCounts DEF Proper
<1>16. PICK n : EventsFrom(Told.events, n, way)
    BY <1>1, ToldIs
<1>17. n \in Nat /\ DOMAIN Told.events = 1..n
    BY <1>16 DEF EventsFrom
<1>18. PICK i \in 1..n : Told.events[i] = history[b]
    BY <1>1, <1>5, <1>7, <1>16 DEF EventsFrom, LeftOut
<1>19. i \in OfKind(Told.events, "breach")
    BY <1>5, <1>17, <1>18 DEF OfKind
<1>20. Told.certs = issued
    BY <1>2 DEF CertsTold
<1>21. CheckSentinels(Told, Proper) = {}
    BY DEF Passes, Failures, Told
<1> HIDE DEF Told
<1>22. StatementDigest(issued[j]) \in AllRevoked(Told)
    <2>1. \A x \in OfKind(Told.events, "breach"), y \in DOMAIN Told.certs :
             ~ /\ Told.events[x].action = "revoke"
               /\ Told.certs[y].payload.certification.environment = Told.events[x].environment
               /\ IsCertified(Told.certs[y], CertContext(Proper, Told.events[x].at, Told.manifest.hash, {}))
               /\ StatementDigest(Told.certs[y]) \notin AllRevoked(Told)
        BY <1>21 DEF CheckSentinels, When
    <2> QED BY <1>2, <1>7, <1>8, <1>15, <1>18, <1>19, <1>20, <2>1
<1>23. PICK k \in OfKind(Told.events, "revoked") : Told.events[k].digest = StatementDigest(issued[j])
    BY <1>22, ListedIsRevoked
<1>24. k \in 1..n /\ Told.events[k].kind = "revoked"
    BY <1>17 DEF OfKind
<1>25. PICK m \in 1..Len(history) : Told.events[k] = history[m] /\ m # r
    BY <1>1, <1>2, <1>16, <1>24 DEF EventsFrom, FromHistory
<1>26. m \in OfKind(history, "revoked") /\ history[m].digest = history[r].digest
    BY <1>3, <1>8, <1>23, <1>24, <1>25 DEF OfKind
<1> QED BY <1>4, <1>25, <1>26 DEF ReleaseInv, RevokedInv

\* What a pack refers to cannot be left out of it (check.rs check_certifications,
\* check_sentinels, check_ledger): the runs that certifications cite, a revoked
\* certification, the revocations that a breach made; nor does another key's
\* ledger export pass.
THEOREM OmissionsFound == ReleaseSpec => []OmissionsAreFound
PROOF
<1>1. ReleaseInv => OmissionsAreFound
    BY OtherKeyFails, RunsAreCited, RevokedIsTold, BreachRevokes DEF OmissionsAreFound
<1> QED BY <1>1, ReleaseInvariant, PTL

(***************************************************************************)
(* Induction on numbers, without an operator as a parameter.               *)
(***************************************************************************)
NumberPairs == {ss \in Nat \X Nat : ss[1] < ss[2]}
LEMMA LeastNumber ==
    ASSUME NEW T \in SUBSET Nat, T # {}
    PROVE  \E x \in T : \A y \in T : x <= y
PROOF
<1>1. IsWellFoundedOn(NumberPairs, Nat)
    BY NatLessThanWellFounded DEF OpToRel, NumberPairs
<1>2. \A a, b \in Nat : a < b => <<a, b>> \in NumberPairs
    BY DEF NumberPairs
<1>3. PICK x \in T : \A y \in T : ~(<<y, x>> \in NumberPairs)
    BY <1>1, WFMin
<1>4. \A y \in T : y \in Nat /\ x \in Nat
    OBVIOUS
<1>5. \A y \in T : ~(y < x)
    BY <1>2, <1>3, <1>4
<1> QED BY <1>4, <1>5

LEMMA LastNumber ==
    ASSUME NEW n \in Nat, NEW T \in SUBSET (1..n), T # {}
    PROVE  Max(T) \in T /\ \A y \in T : Max(T) >= y
PROOF
<1> DEFINE U == {n - x : x \in T}
<1>1. U \in SUBSET Nat /\ U # {}
    <2>1. \A x \in T : n - x \in Nat
        OBVIOUS
    <2> QED BY <2>1
<1>2. PICK u \in U : \A v \in U : u <= v
    BY <1>1, LeastNumber
<1>3. PICK x \in T : u = n - x
    OBVIOUS
<1>4. \A y \in T : n - y \in U /\ n - x <= n - y
    BY <1>2, <1>3
<1>5. \A y \in T : x >= y
    BY <1>4
<1> QED BY <1>5 DEF Max

(***************************************************************************)
(* A pack told in order tells the history.                                 *)
(***************************************************************************)
LEMMA SortedStays ==
    ASSUME NEW n \in Nat, NEW es, Timed(es, n), \A i, j \in 1..n : i < j => es[i].at <= es[j].at, NEW k \in 1..n
    PROVE  SortEvents(es)[k] = es[k]
PROOF
<1>1. \A i \in 1..n : es[i].at \in Int
    BY DEF Timed
<1>2. ASSUME NEW j \in 1..n PROVE Earlier(es, j, k) <=> j < k
    BY <1>1 DEF Earlier
<1>3. Predecessors(es, k) = {j \in 1..n : j < k}
    BY <1>2 DEF Predecessors, Timed
<1>4. {j \in 1..n : j < k} = 1..(k - 1)
    OBVIOUS
<1>5. Cardinality(1..(k - 1)) = k - 1
    <2>1. 1 \in Int /\ k - 1 \in Int
        OBVIOUS
    <2>2. Cardinality(1..(k - 1)) = IF 1 > k - 1 THEN 0 ELSE (k - 1) - 1 + 1
        BY <2>1, FS_Interval
    <2> QED BY <2>2
<1>6. Rank(es, k) = k
    <2>1. Rank(es, k) = Cardinality(1..(k - 1)) + 1
        BY <1>3, <1>4, Zenon DEF Rank
    <2>2. k - 1 + 1 = k
        OBVIOUS
    <2> QED BY <1>5, <2>1, <2>2
<1>7. \A i \in 1..n : Position(es, n)[Rank(es, i)] = i
    BY SortPermutes
<1>8. Position(es, n)[k] = k
    BY <1>6, <1>7
<1>9. \A i \in 1..n : SortEvents(es)[i] = es[Position(es, n)[i]] /\ Rank(es, Position(es, n)[i]) = i
    BY SortPermutes
<1> QED BY <1>8, <1>9

LEMMA SortedBack ==
    ASSUME NEW n \in Nat, NEW es, Timed(es, n), \A i, j \in 1..n : i < j => es[i].at > es[j].at, NEW k \in 1..n
    PROVE  SortEvents(es)[k] = es[n - k + 1]
PROOF
<1>1. \A i \in 1..n : es[i].at \in Int
    BY DEF Timed
<1>2. PICK i : i = n - k + 1
    OBVIOUS
<1>3. i \in 1..n /\ n - i = k - 1
    BY <1>2
<1>4. ASSUME NEW j \in 1..n PROVE Earlier(es, j, i) <=> j > i
    <2>1. CASE j > i
        <3>1. es[i].at > es[j].at
            BY <1>3, <2>1
        <3> QED BY <1>1, <1>3, <2>1, <3>1 DEF Earlier
    <2>2. CASE j < i
        <3>1. es[j].at > es[i].at
            BY <1>3, <2>2
        <3> QED BY <1>1, <1>3, <2>2, <3>1 DEF Earlier
    <2>3. CASE j = i
        BY <1>1, <1>3, <2>3 DEF Earlier
    <2> QED BY <1>3, <2>1, <2>2, <2>3
<1>5. Predecessors(es, i) = {j \in 1..n : j > i}
    BY <1>4 DEF Predecessors, Timed
<1>6. {j \in 1..n : j > i} = (i + 1)..n
    BY <1>3
<1>7. Cardinality((i + 1)..n) = n - i
    <2>1. i + 1 \in Int /\ n \in Int
        BY <1>3
    <2>2. Cardinality((i + 1)..n) = IF i + 1 > n THEN 0 ELSE n - (i + 1) + 1
        BY <2>1, FS_Interval
    <2> QED BY <1>3, <2>2
<1>8. Rank(es, i) = k
    <2>1. Rank(es, i) = Cardinality((i + 1)..n) + 1
        BY <1>5, <1>6, Zenon DEF Rank
    <2>2. n - i + 1 = k
        BY <1>3
    <2> QED BY <1>7, <2>1, <2>2
<1>9. \A j \in 1..n : Position(es, n)[Rank(es, j)] = j
    BY SortPermutes
<1>10. Position(es, n)[k] = i
    BY <1>3, <1>8, <1>9
<1>11. \A j \in 1..n : SortEvents(es)[j] = es[Position(es, n)[j]] /\ Rank(es, Position(es, n)[j]) = j
    BY SortPermutes
<1> QED BY <1>2, <1>10, <1>11

LEMMA ReversedBack ==
    ASSUME HistoryInv, ~Tied, NEW k \in 1..Len(history)
    PROVE  SortEvents(Reverse(history))[k] = history[k] /\ DOMAIN SortEvents(Reverse(history)) = 1..Len(history)
PROOF
<1> DEFINE n == Len(history)
           es == Reverse(history)
<1>1. IsSeq(history) /\ n \in Nat /\ DOMAIN history = 1..n /\ \A i \in 1..n : history[i].at \in Nat
    BY DEF HistoryInv, IsSeq
<1>2. DOMAIN es = 1..n /\ \A j \in 1..n : es[j] = history[n - j + 1]
    BY <1>1, SeqReverse
<1>3. \A i, j \in 1..n : i < j => history[i].at < history[j].at
    <2>1. \A i, j \in 1..n : i < j => history[i].at <= history[j].at
        BY DEF HistoryInv
    <2>2. \A i, j \in 1..n : i # j => history[i].at # history[j].at
        BY <1>1 DEF Tied
    <2> QED BY <1>1, <2>1, <2>2
<1> HIDE DEF n, es
<1>4. \A j \in 1..n : n - j + 1 \in 1..n
    BY <1>1
<1>5. Timed(es, n)
    <2>1. \A j \in 1..n : es[j].at \in Int
        BY <1>1, <1>2, <1>4
    <2> QED BY <1>2, <2>1 DEF Timed
<1>6. ASSUME NEW i \in 1..n, NEW j \in 1..n, i < j PROVE es[i].at > es[j].at
    <2>1. n - j + 1 < n - i + 1 /\ n - j + 1 \in 1..n /\ n - i + 1 \in 1..n
        BY <1>1, <1>6
    <2>2. history[n - j + 1].at < history[n - i + 1].at
        BY <1>3, <2>1
    <2> QED BY <1>1, <1>2, <2>1, <2>2
<1>7. k \in 1..n
    BY DEF n
<1>8. SortEvents(es)[k] = es[n - k + 1]
    BY <1>1, <1>5, <1>6, <1>7, SortedBack
<1>9. n - k + 1 \in 1..n /\ n - (n - k + 1) + 1 = k
    BY <1>1, <1>7
<1>10. es[n - k + 1] = history[k]
    BY <1>2, <1>9
<1>11. DOMAIN SortEvents(es) = 1..n
    BY <1>1, <1>5, SortPermutes
<1> QED BY <1>8, <1>10, <1>11 DEF n, es

LEMMA ReversedDomain ==
    ASSUME HistoryInv
    PROVE  DOMAIN SortEvents(Reverse(history)) = 1..Len(history)
PROOF
<1>1. IsSeq(history) /\ DOMAIN Reverse(history) = 1..Len(history)
    BY SeqReverse DEF HistoryInv
<1>2. DOMAIN SortEvents(Reverse(history)) = DOMAIN Reverse(history)
    BY DEF SortEvents
<1> QED BY <1>1, <1>2

LEMMA HistorySorted ==
    ASSUME HistoryInv
    PROVE  DOMAIN SortEvents(history) = 1..Len(history) /\ \A k \in 1..Len(history) : SortEvents(history)[k] = history[k]
PROOF
<1> DEFINE n == Len(history)
<1>1. n \in Nat /\ DOMAIN history = 1..n /\ \A i \in 1..n : history[i].at \in Int
    BY DEF HistoryInv, IsSeq
<1>2. \A i, j \in 1..n : i < j => history[i].at <= history[j].at
    BY DEF HistoryInv
<1>3. Timed(history, n)
    BY <1>1 DEF Timed
<1>4. \A k \in 1..n : SortEvents(history)[k] = history[k]
    BY <1>1, <1>2, <1>3, SortedStays
<1>5. DOMAIN SortEvents(history) = 1..n
    BY <1>1, <1>3, SortPermutes
<1> QED BY <1>4, <1>5

LEMMA InOrderIsHistory ==
    ASSUME ReleaseInv, Exported, ToldInOrder
    PROVE  DOMAIN Told.events = 1..Len(history) /\ \A k \in 1..Len(history) : Told.events[k] = history[k]
PROOF
<1>1. PICK created \in 0..instant : file.way \in Ways /\ file.pack = PackTold(file.way, created)
    BY DEF ReleaseInv, FileInv
<1>2. Told.events = SortEvents(EventsTold(file.way))
    BY <1>1 DEF Told, PackTold, SpecTold
<1>3. HistoryInv
    BY DEF ReleaseInv
<1>4. CASE file.way[1] = "newest first"
    <2>1. Told.events = SortEvents(Reverse(history)) /\ ~Tied
        BY <1>2, <1>4 DEF EventsTold, ToldInOrder
    <2>2. \A k \in 1..Len(history) : SortEvents(Reverse(history))[k] = history[k]
        BY <1>3, <2>1, ReversedBack
    <2>3. DOMAIN SortEvents(Reverse(history)) = 1..Len(history)
        BY <1>3, <2>1, ReversedDomain
    <2> HIDE DEF Told
    <2> QED BY <2>1, <2>2, <2>3
<1>5. CASE file.way[1] # "newest first"
    <2>1. Told.events = SortEvents(history)
        BY <1>2, <1>5 DEF EventsTold, ToldInOrder, Faithful
    <2> HIDE DEF Told
    <2>2. \A k \in 1..Len(history) : SortEvents(history)[k] = history[k]
        BY <1>3, HistorySorted
    <2>3. DOMAIN SortEvents(history) = 1..Len(history)
        BY <1>3, HistorySorted
    <2> QED BY <2>1, <2>2, <2>3
<1> QED BY <1>4, <1>5

\* The release is live in an environment by the pack as it is by the history.
LEMMA LiveIs ==
    ASSUME NEW spec, NEW es, NEW n \in Nat, n = Len(es), DOMAIN spec.events = 1..n,
           \A k \in 1..n : spec.events[k] = es[k], NEW env
    PROVE  IsLive(spec, env) <=> LiveIn(es, env)
PROOF
<1> DEFINE M == Moves(spec, env)
<1>1. M = {i \in 1..n : MovesTo(es[i], env)}
    BY DEF Moves, OfKind, MovesTo
<1> HIDE DEF M
<1>2. M \in SUBSET (1..n)
    BY <1>1
<1>3. ASSUME IsLive(spec, env) PROVE LiveIn(es, env)
    <2>1. M # {} /\ spec.events[Max(M)].kind = "promoted"
        BY <1>3 DEF IsLive, M
    <2>2. Max(M) \in M /\ \A y \in M : Max(M) >= y
        BY <1>2, <2>1, LastNumber
    <2>3. PICK i : i = Max(M)
        OBVIOUS
    <2>4. i \in 1..n /\ MovesTo(es[i], env) /\ \A y \in M : i >= y
        BY <1>1, <2>2, <2>3
    <2>5. es[i].kind = "promoted" /\ es[i].environment = env
        BY <2>1, <2>3, <2>4 DEF MovesTo
    <2>6. ASSUME NEW k \in (i + 1)..n, MovesTo(es[k], env) PROVE FALSE
        <3>1. k \in 1..n /\ k > i
            BY <2>4
        <3>2. k \in M
            BY <1>1, <2>6, <3>1
        <3> QED BY <2>4, <3>1, <3>2
    <2> QED BY <2>4, <2>5, <2>6 DEF LiveIn
<1>4. ASSUME LiveIn(es, env) PROVE IsLive(spec, env)
    <2>1. PICK i \in 1..n : /\ es[i].kind = "promoted" /\ es[i].environment = env
                            /\ \A k \in (i + 1)..n : ~MovesTo(es[k], env)
        BY <1>4 DEF LiveIn
    <2>2. i \in M
        BY <1>1, <2>1 DEF MovesTo
    <2>3. Max(M) \in M /\ \A y \in M : Max(M) >= y
        BY <1>2, <2>2, LastNumber
    <2>4. PICK m \in M : m = Max(M)
        BY <2>3
    <2>5. m \in 1..n /\ m >= i /\ MovesTo(es[m], env)
        BY <1>1, <2>2, <2>3, <2>4
    <2>6. ~ (m \in (i + 1)..n)
        BY <2>1, <2>5
    <2>7. m = i
        BY <2>5, <2>6
    <2>8. spec.events[Max(M)].kind = "promoted"
        BY <2>1, <2>4, <2>7
    <2> QED BY <2>2, <2>8 DEF IsLive, M
<1> QED BY <1>3, <1>4

LEMMA LiveHolds == ReleaseInv => LiveAsDeployed
PROOF
<1> SUFFICES ASSUME ReleaseInv, Exported, ToldInOrder, NEW env \in Environments
             PROVE  IsLive(Told, env) <=> pointer[env] = This
    BY DEF LiveAsDeployed
<1>1. DOMAIN Told.events = 1..Len(history) /\ \A k \in 1..Len(history) : Told.events[k] = history[k]
    BY InOrderIsHistory
<1> HIDE DEF Told
<1>2. Len(history) \in Nat
    BY DEF ReleaseInv, HistoryInv, IsSeq
<1>3. IsLive(Told, env) <=> LiveIn(history, env)
    BY <1>1, <1>2, LiveIs
<1>4. pointer[env] = This <=> LiveIn(history, env)
    BY DEF ReleaseInv, PointerInv, Environments
<1> QED BY <1>3, <1>4

LEMMA QuietHolds == ReleaseInv => QuietMeansCertified
PROOF
<1> SUFFICES ASSUME ReleaseInv, Exported, ToldInOrder, CertifiedEnvironment \in Environments,
                    pointer[CertifiedEnvironment] = This, Passes(Proper), Warnings(Told, Proper) = {}
             PROVE  \E i \in DOMAIN issued :
                      LET c == issued[i].payload.certification
                      IN /\ c.environment = CertifiedEnvironment /\ c.decision.outcome = "certified"
                         /\ c.issued <= instant /\ instant < c.until
                         /\ StatementDigest(issued[i]) \notin RevokedSoFar
    BY DEF QuietMeansCertified
<1>1. CheckEvents(Told, Proper) = {}
    BY DEF Passes, Failures, Told
<1> HIDE DEF Told
<1>2. IsLive(Told, CertifiedEnvironment)
    BY LiveHolds DEF LiveAsDeployed
<1>3. CertifiedNow(Told, Proper, CertifiedEnvironment)
    BY <1>2 DEF Warnings, When
<1>4. Proper.now = instant /\ instant \in Nat
    BY DEF Proper, OptionsWith, ReleaseInv, IssuedInv
<1>5. PICK c \in DOMAIN Told.certs :
         /\ Told.certs[c].payload.certification.environment = CertifiedEnvironment
         /\ IsCertified(Told.certs[c], CertContext(Proper, instant, Told.manifest.hash, RevokedBy(Told, instant)))
    BY <1>3, <1>4 DEF CertifiedNow, CertifiedAt
<1>6. PICK j \in 1..Len(issued) :
         Told.certs[c] = issued[j] /\ InForce(issued[j], {IssuerKey}, RevokedBy(Told, instant), instant)
    BY <1>4, <1>5, CertifiedThen DEF Proper
<1>7. StatementDigest(issued[j]) \notin RevokedSoFar
    <2> SUFFICES ASSUME NEW r \in OfKind(history, "revoked"), history[r].digest = StatementDigest(issued[j]) PROVE FALSE
        BY DEF RevokedSoFar
    <2>1. DOMAIN Told.events = 1..Len(history) /\ \A k \in 1..Len(history) : Told.events[k] = history[k]
        BY InOrderIsHistory
    <2>2. Len(history) \in Nat /\ r \in 1..Len(history) /\ history[r].kind = "revoked"
        BY DEF ReleaseInv, HistoryInv, IsSeq, OfKind
    <2>3. r \in OfKind(Told.events, "revoked") /\ Told.events[r] = history[r]
        BY <2>1, <2>2 DEF OfKind
    <2>4. history[r].at <= instant
        BY <2>2 DEF ReleaseInv, HistoryInv
    <2>5. Told.events[r].digest \in RevokedBy(Told, instant)
        BY <1>1, <2>1, <2>2, <2>3, <2>4, RevokedIsListed
    <2> QED BY <1>6, <2>3, <2>5 DEF InForce
<1>8. DOMAIN issued = 1..Len(issued)
    BY DEF ReleaseInv, IssuedInv, IsSeq
<1>9. issued[j].payload.certification.environment = CertifiedEnvironment
    BY <1>5, <1>6
<1>10. /\ issued[j].payload.certification.decision.outcome = "certified"
       /\ issued[j].payload.certification.issued <= instant /\ instant < issued[j].payload.certification.until
    BY <1>6 DEF InForce
<1> QED BY <1>7, <1>8, <1>9, <1>10

\* A pack of the whole history that passes without a warning and has the release
\* live in production: a certification of it is valid at the time of the
\* verification and no event revokes it (check.rs check_promotions, certified_now).
THEOREM QuietIsCertified == ReleaseSpec => []QuietMeansCertified
PROOF
BY ReleaseInvariant, QuietHolds, PTL

\* What the report of an honest pack says is live is what the pointers of the
\* control plane say (check.rs check_promotions).
THEOREM LiveIsDeployed == ReleaseSpec => []LiveAsDeployed
PROOF
BY ReleaseInvariant, LiveHolds, PTL

(***************************************************************************)
(* Hash trees.  A recursive function is what its definition says once one  *)
(* such function exists: that is shown by counting up its domain.          *)
(***************************************************************************)
\* What holds of 0 and is handed on from each number below n to the next holds
\* of all up to n.
LEMMA CountUp ==
    ASSUME NEW n \in Nat, NEW S, 0 \in S, \A k \in Nat : k < n /\ k \in S => k + 1 \in S
    PROVE  0..n \subseteq S
PROOF
<1> SUFFICES ASSUME NEW i \in 0..n, i \notin S PROVE FALSE
    OBVIOUS
<1> DEFINE T == {k \in 0..n : k \notin S}
<1>1. PICK x \in T : \A y \in T : x <= y
    <2>1. T \in SUBSET Nat /\ T # {}
        OBVIOUS
    <2> QED BY <2>1, LeastNumber
<1>2. x # 0 /\ x - 1 \in 0..n /\ x - 1 \in S
    BY <1>1
<1> QED BY <1>1, <1>2

\* The path of a leaf up the levels.
LEMMA PathUpIs ==
    ASSUME NEW index, NEW n \in Nat
    PROVE  PathUp(index, n) = [k \in 1..n |-> IF k = 1 THEN index ELSE PathUp(index, n)[k - 1] \div 2]
PROOF
<1> DEFINE Is(f, m) == f = [k \in 1..m |-> IF k = 1 THEN index ELSE f[k - 1] \div 2]
           S == {m \in 0..n : \E f : Is(f, m)}
<1>1. 0 \in S
    <2>1. PICK f : f = [k \in 1..0 |-> index]
        OBVIOUS
    <2>2. Is(f, 0)
        BY <2>1
    <2>3. 0 \in 0..n
        OBVIOUS
    <2> HIDE DEF Is
    <2> QED BY <2>2, <2>3
<1>2. ASSUME NEW m \in Nat, m < n, m \in S PROVE m + 1 \in S
    <2>1. PICK f : Is(f, m)
        BY <1>2
    <2>2. PICK g : g = [k \in 1..(m + 1) |-> IF k <= m THEN f[k] ELSE IF k = 1 THEN index ELSE f[m] \div 2]
        OBVIOUS
    <2>3. ASSUME NEW k \in 1..(m + 1) PROVE g[k] = IF k = 1 THEN index ELSE g[k - 1] \div 2
        <3>1. CASE k <= m
            <4>1. k \in 1..m /\ g[k] = f[k]
                BY <2>2, <3>1
            <4>2. f[k] = IF k = 1 THEN index ELSE f[k - 1] \div 2
                BY <2>1, <4>1
            <4>3. k # 1 => k - 1 \in 1..(m + 1) /\ k - 1 <= m
                BY <4>1
            <4>4. k # 1 => g[k - 1] = f[k - 1]
                BY <2>2, <4>3
            <4> QED BY <4>1, <4>2, <4>4
        <3>2. CASE ~(k <= m)
            <4>1. k = m + 1 /\ k - 1 = m
                BY <3>2
            <4>2. g[k] = IF k = 1 THEN index ELSE f[m] \div 2
                BY <2>2, <3>2
            <4>3. k # 1 => m \in 1..(m + 1) /\ m <= m
                BY <4>1
            <4>4. k # 1 => g[m] = f[m]
                BY <2>2, <4>3
            <4> QED BY <4>1, <4>2, <4>4
        <3> QED BY <3>1, <3>2
    <2>4. g = [k \in 1..(m + 1) |-> IF k = 1 THEN index ELSE g[k - 1] \div 2]
        BY <2>2, <2>3
    <2>5. m + 1 \in 0..n
        BY <1>2
    <2> QED BY <2>4, <2>5
<1> HIDE DEF S
<1>3. 0..n \subseteq S
    BY <1>1, <1>2, CountUp
<1>4. n \in S
    BY <1>3
<1>5. \E f : f = [k \in 1..n |-> IF k = 1 THEN index ELSE f[k - 1] \div 2]
    BY <1>4 DEF S
<1> QED BY <1>5 DEF PathUp

LEMMA PathUpAt ==
    ASSUME NEW index \in Nat, NEW n \in Nat
    PROVE  /\ PathUp(index, n) \in [1..n -> Nat]
           /\ n > 0 => PathUp(index, n)[1] = index
           /\ \A k \in 1..(n - 1) : PathUp(index, n)[k + 1] = PathUp(index, n)[k] \div 2
PROOF
<1>1. PICK f : f = PathUp(index, n)
    OBVIOUS
<1>2. f = [k \in 1..n |-> IF k = 1 THEN index ELSE f[k - 1] \div 2]
    BY <1>1, PathUpIs
<1>3. n > 0 => f[1] = index
    BY <1>2
<1>4. ASSUME NEW k \in 1..(n - 1) PROVE f[k + 1] = f[k] \div 2
    <2>1. k + 1 \in 1..n /\ k + 1 # 1 /\ k + 1 - 1 = k
        OBVIOUS
    <2> QED BY <1>2, <2>1
<1>5. ASSUME NEW k \in 1..n PROVE f[k] \in Nat
    <2> DEFINE S == {m \in 0..n : m = 0 \/ f[m] \in Nat}
    <2>1. 0 \in S
        OBVIOUS
    <2>2. ASSUME NEW m \in Nat, m < n, m \in S PROVE m + 1 \in S
        <3>1. CASE m = 0
            BY <1>3, <2>2, <3>1
        <3>2. CASE m # 0
            <4>1. m \in 1..(n - 1) /\ f[m] \in Nat
                BY <2>2, <3>2
            <4>2. f[m] \div 2 \in Nat
                BY <4>1
            <4> QED BY <1>4, <2>2, <4>1, <4>2
        <3> QED BY <3>1, <3>2
    <2> HIDE DEF S
    <2>3. 0..n \subseteq S
        BY <2>1, <2>2, CountUp
    <2>4. k \in S /\ k # 0
        BY <2>3
    <2> QED BY <2>4 DEF S
<1> QED BY <1>1, <1>2, <1>3, <1>4, <1>5

\* The hash a proof climbs to, step by step.
StepUp(cur, s) == IF s.left THEN NodeHash(s.hash, cur) ELSE NodeHash(cur, s.hash)
FoldIs(f, n, leaf, steps) ==
    f = [s \in SUBSET (1..n) |-> IF s = {} THEN leaf ELSE StepUp(f[s \ {Max(s)}], steps[Max(s)])]
LEMMA FoldStarts ==
    ASSUME NEW leaf, NEW steps
    PROVE  \E f : FoldIs(f, 0, leaf, steps)
PROOF
<1>1. PICK f : f = [s \in SUBSET (1..0) |-> leaf]
    OBVIOUS
<1>2. \A s \in SUBSET (1..0) : s = {}
    <2>1. 1..0 = {}
        OBVIOUS
    <2> QED BY <2>1
<1>3. FoldIs(f, 0, leaf, steps)
    BY <1>1, <1>2 DEF FoldIs
<1> QED BY <1>3

LEMMA FoldGrows ==
    ASSUME NEW m \in Nat, NEW leaf, NEW steps, NEW f, FoldIs(f, m, leaf, steps)
    PROVE  \E g : FoldIs(g, m + 1, leaf, steps)
PROOF
<1>1. PICK g : g = [s \in SUBSET (1..(m + 1)) |-> IF s \in SUBSET (1..m) THEN f[s] ELSE StepUp(f[s \ {m + 1}], steps[m + 1])]
    OBVIOUS
<1>2. \A s \in SUBSET (1..m) : s \in SUBSET (1..(m + 1)) /\ g[s] = f[s]
    <2>1. 1..m \subseteq 1..(m + 1)
        OBVIOUS
    <2> QED BY <1>1, <2>1
<1>3. ASSUME NEW s \in SUBSET (1..(m + 1)) PROVE g[s] = IF s = {} THEN leaf ELSE StepUp(g[s \ {Max(s)}], steps[Max(s)])
    <2>1. CASE s \in SUBSET (1..m)
        <3>1. g[s] = f[s]
            BY <1>2, <2>1
        <3>2. f[s] = IF s = {} THEN leaf ELSE StepUp(f[s \ {Max(s)}], steps[Max(s)])
            BY <2>1 DEF FoldIs
        <3>3. s \ {Max(s)} \in SUBSET (1..m)
            BY <2>1
        <3>4. g[s \ {Max(s)}] = f[s \ {Max(s)}]
            BY <1>2, <3>3
        <3> QED BY <3>1, <3>2, <3>4
    <2>2. CASE s \notin SUBSET (1..m)
        <3>1. m + 1 \in s
            <4>1. PICK x \in s : x \notin 1..m
                BY <2>2
            <4>2. x = m + 1
                BY <4>1
            <4> QED BY <4>1, <4>2
        <3>2. Max(s) \in s /\ \A y \in s : Max(s) >= y
            <4>1. m + 1 \in Nat /\ s # {}
                BY <3>1
            <4> QED BY <4>1, LastNumber
        <3>3. Max(s) \in 1..(m + 1) /\ Max(s) >= m + 1
            BY <3>1, <3>2
        <3>4. Max(s) = m + 1
            BY <3>3
        <3>5. s \ {m + 1} \in SUBSET (1..m)
            <4>1. ASSUME NEW x \in s, x # m + 1 PROVE x \in 1..m
                <5>1. x \in 1..(m + 1)
                    OBVIOUS
                <5> QED BY <4>1, <5>1
            <4> QED BY <4>1
        <3>6. g[s] = StepUp(f[s \ {m + 1}], steps[m + 1])
            BY <1>1, <2>2
        <3>7. g[s \ {m + 1}] = f[s \ {m + 1}]
            BY <1>2, <3>5
        <3> QED BY <3>1, <3>4, <3>6, <3>7
    <2> QED BY <2>1, <2>2
<1>4. FoldIs(g, m + 1, leaf, steps)
    <2>1. g = [s \in SUBSET (1..(m + 1)) |-> IF s = {} THEN leaf ELSE StepUp(g[s \ {Max(s)}], steps[Max(s)])]
        BY <1>1, <1>3
    <2> QED BY <2>1 DEF FoldIs
<1> QED BY <1>4

ClimbsBy(g, n, leaf, steps) ==
    /\ DOMAIN g = 0..n /\ g[0] = leaf /\ g[n] = Climb(leaf, steps)
    /\ \A k \in 1..n : g[k] = StepUp(g[k - 1], steps[k])
LEMMA ClimbIs ==
    ASSUME NEW n \in Nat, NEW steps, DOMAIN steps = 1..n, NEW leaf
    PROVE  \E g : ClimbsBy(g, n, leaf, steps)
PROOF
<1>1. \E f : FoldIs(f, n, leaf, steps)
    <2> DEFINE S == {m \in 0..n : \E f : FoldIs(f, m, leaf, steps)}
    <2>1. 0 \in S
        <3>1. 0 \in 0..n
            OBVIOUS
        <3>2. \E f : FoldIs(f, 0, leaf, steps)
            BY FoldStarts
        <3> QED BY <3>1, <3>2
    <2>2. ASSUME NEW m \in Nat, m < n, m \in S PROVE m + 1 \in S
        BY <2>2, FoldGrows
    <2> HIDE DEF S
    <2>3. 0..n \subseteq S
        BY <2>1, <2>2, CountUp
    <2>4. n \in S
        BY <2>3
    <2> QED BY <2>4 DEF S
<1>2. PICK f : f = CHOOSE iter : FoldIs(iter, n, leaf, steps)
    OBVIOUS
<1>3. FoldIs(f, n, leaf, steps)
    BY <1>1, <1>2
<1>4. Climb(leaf, steps) = f[1..n]
    BY <1>2 DEF Climb, FoldLeft, MapThenFoldSet, FoldIs, StepUp
<1>5. PICK g : g = [k \in 0..n |-> f[1..k]]
    OBVIOUS
<1>6. g[0] = leaf
    <2>1. 1..0 = {} /\ {} \in SUBSET (1..n)
        OBVIOUS
    <2>2. f[{}] = leaf
        BY <1>3, <2>1 DEF FoldIs
    <2> QED BY <1>5, <2>1, <2>2
<1>7. ASSUME NEW k \in 1..n PROVE g[k] = StepUp(g[k - 1], steps[k])
    <2>1. 1..k \in SUBSET (1..n) /\ 1..k # {}
        <3>1. 1 \in 1..k /\ \A x \in 1..k : x \in 1..n
            OBVIOUS
        <3> QED BY <3>1
    <2>2. Max(1..k) \in 1..k /\ \A y \in 1..k : Max(1..k) >= y
        <3>1. PICK T : T = 1..k
            OBVIOUS
        <3>2. k \in Nat /\ T \in SUBSET (1..k) /\ T # {}
            BY <2>1, <3>1
        <3>3. Max(T) \in T /\ \A y \in T : Max(T) >= y
            BY <3>2, LastNumber
        <3> QED BY <3>1, <3>3
    <2>3. Max(1..k) = k
        BY <2>2
    <2>4. (1..k) \ {k} = 1..(k - 1)
        OBVIOUS
    <2>5. f[1..k] = StepUp(f[1..(k - 1)], steps[k])
        BY <1>3, <2>1, <2>3, <2>4 DEF FoldIs
    <2>6. g[k] = f[1..k] /\ g[k - 1] = f[1..(k - 1)]
        BY <1>5
    <2> QED BY <2>5, <2>6
<1>8. DOMAIN g = 0..n /\ g[n] = f[1..n]
    BY <1>5
<1>9. ClimbsBy(g, n, leaf, steps)
    BY <1>4, <1>6, <1>7, <1>8 DEF ClimbsBy
<1> QED BY <1>9

\* The levels of a tree.
LEMMA SeqMade ==
    ASSUME NEW m \in Nat, NEW s, s = [i \in 1..m |-> s[i]]
    PROVE  IsSeq(s) /\ Len(s) = m /\ DOMAIN s = 1..m
PROOF
<1>1. PICK X : X = {s[i] : i \in 1..m}
    OBVIOUS
<1>2. s \in [1..m -> X]
    BY <1>1
<1>3. s \in Seq(X) /\ Len(s) = m
    BY <1>2
<1> QED BY <1>2, <1>3, SeqBack

LEMMA ParentsAre ==
    ASSUME NEW hs, IsSeq(hs), Len(hs) >= 1
    PROVE  /\ IsSeq(Parents(hs)) /\ Len(Parents(hs)) = (Len(hs) + 1) \div 2 /\ Len(Parents(hs)) >= 1
           /\ Len(hs) > 1 => Len(Parents(hs)) < Len(hs)
           /\ \A i \in 1..Len(Parents(hs)) :
                 Parents(hs)[i] = NodeHash(hs[2 * i - 1], IF 2 * i <= Len(hs) THEN hs[2 * i] ELSE hs[2 * i - 1])
PROOF
<1>1. PICK n \in Nat : n = Len(hs)
    BY DEF IsSeq
<1>2. PICK m \in Nat : m = (n + 1) \div 2
    BY <1>1
<1>3. m >= 1 /\ (n > 1 => m < n)
    BY <1>1, <1>2
<1>4. PICK p : p = Parents(hs)
    OBVIOUS
<1>5. p = [i \in 1..m |-> NodeHash(hs[2 * i - 1], IF 2 * i <= n THEN hs[2 * i] ELSE hs[2 * i - 1])]
    BY <1>1, <1>2, <1>4 DEF Parents
<1>6. p = [i \in 1..m |-> p[i]]
    BY <1>5
<1>7. IsSeq(p) /\ Len(p) = m
    BY <1>6, SeqMade
<1>8. \A i \in 1..m : p[i] = NodeHash(hs[2 * i - 1], IF 2 * i <= n THEN hs[2 * i] ELSE hs[2 * i - 1])
    BY <1>5
<1> QED BY <1>1, <1>2, <1>3, <1>4, <1>7, <1>8

LevelStep(sofar) == IF Len(Last(sofar)) > 1 THEN Append(sofar, Parents(Last(sofar))) ELSE sofar
LevelsIs(f, n, hs) == f = [k \in 0..n |-> IF k = 0 THEN <<hs>> ELSE LevelStep(f[k - 1])]
LEMMA BuiltExists ==
    ASSUME NEW n \in Nat, NEW hs
    PROVE  \E f : LevelsIs(f, n, hs)
PROOF
<1> DEFINE S == {m \in 0..n : \E f : LevelsIs(f, m, hs)}
<1>1. 0 \in S
    <2>1. PICK f : f = [k \in 0..0 |-> <<hs>>]
        OBVIOUS
    <2>2. LevelsIs(f, 0, hs)
        BY <2>1 DEF LevelsIs
    <2>3. 0 \in 0..n
        OBVIOUS
    <2> QED BY <2>2, <2>3
<1>2. ASSUME NEW m \in Nat, m < n, m \in S PROVE m + 1 \in S
    <2>1. PICK f : LevelsIs(f, m, hs)
        BY <1>2
    <2>2. PICK g : g = [k \in 0..(m + 1) |-> IF k <= m THEN f[k] ELSE LevelStep(f[m])]
        OBVIOUS
    <2>3. ASSUME NEW k \in 0..(m + 1) PROVE g[k] = IF k = 0 THEN <<hs>> ELSE LevelStep(g[k - 1])
        <3>1. CASE k <= m
            <4>1. k \in 0..m /\ g[k] = f[k]
                BY <2>2, <3>1
            <4>2. f[k] = IF k = 0 THEN <<hs>> ELSE LevelStep(f[k - 1])
                BY <2>1, <4>1 DEF LevelsIs
            <4>3. k # 0 => k - 1 \in 0..(m + 1) /\ k - 1 <= m
                BY <4>1
            <4>4. k # 0 => g[k - 1] = f[k - 1]
                BY <2>2, <4>3
            <4> QED BY <4>1, <4>2, <4>4
        <3>2. CASE ~(k <= m)
            <4>1. k = m + 1 /\ k - 1 = m /\ k # 0
                BY <3>2
            <4>2. g[k] = LevelStep(f[m])
                BY <2>2, <3>2
            <4>3. m \in 0..(m + 1) /\ m <= m
                OBVIOUS
            <4>4. g[m] = f[m]
                BY <2>2, <4>3
            <4> QED BY <4>1, <4>2, <4>4
        <3> QED BY <3>1, <3>2
    <2>4. g = [k \in 0..(m + 1) |-> IF k = 0 THEN <<hs>> ELSE LevelStep(g[k - 1])]
        BY <2>2, <2>3
    <2>5. LevelsIs(g, m + 1, hs)
        BY <2>4 DEF LevelsIs
    <2>6. m + 1 \in 0..n
        BY <1>2
    <2> QED BY <2>5, <2>6
<1> HIDE DEF S
<1>3. 0..n \subseteq S
    BY <1>1, <1>2, CountUp
<1>4. n \in S
    BY <1>3
<1> QED BY <1>4 DEF S

\* The levels built so far: each is made of the parents of the one below.
GoodLevels(L, hs) ==
    /\ IsSeq(L) /\ Len(L) >= 1 /\ L[1] = hs
    /\ \A k \in 1..Len(L) : IsSeq(L[k]) /\ Len(L[k]) >= 1
    /\ \A k \in 1..(Len(L) - 1) : L[k + 1] = Parents(L[k])

LEMMA TopOf ==
    ASSUME NEW L, NEW hs, GoodLevels(L, hs)
    PROVE  Len(Last(L)) \in Nat /\ Len(Last(L)) >= 1 /\ IsSeq(Last(L))
PROOF
<1>1. PICK m \in Nat : m = Len(L) /\ m >= 1
    BY DEF GoodLevels, IsSeq
<1>2. IsSeq(L[m]) /\ Len(L[m]) >= 1
    BY <1>1 DEF GoodLevels
<1>3. Last(L) = L[m]
    BY <1>1 DEF Last
<1> QED BY <1>2, <1>3 DEF IsSeq

LEMMA LevelStepIs ==
    ASSUME NEW L, NEW hs, GoodLevels(L, hs)
    PROVE  /\ GoodLevels(LevelStep(L), hs)
           /\ Len(Last(L)) > 1 => Len(Last(LevelStep(L))) < Len(Last(L))
           /\ Len(Last(L)) = 1 => Len(Last(LevelStep(L))) = 1
PROOF
<1>1. PICK m \in Nat : m = Len(L) /\ m >= 1
    BY DEF GoodLevels, IsSeq
<1>2. PICK top : top = Last(L) /\ top = L[m] /\ IsSeq(top) /\ Len(top) >= 1
    BY <1>1 DEF GoodLevels, Last
<1>3. CASE Len(top) > 1
    <2>1. PICK p : p = Parents(top)
        OBVIOUS
    <2>2. IsSeq(p) /\ Len(p) >= 1 /\ Len(p) < Len(top)
        BY <1>2, <1>3, <2>1, ParentsAre
    <2>3. PICK M : M = Append(L, p)
        OBVIOUS
    <2>4. LevelStep(L) = M
        BY <1>2, <1>3, <2>1, <2>3 DEF LevelStep
    <2>5. IsSeq(M) /\ Len(M) = m + 1 /\ \A i \in 1..m : M[i] = L[i]
        BY <1>1, <2>3, SeqAppend DEF GoodLevels
    <2>6. M[m + 1] = p
        BY <1>1, <2>3, SeqAppend DEF GoodLevels
    <2>7. Last(M) = p
        BY <2>5, <2>6 DEF Last
    <2>8. M[1] = hs
        BY <1>1, <2>5 DEF GoodLevels
    <2>9. \A k \in 1..m : IsSeq(L[k]) /\ Len(L[k]) >= 1
        BY <1>1 DEF GoodLevels
    <2>10. \A k \in 1..(m - 1) : L[k + 1] = Parents(L[k])
        BY <1>1 DEF GoodLevels
    <2>11. ASSUME NEW k \in 1..(m + 1) PROVE IsSeq(M[k]) /\ Len(M[k]) >= 1
        <3>1. CASE k \in 1..m
            BY <2>5, <2>9, <3>1
        <3>2. CASE k = m + 1
            BY <2>2, <2>6, <3>2
        <3> QED BY <1>1, <3>1, <3>2
    <2>12. ASSUME NEW k \in 1..m PROVE M[k + 1] = Parents(M[k])
        <3>1. CASE k \in 1..(m - 1)
            <4>1. k + 1 \in 1..m
                BY <1>1, <3>1
            <4> QED BY <2>5, <2>10, <3>1, <4>1
        <3>2. CASE k = m
            BY <1>2, <2>1, <2>5, <2>6, <3>2
        <3> QED BY <1>1, <3>1, <3>2
    <2>13. m + 1 >= 1 /\ m + 1 - 1 = m
        BY <1>1
    <2>14. GoodLevels(M, hs)
        BY <2>5, <2>8, <2>11, <2>12, <2>13 DEF GoodLevels
    <2>15. Len(top) # 1
        <3>1. PICK t \in Nat : t = Len(top)
            BY <1>2 DEF IsSeq
        <3>2. t > 1
            BY <1>3, <3>1
        <3>3. t # 1
            BY <3>2
        <3> QED BY <3>1, <3>3
    <2> QED BY <1>2, <1>3, <2>2, <2>4, <2>7, <2>14, <2>15
<1>4. CASE ~(Len(top) > 1)
    <2>1. LevelStep(L) = L
        BY <1>2, <1>4 DEF LevelStep
    <2> QED BY <1>2, <1>4, <2>1
<1> QED BY <1>3, <1>4

\* The loop ends with one node.
LEMMA LevelsAre ==
    ASSUME NEW hs, IsSeq(hs), Len(hs) >= 1
    PROVE  GoodLevels(Levels(hs), hs) /\ Len(Last(Levels(hs))) = 1
PROOF
<1>1. PICK n \in Nat : n = Len(hs) /\ n >= 1
    BY DEF IsSeq
<1>2. PICK f : f = CHOOSE built : LevelsIs(built, n, hs)
    OBVIOUS
<1>3. LevelsIs(f, n, hs)
    BY <1>2, BuiltExists
<1>4. Levels(hs) = f[n]
    BY <1>1, <1>2 DEF Levels, LevelsIs, LevelStep
<1> DEFINE Fine(k) == GoodLevels(f[k], hs) /\ (Len(Last(f[k])) = 1 \/ Len(Last(f[k])) <= n - k)
           S == {k \in 0..n : Fine(k)}
<1>5. 0 \in S
    <2>1. f[0] = <<hs>>
        BY <1>3 DEF LevelsIs
    <2>2. IsSeq(<<hs>>) /\ Len(<<hs>>) = 1 /\ <<hs>>[1] = hs
        BY SeqOne
    <2>3. PICK L : L = <<hs>>
        OBVIOUS
    <2>4. IsSeq(L) /\ Len(L) = 1 /\ L[1] = hs
        BY <2>2, <2>3
    <2>5. \A k \in 1..1 : IsSeq(L[k]) /\ Len(L[k]) >= 1
        BY <2>4
    <2>6. \A k \in 1..0 : L[k + 1] = Parents(L[k])
        OBVIOUS
    <2>7. GoodLevels(L, hs)
        BY <2>4, <2>5, <2>6 DEF GoodLevels
    <2>8. Last(L) = hs
        BY <2>4 DEF Last
    <2>9. Fine(0)
        BY <1>1, <2>1, <2>3, <2>7, <2>8
    <2> QED BY <1>1, <2>9
<1>6. ASSUME NEW k \in Nat, k < n, k \in S PROVE k + 1 \in S
    <2>1. k + 1 \in 0..n /\ k + 1 # 0 /\ k + 1 - 1 = k
        BY <1>6
    <2>2. f[k + 1] = LevelStep(f[k])
        BY <1>3, <2>1 DEF LevelsIs
    <2>3. PICK L, M : L = f[k] /\ M = f[k + 1]
        OBVIOUS
    <2>4. GoodLevels(L, hs) /\ (Len(Last(L)) = 1 \/ Len(Last(L)) <= n - k)
        BY <1>6, <2>3
    <2>5. M = LevelStep(L)
        BY <2>2, <2>3
    <2>6. /\ GoodLevels(M, hs)
          /\ Len(Last(L)) > 1 => Len(Last(M)) < Len(Last(L))
          /\ Len(Last(L)) = 1 => Len(Last(M)) = 1
        BY <2>4, <2>5, LevelStepIs
    <2>7. PICK a \in Nat, b \in Nat : a = Len(Last(L)) /\ b = Len(Last(M)) /\ a >= 1
        <3>1. Len(Last(L)) \in Nat /\ Len(Last(L)) >= 1
            BY <2>4, TopOf
        <3>2. Len(Last(M)) \in Nat
            BY <2>6, TopOf
        <3> QED BY <3>1, <3>2
    <2>8. b = 1 \/ b <= n - (k + 1)
        BY <2>4, <2>6, <2>7
    <2>9. Fine(k + 1)
        BY <2>3, <2>6, <2>7, <2>8
    <2> QED BY <2>1, <2>9
<1> HIDE DEF S
<1>7. 0..n \subseteq S
    BY <1>5, <1>6, CountUp
<1>8. n \in S
    BY <1>7
<1>9. Fine(n)
    BY <1>8 DEF S
<1>10. Len(Last(f[n])) \in Nat /\ Len(Last(f[n])) >= 1
    BY <1>9, TopOf
<1>11. Len(Last(f[n])) = 1
    BY <1>9, <1>10
<1> QED BY <1>4, <1>9, <1>11

\* One step of the path: the node above is the parent of the one below.
LEMMA ProofStepUp ==
    ASSUME NEW hs, IsSeq(hs), Len(hs) >= 1, NEW a \in Nat, a < Len(hs)
    PROVE  LET sibling == IF a % 2 = 0 THEN a + 1 ELSE a - 1
               step    == [left |-> a % 2 = 1, hash |-> IF sibling < Len(hs) THEN hs[sibling + 1] ELSE hs[a + 1]]
           IN /\ a \div 2 \in Nat /\ a \div 2 < Len(Parents(hs))
              /\ StepUp(hs[a + 1], step) = Parents(hs)[a \div 2 + 1]
PROOF
<1> DEFINE sibling == IF a % 2 = 0 THEN a + 1 ELSE a - 1
           step    == [left |-> a % 2 = 1, hash |-> IF sibling < Len(hs) THEN hs[sibling + 1] ELSE hs[a + 1]]
<1>1. PICK n \in Nat : n = Len(hs) /\ n >= 1 /\ a < n
    BY DEF IsSeq
<1>2. PICK p : p = Parents(hs)
    OBVIOUS
<1>3. Len(p) = (n + 1) \div 2
      /\ \A i \in 1..Len(p) : p[i] = NodeHash(hs[2 * i - 1], IF 2 * i <= n THEN hs[2 * i] ELSE hs[2 * i - 1])
    BY <1>1, <1>2, ParentsAre
<1>4. PICK q \in Nat : q = a \div 2
    OBVIOUS
<1>5. q < (n + 1) \div 2
    BY <1>1, <1>4
<1>6. q + 1 \in 1..((n + 1) \div 2)
    BY <1>1, <1>5
<1>7. p[q + 1] = NodeHash(hs[2 * (q + 1) - 1], IF 2 * (q + 1) <= n THEN hs[2 * (q + 1)] ELSE hs[2 * (q + 1) - 1])
    BY <1>3, <1>6
<1>8. CASE a % 2 = 0
    <2>1. a = 2 * q
        BY <1>4, <1>8
    <2>2. 2 * (q + 1) - 1 = a + 1 /\ 2 * (q + 1) = a + 2
        BY <2>1
    <2>3. p[q + 1] = NodeHash(hs[a + 1], IF a + 2 <= n THEN hs[a + 2] ELSE hs[a + 1])
        BY <1>7, <2>2
    <2>4. sibling = a + 1 /\ sibling + 1 = a + 2 /\ (sibling < n <=> a + 2 <= n)
        BY <1>1, <1>8
    <2>5. step.hash = IF a + 2 <= n THEN hs[a + 2] ELSE hs[a + 1]
        BY <1>1, <2>4
    <2>6. ~step.left
        <3>1. step.left <=> a % 2 = 1
            OBVIOUS
        <3>2. a % 2 # 1
            BY <1>8
        <3> QED BY <3>1, <3>2
    <2> HIDE DEF step, sibling
    <2>7. StepUp(hs[a + 1], step) = NodeHash(hs[a + 1], step.hash)
        BY <2>6 DEF StepUp
    <2>8. StepUp(hs[a + 1], step) = p[q + 1]
        BY <2>3, <2>5, <2>7
    <2> QED BY <1>1, <1>2, <1>3, <1>4, <1>5, <2>8 DEF step, sibling
<1>9. CASE a % 2 = 1
    <2>1. a = 2 * q + 1
        BY <1>4, <1>9
    <2>2. 2 * (q + 1) - 1 = a /\ 2 * (q + 1) = a + 1 /\ a + 1 <= n
        BY <1>1, <2>1
    <2>3. p[q + 1] = NodeHash(hs[a], hs[a + 1])
        BY <1>7, <2>2
    <2>4. sibling = a - 1 /\ sibling + 1 = a /\ sibling < n
        BY <1>1, <1>9
    <2>5. step.hash = hs[a]
        BY <1>1, <2>4
    <2>6. step.left = TRUE
        BY <1>9
    <2> HIDE DEF step, sibling
    <2>7. StepUp(hs[a + 1], step) = NodeHash(step.hash, hs[a + 1])
        BY <2>6 DEF StepUp
    <2>8. StepUp(hs[a + 1], step) = p[q + 1]
        BY <2>3, <2>5, <2>7
    <2> QED BY <1>1, <1>2, <1>3, <1>4, <1>5, <2>8 DEF step, sibling
<1>10. a % 2 = 0 \/ a % 2 = 1
    OBVIOUS
<1> HIDE DEF step, sibling
<1> QED BY <1>8, <1>9, <1>10 DEF step, sibling

\* Every record of a sealed batch has a proof to its root, whatever their
\* number (merkle.rs inclusion_proof, from_hashed_leaves; verify
\* verify_merkle_proof).
THEOREM ProofsVerify ==
    ASSUME NEW hs, IsSeq(hs), Len(hs) >= 1, NEW i \in 1..Len(hs)
    PROVE  VerifyMerkleProof(hs[i], InclusionProof(FromHashedLeaves(hs), i - 1), Root(FromHashedLeaves(hs)))
PROOF
<1>1. PICK L : L = FromHashedLeaves(hs)
    OBVIOUS
<1>2. hs # <<>>
    BY SeqEmpty
<1>3. L = Levels(hs)
    BY <1>1, <1>2 DEF FromHashedLeaves
<1>4. GoodLevels(L, hs) /\ Len(Last(L)) = 1
    BY <1>3, LevelsAre
<1>5. PICK m \in Nat : m = Len(L) /\ m >= 1
    BY <1>4 DEF GoodLevels, IsSeq
<1>6. PICK at : at = PathUp(i - 1, m)
    OBVIOUS
<1>7. i - 1 \in Nat
    BY DEF IsSeq
<1>8. at \in [1..m -> Nat] /\ at[1] = i - 1 /\ \A k \in 1..(m - 1) : at[k + 1] = at[k] \div 2
    <2>1. PICK a \in Nat : a = i - 1
        BY <1>7
    <2>2. /\ PathUp(a, m) \in [1..m -> Nat]
          /\ m > 0 => PathUp(a, m)[1] = a
          /\ \A k \in 1..(m - 1) : PathUp(a, m)[k + 1] = PathUp(a, m)[k] \div 2
        BY PathUpAt
    <2>3. at = PathUp(a, m) /\ m > 0
        BY <1>5, <1>6, <2>1
    <2> QED BY <2>1, <2>2, <2>3
<1>9. PICK steps : steps = InclusionProof(L, i - 1)
    OBVIOUS
<1>10. DOMAIN steps = 1..(m - 1)
       /\ \A k \in 1..(m - 1) :
            steps[k] = LET sibling == IF at[k] % 2 = 0 THEN at[k] + 1 ELSE at[k] - 1
                       IN [left |-> at[k] % 2 = 1,
                           hash |-> IF sibling < Len(L[k]) THEN L[k][sibling + 1] ELSE L[k][at[k] + 1]]
    BY <1>5, <1>6, <1>9 DEF InclusionProof
<1>11. m - 1 \in Nat
    BY <1>5
<1>12. PICK g : /\ DOMAIN g = 0..(m - 1) /\ g[0] = hs[i] /\ g[m - 1] = Climb(hs[i], steps)
                /\ \A k \in 1..(m - 1) : g[k] = StepUp(g[k - 1], steps[k])
    <2>0. PICK leaf : leaf = hs[i]
        OBVIOUS
    <2>1. PICK n \in Nat : n = m - 1
        BY <1>11
    <2>2. DOMAIN steps = 1..n
        BY <1>10, <2>1
    <2>3. PICK g : ClimbsBy(g, n, leaf, steps)
        BY <2>2, ClimbIs
    <2>4. /\ DOMAIN g = 0..(m - 1) /\ g[0] = hs[i] /\ g[m - 1] = Climb(hs[i], steps)
          /\ \A k \in 1..(m - 1) : g[k] = StepUp(g[k - 1], steps[k])
        BY <2>0, <2>1, <2>3 DEF ClimbsBy
    <2> QED BY <2>4
<1> DEFINE Fine(k) == at[k + 1] < Len(L[k + 1]) /\ g[k] = L[k + 1][at[k + 1] + 1]
           S == {k \in 0..(m - 1) : Fine(k)}
<1>13. 0 \in S
    <2>1. L[1] = hs /\ i - 1 + 1 = i
        BY <1>4 DEF GoodLevels, IsSeq
    <2>2. at[0 + 1] = i - 1 /\ L[0 + 1] = hs
        BY <1>8, <2>1
    <2>3. i - 1 < Len(hs)
        BY DEF IsSeq
    <2>4. Fine(0)
        BY <1>12, <2>1, <2>2, <2>3
    <2> QED BY <1>11, <2>4
<1>14. ASSUME NEW k \in Nat, k < m - 1, k \in S PROVE k + 1 \in S
    <2>1. k + 1 \in 1..(m - 1) /\ k + 1 \in 1..m /\ k + 1 \in 0..(m - 1) /\ k + 1 - 1 = k
        BY <1>5, <1>14
    <2>2. PICK lo, up, a : lo = L[k + 1] /\ up = L[k + 1 + 1] /\ a = at[k + 1]
        OBVIOUS
    <2>3. IsSeq(lo) /\ Len(lo) >= 1 /\ up = Parents(lo)
        BY <1>4, <1>5, <2>1, <2>2 DEF GoodLevels
    <2>4. a \in Nat /\ a < Len(lo) /\ g[k] = lo[a + 1]
        BY <1>8, <1>14, <2>1, <2>2
    <2>5. at[k + 1 + 1] = a \div 2
        BY <1>8, <2>1, <2>2
    <2>6. PICK step : step = [left |-> a % 2 = 1,
                              hash |-> IF (IF a % 2 = 0 THEN a + 1 ELSE a - 1) < Len(lo)
                                       THEN lo[(IF a % 2 = 0 THEN a + 1 ELSE a - 1) + 1] ELSE lo[a + 1]]
        OBVIOUS
    <2>7. a \div 2 < Len(up) /\ StepUp(lo[a + 1], step) = up[a \div 2 + 1]
        BY <2>3, <2>4, <2>6, ProofStepUp
    <2>8. steps[k + 1] = step
        BY <1>10, <2>1, <2>2, <2>6
    <2>9. g[k + 1] = StepUp(g[k], steps[k + 1])
        BY <1>12, <2>1
    <2>10. g[k + 1] = up[a \div 2 + 1]
        BY <2>4, <2>7, <2>8, <2>9
    <2>11. Fine(k + 1)
        BY <2>2, <2>5, <2>7, <2>10
    <2> QED BY <2>1, <2>11
<1> HIDE DEF S
<1>15. 0..(m - 1) \subseteq S
    BY <1>11, <1>13, <1>14, CountUp
<1>16. m - 1 \in S /\ m - 1 + 1 = m
    BY <1>11, <1>15
<1>17. at[m] < Len(L[m]) /\ g[m - 1] = L[m][at[m] + 1]
    BY <1>16 DEF S
<1>18. Last(L) = L[m]
    BY <1>5 DEF Last
<1>19. at[m] = 0
    <2>1. at[m] \in Nat
        BY <1>5, <1>8
    <2> QED BY <1>4, <1>17, <1>18, <2>1
<1>20. Root(L) = L[m][1]
    BY <1>18 DEF Root
<1>21. Climb(hs[i], steps) = L[m][1]
    BY <1>12, <1>17, <1>19
<1> QED BY <1>1, <1>9, <1>20, <1>21 DEF VerifyMerkleProof

(***************************************************************************)
(* The bounds, and the days a certification is valid for.                  *)
(***************************************************************************)
LEMMA RemainderUnique ==
    ASSUME NEW T \in Nat, T > 0, NEW p \in Int, NEW q \in Int, NEW a \in 0..(T - 1), NEW b \in 0..(T - 1),
           T * p + a = T * q + b
    PROVE  a = b
PROOF
<1>1. ASSUME NEW x \in Int, NEW y \in Int, NEW c \in 0..(T - 1), NEW d \in 0..(T - 1), T * x + c = T * y + d, x < y
      PROVE  FALSE
    <2>1. y >= x + 1
        BY <1>1
    <2>2. T * y >= T * (x + 1)
        BY <2>1
    <2>3. T * (x + 1) = T * x + T /\ T * x \in Int /\ T * y \in Int
        OBVIOUS
    <2> QED BY <1>1, <2>2, <2>3
<1>2. ~ (p < q) /\ ~ (q < p)
    BY <1>1
<1>3. p = q
    BY <1>2
<1>4. T * p = T * q /\ T * p \in Int
    BY <1>3
<1> QED BY <1>4

Term == Policy.days * DayTicks
LEMMA DaysLater ==
    ASSUME NEW t \in Nat
    PROVE  Term \in Nat /\ Term > 0 /\ Rfc3339(t + Term) = Rfc3339(t) + Term
PROOF
<1> DEFINE T == TicksPerSecond
           D == DayTicks
<1>1. T \in Nat /\ T > 0 /\ D \in Nat /\ D > 0 /\ D % T = 0
    BY TicksAssumption, ReleaseAssumption
<1>2. Term = D
    <2>1. Policy.days = 1
        BY DEF Policy
    <2> QED BY <1>1, <2>1 DEF Term
<1>3. PICK d \in Int : D = T * d
    <2>1. D = T * (D \div T) + (D % T) /\ D \div T \in Int
        BY <1>1
    <2>2. D = T * (D \div T)
        BY <1>1, <2>1
    <2> QED BY <2>1, <2>2
<1>4. PICK q \in Int : t = T * q + (t % T)
    <2>1. t = T * (t \div T) + (t % T) /\ t \div T \in Int
        BY <1>1
    <2> QED BY <2>1
<1>5. PICK s \in Nat : s = t + D
    BY <1>1
<1>6. PICK r \in Int : s = T * r + (s % T)
    <2>1. s = T * (s \div T) + (s % T) /\ s \div T \in Int
        BY <1>1
    <2> QED BY <2>1
<1>7. t % T \in 0..(T - 1) /\ s % T \in 0..(T - 1)
    BY <1>1
<1>8. T * (q + d) = T * q + T * d /\ T * q \in Int /\ T * d \in Int /\ q + d \in Int
    BY <1>1
<1>9. T * r + (s % T) = T * (q + d) + (t % T)
    BY <1>3, <1>4, <1>5, <1>6, <1>7, <1>8
<1>10. s % T = t % T
    BY <1>1, <1>7, <1>8, <1>9, RemainderUnique
<1>11. Rfc3339(s) = Rfc3339(t) + D
    <2>1. Rfc3339(s) = s - (s % T) /\ Rfc3339(t) = t - (t % T)
        BY DEF Rfc3339
    <2> QED BY <1>1, <1>5, <1>7, <1>10, <2>1
<1> QED BY <1>1, <1>2, <1>5, <1>11

\* A certification is for the days of its policy, and the bounds of the model hold.
InTerm(e) ==
    LET c == e.payload.certification
    IN c.until = c.issued + Term
BoundsInv ==
    /\ instant <= MaxInstant /\ Len(history) <= MaxEvents /\ Len(issued) <= MaxCertifications
    /\ \A i \in 1..Len(issued) : InTerm(issued[i])

LEMMA CertifyInTerm ==
    ASSUME ReleaseInv, BoundsInv, NEW env, NEW run \in {1, 2}, NEW key \in {IssuerKey, ExporterKey}, Certify(env, run, key)
    PROVE  BoundsInv'
PROOF
<1> DEFINE until == Rfc3339(instant + Policy.days * DayTicks)
           c == CertificationOf(env, run, Rfc3339(instant), until)
           e == Sign(StatementOf(c), key, Keyid(key))
<1>1. instant \in Nat /\ IsSeq(issued) /\ Len(issued) \in Nat /\ IssuedInv
    BY DEF ReleaseInv, IssuedInv, IsSeq
<1>2. issued' = Append(issued, e) /\ UNCHANGED <<instant, history>> /\ Len(issued) < MaxCertifications
    BY DEF Certify, Issue
<1>3. c.issued = Rfc3339(instant) /\ c.until = until
    BY DEF CertificationOf
<1> HIDE DEF c
<1>4. e.payload.certification = c
    BY DEF Sign, StatementOf
<1>5. until = Rfc3339(instant) + Term
    BY <1>1, DaysLater DEF Term
<1> HIDE DEF e, until
<1>6. InTerm(e)
    BY <1>3, <1>4, <1>5 DEF InTerm
<1>7. /\ Len(issued') = Len(issued) + 1 /\ \A i \in 1..Len(issued) : issued'[i] = issued[i]
      /\ issued'[Len(issued) + 1] = e
    BY <1>1, <1>2, SeqAppend
<1>8. \A i \in 1..Len(issued') : i \in 1..Len(issued) \/ i = Len(issued) + 1
    BY <1>1, <1>7
<1>9. \A i \in 1..Len(issued') : InTerm(issued'[i])
    BY <1>6, <1>7, <1>8 DEF BoundsInv
<1>10. Len(issued') <= MaxCertifications
    BY <1>1, <1>2, <1>7, ReleaseAssumption
<1> QED BY <1>2, <1>9, <1>10 DEF BoundsInv

LEMMA BoundsStep == ReleaseInv /\ BoundsInv /\ [ReleaseNext]_releaseVars => BoundsInv'
PROOF
<1> SUFFICES ASSUME ReleaseInv, BoundsInv, [ReleaseNext]_releaseVars PROVE BoundsInv'
    OBVIOUS
<1>1. ASSUME NEW c \in Certifiable, Certify(c[1], c[2], c[3]) PROVE BoundsInv'
    BY <1>1, CertifyInTerm, CertifiableIs
<1>2. ASSUME NEW events, Record(events) PROVE BoundsInv'
    <2>1. history' = history \o events /\ Len(history \o events) <= MaxEvents /\ UNCHANGED <<instant, issued>>
        BY <1>2 DEF Record
    <2> QED BY <2>1 DEF BoundsInv
<1>3. CASE Register
    BY <1>2, <1>3 DEF Register
<1>4. ASSUME NEW env \in Environments, NEW glass \in BOOLEAN, Promote(env, glass) PROVE BoundsInv'
    BY <1>2, <1>4 DEF Promote
<1>5. ASSUME NEW env \in Environments, Supersede(env) PROVE BoundsInv'
    BY <1>2, <1>5 DEF Supersede
<1>6. ASSUME NEW i \in DOMAIN issued, Revoke(i) PROVE BoundsInv'
    BY <1>2, <1>6 DEF Revoke
<1>7. ASSUME NEW env \in Environments, NEW action \in {"alert", "revoke"}, Breach(env, action) PROVE BoundsInv'
    BY <1>2, <1>7 DEF Breach
<1>8. ASSUME NEW way \in Ways, Export(way) PROVE BoundsInv'
    BY <1>8 DEF Export, BoundsInv
<1>9. CASE Tick
    <2>1. instant \in Nat
        BY DEF ReleaseInv, IssuedInv
    <2>2. instant < MaxInstant /\ instant' = instant + 1 /\ UNCHANGED <<history, issued>>
        BY <1>9 DEF Tick
    <2>3. instant' <= MaxInstant
        BY <2>1, <2>2, ReleaseAssumption
    <2> QED BY <2>2, <2>3 DEF BoundsInv
<1>10. CASE UNCHANGED releaseVars
    BY <1>10 DEF releaseVars, BoundsInv
<1> QED BY <1>1, <1>3, <1>4, <1>5, <1>6, <1>7, <1>8, <1>9, <1>10 DEF ReleaseNext

LEMMA BoundsInvariant == ReleaseSpec => [](ReleaseInv /\ BoundsInv)
PROOF
<1>1. ReleaseInit => BoundsInv
    <2> SUFFICES ASSUME ReleaseInit PROVE BoundsInv
        OBVIOUS
    <2>1. instant = 0 /\ history = <<>> /\ issued = <<>>
        BY DEF ReleaseInit
    <2>2. Len(<<>>) = 0 /\ 1..0 = {}
        BY SeqEmpty
    <2> QED BY <2>1, <2>2, ReleaseAssumption DEF BoundsInv
<1> QED BY <1>1, ReleaseInitInv, ReleaseStep, BoundsStep, PTL DEF ReleaseSpec

LEMMA TypesHold == ReleaseInv /\ BoundsInv => ReleaseTypeOK
PROOF
<1> SUFFICES ASSUME ReleaseInv, BoundsInv PROVE ReleaseTypeOK
    OBVIOUS
<1>1. instant \in 0..MaxInstant
    BY ReleaseAssumption DEF ReleaseInv, IssuedInv, BoundsInv
<1>2. \E env \in Deployable : pointer \in [{env} -> {"none", This, "other"}]
    BY DEF ReleaseInv, PointerInv
<1>3. DOMAIN history = 1..Len(history) /\ DOMAIN issued = 1..Len(issued)
    BY DEF ReleaseInv, HistoryInv, IssuedInv, IsSeq
<1>4. \A i \in DOMAIN history : history[i].at \in 0..instant
    BY <1>1, <1>3 DEF ReleaseInv, HistoryInv
<1>5. ASSUME NEW i \in DOMAIN issued
      PROVE  LET c == issued[i].payload.certification
             IN c.issued \in 0..instant /\ c.issued = Rfc3339(c.issued) /\ c.until = Rfc3339(c.issued + Policy.days * DayTicks)
    <2> DEFINE c == issued[i].payload.certification
    <2>1. c.issued \in Nat /\ c.issued <= instant /\ Rfc3339(c.issued) = c.issued
        BY <1>3 DEF ReleaseInv, IssuedInv, Certificate
    <2>2. c.until = c.issued + Term
        BY <1>3 DEF BoundsInv, InTerm
    <2> HIDE DEF c
    <2>3. Rfc3339(c.issued + Term) = c.issued + Term
        BY <2>1, DaysLater
    <2>4. c.issued \in 0..instant
        BY <1>1, <2>1
    <2> QED BY <2>1, <2>2, <2>3, <2>4 DEF c, Term
<1> QED BY <1>1, <1>2, <1>4, <1>5 DEF ReleaseTypeOK, BoundsInv

(***************************************************************************)
(* An honest pack passes: what it holds.                                   *)
(***************************************************************************)
LEMMA FaithfulTold ==
    ASSUME ReleaseInv, Exported, ToldInOrder
    PROVE  /\ Told.manifest = ThisManifest /\ Told.runs = Evaluations /\ Told.certs = issued
           /\ Told.exports \in {<<>>, <<SealedExport>>}
PROOF
<1>1. /\ Told.manifest = ThisManifest /\ Told.runs = RunsTold(file.way)
      /\ Told.certs = CertsTold(file.way) /\ Told.exports = ExportsTold(file.way)
    BY ToldIs
<1>2. file.way[1] \in {"complete", "newest first", "with a ledger"}
    BY DEF ToldInOrder, Faithful
<1>3. RunsTold(file.way) = Evaluations /\ CertsTold(file.way) = issued
    BY <1>2 DEF RunsTold, CertsTold
<1>4. ExportsTold(file.way) \in {<<>>, <<SealedExport>>}
    BY <1>2 DEF ExportsTold
<1> HIDE DEF Told
<1> QED BY <1>1, <1>3, <1>4

LEMMA NothingFailed ==
    ASSUME NEW chain, NEW n \in Nat, DOMAIN chain = 1..n, FirstFailure(chain) = "ok", \A i \in 1..n : chain[i][2] # "ok"
    PROVE  \A i \in 1..n : ~chain[i][1]
PROOF
<1> SUFFICES ASSUME Failing(chain) # {} PROVE FALSE
    BY DEF Failing
<1>1. Failing(chain) \in SUBSET Nat
    BY DEF Failing
<1>2. \E i \in Failing(chain) : \A j \in Failing(chain) : i <= j
    BY <1>1, LeastNumber
<1> DEFINE first == CHOOSE i \in Failing(chain) : \A j \in Failing(chain) : i <= j
<1>3. first \in Failing(chain)
    BY <1>2
<1>4. FirstFailure(chain) = chain[first][2]
    BY DEF FirstFailure
<1> QED BY <1>3, <1>4 DEF Failing

\* The builder refuses events of after the pack, and a pack without a registration.
BuildChain(in) ==
    LET release == in.manifest.hash
    IN <<<<~in.manifest.certifiable, "InvalidManifest">>,
         <<Bad(in.runs, LAMBDA r : r.release # release), "RunNotForRelease">>,
         <<Bad(in.runs, LAMBDA r : ~ValidRun(r)), "InvalidRun">>,
         <<Bad(in.certs, LAMBDA e : ~Decodes(e) \/ e.payload.subject # release), "CertificationNotForRelease">>,
         <<Bad(in.events, LAMBDA e : e.at > in.created), "BadTimestamp">>,
         <<Bad(in.exports, LAMBDA b : ReleaseHops(b, release) = {}), "Ledger">>,
         <<\E i \in DOMAIN in.exports : Overlap(in.exports, i), "Ledger">>,
         <<OfKind(in.events, "registered") = {}, "MissingRegistration">> >>
LEMMA BuiltMeans ==
    ASSUME NEW in, BuildProblem(in) = "ok"
    PROVE  /\ \A i \in DOMAIN in.events : ~ (in.events[i].at > in.created)
           /\ OfKind(in.events, "registered") # {}
PROOF
<1> DEFINE chain == BuildChain(in)
<1>1. BuildProblem(in) = FirstFailure(chain)
    BY DEF BuildProblem, BuildChain
<1>2. DOMAIN chain = 1..8
    BY DEF BuildChain
<1>3. /\ chain[1][2] = "InvalidManifest" /\ chain[2][2] = "RunNotForRelease" /\ chain[3][2] = "InvalidRun"
      /\ chain[4][2] = "CertificationNotForRelease" /\ chain[5][2] = "BadTimestamp" /\ chain[6][2] = "Ledger"
      /\ chain[7][2] = "Ledger" /\ chain[8][2] = "MissingRegistration"
    BY DEF BuildChain
<1>4. chain[5][1] = Bad(in.events, LAMBDA e : e.at > in.created) /\ chain[8][1] = (OfKind(in.events, "registered") = {})
    BY DEF BuildChain
<1> HIDE DEF chain
<1>5. \A i \in 1..8 : chain[i][2] # "ok"
    BY <1>3
<1>6. \A i \in 1..8 : ~chain[i][1]
    BY <1>1, <1>2, <1>5, NothingFailed
<1>7. ~chain[5][1] /\ ~chain[8][1]
    BY <1>6
<1> QED BY <1>4, <1>7 DEF Bad

LEMMA CreatedTold ==
    ASSUME ReleaseInv, Exported, ToldInOrder
    PROVE  /\ Told.created \in Nat /\ Told.created <= instant
           /\ \A k \in 1..Len(history) : history[k].at <= Told.created
           /\ history # <<>>
           /\ file.pack.keyid = Keyid(ExporterKey) /\ file.pack.sig = Signed(ExporterKey, Told)
PROOF
<1>1. PICK created \in 0..instant : /\ file.way \in Ways /\ BuildProblem(InputTold(file.way, created)) = "ok"
                                    /\ file.pack = PackTold(file.way, created)
    BY DEF ReleaseInv, FileInv
<1>2. PICK way : way = file.way
    OBVIOUS
<1>3. PICK es : es = EventsTold(way)
    OBVIOUS
<1>4. instant \in Nat /\ created \in Nat /\ created <= instant
    BY DEF ReleaseInv, IssuedInv
<1>5. Told.created = created /\ file.pack.keyid = Keyid(ExporterKey) /\ file.pack.sig = Signed(ExporterKey, Told)
    BY <1>1 DEF Told, PackTold, SpecTold
<1>6. PICK in : in = InputTold(way, created)
    OBVIOUS
<1>7. in.events = es /\ in.created = created
    BY <1>3, <1>6 DEF InputTold
<1>8. (\A i \in DOMAIN es : ~ (es[i].at > created)) /\ OfKind(es, "registered") # {}
    BY <1>1, <1>2, <1>6, <1>7, BuiltMeans
<1>9. /\ IsSeq(es)
      /\ \A i \in 1..Len(es) :
            \/ \E j \in 1..Len(history) : es[i] = history[j]
            \/ way[1] = "a promotion more" /\ es[i] = ReleasePromoted(way[2], CertifiedEnvironment, "none", FALSE)
      /\ \A j \in 1..Len(history) : (way[1] = "no event" /\ way[2] = j) \/ \E i \in 1..Len(es) : es[i] = history[j]
    BY <1>1, <1>2, <1>3, EventsToldAre
<1>10. way[1] \in {"complete", "newest first", "with a ledger"}
    BY <1>2 DEF ToldInOrder, Faithful
<1>11. way[1] # "no event" /\ way[1] # "a promotion more"
    BY <1>10
<1>12. DOMAIN es = 1..Len(es)
    BY <1>9 DEF IsSeq
<1>13. \A j \in 1..Len(history) : history[j].at \in Nat
    BY DEF ReleaseInv, HistoryInv
<1>14. \A j \in 1..Len(history) : \E i \in 1..Len(es) : es[i] = history[j]
    BY <1>9, <1>11
<1>15. \A j \in 1..Len(history) : ~ (history[j].at > created)
    BY <1>8, <1>12, <1>14
<1>16. \A j \in 1..Len(history) : history[j].at <= created
    BY <1>4, <1>13, <1>15
<1>17. history # <<>>
    <2>1. PICK i \in 1..Len(es) : TRUE
        BY <1>8, <1>12 DEF OfKind
    <2>2. PICK j \in 1..Len(history) : es[i] = history[j]
        BY <1>9, <1>11
    <2>3. Len(<<>>) = 0 /\ 1..0 = {}
        BY SeqEmpty
    <2> QED BY <2>2, <2>3
<1> HIDE DEF Told
<1> QED BY <1>4, <1>5, <1>16, <1>17

(***************************************************************************)
(* An honest pack passes: one check after the other.                       *)
(***************************************************************************)
LEMMA RolesPass == CheckRoles(Proper) = {}
PROOF
<1> DEFINE ks == Proper.keys
<1>1. ks["exporter"] = {ExporterKey} /\ ks["ledger"] = {LedgerSignerKey} /\ ks["issuer"] = {IssuerKey}
    BY DEF Proper, OptionsWith
<1> HIDE DEF ks
<1>2. \A r, s \in {"exporter", "ledger", "issuer"} : r # s => ks[r] \cap ks[s] = {}
    BY <1>1, RolesAssumption
<1> QED BY <1>2 DEF CheckRoles, When, ks

LEMMA SignaturePasses ==
    ASSUME ReleaseInv, Exported, ToldInOrder
    PROVE  /\ CheckPackSignature(file.pack, Proper) = {}
           /\ When(Told.created > Proper.now, "created in the future") = {}
PROOF
<1>1. /\ Told.created \in Nat /\ Told.created <= instant
      /\ file.pack.keyid = Keyid(ExporterKey) /\ file.pack.sig = Signed(ExporterKey, Told)
    BY CreatedTold
<1>2. Proper.now = instant /\ Proper.keys["exporter"] = {ExporterKey} /\ file.pack.spec = Told
    BY DEF Proper, OptionsWith, Told
<1>3. instant \in Nat
    BY DEF ReleaseInv, IssuedInv
<1> HIDE DEF Told
<1>4. ~ (Told.created > instant)
    BY <1>1, <1>3
<1> QED BY <1>1, <1>2, <1>4 DEF CheckPackSignature, When

LEMMA RunsPass ==
    ASSUME ReleaseInv, Exported, ToldInOrder
    PROVE  CheckManifest(Told) = {} /\ CheckRuns(Told) = {}
PROOF
<1>1. Told.manifest = ThisManifest /\ Told.runs = Evaluations
    BY FaithfulTold
<1>2. ThisManifest.certifiable = TRUE /\ ThisManifest.hash = This
    BY DEF ThisManifest
<1>3. DOMAIN Evaluations = {1, 2} /\ Evaluations[1] = RunOf(1, "pass") /\ Evaluations[2] = RunOf(2, "fail")
    BY DEF Evaluations
<1>4. ASSUME NEW h, NEW st PROVE ValidRun(RunOf(h, st)) /\ RunOf(h, st).release = This /\ RunOf(h, st).hash = h
    <2>1. /\ RunOf(h, st).release = This /\ RunOf(h, st).hash = h /\ RunOf(h, st).covers = {1}
          /\ RunOf(h, st).cases = {[id |-> "a", status |-> "pass", critical |-> FALSE, expect |-> "none", metric |-> NoMetric],
                                   [id |-> "b", status |-> st, critical |-> FALSE, expect |-> "none", metric |-> NoMetric]}
        BY DEF RunOf
    <2>2. PICK x, y : /\ x = [id |-> "a", status |-> "pass", critical |-> FALSE, expect |-> "none", metric |-> NoMetric]
                      /\ y = [id |-> "b", status |-> st, critical |-> FALSE, expect |-> "none", metric |-> NoMetric]
        OBVIOUS
    <2>3. x.id = "a" /\ y.id = "b" /\ RunOf(h, st).cases = {x, y}
        BY <2>1, <2>2
    <2>4. \A c, d \in RunOf(h, st).cases : c.id = d.id => c = d
        BY <2>3
    <2> QED BY <2>1, <2>4 DEF ValidRun, ReleaseHashes, KnownSuites, This
<1> HIDE DEF Told
<1>5. \A i \in DOMAIN Told.runs : ValidRun(Told.runs[i]) /\ Told.runs[i].release = Told.manifest.hash
    BY <1>1, <1>2, <1>3, <1>4
<1>6. \A i, j \in DOMAIN Told.runs : i # j => Told.runs[i].hash # Told.runs[j].hash
    BY <1>1, <1>3, <1>4
<1> QED BY <1>1, <1>2, <1>5, <1>6 DEF CheckManifest, CheckRuns, Bad, When

LEMMA EventsPass ==
    ASSUME ReleaseInv, Exported, ToldInOrder
    PROVE  CheckEvents(Told, Proper) = {}
PROOF
<1> DEFINE te == Told.events
<1>1. PICK n : n = Len(history)
    OBVIOUS
<1>2. DOMAIN te = 1..n /\ \A k \in 1..n : te[k] = history[k]
    BY <1>1, InOrderIsHistory
<1>3. n \in Nat /\ DOMAIN history = 1..n
    BY <1>1 DEF ReleaseInv, HistoryInv, IsSeq
<1>4. /\ \A i \in 1..n : history[i].at \in Nat /\ history[i].at <= instant /\ SoundEvent(history[i])
      /\ \A i, j \in 1..n : i < j => history[i].at <= history[j].at
    BY <1>1 DEF ReleaseInv, HistoryInv
<1>5. /\ Told.created \in Nat /\ \A k \in 1..n : history[k].at <= Told.created
      /\ history # <<>> /\ instant \in Nat
    BY <1>1, CreatedTold DEF ReleaseInv, IssuedInv
<1>6. OfKind(history, "registered") = {1}
    BY <1>5 DEF ReleaseInv, HistoryInv
<1>7. Proper.now = instant
    BY DEF Proper, OptionsWith
<1>8. Told.manifest.hash = This /\ Told.manifest.agent = "agent"
    BY FaithfulTold DEF ThisManifest
<1> HIDE DEF Told
<1>9. \A kind : OfKind(te, kind) = OfKind(history, kind)
    BY <1>2, <1>3 DEF OfKind
<1>10. ~ \E i \in DOMAIN te : \E j \in 1..(i - 1) : te[i].at < te[j].at
    <2> SUFFICES ASSUME NEW i \in 1..n, NEW j \in 1..(i - 1), history[i].at < history[j].at PROVE FALSE
        BY <1>2, <1>3
    <2>1. j \in 1..n /\ j < i
        BY <1>3
    <2> QED BY <1>4, <2>1
<1>11. ~ Bad(te, LAMBDA e : e.at > Proper.now \/ e.at > Told.created)
    <2> SUFFICES ASSUME NEW i \in 1..n, history[i].at > instant \/ history[i].at > Told.created PROVE FALSE
        BY <1>2, <1>7 DEF Bad
    <2> QED BY <1>4, <1>5
<1>12. ~ Bad(te, LAMBDA e : ~EventIsSound(e, Told.manifest.hash, Told.manifest.agent))
    BY <1>2, <1>4, <1>8 DEF Bad, SoundEvent
<1>13. ~ \E i, j \in OfKind(te, "revoked") : i # j /\ te[i].digest = te[j].digest
    <2> SUFFICES ASSUME NEW i \in OfKind(history, "revoked"), NEW j \in OfKind(history, "revoked"), i # j,
                        history[i].digest = history[j].digest
                 PROVE  FALSE
        BY <1>2, <1>3, <1>9 DEF OfKind
    <2> QED BY DEF ReleaseInv, RevokedInv
<1>14. OfKind(te, "registered") = {1}
    BY <1>6, <1>9
<1> QED BY <1>10, <1>11, <1>12, <1>13, <1>14 DEF CheckEvents, When

\* A revocation that the list has by a time is an event of that time or before.
LEMMA ListedByTime ==
    ASSUME NEW spec, NEW at, NEW d \in RevokedBy(spec, at)
    PROVE  \E k \in OfKind(spec.events, "revoked") : spec.events[k].digest = d /\ spec.events[k].at <= at
PROOF
<1>1. PICK r \in Revocations(spec) : r[1] = d /\ r[2] <= at
    BY DEF RevokedBy
<1>2. PICK k \in OfKind(spec.events, "revoked") : r = <<spec.events[k].digest, spec.events[k].at>>
    BY <1>1 DEF Revocations
<1> QED BY <1>1, <1>2

LEMMA NotInvalid ==
    ASSUME ReleaseInv, BoundsInv, AllByIssuer, NEW j \in 1..Len(issued), NEW revoked
    PROVE  StatementStatus(issued[j], CertContext(Proper, instant, This, revoked)) # Invalid
PROOF
<1> DEFINE e == issued[j]
           c == e.payload.certification
           now == Rfc3339(instant)
           ctx == ContextOf({IssuerKey}, revoked, now)
<1>1. Certificate(e, j, instant) /\ instant \in Nat /\ DOMAIN issued = 1..Len(issued)
    BY DEF ReleaseInv, IssuedInv, IsSeq
<1>2. InTerm(e)
    BY DEF BoundsInv
<1>3. c.issued \in Nat /\ c.issued <= instant /\ Rfc3339(c.issued) = c.issued /\ c.until = c.issued + Term
    BY <1>1, <1>2 DEF Certificate, InTerm
<1>4. SignedWith(e, IssuerKey)
    <2>1. Keyid(IssuerKey) \in {s.keyid : s \in e.sigs}
        BY <1>1 DEF AllByIssuer
    <2> QED BY <1>1, <2>1, IssuerSigned DEF Certificate
<1>5. now \in Nat
    BY <1>1, SecondsDown
<1>6. CertContext(Proper, instant, This, revoked) = ctx
    BY ContextIs DEF Proper
<1>7. Findings(e, ctx) =
        When(~ \E k \in {IssuerKey} : SignedWith(e, k), Invalid) \cup When(StatementDigest(e) \in revoked, Revoked)
          \cup When(c.until <= c.issued, Invalid) \cup When(now < c.issued, Invalid)
          \cup When(now >= c.until, Expired) \cup {ValidWithLimitations}
    BY <1>1, <1>5, FindingsAre
<1> HIDE DEF c, e
<1>8. c.issued <= now
    BY <1>1, <1>3, WholeSeconds
<1> HIDE DEF now
<1>9. ~ (c.until <= c.issued) /\ ~ (now < c.issued)
    <2>1. Term \in Nat /\ Term > 0
        BY <1>3, DaysLater
    <2> QED BY <1>3, <1>5, <1>8, <2>1
<1> HIDE DEF ctx
<1>10. Invalid \notin Findings(e, ctx)
    BY <1>4, <1>7, <1>9 DEF When, Invalid, Revoked, Expired, ValidWithLimitations
<1>11. StatementStatus(e, ctx) # Invalid
    BY <1>10, StatusBound
<1> QED BY <1>6, <1>11 DEF e

LEMMA CertificationsPass ==
    ASSUME ReleaseInv, BoundsInv, Exported, ToldInOrder, AllByIssuer
    PROVE  CheckCertifications(Told, Proper) = {}
PROOF
<1>1. Told.certs = issued /\ Told.runs = Evaluations /\ Told.manifest.hash = This
    BY FaithfulTold DEF ThisManifest
<1>2. DOMAIN issued = 1..Len(issued) /\ IssuedInv /\ Len(issued) \in Nat
    BY DEF ReleaseInv, IssuedInv, IsSeq
<1>3. DOMAIN Told.events = 1..Len(history) /\ \A k \in 1..Len(history) : Told.events[k] = history[k]
    BY InOrderIsHistory
<1>4. DOMAIN history = 1..Len(history)
    BY DEF ReleaseInv, HistoryInv, IsSeq
<1> HIDE DEF Told
<1> DEFINE hashes == {Told.runs[i].hash : i \in DOMAIN Told.runs}
           ctx == CertContext(Proper, Proper.now, Told.manifest.hash, AllRevoked(Told))
<1>5. Proper.now = instant
    BY DEF Proper, OptionsWith
<1>6. ~ Bad(issued, LAMBDA e : StatementStatus(e, ctx) = Invalid)
    BY <1>1, <1>2, <1>5, NotInvalid DEF Bad
<1>7. ~ \E i, j \in DOMAIN issued : i # j /\ StatementDigest(issued[i]) = StatementDigest(issued[j])
    BY <1>2, DigestsDiffer
<1>8. ASSUME NEW k \in OfKind(Told.events, "revoked") PROVE k \in OfKind(history, "revoked") /\ Told.events[k] = history[k]
    BY <1>3, <1>4 DEF OfKind
<1>9. ~ Bad(issued, LAMBDA e : \E r \in Revocations(Told) :
                r[1] = StatementDigest(e) /\ r[2] < e.payload.certification.issued)
    <2> SUFFICES ASSUME NEW i \in 1..Len(issued), NEW r \in Revocations(Told),
                        r[1] = StatementDigest(issued[i]), r[2] < issued[i].payload.certification.issued
                 PROVE  FALSE
        BY <1>2 DEF Bad
    <2>1. PICK k \in OfKind(Told.events, "revoked") : r = <<Told.events[k].digest, Told.events[k].at>>
        BY DEF Revocations
    <2>2. k \in OfKind(history, "revoked") /\ k \in 1..Len(history) /\ r = <<history[k].digest, history[k].at>>
        BY <1>4, <1>8, <2>1 DEF OfKind
    <2>3. PICK j \in 1..Len(issued) : /\ history[k].digest = StatementDigest(issued[j])
                                      /\ issued[j].payload.certification.issued <= history[k].at
        BY <2>2 DEF ReleaseInv, RevokedInv
    <2>4. r[1] = history[k].digest /\ r[2] = history[k].at
        BY <2>2
    <2>5. j = i
        BY <1>2, <2>3, <2>4, DigestsDiffer
    <2>6. issued[i].payload.certification.issued \in Nat /\ history[k].at \in Nat
        BY <1>2, <2>2 DEF ReleaseInv, HistoryInv, IssuedInv, Certificate
    <2> QED BY <2>3, <2>4, <2>5, <2>6
<1>10. hashes = {1, 2}
    <2>1. DOMAIN Evaluations = {1, 2} /\ Evaluations[1] = RunOf(1, "pass") /\ Evaluations[2] = RunOf(2, "fail")
        BY DEF Evaluations
    <2>2. RunOf(1, "pass").hash = 1 /\ RunOf(2, "fail").hash = 2
        BY DEF RunOf
    <2> QED BY <1>1, <2>1, <2>2
<1>11. ~ Bad(issued, LAMBDA e : ~ (e.payload.certification.decision.runs \subseteq hashes))
    <2> SUFFICES ASSUME NEW i \in 1..Len(issued) PROVE issued[i].payload.certification.decision.runs \subseteq hashes
        BY <1>2 DEF Bad
    <2>1. issued[i].payload.certification.decision.runs \in {{1}, {2}}
        BY <1>2 DEF IssuedInv, Certificate
    <2> QED BY <1>10, <2>1
<1>12. AllRevoked(Told) \subseteq {StatementDigest(issued[i]) : i \in DOMAIN issued}
    <2> SUFFICES ASSUME NEW d \in AllRevoked(Told) PROVE d \in {StatementDigest(issued[i]) : i \in DOMAIN issued}
        OBVIOUS
    <2>1. PICK k \in OfKind(Told.events, "revoked") : Told.events[k].digest = d
        BY ListedIsRevoked
    <2>2. PICK j \in 1..Len(issued) : history[k].digest = StatementDigest(issued[j])
        BY <1>8, <2>1 DEF ReleaseInv, RevokedInv
    <2> QED BY <1>2, <1>8, <2>1, <2>2
<1>13. ~ Bad(Told.certs, LAMBDA e : ~ (e.payload.certification.decision.runs \subseteq hashes))
    BY <1>1, <1>11 DEF Bad
<1>14. /\ When(Bad(Told.certs, LAMBDA e : StatementStatus(e, ctx) = Invalid), "invalid certification") = {}
       /\ When(\E i, j \in DOMAIN Told.certs : i # j /\ StatementDigest(Told.certs[i]) = StatementDigest(Told.certs[j]),
               "duplicate statement") = {}
       /\ When(Bad(Told.certs, LAMBDA e : \E r \in Revocations(Told) :
                   r[1] = StatementDigest(e) /\ r[2] < e.payload.certification.issued), "revoked before it was issued") = {}
       /\ When(Bad(Told.certs, LAMBDA e : ~ (e.payload.certification.decision.runs \subseteq hashes)), "cited run missing") = {}
       /\ When(~ (AllRevoked(Told) \subseteq {StatementDigest(Told.certs[i]) : i \in DOMAIN Told.certs}),
               "revocation of another statement") = {}
    BY <1>1, <1>6, <1>7, <1>9, <1>12, <1>13 DEF When
<1> QED BY <1>14 DEF CheckCertifications

LEMMA PromotionsPass ==
    ASSUME ReleaseInv, Exported, ToldInOrder, ~RevokedAtPromotion
    PROVE  CheckPromotions(Told, Proper) = {}
PROOF
<1>1. Told.certs = issued /\ Told.manifest.hash = This
    BY FaithfulTold DEF ThisManifest
<1>2. DOMAIN issued = 1..Len(issued)
    BY DEF ReleaseInv, IssuedInv, IsSeq
<1>3. DOMAIN Told.events = 1..Len(history) /\ \A k \in 1..Len(history) : Told.events[k] = history[k]
    BY InOrderIsHistory
<1>4. DOMAIN history = 1..Len(history) /\ Len(history) \in Nat
      /\ \A k \in 1..Len(history) : history[k].at \in Nat
      /\ \A i, j \in 1..Len(history) : i < j => history[i].at <= history[j].at
    BY DEF ReleaseInv, HistoryInv, IsSeq
<1> HIDE DEF Told
<1> SUFFICES ASSUME NEW i \in OfKind(Told.events, "promoted"), Basis(Told, Proper, Told.events[i]) = "uncertified"
             PROVE  FALSE
    BY DEF CheckPromotions, When
<1>5. i \in 1..Len(history) /\ history[i].kind = "promoted" /\ Told.events[i] = history[i] /\ i \in OfKind(history, "promoted")
    BY <1>3, <1>4 DEF OfKind
<1>6. history[i].environment = CertifiedEnvironment /\ ~history[i].breakGlass
      /\ ~CertifiedAt(Told, Proper, CertifiedEnvironment, history[i].at)
    BY <1>5 DEF Basis
<1>7. PICK j \in 1..Len(issued) :
        /\ issued[j].payload.certification.environment = CertifiedEnvironment
        /\ InForce(issued[j], {IssuerKey}, RevokedBefore(i), history[i].at)
    BY <1>5, <1>6 DEF ReleaseInv, PromotedInv
<1>8. StatementDigest(issued[j]) \notin RevokedBy(Told, history[i].at)
    <2> SUFFICES ASSUME StatementDigest(issued[j]) \in RevokedBy(Told, history[i].at) PROVE FALSE
        OBVIOUS
    <2>1. PICK k \in OfKind(Told.events, "revoked") :
             Told.events[k].digest = StatementDigest(issued[j]) /\ Told.events[k].at <= history[i].at
        BY ListedByTime
    <2>2. /\ k \in 1..Len(history) /\ history[k].kind = "revoked" /\ k \in OfKind(history, "revoked")
          /\ history[k].digest = StatementDigest(issued[j]) /\ history[k].at <= history[i].at
        BY <1>3, <1>4, <2>1 DEF OfKind
    <2>3. k # i
        BY <1>5, <2>2
    <2>4. CASE k < i
        BY <1>7, <2>2, <2>4 DEF RevokedBefore, InForce
    <2>5. CASE i < k
        <3>1. history[i].at = history[k].at
            BY <1>4, <1>5, <2>2, <2>5
        <3> QED BY <1>5, <2>2, <2>5, <3>1 DEF RevokedAtPromotion
    <2> QED BY <1>4, <1>5, <2>2, <2>3, <2>4, <2>5
<1>9. InForce(issued[j], {IssuerKey}, RevokedBy(Told, history[i].at), history[i].at)
    BY <1>7, <1>8 DEF InForce
<1>10. IsCertified(issued[j], CertContext(Proper, history[i].at, This, RevokedBy(Told, history[i].at)))
    BY <1>4, <1>5, <1>9, InForceCounts DEF Proper
<1>11. CertifiedAt(Told, Proper, CertifiedEnvironment, history[i].at)
    BY <1>1, <1>2, <1>7, <1>10 DEF CertifiedAt
<1> QED BY <1>6, <1>11

LEMMA SentinelsPass ==
    ASSUME ReleaseInv, Exported, ToldInOrder, ~IssuedAtBreach
    PROVE  CheckSentinels(Told, Proper) = {}
PROOF
<1>1. DOMAIN Told.events = 1..Len(history) /\ \A k \in 1..Len(history) : Told.events[k] = history[k]
    BY InOrderIsHistory
<1>2. DOMAIN history = 1..Len(history) /\ \A k \in 1..Len(history) : history[k].at \in Nat
    BY DEF ReleaseInv, HistoryInv, IsSeq
<1>3. CheckEvents(Told, Proper) = {}
    BY EventsPass
<1>4. DOMAIN issued = 1..Len(issued)
    BY DEF ReleaseInv, IssuedInv, IsSeq
<1> SUFFICES ASSUME NEW i \in OfKind(Told.events, "breach"), NEW l \in DOMAIN Told.certs,
                    Told.events[i].action = "revoke",
                    Told.certs[l].payload.certification.environment = Told.events[i].environment,
                    IsCertified(Told.certs[l], CertContext(Proper, Told.events[i].at, Told.manifest.hash, {}))
             PROVE  StatementDigest(Told.certs[l]) \in AllRevoked(Told)
    <2> HIDE DEF Told
    <2> QED BY DEF CheckSentinels, When
<1>5. i \in 1..Len(history) /\ history[i].kind = "breach" /\ Told.events[i] = history[i] /\ i \in OfKind(history, "breach")
    BY <1>1, <1>2 DEF OfKind
<1>6. Told.events[i].at \in Nat
    BY <1>2, <1>5
<1>7. PICK j \in 1..Len(issued) : Told.certs[l] = issued[j] /\ InForce(issued[j], {IssuerKey}, {}, Told.events[i].at)
    BY <1>6, CertifiedThen DEF Proper
<1> HIDE DEF Told
<1>8. issued[j].payload.certification.issued # Rfc3339(history[i].at)
    BY <1>4, <1>5 DEF IssuedAtBreach
<1>9. StatementDigest(issued[j]) \in RevokedSoFar
    BY <1>5, <1>7, <1>8 DEF ReleaseInv, BreachInv
<1>10. PICK r \in OfKind(history, "revoked") : history[r].digest = StatementDigest(issued[j])
    BY <1>9 DEF RevokedSoFar
<1>11. ~LeftOut(r, file.way)
    BY DEF LeftOut, ToldInOrder, Faithful
<1>12. history[r].digest \in AllRevoked(Told)
    BY <1>3, <1>11, RevocationTold
<1> QED BY <1>7, <1>10, <1>12

(***************************************************************************)
(* A sealed export of a ledger passes, whatever its length.                *)
(***************************************************************************)
Chained(rs) ==
    /\ IsSeq(rs)
    /\ \A i \in 1..Len(rs) : /\ rs[i].seq = i - 1
                             /\ rs[i].hash = HashRecordBytes(rs[i].canonical)
                             /\ rs[i].prev = IF i = 1 THEN GenesisHash ELSE rs[i - 1].hash

LEMMA NothingChained == Chained(<<>>) /\ Len(<<>>) = 0
PROOF
<1>1. IsSeq(<<>>) /\ Len(<<>>) = 0 /\ 1..0 = {}
    BY SeqEmpty
<1> QED BY <1>1 DEF Chained

LEMMA LastIs ==
    ASSUME NEW s, IsSeq(s), Len(s) >= 1
    PROVE  Last(s) = s[Len(s)] /\ s # <<>>
PROOF
<1>1. Len(<<>>) = 0
    BY SeqEmpty
<1> QED BY <1>1 DEF Last

\* What a ledger appends is the next record of the chain (store.rs append).
OneLonger(more, rs) == Chained(more) /\ Len(more) = Len(rs) + 1 /\ \A i \in 1..Len(rs) : more[i] = rs[i]
LEMMA AppendChains ==
    ASSUME NEW rs, NEW ts, NEW hop, NEW release, NEW pack, NEW more, Chained(rs),
           more = AppendRecord(rs, ts, hop, release, pack)
    PROVE  OneLonger(more, rs)
PROOF
<1> DEFINE c == Canonical(NextSeq(rs), ts, hop, release, pack, TipOf(rs))
           r == WireRecord(c)
<1>1. more = Append(rs, r)
    BY DEF AppendRecord
<1>2. c.seq = Len(rs) /\ c.prev = TipOf(rs) /\ c.release = release /\ c.ts = ts /\ c.hop = hop
    BY DEF Canonical, NextSeq
<1> HIDE DEF c
<1>3. r.seq = Len(rs) /\ r.hash = HashRecordBytes(r.canonical) /\ r.prev = TipOf(rs) /\ r.canonical = c
    BY <1>2 DEF WireRecord
<1> HIDE DEF r
<1>4. IsSeq(rs) /\ Len(rs) \in Nat
    BY DEF Chained, IsSeq
<1>5. IsSeq(more) /\ Len(more) = Len(rs) + 1 /\ (\A i \in 1..Len(rs) : more[i] = rs[i]) /\ more[Len(rs) + 1] = r
    BY <1>1, <1>4, SeqAppend
<1>6. TipOf(rs) = IF Len(rs) = 0 THEN GenesisHash ELSE rs[Len(rs)].hash
    <2>1. CASE Len(rs) = 0
        BY <1>4, <2>1, SeqNone DEF TipOf
    <2>2. CASE Len(rs) # 0
        <3>1. Len(rs) >= 1
            BY <1>4, <2>2
        <3> QED BY <1>4, <2>2, <3>1, LastIs DEF TipOf
    <2> QED BY <2>1, <2>2
<1>7. ASSUME NEW i \in 1..Len(more)
      PROVE  /\ more[i].seq = i - 1
             /\ more[i].hash = HashRecordBytes(more[i].canonical)
             /\ more[i].prev = IF i = 1 THEN GenesisHash ELSE more[i - 1].hash
    <2>1. CASE i \in 1..Len(rs)
        <3>1. more[i] = rs[i] /\ (i # 1 => i - 1 \in 1..Len(rs) /\ more[i - 1] = rs[i - 1])
            BY <1>4, <1>5, <2>1
        <3> QED BY <2>1, <3>1 DEF Chained
    <2>2. CASE i = Len(rs) + 1
        <3>1. more[i] = r /\ i - 1 = Len(rs) /\ (i = 1 <=> Len(rs) = 0)
            BY <1>4, <1>5, <2>2
        <3>2. Len(rs) # 0 => Len(rs) \in 1..Len(rs)
            BY <1>4
        <3> QED BY <1>3, <1>5, <1>6, <3>1, <3>2
    <2> QED BY <1>4, <1>5, <2>1, <2>2
<1>8. Chained(more)
    BY <1>5, <1>7 DEF Chained
<1> QED BY <1>5, <1>8 DEF OneLonger

LEMMA AppendedRecord ==
    ASSUME NEW rs, NEW ts, NEW hop, NEW release, NEW pack, NEW more, Chained(rs),
           more = AppendRecord(rs, ts, hop, release, pack)
    PROVE  more[Len(rs) + 1] = WireRecord(Canonical(NextSeq(rs), ts, hop, release, pack, TipOf(rs)))
PROOF
BY SeqAppend DEF AppendRecord, Chained

\* A bundle by its parts.
BundleOf(rs, proofs, heads, key, receipts, manifest) ==
    [version |-> BundleVersion, records |-> rs, proofs |-> proofs, heads |-> heads,
     keys |-> [k \in {Operator} |-> key], receipts |-> receipts, packs |-> {}, manifest |-> manifest]
ManifestOf(rs, heads, receipts, id, key) ==
    LET m == [id |-> id, count |-> Len(rs), first |-> FirstSeqOf(rs), last |-> LastSeqOf(rs),
              heads |-> [i \in DOMAIN heads |-> heads[i].batch],
              anchors |-> [i \in DOMAIN receipts |-> <<receipts[i].kind, receipts[i].batch>>],
              operator |-> Operator, tip |-> TipOf(rs)]
    IN [body |-> m, keyid |-> Operator, sig |-> Signed(key, m)]
\* A bundle as the commands leave it: the manifest is of what it holds.
Coherent(rs, proofs, heads, receipts, id, key) ==
    BundleOf(rs, proofs, heads, key, receipts, ManifestOf(rs, heads, receipts, id, key))

LEMMA WithManifest ==
    ASSUME NEW rs, NEW proofs, NEW heads, NEW key, NEW receipts, NEW m, NEW m2
    PROVE  [BundleOf(rs, proofs, heads, key, receipts, m) EXCEPT !.manifest = m2] =
             BundleOf(rs, proofs, heads, key, receipts, m2)
PROOF
BY DEF BundleOf

LEMMA ManifestBuilt ==
    ASSUME NEW rs, NEW proofs, NEW heads, NEW key, NEW receipts, NEW m, NEW id, NEW b,
           b = BundleOf(rs, proofs, heads, key, receipts, m)
    PROVE  BuildManifest(b, id, key) = ManifestOf(rs, heads, receipts, id, key)
PROOF
<1>1. b.records = rs /\ b.heads = heads /\ b.receipts = receipts
    BY DEF BundleOf
<1> QED BY <1>1 DEF BuildManifest, UnsignedManifest, ManifestOf

LEMMA ExportCoheres ==
    ASSUME NEW rs, NEW id, NEW key
    PROVE  ExportBundle(rs, id, key) = Coherent(rs, <<>>, <<>>, <<>>, id, key)
PROOF
<1> DEFINE b0 == BundleOf(rs, <<>>, <<>>, key, <<>>, None)
<1>1. ExportBundle(rs, id, key) = [b0 EXCEPT !.manifest = BuildManifest(b0, id, key)]
    BY DEF ExportBundle, BundleOf
<1>2. BuildManifest(b0, id, key) = ManifestOf(rs, <<>>, <<>>, id, key)
    BY ManifestBuilt
<1>3. PICK m : m = ManifestOf(rs, <<>>, <<>>, id, key)
    OBVIOUS
<1>4. [b0 EXCEPT !.manifest = m] = BundleOf(rs, <<>>, <<>>, key, <<>>, m)
    BY WithManifest
<1> QED BY <1>1, <1>2, <1>3, <1>4 DEF Coherent

HashesOf(rs) == [i \in DOMAIN rs |-> rs[i].hash]
HeadOver(rs, key, batch, time) ==
    LET root == Root(FromHashedLeaves(HashesOf(rs)))
    IN [batch |-> batch, first |-> FirstSeqOf(rs), last |-> LastSeqOf(rs), root |-> root, time |-> time,
        keyid |-> Operator,
        sig |-> Signed(key, [batch |-> batch, first |-> FirstSeqOf(rs), last |-> LastSeqOf(rs), root |-> root, time |-> time])]
ProofsOver(rs, batch) ==
    [i \in DOMAIN rs |-> [batch |-> batch, index |-> i - 1,
                          steps |-> InclusionProof(FromHashedLeaves(HashesOf(rs)), i - 1)]]

LEMMA SealCoheres ==
    ASSUME NEW rs, NEW id, NEW key, NEW batch, NEW time
    PROVE  SealBatch(Coherent(rs, <<>>, <<>>, <<>>, id, key), key, batch, time) =
             Coherent(rs, ProofsOver(rs, batch), <<HeadOver(rs, key, batch, time)>>, <<>>, id, key)
PROOF
<1>1. PICK m : m = ManifestOf(rs, <<>>, <<>>, id, key)
    OBVIOUS
<1>2. PICK b : b = BundleOf(rs, <<>>, <<>>, key, <<>>, m)
    OBVIOUS
<1>3. Coherent(rs, <<>>, <<>>, <<>>, id, key) = b
    BY <1>1, <1>2 DEF Coherent
<1>4. m.body.operator = Operator /\ m.body.id = id
    BY <1>1 DEF ManifestOf
<1>5. b.records = rs /\ b.manifest = m
    BY <1>2 DEF BundleOf
<1> DEFINE tree == FromHashedLeaves([i \in DOMAIN b.records |-> b.records[i].hash])
           head == [batch |-> batch, first |-> FirstSeqOf(b.records), last |-> LastSeqOf(b.records),
                    root |-> Root(tree), time |-> time]
           signed == [batch |-> batch, first |-> head.first, last |-> head.last, root |-> head.root, time |-> time,
                      keyid |-> b.manifest.body.operator, sig |-> Signed(key, head)]
           proofs == [i \in DOMAIN b.records |-> [batch |-> batch, index |-> i - 1, steps |-> InclusionProof(tree, i - 1)]]
           sealed == [b EXCEPT !.heads = <<signed>>, !.proofs = proofs]
<1>6. SealBatch(b, key, batch, time) = [sealed EXCEPT !.manifest = BuildManifest(sealed, b.manifest.body.id, key)]
    BY DEF SealBatch
<1>7. tree = FromHashedLeaves(HashesOf(rs))
    BY <1>5 DEF HashesOf
<1>8. proofs = ProofsOver(rs, batch)
    BY <1>5, <1>7 DEF ProofsOver
<1>9. signed = HeadOver(rs, key, batch, time)
    <2>1. PICK root : root = Root(tree)
        OBVIOUS
    <2>2. PICK h : h = [batch |-> batch, first |-> FirstSeqOf(rs), last |-> LastSeqOf(rs), root |-> root, time |-> time]
        OBVIOUS
    <2>3. head = h
        BY <1>5, <2>1, <2>2
    <2>4. PICK sig : sig = Signed(key, h)
        OBVIOUS
    <2>5. h.first = FirstSeqOf(rs) /\ h.last = LastSeqOf(rs) /\ h.root = root
        BY <2>2
    <2>6. signed = [batch |-> batch, first |-> FirstSeqOf(rs), last |-> LastSeqOf(rs), root |-> root, time |-> time,
                    keyid |-> Operator, sig |-> sig]
        BY <1>4, <1>5, <2>3, <2>4, <2>5
    <2> QED BY <1>7, <2>1, <2>2, <2>4, <2>6 DEF HeadOver
<1>10. PICK ps, hs : ps = proofs /\ hs = <<signed>>
    OBVIOUS
<1> HIDE DEF proofs, signed
<1>11. sealed = BundleOf(rs, ps, hs, key, <<>>, m)
    <2>1. PICK mid : mid = [b EXCEPT !.heads = hs]
        OBVIOUS
    <2>2. mid = BundleOf(rs, <<>>, hs, key, <<>>, m)
        BY <1>2, <2>1 DEF BundleOf
    <2>3. PICK e, ks : e = <<>> /\ ks = [k \in {Operator} |-> key]
        OBVIOUS
    <2>4. mid = [version |-> BundleVersion, records |-> rs, proofs |-> e, heads |-> hs, keys |-> ks,
                 receipts |-> e, packs |-> {}, manifest |-> m]
        BY <2>2, <2>3 DEF BundleOf
    <2>5. [mid EXCEPT !.proofs = ps] =
            [version |-> BundleVersion, records |-> rs, proofs |-> ps, heads |-> hs, keys |-> ks,
             receipts |-> e, packs |-> {}, manifest |-> m]
        BY <2>4
    <2>6. [mid EXCEPT !.proofs = ps] = BundleOf(rs, ps, hs, key, <<>>, m)
        BY <2>3, <2>5 DEF BundleOf
    <2> QED BY <1>10, <2>1, <2>6
<1> HIDE DEF sealed
<1>12. BuildManifest(sealed, b.manifest.body.id, key) = ManifestOf(rs, hs, <<>>, id, key)
    BY <1>4, <1>5, <1>11, ManifestBuilt
<1>13. PICK m2 : m2 = ManifestOf(rs, hs, <<>>, id, key)
    OBVIOUS
<1>14. [BundleOf(rs, ps, hs, key, <<>>, m) EXCEPT !.manifest = m2] = BundleOf(rs, ps, hs, key, <<>>, m2)
    BY WithManifest
<1>15. SealBatch(b, key, batch, time) = Coherent(rs, ps, hs, <<>>, id, key)
    BY <1>6, <1>11, <1>12, <1>13, <1>14 DEF Coherent
<1>16. ps = ProofsOver(rs, batch) /\ hs = <<HeadOver(rs, key, batch, time)>>
    BY <1>8, <1>9, <1>10
<1> QED BY <1>3, <1>15, <1>16

\* The verifier's checks of a coherent bundle of a chained ledger: those that do
\* not look at its heads or receipts.
LEMMA BundleFields ==
    ASSUME NEW rs, NEW proofs, NEW heads, NEW receipts, NEW id, NEW key, NEW b,
           b = Coherent(rs, proofs, heads, receipts, id, key)
    PROVE  /\ b.version = 4 /\ b.records = rs /\ b.proofs = proofs /\ b.heads = heads /\ b.receipts = receipts
           /\ b.packs = {} /\ DOMAIN b.keys = {Operator} /\ b.keys[Operator] = key
           /\ b.manifest = ManifestOf(rs, heads, receipts, id, key)
PROOF
<1>1. PICK m : m = ManifestOf(rs, heads, receipts, id, key)
    OBVIOUS
<1>2. b = BundleOf(rs, proofs, heads, key, receipts, m)
    BY <1>1 DEF Coherent
<1> QED BY <1>1, <1>2 DEF BundleOf, BundleVersion

LEMMA ManifestFields ==
    ASSUME NEW rs, NEW heads, NEW receipts, NEW id, NEW key, NEW m, m = ManifestOf(rs, heads, receipts, id, key)
    PROVE  /\ m # None /\ m.keyid = Operator /\ m.sig = Signed(key, m.body)
           /\ m.body.count = Len(rs) /\ m.body.first = FirstSeqOf(rs) /\ m.body.last = LastSeqOf(rs)
           /\ m.body.tip = TipOf(rs) /\ m.body.operator = Operator /\ m.body.id = id
           /\ m.body.heads = [i \in DOMAIN heads |-> heads[i].batch]
           /\ m.body.anchors = [i \in DOMAIN receipts |-> <<receipts[i].kind, receipts[i].batch>>]
PROOF
<1>1. m # None
    <2>1. "body" \in DOMAIN m
        BY DEF ManifestOf
    <2>2. DOMAIN <<>> = {}
        BY SeqNothing
    <2> QED BY <2>1, <2>2 DEF None
<1>2. PICK hs : hs = [i \in DOMAIN heads |-> heads[i].batch]
    OBVIOUS
<1>3. PICK as : as = [i \in DOMAIN receipts |-> <<receipts[i].kind, receipts[i].batch>>]
    OBVIOUS
<1>4. PICK body : body = [id |-> id, count |-> Len(rs), first |-> FirstSeqOf(rs), last |-> LastSeqOf(rs),
                          heads |-> hs, anchors |-> as, operator |-> Operator, tip |-> TipOf(rs)]
    OBVIOUS
<1>5. m = [body |-> body, keyid |-> Operator, sig |-> Signed(key, body)]
    BY <1>2, <1>3, <1>4 DEF ManifestOf
<1>6. m.body = body /\ m.keyid = Operator /\ m.sig = Signed(key, body)
    BY <1>5
<1>7. body.count = Len(rs) /\ body.first = FirstSeqOf(rs) /\ body.last = LastSeqOf(rs) /\ body.tip = TipOf(rs)
      /\ body.operator = Operator /\ body.id = id /\ body.heads = hs /\ body.anchors = as
    BY <1>4
<1> QED BY <1>1, <1>2, <1>3, <1>6, <1>7

LEMMA CoherentVerifies ==
    ASSUME NEW rs, NEW proofs, NEW heads, NEW receipts, NEW id, NEW key, NEW b,
           b = Coherent(rs, proofs, heads, receipts, id, key), Chained(rs)
    PROVE  VerifyChain(b) /\ VerifyManifest(b)
PROOF
<1>1. /\ b.version = 4 /\ b.records = rs /\ b.proofs = proofs /\ b.heads = heads /\ b.receipts = receipts
      /\ b.packs = {} /\ DOMAIN b.keys = {Operator} /\ b.keys[Operator] = key
      /\ b.manifest = ManifestOf(rs, heads, receipts, id, key)
    BY BundleFields
<1>2. DOMAIN rs = 1..Len(rs)
    BY DEF Chained, IsSeq
<1>3. VerifyChain(b)
    BY <1>1, <1>2 DEF VerifyChain, Chained
<1>4. PICK m : m = b.manifest
    OBVIOUS
<1>5. /\ m # None /\ m.keyid = Operator /\ m.sig = Signed(key, m.body)
      /\ m.body.count = Len(rs) /\ m.body.first = FirstSeqOf(rs) /\ m.body.last = LastSeqOf(rs)
      /\ m.body.tip = TipOf(rs)
      /\ m.body.heads = [i \in DOMAIN heads |-> heads[i].batch]
      /\ m.body.anchors = [i \in DOMAIN receipts |-> <<receipts[i].kind, receipts[i].batch>>]
    BY <1>1, <1>4, ManifestFields
<1>6. \A i \in DOMAIN m.body.heads : HeadsOf(b, m.body.heads[i]) # {}
    <2> SUFFICES ASSUME NEW i \in DOMAIN heads PROVE i \in HeadsOf(b, heads[i].batch)
        BY <1>5
    <2> QED BY <1>1 DEF HeadsOf
<1>7. \A i \in DOMAIN m.body.anchors :
         \E j \in DOMAIN b.receipts : <<b.receipts[j].kind, b.receipts[j].batch>> = m.body.anchors[i]
    BY <1>1, <1>5
<1>8. VerifyManifest(b)
    BY <1>1, <1>4, <1>5, <1>6, <1>7 DEF VerifyManifest
<1> QED BY <1>3, <1>8

\* The head and the proofs of a sealed ledger.
LEMMA SealedHead ==
    ASSUME NEW rs, Chained(rs), Len(rs) >= 1, NEW key, NEW batch, NEW time, NEW h, h = HeadOver(rs, key, batch, time)
    PROVE  /\ h.first = 0 /\ h.last = Len(rs) - 1 /\ h.batch = batch /\ h.time = time /\ h.keyid = Operator
           /\ h.root = Root(FromHashedLeaves(HashesOf(rs)))
           /\ h.sig = Signed(key, UnsignedHead(h))
PROOF
<1>1. PICK root, first, last : root = Root(FromHashedLeaves(HashesOf(rs))) /\ first = FirstSeqOf(rs) /\ last = LastSeqOf(rs)
    OBVIOUS
<1>2. PICK u : u = [batch |-> batch, first |-> first, last |-> last, root |-> root, time |-> time]
    OBVIOUS
<1>3. PICK sig : sig = Signed(key, u)
    OBVIOUS
<1>4. h = [batch |-> batch, first |-> first, last |-> last, root |-> root, time |-> time, keyid |-> Operator, sig |-> sig]
    BY <1>1, <1>2, <1>3 DEF HeadOver
<1>5. UnsignedHead(h) = u
    BY <1>2, <1>4 DEF UnsignedHead
<1>6. IsSeq(rs) /\ Len(rs) \in Nat
    BY DEF Chained, IsSeq
<1>7. Last(rs) = rs[Len(rs)] /\ rs # <<>>
    BY <1>6, LastIs
<1>8. first = 0 /\ last = Len(rs) - 1
    <2>1. 1 \in 1..Len(rs) /\ Len(rs) \in 1..Len(rs)
        BY <1>6
    <2>2. rs[1].seq = 1 - 1 /\ rs[Len(rs)].seq = Len(rs) - 1
        BY <2>1 DEF Chained
    <2> QED BY <1>1, <1>7, <2>2 DEF FirstSeqOf, LastSeqOf
<1>9. /\ h.first = first /\ h.last = last /\ h.batch = batch /\ h.time = time /\ h.keyid = Operator
      /\ h.root = root /\ h.sig = sig
    BY <1>4
<1> QED BY <1>1, <1>3, <1>5, <1>8, <1>9

LEMMA HashesAre ==
    ASSUME NEW rs, Chained(rs)
    PROVE  IsSeq(HashesOf(rs)) /\ Len(HashesOf(rs)) = Len(rs) /\ \A i \in 1..Len(rs) : HashesOf(rs)[i] = rs[i].hash
PROOF
<1>1. PICK hs : hs = HashesOf(rs)
    OBVIOUS
<1>2. Len(rs) \in Nat /\ DOMAIN rs = 1..Len(rs)
    BY DEF Chained, IsSeq
<1>3. hs = [i \in 1..Len(rs) |-> rs[i].hash]
    BY <1>1, <1>2 DEF HashesOf
<1>4. hs = [i \in 1..Len(rs) |-> hs[i]]
    BY <1>3
<1>5. IsSeq(hs) /\ Len(hs) = Len(rs)
    BY <1>2, <1>4, SeqMade
<1> QED BY <1>1, <1>3, <1>5

LEMMA OnlyOne ==
    ASSUME NEW S, S = {1}
    PROVE  Min(S) = 1
PROOF
<1>1. Min(S) = CHOOSE x \in S : \A y \in S : x <= y
    BY DEF Min
<1>2. 1 \in S /\ \A y \in S : 1 <= y
    OBVIOUS
<1>3. (CHOOSE x \in S : \A y \in S : x <= y) \in S
    BY <1>2
<1> QED BY <1>1, <1>3

LEMMA SealedChecks ==
    ASSUME NEW rs, Chained(rs), Len(rs) >= 1, NEW receipts, NEW id, NEW key, NEW batch, NEW time, NEW b,
           b = Coherent(rs, ProofsOver(rs, batch), <<HeadOver(rs, key, batch, time)>>, receipts, id, key)
    PROVE  /\ VerifyAll(b) /\ CheckHeads(b) /\ VerifyInclusionProofs(b) /\ VerifyManifest(b)
           /\ \A i \in 1..Len(rs) : HeadsOver(b, i - 1) = {1}
           /\ HeadsOf(b, batch) = {1}
           /\ \A i \in 1..Len(rs) : VerifyMerkleProof(rs[i].hash, b.proofs[i].steps, b.heads[1].root)
           /\ b.heads[1] = HeadOver(rs, key, batch, time)
PROOF
<1>1. PICK h, hs, ps : h = HeadOver(rs, key, batch, time) /\ hs = <<h>> /\ ps = ProofsOver(rs, batch)
    OBVIOUS
<1>2. b = Coherent(rs, ps, hs, receipts, id, key)
    BY <1>1
<1>3. /\ b.version = 4 /\ b.records = rs /\ b.proofs = ps /\ b.heads = hs /\ b.receipts = receipts
      /\ DOMAIN b.keys = {Operator} /\ b.keys[Operator] = key
    BY <1>2, BundleFields
<1>4. VerifyChain(b) /\ VerifyManifest(b)
    BY <1>2, CoherentVerifies
<1>5. PICK n \in Nat : n = Len(rs)
    BY DEF Chained, IsSeq
<1>6. n >= 1 /\ DOMAIN rs = 1..n
    BY <1>5 DEF Chained, IsSeq
<1>7. /\ h.first = 0 /\ h.last = n - 1 /\ h.batch = batch /\ h.keyid = Operator
      /\ h.root = Root(FromHashedLeaves(HashesOf(rs))) /\ h.sig = Signed(key, UnsignedHead(h))
    BY <1>1, <1>5, SealedHead
<1>8. DOMAIN hs = {1} /\ hs[1] = h
    <2>1. DOMAIN <<h>> = 1..1 /\ <<h>>[1] = h
        BY SeqOne
    <2>2. 1..1 = {1}
        OBVIOUS
    <2> QED BY <1>1, <2>1, <2>2
<1>9. VerifySigs(b)
    BY <1>3, <1>7, <1>8 DEF VerifySigs
<1>10. VerifyAll(b)
    BY <1>3, <1>4, <1>9 DEF VerifyAll, BundleVersion
<1>11. CheckHeads(b)
    <2>1. h.first <= h.last
        BY <1>6, <1>7
    <2>2. \A i \in DOMAIN b.heads : i = 1 /\ DOMAIN b.heads \ {i} = {}
        BY <1>3, <1>8
    <2> QED BY <1>3, <1>8, <2>1, <2>2 DEF CheckHeads
<1>12. ASSUME NEW i \in 1..n PROVE HeadsOver(b, i - 1) = {1}
    <2>1. h.first <= i - 1 /\ i - 1 <= h.last
        BY <1>6, <1>7
    <2> QED BY <1>3, <1>8, <2>1 DEF HeadsOver
<1>13. HeadsOf(b, batch) = {1}
    BY <1>3, <1>7, <1>8 DEF HeadsOf
<1>14. ASSUME NEW i \in 1..n
       PROVE  ps[i].batch = batch /\ ps[i].index = i - 1 /\ VerifyMerkleProof(rs[i].hash, ps[i].steps, h.root)
    <2>1. PICK steps : steps = InclusionProof(FromHashedLeaves(HashesOf(rs)), i - 1)
        OBVIOUS
    <2>2. ps[i] = [batch |-> batch, index |-> i - 1, steps |-> steps]
        BY <1>1, <1>6, <2>1 DEF ProofsOver
    <2>3. PICK ls : ls = HashesOf(rs)
        OBVIOUS
    <2>4. IsSeq(ls) /\ Len(ls) = n /\ ls[i] = rs[i].hash
        BY <1>5, <2>3, HashesAre
    <2>5. VerifyMerkleProof(ls[i], InclusionProof(FromHashedLeaves(ls), i - 1), Root(FromHashedLeaves(ls)))
        BY <1>6, <2>4, ProofsVerify
    <2>6. VerifyMerkleProof(rs[i].hash, steps, h.root)
        BY <1>7, <2>1, <2>3, <2>4, <2>5
    <2>7. ps[i].batch = batch /\ ps[i].index = i - 1 /\ ps[i].steps = steps
        BY <2>2
    <2> QED BY <2>6, <2>7
<1>15. DOMAIN ps = 1..n
    BY <1>1, <1>6 DEF ProofsOver
<1>16. VerifyInclusionProofs(b)
    <2> SUFFICES ASSUME NEW i \in 1..n
                 PROVE  LET over == HeadsOver(b, i - 1)
                            head == b.heads[Min(over)]
                        IN /\ over # {} /\ head.batch = b.proofs[i].batch
                           /\ i \in DOMAIN b.records
                           /\ VerifyMerkleProof(b.records[i].hash, b.proofs[i].steps, head.root)
        BY <1>3, <1>11, <1>15 DEF VerifyInclusionProofs
    <2>1. HeadsOver(b, i - 1) = {1}
        BY <1>12
    <2>2. Min(HeadsOver(b, i - 1)) = 1
        BY <2>1, OnlyOne
    <2>3. b.heads[Min(HeadsOver(b, i - 1))] = h
        BY <1>3, <1>8, <2>2
    <2>4. h.batch = b.proofs[i].batch /\ i \in DOMAIN b.records
          /\ VerifyMerkleProof(b.records[i].hash, b.proofs[i].steps, h.root)
        BY <1>3, <1>6, <1>7, <1>14
    <2> QED BY <2>1, <2>3, <2>4
<1>17. \A i \in 1..Len(rs) : VerifyMerkleProof(rs[i].hash, b.proofs[i].steps, b.heads[1].root)
    BY <1>3, <1>5, <1>8, <1>14
<1>18. \A i \in 1..Len(rs) : HeadsOver(b, i - 1) = {1}
    BY <1>5, <1>12
<1>19. b.heads[1] = HeadOver(rs, key, batch, time)
    BY <1>1, <1>3, <1>8
<1> QED BY <1>4, <1>10, <1>11, <1>13, <1>16, <1>17, <1>18, <1>19

LEMMA NoReceiptsNoTrust ==
    ASSUME NEW b, b.receipts = <<>>, CheckHeads(b)
    PROVE  VerifyAnchors(b, NoTrust)
PROOF
<1>1. DOMAIN b.receipts = {}
    BY SeqNothing
<1>2. Kinds(b) = {}
    BY <1>1 DEF Kinds
<1>3. NoTrust.tsa = None /\ NoTrust.rekor = NoLogKey
    BY DEF NoTrust
<1>4. ExternalKinds(b, NoTrust) = {}
    BY <1>2, <1>3 DEF ExternalKinds
<1> QED BY <1>1, <1>4 DEF VerifyAnchors

\* The ledger of the pack is one of two records, the second of this release.
LEMMA LedgerIs ==
    Chained(Ledger) /\ Len(Ledger) = 2 /\ Ledger[2].canonical.release = This
PROOF
<1>1. PICK l0 : l0 = <<>>
    OBVIOUS
<1>0. PICK ts, prompt, reply, other, pack :
        ts = 0 /\ prompt = "llm_prompt" /\ reply = "llm_reply" /\ other = "other" /\ pack = "pack"
    OBVIOUS
<1>2. PICK l1 : l1 = AppendRecord(l0, ts, prompt, other, pack)
    OBVIOUS
<1>3. PICK l2 : l2 = Ledger /\ l2 = AppendRecord(l1, ts, reply, This, pack)
    BY <1>0, <1>1, <1>2 DEF Ledger
<1>4. Chained(l0) /\ Len(l0) = 0
    BY <1>1, NothingChained
<1>5. Chained(l1) /\ Len(l1) = 1
    <2>1. OneLonger(l1, l0)
        BY <1>2, <1>4, AppendChains
    <2> QED BY <1>4, <2>1 DEF OneLonger
<1>6. Chained(l2) /\ Len(l2) = Len(l1) + 1 /\ l2[Len(l1) + 1].canonical.release = This
    <2>1. OneLonger(l2, l1)
        BY <1>3, <1>5, AppendChains
    <2>2. l2[Len(l1) + 1] = WireRecord(Canonical(NextSeq(l1), ts, reply, This, pack, TipOf(l1)))
        BY <1>3, <1>5, AppendedRecord
    <2> QED BY <2>1, <2>2 DEF WireRecord, Canonical, OneLonger
<1>7. Len(l1) + 1 = 2
    BY <1>5
<1> QED BY <1>3, <1>6, <1>7

LEMMA SealedExportSound == LedgerSound(SealedExport, Proper, This)
PROOF
<1>1. PICK rs, b, key : rs = Ledger /\ b = SealedExport /\ key = LedgerSignerKey
    OBVIOUS
<1>2. Chained(rs) /\ Len(rs) = 2 /\ rs[2].canonical.release = This
    BY <1>1, LedgerIs
<1>3. PICK heads, proofs : heads = <<HeadOver(rs, key, "batch", 0)>> /\ proofs = ProofsOver(rs, "batch")
    OBVIOUS
<1>4. b = Coherent(rs, proofs, heads, <<>>, "bundle", key)
    <2>1. LedgerExport = Coherent(rs, <<>>, <<>>, <<>>, "bundle", key)
        BY <1>1, ExportCoheres DEF LedgerExport
    <2> QED BY <1>1, <1>3, <2>1, SealCoheres DEF SealedExport
<1>5. VerifyAll(b) /\ CheckHeads(b) /\ VerifyInclusionProofs(b) /\ VerifyManifest(b)
    BY <1>2, <1>3, <1>4, SealedChecks
<1>6. /\ b.version = 4 /\ b.records = rs /\ b.receipts = <<>>
      /\ DOMAIN b.keys = {Operator} /\ b.keys[Operator] = key
      /\ b.manifest = ManifestOf(rs, heads, <<>>, "bundle", key)
    BY <1>4, BundleFields
<1>7. VerifyAnchors(b, NoTrust)
    BY <1>5, <1>6, NoReceiptsNoTrust
<1>8. b.manifest.keyid = Operator
    <2>1. PICK m, e, id : m = b.manifest /\ e = <<>> /\ id = "bundle"
        OBVIOUS
    <2>2. m = ManifestOf(rs, heads, e, id, key)
        BY <1>6, <2>1
    <2>3. m.keyid = Operator
        BY <2>2 DEF ManifestOf
    <2> QED BY <2>1, <2>3
<1>9. key \in Proper.keys["ledger"]
    BY <1>1 DEF Proper, OptionsWith
<1>10. 2 \in ReleaseHops(b, This)
    <2>1. 2 \in DOMAIN rs
        BY <1>2 DEF Chained, IsSeq
    <2> QED BY <1>2, <1>6, <2>1 DEF ReleaseHops
<1>11. b.version >= 4
    BY <1>6
<1>12. LedgerSound(b, Proper, This)
    BY <1>5, <1>6, <1>7, <1>8, <1>9, <1>10, <1>11 DEF LedgerSound
<1> QED BY <1>1, <1>12

LEMMA LedgerPasses ==
    ASSUME ReleaseInv, Exported, ToldInOrder
    PROVE  CheckLedger(Told, Proper) = {}
PROOF
<1>1. PICK exports : exports = Told.exports
    OBVIOUS
<1>2. exports = <<>> \/ exports = <<SealedExport>>
    BY <1>1, FaithfulTold
<1>3. Told.manifest.hash = This
    BY FaithfulTold DEF ThisManifest
<1> HIDE DEF Told
<1>4. \A i \in DOMAIN exports : i = 1 /\ exports[i] = SealedExport
    <2>1. DOMAIN <<>> = {}
        BY SeqNothing
    <2>2. PICK x : x = SealedExport
        OBVIOUS
    <2>3. DOMAIN <<x>> = 1..1 /\ <<x>>[1] = x
        BY SeqOne
    <2>4. exports = <<>> \/ exports = <<x>>
        BY <1>2, <2>2
    <2>5. \A i \in 1..1 : i = 1
        OBVIOUS
    <2> QED BY <2>1, <2>2, <2>3, <2>4, <2>5
<1>5. \A i \in DOMAIN exports : ~Overlap(exports, i)
    <2>1. 1..(1 - 1) = {}
        OBVIOUS
    <2> QED BY <1>4, <2>1 DEF Overlap
<1>6. \A i \in DOMAIN exports : LedgerSound(exports[i], Proper, Told.manifest.hash)
    BY <1>3, <1>4, SealedExportSound
<1> QED BY <1>1, <1>5, <1>6 DEF CheckLedger, Bad, When

LEMMA HonestHolds == ReleaseInv /\ BoundsInv => HonestPackPasses
PROOF
<1> SUFFICES ASSUME ReleaseInv, BoundsInv, Exported, ToldInOrder, AllByIssuer, ~RevokedAtPromotion, ~IssuedAtBreach
             PROVE  Failures(file.pack, Proper) = {}
    BY DEF HonestPackPasses, Passes
<1>1. /\ CheckRoles(Proper) = {} /\ CheckPackSignature(file.pack, Proper) = {}
      /\ When(Told.created > Proper.now, "created in the future") = {}
    BY RolesPass, SignaturePasses
<1>2. CheckManifest(Told) = {} /\ CheckRuns(Told) = {}
    BY RunsPass
<1>3. CheckEvents(Told, Proper) = {} /\ CheckCertifications(Told, Proper) = {}
    BY EventsPass, CertificationsPass
<1>4. CheckPromotions(Told, Proper) = {} /\ CheckSentinels(Told, Proper) = {} /\ CheckLedger(Told, Proper) = {}
    BY PromotionsPass, SentinelsPass, LedgerPasses
<1>5. file.pack.spec = Told
    BY DEF Told
<1> HIDE DEF Told
<1> QED BY <1>1, <1>2, <1>3, <1>4, <1>5 DEF Failures

\* An honest release is believed and told as it is, for every number of events,
\* certifications and records, and every length of a day and of a second: the
\* pieces are well formed, the pack of a control plane that keeps its rules
\* passes every check of the verifier whenever it is verified, but for the
\* revocations of the very instant of a promotion and certifications of the
\* second of a breach, and what the report calls live is what was deployed
\* (cert.rs certify_inner, build.rs, check.rs).
THEOREM HonestIsTold == ReleaseSpec => []HonestReleaseIsTold
PROOF
<1>1. ReleaseInv /\ BoundsInv => HonestReleaseIsTold
    BY TypesHold, HonestHolds, LiveHolds DEF HonestReleaseIsTold
<1> QED BY <1>1, BoundsInvariant, PTL
(***************************************************************************)
(* A proof that climbs to the root is of a leaf of the tree.               *)
(***************************************************************************)
\* Hashing is ideal: the tags keep records and nodes apart.
LEMMA RecordIsNoNode ==
    ASSUME NEW c, NEW l, NEW r
    PROVE  HashRecordBytes(c) # NodeHash(l, r)
PROOF
<1>1. "sha" # "node"
    OBVIOUS
<1> QED BY <1>1 DEF HashRecordBytes, NodeHash
LEMMA NodesDiffer ==
    ASSUME NEW l, NEW r, NEW l2, NEW r2, NodeHash(l, r) = NodeHash(l2, r2)
    PROVE  l = l2 /\ r = r2
PROOF
BY DEF NodeHash
LEMMA RecordsDiffer ==
    ASSUME NEW c, NEW d, HashRecordBytes(c) = HashRecordBytes(d)
    PROVE  c = d
PROOF
BY DEF HashRecordBytes

InTree(L, h) == \E k \in 1..Len(L) : \E x \in 1..Len(L[k]) : L[k][x] = h
RecordHashes(hs) == \A i \in 1..Len(hs) : \E c : hs[i] = HashRecordBytes(c)

\* A node of the tree is a leaf, or the hash of two nodes of the level below.
LEMMA NodeIs ==
    ASSUME NEW L, NEW hs, GoodLevels(L, hs), NEW h, InTree(L, h)
    PROVE  \/ \E x \in 1..Len(hs) : hs[x] = h
           \/ \E l, r : h = NodeHash(l, r) /\ InTree(L, l) /\ InTree(L, r)
PROOF
<1>1. PICK m \in Nat : m = Len(L) /\ m >= 1
    BY DEF GoodLevels, IsSeq
<1>2. PICK k \in 1..m : \E x \in 1..Len(L[k]) : L[k][x] = h
    BY <1>1 DEF InTree
<1>3. PICK x \in 1..Len(L[k]) : L[k][x] = h
    BY <1>2
<1>4. CASE k = 1
    BY <1>3, <1>4 DEF GoodLevels
<1>5. CASE k # 1
    <2>1. PICK j \in 1..(m - 1) : k = j + 1
        <3>1. k - 1 \in 1..(m - 1) /\ k = k - 1 + 1
            BY <1>1, <1>5
        <3> QED BY <3>1
    <2>2. PICK lo, up : lo = L[j] /\ up = L[k]
        OBVIOUS
    <2>3. up = Parents(lo) /\ IsSeq(lo) /\ Len(lo) >= 1 /\ j \in 1..m
        BY <1>1, <2>1, <2>2 DEF GoodLevels
    <2>4. PICK n \in Nat : n = Len(lo)
        BY <2>3 DEF IsSeq
    <2>5. Len(up) = (n + 1) \div 2
          /\ \A i \in 1..Len(up) : up[i] = NodeHash(lo[2 * i - 1], IF 2 * i <= n THEN lo[2 * i] ELSE lo[2 * i - 1])
        BY <2>3, <2>4, ParentsAre
    <2>6. x \in 1..((n + 1) \div 2) /\ up[x] = h
        BY <1>3, <2>2, <2>5
    <2>7. 2 * x - 1 \in 1..n /\ (2 * x <= n => 2 * x \in 1..n)
        BY <2>4, <2>6
    <2>8. PICK y \in 1..n : y = IF 2 * x <= n THEN 2 * x ELSE 2 * x - 1
        BY <2>7
    <2>9. h = NodeHash(lo[2 * x - 1], lo[y])
        BY <2>5, <2>6, <2>8
    <2>10. InTree(L, lo[2 * x - 1]) /\ InTree(L, lo[y])
        BY <1>1, <2>2, <2>3, <2>4, <2>7 DEF InTree
    <2> QED BY <2>9, <2>10
<1> QED BY <1>4, <1>5

LEMMA RootInTree ==
    ASSUME NEW L, NEW hs, GoodLevels(L, hs)
    PROVE  InTree(L, Root(L))
PROOF
<1>1. PICK m \in Nat : m = Len(L) /\ m >= 1
    BY DEF GoodLevels, IsSeq
<1>2. m \in 1..m /\ IsSeq(L[m]) /\ Len(L[m]) >= 1
    BY <1>1 DEF GoodLevels
<1>3. Root(L) = L[m][1]
    BY <1>1 DEF Root, Last
<1>4. 1 \in 1..Len(L[m])
    BY <1>2 DEF IsSeq
<1> QED BY <1>1, <1>2, <1>3, <1>4 DEF InTree

\* Only a record of the batch has a proof to its root (verify_merkle_proof).
LEMMA ProofsAreSound ==
    ASSUME NEW hs, IsSeq(hs), Len(hs) >= 1, RecordHashes(hs), NEW c, NEW n \in Nat, NEW steps, DOMAIN steps = 1..n,
           VerifyMerkleProof(HashRecordBytes(c), steps, Root(FromHashedLeaves(hs)))
    PROVE  \E x \in 1..Len(hs) : hs[x] = HashRecordBytes(c)
PROOF
<1>1. PICK L : L = FromHashedLeaves(hs)
    OBVIOUS
<1>2. hs # <<>>
    BY SeqEmpty
<1>3. GoodLevels(L, hs)
    BY <1>1, <1>2, LevelsAre DEF FromHashedLeaves
<1>4. PICK leaf : leaf = HashRecordBytes(c)
    OBVIOUS
<1>5. PICK g : ClimbsBy(g, n, leaf, steps)
    BY ClimbIs
<1>6. g[n] = Root(L) /\ g[0] = leaf
    BY <1>1, <1>4, <1>5 DEF ClimbsBy, VerifyMerkleProof
<1> DEFINE S == {d \in 0..n : InTree(L, g[n - d])}
<1>7. 0 \in S
    <2>1. n - 0 = n /\ 0 \in 0..n
        OBVIOUS
    <2> QED BY <1>3, <1>6, <2>1, RootInTree
<1>8. ASSUME NEW d \in Nat, d < n, d \in S PROVE d + 1 \in S
    <2>1. PICK k \in 1..n : k = n - d
        <3>1. n - d \in 1..n
            BY <1>8
        <3> QED BY <3>1
    <2>2. n - (d + 1) = k - 1 /\ d + 1 \in 0..n
        BY <1>8, <2>1
    <2>3. InTree(L, g[k])
        BY <1>8, <2>1
    <2>4. PICK cur, s, up : cur = g[k - 1] /\ s = steps[k] /\ up = g[k]
        OBVIOUS
    <2>5. up = StepUp(cur, s)
        BY <1>5, <2>4 DEF ClimbsBy
    <2>6. up = NodeHash(s.hash, cur) \/ up = NodeHash(cur, s.hash)
        BY <2>5 DEF StepUp
    <2>7. ~ \E x \in 1..Len(hs) : hs[x] = up
        BY <2>6, RecordIsNoNode DEF RecordHashes
    <2>8. PICK l, r : up = NodeHash(l, r) /\ InTree(L, l) /\ InTree(L, r)
        BY <1>3, <2>3, <2>4, <2>7, NodeIs
    <2>9. cur = l \/ cur = r
        BY <2>6, <2>8, NodesDiffer
    <2>10. InTree(L, g[n - (d + 1)])
        BY <2>2, <2>4, <2>8, <2>9
    <2> QED BY <2>2, <2>10
<1> HIDE DEF S
<1>9. n \in S
    <2>1. 0..n \subseteq S
        BY <1>7, <1>8, CountUp
    <2> QED BY <2>1
<1>10. InTree(L, leaf)
    <2>1. n - n = 0
        OBVIOUS
    <2> QED BY <1>6, <1>9, <2>1 DEF S
<1> QED BY <1>3, <1>4, <1>10, NodeIs, RecordIsNoNode

(***************************************************************************)
(* Records and their links.                                                *)
(***************************************************************************)
IsWire(r) == r = WireRecord(r.canonical) /\ r.canonical.ts \in Int
Linked(rs) ==
    /\ IsSeq(rs)
    /\ \A i \in 1..Len(rs) :
          /\ IsWire(rs[i]) /\ rs[i].seq \in Nat /\ (rs[i].seq = 0 => rs[i].prev = GenesisHash)
          /\ i > 1 => rs[i].prev = rs[i - 1].hash /\ rs[i].seq = rs[i - 1].seq + 1

LEMMA WireMade ==
    ASSUME NEW c, c.ts \in Int
    PROVE  LET r == WireRecord(c)
           IN IsWire(r) /\ r.canonical = c /\ r.seq = c.seq /\ r.prev = c.prev /\ r.hash = HashRecordBytes(c)
PROOF
BY DEF WireRecord, IsWire
LEMMA WireIs ==
    ASSUME NEW r, IsWire(r)
    PROVE  r.hash = HashRecordBytes(r.canonical) /\ r.prev = r.canonical.prev /\ r.seq = r.canonical.seq
PROOF
<1>1. PICK c : c = r.canonical
    OBVIOUS
<1>2. r = WireRecord(c) /\ c.ts \in Int
    BY <1>1 DEF IsWire
<1>3. WireRecord(c).hash = HashRecordBytes(c) /\ WireRecord(c).prev = c.prev /\ WireRecord(c).seq = c.seq
    BY <1>2, WireMade
<1> QED BY <1>1, <1>2, <1>3
\* A record is what its hash covers.
LEMMA SameHash ==
    ASSUME NEW r, IsWire(r), NEW q, IsWire(q), r.hash = q.hash
    PROVE  r = q
PROOF
<1>1. r.canonical = q.canonical
    BY WireIs, RecordsDiffer
<1> QED BY <1>1 DEF IsWire

\* The tip and the number of records fix them all: each holds the hash of the
\* one before (chain.rs, verify_manifest).
LEMMA OneChain ==
    ASSUME NEW rs, Linked(rs), NEW qs, Linked(qs), Len(rs) = Len(qs), TipOf(rs) = TipOf(qs)
    PROVE  rs = qs
PROOF
<1>1. PICK n \in Nat : n = Len(rs)
    BY DEF Linked, IsSeq
<1>2. CASE n = 0
    BY <1>1, <1>2, SeqNone DEF Linked
<1>3. CASE n >= 1
    <2>1. rs[n].hash = qs[n].hash
        BY <1>1, <1>3, LastIs DEF TipOf, Linked
    <2> DEFINE S == {d \in 0..(n - 1) : rs[n - d] = qs[n - d]}
    <2>2. 0 \in S
        <3>1. n - 0 = n /\ n \in 1..n /\ 0 \in 0..(n - 1)
            BY <1>3
        <3>2. IsWire(rs[n]) /\ IsWire(qs[n])
            BY <1>1, <3>1 DEF Linked
        <3>3. rs[n] = qs[n]
            BY <2>1, <3>2, SameHash
        <3> QED BY <3>1, <3>3
    <2>3. ASSUME NEW d \in Nat, d < n - 1, d \in S PROVE d + 1 \in S
        <3>1. PICK i \in 2..n : i = n - d
            <4>1. n - d \in 2..n
                BY <2>3
            <4> QED BY <4>1
        <3>2. n - (d + 1) = i - 1 /\ d + 1 \in 0..(n - 1) /\ i - 1 \in 1..n /\ i \in 1..n /\ i > 1
            BY <2>3, <3>1
        <3>3. rs[i] = qs[i]
            BY <2>3, <3>1
        <3>4. rs[i].prev = rs[i - 1].hash /\ qs[i].prev = qs[i - 1].hash /\ IsWire(rs[i - 1]) /\ IsWire(qs[i - 1])
            BY <1>1, <3>2 DEF Linked
        <3>5. rs[i - 1] = qs[i - 1]
            BY <3>3, <3>4, SameHash
        <3> QED BY <3>2, <3>5
    <2> HIDE DEF S
    <2>4. 0..(n - 1) \subseteq S
        <3>1. n - 1 \in Nat
            BY <1>3
        <3> QED BY <2>2, <2>3, <3>1, CountUp
    <2>5. ASSUME NEW i \in 1..n PROVE rs[i] = qs[i]
        <3>1. n - i \in 0..(n - 1) /\ n - (n - i) = i
            OBVIOUS
        <3> QED BY <2>4, <3>1 DEF S
    <2>6. rs = [i \in 1..n |-> rs[i]] /\ qs = [i \in 1..n |-> qs[i]]
        BY <1>1 DEF Linked, IsSeq
    <2> QED BY <2>5, <2>6
<1> QED BY <1>1, <1>2, <1>3

\* A part of a ledger that goes to its end, or from its beginning.
PartOf(rs, s, k) == IsSeq(rs) /\ k + Len(rs) <= Len(s) /\ \A i \in 1..Len(rs) : rs[i] = s[k + i]
LEMMA PartLinked ==
    ASSUME NEW s, Linked(s), NEW k \in Nat, NEW rs, PartOf(rs, s, k)
    PROVE  Linked(rs)
PROOF
<1>1. PICK n \in Nat, m \in Nat : n = Len(s) /\ m = Len(rs)
    BY DEF Linked, PartOf, IsSeq
<1>2. ASSUME NEW i \in 1..m
      PROVE  /\ IsWire(rs[i]) /\ rs[i].seq \in Nat /\ (rs[i].seq = 0 => rs[i].prev = GenesisHash)
             /\ i > 1 => rs[i].prev = rs[i - 1].hash /\ rs[i].seq = rs[i - 1].seq + 1
    <2>1. k + i \in 1..n /\ rs[i] = s[k + i]
        BY <1>1 DEF PartOf
    <2>2. i > 1 => i - 1 \in 1..m /\ k + i > 1 /\ k + i - 1 = k + (i - 1)
        BY <1>1
    <2>3. i > 1 => rs[i - 1] = s[k + (i - 1)]
        BY <1>1, <2>2 DEF PartOf
    <2>4. /\ IsWire(s[k + i]) /\ s[k + i].seq \in Nat /\ (s[k + i].seq = 0 => s[k + i].prev = GenesisHash)
          /\ k + i > 1 => s[k + i].prev = s[k + i - 1].hash /\ s[k + i].seq = s[k + i - 1].seq + 1
        BY <1>1, <2>1 DEF Linked
    <2>5. i > 1 => s[k + i - 1] = rs[i - 1]
        BY <2>2, <2>3
    <2> QED BY <2>1, <2>2, <2>4, <2>5
<1> QED BY <1>1, <1>2 DEF Linked, PartOf

\* A part whose first record is the ledger's first is a chain of its own.
LEMMA LinkedFromZero ==
    ASSUME NEW rs, Linked(rs), Len(rs) >= 1 => rs[1].seq = 0
    PROVE  Chained(rs)
PROOF
<1>1. PICK n \in Nat : n = Len(rs)
    BY DEF Linked, IsSeq
<1> DEFINE S == {i \in 0..n : i > 0 => rs[i].seq = i - 1}
<1>2. 0 \in S
    OBVIOUS
<1>3. ASSUME NEW i \in Nat, i < n, i \in S PROVE i + 1 \in S
    <2>1. i + 1 \in 1..n /\ i + 1 \in 0..n /\ i + 1 - 1 = i
        BY <1>3
    <2>2. CASE i = 0
        BY <1>1, <2>1, <2>2
    <2>3. CASE i > 0
        <3>1. rs[i + 1].seq = rs[i + 1 - 1].seq + 1
            BY <1>1, <2>1, <2>3 DEF Linked
        <3>2. rs[i].seq = i - 1
            BY <1>3, <2>3
        <3>3. rs[i + 1].seq = i + 1 - 1
            BY <2>1, <3>1, <3>2
        <3> QED BY <2>1, <3>3
    <2> QED BY <2>2, <2>3
<1> HIDE DEF S
<1>4. 0..n \subseteq S
    BY <1>2, <1>3, CountUp
<1>5. ASSUME NEW i \in 1..n
      PROVE  /\ rs[i].seq = i - 1
             /\ rs[i].hash = HashRecordBytes(rs[i].canonical)
             /\ rs[i].prev = IF i = 1 THEN GenesisHash ELSE rs[i - 1].hash
    <2>1. rs[i].seq = i - 1
        BY <1>4 DEF S
    <2>2. IsWire(rs[i]) /\ (rs[i].seq = 0 => rs[i].prev = GenesisHash) /\ (i > 1 => rs[i].prev = rs[i - 1].hash)
        BY <1>1 DEF Linked
    <2>3. i = 1 \/ i > 1
        OBVIOUS
    <2> QED BY <2>1, <2>2, <2>3, WireIs
<1> QED BY <1>1, <1>5 DEF Chained, Linked

\* Conversely a chain is linked when its records are wire records.
LEMMA ChainIsLinked ==
    ASSUME NEW rs, Chained(rs), \A i \in 1..Len(rs) : IsWire(rs[i])
    PROVE  Linked(rs)
PROOF
<1>1. PICK n \in Nat : n = Len(rs)
    BY DEF Chained, IsSeq
<1>2. ASSUME NEW i \in 1..n
      PROVE  /\ rs[i].seq \in Nat /\ (rs[i].seq = 0 => rs[i].prev = GenesisHash)
             /\ i > 1 => rs[i].prev = rs[i - 1].hash /\ rs[i].seq = rs[i - 1].seq + 1
    <2>1. rs[i].seq = i - 1 /\ rs[i].prev = IF i = 1 THEN GenesisHash ELSE rs[i - 1].hash
        BY <1>1 DEF Chained
    <2>2. i > 1 => rs[i - 1].seq = i - 1 - 1
        BY <1>1 DEF Chained
    <2> QED BY <2>1, <2>2
<1> QED BY <1>1, <1>2 DEF Linked, Chained

(***************************************************************************)
(* What a range export keeps: the end of the ledger.                       *)
(***************************************************************************)
FilterIs(f, n, s, kept) ==
    f = [i \in 0..n |-> IF i = 0 THEN <<>> ELSE IF i \in kept THEN Append(f[i - 1], s[i]) ELSE f[i - 1]]
LEMMA FilterExists ==
    ASSUME NEW n \in Nat, NEW s, NEW kept
    PROVE  \E f : FilterIs(f, n, s, kept)
PROOF
<1> DEFINE S == {m \in 0..n : \E f : FilterIs(f, m, s, kept)}
<1>1. 0 \in S
    <2>1. PICK f : f = [k \in 0..0 |-> <<>>]
        OBVIOUS
    <2>2. FilterIs(f, 0, s, kept)
        BY <2>1 DEF FilterIs
    <2>3. 0 \in 0..n
        OBVIOUS
    <2> QED BY <2>2, <2>3
<1>2. ASSUME NEW m \in Nat, m < n, m \in S PROVE m + 1 \in S
    <2>1. PICK f : FilterIs(f, m, s, kept)
        BY <1>2
    <2>2. PICK g : g = [k \in 0..(m + 1) |-> IF k <= m THEN f[k] ELSE IF k \in kept THEN Append(f[m], s[k]) ELSE f[m]]
        OBVIOUS
    <2>3. ASSUME NEW k \in 0..(m + 1)
          PROVE  g[k] = IF k = 0 THEN <<>> ELSE IF k \in kept THEN Append(g[k - 1], s[k]) ELSE g[k - 1]
        <3>1. CASE k <= m
            <4>1. k \in 0..m /\ g[k] = f[k]
                BY <2>2, <3>1
            <4>2. f[k] = IF k = 0 THEN <<>> ELSE IF k \in kept THEN Append(f[k - 1], s[k]) ELSE f[k - 1]
                BY <2>1, <4>1 DEF FilterIs
            <4>3. k # 0 => k - 1 \in 0..(m + 1) /\ k - 1 <= m
                BY <4>1
            <4>4. k # 0 => g[k - 1] = f[k - 1]
                BY <2>2, <4>3
            <4> QED BY <4>1, <4>2, <4>4
        <3>2. CASE ~(k <= m)
            <4>1. k = m + 1 /\ k - 1 = m /\ k # 0
                BY <3>2
            <4>2. g[k] = IF k \in kept THEN Append(f[m], s[k]) ELSE f[m]
                BY <2>2, <3>2
            <4>3. m \in 0..(m + 1) /\ m <= m
                OBVIOUS
            <4>4. g[m] = f[m]
                BY <2>2, <4>3
            <4> QED BY <4>1, <4>2, <4>4
        <3> QED BY <3>1, <3>2
    <2>4. g = [k \in 0..(m + 1) |-> IF k = 0 THEN <<>> ELSE IF k \in kept THEN Append(g[k - 1], s[k]) ELSE g[k - 1]]
        BY <2>2, <2>3
    <2>5. FilterIs(g, m + 1, s, kept)
        BY <2>4 DEF FilterIs
    <2>6. m + 1 \in 0..n
        BY <1>2
    <2> QED BY <2>5, <2>6
<1> HIDE DEF S
<1>3. n \in S
    <2>1. 0..n \subseteq S
        BY <1>1, <1>2, CountUp
    <2> QED BY <2>1
<1> QED BY <1>3 DEF S

LEMMA FilteredEnd ==
    ASSUME NEW s, IsSeq(s), NEW kept, NEW k \in 0..Len(s), \A i \in 1..Len(s) : i \in kept <=> i > k
    PROVE  PartOf(Filtered(s, kept), s, k) /\ Len(Filtered(s, kept)) = Len(s) - k
PROOF
<1>1. PICK n \in Nat : n = Len(s)
    BY DEF IsSeq
<1>2. PICK f : f = CHOOSE upTo : FilterIs(upTo, n, s, kept)
    OBVIOUS
<1>3. FilterIs(f, n, s, kept)
    BY <1>2, FilterExists
<1>4. Filtered(s, kept) = f[n]
    BY <1>1, <1>2 DEF Filtered, FilterIs
<1> DEFINE Size(i) == IF i <= k THEN 0 ELSE i - k
           Fine(i) == IsSeq(f[i]) /\ Len(f[i]) = Size(i) /\ \A j \in 1..Len(f[i]) : f[i][j] = s[k + j]
           S == {i \in 0..n : Fine(i)}
<1>5. 0 \in S
    <2>1. f[0] = <<>> /\ 0 <= k
        BY <1>1, <1>3 DEF FilterIs
    <2>2. IsSeq(<<>>) /\ Len(<<>>) = 0 /\ 1..0 = {}
        BY SeqEmpty
    <2>3. Fine(0)
        BY <2>1, <2>2
    <2> QED BY <2>3
<1>6. ASSUME NEW i \in Nat, i < n, i \in S PROVE i + 1 \in S
    <2>1. i + 1 \in 1..n /\ i + 1 \in 0..n /\ i + 1 # 0 /\ i + 1 - 1 = i
        BY <1>6
    <2>2. f[i + 1] = IF i + 1 \in kept THEN Append(f[i], s[i + 1]) ELSE f[i]
        <3>1. PICK j \in 0..n : j = i + 1
            BY <2>1
        <3>2. f[j] = IF j = 0 THEN <<>> ELSE IF j \in kept THEN Append(f[j - 1], s[j]) ELSE f[j - 1]
            BY <1>3 DEF FilterIs
        <3>3. j # 0 /\ j - 1 = i
            BY <2>1, <3>1
        <3> QED BY <3>1, <3>2, <3>3
    <2>3. PICK x, y : x = f[i] /\ y = f[i + 1]
        OBVIOUS
    <2>4. IsSeq(x) /\ Len(x) = Size(i) /\ \A j \in 1..Len(x) : x[j] = s[k + j]
        BY <1>6, <2>3
    <2>5. CASE i + 1 <= k
        <3>1. i + 1 \notin kept /\ Size(i) = 0 /\ Size(i + 1) = 0
            BY <1>1, <2>1, <2>5
        <3> QED BY <2>1, <2>2, <2>3, <2>4, <3>1
    <2>6. CASE i + 1 > k
        <3>1. i + 1 \in kept /\ Size(i) = i - k /\ Size(i + 1) = i - k + 1
            BY <1>1, <2>1, <2>6
        <3>2. y = Append(x, s[i + 1])
            BY <2>2, <2>3, <3>1
        <3>3. PICK m \in Nat : m = Len(x)
            BY <2>4 DEF IsSeq
        <3>4. IsSeq(y) /\ Len(y) = m + 1 /\ (\A j \in 1..m : y[j] = x[j]) /\ y[m + 1] = s[i + 1]
            BY <2>4, <3>2, <3>3, SeqAppend
        <3>5. m = i - k /\ k + (m + 1) = i + 1
            BY <2>4, <3>1, <3>3
        <3>6. ASSUME NEW j \in 1..(m + 1) PROVE y[j] = s[k + j]
            <4>1. j \in 1..m \/ j = m + 1
                OBVIOUS
            <4> QED BY <2>4, <3>3, <3>4, <3>5, <4>1
        <3>7. Fine(i + 1)
            BY <2>3, <3>1, <3>4, <3>5, <3>6
        <3> QED BY <2>1, <3>7
    <2> QED BY <1>1, <2>5, <2>6
<1> HIDE DEF S
<1>7. n \in S
    <2>1. 0..n \subseteq S
        BY <1>5, <1>6, CountUp
    <2> QED BY <2>1
<1>8. IsSeq(f[n]) /\ Len(f[n]) = n - k /\ \A j \in 1..Len(f[n]) : f[n][j] = s[k + j]
    BY <1>1, <1>7 DEF S
<1> QED BY <1>1, <1>4, <1>8 DEF PartOf

(***************************************************************************)
(* The life of a bundle: what the store, the files and the running command *)
(* are at any time.                                                        *)
(***************************************************************************)
TimeOf(r) == IF r.kind = "rekor" THEN r.token.time ELSE r.token.tst.time
\* A receipt that was checked when it came, for a head a service anchored then.
Backed(r, rs, h, A) ==
    /\ \/ r.kind = "rfc3161" /\ VerifyTimestampResponse(r.token, SubjectHash(h), r.nonce, TsaRoots)
       \/ r.kind = "rekor" /\ VerifyRekorEntry(r.token.uuid, r.token, LogKey, HeadBytes(h), OperatorKey)
    /\ r.batch = h.batch /\ r.subject = SubjectHash(h) /\ TimeOf(r) \in Int
    /\ \E w \in A : w.kind = r.kind /\ w.records = rs /\ w.time = TimeOf(r)
\* With a clock that is ahead by no more than the skew, a head is sealed before
\* it is anchored, or with the time of a record under it.
Timely(time, at, rs, off) == off <= Skew => time <= at \/ \E j \in 1..Len(rs) : time <= rs[j].canonical.ts

SealedAs(b, rs, id, batch, time, receipts) ==
    b = Coherent(rs, ProofsOver(rs, batch), <<HeadOver(rs, OperatorKey, batch, time)>>, receipts, id, OperatorKey)
\* A file is an export, or a sealed bundle with the receipts it was checked with.
ExportFile(b, rs, id) == b = Coherent(rs, <<>>, <<>>, <<>>, id, OperatorKey)
AnchoredFile(b, rs, id, batch, time, receipts, A) ==
    /\ Len(rs) >= 1 /\ SealedAs(b, rs, id, batch, time, receipts) /\ IsSeq(receipts)
    /\ \A i \in 1..Len(receipts) : Backed(receipts[i], rs, HeadOver(rs, OperatorKey, batch, time), A)
    /\ SelfCheck(b, TrustFor(Kinds(b)))
Filed(b, A) ==
    \E rs, id : Linked(rs) /\ (ExportFile(b, rs, id) \/ \E batch, time, receipts : AnchoredFile(b, rs, id, batch, time, receipts, A))

\* The receipts of the running command, in the order in which it asks.
Collected(receipts, kinds) ==
    /\ IsSeq(receipts) /\ Len(receipts) <= 2 /\ kinds \subseteq Kinds2
    /\ \A i \in 1..Len(receipts) : receipts[i].kind \in kinds
    /\ Len(receipts) = 2 => receipts[1].kind = "rfc3161" /\ receipts[2].kind = "rekor"
    /\ Len(receipts) = 1 /\ "rfc3161" \in kinds => receipts[1].kind = "rfc3161"
IsJob(j) ==
    j = [on |-> TRUE, bundle |-> j.bundle, kinds |-> j.kinds, receipts |-> j.receipts, nonce |-> j.nonce,
         since |-> j.since, file |-> j.file]
Anchoring(j, rs, id, batch, time, A, off) ==
    /\ IsJob(j) /\ Linked(rs) /\ Len(rs) >= 1 /\ SealedAs(j.bundle, rs, id, batch, time, <<>>)
    /\ time \in Int /\ j.since \in Int /\ Timely(time, j.since, rs, off)
    /\ Collected(j.receipts, j.kinds)
    /\ \A i \in 1..Len(j.receipts) :
          /\ Backed(j.receipts[i], rs, HeadOver(rs, OperatorKey, batch, time), A)
          /\ Timely(time, TimeOf(j.receipts[i]), rs, off)
Integrated(e, off) ==
    e.time \in Int /\ \E rs, batch, time :
        /\ Linked(rs) /\ Len(rs) >= 1 /\ time \in Int /\ Timely(time, e.time, rs, off)
        /\ e.body = EntryBody(HeadBytes(HeadOver(rs, OperatorKey, batch, time)), OperatorKey)

StoreInv ==
    /\ Linked(store) /\ Chained(store)
    /\ \A i \in 1..Len(store) : store[i].canonical.ts <= clock + ahead
    /\ \A i, j \in 1..Len(store) : i <= j => store[i].canonical.ts <= store[j].canonical.ts
FilesInv == IsSeq(archive) /\ Len(archive) <= MaxBundles /\ \A i \in 1..Len(archive) : Filed(archive[i], anchored)
JobInv ==
    \/ job = NoJob
    \/ /\ job.on = TRUE /\ job.nonce = requests /\ job.since <= clock /\ job.file \in 1..Len(archive)
       /\ \E rs, id, batch, time : Anchoring(job, rs, id, batch, time, anchored, ahead)
ReplyInv ==
    \A x \in replies : /\ x.tst.nonce <= requests /\ x.tst.nonce \in Int /\ x.tst.time \in Int
                       /\ job.on /\ x.tst.nonce = job.nonce => job.since <= x.tst.time
LogInv == IsSeq(log) /\ \A i \in 1..Len(log) : Integrated(log[i], ahead)
CountsInv == clock \in 1..MaxClock /\ ahead \in 0..MaxAhead /\ requests \in 0..MaxRequests
FlowInv == CountsInv /\ StoreInv /\ FilesInv /\ JobInv /\ ReplyInv /\ LogInv /\ TimestampsAreFresh /\ SkewIsTolerated

LEMMA BackedMore ==
    ASSUME NEW A, NEW B, A \subseteq B, NEW r, NEW rs, NEW h, Backed(r, rs, h, A)
    PROVE  Backed(r, rs, h, B)
PROOF
BY DEF Backed
LEMMA FiledMore ==
    ASSUME NEW A, NEW B, A \subseteq B, NEW b, Filed(b, A)
    PROVE  Filed(b, B)
PROOF
<1>1. PICK rs, id : Linked(rs) /\ (ExportFile(b, rs, id) \/ \E batch, time, receipts : AnchoredFile(b, rs, id, batch, time, receipts, A))
    BY DEF Filed
<1>2. CASE ExportFile(b, rs, id)
    BY <1>1, <1>2 DEF Filed
<1>3. ASSUME NEW batch, NEW time, NEW receipts, AnchoredFile(b, rs, id, batch, time, receipts, A)
      PROVE  AnchoredFile(b, rs, id, batch, time, receipts, B)
    BY <1>3, BackedMore DEF AnchoredFile
<1> QED BY <1>1, <1>2, <1>3 DEF Filed
LEMMA AnchoringMore ==
    ASSUME NEW A, NEW B, A \subseteq B, NEW j, NEW rs, NEW id, NEW batch, NEW time, NEW off,
           Anchoring(j, rs, id, batch, time, A, off)
    PROVE  Anchoring(j, rs, id, batch, time, B, off)
PROOF
BY BackedMore DEF Anchoring

\* Records stamped like the clock keep the store in order.
LEMMA StoreGrows ==
    ASSUME NEW s, Linked(s), Chained(s), NEW now \in Int, \A i \in 1..Len(s) : s[i].canonical.ts <= now,
           \A i, j \in 1..Len(s) : i <= j => s[i].canonical.ts <= s[j].canonical.ts,
           NEW hop, NEW release, NEW pack, NEW t, t = AppendRecord(s, now, hop, release, pack)
    PROVE  /\ Linked(t) /\ Chained(t) /\ \A i \in 1..Len(t) : t[i].canonical.ts <= now
           /\ \A i, j \in 1..Len(t) : i <= j => t[i].canonical.ts <= t[j].canonical.ts
PROOF
<1>1. PICK n \in Nat : n = Len(s)
    BY DEF Linked, IsSeq
<1>2. OneLonger(t, s)
    BY AppendChains
<1>3. Chained(t) /\ Len(t) = n + 1 /\ \A i \in 1..n : t[i] = s[i]
    BY <1>1, <1>2 DEF OneLonger
<1>4. PICK c : c = Canonical(NextSeq(s), now, hop, release, pack, TipOf(s))
    OBVIOUS
<1>5. t[n + 1] = WireRecord(c)
    BY <1>1, <1>4, AppendedRecord
<1>6. c.ts = now
    BY <1>4 DEF Canonical
<1>7. IsWire(t[n + 1]) /\ t[n + 1].canonical = c
    BY <1>5, <1>6, WireMade
<1>8. \A i \in 1..(n + 1) : i \in 1..n \/ i = n + 1
    OBVIOUS
<1>9. \A i \in 1..Len(t) : IsWire(t[i])
    BY <1>1, <1>3, <1>7, <1>8 DEF Linked
<1>10. Linked(t)
    BY <1>3, <1>9, ChainIsLinked
<1>11. t[n + 1].canonical.ts = now
    BY <1>6, <1>7
<1>12. \A i \in 1..(n + 1) : t[i].canonical.ts <= now
    BY <1>1, <1>3, <1>8, <1>11
<1>13. ASSUME NEW i \in 1..(n + 1), NEW j \in 1..(n + 1), i <= j PROVE t[i].canonical.ts <= t[j].canonical.ts
    <2>1. CASE j = n + 1
        BY <1>11, <1>12, <2>1
    <2>2. CASE j \in 1..n
        <3>1. i \in 1..n
            BY <1>13, <2>2
        <3> QED BY <1>1, <1>3, <1>13, <2>2, <3>1
    <2> QED BY <1>8, <2>1, <2>2
<1> QED BY <1>3, <1>10, <1>12, <1>13

LEMMA StoreCut ==
    ASSUME NEW s, Linked(s), Chained(s), NEW now \in Int, \A i \in 1..Len(s) : s[i].canonical.ts <= now,
           \A i, j \in 1..Len(s) : i <= j => s[i].canonical.ts <= s[j].canonical.ts,
           NEW k \in 0..(Len(s) - 1), NEW t, t = SubSeq(s, 1, k)
    PROVE  /\ Linked(t) /\ Chained(t) /\ \A i \in 1..Len(t) : t[i].canonical.ts <= now
           /\ \A i, j \in 1..Len(t) : i <= j => t[i].canonical.ts <= t[j].canonical.ts
PROOF
<1>1. PICK n \in Nat : n = Len(s)
    BY DEF Linked, IsSeq
<1>2. k \in Nat /\ k < n
    BY <1>1
<1>3. PICK X : s \in Seq(X)
    BY SeqOver DEF Linked
<1>4. t \in Seq(X) /\ Len(t) = k /\ \A i \in 1..k : t[i] = s[i]
    BY <1>1, <1>2, <1>3
<1>5. IsSeq(t)
    BY <1>4, SeqBack
<1>6. PartOf(t, s, 0)
    BY <1>1, <1>2, <1>4, <1>5 DEF PartOf
<1>7. Linked(t)
    BY <1>6, PartLinked
<1>8. Len(t) >= 1 => t[1].seq = 0
    <2>1. ASSUME Len(t) >= 1 PROVE t[1].seq = 0
        <3>1. 1 \in 1..k /\ 1 \in 1..n
            BY <1>2, <1>4, <2>1
        <3>2. s[1].seq = 1 - 1
            BY <1>1, <3>1 DEF Chained
        <3> QED BY <1>4, <3>1, <3>2
    <2> QED BY <2>1
<1>9. Chained(t)
    BY <1>7, <1>8, LinkedFromZero
<1>10. \A i \in 1..k : i \in 1..n /\ t[i] = s[i]
    BY <1>2, <1>4
<1> QED BY <1>1, <1>4, <1>7, <1>9, <1>10

LEMMA Idle == JobInv /\ ~job.on => job = NoJob
PROOF
BY DEF JobInv
LEMMA IdleStays == job' = NoJob => JobInv' /\ ~job'.on
PROOF
BY DEF JobInv, NoJob

LEMMA RecordHopKeeps ==
    ASSUME FlowInv, NEW hop \in Hops, RecordHop(hop)
    PROVE  FlowInv'
PROOF
<1> USE DEF FlowInv
<1>1. UNCHANGED <<restores, clock, ahead, archive, job, requests, replies, log, anchored, refused, audit>> /\ ~job.on
    BY DEF RecordHop
<1>2. CountsInv' /\ FilesInv' /\ ReplyInv' /\ LogInv' /\ TimestampsAreFresh' /\ SkewIsTolerated'
    BY <1>1 DEF CountsInv, FilesInv, ReplyInv, LogInv, TimestampsAreFresh, SkewIsTolerated
<1>3. JobInv'
    BY <1>1, Idle, IdleStays
<1>4. StoreInv'
    <2>1. PICK now \in Int : now = clock + ahead
        <3>1. clock + ahead \in Int
            BY FlowAssumption DEF CountsInv
        <3> QED BY <3>1
    <2>2. PICK t : t = AppendRecord(store, now, hop, "release", "pack")
        OBVIOUS
    <2>3. /\ Linked(t) /\ Chained(t) /\ \A i \in 1..Len(t) : t[i].canonical.ts <= now
          /\ \A i, j \in 1..Len(t) : i <= j => t[i].canonical.ts <= t[j].canonical.ts
        <3>1. Linked(store) /\ Chained(store) /\ \A i \in 1..Len(store) : store[i].canonical.ts <= now
            BY <2>1 DEF StoreInv
        <3>2. \A i, j \in 1..Len(store) : i <= j => store[i].canonical.ts <= store[j].canonical.ts
            BY DEF StoreInv
        <3> QED BY <2>2, <3>1, <3>2, StoreGrows
    <2>4. store' = t
        BY <2>1, <2>2 DEF RecordHop, Host
    <2>5. clock' + ahead' = now
        BY <1>1, <2>1
    <2> QED BY <2>3, <2>4, <2>5 DEF StoreInv
<1> QED BY <1>2, <1>3, <1>4

LEMMA ClockTicksKeeps ==
    ASSUME FlowInv, ClockTicks
    PROVE  FlowInv'
PROOF
<1> USE DEF FlowInv
<1>1. UNCHANGED <<store, restores, ahead, archive, job, requests, replies, log, anchored, refused, audit>>
      /\ clock' = clock + 1 /\ clock < MaxClock
    BY DEF ClockTicks
<1>2. clock \in Int /\ ahead \in Int /\ MaxClock \in Nat
    BY FlowAssumption DEF CountsInv
<1>3. CountsInv'
    BY <1>1, <1>2 DEF CountsInv
<1>4. FilesInv' /\ ReplyInv' /\ LogInv' /\ TimestampsAreFresh' /\ SkewIsTolerated'
    BY <1>1 DEF FilesInv, ReplyInv, LogInv, TimestampsAreFresh, SkewIsTolerated
<1>5. StoreInv'
    <2>1. ASSUME NEW i \in 1..Len(store) PROVE store[i].canonical.ts <= clock + 1 + ahead
        <3>1. store[i].canonical.ts \in Int /\ store[i].canonical.ts <= clock + ahead
            BY DEF StoreInv, Linked, IsWire
        <3> QED BY <1>2, <3>1
    <2> QED BY <1>1, <2>1 DEF StoreInv
<1>6. JobInv'
    <2>1. CASE job = NoJob
        BY <1>1, <2>1, IdleStays
    <2>2. CASE job # NoJob
        <3>1. job.on = TRUE /\ job.nonce = requests /\ job.since <= clock /\ job.file \in 1..Len(archive)
            BY <2>2 DEF JobInv
        <3>2. PICK rs, id, batch, time : Anchoring(job, rs, id, batch, time, anchored, ahead)
            BY <2>2 DEF JobInv
        <3>3. job.since <= clock + 1
            BY <1>2, <3>1, <3>2 DEF Anchoring
        <3> QED BY <1>1, <3>1, <3>2, <3>3 DEF JobInv
    <2> QED BY <2>1, <2>2
<1> QED BY <1>3, <1>4, <1>5, <1>6

LEMMA RestoresKeeps ==
    ASSUME FlowInv, NEW k \in 0..(Len(store) - 1), RestoresBackup(k)
    PROVE  FlowInv'
PROOF
<1> USE DEF FlowInv
<1>1. UNCHANGED <<clock, ahead, archive, job, requests, replies, log, anchored, refused, audit>> /\ ~job.on
    BY DEF RestoresBackup
<1>2. CountsInv' /\ FilesInv' /\ ReplyInv' /\ LogInv' /\ TimestampsAreFresh' /\ SkewIsTolerated'
    BY <1>1 DEF CountsInv, FilesInv, ReplyInv, LogInv, TimestampsAreFresh, SkewIsTolerated
<1>3. JobInv'
    BY <1>1, Idle, IdleStays
<1>4. StoreInv'
    <2>1. PICK now \in Int : now = clock + ahead
        <3>1. clock + ahead \in Int
            BY FlowAssumption DEF CountsInv
        <3> QED BY <3>1
    <2>2. PICK t : t = SubSeq(store, 1, k)
        OBVIOUS
    <2>3. /\ Linked(t) /\ Chained(t) /\ \A i \in 1..Len(t) : t[i].canonical.ts <= now
          /\ \A i, j \in 1..Len(t) : i <= j => t[i].canonical.ts <= t[j].canonical.ts
        <3>1. Linked(store) /\ Chained(store) /\ \A i \in 1..Len(store) : store[i].canonical.ts <= now
            BY <2>1 DEF StoreInv
        <3>2. \A i, j \in 1..Len(store) : i <= j => store[i].canonical.ts <= store[j].canonical.ts
            BY DEF StoreInv
        <3> QED BY <2>2, <3>1, <3>2, StoreCut
    <2>4. store' = t
        BY <2>2 DEF RestoresBackup
    <2>5. clock' + ahead' = now
        BY <1>1, <2>1
    <2> QED BY <2>3, <2>4, <2>5 DEF StoreInv
<1> QED BY <1>2, <1>3, <1>4

\* A range export holds the end of the store.
LEMMA RangeLinked ==
    ASSUME NEW s, Linked(s), \A i, j \in 1..Len(s) : i <= j => s[i].canonical.ts <= s[j].canonical.ts,
           NEW from \in Int, NEW until \in Int, \A i \in 1..Len(s) : s[i].canonical.ts < until
    PROVE  Linked(Filtered(s, {i \in DOMAIN s : s[i].canonical.ts >= from /\ s[i].canonical.ts < until}))
PROOF
<1>1. PICK n \in Nat : n = Len(s)
    BY DEF Linked, IsSeq
<1>2. DOMAIN s = 1..n
    BY <1>1 DEF Linked, IsSeq
<1>3. PICK kept : kept = {i \in DOMAIN s : s[i].canonical.ts >= from /\ s[i].canonical.ts < until}
    OBVIOUS
<1>4. \A i \in 1..n : i \in kept <=> s[i].canonical.ts >= from
    BY <1>1, <1>2, <1>3
<1>5. \A i \in 1..n : s[i].canonical.ts \in Int
    BY <1>1 DEF Linked, IsWire
<1>6. \E k \in 0..n : \A i \in 1..n : i \in kept <=> i > k
    <2>1. CASE kept = {}
        <3>1. n \in 0..n /\ \A i \in 1..n : ~(i > n)
            OBVIOUS
        <3> QED BY <2>1, <3>1
    <2>2. CASE kept # {}
        <3>1. kept \subseteq 1..n /\ kept \in SUBSET Nat
            BY <1>2, <1>3
        <3>2. PICK x \in kept : \A y \in kept : x <= y
            BY <2>2, <3>1, LeastNumber
        <3>3. x \in 1..n /\ x - 1 \in 0..n
            BY <3>1
        <3>4. ASSUME NEW i \in 1..n PROVE i \in kept <=> i > x - 1
            <4>1. ASSUME i \in kept PROVE i > x - 1
                <5>1. x <= i
                    BY <3>2, <4>1
                <5> QED BY <3>3, <5>1
            <4>2. ASSUME i > x - 1 PROVE i \in kept
                <5>1. x <= i
                    BY <3>3, <4>2
                <5>2. s[x].canonical.ts <= s[i].canonical.ts
                    BY <1>1, <3>3, <5>1
                <5>3. s[x].canonical.ts >= from
                    BY <1>4, <3>2, <3>3
                <5>4. s[i].canonical.ts >= from
                    BY <1>5, <3>3, <5>2, <5>3
                <5> QED BY <1>4, <5>4
            <4> QED BY <4>1, <4>2
        <3> QED BY <3>3, <3>4
    <2> QED BY <2>1, <2>2
<1>7. PICK k \in 0..n : \A i \in 1..n : i \in kept <=> i > k
    BY <1>6
<1>8. PartOf(Filtered(s, kept), s, k)
    BY <1>1, <1>7, FilteredEnd DEF Linked
<1>9. Linked(Filtered(s, kept))
    BY <1>8, PartLinked
<1> QED BY <1>3, <1>9

LEMMA FilesAppend ==
    ASSUME NEW files, IsSeq(files), NEW A, \A i \in 1..Len(files) : Filed(files[i], A), NEW b, Filed(b, A), NEW more,
           more = Append(files, b)
    PROVE  IsSeq(more) /\ Len(more) = Len(files) + 1 /\ \A i \in 1..Len(more) : Filed(more[i], A)
PROOF
<1>1. PICK n \in Nat : n = Len(files)
    BY DEF IsSeq
<1>2. IsSeq(more) /\ Len(more) = n + 1 /\ (\A i \in 1..n : more[i] = files[i]) /\ more[n + 1] = b
    BY <1>1, SeqAppend
<1>3. \A i \in 1..(n + 1) : i \in 1..n \/ i = n + 1
    OBVIOUS
<1> QED BY <1>1, <1>2, <1>3

LEMMA ExportsKeeps ==
    ASSUME FlowInv, NEW from \in {0, 2}, Exports(from)
    PROVE  FlowInv'
PROOF
<1> USE DEF FlowInv
<1>1. UNCHANGED <<store, restores, clock, ahead, job, requests, replies, log, anchored, refused, audit>> /\ ~job.on
      /\ Len(archive) < MaxBundles
    BY DEF Exports
<1>2. CountsInv' /\ StoreInv' /\ ReplyInv' /\ LogInv' /\ TimestampsAreFresh' /\ SkewIsTolerated'
    BY <1>1 DEF CountsInv, StoreInv, ReplyInv, LogInv, TimestampsAreFresh, SkewIsTolerated
<1>3. JobInv'
    BY <1>1, Idle, IdleStays
<1>4. PICK id, until : id = Len(archive) /\ until = MaxClock + MaxAhead + 1
    OBVIOUS
<1>5. PICK b : b = IF from = 0 THEN ExportBundle(store, id, OperatorKey) ELSE ExportRange(store, from, until, id, OperatorKey)
    OBVIOUS
<1>6. PICK rs : rs = IF from = 0 THEN store
                     ELSE Filtered(store, {i \in DOMAIN store : store[i].canonical.ts >= from /\ store[i].canonical.ts < until})
    OBVIOUS
<1>7. Linked(rs)
    <2>1. until \in Int /\ from \in Int /\ MaxClock \in Nat /\ MaxAhead \in Nat /\ clock \in Int /\ ahead \in Int
          /\ clock <= MaxClock /\ ahead <= MaxAhead
        BY <1>4, FlowAssumption DEF CountsInv
    <2>2. ASSUME NEW i \in 1..Len(store) PROVE store[i].canonical.ts < until
        <3>1. store[i].canonical.ts \in Int /\ store[i].canonical.ts <= clock + ahead
            BY DEF StoreInv, Linked, IsWire
        <3> QED BY <1>4, <2>1, <3>1
    <2>3. Linked(store) /\ \A i, j \in 1..Len(store) : i <= j => store[i].canonical.ts <= store[j].canonical.ts
        BY DEF StoreInv
    <2>4. Linked(Filtered(store, {i \in DOMAIN store : store[i].canonical.ts >= from /\ store[i].canonical.ts < until}))
        BY <2>1, <2>2, <2>3, RangeLinked
    <2> QED BY <1>6, <2>3, <2>4
<1>8. b = ExportBundle(rs, id, OperatorKey)
    BY <1>5, <1>6 DEF ExportRange
<1>9. ExportFile(b, rs, id)
    BY <1>8, ExportCoheres DEF ExportFile
<1>10. Filed(b, anchored)
    BY <1>7, <1>9 DEF Filed
<1>11. PICK more : more = Append(archive, b)
    OBVIOUS
<1>12. archive' = more
    BY <1>4, <1>5, <1>11 DEF Exports
<1>13. IsSeq(more) /\ Len(more) = Len(archive) + 1 /\ \A i \in 1..Len(more) : Filed(more[i], anchored)
    BY <1>10, <1>11, FilesAppend DEF FilesInv
<1>14. Len(more) <= MaxBundles
    BY <1>1, <1>13, FlowAssumption DEF FilesInv, IsSeq
<1>15. FilesInv'
    BY <1>1, <1>12, <1>13, <1>14 DEF FilesInv
<1> QED BY <1>2, <1>3, <1>15

LEMMA MinOfTwo ==
    ASSUME NEW a \in Int, NEW c \in Int
    PROVE  Min({a, c}) \in {a, c} /\ Min({a, c}) <= a /\ Min({a, c}) <= c
PROOF
<1>1. PICK S : S = {a, c}
    OBVIOUS
<1>2. Min(S) = CHOOSE x \in S : \A y \in S : x <= y
    BY DEF Min
<1>3. \E x \in S : \A y \in S : x <= y
    <2>1. CASE a <= c
        BY <1>1, <2>1
    <2>2. CASE c <= a
        BY <1>1, <2>2
    <2> QED BY <2>1, <2>2
<1>4. (CHOOSE x \in S : \A y \in S : x <= y) \in S /\ \A y \in S : (CHOOSE x \in S : \A y2 \in S : x <= y2) <= y
    BY <1>3
<1> QED BY <1>1, <1>2, <1>4

\* The newest of some records (newest_record_time).
LEMMA Newest ==
    ASSUME NEW b, NEW rs, b.records = rs, Linked(rs), Len(rs) >= 1
    PROVE  /\ NewestRecord(b) \in Int /\ \E j \in 1..Len(rs) : NewestRecord(b) = rs[j].canonical.ts
           /\ \A j \in 1..Len(rs) : rs[j].canonical.ts <= NewestRecord(b)
PROOF
<1>1. PICK n \in Nat : n = Len(rs)
    BY DEF Linked, IsSeq
<1>2. DOMAIN rs = 1..n /\ n >= 1
    BY <1>1 DEF Linked, IsSeq
<1>3. PICK f : f = [j \in 1..n |-> rs[j].canonical.ts]
    OBVIOUS
<1>4. \A j \in 1..n : f[j] \in Int /\ f[j] = rs[j].canonical.ts
    BY <1>1, <1>3 DEF Linked, IsWire
<1> DEFINE S == {m \in 0..n : m = 0 \/ \E j \in 1..m : \A i \in 1..m : f[i] <= f[j]}
<1>5. 0 \in S
    OBVIOUS
<1>6. ASSUME NEW m \in Nat, m < n, m \in S PROVE m + 1 \in S
    <2>1. m + 1 \in 0..n /\ m + 1 \in 1..(m + 1) /\ \A i \in 1..(m + 1) : i \in 1..n /\ (i \in 1..m \/ i = m + 1)
        BY <1>6
    <2>2. CASE m = 0
        <3>1. \A i \in 1..(m + 1) : f[i] <= f[m + 1]
            BY <1>4, <2>1, <2>2
        <3> QED BY <2>1, <3>1
    <2>3. CASE m # 0
        <3>1. PICK j \in 1..m : \A i \in 1..m : f[i] <= f[j]
            BY <1>6, <2>3
        <3>2. j \in 1..(m + 1) /\ j \in 1..n /\ m + 1 \in 1..n
            BY <1>6
        <3>3. CASE f[m + 1] <= f[j]
            <4>1. \A i \in 1..(m + 1) : f[i] <= f[j]
                BY <2>1, <3>1, <3>3
            <4> QED BY <2>1, <3>2, <4>1
        <3>4. CASE f[j] <= f[m + 1]
            <4>1. \A i \in 1..(m + 1) : f[i] <= f[m + 1]
                BY <1>4, <2>1, <3>1, <3>2, <3>4
            <4> QED BY <2>1, <4>1
        <3> QED BY <1>4, <3>2, <3>3, <3>4
    <2> QED BY <2>2, <2>3
<1> HIDE DEF S
<1>7. n \in S
    <2>1. 0..n \subseteq S
        BY <1>5, <1>6, CountUp
    <2> QED BY <2>1
<1>8. PICK j \in 1..n : \A i \in 1..n : f[i] <= f[j]
    BY <1>2, <1>7 DEF S
<1>9. PICK T : T = {rs[i].canonical.ts : i \in DOMAIN rs}
    OBVIOUS
<1>10. f[j] \in T /\ \A y \in T : f[j] >= y /\ y \in Int
    BY <1>2, <1>4, <1>8, <1>9
<1>11. Max(T) = CHOOSE x \in T : \A y \in T : x >= y
    BY DEF Max
<1>12. (CHOOSE x \in T : \A y \in T : x >= y) \in T /\ \A y \in T : (CHOOSE x \in T : \A y2 \in T : x >= y2) >= y
    BY <1>10
<1>13. Max(T) \in T /\ \A y \in T : Max(T) >= y
    BY <1>11, <1>12
<1>14. NewestRecord(b) = Max(T)
    BY <1>9 DEF NewestRecord
<1>15. \A i \in 1..n : rs[i].canonical.ts \in T
    BY <1>2, <1>9
<1>16. NewestRecord(b) \in Int
    BY <1>10, <1>13, <1>14
<1>17. \E k \in 1..n : NewestRecord(b) = rs[k].canonical.ts
    BY <1>2, <1>9, <1>13, <1>14
<1>18. ASSUME NEW k \in 1..n PROVE rs[k].canonical.ts <= NewestRecord(b)
    <2>1. PICK x, y : x = NewestRecord(b) /\ y = rs[k].canonical.ts
        OBVIOUS
    <2>2. x >= y /\ x \in Int /\ y \in Int
        BY <1>10, <1>13, <1>14, <1>15, <1>16, <2>1
    <2> QED BY <2>1, <2>2
<1> QED BY <1>1, <1>16, <1>17, <1>18

\* seal_time: with a clock ahead by no more than the skew the seal is no later
\* than the true time, or than a record it covers.
LEMMA SealTimely ==
    ASSUME NEW b, NEW rs, b.records = rs, Linked(rs), Len(rs) >= 1, NEW at \in Int, NEW off \in Int,
           NEW time, time = SealTime(b, at + off, Skew)
    PROVE  time \in Int /\ Timely(time, at, rs, off)
PROOF
<1>1. Skew \in Int
    BY FlowAssumption
<1>2. PICK N \in Int : N = NewestRecord(b)
    BY Newest
<1>3. PICK j \in 1..Len(rs) : N = rs[j].canonical.ts
    BY <1>2, Newest
<1>4. PICK now \in Int : now = at + off
    OBVIOUS
<1>5. rs # <<>>
    BY LastIs DEF Linked
<1>6. time = IF N > now - Skew THEN Min({N, now}) ELSE now - Skew
    BY <1>2, <1>4, <1>5 DEF SealTime
<1>7. Min({N, now}) \in Int /\ Min({N, now}) <= N
    BY MinOfTwo
<1>8. CASE N > now - Skew
    <2>1. time \in Int /\ time <= N
        BY <1>6, <1>7, <1>8
    <2> QED BY <1>3, <2>1 DEF Timely
<1>9. CASE ~(N > now - Skew)
    <2>1. time = now - Skew
        BY <1>6, <1>9
    <2>2. time \in Int /\ (off <= Skew => time <= at)
        BY <1>1, <1>4, <2>1
    <2> QED BY <2>2 DEF Timely
<1> QED BY <1>8, <1>9

LEMMA SealedFields ==
    ASSUME NEW b, NEW rs, NEW id, NEW batch, NEW time, NEW receipts, SealedAs(b, rs, id, batch, time, receipts)
    PROVE  LET h == HeadOver(rs, OperatorKey, batch, time)
           IN /\ b.records = rs /\ DOMAIN b.heads = {1} /\ b.heads[1] = h /\ b.receipts = receipts /\ b.heads # <<>>
              /\ h.batch = batch /\ h.time = time /\ h.root = Root(FromHashedLeaves(HashesOf(rs)))
              /\ h.first = FirstSeqOf(rs) /\ h.last = LastSeqOf(rs) /\ h.keyid = Operator
PROOF
<1>1. PICK h, hs, ps : h = HeadOver(rs, OperatorKey, batch, time) /\ hs = <<h>> /\ ps = ProofsOver(rs, batch)
    OBVIOUS
<1>2. b = Coherent(rs, ps, hs, receipts, id, OperatorKey)
    BY <1>1 DEF SealedAs
<1>3. b.records = rs /\ b.heads = hs /\ b.receipts = receipts
    BY <1>2, BundleFields
<1>4. DOMAIN hs = {1} /\ hs[1] = h
    <2>1. DOMAIN <<h>> = 1..1 /\ <<h>>[1] = h
        BY SeqOne
    <2>2. 1..1 = {1}
        OBVIOUS
    <2> QED BY <1>1, <2>1, <2>2
<1>5. hs # <<>>
    BY <1>4, SeqNothing
<1>6. PICK root, first, last, sig :
         /\ root = Root(FromHashedLeaves(HashesOf(rs))) /\ first = FirstSeqOf(rs) /\ last = LastSeqOf(rs)
         /\ sig = Signed(OperatorKey, [batch |-> batch, first |-> first, last |-> last, root |-> root, time |-> time])
    OBVIOUS
<1>7. h = [batch |-> batch, first |-> first, last |-> last, root |-> root, time |-> time, keyid |-> Operator, sig |-> sig]
    BY <1>1, <1>6 DEF HeadOver
<1>8. h.batch = batch /\ h.time = time /\ h.root = root /\ h.first = first /\ h.last = last /\ h.keyid = Operator
    BY <1>7
<1> QED BY <1>1, <1>3, <1>4, <1>5, <1>6, <1>8

LEMMA NothingCollected ==
    ASSUME NEW kinds \in SUBSET Kinds2
    PROVE  Collected(<<>>, kinds) /\ 1..Len(<<>>) = {}
PROOF
<1>1. IsSeq(<<>>) /\ Len(<<>>) = 0
    BY SeqEmpty
<1>2. PICK s : s = <<>>
    OBVIOUS
<1>3. IsSeq(s) /\ Len(s) = 0 /\ 1..0 = {}
    BY <1>1, <1>2
<1>4. Collected(s, kinds)
    BY <1>3 DEF Collected
<1> QED BY <1>2, <1>3, <1>4

LEMMA StartsAnchorKeeps ==
    ASSUME FlowInv, NEW i \in DOMAIN archive, NEW kinds \in Asked, NEW batch \in Batches, StartsAnchor(i, kinds, batch)
    PROVE  FlowInv'
PROOF
<1> USE DEF FlowInv
<1>1. UNCHANGED <<store, restores, clock, ahead, archive, replies, log, anchored, audit>> /\ ~job.on
      /\ requests' = requests + 1 /\ requests < MaxRequests
    BY DEF StartsAnchor
<1>2. requests \in Nat /\ clock \in Int /\ ahead \in Int /\ MaxRequests \in Nat /\ requests <= MaxRequests
    BY FlowAssumption DEF CountsInv
<1>3. CountsInv'
    BY <1>1, <1>2 DEF CountsInv
<1>4. StoreInv' /\ FilesInv' /\ LogInv' /\ TimestampsAreFresh'
    BY <1>1 DEF StoreInv, FilesInv, LogInv, TimestampsAreFresh
<1>5. SkewIsTolerated'
    BY DEF StartsAnchor, Refuses, SkewIsTolerated
<1>6. PICK b, time : b = archive[i] /\ time = SealTime(archive[i], clock + ahead, Skew)
    OBVIOUS
<1>7. CASE ~MayBeSealed(b, OperatorKey, time)
    <2>1. job' = NoJob
        BY <1>6, <1>7 DEF StartsAnchor, Refuses, Host
    <2>2. JobInv' /\ ~job'.on
        BY <2>1, IdleStays
    <2>3. ReplyInv'
        BY <1>1, <1>2, <2>2 DEF ReplyInv
    <2> QED BY <1>3, <1>4, <1>5, <2>2, <2>3
<1>8. CASE MayBeSealed(b, OperatorKey, time)
    <2>1. job' = [on |-> TRUE, bundle |-> SealBatch(b, OperatorKey, batch, time), kinds |-> kinds,
                  receipts |-> <<>>, nonce |-> requests', since |-> clock, file |-> i]
        BY <1>6, <1>8 DEF StartsAnchor, Host
    <2>2. PICK sealed, none, j : /\ sealed = SealBatch(b, OperatorKey, batch, time) /\ none = <<>>
                                 /\ j = [on |-> TRUE, bundle |-> sealed, kinds |-> kinds, receipts |-> none,
                                         nonce |-> requests + 1, since |-> clock, file |-> i]
        OBVIOUS
    <2>3. job' = j
        BY <1>1, <2>1, <2>2
    <2>4. j.on = TRUE /\ j.bundle = sealed /\ j.kinds = kinds /\ j.receipts = none /\ j.nonce = requests + 1
          /\ j.since = clock /\ j.file = i
        BY <2>2
    <2>5. IsSeq(archive) /\ DOMAIN archive = 1..Len(archive)
        BY DEF FilesInv, IsSeq
    <2>6. Filed(b, anchored)
        BY <1>6, <2>5 DEF FilesInv
    <2>7. PICK rs, id : Linked(rs) /\ (ExportFile(b, rs, id) \/ \E bt, tm, receipts : AnchoredFile(b, rs, id, bt, tm, receipts, anchored))
        BY <2>6 DEF Filed
    <2>8. b.heads = <<>> /\ b.records # <<>>
        BY <1>8 DEF MayBeSealed
    <2>9. ExportFile(b, rs, id)
        <3>1. ASSUME NEW bt, NEW tm, NEW receipts, AnchoredFile(b, rs, id, bt, tm, receipts, anchored) PROVE FALSE
            BY <2>8, <3>1, SealedFields DEF AnchoredFile
        <3> QED BY <2>7, <3>1
    <2>10. b.records = rs
        BY <2>9, BundleFields DEF ExportFile
    <2>11. Len(rs) >= 1
        <3>1. Len(rs) \in Nat /\ IsSeq(rs)
            BY <2>7 DEF Linked, IsSeq
        <3>2. Len(rs) # 0
            BY <2>8, <2>10, <3>1, SeqNone
        <3> QED BY <3>1, <3>2
    <2>12. SealedAs(sealed, rs, id, batch, time, none)
        BY <2>2, <2>9, SealCoheres DEF ExportFile, SealedAs
    <2>13. time \in Int /\ Timely(time, clock, rs, ahead)
        BY <1>2, <1>6, <2>7, <2>10, <2>11, SealTimely
    <2>14. Collected(none, kinds) /\ 1..Len(none) = {}
        <3>1. kinds \in SUBSET Kinds2
            BY FlowAssumption DEF Kinds2
        <3> QED BY <2>2, <3>1, NothingCollected
    <2>15. SealedAs(j.bundle, rs, id, batch, time, <<>>)
        BY <2>2, <2>4, <2>12
    <2>16. Anchoring(j, rs, id, batch, time, anchored, ahead)
        <3>1. IsJob(j)
            BY <2>2, <2>4 DEF IsJob
        <3> QED
        BY <3>1, <1>2, <2>4, <2>7, <2>11, <2>13, <2>14, <2>15 DEF Anchoring
    <2>17. j.file \in 1..Len(archive) /\ j.since <= clock
        BY <1>2, <2>4, <2>5
    <2>18. JobInv'
        BY <1>1, <2>3, <2>4, <2>16, <2>17 DEF JobInv
    <2>19. ReplyInv'
        <3>1. ASSUME NEW x \in replies
              PROVE  /\ x.tst.nonce <= requests + 1 /\ x.tst.nonce \in Int /\ x.tst.time \in Int
                     /\ x.tst.nonce # requests + 1
            <4>1. x.tst.nonce <= requests /\ x.tst.nonce \in Int /\ x.tst.time \in Int
                BY DEF ReplyInv
            <4> QED BY <1>2, <4>1
        <3> QED BY <1>1, <2>3, <2>4, <3>1 DEF ReplyInv
    <2> QED BY <1>3, <1>4, <1>5, <2>18, <2>19
<1> QED BY <1>7, <1>8

LEMMA AnchorFailsKeeps ==
    ASSUME FlowInv, AnchorFails
    PROVE  FlowInv'
PROOF
<1> USE DEF FlowInv
<1>1. UNCHANGED <<store, restores, clock, ahead, archive, requests, replies, log, anchored, refused, audit>> /\ job' = NoJob
    BY DEF AnchorFails, Refuses
<1>2. CountsInv' /\ StoreInv' /\ FilesInv' /\ LogInv' /\ TimestampsAreFresh' /\ SkewIsTolerated'
    BY <1>1 DEF CountsInv, StoreInv, FilesInv, LogInv, TimestampsAreFresh, SkewIsTolerated
<1>3. JobInv' /\ ~job'.on
    BY <1>1, IdleStays
<1>4. ReplyInv'
    BY <1>1, <1>3 DEF ReplyInv
<1> QED BY <1>2, <1>3, <1>4

\* One more receipt for the running command.
SameJobBut(j2, j, rcs) ==
    /\ IsJob(j2) /\ j2.on = j.on /\ j2.bundle = j.bundle /\ j2.kinds = j.kinds /\ j2.receipts = rcs
    /\ j2.nonce = j.nonce /\ j2.since = j.since /\ j2.file = j.file
LEMMA WithReceipts ==
    ASSUME NEW j, IsJob(j), NEW rcs
    PROVE  SameJobBut([j EXCEPT !.receipts = rcs], j, rcs)
PROOF
<1>1. PICK a, k, r, n, s, f : a = j.bundle /\ k = j.kinds /\ r = j.receipts /\ n = j.nonce /\ s = j.since /\ f = j.file
    OBVIOUS
<1>2. j = [on |-> TRUE, bundle |-> a, kinds |-> k, receipts |-> r, nonce |-> n, since |-> s, file |-> f]
    BY <1>1 DEF IsJob
<1>0. PICK j2 : j2 = [j EXCEPT !.receipts = rcs]
    OBVIOUS
<1>3. j2 = [on |-> TRUE, bundle |-> a, kinds |-> k, receipts |-> rcs, nonce |-> n, since |-> s, file |-> f]
    BY <1>0, <1>2
<1>4. j2.on = TRUE /\ j2.bundle = a /\ j2.kinds = k /\ j2.receipts = rcs /\ j2.nonce = n /\ j2.since = s /\ j2.file = f
    BY <1>3
<1>5. j.on = TRUE
    BY <1>2
<1>6. SameJobBut(j2, j, rcs)
    BY <1>1, <1>3, <1>4, <1>5 DEF IsJob, SameJobBut
<1> QED BY <1>0, <1>6

CollectedBy(more, rcs, r, kinds) ==
    /\ Collected(more, kinds) /\ Len(more) = Len(rcs) + 1
    /\ \A i \in 1..Len(more) : (i \in 1..Len(rcs) /\ more[i] = rcs[i]) \/ more[i] = r
LEMMA CollectedMore ==
    ASSUME NEW rcs, NEW kinds, Collected(rcs, kinds), NEW r, r.kind \in kinds,
           Len(rcs) = (IF r.kind = "rekor" /\ "rfc3161" \in kinds THEN 1 ELSE 0), NEW more, more = Append(rcs, r)
    PROVE  CollectedBy(more, rcs, r, kinds)
PROOF
<1>1. PICK n \in Nat : n = Len(rcs) /\ n \in {0, 1}
    BY DEF Collected, IsSeq
<1>2. IsSeq(more) /\ Len(more) = n + 1 /\ (\A i \in 1..n : more[i] = rcs[i]) /\ more[n + 1] = r
    BY <1>1, SeqAppend DEF Collected
<1>3. \A i \in 1..(n + 1) : i \in 1..n \/ i = n + 1
    OBVIOUS
<1>4. \A i \in 1..Len(more) : (i \in 1..Len(rcs) /\ more[i] = rcs[i]) \/ more[i] = r
    BY <1>1, <1>2, <1>3
<1>5. \A i \in 1..Len(more) : more[i].kind \in kinds
    BY <1>4 DEF Collected
<1>6. PICK k, a, c : k = r.kind /\ a = "rfc3161" /\ c = "rekor"
    OBVIOUS
<1>7. k \in kinds /\ kinds \subseteq {a, c} /\ a # c
    BY <1>6 DEF Collected, Kinds2
<1>8. n = 0 \/ (n = 1 /\ k = c /\ a \in kinds)
    BY <1>1, <1>6
<1>9. n = 1 /\ a \in kinds => rcs[1].kind = a
    BY <1>1, <1>6 DEF Collected
<1>10. n = 0 /\ a \in kinds => k = a
    BY <1>1, <1>6, <1>7
<1>11. Len(more) = 2 => more[1].kind = a /\ more[2].kind = c
    <2>1. ASSUME n = 1 PROVE more[1].kind = a /\ more[2].kind = c
        <3>1. more[1] = rcs[1] /\ more[2] = r
            BY <1>2, <2>1
        <3> QED BY <1>6, <1>8, <1>9, <2>1, <3>1
    <2> QED BY <1>2, <2>1
<1>12. Len(more) = 1 /\ a \in kinds => more[1].kind = a
    <2>1. ASSUME n = 0, a \in kinds PROVE more[1].kind = a
        <3>1. more[1] = r
            BY <1>2, <2>1
        <3> QED BY <1>6, <1>10, <2>1, <3>1
    <2> QED BY <1>2, <2>1
<1>13. Len(more) <= 2 /\ Len(more) = Len(rcs) + 1
    BY <1>1, <1>2
<1>14. kinds \subseteq Kinds2
    BY DEF Collected
<1>15. Collected(more, kinds)
    BY <1>2, <1>5, <1>6, <1>11, <1>12, <1>13, <1>14 DEF Collected
<1> QED BY <1>4, <1>13, <1>15 DEF CollectedBy

LEMMA ReceiptAdded ==
    ASSUME NEW j, NEW rs, NEW id, NEW batch, NEW time, NEW A, NEW off, Anchoring(j, rs, id, batch, time, A, off),
           NEW B, A \subseteq B, NEW r, Backed(r, rs, HeadOver(rs, OperatorKey, batch, time), B),
           Timely(time, TimeOf(r), rs, off), r.kind \in j.kinds,
           Len(j.receipts) = (IF r.kind = "rekor" /\ "rfc3161" \in j.kinds THEN 1 ELSE 0),
           NEW j2, j2 = [j EXCEPT !.receipts = Append(@, r)]
    PROVE  /\ Anchoring(j2, rs, id, batch, time, B, off) /\ j2.on = j.on /\ j2.nonce = j.nonce /\ j2.since = j.since
           /\ j2.file = j.file
PROOF
<1>1. IsJob(j)
    BY DEF Anchoring
<1>2. PICK rcs, more : rcs = j.receipts /\ more = Append(rcs, r)
    OBVIOUS
<1>3. j2 = [j EXCEPT !.receipts = more]
    BY <1>2
<1>4. /\ IsJob(j2) /\ j2.on = j.on /\ j2.bundle = j.bundle /\ j2.kinds = j.kinds /\ j2.receipts = more
      /\ j2.nonce = j.nonce /\ j2.since = j.since /\ j2.file = j.file
    <2>1. SameJobBut(j2, j, more)
        BY <1>1, <1>3, WithReceipts
    <2> QED BY <2>1 DEF SameJobBut
<1>5. Collected(more, j.kinds) /\ \A i \in 1..Len(more) : (i \in 1..Len(rcs) /\ more[i] = rcs[i]) \/ more[i] = r
    <2>1. PICK kinds : kinds = j.kinds
        OBVIOUS
    <2>2. Collected(rcs, kinds) /\ r.kind \in kinds
        BY <1>2, <2>1 DEF Anchoring
    <2>3. Len(rcs) = (IF r.kind = "rekor" /\ "rfc3161" \in kinds THEN 1 ELSE 0)
        BY <1>2, <2>1
    <2>4. CollectedBy(more, rcs, r, kinds)
        BY <1>2, <2>2, <2>3, CollectedMore
    <2> QED BY <2>1, <2>4 DEF CollectedBy
<1>6. PICK h : h = HeadOver(rs, OperatorKey, batch, time)
    OBVIOUS
<1>7. \A i \in 1..Len(rcs) : Backed(rcs[i], rs, h, B) /\ Timely(time, TimeOf(rcs[i]), rs, off)
    BY <1>2, <1>6, BackedMore DEF Anchoring
<1>8. \A i \in 1..Len(more) : Backed(more[i], rs, h, B) /\ Timely(time, TimeOf(more[i]), rs, off)
    BY <1>5, <1>6, <1>7
<1>9. Anchoring(j2, rs, id, batch, time, B, off)
    BY <1>4, <1>5, <1>6, <1>8 DEF Anchoring
<1> QED BY <1>4, <1>9

\* The receipts of the two kinds.
LEMMA TsaReceiptIs ==
    ASSUME NEW batch, NEW subject, NEW nonce, NEW tsr, NEW r, r = TsaReceipt(batch, subject, nonce, tsr)
    PROVE  /\ r.kind = "rfc3161" /\ r.batch = batch /\ r.subject = subject /\ r.nonce = nonce /\ r.token = tsr
           /\ TimeOf(r) = tsr.tst.time
PROOF
<1>1. r.kind = "rfc3161" /\ r.batch = batch /\ r.subject = subject /\ r.nonce = nonce /\ r.token = tsr
    BY DEF TsaReceipt
<1>2. "rfc3161" # "rekor"
    OBVIOUS
<1> QED BY <1>1, <1>2 DEF TimeOf
LEMMA RekorReceiptIs ==
    ASSUME NEW batch, NEW subject, NEW e, NEW r, r = RekorReceipt(batch, subject, e)
    PROVE  r.kind = "rekor" /\ r.batch = batch /\ r.subject = subject /\ r.token = e /\ TimeOf(r) = e.time
PROOF
<1>1. r.kind = "rekor" /\ r.batch = batch /\ r.subject = subject /\ r.token = e
    BY DEF RekorReceipt
<1> QED BY <1>1 DEF TimeOf
LEMMA TimelyLater ==
    ASSUME NEW time \in Int, NEW at \in Int, NEW later \in Int, at <= later, NEW rs, NEW off, Timely(time, at, rs, off)
    PROVE  Timely(time, later, rs, off)
PROOF
<1>1. time <= at => time <= later
    OBVIOUS
<1> QED BY <1>1 DEF Timely

\* What the running command is about.
LEMMA RunningJob ==
    ASSUME JobInv, job.on
    PROVE  /\ job.on = TRUE /\ job.nonce = requests /\ job.since <= clock /\ job.file \in 1..Len(archive)
           /\ \E rs, id, batch, time : Anchoring(job, rs, id, batch, time, anchored, ahead)
PROOF
<1>1. ~NoJob.on
    BY DEF NoJob
<1> QED BY <1>1 DEF JobInv

LEMMA RefusesKeeps ==
    ASSUME FlowInv, UNCHANGED <<store, restores, clock, ahead, archive, requests, anchored, refused, audit>>, job' = NoJob,
           ReplyInv', LogInv'
    PROVE  FlowInv'
PROOF
<1> USE DEF FlowInv
<1>1. CountsInv' /\ StoreInv' /\ FilesInv' /\ TimestampsAreFresh' /\ SkewIsTolerated'
    BY DEF CountsInv, StoreInv, FilesInv, TimestampsAreFresh, SkewIsTolerated
<1>2. JobInv'
    BY IdleStays
<1> QED BY <1>1, <1>2

\* An answer that was checked is kept as a receipt.
LEMMA ReceiptKept ==
    ASSUME FlowInv, UNCHANGED <<store, restores, clock, ahead, archive, requests, refused, audit>>, job.on,
           NEW rs, NEW id, NEW batch, NEW time, Anchoring(job, rs, id, batch, time, anchored, ahead),
           NEW r, NEW w, anchored' = anchored \cup {w}, w.kind = "rfc3161" => w.time >= w.since,
           Backed(r, rs, HeadOver(rs, OperatorKey, batch, time), anchored \cup {w}), Timely(time, TimeOf(r), rs, ahead),
           Asks(r.kind), job' = [job EXCEPT !.receipts = Append(@, r)], ReplyInv', LogInv'
    PROVE  FlowInv'
PROOF
<1> USE DEF FlowInv
<1>1. CountsInv' /\ StoreInv' /\ SkewIsTolerated'
    BY DEF CountsInv, StoreInv, SkewIsTolerated
<1>2. TimestampsAreFresh'
    BY DEF TimestampsAreFresh
<1>3. PICK j, j2, B : j = job /\ j2 = [j EXCEPT !.receipts = Append(@, r)] /\ B = anchored \cup {w}
    OBVIOUS
<1>4. anchored \subseteq B /\ anchored' = B /\ job' = j2
    BY <1>3
<1>5. FilesInv'
    BY <1>4, FiledMore DEF FilesInv
<1>6. r.kind \in j.kinds /\ Len(j.receipts) = (IF r.kind = "rekor" /\ "rfc3161" \in j.kinds THEN 1 ELSE 0)
    BY <1>3 DEF Asks
<1>7. /\ Anchoring(j2, rs, id, batch, time, B, ahead) /\ j2.on = j.on /\ j2.nonce = j.nonce /\ j2.since = j.since
      /\ j2.file = j.file
    <2>1. Anchoring(j, rs, id, batch, time, anchored, ahead) /\ Backed(r, rs, HeadOver(rs, OperatorKey, batch, time), B)
        BY <1>3
    <2> QED BY <1>3, <1>4, <1>6, <2>1, ReceiptAdded
<1>8. job.on = TRUE /\ job.nonce = requests /\ job.since <= clock /\ job.file \in 1..Len(archive)
    BY RunningJob
<1>9. JobInv'
    BY <1>3, <1>4, <1>7, <1>8 DEF JobInv
<1> QED BY <1>1, <1>2, <1>5, <1>9

LEMMA FreshReply ==
    ASSUME NEW signer, NEW certs, NEW subject, NEW nonce, NEW time, NEW x,
           x = TimestampResponse(signer, certs, subject, nonce, time)
    PROVE  x.tst.nonce = nonce /\ x.tst.time = time
PROOF
<1>1. PICK tst, attrs, sig : tst = [imprint |-> subject, nonce |-> nonce, time |-> time]
                             /\ attrs = [digest |-> <<"sha", tst>>, ess |-> {signer}] /\ sig = Signed(signer.key, attrs)
    OBVIOUS
<1>2. x = [status |-> 0, infos |-> 1, sid |-> signer.subject, certs |-> certs, attrs |-> attrs, sig |-> sig, tst |-> tst]
    BY <1>1 DEF TimestampResponse
<1>3. x.tst = tst
    BY <1>2
<1>4. tst.nonce = nonce /\ tst.time = time
    BY <1>1
<1> QED BY <1>3, <1>4

\* The authority stamps with its own time, and a nonce is of one request only.
LEMMA TsaRepliesKeeps ==
    ASSUME FlowInv, TsaReplies
    PROVE  FlowInv'
PROOF
<1> USE DEF FlowInv
<1>1. PICK subject : subject = SubjectHash(JobHead)
    OBVIOUS
<1>2. PICK fresh : fresh = TimestampResponse(TsaCert, TsaPool, subject, job.nonce, clock)
    OBVIOUS
<1>3. PICK tsr \in replies \cup {fresh} : TsaAnswers(tsr)
    BY <1>1, <1>2 DEF TsaReplies
<1>4. Asks("rfc3161") /\ job.on /\ replies' = replies \cup {tsr}
      /\ UNCHANGED <<store, restores, clock, ahead, archive, requests, refused, log, audit>>
    BY <1>3 DEF TsaAnswers, Asks, Refuses
<1>5. job.on = TRUE /\ job.nonce = requests /\ job.since <= clock /\ job.file \in 1..Len(archive)
    BY <1>4, RunningJob
<1>6. PICK rs, id, batch, time : Anchoring(job, rs, id, batch, time, anchored, ahead)
    BY <1>4, RunningJob
<1>7. requests \in Int /\ clock \in Int /\ job.since \in Int /\ time \in Int
    BY <1>6, FlowAssumption DEF CountsInv, Anchoring
<1>8. tsr.tst.nonce <= requests /\ tsr.tst.nonce \in Int /\ tsr.tst.time \in Int
      /\ (tsr.tst.nonce = job.nonce => job.since <= tsr.tst.time)
    <2>1. CASE tsr \in replies
        BY <1>4, <2>1 DEF ReplyInv
    <2>2. CASE tsr = fresh
        <3>1. tsr.tst.nonce = job.nonce /\ tsr.tst.time = clock
            BY <1>2, <2>2, FreshReply
        <3> QED BY <1>5, <1>7, <3>1
    <2> QED BY <1>3, <2>1, <2>2
<1>9. LogInv'
    BY <1>4 DEF LogInv
<1>10. \A x \in replies : /\ x.tst.nonce <= requests /\ x.tst.nonce \in Int /\ x.tst.time \in Int
                          /\ x.tst.nonce = job.nonce => job.since <= x.tst.time
    BY <1>4 DEF ReplyInv
<1>11. CASE ~VerifyTimestampResponse(tsr, subject, job.nonce, TsaRoots)
    <2>1. job' = NoJob /\ UNCHANGED anchored
        BY <1>1, <1>3, <1>11 DEF TsaAnswers, Refuses
    <2>2. ~job'.on
        BY <2>1, IdleStays
    <2>3. ReplyInv'
        BY <1>4, <1>8, <1>10, <2>2 DEF ReplyInv
    <2> QED BY <1>4, <1>9, <2>1, <2>3, RefusesKeeps
<1>12. CASE VerifyTimestampResponse(tsr, subject, job.nonce, TsaRoots)
    <2>1. PICK h : h = HeadOver(rs, OperatorKey, batch, time)
        OBVIOUS
    <2>2. JobHead = h /\ h.batch = batch /\ job.bundle.records = rs
        BY <1>6, <2>1, SealedFields DEF Anchoring, JobHead
    <2>3. PICK r : r = TsaReceipt(h.batch, subject, job.nonce, tsr)
        OBVIOUS
    <2>4. job' = [job EXCEPT !.receipts = Append(@, r)]
        BY <1>1, <1>3, <1>12, <2>2, <2>3 DEF TsaAnswers
    <2>5. PICK w : w = [kind |-> "rfc3161", records |-> rs, time |-> tsr.tst.time, since |-> job.since]
        OBVIOUS
    <2>6. anchored' = anchored \cup {w}
        BY <1>1, <1>3, <1>12, <2>2, <2>5 DEF TsaAnswers, Witness
    <2>7. /\ r.kind = "rfc3161" /\ r.batch = h.batch /\ r.subject = subject /\ r.nonce = job.nonce /\ r.token = tsr
          /\ TimeOf(r) = tsr.tst.time
        BY <2>3, TsaReceiptIs
    <2>8. w.kind = "rfc3161" /\ w.records = rs /\ w.time = tsr.tst.time /\ w.since = job.since
        BY <2>5
    <2>9. subject = SubjectHash(h)
        BY <1>1, <2>2
    <2>10. tsr.tst.nonce = job.nonce
        BY <1>12 DEF VerifyTimestampResponse
    <2>11. job.since <= tsr.tst.time
        BY <1>8, <2>10
    <2>12. w.time >= w.since
        BY <1>7, <1>8, <2>8, <2>11
    <2>13. Backed(r, rs, h, anchored \cup {w})
        <3>1. TimeOf(r) \in Int
            BY <1>8, <2>7
        <3>2. w \in anchored \cup {w} /\ w.kind = r.kind /\ w.records = rs /\ w.time = TimeOf(r)
            BY <2>7, <2>8
        <3>3. r.kind = "rfc3161" /\ VerifyTimestampResponse(r.token, SubjectHash(h), r.nonce, TsaRoots)
            BY <1>12, <2>7, <2>9
        <3> QED BY <2>7, <2>9, <3>1, <3>2, <3>3 DEF Backed
    <2>14. Timely(time, TimeOf(r), rs, ahead)
        <3>1. Timely(time, job.since, rs, ahead)
            BY <1>6 DEF Anchoring
        <3> QED BY <1>7, <1>8, <2>7, <2>11, <3>1, TimelyLater
    <2>15. job'.nonce = job.nonce /\ job'.since = job.since
        <3>1. IsJob(job)
            BY <1>6 DEF Anchoring
        <3>2. PICK j, rcs : j = job /\ rcs = Append(j.receipts, r)
            OBVIOUS
        <3>3. SameJobBut([j EXCEPT !.receipts = rcs], j, rcs)
            BY <3>1, <3>2, WithReceipts
        <3>4. job' = [j EXCEPT !.receipts = rcs]
            BY <2>4, <3>2
        <3> QED BY <3>2, <3>3, <3>4 DEF SameJobBut
    <2>16. ReplyInv'
        BY <1>4, <1>8, <1>10, <2>15 DEF ReplyInv
    <2>17. Asks(r.kind)
        BY <1>4, <2>7
    <2> QED BY <1>4, <1>6, <1>9, <2>1, <2>4, <2>6, <2>12, <2>13, <2>14, <2>16, <2>17, ReceiptKept
<1> QED BY <1>11, <1>12

(***************************************************************************)
(* Two heads with one root are over the same records.                      *)
(***************************************************************************)
LEMMA LinkedHashes ==
    ASSUME NEW rs, Linked(rs), NEW hs, hs = HashesOf(rs)
    PROVE  IsSeq(hs) /\ Len(hs) = Len(rs) /\ RecordHashes(hs) /\ \A i \in 1..Len(rs) : hs[i] = rs[i].hash
PROOF
<1>1. PICK n \in Nat : n = Len(rs) /\ DOMAIN rs = 1..n
    BY DEF Linked, IsSeq
<1>2. hs = [i \in 1..n |-> rs[i].hash]
    BY <1>1 DEF HashesOf
<1>3. hs = [i \in 1..n |-> hs[i]]
    BY <1>2
<1>4. IsSeq(hs) /\ Len(hs) = n
    BY <1>3, SeqMade
<1>5. \A i \in 1..n : hs[i] = rs[i].hash
    BY <1>2
<1>6. \A i \in 1..n : rs[i].hash = HashRecordBytes(rs[i].canonical)
    BY <1>1, WireIs DEF Linked
<1>7. RecordHashes(hs)
    BY <1>4, <1>5, <1>6 DEF RecordHashes
<1> QED BY <1>1, <1>4, <1>5, <1>7

LEMMA StepsAre ==
    ASSUME NEW hs, IsSeq(hs), Len(hs) >= 1, NEW i, NEW steps, steps = InclusionProof(FromHashedLeaves(hs), i)
    PROVE  \E n \in Nat : DOMAIN steps = 1..n
PROOF
<1>1. PICK L : L = FromHashedLeaves(hs)
    OBVIOUS
<1>2. hs # <<>>
    BY SeqEmpty
<1>3. GoodLevels(L, hs)
    BY <1>1, <1>2, LevelsAre DEF FromHashedLeaves
<1>4. PICK m \in Nat : m = Len(L) /\ m >= 1
    BY <1>3 DEF GoodLevels, IsSeq
<1>5. DOMAIN steps = 1..(m - 1) /\ m - 1 \in Nat
    BY <1>1, <1>4 DEF InclusionProof
<1> QED BY <1>5

LEMMA MemberOf ==
    ASSUME NEW qs, Linked(qs), Len(qs) >= 1, NEW r, IsWire(r), NEW n \in Nat, NEW steps, DOMAIN steps = 1..n,
           VerifyMerkleProof(r.hash, steps, Root(FromHashedLeaves(HashesOf(qs))))
    PROVE  \E x \in 1..Len(qs) : qs[x] = r
PROOF
<1>1. PICK hs, c : hs = HashesOf(qs) /\ c = r.canonical
    OBVIOUS
<1>2. IsSeq(hs) /\ Len(hs) = Len(qs) /\ RecordHashes(hs) /\ \A i \in 1..Len(qs) : hs[i] = qs[i].hash
    BY <1>1, LinkedHashes
<1>3. r.hash = HashRecordBytes(c)
    BY <1>1, WireIs
<1>4. VerifyMerkleProof(HashRecordBytes(c), steps, Root(FromHashedLeaves(hs)))
    BY <1>1, <1>3
<1>5. PICK x \in 1..Len(hs) : hs[x] = HashRecordBytes(c)
    BY <1>2, <1>4, ProofsAreSound
<1>6. x \in 1..Len(qs) /\ qs[x].hash = r.hash /\ IsWire(qs[x])
    BY <1>2, <1>3, <1>5 DEF Linked
<1> QED BY <1>6, SameHash

LEMMA SameRoot ==
    ASSUME NEW rs, Linked(rs), Len(rs) >= 1, NEW qs, Linked(qs), Len(qs) >= 1,
           Root(FromHashedLeaves(HashesOf(rs))) = Root(FromHashedLeaves(HashesOf(qs))), NEW j \in 1..Len(rs)
    PROVE  \E x \in 1..Len(qs) : qs[x] = rs[j]
PROOF
<1>1. PICK hs : hs = HashesOf(rs)
    OBVIOUS
<1>2. IsSeq(hs) /\ Len(hs) = Len(rs) /\ RecordHashes(hs) /\ hs[j] = rs[j].hash
    BY <1>1, LinkedHashes
<1>3. PICK steps : steps = InclusionProof(FromHashedLeaves(hs), j - 1)
    OBVIOUS
<1>4. PICK n \in Nat : DOMAIN steps = 1..n
    BY <1>2, <1>3, StepsAre
<1>5. VerifyMerkleProof(hs[j], steps, Root(FromHashedLeaves(hs)))
    BY <1>2, <1>3, ProofsVerify
<1>6. PICK r : r = rs[j] /\ IsWire(r)
    BY DEF Linked
<1>7. VerifyMerkleProof(r.hash, steps, Root(FromHashedLeaves(HashesOf(qs))))
    BY <1>1, <1>2, <1>5, <1>6
<1>8. \E x \in 1..Len(qs) : qs[x] = r
    BY <1>4, <1>6, <1>7, MemberOf
<1> QED BY <1>6, <1>8

LEMMA SameSubject ==
    ASSUME NEW h, NEW g, SubjectHash(h) = SubjectHash(g)
    PROVE  h = g
PROOF
<1>1. HeadBytes(h) = HeadBytes(g)
    BY DEF SubjectHash
<1> QED BY <1>1 DEF HeadBytes
LEMMA SameEntry ==
    ASSUME NEW h, NEW g, NEW key, EntryBody(HeadBytes(h), key) = EntryBody(HeadBytes(g), key)
    PROVE  h = g
PROOF
<1>1. PICK x, y, s, t : /\ x = <<"sha512", HeadBytes(h)>> /\ y = <<"sha512", HeadBytes(g)>>
                        /\ s = Signed(key, x) /\ t = Signed(key, y)
    OBVIOUS
<1>2. [hash |-> x, key |-> key, sig |-> s] = [hash |-> y, key |-> key, sig |-> t]
    BY <1>1 DEF EntryBody
<1>3. x = y
    BY <1>2
<1>4. HeadBytes(h) = HeadBytes(g)
    BY <1>1, <1>3
<1> QED BY <1>4 DEF HeadBytes

LEMMA HeadFields ==
    ASSUME NEW rs, NEW batch, NEW time, NEW h, h = HeadOver(rs, OperatorKey, batch, time)
    PROVE  /\ h.batch = batch /\ h.time = time /\ h.root = Root(FromHashedLeaves(HashesOf(rs)))
           /\ h.first = FirstSeqOf(rs) /\ h.last = LastSeqOf(rs) /\ h.keyid = Operator
PROOF
<1>1. PICK root, first, last, sig :
         /\ root = Root(FromHashedLeaves(HashesOf(rs))) /\ first = FirstSeqOf(rs) /\ last = LastSeqOf(rs)
         /\ sig = Signed(OperatorKey, [batch |-> batch, first |-> first, last |-> last, root |-> root, time |-> time])
    OBVIOUS
<1>2. h = [batch |-> batch, first |-> first, last |-> last, root |-> root, time |-> time, keyid |-> Operator, sig |-> sig]
    BY <1>1 DEF HeadOver
<1>3. h.batch = batch /\ h.time = time /\ h.root = root /\ h.first = first /\ h.last = last /\ h.keyid = Operator
    BY <1>2
<1> QED BY <1>1, <1>3

\* An entry the log has for a head is timely for every bundle with that head.
LEMMA EntryTimely ==
    ASSUME NEW e, NEW off, Integrated(e, off), NEW rs, Linked(rs), Len(rs) >= 1, NEW batch, NEW time,
           e.body = EntryBody(HeadBytes(HeadOver(rs, OperatorKey, batch, time)), OperatorKey)
    PROVE  Timely(time, e.time, rs, off)
PROOF
<1>1. PICK qs, batch2, time2 :
         /\ Linked(qs) /\ Len(qs) >= 1 /\ time2 \in Int /\ Timely(time2, e.time, qs, off)
         /\ e.body = EntryBody(HeadBytes(HeadOver(qs, OperatorKey, batch2, time2)), OperatorKey)
    BY DEF Integrated
<1>2. PICK h, g : h = HeadOver(rs, OperatorKey, batch, time) /\ g = HeadOver(qs, OperatorKey, batch2, time2)
    OBVIOUS
<1>3. h = g
    BY <1>1, <1>2, SameEntry
<1>4. h.time = time /\ h.root = Root(FromHashedLeaves(HashesOf(rs)))
    BY <1>2, HeadFields
<1>5. g.time = time2 /\ g.root = Root(FromHashedLeaves(HashesOf(qs)))
    BY <1>2, HeadFields
<1>6. time = time2 /\ Root(FromHashedLeaves(HashesOf(rs))) = Root(FromHashedLeaves(HashesOf(qs)))
    BY <1>3, <1>4, <1>5
<1>7. ASSUME NEW j \in 1..Len(qs), time2 <= qs[j].canonical.ts
      PROVE  \E x \in 1..Len(rs) : time <= rs[x].canonical.ts
    <2>1. PICK x \in 1..Len(rs) : rs[x] = qs[j]
        BY <1>1, <1>6, SameRoot
    <2> QED BY <1>6, <1>7, <2>1
<1> QED BY <1>1, <1>6, <1>7 DEF Timely

LEMMA EntryTime ==
    ASSUME NEW key, NEW bodies, NEW i, NEW time, NEW e, e = RekorEntry(key, bodies, i, time)
    PROVE  e.time = time
PROOF
<1>1. PICK leaves : leaves = [j \in DOMAIN bodies |-> LeafHash(bodies[j])]
    OBVIOUS
<1>2. PICK root, size, body, index, plain, uuid :
         /\ root = LogRoot(leaves) /\ size = Len(bodies) /\ body = bodies[i] /\ index = i - 1 /\ uuid = leaves[i]
         /\ plain = [log |-> key, body |-> bodies[i], time |-> time, index |-> i - 1]
    OBVIOUS
<1>3. PICK set, proof, note :
         /\ set = Signed(key, SetPayload(plain))
         /\ proof = [index |-> i - 1, size |-> size, path |-> LogPath(i - 1, leaves), root |-> root]
         /\ note = [size |-> size, root |-> root, sig |-> Signed(key, [size |-> size, root |-> root])]
    OBVIOUS
<1>4. e = [log |-> key, body |-> body, time |-> time, index |-> index, set |-> set, uuid |-> uuid, proof |-> proof,
           checkpoint |-> note]
    BY <1>1, <1>2, <1>3 DEF RekorEntry
<1> QED BY <1>4

\* The log keeps one entry for a body, and the time it first saw it.
GrownLog(more, e, off) ==
    /\ IsSeq(more) /\ Len(more) \in 1..Len(more) /\ more[Len(more)] = e
    /\ \A i \in 1..Len(more) : Integrated(more[i], off)
LEMMA LogGrows ==
    ASSUME NEW l, IsSeq(l), NEW off, \A i \in 1..Len(l) : Integrated(l[i], off), NEW e, Integrated(e, off),
           NEW more, more = Append(l, e)
    PROVE  GrownLog(more, e, off)
PROOF
<1>1. PICK n \in Nat : n = Len(l)
    BY DEF IsSeq
<1>2. IsSeq(more) /\ Len(more) = n + 1 /\ (\A i \in 1..n : more[i] = l[i]) /\ more[n + 1] = e
    BY <1>1, SeqAppend
<1>3. \A i \in 1..(n + 1) : i \in 1..n \/ i = n + 1
    OBVIOUS
<1>4. n + 1 \in 1..(n + 1)
    OBVIOUS
<1>5. \A i \in 1..Len(more) : Integrated(more[i], off)
    BY <1>1, <1>2, <1>3
<1> QED BY <1>2, <1>4, <1>5 DEF GrownLog

LEMMA RekorAnswersKeeps ==
    ASSUME FlowInv, RekorAnswers
    PROVE  FlowInv'
PROOF
<1> USE DEF FlowInv
<1>1. Asks("rekor") /\ job.on
    BY DEF RekorAnswers, Asks
<1>2. job.on = TRUE /\ job.nonce = requests /\ job.since <= clock /\ job.file \in 1..Len(archive)
    BY <1>1, RunningJob
<1>3. PICK rs, id, batch, time : Anchoring(job, rs, id, batch, time, anchored, ahead)
    BY <1>1, RunningJob
<1>4. clock \in Int /\ job.since \in Int /\ time \in Int /\ Linked(rs) /\ Len(rs) >= 1
    BY <1>3, FlowAssumption DEF CountsInv, Anchoring
<1>5. PICK h : h = HeadOver(rs, OperatorKey, batch, time)
    OBVIOUS
<1>6. JobHead = h /\ h.batch = batch /\ job.bundle.records = rs
    BY <1>3, <1>5, SealedFields DEF Anchoring, JobHead
<1>7. PICK body : body = EntryBody(HeadBytes(h), OperatorKey)
    OBVIOUS
<1>8. PICK had : had = {i \in DOMAIN log : log[i].body = body}
    OBVIOUS
<1>9. PICK new : new = [body |-> body, time |-> clock]
    OBVIOUS
<1>10. PICK grown : grown = IF had = {} THEN Append(log, new) ELSE log
    OBVIOUS
<1>11. PICK i : i = IF had = {} THEN Len(grown) ELSE Min(had)
    OBVIOUS
<1>12. PICK bodies, at : bodies = [j \in DOMAIN grown |-> grown[j].body] /\ at = grown[i].time
    OBVIOUS
<1>13. PICK entry : entry = RekorEntry(LogKey, bodies, i, at)
    OBVIOUS
<1>14. UNCHANGED <<store, restores, clock, ahead, archive, requests, replies, refused, audit>> /\ log' = grown
    BY <1>6, <1>7, <1>8, <1>9, <1>10, <1>11, <1>12, <1>13 DEF RekorAnswers, Refuses
<1>15. IsSeq(log) /\ \A k \in 1..Len(log) : Integrated(log[k], ahead)
    BY DEF LogInv
<1>16. /\ IsSeq(grown) /\ i \in 1..Len(grown) /\ grown[i].body = body
       /\ \A k \in 1..Len(grown) : Integrated(grown[k], ahead)
    <2>1. CASE had = {}
        <3>1. new.body = body /\ new.time = clock
            BY <1>9
        <3>2. Timely(time, clock, rs, ahead)
            <4>1. Timely(time, job.since, rs, ahead)
                BY <1>3 DEF Anchoring
            <4> QED BY <1>2, <1>4, <4>1, TimelyLater
        <3>3. Integrated(new, ahead)
            BY <1>4, <1>5, <1>7, <3>1, <3>2 DEF Integrated
        <3>4. grown = Append(log, new) /\ i = Len(grown)
            BY <1>10, <1>11, <2>1
        <3>5. GrownLog(grown, new, ahead)
            BY <1>15, <3>3, <3>4, LogGrows
        <3> QED BY <3>1, <3>4, <3>5 DEF GrownLog
    <2>2. CASE had # {}
        <3>1. grown = log /\ i = Min(had)
            BY <1>10, <1>11, <2>2
        <3>2. had \subseteq 1..Len(log) /\ had \in SUBSET Nat
            BY <1>8, <1>15 DEF IsSeq
        <3>3. \E x \in had : \A y \in had : x <= y
            BY <2>2, <3>2, LeastNumber
        <3>4. Min(had) = CHOOSE x \in had : \A y \in had : x <= y
            BY DEF Min
        <3>5. Min(had) \in had
            BY <3>3, <3>4
        <3>6. i \in had /\ i \in 1..Len(grown) /\ grown[i].body = body
            BY <1>8, <3>1, <3>2, <3>5
        <3> QED BY <1>15, <3>1, <3>6
    <2> QED BY <2>1, <2>2
<1>17. LogInv'
    BY <1>14, <1>16 DEF LogInv
<1>18. CASE ~VerifyRekorEntry(entry.uuid, entry, LogKey, HeadBytes(h), OperatorKey)
    <2>1. job' = NoJob /\ UNCHANGED anchored
        BY <1>6, <1>7, <1>8, <1>9, <1>10, <1>11, <1>12, <1>13, <1>18 DEF RekorAnswers, Refuses
    <2>2. ~job'.on
        BY <2>1, IdleStays
    <2>3. ReplyInv'
        BY <1>14, <2>2 DEF ReplyInv
    <2> QED BY <1>14, <1>17, <2>1, <2>3, RefusesKeeps
<1>19. CASE VerifyRekorEntry(entry.uuid, entry, LogKey, HeadBytes(h), OperatorKey)
    <2>1. PICK r : r = RekorReceipt(h.batch, SubjectHash(h), entry)
        OBVIOUS
    <2>2. PICK w : w = [kind |-> "rekor", records |-> rs, time |-> entry.time, since |-> job.since]
        OBVIOUS
    <2>0. /\ job' = [job EXCEPT !.receipts = Append(@, RekorReceipt(JobHead.batch, SubjectHash(JobHead), entry))]
          /\ anchored' = anchored \cup {Witness("rekor", entry.time)}
        <3>1. body = EntryBody(HeadBytes(JobHead), OperatorKey)
            BY <1>6, <1>7
        <3>2. VerifyRekorEntry(entry.uuid, entry, LogKey, HeadBytes(JobHead), OperatorKey)
            BY <1>6, <1>19
        <3> QED BY <1>8, <1>9, <1>10, <1>11, <1>12, <1>13, <3>1, <3>2, Zenon DEF RekorAnswers
    <2>3. job' = [job EXCEPT !.receipts = Append(@, r)]
        <3>1. RekorReceipt(JobHead.batch, SubjectHash(JobHead), entry) = r
            BY <1>6, <2>1
        <3> QED BY <2>0, <3>1
    <2>4. anchored' = anchored \cup {w}
        <3>1. Witness("rekor", entry.time) = w
            BY <1>6, <2>2 DEF Witness
        <3> QED BY <2>0, <3>1
    <2>5. entry.time = at
        BY <1>13, EntryTime
    <2>6. at \in Int /\ Timely(time, at, rs, ahead)
        <3>1. PICK e : e = grown[i] /\ Integrated(e, ahead) /\ e.body = body
            BY <1>16
        <3>2. e.time \in Int
            BY <3>1 DEF Integrated
        <3>3. Timely(time, e.time, rs, ahead)
            BY <1>4, <1>5, <1>7, <3>1, EntryTimely
        <3> QED BY <1>12, <3>1, <3>2, <3>3
    <2>7. r.kind = "rekor" /\ r.batch = h.batch /\ r.subject = SubjectHash(h) /\ r.token = entry /\ TimeOf(r) = at
        BY <2>1, <2>5, RekorReceiptIs
    <2>8. w.kind = "rekor" /\ w.records = rs /\ w.time = at
        BY <2>2, <2>5
    <2>9. w.kind = "rfc3161" => w.time >= w.since
        BY <2>8
    <2>10. Backed(r, rs, h, anchored \cup {w})
        <3>1. TimeOf(r) \in Int
            BY <2>6, <2>7
        <3>2. w \in anchored \cup {w} /\ w.kind = r.kind /\ w.records = rs /\ w.time = TimeOf(r)
            BY <2>7, <2>8
        <3>3. r.kind = "rekor" /\ VerifyRekorEntry(r.token.uuid, r.token, LogKey, HeadBytes(h), OperatorKey)
            BY <1>19, <2>7
        <3> QED BY <2>7, <3>1, <3>2, <3>3 DEF Backed
    <2>11. Timely(time, TimeOf(r), rs, ahead)
        BY <2>6, <2>7
    <2>12. job'.nonce = job.nonce /\ job'.since = job.since
        <3>1. IsJob(job)
            BY <1>3 DEF Anchoring
        <3>2. PICK j, rcs : j = job /\ rcs = Append(j.receipts, r)
            OBVIOUS
        <3>3. SameJobBut([j EXCEPT !.receipts = rcs], j, rcs)
            BY <3>1, <3>2, WithReceipts
        <3>4. job' = [j EXCEPT !.receipts = rcs]
            BY <2>3, <3>2
        <3> QED BY <3>2, <3>3, <3>4 DEF SameJobBut
    <2>13. ReplyInv'
        BY <1>1, <1>14, <2>12 DEF ReplyInv
    <2>14. Asks(r.kind)
        BY <1>1, <2>7
    <2> QED BY <1>1, <1>3, <1>5, <1>14, <1>17, <2>3, <2>4, <2>9, <2>10, <2>11, <2>13, <2>14, ReceiptKept
<1> QED BY <1>18, <1>19

LEMMA AttachCoheres ==
    ASSUME NEW rs, NEW ps, NEW hs, NEW receipts, IsSeq(receipts), NEW id, NEW key, NEW b,
           b = Coherent(rs, ps, hs, <<>>, id, key)
    PROVE  AttachReceipts(b, receipts, key) = Coherent(rs, ps, hs, receipts, id, key)
PROOF
<1>1. PICK m, e : m = ManifestOf(rs, hs, <<>>, id, key) /\ e = <<>>
    OBVIOUS
<1>2. b = BundleOf(rs, ps, hs, key, e, m)
    BY <1>1 DEF Coherent
<1>3. m.body.id = id
    <2>0. m = ManifestOf(rs, hs, e, id, key)
        BY <1>1
    <2>1. /\ m # None /\ m.keyid = Operator /\ m.sig = Signed(key, m.body)
           /\ m.body.count = Len(rs) /\ m.body.first = FirstSeqOf(rs) /\ m.body.last = LastSeqOf(rs)
           /\ m.body.tip = TipOf(rs) /\ m.body.operator = Operator /\ m.body.id = id
           /\ m.body.heads = [i \in DOMAIN hs |-> hs[i].batch]
           /\ m.body.anchors = [i \in DOMAIN e |-> <<e[i].kind, e[i].batch>>]
        BY <2>0, ManifestFields
    <2> QED BY <2>1
<1>4. b.manifest = m /\ b.receipts = e
    BY <1>2 DEF BundleOf
<1>5. e \o receipts = receipts
    <2>1. PICK X : receipts \in Seq(X)
        BY SeqOver
    <2> QED BY <1>1, <2>1
<1>6. PICK with : with = [b EXCEPT !.receipts = receipts]
    OBVIOUS
<1>7. with = BundleOf(rs, ps, hs, key, receipts, m)
    <2>1. PICK ks, v, none : ks = [k \in {Operator} |-> key] /\ v = BundleVersion /\ none = {}
        OBVIOUS
    <2>2. b = [version |-> v, records |-> rs, proofs |-> ps, heads |-> hs, keys |-> ks,
               receipts |-> e, packs |-> none, manifest |-> m]
        BY <1>2, <2>1 DEF BundleOf
    <2>3. with = [version |-> v, records |-> rs, proofs |-> ps, heads |-> hs, keys |-> ks,
                  receipts |-> receipts, packs |-> none, manifest |-> m]
        BY <1>6, <2>2
    <2> QED BY <2>1, <2>3 DEF BundleOf
<1>8. PICK m2 : m2 = ManifestOf(rs, hs, receipts, id, key)
    OBVIOUS
<1>9. BuildManifest(with, id, key) = m2
    BY <1>7, <1>8, ManifestBuilt
<1>10. [BundleOf(rs, ps, hs, key, receipts, m) EXCEPT !.manifest = m2] = BundleOf(rs, ps, hs, key, receipts, m2)
    BY WithManifest
<1>11. [b EXCEPT !.receipts = @ \o receipts] = with
    BY <1>4, <1>5, <1>6
<1>12. AttachReceipts(b, receipts, key) = [with EXCEPT !.manifest = BuildManifest(with, id, key)]
    BY <1>3, <1>4, <1>11 DEF AttachReceipts
<1> QED BY <1>7, <1>8, <1>9, <1>10, <1>12 DEF Coherent

\* Each kind asked for has its one receipt when the command is done.
LEMMA KindsCount ==
    ASSUME NEW rcs, NEW kinds, Collected(rcs, kinds)
    PROVE  /\ Len(rcs) <= Cardinality(kinds)
           /\ Len(rcs) = Cardinality(kinds) => {rcs[i].kind : i \in DOMAIN rcs} = kinds
PROOF
<1>1. PICK n \in Nat : n = Len(rcs) /\ n <= 2 /\ DOMAIN rcs = 1..n
    BY DEF Collected, IsSeq
<1>2. PICK a, c : a = "rfc3161" /\ c = "rekor"
    OBVIOUS
<1>3. kinds \subseteq {a, c} /\ a # c
    BY <1>2 DEF Collected, Kinds2
<1>4. (\A i \in 1..n : rcs[i].kind \in kinds) /\ (n = 2 => rcs[1].kind = a /\ rcs[2].kind = c)
    BY <1>1, <1>2 DEF Collected
<1>5. n = 0 \/ n = 1 \/ n = 2
    BY <1>1
<1>6. n = 1 => 1..n = {1} /\ 1 \in 1..n
    OBVIOUS
<1>7. n = 2 => 1..n = {1, 2} /\ 1 \in 1..n /\ 2 \in 1..n
    OBVIOUS
<1>8. Cardinality({}) = 0 /\ Cardinality({a}) = 1 /\ Cardinality({c}) = 1 /\ IsFiniteSet({a})
    BY FS_EmptySet, FS_Singleton
<1>9. Cardinality({a} \cup {c}) = 2
    <2>1. c \notin {a}
        BY <1>3
    <2>2. Cardinality({a} \cup {c}) = Cardinality({a}) + 1
        BY <1>8, <2>1, FS_AddElement
    <2> QED BY <1>8, <2>2
<1>10. {a} \cup {c} = {a, c}
    OBVIOUS
<1>11. kinds = {} \/ kinds = {a} \/ kinds = {c} \/ kinds = {a, c}
    BY <1>3
<1>12. PICK ks : ks = {rcs[i].kind : i \in 1..n}
    OBVIOUS
<1>13. ASSUME NEW k \in Nat, k = Cardinality(kinds) PROVE n <= k /\ (n = k => ks = kinds)
    <2>1. CASE kinds = {}
        <3>1. k = 0 /\ n = 0
            BY <1>4, <1>5, <1>6, <1>7, <1>8, <1>13, <2>1
        <3>2. 1..n = {}
            BY <3>1
        <3>3. ks = {}
            BY <1>12, <3>2
        <3> QED BY <2>1, <3>1, <3>3
    <2>2. CASE kinds = {a}
        <3>1. k = 1
            BY <1>8, <1>13, <2>2
        <3>2. n # 2
            BY <1>3, <1>4, <1>7, <2>2
        <3>3. n = 1 => ks = kinds
            BY <1>4, <1>6, <1>12, <2>2
        <3> QED BY <1>5, <3>1, <3>2, <3>3
    <2>3. CASE kinds = {c}
        <3>1. k = 1
            BY <1>8, <1>13, <2>3
        <3>2. n # 2
            BY <1>3, <1>4, <1>7, <2>3
        <3>3. n = 1 => ks = kinds
            BY <1>4, <1>6, <1>12, <2>3
        <3> QED BY <1>5, <3>1, <3>2, <3>3
    <2>4. CASE kinds = {a, c}
        <3>1. k = 2
            BY <1>9, <1>10, <1>13, <2>4
        <3>2. n = 2 => ks = kinds
            BY <1>4, <1>7, <1>12, <2>4
        <3> QED BY <1>5, <3>1, <3>2
    <2> QED BY <1>11, <2>1, <2>2, <2>3, <2>4
<1>14. Cardinality(kinds) \in Nat
    BY <1>8, <1>9, <1>10, <1>11
<1> QED BY <1>1, <1>12, <1>13, <1>14

\* The operator's own bundle may take the receipts of its head.
LEMMA MayAttach ==
    ASSUME NEW b, NEW rs, NEW id, NEW batch, NEW time, SealedAs(b, rs, id, batch, time, <<>>), NEW rcs, IsSeq(rcs),
           \A i \in 1..Len(rcs) : rcs[i].batch = batch
    PROVE  MayBeAttached(b, rcs, OperatorKey)
PROOF
<1>1. PICK h, hs, ps, e : h = HeadOver(rs, OperatorKey, batch, time) /\ hs = <<h>> /\ ps = ProofsOver(rs, batch) /\ e = <<>>
    OBVIOUS
<1>2. b = Coherent(rs, ps, hs, e, id, OperatorKey)
    BY <1>1 DEF SealedAs
<1>3. PICK m : m = ManifestOf(rs, hs, e, id, OperatorKey)
    OBVIOUS
<1>4. b.manifest = m /\ b.keys[Operator] = OperatorKey
    BY <1>2, <1>3, BundleFields
<1>5. m # None /\ m.body.operator = Operator
    <2>1. /\ m # None /\ m.keyid = Operator /\ m.sig = Signed(OperatorKey, m.body)
           /\ m.body.count = Len(rs) /\ m.body.first = FirstSeqOf(rs) /\ m.body.last = LastSeqOf(rs)
           /\ m.body.tip = TipOf(rs) /\ m.body.operator = Operator /\ m.body.id = id
           /\ m.body.heads = [i \in DOMAIN hs |-> hs[i].batch]
           /\ m.body.anchors = [i \in DOMAIN e |-> <<e[i].kind, e[i].batch>>]
        BY <1>3, ManifestFields
    <2> QED BY <2>1
<1>6. CheckOperator(b, OperatorKey)
    BY <1>4, <1>5 DEF CheckOperator
<1>7. DOMAIN b.heads = {1} /\ b.heads[1].batch = batch
    BY SealedFields
<1>8. DOMAIN rcs = 1..Len(rcs)
    BY DEF IsSeq
<1> QED BY <1>6, <1>7, <1>8 DEF MayBeAttached

LEMMA FirstAnchor ==
    ASSUME NEW rcs, NEW kinds, Collected(rcs, kinds), \A i \in 1..Len(rcs) : TimeOf(rcs[i]) \in Int, NEW i \in 1..Len(rcs)
    PROVE  Min(AnchorTimes(rcs)) \in Int /\ Min(AnchorTimes(rcs)) <= TimeOf(rcs[i])
PROOF
<1>1. PICK n \in Nat : n = Len(rcs) /\ n <= 2 /\ DOMAIN rcs = 1..n
    BY DEF Collected, IsSeq
<1>2. AnchorTimes(rcs) = {TimeOf(rcs[k]) : k \in 1..n}
    BY <1>1 DEF AnchorTimes, TimeOf
<1>3. n = 1 \/ n = 2
    BY <1>1
<1>4. CASE n = 1
    <2>1. 1..n = {1} /\ 1 \in 1..n /\ i = 1
        BY <1>1, <1>4
    <2>2. PICK t \in Int : t = TimeOf(rcs[1])
        BY <1>1, <2>1
    <2>3. AnchorTimes(rcs) = {t, t}
        BY <1>2, <2>1, <2>2
    <2>4. Min({t, t}) \in {t, t} /\ Min({t, t}) <= t
        BY MinOfTwo
    <2> QED BY <2>1, <2>2, <2>3, <2>4
<1>5. CASE n = 2
    <2>1. 1..n = {1, 2} /\ 1 \in 1..n /\ 2 \in 1..n /\ i \in {1, 2}
        BY <1>1, <1>5
    <2>2. PICK t \in Int, u \in Int : t = TimeOf(rcs[1]) /\ u = TimeOf(rcs[2])
        BY <1>1, <2>1
    <2>3. AnchorTimes(rcs) = {t, u}
        BY <1>2, <2>1, <2>2
    <2>4. Min({t, u}) \in {t, u} /\ Min({t, u}) <= t /\ Min({t, u}) <= u
        BY MinOfTwo
    <2> QED BY <2>1, <2>2, <2>3, <2>4
<1> QED BY <1>3, <1>4, <1>5

LEMMA TrustIs ==
    ASSUME NEW kinds
    PROVE  /\ "rfc3161" \in kinds => TrustFor(kinds).tsa = TsaRoots
           /\ "rfc3161" \notin kinds => TrustFor(kinds).tsa = None
           /\ "rekor" \in kinds => TrustFor(kinds).rekor = LogKey
           /\ "rekor" \notin kinds => TrustFor(kinds).rekor = NoLogKey
PROOF
<1>1. PICK t, l : t = (IF "rfc3161" \in kinds THEN TsaRoots ELSE None) /\ l = (IF "rekor" \in kinds THEN LogKey ELSE NoLogKey)
    OBVIOUS
<1>2. TrustFor(kinds) = [tsa |-> t, rekor |-> l]
    BY <1>1 DEF TrustFor
<1>3. TrustFor(kinds).tsa = t /\ TrustFor(kinds).rekor = l
    BY <1>2
<1> QED BY <1>1, <1>3

\* The kinds in play under the trust of the kinds that were asked.
LEMMA InPlay ==
    ASSUME NEW b, NEW kinds \in SUBSET Kinds2
    PROVE  ExternalKinds(b, TrustFor(kinds)) = (Kinds(b) \cap Kinds2) \cup kinds
PROOF
<1>1. PICK a, c : a = "rfc3161" /\ c = "rekor"
    OBVIOUS
<1>2. PICK trust : trust = TrustFor(kinds)
    OBVIOUS
<1>3. /\ a \in kinds => trust.tsa = TsaRoots
      /\ a \notin kinds => trust.tsa = None
      /\ c \in kinds => trust.rekor = LogKey
      /\ c \notin kinds => trust.rekor = NoLogKey
    BY <1>1, <1>2, TrustIs
<1>4. (IF trust.tsa # None THEN {a} ELSE {}) = kinds \cap {a}
    BY <1>3, FlowAssumption
<1>5. (IF trust.rekor # NoLogKey THEN {c} ELSE {}) = kinds \cap {c}
    BY <1>3, FlowAssumption
<1>6. ExternalKinds(b, trust) = (Kinds(b) \cap {a, c}) \cup (kinds \cap {a}) \cup (kinds \cap {c})
    BY <1>1, <1>4, <1>5 DEF ExternalKinds
<1>7. Kinds2 = {a, c}
    BY <1>1 DEF Kinds2
<1> QED BY <1>2, <1>6, <1>7

\* A receipt that was checked when it came is still good, if nothing under its
\* head is later than it.
LEMMA BackedVerifies ==
    ASSUME NEW b, NEW rs, Linked(rs), NEW id, NEW batch, NEW time, NEW rcs, SealedAs(b, rs, id, batch, time, rcs),
           HeadsOf(b, batch) = {1}, NEW h, h = HeadOver(rs, OperatorKey, batch, time),
           NEW r, NEW A, Backed(r, rs, h, A), NEW kinds, r.kind \in kinds, time <= TimeOf(r),
           \A j \in 1..Len(rs) : rs[j].canonical.ts <= TimeOf(r)
    PROVE  ReceiptVerifies(b, r, TrustFor(kinds))
PROOF
<1>1. b.records = rs /\ DOMAIN b.heads = {1} /\ b.heads[1] = h
    BY SealedFields
<1>2. h.batch = batch /\ h.time = time /\ h.keyid = Operator
    BY HeadFields
<1>3. DOMAIN b.keys = {Operator} /\ b.keys[Operator] = OperatorKey
    <2>1. PICK hs, ps : hs = <<HeadOver(rs, OperatorKey, batch, time)>> /\ ps = ProofsOver(rs, batch)
        OBVIOUS
    <2>2. b = Coherent(rs, ps, hs, rcs, id, OperatorKey)
        BY <2>1 DEF SealedAs
    <2> QED BY <2>2, BundleFields
<1>4. r.batch = batch /\ r.subject = SubjectHash(h)
    BY <1>2 DEF Backed
<1>5. HeadsOf(b, r.batch) # {} /\ b.heads[Min(HeadsOf(b, r.batch))] = h
    <2>1. HeadsOf(b, r.batch) = {1}
        BY <1>4
    <2>2. Min(HeadsOf(b, r.batch)) = 1
        BY <2>1, OnlyOne
    <2> QED BY <1>1, <2>1, <2>2
<1>6. CheckAnchorTime(b, h, TimeOf(r))
    <2>1. DOMAIN b.records = 1..Len(rs)
        BY <1>1 DEF Linked, IsSeq
    <2> QED BY <1>1, <1>2, <2>1 DEF CheckAnchorTime
<1>7. PICK trust : trust = TrustFor(kinds)
    OBVIOUS
<1>8. CASE r.kind = "rfc3161"
    <2>1. "rfc3161" # "rekor"
        OBVIOUS
    <2>2. trust.tsa = TsaRoots /\ trust.tsa # None
        BY <1>7, <1>8, TrustIs, FlowAssumption
    <2>3. VerifyTimestampResponse(r.token, SubjectHash(h), r.nonce, TsaRoots) /\ TimeOf(r) = r.token.tst.time
        BY <1>8, <2>1 DEF Backed, TimeOf
    <2>4. Rfc3161Verifies(b, r, h, trust)
        BY <1>4, <1>6, <2>2, <2>3 DEF Rfc3161Verifies
    <2> QED BY <1>5, <1>7, <1>8, <2>4 DEF ReceiptVerifies
<1>9. CASE r.kind = "rekor"
    <2>1. "rfc3161" # "rekor"
        OBVIOUS
    <2>2. trust.rekor = LogKey /\ trust.rekor # NoLogKey
        BY <1>7, <1>9, TrustIs, FlowAssumption
    <2>3. VerifyRekorEntry(r.token.uuid, r.token, LogKey, HeadBytes(h), OperatorKey) /\ TimeOf(r) = r.token.time
        BY <1>9, <2>1 DEF Backed, TimeOf
    <2>4. RekorVerifies(b, r, h, trust)
        BY <1>2, <1>3, <1>4, <1>6, <2>2, <2>3 DEF RekorVerifies
    <2> QED BY <1>5, <1>7, <1>9, <2>1, <2>4 DEF ReceiptVerifies
<1>10. r.kind = "rfc3161" \/ r.kind = "rekor"
    BY DEF Backed
<1> QED BY <1>8, <1>9, <1>10

LEMMA SealedCovers ==
    ASSUME NEW b, NEW rs, Chained(rs), Len(rs) >= 1, NEW id, NEW batch, NEW time, NEW rcs,
           SealedAs(b, rs, id, batch, time, rcs), NEW kinds,
           \A k \in kinds : \E j \in DOMAIN rcs : rcs[j].batch = batch /\ rcs[j].kind = k
    PROVE  CheckCoverage(b, kinds)
PROOF
<1>1. /\ \A i \in 1..Len(rs) : HeadsOver(b, i - 1) = {1}
      /\ \A i \in 1..Len(rs) : VerifyMerkleProof(rs[i].hash, b.proofs[i].steps, b.heads[1].root)
    BY SealedChecks DEF SealedAs
<1>2. PICK h, hs, ps : h = HeadOver(rs, OperatorKey, batch, time) /\ hs = <<h>> /\ ps = ProofsOver(rs, batch)
    OBVIOUS
<1>3. b.records = rs /\ DOMAIN b.heads = {1} /\ b.heads[1] = h /\ b.receipts = rcs /\ b.heads # <<>> /\ h.batch = batch
    BY <1>2, SealedFields
<1>4. b.proofs = ps
    BY <1>2, BundleFields DEF SealedAs
<1>5. PICK n \in Nat : n = Len(rs) /\ DOMAIN rs = 1..n
    BY DEF Chained, IsSeq
<1>6. h.first = 0
    BY <1>2, SealedHead
<1>7. ASSUME NEW i \in 1..n
      PROVE  /\ HeadsOver(b, rs[i].seq) # {} /\ b.heads[Min(HeadsOver(b, rs[i].seq))] = h
             /\ i \in DOMAIN ps /\ ps[i].batch = h.batch /\ ps[i].index = rs[i].seq - h.first
             /\ VerifyMerkleProof(rs[i].hash, ps[i].steps, h.root)
    <2>1. rs[i].seq = i - 1
        BY <1>5 DEF Chained
    <2>2. HeadsOver(b, rs[i].seq) = {1}
        BY <1>1, <1>5, <2>1
    <2>3. Min(HeadsOver(b, rs[i].seq)) = 1
        BY <2>2, OnlyOne
    <2>4. PICK steps : steps = InclusionProof(FromHashedLeaves(HashesOf(rs)), i - 1)
        OBVIOUS
    <2>5. ps[i] = [batch |-> batch, index |-> i - 1, steps |-> steps] /\ i \in DOMAIN ps
        BY <1>2, <1>5, <2>4 DEF ProofsOver
    <2>6. ps[i].batch = batch /\ ps[i].index = i - 1
        BY <2>5
    <2>7. i - 1 - h.first = i - 1
        BY <1>6
    <2>8. VerifyMerkleProof(rs[i].hash, ps[i].steps, h.root)
        BY <1>1, <1>3, <1>4, <1>5
    <2> QED BY <1>3, <2>1, <2>2, <2>3, <2>5, <2>6, <2>7, <2>8
<1>8. \A i \in DOMAIN b.heads, k \in kinds :
          \E j \in DOMAIN b.receipts : b.receipts[j].batch = b.heads[i].batch /\ b.receipts[j].kind = k
    BY <1>3
<1>9. \A i \in DOMAIN b.records :
          LET r == b.records[i]
              over == HeadsOver(b, r.seq)
              head == b.heads[Min(over)]
          IN /\ over # {} /\ i \in DOMAIN b.proofs
             /\ b.proofs[i].batch = head.batch /\ b.proofs[i].index = r.seq - head.first
             /\ VerifyMerkleProof(r.hash, b.proofs[i].steps, head.root)
    <2> SUFFICES ASSUME NEW i \in 1..n
                 PROVE  LET r == b.records[i]
                            over == HeadsOver(b, r.seq)
                            head == b.heads[Min(over)]
                        IN /\ over # {} /\ i \in DOMAIN b.proofs
                           /\ b.proofs[i].batch = head.batch /\ b.proofs[i].index = r.seq - head.first
                           /\ VerifyMerkleProof(r.hash, b.proofs[i].steps, head.root)
        BY <1>3, <1>5
    <2> QED BY <1>3, <1>4, <1>7
<1> QED BY <1>3, <1>8, <1>9 DEF CheckCoverage

\* With a clock that is right but for the skew, the self-check of the command
\* passes if no record is stamped after the first anchor.
LEMMA SelfChecks ==
    ASSUME NEW b, NEW rs, Linked(rs), Chained(rs), Len(rs) >= 1, NEW id, NEW batch, NEW time \in Int, NEW rcs,
           SealedAs(b, rs, id, batch, time, rcs), NEW kinds, Collected(rcs, kinds), Len(rcs) = Cardinality(kinds),
           NEW A, NEW h, h = HeadOver(rs, OperatorKey, batch, time), \A i \in 1..Len(rcs) : Backed(rcs[i], rs, h, A),
           NEW off, off <= Skew, \A i \in 1..Len(rcs) : Timely(time, TimeOf(rcs[i]), rs, off),
           ~(NewestRecord(b) > Min(AnchorTimes(rcs)))
    PROVE  VerifyAnchors(b, TrustFor(kinds))
PROOF
<1>1. CheckHeads(b) /\ HeadsOf(b, batch) = {1}
    BY SealedChecks DEF SealedAs
<1>2. b.records = rs /\ b.receipts = rcs /\ h.batch = batch
    BY SealedFields
<1>3. PICK n \in Nat : n = Len(rcs) /\ DOMAIN rcs = 1..n
    BY DEF Collected, IsSeq
<1>4. \A i \in 1..n : TimeOf(rcs[i]) \in Int /\ rcs[i].batch = batch /\ rcs[i].kind \in kinds
    BY <1>2, <1>3 DEF Backed, Collected
<1>5. NewestRecord(b) \in Int /\ \A j \in 1..Len(rs) : rs[j].canonical.ts <= NewestRecord(b) /\ rs[j].canonical.ts \in Int
    BY <1>2, Newest DEF Linked, IsWire
<1>6. ASSUME NEW i \in 1..n PROVE ReceiptVerifies(b, rcs[i], TrustFor(kinds))
    <2>1. PICK r, t : r = rcs[i] /\ t = TimeOf(rcs[i])
        OBVIOUS
    <2>2. PICK first : first = Min(AnchorTimes(rcs))
        OBVIOUS
    <2>3. first \in Int /\ first <= t
        BY <1>3, <1>4, <2>1, <2>2, FirstAnchor
    <2>4. t \in Int
        BY <1>4, <2>1
    <2>5. NewestRecord(b) <= t
        BY <1>5, <2>2, <2>3, <2>4
    <2>6. \A j \in 1..Len(rs) : rs[j].canonical.ts <= t
        BY <1>5, <2>4, <2>5
    <2>7. time <= t \/ \E j \in 1..Len(rs) : time <= rs[j].canonical.ts
        BY <1>3, <2>1 DEF Timely
    <2>8. time <= t
        BY <1>5, <2>4, <2>6, <2>7
    <2>9. Backed(r, rs, h, A) /\ r.kind \in kinds
        BY <1>3, <1>4, <2>1
    <2>10. ReceiptVerifies(b, r, TrustFor(kinds))
        BY <1>1, <2>1, <2>6, <2>8, <2>9, BackedVerifies
    <2> QED BY <2>1, <2>10
<1>7. {rcs[i].kind : i \in DOMAIN rcs} = kinds
    BY KindsCount
<1>8. kinds \in SUBSET Kinds2
    BY DEF Collected
<1>9. Kinds(b) = kinds
    BY <1>2, <1>7 DEF Kinds
<1>10. ExternalKinds(b, TrustFor(kinds)) = kinds
    BY <1>8, <1>9, InPlay
<1>11. \A k \in kinds : \E j \in DOMAIN rcs : rcs[j].batch = batch /\ rcs[j].kind = k
    BY <1>3, <1>4, <1>7
<1>12. CheckCoverage(b, kinds)
    BY <1>11, SealedCovers
<1> QED BY <1>1, <1>2, <1>3, <1>6, <1>10, <1>12 DEF VerifyAnchors

LEMMA FilesSwap ==
    ASSUME NEW files, IsSeq(files), NEW A, \A i \in 1..Len(files) : Filed(files[i], A), NEW b, Filed(b, A),
           NEW f \in 1..Len(files), NEW other, other = [files EXCEPT ![f] = b]
    PROVE  IsSeq(other) /\ Len(other) = Len(files) /\ \A i \in 1..Len(other) : Filed(other[i], A)
PROOF
<1>1. PICK n \in Nat : n = Len(files) /\ DOMAIN files = 1..n
    BY DEF IsSeq
<1>2. other = [i \in 1..n |-> IF i = f THEN b ELSE files[i]]
    BY <1>1
<1>3. other = [i \in 1..n |-> other[i]]
    BY <1>2
<1>4. IsSeq(other) /\ Len(other) = n
    BY <1>3, SeqMade
<1>5. \A i \in 1..n : other[i] = b \/ other[i] = files[i]
    BY <1>2
<1> QED BY <1>1, <1>4, <1>5

LEMMA ChainsWhole ==
    ASSUME NEW b, NEW rs, b.records = rs, Linked(rs), VerifyChain(b)
    PROVE  Chained(rs)
PROOF
<1>1. DOMAIN rs = 1..Len(rs) /\ IsSeq(rs)
    BY DEF Linked, IsSeq
<1> QED BY <1>1 DEF VerifyChain, Chained

LEMMA FinishesAnchorKeeps ==
    ASSUME FlowInv, FinishesAnchor
    PROVE  FlowInv'
PROOF
<1> USE DEF FlowInv
<1>1. job.on /\ Len(job.receipts) = Cardinality(job.kinds)
      /\ UNCHANGED <<store, restores, clock, ahead, requests, replies, log, anchored, audit>> /\ job' = NoJob
    BY DEF FinishesAnchor
<1>2. JobInv' /\ ~job'.on
    BY <1>1, IdleStays
<1>3. CountsInv' /\ StoreInv' /\ LogInv' /\ TimestampsAreFresh'
    BY <1>1 DEF CountsInv, StoreInv, LogInv, TimestampsAreFresh
<1>4. ReplyInv'
    BY <1>1, <1>2 DEF ReplyInv
<1>5. job.file \in 1..Len(archive)
    BY <1>1, RunningJob
<1>6. PICK rs, id, batch, time : Anchoring(job, rs, id, batch, time, anchored, ahead)
    BY <1>1, RunningJob
<1>7. PICK h, rcs, kinds, old : h = HeadOver(rs, OperatorKey, batch, time) /\ rcs = job.receipts /\ kinds = job.kinds
                                /\ old = job.bundle
    OBVIOUS
<1>8. /\ Linked(rs) /\ Len(rs) >= 1 /\ SealedAs(old, rs, id, batch, time, <<>>) /\ time \in Int
      /\ Collected(rcs, kinds) /\ Len(rcs) = Cardinality(kinds) /\ IsSeq(rcs)
      /\ \A i \in 1..Len(rcs) : Backed(rcs[i], rs, h, anchored) /\ Timely(time, TimeOf(rcs[i]), rs, ahead)
    BY <1>1, <1>6, <1>7 DEF Anchoring, Collected
<1>9. PICK b : b = AttachReceipts(old, rcs, OperatorKey)
    OBVIOUS
<1>10. SealedAs(b, rs, id, batch, time, rcs)
    <2>1. PICK ps, hs : ps = ProofsOver(rs, batch) /\ hs = <<HeadOver(rs, OperatorKey, batch, time)>>
        OBVIOUS
    <2>2. old = Coherent(rs, ps, hs, <<>>, id, OperatorKey)
        BY <1>8, <2>1 DEF SealedAs
    <2>3. b = Coherent(rs, ps, hs, rcs, id, OperatorKey)
        BY <1>8, <1>9, <2>2, AttachCoheres
    <2> QED BY <2>1, <2>3 DEF SealedAs
<1>11. b.records = rs /\ b.receipts = rcs /\ h.batch = batch
    BY <1>7, <1>10, SealedFields
<1>12. MayBeAttached(old, rcs, OperatorKey)
    <2>1. \A i \in 1..Len(rcs) : rcs[i].batch = batch
        BY <1>8, <1>11 DEF Backed
    <2> QED BY <1>8, <2>1, MayAttach
<1>13. Kinds(b) = kinds
    BY <1>8, <1>11, KindsCount DEF Kinds
<1>14. CASE SelfCheck(b, TrustFor(kinds))
    <2>1. archive' = [archive EXCEPT ![job.file] = b] /\ UNCHANGED refused
        BY <1>7, <1>9, <1>12, <1>14 DEF FinishesAnchor
    <2>2. AnchoredFile(b, rs, id, batch, time, rcs, anchored)
        BY <1>7, <1>8, <1>10, <1>13, <1>14 DEF AnchoredFile
    <2>3. Filed(b, anchored)
        BY <1>8, <2>2 DEF Filed
    <2>4. PICK other : other = [archive EXCEPT ![job.file] = b]
        OBVIOUS
    <2>5. IsSeq(other) /\ Len(other) = Len(archive) /\ \A i \in 1..Len(other) : Filed(other[i], anchored)
        BY <1>5, <2>3, <2>4, FilesSwap DEF FilesInv
    <2>6. FilesInv'
        BY <1>1, <2>1, <2>4, <2>5 DEF FilesInv
    <2>7. SkewIsTolerated'
        BY <2>1 DEF SkewIsTolerated
    <2> QED BY <1>2, <1>3, <1>4, <2>6, <2>7
<1>15. CASE ~SelfCheck(b, TrustFor(kinds))
    <2>1. refused' = [chain |-> VerifyAll(b) /\ VerifyManifest(b), ahead |-> ahead,
                      late |-> NewestRecord(b) > Min(AnchorTimes(b.receipts))] /\ UNCHANGED archive
        BY <1>7, <1>9, <1>12, <1>15 DEF FinishesAnchor
    <2>2. FilesInv'
        BY <1>1, <2>1 DEF FilesInv
    <2>3. ~(VerifyAll(b) /\ VerifyManifest(b)) \/ ahead > Skew \/ NewestRecord(b) > Min(AnchorTimes(b.receipts))
        <3> SUFFICES ASSUME VerifyAll(b), VerifyManifest(b), ~(ahead > Skew),
                            ~(NewestRecord(b) > Min(AnchorTimes(rcs)))
                     PROVE  FALSE
            BY <1>11
        <3>1. Chained(rs)
            BY <1>8, <1>11, ChainsWhole DEF VerifyAll
        <3>2. ahead <= Skew
            <4>1. ahead \in Int /\ Skew \in Int
                BY FlowAssumption DEF CountsInv
            <4> QED BY <4>1
        <3>3. VerifyAnchors(b, TrustFor(kinds))
            BY <1>7, <1>8, <1>10, <3>1, <3>2, SelfChecks
        <3> QED BY <1>15, <3>3 DEF SelfCheck
    <2>4. PICK c, l : c = (VerifyAll(b) /\ VerifyManifest(b)) /\ l = (NewestRecord(b) > Min(AnchorTimes(b.receipts)))
        OBVIOUS
    <2>5. refused' = [chain |-> c, ahead |-> ahead, late |-> l]
        BY <2>1, <2>4
    <2>6. refused'.chain = c /\ refused'.ahead = ahead /\ refused'.late = l
        BY <2>5
    <2>7. SkewIsTolerated'
        BY <2>3, <2>4, <2>6 DEF SkewIsTolerated
    <2> QED BY <1>2, <1>3, <1>4, <2>2, <2>7
<1> QED BY <1>14, <1>15

LEMMA EmptyStore ==
    ASSUME NEW s, s = <<>>
    PROVE  IsSeq(s) /\ 1..Len(s) = {} /\ Linked(s) /\ Chained(s)
PROOF
<1>1. IsSeq(s) /\ Len(s) = 0 /\ 1..0 = {}
    BY SeqEmpty
<1> QED BY <1>1 DEF Linked, Chained

LEMMA AuditsKeeps ==
    ASSUME FlowInv, Audits
    PROVE  FlowInv'
PROOF
<1> USE DEF FlowInv
<1>1. /\ ~job.on /\ store' = <<>> /\ clock' = MaxClock /\ log' = <<>> /\ replies' = {} /\ requests' = MaxRequests
      /\ refused' = NotRefused /\ ahead' = 0 /\ UNCHANGED <<archive, job, anchored>>
    BY DEF Audits
<1>2. FilesInv' /\ TimestampsAreFresh'
    BY <1>1 DEF FilesInv, TimestampsAreFresh
<1>3. JobInv'
    BY <1>1, Idle, IdleStays
<1>4. CountsInv'
    BY <1>1, FlowAssumption DEF CountsInv
<1>5. ReplyInv'
    BY <1>1 DEF ReplyInv
<1>6. PICK e : e = <<>>
    OBVIOUS
<1>7. IsSeq(e) /\ 1..Len(e) = {} /\ Linked(e) /\ Chained(e)
    BY <1>6, EmptyStore
<1>8. store' = e /\ log' = e
    BY <1>1, <1>6
<1>9. StoreInv' /\ LogInv'
    BY <1>7, <1>8 DEF StoreInv, LogInv
<1>10. SkewIsTolerated'
    BY <1>1 DEF SkewIsTolerated, NotRefused
<1> QED BY <1>2, <1>3, <1>4, <1>5, <1>9, <1>10

LEMMA FlowStarts == FlowInit => FlowInv
PROOF
<1> SUFFICES ASSUME FlowInit PROVE FlowInv
    OBVIOUS
<1>1. PICK e : e = <<>>
    OBVIOUS
<1>2. IsSeq(e) /\ 1..Len(e) = {} /\ Linked(e) /\ Chained(e)
    BY <1>1, EmptyStore
<1>3. store = e /\ log = e /\ archive = e /\ Len(e) = 0
    BY <1>1, SeqEmpty DEF FlowInit
<1>4. StoreInv /\ LogInv
    BY <1>2, <1>3 DEF StoreInv, LogInv
<1>5. FilesInv
    <2>1. Len(archive) <= MaxBundles
        BY <1>3, FlowAssumption
    <2> QED BY <1>2, <1>3, <2>1 DEF FilesInv
<1>6. CountsInv
    BY FlowAssumption DEF FlowInit, CountsInv
<1>7. JobInv /\ ReplyInv /\ TimestampsAreFresh
    BY DEF FlowInit, JobInv, ReplyInv, TimestampsAreFresh
<1>8. SkewIsTolerated
    BY DEF FlowInit, SkewIsTolerated, NotRefused
<1> QED BY <1>4, <1>5, <1>6, <1>7, <1>8 DEF FlowInv

\* What the host's store, its files, the running `cloakpipe anchor` and the two
\* services are, for any number of records, files, requests and restores: the
\* store is one chain in the order of its times; every file is an export or a
\* sealed bundle whose receipts were checked when they came and whose self-check
\* passed; an answer of the authority is as old as its nonce (ledger/store.rs
\* append, ledger/export.rs, cli/anchor.rs).
THEOREM FlowInvariant == FlowSpec => []FlowInv
PROOF
<1>1. FlowInit => FlowInv
    BY FlowStarts
<1>2. FlowInv /\ [FlowNext]_flowVars => FlowInv'
    <2> SUFFICES ASSUME FlowInv, [FlowNext]_flowVars PROVE FlowInv'
        OBVIOUS
    <2>1. ASSUME NEW hop \in Hops, RecordHop(hop) PROVE FlowInv'
        BY <2>1, RecordHopKeeps
    <2>2. CASE ClockTicks
        BY <2>2, ClockTicksKeeps
    <2>3. ASSUME NEW k \in 0..(Len(store) - 1), RestoresBackup(k) PROVE FlowInv'
        BY <2>3, RestoresKeeps
    <2>4. ASSUME NEW from \in {0, 2}, Exports(from) PROVE FlowInv'
        BY <2>4, ExportsKeeps
    <2>5. ASSUME NEW i \in DOMAIN archive, NEW kinds \in Asked, NEW batch \in Batches, StartsAnchor(i, kinds, batch)
          PROVE  FlowInv'
        BY <2>5, StartsAnchorKeeps
    <2>6. CASE TsaReplies
        BY <2>6, TsaRepliesKeeps
    <2>7. CASE RekorAnswers
        BY <2>7, RekorAnswersKeeps
    <2>8. CASE AnchorFails
        BY <2>8, AnchorFailsKeeps
    <2>9. CASE FinishesAnchor
        BY <2>9, FinishesAnchorKeeps
    <2>10. CASE Audits
        BY <2>10, AuditsKeeps
    <2>11. CASE UNCHANGED flowVars
        <3>1. UNCHANGED <<store, clock, ahead, archive, job, requests, replies, log, anchored, refused>>
            BY <2>11 DEF flowVars
        <3>2. CountsInv' /\ StoreInv' /\ FilesInv' /\ JobInv'
            BY <3>1 DEF FlowInv, CountsInv, StoreInv, FilesInv, JobInv
        <3>3. ReplyInv' /\ LogInv' /\ TimestampsAreFresh' /\ SkewIsTolerated'
            BY <3>1 DEF FlowInv, ReplyInv, LogInv, TimestampsAreFresh, SkewIsTolerated
        <3> QED BY <3>2, <3>3 DEF FlowInv
    <2> QED BY <2>1, <2>2, <2>3, <2>4, <2>5, <2>6, <2>7, <2>8, <2>9, <2>10, <2>11 DEF FlowNext
<1> QED BY <1>1, <1>2, PTL DEF FlowSpec

(***************************************************************************)
(* What is written verifies.                                               *)
(***************************************************************************)
LEMMA CoherentSigned ==
    ASSUME NEW rs, NEW ps, NEW hs, NEW rcs, NEW id, NEW b, b = Coherent(rs, ps, hs, rcs, id, OperatorKey)
    PROVE  b.version = 4 /\ b.manifest # None /\ b.manifest.keyid = Operator /\ DOMAIN b.keys = {Operator}
           /\ b.keys[Operator] = OperatorKey
PROOF
<1>1. b.version = 4 /\ DOMAIN b.keys = {Operator} /\ b.keys[Operator] = OperatorKey
      /\ b.manifest = ManifestOf(rs, hs, rcs, id, OperatorKey)
    BY BundleFields
<1>2. PICK m : m = b.manifest
    OBVIOUS
<1>3. /\ m # None /\ m.keyid = Operator /\ m.sig = Signed(OperatorKey, m.body)
      /\ m.body.count = Len(rs) /\ m.body.first = FirstSeqOf(rs) /\ m.body.last = LastSeqOf(rs)
      /\ m.body.tip = TipOf(rs)
      /\ m.body.heads = [i \in DOMAIN hs |-> hs[i].batch]
      /\ m.body.anchors = [i \in DOMAIN rcs |-> <<rcs[i].kind, rcs[i].batch>>]
    BY <1>1, <1>2, ManifestFields
<1> QED BY <1>1, <1>2, <1>3

LEMMA SignedIsTrusted ==
    ASSUME NEW b, b.version = 4, b.manifest # None, b.manifest.keyid = Operator, DOMAIN b.keys = {Operator},
           b.keys[Operator] = OperatorKey, NEW kinds, RunAllV2(b, TrustFor(kinds))
    PROVE  Verdict(b, kinds, TRUE) = "trusted"
PROOF
<1>1. PICK pinned : pinned = Pins(TRUE)
    OBVIOUS
<1>2. pinned = [k \in {Operator} |-> OperatorKey]
    BY <1>1 DEF Pins
<1>3. DOMAIN pinned = {Operator} /\ pinned[Operator] = OperatorKey /\ DOMAIN pinned # {}
    BY <1>2
<1>4. CheckTrustedSigner(b, pinned)
    BY <1>3 DEF CheckTrustedSigner
<1>5. SignerStatus(b, pinned) = "trusted"
    BY <1>3, <1>4 DEF SignerStatus
<1>6. b.version >= 2
    OBVIOUS
<1> QED BY <1>1, <1>5, <1>6 DEF Verdict, All

LEMMA ExportVerifies ==
    ASSUME NEW b, NEW rs, NEW id, Linked(rs), ExportFile(b, rs, id), FirstSeqOf(rs) = 0
    PROVE  Verdict(b, Kinds(b), TRUE) = "trusted"
PROOF
<1>1. PICK e : e = <<>>
    OBVIOUS
<1>2. b = Coherent(rs, e, e, e, id, OperatorKey)
    BY <1>1 DEF ExportFile
<1>3. b.version = 4 /\ b.records = rs /\ b.proofs = e /\ b.heads = e /\ b.receipts = e
    BY <1>2, BundleFields
<1>4. Chained(rs)
    <2>1. Len(rs) >= 1 => rs[1].seq = 0
        <3>1. Len(rs) >= 1 => rs # <<>>
            BY LastIs DEF Linked
        <3> QED BY <3>1 DEF FirstSeqOf
    <2> QED BY <2>1, LinkedFromZero
<1>5. VerifyChain(b) /\ VerifyManifest(b)
    BY <1>2, <1>4, CoherentVerifies
<1>6. DOMAIN e = {}
    BY <1>1, SeqNothing
<1>7. VerifySigs(b) /\ CheckHeads(b)
    BY <1>3, <1>6 DEF VerifySigs, CheckHeads
<1>8. VerifyInclusionProofs(b)
    BY <1>3, <1>6, <1>7 DEF VerifyInclusionProofs
<1>9. VerifyAll(b)
    BY <1>3, <1>5, <1>7 DEF VerifyAll, BundleVersion
<1>10. Kinds(b) = {}
    BY <1>3, <1>6 DEF Kinds
<1>11. ExternalKinds(b, TrustFor(Kinds(b))) = {}
    <2>1. {} \in SUBSET Kinds2
        OBVIOUS
    <2>2. ExternalKinds(b, TrustFor({})) = (Kinds(b) \cap Kinds2) \cup {}
        BY <2>1, InPlay
    <2> QED BY <1>10, <2>2
<1>12. VerifyAnchors(b, TrustFor(Kinds(b)))
    BY <1>3, <1>6, <1>7, <1>11 DEF VerifyAnchors
<1>13. RunAllV2(b, TrustFor(Kinds(b)))
    BY <1>5, <1>8, <1>9, <1>12 DEF RunAllV2
<1> QED BY <1>2, <1>13, CoherentSigned, SignedIsTrusted

LEMMA AnchoredVerifies ==
    ASSUME NEW b, NEW rs, NEW id, NEW batch, NEW time, NEW rcs, NEW A, Linked(rs),
           AnchoredFile(b, rs, id, batch, time, rcs, A)
    PROVE  Verdict(b, Kinds(b), TRUE) = "trusted"
PROOF
<1>1. SealedAs(b, rs, id, batch, time, rcs) /\ SelfCheck(b, TrustFor(Kinds(b))) /\ Len(rs) >= 1
    BY DEF AnchoredFile
<1>2. b.records = rs
    BY <1>1, SealedFields
<1>3. Chained(rs)
    BY <1>1, <1>2, ChainsWhole DEF SelfCheck, VerifyAll
<1>4. VerifyInclusionProofs(b)
    BY <1>1, <1>3, SealedChecks DEF SealedAs
<1>5. RunAllV2(b, TrustFor(Kinds(b)))
    BY <1>1, <1>4 DEF RunAllV2, SelfCheck
<1>6. PICK hs, ps : hs = <<HeadOver(rs, OperatorKey, batch, time)>> /\ ps = ProofsOver(rs, batch)
    OBVIOUS
<1>7. b = Coherent(rs, ps, hs, rcs, id, OperatorKey)
    BY <1>1, <1>6 DEF SealedAs
<1> QED BY <1>5, <1>7, CoherentSigned, SignedIsTrusted

LEMMA WrittenHolds == FlowInv => WrittenVerifies
PROOF
<1> SUFFICES ASSUME FlowInv, NEW b \in Range(archive)
             PROVE  Verdict(b, Kinds(b), TRUE) = "trusted" \/ (b.receipts = <<>> /\ FirstSeqOf(b.records) # 0)
    BY DEF WrittenVerifies
<1>1. Filed(b, anchored)
    BY DEF FlowInv, FilesInv, IsSeq, Range
<1>2. PICK rs, id : Linked(rs) /\ (ExportFile(b, rs, id) \/ \E batch, time, rcs : AnchoredFile(b, rs, id, batch, time, rcs, anchored))
    BY <1>1 DEF Filed
<1>3. CASE ExportFile(b, rs, id)
    <2>1. b.records = rs /\ b.receipts = <<>>
        BY <1>3, BundleFields DEF ExportFile
    <2> QED BY <1>2, <1>3, <2>1, ExportVerifies
<1>4. ASSUME NEW batch, NEW time, NEW rcs, AnchoredFile(b, rs, id, batch, time, rcs, anchored)
      PROVE  Verdict(b, Kinds(b), TRUE) = "trusted"
    BY <1>2, <1>4, AnchoredVerifies
<1> QED BY <1>2, <1>3, <1>4

LEMMA FlowTypeHolds == FlowInv => FlowTypeOK
PROOF
<1> SUFFICES ASSUME FlowInv PROVE FlowTypeOK
    OBVIOUS
<1>1. clock \in 1..MaxClock /\ ahead \in 0..MaxAhead /\ requests \in 0..MaxRequests /\ Len(archive) <= MaxBundles
    BY DEF FlowInv, CountsInv, FilesInv
<1>2. VerifyChain([records |-> store])
    <2>1. PICK s, b : s = store /\ b = [records |-> s]
        OBVIOUS
    <2>2. b.records = s /\ Chained(s)
        BY <2>1 DEF FlowInv, StoreInv
    <2>3. DOMAIN s = 1..Len(s)
        BY <2>2 DEF Chained, IsSeq
    <2>4. VerifyChain(b)
        BY <2>2, <2>3 DEF VerifyChain, Chained
    <2> QED BY <2>1, <2>4
<1>3. ASSUME job.on PROVE Len(job.receipts) <= Cardinality(job.kinds)
    <2>1. PICK rs, id, batch, time : Anchoring(job, rs, id, batch, time, anchored, ahead)
        BY <1>3, RunningJob DEF FlowInv
    <2>2. Collected(job.receipts, job.kinds)
        BY <2>1 DEF Anchoring
    <2> QED BY <2>2, KindsCount
<1> QED BY <1>1, <1>2, <1>3 DEF FlowTypeOK

\* An honest host is believed, whatever its clock, the services' answers and the
\* backups it was restored from: its ledger is one chain, `cloakpipe anchor`
\* refuses it for its clock only beyond --clock-skew-secs or when a record is
\* stamped after the anchor, and every bundle it wrote, and every whole export,
\* is trusted by `cloakpipe-verify all` (anchor.rs seal_time, attach_receipts;
\* verify_all, verify_anchors_with_trust, verify_inclusion_proofs,
\* verify_manifest).
THEOREM HonestIsTrusted == FlowSpec => []HonestHostIsTrusted
PROOF
<1>1. FlowInv => HonestHostIsTrusted
    BY FlowTypeHolds, WrittenHolds DEF HonestHostIsTrusted, FlowInv
<1> QED BY <1>1, FlowInvariant, PTL

(***************************************************************************)
(* What is trusted is true.                                                *)
(***************************************************************************)
\* A bundle whose parts are parts of files, whoever put them together.
Handed(b, A) ==
    /\ b.version \in {3, 4}
    /\ \A i \in DOMAIN b.records : IsWire(b.records[i])
    /\ b.heads = <<>> \/ \E rs, batch, time :
          Linked(rs) /\ Len(rs) >= 1 /\ b.heads = <<HeadOver(rs, OperatorKey, batch, time)>>
    /\ \A i \in DOMAIN b.receipts : \E rs, batch, time :
          Linked(rs) /\ Len(rs) >= 1 /\ Backed(b.receipts[i], rs, HeadOver(rs, OperatorKey, batch, time), A)
    /\ \A i \in DOMAIN b.proofs : \E n \in Nat : DOMAIN b.proofs[i].steps = 1..n

\* A verdict other than fail needs every check of run_all_v2.
LEMMA NotFailed ==
    ASSUME NEW b, b.version \in {3, 4}, NEW kinds, NEW pinned, Verdict(b, kinds, pinned) # "fail"
    PROVE  RunAllV2(b, TrustFor(kinds))
PROOF
<1>1. b.version >= 2
    OBVIOUS
<1> QED BY <1>1 DEF Verdict, All

\* A receipt of an external kind that passes is of that head and late enough.
LEMMA ReceiptSays ==
    ASSUME NEW b, NEW r, NEW trust, ReceiptVerifies(b, r, trust), NEW h, HeadsOf(b, r.batch) = {1}, b.heads[1] = h,
           r.kind \in Kinds2
    PROVE  r.subject = SubjectHash(h) /\ CheckAnchorTime(b, h, TimeOf(r))
PROOF
<1>1. Min(HeadsOf(b, r.batch)) = 1
    BY OnlyOne
<1>2. b.heads[Min(HeadsOf(b, r.batch))] = h
    BY <1>1
<1>3. "rfc3161" # "rekor"
    OBVIOUS
<1>4. CASE r.kind = "rfc3161"
    <2>1. Rfc3161Verifies(b, r, h, trust)
        BY <1>2, <1>4 DEF ReceiptVerifies
    <2>2. TimeOf(r) = r.token.tst.time
        BY <1>3, <1>4 DEF TimeOf
    <2> QED BY <2>1, <2>2 DEF Rfc3161Verifies
<1>5. CASE r.kind = "rekor"
    <2>1. RekorVerifies(b, r, h, trust)
        BY <1>2, <1>3, <1>5 DEF ReceiptVerifies
    <2>2. TimeOf(r) = r.token.time
        BY <1>5 DEF TimeOf
    <2> QED BY <2>1, <2>2 DEF RekorVerifies
<1> QED BY <1>4, <1>5 DEF Kinds2

\* Whoever put the bundle together: if it passes under a trust input, its very
\* records were anchored by that service, and in time.
LEMMA HandedAnchored ==
    ASSUME NEW b, Handed(b, anchored), NEW kinds \in SUBSET Kinds2, NEW kind \in kinds, NEW pinned,
           Verdict(b, kinds, pinned) # "fail"
    PROVE  WasThere(b, kind)
PROOF
<1>1. PICK trust : trust = TrustFor(kinds)
    OBVIOUS
<1>2. RunAllV2(b, trust)
    BY <1>1, NotFailed DEF Handed
<1>3. PICK ek : ek = ExternalKinds(b, trust)
    OBVIOUS
<1>4. kind \in ek /\ kind \in Kinds2
    BY <1>1, <1>3, InPlay
<1>5. (\A i \in DOMAIN b.receipts : ReceiptVerifies(b, b.receipts[i], trust)) /\ CheckCoverage(b, ek)
    <2>1. ~(b.version < 2)
        BY DEF Handed
    <2> QED BY <1>2, <1>3, <1>4, <2>1 DEF RunAllV2, VerifyAnchors
<1>6. b.heads # <<>>
    BY <1>5 DEF CheckCoverage
<1>7. PICK qs, qb, qt : Linked(qs) /\ Len(qs) >= 1 /\ b.heads = <<HeadOver(qs, OperatorKey, qb, qt)>>
    BY <1>6 DEF Handed
<1>8. PICK h : h = HeadOver(qs, OperatorKey, qb, qt)
    OBVIOUS
<1>9. DOMAIN b.heads = {1} /\ b.heads[1] = h
    <2>1. DOMAIN <<h>> = 1..1 /\ <<h>>[1] = h
        BY SeqOne
    <2>2. 1..1 = {1}
        OBVIOUS
    <2> QED BY <1>7, <1>8, <2>1, <2>2
<1>10. PICK j \in DOMAIN b.receipts : b.receipts[j].batch = h.batch /\ b.receipts[j].kind = kind
    BY <1>4, <1>5, <1>9 DEF CheckCoverage
<1>11. PICK r : r = b.receipts[j]
    OBVIOUS
<1>12. PICK rs, rb, rt : Linked(rs) /\ Len(rs) >= 1 /\ Backed(r, rs, HeadOver(rs, OperatorKey, rb, rt), anchored)
    BY <1>11 DEF Handed
<1>13. PICK g : g = HeadOver(rs, OperatorKey, rb, rt)
    OBVIOUS
<1>14. HeadsOf(b, r.batch) = {1}
    BY <1>9, <1>10, <1>11 DEF HeadsOf
<1>15. r.subject = SubjectHash(h) /\ CheckAnchorTime(b, h, TimeOf(r))
    BY <1>4, <1>5, <1>9, <1>10, <1>11, <1>14, ReceiptSays
<1>16. r.subject = SubjectHash(g)
    BY <1>12, <1>13 DEF Backed
<1>17. h = g
    BY <1>15, <1>16, SameSubject
<1>18. h.root = Root(FromHashedLeaves(HashesOf(rs)))
    BY <1>13, <1>17, HeadFields
<1>19. PICK w \in anchored : w.kind = kind /\ w.records = rs /\ w.time = TimeOf(r)
    BY <1>10, <1>11, <1>12 DEF Backed
<1>20. ASSUME NEW i \in DOMAIN b.records
       PROVE  b.records[i] \in Range(rs) /\ b.records[i].canonical.ts <= TimeOf(r)
    <2>1. PICK q : q = b.records[i] /\ IsWire(q)
        BY DEF Handed
    <2>2. PICK over : over = HeadsOver(b, q.seq)
        OBVIOUS
    <2>3. over # {} /\ i \in DOMAIN b.proofs /\ VerifyMerkleProof(q.hash, b.proofs[i].steps, b.heads[Min(over)].root)
        BY <1>5, <2>1, <2>2 DEF CheckCoverage
    <2>4. over = {1} /\ h.first <= q.seq /\ q.seq <= h.last
        BY <1>9, <2>2, <2>3 DEF HeadsOver
    <2>5. Min(over) = 1
        BY <2>4, OnlyOne
    <2>6. PICK steps : steps = b.proofs[i].steps
        OBVIOUS
    <2>7. VerifyMerkleProof(q.hash, steps, Root(FromHashedLeaves(HashesOf(rs))))
        BY <1>9, <1>18, <2>3, <2>5, <2>6
    <2>8. PICK n \in Nat : DOMAIN steps = 1..n
        BY <2>3, <2>6 DEF Handed
    <2>9. \E x \in 1..Len(rs) : rs[x] = q
        BY <1>12, <2>1, <2>7, <2>8, MemberOf
    <2>10. q \in Range(rs)
        BY <1>12, <2>9 DEF Range, Linked, IsSeq
    <2>11. q.canonical.ts <= TimeOf(r)
        BY <1>15, <2>1, <2>4 DEF CheckAnchorTime
    <2> QED BY <2>1, <2>10, <2>11
<1>21. Range(b.records) \subseteq Range(w.records) /\ \A q \in Range(b.records) : q.canonical.ts <= w.time
    BY <1>19, <1>20 DEF Range
<1> QED BY <1>19, <1>21 DEF WasThere

Fields == {"version", "records", "proofs", "heads", "keys", "receipts", "packs", "manifest"}
\* What a file is, part by part.
FileIs(b, A) ==
    /\ Handed(b, A) /\ DOMAIN b = Fields /\ b.version = 4 /\ Linked(b.records) /\ IsSeq(b.receipts)
    /\ b.manifest.body.count = Len(b.records) /\ b.manifest.body.tip = TipOf(b.records)
LEMMA CoherentParts ==
    ASSUME NEW rs, NEW ps, NEW hs, NEW rcs, NEW id, NEW b, b = Coherent(rs, ps, hs, rcs, id, OperatorKey)
    PROVE  DOMAIN b = Fields /\ b.version = 4 /\ b.manifest.body.count = Len(rs) /\ b.manifest.body.tip = TipOf(rs)
PROOF
<1>1. b.version = 4 /\ b.manifest = ManifestOf(rs, hs, rcs, id, OperatorKey)
    BY BundleFields
<1>2. PICK m : m = b.manifest
    OBVIOUS
<1>3. /\ m # None /\ m.keyid = Operator /\ m.sig = Signed(OperatorKey, m.body)
      /\ m.body.count = Len(rs) /\ m.body.first = FirstSeqOf(rs) /\ m.body.last = LastSeqOf(rs)
      /\ m.body.tip = TipOf(rs)
      /\ m.body.heads = [i \in DOMAIN hs |-> hs[i].batch]
      /\ m.body.anchors = [i \in DOMAIN rcs |-> <<rcs[i].kind, rcs[i].batch>>]
    BY <1>1, <1>2, ManifestFields
<1>4. DOMAIN b = Fields
    <2>1. PICK ks, v, none : ks = [k \in {Operator} |-> OperatorKey] /\ v = BundleVersion /\ none = {}
        OBVIOUS
    <2>2. PICK m2 : m2 = ManifestOf(rs, hs, rcs, id, OperatorKey)
        OBVIOUS
    <2>3. b = [version |-> v, records |-> rs, proofs |-> ps, heads |-> hs, keys |-> ks,
               receipts |-> rcs, packs |-> none, manifest |-> m2]
        BY <2>1, <2>2 DEF BundleOf, Coherent
    <2> QED BY <2>3 DEF Fields
<1> QED BY <1>1, <1>2, <1>3, <1>4

LEMMA RecordsAreWire ==
    ASSUME NEW rs, Linked(rs)
    PROVE  \A i \in DOMAIN rs : IsWire(rs[i])
PROOF
BY DEF Linked, IsSeq

LEMMA FileParts ==
    ASSUME NEW A, NEW b, Filed(b, A)
    PROVE  FileIs(b, A)
PROOF
<1>1. PICK rs, id : Linked(rs) /\ (ExportFile(b, rs, id) \/ \E batch, time, rcs : AnchoredFile(b, rs, id, batch, time, rcs, A))
    BY DEF Filed
<1>2. CASE ExportFile(b, rs, id)
    <2>1. PICK e : e = <<>>
        OBVIOUS
    <2>2. b = Coherent(rs, e, e, e, id, OperatorKey)
        BY <1>2, <2>1 DEF ExportFile
    <2>3. b.records = rs /\ b.proofs = e /\ b.heads = e /\ b.receipts = e
        BY <2>2, BundleFields
    <2>4. DOMAIN e = {} /\ IsSeq(e)
        BY <2>1, SeqNothing, SeqEmpty
    <2>5. DOMAIN b = Fields /\ b.version = 4 /\ b.manifest.body.count = Len(rs) /\ b.manifest.body.tip = TipOf(rs)
        BY <2>2, CoherentParts
    <2>6. \A i \in DOMAIN rs : IsWire(rs[i])
        BY <1>1, RecordsAreWire
    <2>7. b.version \in {3, 4} /\ b.heads = <<>>
        BY <2>1, <2>3, <2>5
    <2>8. Handed(b, A)
        BY <2>3, <2>4, <2>6, <2>7 DEF Handed
    <2> QED BY <1>1, <2>3, <2>4, <2>5, <2>8 DEF FileIs
<1>3. ASSUME NEW batch, NEW time, NEW rcs, AnchoredFile(b, rs, id, batch, time, rcs, A)
      PROVE  FileIs(b, A)
    <2>1. PICK h, hs, ps : h = HeadOver(rs, OperatorKey, batch, time) /\ hs = <<h>> /\ ps = ProofsOver(rs, batch)
        OBVIOUS
    <2>2. b = Coherent(rs, ps, hs, rcs, id, OperatorKey)
        BY <1>3, <2>1 DEF AnchoredFile, SealedAs
    <2>3. b.records = rs /\ b.proofs = ps /\ b.heads = hs /\ b.receipts = rcs
        BY <2>2, BundleFields
    <2>4. DOMAIN b = Fields /\ b.version = 4 /\ b.manifest.body.count = Len(rs) /\ b.manifest.body.tip = TipOf(rs)
        BY <2>2, CoherentParts
    <2>5. \A i \in DOMAIN rs : IsWire(rs[i])
        BY <1>1, RecordsAreWire
    <2>6. IsSeq(rcs) /\ Len(rs) >= 1 /\ \A i \in 1..Len(rcs) : Backed(rcs[i], rs, h, A)
        BY <1>3, <2>1 DEF AnchoredFile
    <2>7. \A i \in DOMAIN rcs : \E qs, bt, tm :
             Linked(qs) /\ Len(qs) >= 1 /\ Backed(rcs[i], qs, HeadOver(qs, OperatorKey, bt, tm), A)
        <3>1. DOMAIN rcs = 1..Len(rcs)
            BY <2>6 DEF IsSeq
        <3> QED BY <1>1, <2>1, <2>6, <3>1
    <2>8. ASSUME NEW i \in DOMAIN ps PROVE \E n \in Nat : DOMAIN ps[i].steps = 1..n
        <3>1. PICK ls : ls = HashesOf(rs)
            OBVIOUS
        <3>2. IsSeq(ls) /\ Len(ls) = Len(rs)
            BY <1>1, <3>1, LinkedHashes
        <3>3. PICK steps, at : steps = InclusionProof(FromHashedLeaves(ls), i - 1) /\ at = i - 1
            OBVIOUS
        <3>4. ps[i] = [batch |-> batch, index |-> at, steps |-> steps]
            BY <2>1, <3>1, <3>3 DEF ProofsOver
        <3>5. ps[i].steps = steps
            BY <3>4
        <3>6. \E n \in Nat : DOMAIN steps = 1..n
            BY <2>6, <3>2, <3>3, StepsAre
        <3> QED BY <3>5, <3>6
    <2>9. b.version \in {3, 4}
        BY <2>4
    <2>10. b.heads = <<HeadOver(rs, OperatorKey, batch, time)>>
        BY <2>1, <2>3
    <2>11. Handed(b, A)
        BY <1>1, <2>3, <2>5, <2>6, <2>7, <2>8, <2>9, <2>10 DEF Handed
    <2> QED BY <1>1, <2>3, <2>4, <2>6, <2>11 DEF FileIs
<1> QED BY <1>1, <1>2, <1>3

\* What a filter keeps was there.
LEMMA FilteredFrom ==
    ASSUME NEW s, IsSeq(s), NEW kept
    PROVE  \A j \in DOMAIN Filtered(s, kept) : \E i \in DOMAIN s : Filtered(s, kept)[j] = s[i]
PROOF
<1>1. PICK n \in Nat : n = Len(s) /\ DOMAIN s = 1..n
    BY DEF IsSeq
<1>2. PICK f : f = CHOOSE upTo : FilterIs(upTo, n, s, kept)
    OBVIOUS
<1>3. FilterIs(f, n, s, kept)
    BY <1>2, FilterExists
<1>4. Filtered(s, kept) = f[n]
    BY <1>1, <1>2 DEF Filtered, FilterIs
<1> DEFINE Fine(i) == IsSeq(f[i]) /\ \A j \in 1..Len(f[i]) : \E x \in 1..n : f[i][j] = s[x]
           S == {i \in 0..n : Fine(i)}
<1>5. 0 \in S
    <2>1. f[0] = <<>> /\ 0 \in 0..n
        BY <1>1, <1>3 DEF FilterIs
    <2>2. PICK e : e = <<>> /\ IsSeq(e) /\ 1..Len(e) = {}
        BY EmptyStore
    <2>3. Fine(0)
        BY <2>1, <2>2
    <2> QED BY <2>1, <2>3
<1>6. ASSUME NEW i \in Nat, i < n, i \in S PROVE i + 1 \in S
    <2>1. i + 1 \in 1..n /\ i + 1 \in 0..n /\ i + 1 # 0 /\ i + 1 - 1 = i
        BY <1>6
    <2>2. f[i + 1] = IF i + 1 \in kept THEN Append(f[i], s[i + 1]) ELSE f[i]
        <3>1. PICK j \in 0..n : j = i + 1
            BY <2>1
        <3>2. f[j] = IF j = 0 THEN <<>> ELSE IF j \in kept THEN Append(f[j - 1], s[j]) ELSE f[j - 1]
            BY <1>3 DEF FilterIs
        <3>3. j # 0 /\ j - 1 = i
            BY <2>1, <3>1
        <3> QED BY <3>1, <3>2, <3>3
    <2>3. PICK x, y : x = f[i] /\ y = f[i + 1]
        OBVIOUS
    <2>4. IsSeq(x) /\ \A j \in 1..Len(x) : \E k \in 1..n : x[j] = s[k]
        BY <1>6, <2>3
    <2>5. CASE i + 1 \notin kept
        BY <2>1, <2>2, <2>3, <2>4, <2>5
    <2>6. CASE i + 1 \in kept
        <3>1. PICK m \in Nat : m = Len(x)
            BY <2>4 DEF IsSeq
        <3>2. y = Append(x, s[i + 1])
            BY <2>2, <2>3, <2>6
        <3>3. IsSeq(y) /\ Len(y) = m + 1 /\ (\A j \in 1..m : y[j] = x[j]) /\ y[m + 1] = s[i + 1]
            BY <2>4, <3>1, <3>2, SeqAppend
        <3>4. ASSUME NEW j \in 1..(m + 1) PROVE \E k \in 1..n : y[j] = s[k]
            <4>1. j \in 1..m \/ j = m + 1
                OBVIOUS
            <4> QED BY <2>1, <2>4, <3>1, <3>3, <4>1
        <3>5. Fine(i + 1)
            BY <2>3, <3>3, <3>4
        <3> QED BY <2>1, <3>5
    <2> QED BY <2>5, <2>6
<1> HIDE DEF S
<1>7. n \in S
    <2>1. 0..n \subseteq S
        BY <1>5, <1>6, CountUp
    <2> QED BY <2>1
<1>8. PICK t : t = f[n] /\ IsSeq(t) /\ \A j \in 1..Len(t) : \E x \in 1..n : t[j] = s[x]
    BY <1>7 DEF S
<1>9. DOMAIN t = 1..Len(t)
    BY <1>8 DEF IsSeq
<1> QED BY <1>1, <1>4, <1>8, <1>9

\* A bundle tells the story of a file, or is not trusted as one of this version.
SameStory(b, f) ==
    \/ f.manifest = b.manifest /\ f.records = b.records
    \/ b.version = 3 \/ b.manifest = None \/ ~VerifyManifest(b)
LEMMA NotTrusted ==
    ASSUME NEW b, b.version \in {3, 4}, b.manifest = None \/ ~VerifyManifest(b), NEW kinds, NEW pinned
    PROVE  Verdict(b, kinds, pinned) # "trusted"
PROOF
<1>1. "fail" # "trusted" /\ "unsigned" # "trusted"
    OBVIOUS
<1>2. b.version >= 2
    OBVIOUS
<1>3. Verdict(b, kinds, pinned) = IF RunAllV2(b, TrustFor(kinds)) THEN SignerStatus(b, Pins(pinned)) ELSE "fail"
    BY <1>2 DEF Verdict, All
<1>4. CASE b.manifest = None
    <2>1. SignerStatus(b, Pins(pinned)) = "unsigned"
        BY <1>4 DEF SignerStatus, CheckTrustedSigner
    <2> QED BY <1>1, <1>3, <2>1
<1>5. CASE ~VerifyManifest(b)
    <2>1. ~RunAllV2(b, TrustFor(kinds))
        BY <1>5 DEF RunAllV2
    <2> QED BY <1>1, <1>3, <2>1
<1> QED BY <1>4, <1>5

\* The manifest counts the records.
LEMMA CountFails ==
    ASSUME NEW b, b.version = 4, NEW m, b.manifest = m, m.body.count # Len(b.records)
    PROVE  ~VerifyManifest(b)
PROOF
<1>1. ~(b.version < 3)
    OBVIOUS
<1> QED BY <1>1 DEF VerifyManifest

LEMMA Shortened ==
    ASSUME NEW rs, Linked(rs), rs # <<>>, NEW t, t = Front(rs) \/ t = Tail(rs)
    PROVE  Len(t) # Len(rs) /\ \A i \in DOMAIN t : IsWire(t[i])
PROOF
<1>1. PICK n \in Nat : n = Len(rs)
    BY DEF Linked, IsSeq
<1>2. n >= 1
    BY <1>1, SeqNone DEF Linked
<1>3. PICK X : rs \in Seq(X)
    BY SeqOver DEF Linked
<1>4. \A i \in 1..n : IsWire(rs[i])
    BY <1>1 DEF Linked
<1>5. CASE t = Front(rs)
    <2>1. t = SubSeq(rs, 1, n - 1)
        BY <1>1, <1>5 DEF Front
    <2>2. Len(t) = n - 1 /\ DOMAIN t = 1..(n - 1) /\ \A i \in 1..(n - 1) : t[i] = rs[i]
        BY <1>1, <1>2, <1>3, <2>1
    <2>3. \A i \in 1..(n - 1) : i \in 1..n
        OBVIOUS
    <2>4. Len(t) # n
        BY <2>2
    <2> QED BY <1>1, <1>4, <2>2, <2>3, <2>4
<1>6. CASE t = Tail(rs)
    <2>1. Len(t) = n - 1 /\ DOMAIN t = 1..(n - 1) /\ \A i \in 1..(n - 1) : t[i] = rs[i + 1]
        BY <1>1, <1>2, <1>3, <1>6
    <2>2. \A i \in 1..(n - 1) : i + 1 \in 1..n
        OBVIOUS
    <2>3. Len(t) # n
        BY <2>1
    <2> QED BY <1>1, <1>4, <2>1, <2>2, <2>3
<1> QED BY <1>5, <1>6

LEMMA LossIsHanded ==
    ASSUME NEW f, NEW A, FileIs(f, A), f.records # <<>>, NEW b \in Losses(f)
    PROVE  Handed(b, A) /\ SameStory(b, f)
PROOF
<1>1. /\ Handed(f, A) /\ DOMAIN f = Fields /\ f.version = 4 /\ Linked(f.records) /\ IsSeq(f.receipts)
      /\ f.manifest.body.count = Len(f.records)
    BY DEF FileIs
<1>2. CASE b = f
    BY <1>1, <1>2 DEF SameStory
<1>3. ASSUME NEW t, t = Front(f.records) \/ t = Tail(f.records), b = [f EXCEPT !.records = t]
      PROVE  Handed(b, A) /\ SameStory(b, f)
    <2>1. b.records = t /\ b.version = 4 /\ b.heads = f.heads /\ b.receipts = f.receipts /\ b.proofs = f.proofs
          /\ b.manifest = f.manifest
        BY <1>1, <1>3 DEF Fields
    <2>2. Len(t) # Len(f.records) /\ \A i \in DOMAIN t : IsWire(t[i])
        BY <1>1, <1>3, Shortened
    <2>3. Handed(b, A)
        BY <1>1, <2>1, <2>2 DEF Handed
    <2>4. ~VerifyManifest(b)
        BY <1>1, <2>1, <2>2, CountFails
    <2> QED BY <2>3, <2>4 DEF SameStory
<1>4. ASSUME NEW t, \A j \in DOMAIN t : \E i \in DOMAIN f.receipts : t[j] = f.receipts[i], b = [f EXCEPT !.receipts = t]
      PROVE  Handed(b, A) /\ SameStory(b, f)
    <2>1. b.receipts = t /\ b.version = 4 /\ b.heads = f.heads /\ b.records = f.records /\ b.proofs = f.proofs
          /\ b.manifest = f.manifest
        BY <1>1, <1>4 DEF Fields
    <2>2. \A j \in DOMAIN t : \E rs, batch, time :
             Linked(rs) /\ Len(rs) >= 1 /\ Backed(t[j], rs, HeadOver(rs, OperatorKey, batch, time), A)
        BY <1>1, <1>4 DEF Handed
    <2>3. Handed(b, A)
        BY <1>1, <2>1, <2>2 DEF Handed
    <2> QED BY <2>1, <2>3 DEF SameStory
<1>5. PICK e : e = <<>> /\ DOMAIN e = {}
    BY SeqNothing
<1>6. CASE b = [f EXCEPT !.proofs = e]
    <2>1. b.proofs = e /\ b.version = 4 /\ b.heads = f.heads /\ b.records = f.records /\ b.receipts = f.receipts
          /\ b.manifest = f.manifest
        BY <1>1, <1>6 DEF Fields
    <2>2. Handed(b, A)
        BY <1>1, <1>5, <2>1 DEF Handed
    <2> QED BY <2>1, <2>2 DEF SameStory
<1>7. CASE b = [f EXCEPT !.manifest = e]
    <2>1. b.proofs = f.proofs /\ b.version = 4 /\ b.heads = f.heads /\ b.records = f.records /\ b.receipts = f.receipts
          /\ b.manifest = e
        BY <1>1, <1>7 DEF Fields
    <2>2. Handed(b, A)
        BY <1>1, <2>1 DEF Handed
    <2> QED BY <1>5, <2>1, <2>2 DEF SameStory, None
<1>8. CASE b = [f EXCEPT !.version = 3]
    <2>1. b.proofs = f.proofs /\ b.version = 3 /\ b.heads = f.heads /\ b.records = f.records /\ b.receipts = f.receipts
        BY <1>1, <1>8 DEF Fields
    <2>2. Handed(b, A)
        BY <1>1, <2>1 DEF Handed
    <2> QED BY <2>1, <2>2 DEF SameStory
<1>9. PICK kept : kept = {i \in DOMAIN f.receipts : f.receipts[i].kind = "rekor"}
    OBVIOUS
<1>10. \/ b = f \/ b = [f EXCEPT !.records = Front(f.records)] \/ b = [f EXCEPT !.records = Tail(f.records)]
       \/ b = [f EXCEPT !.receipts = e] \/ b = [f EXCEPT !.receipts = Filtered(f.receipts, kept)]
       \/ b = [f EXCEPT !.proofs = e] \/ b = [f EXCEPT !.manifest = e] \/ b = [f EXCEPT !.version = 3]
    BY <1>5, <1>9 DEF Losses, None
<1>11. CASE b = [f EXCEPT !.receipts = e]
    BY <1>4, <1>5, <1>11
<1>12. CASE b = [f EXCEPT !.receipts = Filtered(f.receipts, kept)]
    BY <1>1, <1>4, <1>12, FilteredFrom
<1>13. CASE b = [f EXCEPT !.records = Front(f.records)]
    BY <1>3, <1>13
<1>14. CASE b = [f EXCEPT !.records = Tail(f.records)]
    BY <1>3, <1>14
<1> QED BY <1>2, <1>6, <1>7, <1>8, <1>10, <1>11, <1>12, <1>13, <1>14

\* Parts of two files put together.
LEMMA AssembledIs ==
    ASSUME NEW f, NEW A, FileIs(f, A), NEW g, FileIs(g, A), NEW parts \in SUBSET Parts, NEW b, b = Assembled(f, g, parts)
    PROVE  /\ b.version = 4 /\ b.records \in {f.records, g.records} /\ b.proofs \in {f.proofs, g.proofs}
           /\ b.heads \in {f.heads, g.heads} /\ b.receipts \in {f.receipts, g.receipts}
           /\ b.manifest \in {f.manifest, g.manifest}
PROOF
<1>1. DOMAIN f = Fields /\ f.version = 4
    BY DEF FileIs
<1>2. "version" \notin parts
    BY DEF Parts
<1>3. b = [p \in Fields |-> IF p \in parts THEN g[p] ELSE f[p]]
    BY <1>1 DEF Assembled
<1>4. b.version = 4
    BY <1>1, <1>2, <1>3 DEF Fields
<1>5. b.records \in {f.records, g.records} /\ b.proofs \in {f.proofs, g.proofs}
    BY <1>3 DEF Fields
<1>6. b.heads \in {f.heads, g.heads} /\ b.receipts \in {f.receipts, g.receipts} /\ b.manifest \in {f.manifest, g.manifest}
    BY <1>3 DEF Fields
<1> QED BY <1>4, <1>5, <1>6

LEMMA AssembledIsHanded ==
    ASSUME NEW f, NEW A, FileIs(f, A), NEW g, FileIs(g, A), NEW parts \in SUBSET Parts, NEW b, b = Assembled(f, g, parts)
    PROVE  Handed(b, A) /\ (SameStory(b, f) \/ SameStory(b, g))
PROOF
<1>1. /\ b.version = 4 /\ b.records \in {f.records, g.records} /\ b.proofs \in {f.proofs, g.proofs}
      /\ b.heads \in {f.heads, g.heads} /\ b.receipts \in {f.receipts, g.receipts}
      /\ b.manifest \in {f.manifest, g.manifest}
    BY AssembledIs
<1>2. Handed(f, A) /\ Handed(g, A)
    BY DEF FileIs
<1>3. \A i \in DOMAIN b.records : IsWire(b.records[i])
    BY <1>1, <1>2 DEF Handed
<1>4. b.heads = <<>> \/ \E rs, batch, time :
          Linked(rs) /\ Len(rs) >= 1 /\ b.heads = <<HeadOver(rs, OperatorKey, batch, time)>>
    BY <1>1, <1>2 DEF Handed
<1>5. \A i \in DOMAIN b.receipts : \E rs, batch, time :
          Linked(rs) /\ Len(rs) >= 1 /\ Backed(b.receipts[i], rs, HeadOver(rs, OperatorKey, batch, time), A)
    BY <1>1, <1>2 DEF Handed
<1>6. \A i \in DOMAIN b.proofs : \E n \in Nat : DOMAIN b.proofs[i].steps = 1..n
    BY <1>1, <1>2 DEF Handed
<1>7. b.version \in {3, 4}
    BY <1>1
<1>8. Handed(b, A)
    BY <1>3, <1>4, <1>5, <1>6, <1>7 DEF Handed
<1>9. ASSUME NEW x, FileIs(x, A), NEW y, FileIs(y, A), b.manifest = x.manifest, b.records = y.records
      PROVE  SameStory(b, x)
    <2>1. ASSUME VerifyManifest(b) PROVE x.records = b.records
        <3>1. ~(b.version < 3) /\ b.version >= 4
            BY <1>1
        <3>2. b.manifest.body.count = Len(b.records) /\ b.manifest.body.tip = TipOf(b.records)
            BY <2>1, <3>1 DEF VerifyManifest
        <3>3. PICK rs, qs : rs = x.records /\ qs = b.records
            OBVIOUS
        <3>4. Linked(rs) /\ Linked(qs)
            BY <1>9, <3>3 DEF FileIs
        <3>5. x.manifest.body.count = Len(rs) /\ x.manifest.body.tip = TipOf(rs)
            BY <1>9, <3>3 DEF FileIs
        <3>6. Len(rs) = Len(qs) /\ TipOf(rs) = TipOf(qs)
            BY <1>9, <3>2, <3>3, <3>5
        <3> QED BY <3>3, <3>4, <3>6, OneChain
    <2> QED BY <1>9, <2>1 DEF SameStory
<1>10. SameStory(b, f) \/ SameStory(b, g)
    BY <1>1, <1>9
<1> QED BY <1>8, <1>10

LEMMA HistoryHolds == FlowInv => OneHistory /\ AnchoredInTime
PROOF
<1> SUFFICES ASSUME FlowInv PROVE OneHistory /\ AnchoredInTime
    OBVIOUS
<1> DEFINE Good(b) == Handed(b, anchored) /\ \E i \in DOMAIN archive : SameStory(b, archive[i])
<1>1. \A i \in DOMAIN archive : FileIs(archive[i], anchored)
    <2>1. \A i \in DOMAIN archive : Filed(archive[i], anchored)
        BY DEF FlowInv, FilesInv, IsSeq
    <2> QED BY <2>1, FileParts
<1>2. \A i, j \in DOMAIN archive : \A parts \in SUBSET Parts : Good(Assembled(archive[i], archive[j], parts))
    <2> SUFFICES ASSUME NEW i \in DOMAIN archive, NEW j \in DOMAIN archive, NEW parts \in SUBSET Parts
                 PROVE  Good(Assembled(archive[i], archive[j], parts))
        OBVIOUS
    <2>1. PICK f, g, b : f = archive[i] /\ g = archive[j] /\ b = Assembled(f, g, parts)
        OBVIOUS
    <2>2. FileIs(f, anchored) /\ FileIs(g, anchored)
        BY <1>1, <2>1
    <2>3. Handed(b, anchored) /\ (SameStory(b, f) \/ SameStory(b, g))
        BY <2>1, <2>2, AssembledIsHanded
    <2>4. Good(b)
        BY <2>1, <2>3
    <2> QED BY <2>1, <2>4
<1>3. \A i \in DOMAIN archive : archive[i].records # <<>> => \A b \in Losses(archive[i]) : Good(b)
    <2> SUFFICES ASSUME NEW i \in DOMAIN archive, archive[i].records # <<>>, NEW b \in Losses(archive[i])
                 PROVE  Good(b)
        OBVIOUS
    <2>1. Handed(b, anchored) /\ SameStory(b, archive[i])
        BY <1>1, LossIsHanded
    <2> QED BY <2>1
<1>4. ASSUME NEW b, Good(b)
      PROVE  \/ \E i \in DOMAIN archive : archive[i].manifest = b.manifest /\ archive[i].records = b.records
             \/ b.version < BundleVersion
             \/ \A kinds \in SUBSET Kinds2 : Verdict(b, kinds, TRUE) # "trusted"
    <2>1. PICK i \in DOMAIN archive : SameStory(b, archive[i])
        BY <1>4
    <2>2. b.version \in {3, 4}
        BY <1>4 DEF Handed
    <2>3. b.version = 3 => b.version < BundleVersion
        BY DEF BundleVersion
    <2>4. CASE b.manifest = None \/ ~VerifyManifest(b)
        <3>1. ASSUME NEW kinds \in SUBSET Kinds2 PROVE Verdict(b, kinds, TRUE) # "trusted"
            <4>1. PICK yes : yes = TRUE
                OBVIOUS
            <4>2. Verdict(b, kinds, yes) # "trusted"
                BY <2>2, <2>4, NotTrusted
            <4> QED BY <4>1, <4>2
        <3> QED BY <3>1
    <2>5. CASE archive[i].manifest = b.manifest /\ archive[i].records = b.records
        BY <2>5
    <2>6. CASE b.version = 3
        BY <2>3, <2>6
    <2> QED BY <2>1, <2>4, <2>5, <2>6 DEF SameStory
<1>5. ASSUME NEW b, Good(b), NEW kinds \in SUBSET Kinds2, NEW pinned \in BOOLEAN
      PROVE  (\A kind \in kinds : WasThere(b, kind)) \/ Verdict(b, kinds, pinned) = "fail"
    BY <1>5, HandedAnchored
<1> HIDE DEF Good
<1>6. OneHistory
    BY <1>2, <1>3, <1>4 DEF OneHistory, ForAllHandedOver
<1>7. AnchoredInTime
    BY <1>2, <1>3, <1>5 DEF AnchoredInTime, ForAllHandedOver
<1> QED BY <1>6, <1>7

\* What `cloakpipe-verify all` trusts is true, of whatever the auditor is handed:
\* a file, one that lost something, or one put together from two files, also of
\* a host that was restored from a backup and so tells two histories.  A trusted
\* bundle holds exactly the records its manifest was signed over; one that
\* passes under a trust input had these very records anchored by that service,
\* none stamped after the anchor; and no time-stamp is older than the request it
\* answers (verify_manifest, check_coverage, check_anchor_time,
\* verify_timestamp_response).
THEOREM TrustIsDeserved == FlowSpec => []TrustedIsTrue
PROOF
<1>1. FlowInv => TrustedIsTrue
    BY HistoryHolds DEF TrustedIsTrue, FlowInv
<1> QED BY <1>1, FlowInvariant, PTL
=============================================================================
