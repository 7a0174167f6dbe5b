---------------------------- MODULE AnchorChecks ----------------------------
(***************************************************************************)
(* The verifier's pure algorithms against reference definitions: calendar  *)
(* arithmetic against counting days one by one, both kinds of inclusion    *)
(* proof against the trees they are of, certification path validation      *)
(* against what a valid path is.  A probe is one input.                    *)
(***************************************************************************)
EXTENDS AnchorTokens

CONSTANTS LastYear, MaxLeaves

VARIABLE probe

NoProbe == [kind |-> "none"]

(***************************************************************************)
(* Calendar arithmetic of the verifier (verify/time.rs, and the older copy *)
(* in verify/anchor.rs): dates to days since 1970-01-01 and back.  Years   *)
(* are not negative, so Rust's division and \div agree.                    *)
(***************************************************************************)
DaysFromCivil(year, m, d) ==
    LET y   == IF m <= 2 THEN year - 1 ELSE year
        era == y \div 400
        yoe == y - era * 400
        doy == (153 * (IF m > 2 THEN m - 3 ELSE m + 9) + 2) \div 5 + d - 1
        doe == yoe * 365 + yoe \div 4 - yoe \div 100 + doy
    IN era * 146097 + doe - 719468

CivilFromDays(days) ==
    LET z   == days + 719468
        era == z \div 146097
        doe == z - era * 146097
        yoe == (doe - doe \div 1460 + doe \div 36524 - doe \div 146096) \div 365
        doy == doe - (365 * yoe + yoe \div 4 - yoe \div 100)
        mp  == (5 * doy + 2) \div 153
        m   == IF mp < 10 THEN mp + 3 ELSE mp - 9
    IN <<yoe + era * 400 + (IF m <= 2 THEN 1 ELSE 0), m, doy - (153 * mp + 2) \div 5 + 1>>

Leap(y) == (y % 4 = 0 /\ y % 100 # 0) \/ y % 400 = 0
DaysInMonth(y, m) ==
    CASE m \in {1, 3, 5, 7, 8, 10, 12} -> 31 [] m \in {4, 6, 9, 11} -> 30
      [] OTHER -> IF Leap(y) THEN 29 ELSE 28

(***************************************************************************)
(* Times.  A written time is [y, m, d, h, mi, s, frac, sign, oh, om]: frac *)
(* says that it has a fraction, sign is "Z", "+" or "-".  A parsed one is  *)
(* <<days, seconds of the day>>, since seconds since 1970 pass 2^31.       *)
(***************************************************************************)
NoTime == <<>>
ValidDate(y, m, d) == m \in 1..12 /\ d >= 1 /\ d <= DaysInMonth(y, m)
Offset(t) == CASE t.sign = "Z" -> 0 [] t.sign = "+" -> t.oh * 3600 + t.om * 60 [] OTHER -> -(t.oh * 3600 + t.om * 60)
Instant(t, offset) ==
    LET secs == t.h * 3600 + t.mi * 60 + t.s - offset
    IN <<DaysFromCivil(t.y, t.m, t.d) + secs \div 86400, secs % 86400>>

\* parse_rfc3339_secs: every field is checked, a fraction is cut off.
ParseRfc3339Secs(t) ==
    IF ValidDate(t.y, t.m, t.d) /\ t.h < 24 /\ t.mi < 60 /\ t.s < 60 /\ (t.sign # "Z" => t.oh <= 23 /\ t.om <= 59)
    THEN Instant(t, Offset(t)) ELSE NoTime
\* The older parser: no field is checked, a fraction is refused.
ParseRfc3339(t) == IF t.frac THEN NoTime ELSE Instant(t, Offset(t))
\* parse_generalized_time: the same fields, always in UTC.
ParseGeneralizedTime(t) == IF t.sign = "Z" THEN ParseRfc3339Secs(t) ELSE NoTime
\* rfc3339_from_unix
Rfc3339FromUnix(u) ==
    LET date == CivilFromDays(u[1])
    IN [y |-> date[1], m |-> date[2], d |-> date[3], h |-> u[2] \div 3600, mi |-> (u[2] \div 60) % 60, s |-> u[2] % 60,
        frac |-> FALSE, sign |-> "Z", oh |-> 0, om |-> 0]

(***************************************************************************)
(* Certificates with at most one thing wrong with each and two wrong in    *)
(* all, two intermediates between the signer and the root.                 *)
(***************************************************************************)
Now == 5
Flaws == {"none", "not a CA", "no path below", "may not sign", "other purpose", "critical", "expired", "not yet valid", "forged"}
Cert(name, issuer, flaw) ==
    [subject |-> name, issuer |-> issuer, key |-> name,
     by |-> IF flaw = "forged" THEN "nobody" ELSE issuer,
     from |-> IF flaw = "not yet valid" THEN Now + 1 ELSE 0, to |-> IF flaw = "expired" THEN Now - 1 ELSE Now,
     critical |-> flaw = "critical", ca |-> flaw # "not a CA",
     pathLen |-> IF flaw = "no path below" THEN 0 ELSE NoPathLen,
     certSign |-> flaw # "may not sign",
     eku |-> IF flaw = "other purpose" THEN {"codeSigning"} ELSE {"timeStamping"}]

\* A path with 0, 1 or 2 intermediates; the pool in either order.
PathProbe(n, fs, swapped) ==
    LET signer == Cert("signer", IF n = 0 THEN "root" ELSE "one", fs[1])
        one    == Cert("one", IF n = 2 THEN "two" ELSE "root", fs[2])
        two    == Cert("two", "root", fs[3])
        root   == Cert("root", "root", fs[4])
    IN [kind |-> "path", signer |-> signer, roots |-> <<root>>,
        pool |-> IF swapped THEN <<two, one, signer>> ELSE <<signer, one, two>>]

ProbeInit ==
    \/ probe = [kind |-> "date", y |-> 1970, m |-> 1, d |-> 1, n |-> 0]
    \/ \E n \in 1..MaxLeaves : \E i \in 0..(n - 1) : probe = [kind |-> "tree", n |-> n, index |-> i]
    \/ \E n \in 0..2, fs \in [1..4 -> Flaws], swapped \in BOOLEAN :
          Cardinality({i \in 1..4 : fs[i] # "none"}) <= 2 /\ probe = PathProbe(n, fs, swapped)

\* The next day of the calendar.
NextDay ==
    /\ probe.kind = "date" /\ probe.y <= LastYear
    /\ probe' = CASE probe.d < DaysInMonth(probe.y, probe.m) -> [probe EXCEPT !.d = @ + 1, !.n = @ + 1]
                  [] probe.d = DaysInMonth(probe.y, probe.m) /\ probe.m < 12 ->
                        [probe EXCEPT !.m = @ + 1, !.d = 1, !.n = @ + 1]
                  [] OTHER -> [probe EXCEPT !.y = @ + 1, !.m = 1, !.d = 1, !.n = @ + 1]

(***************************************************************************)
(* Properties.                                                             *)
(***************************************************************************)
\* days_from_civil is the number of days counted since 1970-01-01 and
\* civil_from_days its inverse, over leap years, 2000 and 2100.
CalendarIsExact ==
    probe.kind = "date" =>
        /\ ValidDate(probe.y, probe.m, probe.d)
        /\ DaysFromCivil(probe.y, probe.m, probe.d) = probe.n
        /\ CivilFromDays(probe.n) = <<probe.y, probe.m, probe.d>>

\* A time means one instant: what both parsers of RFC 3339 accept they read
\* alike, fractions, offsets over midnight and the ends of months included, and
\* printing an instant and parsing it again gives it back.
TimesAgree ==
    probe.kind = "date" /\ (probe.d = 1 \/ probe.d >= 28) =>
        \A h \in {0, 23}, mi \in {0, 59}, frac \in BOOLEAN, sign \in {"Z", "+", "-"}, oh \in {5, 23, 24} :
            LET t    == [y |-> probe.y, m |-> probe.m, d |-> probe.d, h |-> h, mi |-> mi, s |-> 59,
                         frac |-> frac, sign |-> sign, oh |-> oh, om |-> 30]
                secs == ParseRfc3339Secs(t)
            IN /\ (secs = NoTime) <=> (sign # "Z" /\ oh = 24)
               /\ secs # NoTime =>
                     /\ ParseRfc3339Secs(Rfc3339FromUnix(secs)) = secs
                     /\ ParseGeneralizedTime(Rfc3339FromUnix(secs)) = secs
                     /\ ParseRfc3339(Rfc3339FromUnix(secs)) = secs
                     /\ ParseRfc3339(t) \in {secs, NoTime} /\ (ParseRfc3339(t) = NoTime => frac)

\* A proof is of one leaf: the ledger's proof of a leaf is accepted for that
\* leaf and no other, in trees of every shape, and Rekor's for that leaf at that
\* index and no other.
ProofsAreExact ==
    probe.kind = "tree" =>
        LET leaves == [j \in 1..probe.n |-> LeafHash(j)]
            tree   == FromHashedLeaves(leaves)
        IN \A j \in 1..probe.n :
              /\ VerifyMerkleProof(leaves[j], InclusionProof(tree, probe.index), Root(tree)) <=> j = probe.index + 1
              /\ \A at \in 0..(probe.n + 1) :
                    VerifyInclusion(at, probe.n, leaves[j], LogPath(probe.index, leaves), LogRoot(leaves))
                      <=> j = probe.index + 1 /\ at = probe.index

\* What a valid path is: every link signed by the next, all of them in force
\* and understood, every issuer a CA for what is below it, up to a trusted root.
ValidChain(chain, roots, at) ==
    /\ Last(chain) \in Range(roots)
    /\ \A i \in DOMAIN chain : CheckValidity(chain[i], at) /\ CheckCriticalExtensions(chain[i])
    /\ \A i \in 2..Len(chain) :
          SignedBy(chain[i - 1], chain[i]) /\ CheckCa(chain[i], i - 2) /\ CheckIssuerEku(chain[i])
\* validate_path accepts a signer only if a valid path to a trusted root is in
\* the token, and where every name has one certificate finds it.
PathIsSound ==
    probe.kind = "path" =>
        LET certs == Range(probe.pool) \cup Range(probe.roots)
            valid == \E n \in 1..4 : \E rest \in [1..(n - 1) -> certs] :
                        ValidChain(<<probe.signer>> \o rest, probe.roots, Now)
        IN ValidatePath(probe.signer, probe.pool, probe.roots, Now) <=> valid

\* The verifier's hand-written algorithms are exact: calendar, both parsers of
\* times, both inclusion proofs and the search for a certificate path agree
\* with their reference definitions (time.rs, merkle.rs, rekor.rs, rfc3161.rs).
AlgorithmsAreExact == CalendarIsExact /\ TimesAgree /\ ProofsAreExact /\ PathIsSound
=============================================================================
