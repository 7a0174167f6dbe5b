-------------------------------- MODULE Vault --------------------------------
(***************************************************************************)
(* The pseudonym vaults of cloakpipe-core: the file vault (vault.rs) with  *)
(* its optional resolver of variant spellings (resolver.rs), and the       *)
(* SQLite vault (vault_sqlite.rs).                                         *)
(*                                                                         *)
(* A file vault is [forward, reverse, counters]: forward maps an original  *)
(* to its token, reverse a token to an original, counters a prefix to the  *)
(* last number given.  Text is a sequence of glyphs, and a token is the    *)
(* text that stands for it: the glyphs of its prefix, "_" and the digits   *)
(* of its number, so that one token can be the beginning of another, as    *)
(* ORG_1 is of ORG_12.  Numbers are written in base Base for that to       *)
(* happen with few entities.  Encryption is not modelled beyond its key:   *)
(* what was written under another key does not decrypt.                    *)
(***************************************************************************)
EXTENDS Naturals, Sequences, FiniteSets, TLC

CONSTANTS PrefixOf,  \* category -> its prefix, a sequence of upper-case glyphs
          Base,      \* the base numbers are written in
          Alike,     \* <<original, original>> -> similarity, 0..100 (strsim; external)
          Aliases,   \* the configured alias groups: sequences of originals
          Threshold  \* the resolver's similarity threshold, 0..100

DigitGlyph == <<"0", "1", "2", "3", "4", "5", "6", "7", "8", "9">>
Digits[n \in Nat] ==
    IF n < Base THEN <<DigitGlyph[n + 1]>> ELSE Digits[n \div Base] \o <<DigitGlyph[(n % Base) + 1]>>
Spell(prefix, n) == prefix \o <<"_">> \o Digits[n]

Put(f, k, v) == [x \in DOMAIN f \cup {k} |-> IF x = k THEN v ELSE f[x]]
Empty == <<>>
NoMatch == <<>>          \* no original is the empty text
NoFile == [key |-> "none"]

(***************************************************************************)
(* The file vault.                                                         *)
(***************************************************************************)
EmptyVault == [forward |-> Empty, reverse |-> Empty, counters |-> Empty]

\* An alias group of at least two names stands for its first name; a name in
\* two groups belongs to the later one.
AliasOf(original) ==
    LET groups == {i \in DOMAIN Aliases : Len(Aliases[i]) >= 2 /\ \E j \in DOMAIN Aliases[i] : Aliases[i][j] = original}
    IN IF groups = {} THEN NoMatch ELSE Aliases[CHOOSE i \in groups : \A j \in groups : j <= i][1]

\* What the resolver may answer: an alias, else the most similar original of
\* the category (any of them when several are equally similar: the map's
\* iteration order decides).
Resolve(v, original, category) ==
    LET near == {o \in DOMAIN v.forward :
                    /\ v.forward[o].category = category /\ o # original
                    /\ Alike[<<original, o>>] >= Threshold /\ Alike[<<original, o>>] > 0}
        best == {o \in near : \A p \in near : Alike[<<original, p>>] <= Alike[<<original, o>>]}
    IN IF AliasOf(original) # NoMatch THEN {AliasOf(original)}
       ELSE IF best = {} THEN {NoMatch} ELSE best

\* get_or_create, `canonical` being what the resolver answered (NoMatch
\* without a resolver).
GetOrCreate(v, canonical, original, category) ==
    LET prefix == PrefixOf[category]
        n == (IF prefix \in DOMAIN v.counters THEN v.counters[prefix] ELSE 0) + 1
        token == [token |-> Spell(prefix, n), category |-> category, id |-> n]
    IN IF original \in DOMAIN v.forward THEN [vault |-> v, token |-> v.forward[original]]
       ELSE IF canonical \in DOMAIN v.forward
       THEN [vault |-> [v EXCEPT !.forward = Put(@, original, v.forward[canonical])], token |-> v.forward[canonical]]
       ELSE [vault |-> [forward |-> Put(v.forward, original, token),
                        reverse |-> Put(v.reverse, token.token, original),
                        counters |-> Put(v.counters, prefix, n)],
             token |-> token]

ContainsOriginal(v, value) == value \in DOMAIN v.forward

\* save writes a temporary file and renames it: the file is the old or the
\* new data.  Only the forward map and the counters are written.
Saved(v, key) == [forward |-> v.forward, counters |-> v.counters, key |-> key]

\* load rebuilds the reverse map in the order the forward map was written:
\* of the originals that share a token, any may be the last.
Loaded(file) ==
    LET tokens == {file.forward[o].token : o \in DOMAIN file.forward}
        named(t) == {o \in DOMAIN file.forward : file.forward[o].token = t}
    IN {[forward |-> file.forward, reverse |-> r, counters |-> file.counters] :
            r \in {f \in [tokens -> DOMAIN file.forward] : \A t \in tokens : f[t] \in named(t)}}

\* open, with the key length checked first: an empty vault when there is no
\* file, nothing when the file does not decrypt.
Opened(file, key) ==
    IF key = "short" THEN {} ELSE IF file.key = "none" THEN {EmptyVault} ELSE IF file.key # key THEN {} ELSE Loaded(file)

(***************************************************************************)
(* The SQLite vault: rows and counters shared through the database, the    *)
(* two caches of one process.  A row's token is unique.                    *)
(***************************************************************************)
Undecryptable == <<"[decrypt_failed]">>
EmptyDatabase == [rows |-> <<>>, counters |-> Empty]
NoCache == [forward |-> Empty, reverse |-> Empty]

CacheRow(cache, row, key) ==
    LET original == IF row.key = key THEN row.original ELSE Undecryptable
    IN [forward |-> Put(cache.forward, original, row.token), reverse |-> Put(cache.reverse, row.token, original)]

\* load_cache: the rows in order, the last one of an original winning.
LoadCache(db, key) ==
    LET upTo[i \in 0..Len(db.rows)] == IF i = 0 THEN NoCache ELSE CacheRow(upTo[i - 1], db.rows[i], key)
    IN upTo[Len(db.rows)]

CounterOf(db, prefix, user) ==
    IF <<prefix, user>> \in DOMAIN db.counters THEN db.counters[<<prefix, user>>] ELSE 0
BumpCounter(db, prefix, user) ==
    [db EXCEPT !.counters = Put(@, <<prefix, user>>, CounterOf(db, prefix, user) + 1)]

\* The token carries the user, so that users do not collide.
UserToken(prefix, user, n) == IF user = "" THEN Spell(prefix, n) ELSE prefix \o <<"_", user, "_">> \o Digits[n]

TokenTaken_Never(db, token) == FALSE
TokenTaken(db, token) == \E i \in DOMAIN db.rows : db.rows[i].token = token
InsertMapping(db, original, token, user, key) ==
    [db EXCEPT !.rows = Append(@, [original |-> original, token |-> token, user |-> user, key |-> key])]

===============================================================================
