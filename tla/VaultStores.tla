----------------------------- MODULE VaultStores -----------------------------
(***************************************************************************)
(* The vaults as a library: a file vault with a resolver of variant        *)
(* spellings, saved and opened again at any time (vault.rs, resolver.rs),  *)
(* and a SQLite vault shared by several processes, each with caches of its *)
(* own (vault_sqlite.rs).  get_or_create_for_user takes three statements   *)
(* that are not one transaction: the counter is bumped, read, and the row  *)
(* inserted; a token that exists already makes the insertion panic.        *)
(***************************************************************************)
EXTENDS Vault

CONSTANTS Originals,  \* original -> its category
          Stored,     \* the originals put into the database
          Processes,  \* the processes with the database open
          Users,      \* the users they mask for, "" being nobody in particular
          Keys,       \* the keys they are started with
          MaxNumber   \* bound on the counters of the database

VARIABLES lib,        \* the file vault in memory
          file,       \* what its file holds
          db,         \* the database
          proc        \* process -> [pc, cache, key, user, original, token]
storeVars == <<lib, file, db, proc>>

Started(d, key) ==
    [pc |-> "idle", cache |-> LoadCache(d, key), key |-> key, user |-> "", original |-> NoMatch, token |-> NoMatch]

StoresInit ==
    /\ lib = EmptyVault
    /\ file = NoFile
    /\ db = EmptyDatabase
    /\ proc \in [Processes -> {Started(db, key) : key \in Keys}]

(***************************************************************************)
(* The file vault.                                                         *)
(***************************************************************************)
Creates(o) ==
    /\ \E canonical \in Resolve(lib, o, Originals[o]) : lib' = GetOrCreate(lib, canonical, o, Originals[o]).vault
    /\ UNCHANGED <<file, db, proc>>

Saves ==
    /\ file' = Saved(lib, "key")
    /\ UNCHANGED <<lib, db, proc>>

Reopens(key) ==
    /\ lib' \in Opened(file, key)
    /\ UNCHANGED <<file, db, proc>>

(***************************************************************************)
(* The SQLite vault.                                                       *)
(***************************************************************************)
Bumps(p, o, user) ==
    /\ proc[p].pc = "idle"
    /\ o \notin DOMAIN proc[p].cache.forward
    /\ CounterOf(db, PrefixOf[Originals[o]], user) < MaxNumber
    /\ db' = BumpCounter(db, PrefixOf[Originals[o]], user)
    /\ proc' = [proc EXCEPT ![p].pc = "bumped", ![p].original = o, ![p].user = user]
    /\ UNCHANGED <<lib, file>>

ReadsCounter(p) ==
    LET prefix == PrefixOf[Originals[proc[p].original]]
    IN /\ proc[p].pc = "bumped"
       /\ proc' = [proc EXCEPT ![p].pc = "read", ![p].token = UserToken(prefix, proc[p].user, CounterOf(db, prefix, proc[p].user))]
       /\ UNCHANGED <<lib, file, db>>

Inserts(p) ==
    LET me == proc[p] IN
    /\ me.pc = "read"
    /\ IF TokenTaken(db, me.token)
       THEN /\ proc' = [proc EXCEPT ![p].pc = "panicked"]
            /\ UNCHANGED db
       ELSE /\ db' = InsertMapping(db, me.original, me.token, me.user, me.key)
            /\ proc' = [proc EXCEPT ![p] = [me EXCEPT !.pc = "idle", !.user = "", !.original = NoMatch, !.token = NoMatch,
                            !.cache = CacheRow(@, [original |-> me.original, token |-> me.token, key |-> me.key], me.key)]]
    /\ UNCHANGED <<lib, file>>

\* A process is started again, with any key: SqliteVault::open.
Starts(p, key) ==
    /\ proc' = [proc EXCEPT ![p] = Started(db, key)]
    /\ UNCHANGED <<lib, file, db>>

LibraryNext ==
    \/ \E o \in DOMAIN Originals : Creates(o)
    \/ Saves
    \/ \E key \in {"key", "short", "other"} : Reopens(key)
SharedNext ==
    \E p \in Processes : (\E o \in Stored, u \in Users : Bumps(p, o, u)) \/ ReadsCounter(p) \/ Inserts(p) \/ (\E key \in Keys : Starts(p, key))

StoresSpec == StoresInit /\ [][LibraryNext \/ SharedNext]_storeVars

(***************************************************************************)
(* Properties.                                                             *)
(***************************************************************************)
Numbers(v, prefix) == {v.forward[o].id : o \in {p \in DOMAIN v.forward : PrefixOf[v.forward[p].category] = prefix}}

\* A file vault, variants merged or not, saved and loaded in any order: a token
\* looks up an original that has it, and the numbers of a prefix are exactly
\* those its counter gave, so that no token is ever given again (get_or_create, load).
VaultInverse ==
    /\ \A t \in DOMAIN lib.reverse : lib.reverse[t] \in DOMAIN lib.forward /\ lib.forward[lib.reverse[t]].token = t
    /\ \A o \in DOMAIN lib.forward : lib.forward[o].token \in DOMAIN lib.reverse
    /\ \A prefix \in DOMAIN lib.counters : Numbers(lib, prefix) = 1..lib.counters[prefix]

\* What a process would rehydrate is what the database says, whoever wrote it
\* and however the counters of two processes interleaved; a row of another key
\* shows as undecryptable (get_or_create_for_user, load_cache).
CachesAgree ==
    \A p \in Processes : \A t \in DOMAIN proc[p].cache.reverse :
        \A i \in DOMAIN db.rows : db.rows[i].token = t =>
            proc[p].cache.reverse[t] = IF db.rows[i].key = proc[p].key THEN db.rows[i].original ELSE Undecryptable

\* Whatever was saved, loaded or written by another process, a token keeps its
\* one meaning (Vault::load, SqliteVault::get_or_create_for_user).
StoresInv == VaultInverse /\ CachesAgree
===============================================================================
