----------------------------- MODULE HsDbCache -----------------------------
(***************************************************************************)
(* The database cache of util-hs.c: hs_init_db loads the compiled pattern  *)
(* database from /tmp/<md5 of the rules file>_<flags>_v1.hsdb, or compiles *)
(* the rules and writes that file.  The rules file is read three times     *)
(* (hash, compile, hash again) and the cache file is truncated first and   *)
(* written afterwards, without a lock and without a rename.                *)
(*                                                                         *)
(* Processes start, stop and die at any point, also two at a time.  The    *)
(* rules file is replaced between starts only: prep_rules.sh writes it and *)
(* ends before rx.sh starts the program in the same shell.                 *)
(*                                                                         *)
(* Abstracted: the patterns of a rules file, the digest (taken to be       *)
(* injective), and the bytes of a database: a file is whole or not, and    *)
(* hs_deserialize_database refuses one that is not.                        *)
(***************************************************************************)
CONSTANTS
    Procs,      \* processes running regex-test on one machine
    Rules,      \* contents the rules file may have
    Faulty,     \* those that hs_compile_multi refuses
    Flags,      \* expr_flags
    NONE        \* no rules, no database

ASSUME FaultyAssumption == Faulty \subseteq Rules
ASSUME NoneAssumption   == NONE \notin Rules /\ NONE \notin Rules \X Flags

VARIABLES
    rules,      \* content of the rules file
    cache,      \* cache[k]: the cache file of key k
    expr_flags, \* expr_flags[p]
    hs_db,      \* hs_db[p]: the database, as the rules and flags it is made of
    started,    \* history: started[p]: the rules when p called hs_init_db
    key,        \* key[p]: the cache file p has computed the name of
    pc          \* pc[p]

vars == <<rules, cache, expr_flags, hs_db, started, key, pc>>

Databases == Rules \X Flags
Keys      == Rules \X Flags
Files     == [there : BOOLEAN, whole : BOOLEAN, db : Databases \cup {NONE}]
NoFile    == [there |-> FALSE, whole |-> FALSE, db |-> NONE]
Truncated == [there |-> TRUE, whole |-> FALSE, db |-> NONE]
WholeFile(db) == [there |-> TRUE, whole |-> TRUE, db |-> db]

Init ==
    /\ rules \in Rules
    /\ cache = [k \in Keys |-> NoFile]
    /\ expr_flags \in [Procs -> Flags]
    /\ hs_db = [p \in Procs |-> NONE]
    /\ started = [p \in Procs |-> NONE]
    /\ key = [p \in Procs |-> NONE]
    /\ pc = [p \in Procs |-> "off"]

Goto(p, label) == pc' = [pc EXCEPT ![p] = label]

\* Plausible bug: the name of the file leaves the flags out.
KeyWithoutFlags(r, f) == <<r, CHOOSE g \in Flags : TRUE>>

\* hs_db_cache_construct_fpath
FilePath(r, f) == <<r, f>>

----------------------------------------------------------------------------
\* main calls hs_init_db.
Start(p) ==
    /\ pc[p] = "off"
    /\ expr_flags' \in {[expr_flags EXCEPT ![p] = f] : f \in Flags}
    /\ started' = [started EXCEPT ![p] = rules]
    /\ Goto(p, "hash")
    /\ UNCHANGED <<rules, cache, hs_db, key>>

\* file_to_md5 and the name of the cache file.
Hash(p) ==
    /\ pc[p] = "hash"
    /\ key' = [key EXCEPT ![p] = FilePath(rules, expr_flags[p])]
    /\ Goto(p, "lookup")
    /\ UNCHANGED <<rules, cache, expr_flags, hs_db, started>>

\* Plausible bug: any file that can be opened is taken for a database.
LookupAny(p) ==
    LET file == cache[key[p]]
    IN  /\ pc[p] = "lookup"
        /\ IF file.there
           THEN hs_db' = [hs_db EXCEPT ![p] = file.db] /\ Goto(p, "running")
           ELSE UNCHANGED hs_db /\ Goto(p, "compile")
        /\ UNCHANGED <<rules, cache, expr_flags, started, key>>

\* hs_init_db_from_cache: a file that is missing, short or refused by
\* hs_deserialize_database is a miss.
Lookup(p) ==
    LET file == cache[key[p]]
    IN  /\ pc[p] = "lookup"
        /\ IF file.there /\ file.whole
           THEN hs_db' = [hs_db EXCEPT ![p] = file.db] /\ Goto(p, "running")
           ELSE UNCHANGED hs_db /\ Goto(p, "compile")
        /\ UNCHANGED <<rules, cache, expr_flags, started, key>>

\* hs_compile_multi of the patterns; an error returns -1, and main panics.
Compile(p) ==
    /\ pc[p] = "compile"
    /\ IF rules \in Faulty
       THEN UNCHANGED hs_db /\ Goto(p, "failed")
       ELSE hs_db' = [hs_db EXCEPT ![p] = <<rules, expr_flags[p]>>] /\ Goto(p, "rehash")
    /\ UNCHANGED <<rules, cache, expr_flags, started, key>>

\* Serialisation, which may fail, and the second file_to_md5.
Rehash(p) ==
    /\ pc[p] = "rehash"
    /\ \/ /\ key' = [key EXCEPT ![p] = FilePath(rules, expr_flags[p])]
          /\ Goto(p, "open")
       \/ UNCHANGED key /\ Goto(p, "failed")
    /\ UNCHANGED <<rules, cache, expr_flags, hs_db, started>>

\* fopen with "w" truncates the file or fails.
OpenCache(p) ==
    /\ pc[p] = "open"
    /\ \/ cache' = [cache EXCEPT ![key[p]] = Truncated] /\ Goto(p, "write")
       \/ UNCHANGED cache /\ Goto(p, "failed")
    /\ UNCHANGED <<rules, expr_flags, hs_db, started, key>>

\* Plausible bug: a short write is taken for a whole one.
WriteNothing(p) ==
    /\ pc[p] = "write"
    /\ cache' = [cache EXCEPT ![key[p]] = WholeFile(NONE)]
    /\ Goto(p, "running")
    /\ UNCHANGED <<rules, expr_flags, hs_db, started, key>>

\* fwrite and fclose; a short write leaves the file as it is and is an error.
WriteCache(p) ==
    /\ pc[p] = "write"
    /\ \/ cache' = [cache EXCEPT ![key[p]] = WholeFile(hs_db[p])] /\ Goto(p, "running")
       \/ UNCHANGED cache /\ Goto(p, "failed")
    /\ UNCHANGED <<rules, expr_flags, hs_db, started, key>>

\* The process ends: regularly, by rte_panic, or killed in the middle of
\* anything.  The file system keeps what was written.
Exit(p) ==
    /\ pc[p] # "off"
    /\ hs_db' = [hs_db EXCEPT ![p] = NONE]
    /\ started' = [started EXCEPT ![p] = NONE]
    /\ key' = [key EXCEPT ![p] = NONE]
    /\ Goto(p, "off")
    /\ UNCHANGED <<rules, cache, expr_flags>>

\* prep_rules.sh: no process is between its start and its end of hs_init_db.
ReplaceRules ==
    /\ \A p \in Procs : pc[p] \in {"off", "running", "failed"}
    /\ rules' \in Rules
    /\ UNCHANGED <<cache, expr_flags, hs_db, started, key, pc>>

Next ==
    \/ \E p \in Procs :
          \/ Start(p) \/ Hash(p) \/ Lookup(p) \/ Compile(p) \/ Rehash(p)
          \/ OpenCache(p) \/ WriteCache(p) \/ Exit(p)
    \/ ReplaceRules

Spec == Init /\ [][Next]_vars

----------------------------------------------------------------------------
\* Type invariant; a process that runs has a database.
TypeOK ==
    /\ rules \in Rules
    /\ cache \in [Keys -> Files]
    /\ expr_flags \in [Procs -> Flags]
    /\ hs_db \in [Procs -> Databases \cup {NONE}]
    /\ started \in [Procs -> Rules \cup {NONE}]
    /\ key \in [Procs -> Keys \cup {NONE}]
    /\ pc \in [Procs -> {"off", "hash", "lookup", "compile", "rehash", "open",
                          "write", "running", "failed"}]
    /\ \A p \in Procs : pc[p] = "running" => hs_db[p] # NONE

\* A process scans with the rules that were in the file when it started and
\* with its own flags, never with what an earlier start, another process or one
\* that was killed while it wrote has left in the cache (util-hs.c:154-195).
DbOfRules ==
    \A p \in Procs : pc[p] = "running" => hs_db[p] = <<started[p], expr_flags[p]>>

\* A cache file that can be loaded holds the database its name stands for,
\* whichever of two processes that miss at the same time truncates and writes
\* it in which order, and wherever one is killed (util-hs.c:315-335).
CacheSound == \A k \in Keys : cache[k].whole => cache[k].db = k
=============================================================================
