----------------------------- MODULE DbDirectory ------------------------------
(***************************************************************************)
(* The two commands of automation_monitor.py that read the database       *)
(* directory while the weekly compression job may run on it:              *)
(*   `inventory`: get_database_inventory() globs the active ("*.db") and   *)
(*     then the compressed ("*.db.zst") databases, and stats the last 10   *)
(*     of each sorted list;                                                 *)
(*   `analyze --db-path P`: analyze_database(P) checks that P exists,      *)
(*     stats it, opens it with sqlite3.connect and runs its queries.       *)
(* One invocation runs one command.                                         *)
(*                                                                         *)
(* A database is one element of the ordered set Dbs (its path; the        *)
(* date-named paths sort oldest first).  The compression job is the        *)
(* environment: it writes <name>.db.zst, then removes <name>.db, so a      *)
(* database is "db", "both" (while zstd runs) or "zst".  The monthly       *)
(* archival (the retention policy that show_retention_policy prints)       *)
(* moves a <name>.db.zst older than 30 days to cold storage, leaving        *)
(* "none" (no file; also every database of a missing directory).  "stray"  *)
(* is a <name>.db.zst with an empty <name>.db beside it, which only         *)
(* sqlite3.connect creates (it creates a missing file); an earlier         *)
(* `analyze` may have left one, so an invocation may start with it.        *)
(***************************************************************************)
EXTENDS Integers, Sequences, SequencesExt, Functions

CONSTANTS
  NumDbs,        \* databases in the directory tree
  LIST_LIMIT,    \* the slice [-10:] of the listing loops (10 in the code)
  Compressible,  \* the databases the jobs may compress or archive
  Commands       \* the commands an invocation may run

Dbs == 1..NumDbs

ASSUME
  /\ NumDbs \in Nat /\ LIST_LIMIT \in Nat \ {0}
  /\ Compressible \subseteq Dbs
  /\ Commands \subseteq {"inventory", "analyze"}

HasDb  == {"db", "both", "stray"}     \* <name>.db exists
(* Mutant: the compressed pattern written "*.db*", matching every file.   *)
HasAnyFile == {"db", "both", "zst", "stray"}
HasZst == {"both", "zst", "stray"}    \* <name>.db.zst exists

VARIABLES
  dirExists,        \* self.db_dir.exists()
  file,             \* database -> which of its files exist
  pc,               \* where the command is
  activeDbs,        \* active_dbs: sorted glob of *.db
  compressedDbs,    \* compressed_dbs: sorted glob of *.db.zst
  idx,              \* position in the slice being listed
  listedActive,     \* inventory["active"], as the databases listed
  listedCompressed, \* inventory["compressed"]
  crash,            \* the exception that escaped main(), or "none"
  cmd,              \* args.command
  target,           \* args.db_path of `analyze`
  busy,             \* history: databases a job worked on while the command ran
  absent            \* history: the databases whose .db was missing at the start or removed since

vars == <<dirExists, file, pc, activeDbs, compressedDbs, idx,
          listedActive, listedCompressed, crash, cmd, target, busy, absent>>

fixedVars == <<dirExists, cmd, target>>    \* never changed by the command

Init ==
  /\ dirExists \in BOOLEAN
  /\ file \in [Dbs -> IF dirExists THEN {"db", "zst", "stray", "none"}
                                  ELSE {"none"}]
  /\ pc = "start"
  /\ activeDbs = << >>
  /\ compressedDbs = << >>
  /\ idx = 1
  /\ listedActive = << >>
  /\ listedCompressed = << >>
  /\ crash = "none"
  /\ cmd \in Commands
  /\ target \in Dbs
  /\ busy = {}
  /\ absent = {d \in Dbs : file[d] \notin HasDb}

(* sorted(self.db_dir.glob(pattern)): the matching databases, in path     *)
(* order (the order of Dbs).                                                *)
Glob(kinds) == SelectSeq([i \in Dbs |-> i], LAMBDA d : file[d] \in kinds)

(* dbs[-LIST_LIMIT:], the newest LIST_LIMIT paths.                        *)
(* Mutant: the whole list, the slice left out.                             *)
WindowAll(s) == s

Window(s) ==
  SubSeq(s, IF Len(s) > LIST_LIMIT THEN Len(s) - LIST_LIMIT + 1 ELSE 1, Len(s))

(***************************************************************************)
(* inventory                                                                *)
(***************************************************************************)
(* A missing database directory: a warning and the empty inventory.       *)
NoDirectory ==
  /\ pc = "start" /\ cmd = "inventory"
  /\ ~dirExists
  /\ pc' = "done"
  /\ UNCHANGED <<fixedVars, file, activeDbs, compressedDbs, idx,
                 listedActive, listedCompressed, crash, busy, absent>>

GlobActive ==
  /\ pc = "start" /\ cmd = "inventory"
  /\ dirExists
  /\ activeDbs' = Glob(HasDb)
  /\ pc' = "globbed"
  /\ busy' = {d \in Dbs : file[d] = "both"}
  /\ UNCHANGED <<fixedVars, file, compressedDbs, idx, listedActive,
                 listedCompressed, crash, absent>>

GlobCompressed ==
  /\ pc = "globbed"
  /\ compressedDbs' = Glob(HasZst)
  /\ pc' = "active"
  /\ UNCHANGED <<fixedVars, file, activeDbs, idx, listedActive,
                 listedCompressed, crash, busy, absent>>

(***************************************************************************)
(* One iteration of a listing loop: stat() the file (three times in the   *)
(* code, for the size, the mtime and the total; a file gone by then raises *)
(* FileNotFoundError, which nothing catches) and record it.  The sizes,   *)
(* mtimes and size totals it computes are left out.                        *)
(***************************************************************************)
StatActive ==
  LET d == Window(activeDbs)[idx]
  IN  /\ pc = "active"
      /\ idx <= Len(Window(activeDbs))
      /\ IF file[d] \in HasDb
           THEN /\ listedActive' = Append(listedActive, d)
                /\ idx' = idx + 1
                /\ UNCHANGED <<pc, crash>>
           ELSE /\ pc' = "done"
                /\ crash' = "FileNotFoundError"
                /\ UNCHANGED <<listedActive, idx>>
      /\ UNCHANGED <<fixedVars, file, activeDbs, compressedDbs,
                     listedCompressed, busy, absent>>

ActiveListed ==
  /\ pc = "active"
  /\ idx > Len(Window(activeDbs))
  /\ pc' = "compressed"
  /\ idx' = 1
  /\ UNCHANGED <<fixedVars, file, activeDbs, compressedDbs,
                 listedActive, listedCompressed, crash, busy, absent>>

StatCompressed ==
  LET d == Window(compressedDbs)[idx]
  IN  /\ pc = "compressed"
      /\ idx <= Len(Window(compressedDbs))
      /\ IF file[d] \in HasZst
           THEN /\ listedCompressed' = Append(listedCompressed, d)
                /\ idx' = idx + 1
                /\ UNCHANGED <<pc, crash>>
           ELSE /\ pc' = "done"
                /\ crash' = "FileNotFoundError"
                /\ UNCHANGED <<listedCompressed, idx>>
      /\ UNCHANGED <<fixedVars, file, activeDbs, compressedDbs,
                     listedActive, busy, absent>>

(* The storage summary is printed and the inventory returned: exit 0.     *)
CompressedListed ==
  /\ pc = "compressed"
  /\ idx > Len(Window(compressedDbs))
  /\ pc' = "done"
  /\ UNCHANGED <<fixedVars, file, activeDbs, compressedDbs, idx,
                 listedActive, listedCompressed, crash, busy, absent>>

(***************************************************************************)
(* analyze: Path(db_path).exists(), then stat() outside the try (a file   *)
(* gone by then raises FileNotFoundError, which nothing catches), then,   *)
(* inside `try ... except Exception`, sqlite3.connect and the queries.    *)
(* connect() opens the file, creating an empty one if it is missing (it   *)
(* fails, and is caught, when the directory is missing too); the           *)
(* queries then read that open file whatever the job does to its path,    *)
(* and their errors (an empty file has no `ticks` table) are caught.      *)
(* main() discards the result: exit 0 on every path but the crash.        *)
(***************************************************************************)
AnalyzeVars == <<fixedVars, activeDbs, compressedDbs, idx, listedActive,
                 listedCompressed, busy, absent>>

(* Mutant: the early return dropped and the stat moved into the try, so a *)
(* missing path goes on to connect().                                      *)
AnalyzeMissingFallsThrough ==
  /\ pc = "start" /\ cmd = "analyze"
  /\ file[target] \notin HasDb
  /\ pc' = "statted"
  /\ UNCHANGED <<AnalyzeVars, file, crash>>

(* Mutant: the exists() check left out, the stat() reached for any path. *)
AnalyzeMissingStats ==
  /\ pc = "start" /\ cmd = "analyze"
  /\ file[target] \notin HasDb
  /\ pc' = "checked"
  /\ UNCHANGED <<AnalyzeVars, file, crash>>

(* "Database not found": return the empty analysis.                       *)
AnalyzeMissing ==
  /\ pc = "start" /\ cmd = "analyze"
  /\ file[target] \notin HasDb
  /\ pc' = "done"
  /\ UNCHANGED <<AnalyzeVars, file, crash>>

AnalyzeExists ==
  /\ pc = "start" /\ cmd = "analyze"
  /\ file[target] \in HasDb
  /\ pc' = "checked"
  /\ UNCHANGED <<AnalyzeVars, file, crash>>

AnalyzeStat ==
  /\ pc = "checked"
  /\ IF file[target] \in HasDb
       THEN pc' = "statted" /\ UNCHANGED crash
       ELSE pc' = "done" /\ crash' = "FileNotFoundError"
  /\ UNCHANGED <<AnalyzeVars, file>>

AnalyzeConnect ==
  /\ pc = "statted"
  /\ file' = IF file[target] = "zst" THEN [file EXCEPT ![target] = "stray"]
                ELSE file
  /\ pc' = "done"
  /\ UNCHANGED <<AnalyzeVars, crash>>

(***************************************************************************)
(* The jobs.  Compression: zstd writes <name>.db.zst, then the .db is     *)
(* removed.  Archival: the .db.zst is moved to cold storage (an empty     *)
(* stray .db beside it stays).  What compression does with a stray empty  *)
(* .db is up to the script, which is not part of this repository: the      *)
(* model leaves a stray alone.                                              *)
(***************************************************************************)
Touch(d) ==
  busy' = IF pc = "start" THEN busy ELSE busy \cup {d}

CompressWrite(d) ==
  /\ dirExists
  /\ file[d] = "db"
  /\ file' = [file EXCEPT ![d] = "both"]
  /\ Touch(d)
  /\ UNCHANGED <<fixedVars, pc, activeDbs, compressedDbs, idx, listedActive,
                 listedCompressed, crash, absent>>

CompressRemove(d) ==
  /\ file[d] = "both"
  /\ file' = [file EXCEPT ![d] = "zst"]
  /\ Touch(d)
  /\ absent' = absent \cup {d}
  /\ UNCHANGED <<fixedVars, pc, activeDbs, compressedDbs, idx, listedActive,
                 listedCompressed, crash>>

Archive(d) ==
  /\ file[d] \in {"zst", "stray"}
  /\ file' = [file EXCEPT ![d] = IF file[d] = "zst" THEN "none" ELSE "db"]
  /\ Touch(d)
  /\ UNCHANGED <<fixedVars, pc, activeDbs, compressedDbs, idx, listedActive,
                 listedCompressed, crash, absent>>

Terminated ==
  /\ pc = "done"
  /\ UNCHANGED vars

Next ==
  \/ NoDirectory \/ GlobActive \/ GlobCompressed
  \/ StatActive \/ ActiveListed \/ StatCompressed \/ CompressedListed
  \/ AnalyzeMissing \/ AnalyzeExists \/ AnalyzeStat \/ AnalyzeConnect
  \/ \E d \in Compressible :
       CompressWrite(d) \/ CompressRemove(d) \/ Archive(d)
  \/ Terminated

Spec == Init /\ [][Next]_vars

-----------------------------------------------------------------------------
TypeOK ==
  /\ dirExists \in BOOLEAN
  /\ file \in [Dbs -> {"none", "db", "both", "zst", "stray"}]
  /\ pc \in {"start", "globbed", "active", "compressed", "checked", "statted",
             "done"}
  /\ activeDbs \in Seq(Dbs) /\ compressedDbs \in Seq(Dbs)
  /\ idx \in 1..(LIST_LIMIT + 1)
  /\ listedActive \in Seq(Dbs) /\ listedCompressed \in Seq(Dbs)
  /\ crash \in {"none", "FileNotFoundError"}
  /\ cmd \in Commands /\ target \in Dbs
  /\ busy \subseteq Compressible /\ absent \subseteq Dbs

(* A database appears both as active and as compressed only when a job   *)
(* worked on it while the inventory ran, or when an earlier `analyze`     *)
(* left an empty .db beside its archive (a stray): on a quiet directory    *)
(* without strays every database is counted once.                          *)
DoubleListedOnlyWhileBusyOrStray ==
  (cmd = "inventory" /\ pc = "done" /\ crash = "none") =>
    \A d \in ToSet(listedActive) \cap ToSet(listedCompressed) :
      d \in busy \/ file[d] = "stray"

(* analyze_database's exists() check keeps sqlite3.connect from creating  *)
(* a database: a .db that was missing, or that the compression job        *)
(* removed, stays missing, unless the job worked on it while the command  *)
(* ran.                                                                     *)
NoDatabaseCreatedUnlessCompressing ==
  \A d \in absent \ busy : file[d] \notin HasDb

(* Both commands stat() a file only after finding it (the globs, the     *)
(* exists() check), so FileNotFoundError escapes only when a job (zstd   *)
(* removing a .db, the archival moving a .db.zst) worked on a database   *)
(* while the command ran; for `analyze`, on the database it was asked to  *)
(* analyze.                                                                 *)
CrashOnlyWhileJobsRun ==
  crash # "none" => busy # {} /\ (cmd = "analyze" => target \in busy)

-----------------------------------------------------------------------------
(* Properties the code violates.                                           *)

(* `inventory` ("Show database inventory") lists the directory and exits  *)
(* normally, also while the compression job runs.                          *)
InventoryCompletes == (cmd = "inventory" /\ pc = "done") => crash = "none"

(* `analyze` ("Analyze a specific database") only reads: a .db that was   *)
(* missing, or that the compression job removed, stays missing, so it     *)
(* never puts an empty .db back beside the archive the job just wrote.     *)
NoDatabaseCreated == \A d \in absent : file[d] \notin HasDb
=============================================================================
