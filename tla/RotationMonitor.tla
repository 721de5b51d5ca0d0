--------------------------- MODULE RotationMonitor ---------------------------
(***************************************************************************)
(* One invocation of src/backend/schema/automation_monitor.py: argument    *)
(* parsing picks a command, main() dispatches it, and the process exits.   *)
(* The host is the environment: a record of facts fixed for the            *)
(* invocation (os.name, the two scripts, the database directory, the      *)
(* rotation metadata file, the scheduler entry, disk usage and the        *)
(* scripts' exit status).  Output-only work (banners, listings, the policy *)
(* text) changes nothing but the exit status.  The inventory command runs  *)
(* concurrently with the compression job and is the module DbDirectory.    *)
(***************************************************************************)
EXTENDS Integers

Commands == {"status", "analyze", "test-rotation", "test-compression", "policy"}

(* What get_rotation_metadata() finds: no file, a file json.load rejects  *)
(* (caught: None), a non-empty JSON object, a falsy JSON value ({}, [],   *)
(* 0, "", null) and a truthy JSON value that is not an object.            *)
MetadataKinds == {"absent", "corrupt", "object", "falsy", "nonobject"}

(* The host: os.name == "nt", the rotation script (.ps1 on Windows, .sh   *)
(* elsewhere), compress_old_dbs.sh, the database directory, the metadata  *)
(* file, a cron line / scheduled task, disk usage below 80%, and whether  *)
(* a launched script exits 0.                                             *)
Facts == [nt : BOOLEAN, rotateScript : BOOLEAN, compressScript : BOOLEAN,
          dbDir : BOOLEAN, metadata : MetadataKinds, scheduler : BOOLEAN,
          diskOk : BOOLEAN, scriptOk : BOOLEAN]

(* The parsed arguments: the command, --dry-run, and whether --db-path    *)
(* was given.                                                              *)
Args == [command : Commands, dryRun : BOOLEAN, dbPath : BOOLEAN]

NoRun == [script |-> "none", dryRun |-> FALSE]

VARIABLES
  facts,          \* the host, as the checks see it
  args,           \* argparse result
  phase,          \* "start" until main() returns or the process exits
  checksPassed,   \* check_system_status: checks_passed when it stopped
  checksTotal,    \* check_system_status: checks_total when it stopped
  statusResult,   \* what check_system_status returned: "true", "false" or "none"
  ran,            \* the script subprocess.run launched, and its dry-run flag
  crash,          \* the exception that escaped main(), or "none"
  exitCode        \* process exit status

vars == <<facts, args, phase, checksPassed, checksTotal, statusResult, ran,
          crash, exitCode>>

Init ==
  /\ facts \in Facts
  /\ args \in Args
  /\ phase = "start"
  /\ checksPassed = 0
  /\ checksTotal = 0
  /\ statusResult = "none"
  /\ ran = NoRun
  /\ crash = "none"
  /\ exitCode = -1

B(p) == IF p THEN 1 ELSE 0

Exit(code) ==
  /\ phase' = "done"
  /\ exitCode' = code

(* An exception nobody catches: a traceback and exit status 1.             *)
Raise(e) == Exit(1) /\ crash' = e

(***************************************************************************)
(* show_rotation_status(): get_rotation_metadata() returns None for a      *)
(* missing file and, through its `except Exception`, for one json.load     *)
(* rejects; a falsy value prints the warning; any other truthy value has   *)
(* .get() called on it, which only a dict has.                             *)
(***************************************************************************)
ShowRotationStatusRaises(meta) == meta = "nonobject"

(***************************************************************************)
(* status: check_system_status() then show_rotation_status().              *)
(* Check 1 counts once in checks_total but each script that exists adds    *)
(* one to checks_passed.  Check 4 on POSIX calls subprocess.run with both  *)
(* capture_output=True and stderr=DEVNULL, which raises ValueError before  *)
(* crontab is run; on Windows it counts the scheduled tasks.  Check 5      *)
(* counts in the total even when the directory is missing.  main() ignores *)
(* the result.                                                              *)
(***************************************************************************)
Status ==
  LET first3 == B(facts.rotateScript) + B(facts.compressScript)
                + B(facts.dbDir) + B(facts.metadata # "absent")
      passed == first3 + B(facts.scheduler) + B(facts.dbDir /\ facts.diskOk)
  IN  /\ phase = "start"
      /\ args.command = "status"
      /\ IF ~facts.nt
           THEN /\ checksPassed' = first3
                /\ checksTotal' = 4
                /\ Raise("ValueError")
                /\ UNCHANGED statusResult
           ELSE /\ checksPassed' = passed
                /\ checksTotal' = 5
                /\ statusResult' = IF passed = 5 THEN "true" ELSE "false"
                /\ IF ShowRotationStatusRaises(facts.metadata)
                     THEN Raise("AttributeError")
                     ELSE Exit(0) /\ UNCHANGED crash
      /\ UNCHANGED <<facts, args, ran>>

(***************************************************************************)
(* analyze: exit 1 without --db-path, else analyze_database(), which       *)
(* returns early for a missing file and catches every sqlite error; main() *)
(* discards its result.                                                     *)
(***************************************************************************)
(* Mutant: a missing --db-path reported through parser.error (status 2). *)
AnalyzeParserError ==
  /\ phase = "start"
  /\ args.command = "analyze"
  /\ Exit(IF args.dbPath THEN 0 ELSE 2)
  /\ UNCHANGED <<facts, args, checksPassed, checksTotal, statusResult, ran,
                 crash>>

Analyze ==
  /\ phase = "start"
  /\ args.command = "analyze"
  /\ Exit(IF args.dbPath THEN 0 ELSE 1)
  /\ UNCHANGED <<facts, args, checksPassed, checksTotal, statusResult, ran,
                 crash>>

(* policy: show_retention_policy() prints a fixed text.                   *)
Policy ==
  /\ phase = "start"
  /\ args.command = "policy"
  /\ Exit(0)
  /\ UNCHANGED <<facts, args, checksPassed, checksTotal, statusResult, ran,
                 crash>>

(***************************************************************************)
(* test-rotation / test-compression: main() passes                         *)
(* dry_run = args.dry_run or True.  The test returns False when the script *)
(* is missing; otherwise it launches it (`-DryRun` for PowerShell, DRY_RUN *)
(* in the environment for a shell script) and returns whether it exited 0. *)
(* A launch that raises (Windows cannot execute a .sh file) is caught and  *)
(* returns False.  main() exits 0 on success, 1 otherwise.                 *)
(***************************************************************************)
RunScriptTest(cmd, script, exists, launchable) ==
  LET dry     == args.dryRun \/ TRUE
      started == exists /\ launchable
  IN  /\ phase = "start"
      /\ args.command = cmd
      /\ ran' = IF started THEN [script |-> script, dryRun |-> dry] ELSE NoRun
      /\ Exit(IF started /\ facts.scriptOk THEN 0 ELSE 1)
      /\ UNCHANGED <<facts, args, checksPassed, checksTotal, statusResult,
                     crash>>

TestRotation ==
  RunScriptTest("test-rotation", "rotate", facts.rotateScript, TRUE)

TestCompression ==
  RunScriptTest("test-compression", "compress", facts.compressScript,
                ~facts.nt)

Terminated ==
  /\ phase = "done"
  /\ UNCHANGED vars

Next == Status \/ Analyze \/ Policy \/ TestRotation \/ TestCompression
        \/ Terminated

Spec == Init /\ [][Next]_vars

-----------------------------------------------------------------------------
TypeOK ==
  /\ facts \in Facts
  /\ args \in Args
  /\ phase \in {"start", "done"}
  /\ checksPassed \in 0..6
  /\ checksTotal \in 0..5
  /\ statusResult \in {"none", "true", "false"}
  /\ ran \in [script : {"none", "rotate", "compress"}, dryRun : BOOLEAN]
  /\ crash \in {"none", "ValueError", "AttributeError"}
  /\ exitCode \in {-1, 0, 1}

(* check_system_status() returns True exactly when every check passed:   *)
(* both scripts, the database directory, the metadata file, the scheduler *)
(* and the disk.                                                            *)
StatusAccurate ==
  statusResult # "none" =>
    (statusResult = "true" <=>
       /\ facts.rotateScript /\ facts.compressScript /\ facts.dbDir
       /\ facts.metadata # "absent" /\ facts.scheduler /\ facts.diskOk)

(* `status` (epilog: "Check system status") runs its five checks and      *)
(* shows the rotation status, whatever the checks find: it ends with a    *)
(* result, not a traceback.                                                 *)
StatusCompletes ==
  (phase = "done" /\ args.command = "status")
  => (statusResult # "none" /\ crash = "none")
=============================================================================
