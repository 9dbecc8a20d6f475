---------------------------- MODULE DependencyFetch ----------------------------
(***************************************************************************)
(* Fetching dependencies before a build (tool/pub_get_retry.py,            *)
(* tool/owned_process_cleanup.py, tool/prepare_go_dependencies.py): one    *)
(* supervisor runs a command a bounded number of times within a bounded    *)
(* time, owns the process tree of each attempt and ends it before it looks *)
(* at the result.  The Go job wraps it with a check that the pinned module *)
(* files were those that were fetched and are unchanged.  The command, its *)
(* descendants, the operator's signal, the clock and whoever edits the     *)
(* checkout take their steps between any two of the supervisor's.          *)
(***************************************************************************)
EXTENDS Naturals, Sequences, FiniteSets

CONSTANTS
    Attempts,        \* attempts
    AttemptTimeout,  \* attempt_timeout
    TotalTimeout,    \* total_timeout
    FirstDelay,      \* delays[0]
    LaterDelay,      \* delays[1]
    CleanupTimeout,  \* the deadline of one cleanup
    MaxEdits         \* bound on the edits of the checkout

ASSUME FetchAssumption ==
    /\ Attempts \in Nat \ {0}
    /\ AttemptTimeout \in Nat \ {0}
    /\ TotalTimeout \in Nat \ {0}
    /\ FirstDelay \in Nat \ {0} /\ LaterDelay \in Nat \ {0}
    /\ CleanupTimeout \in Nat \ {0}
    /\ MaxEdits \in Nat

Manifests == {"mod", "sum"}
Marks == {"network", "permanent"}
(* What an exit code says: 0, an ordinary failure, a stop by SIGINT or      *)
(* SIGTERM, or any other signal or NTSTATUS.                                *)
Exits == {"ok", "fail", "stopped", "crashed"}
NoExit == "none"

VARIABLES
    job,        \* "pub" or "go"
    host,       \* "posix" or "windows"
    now,        \* monotonic time
    pc,         \* the supervisor's next step
    due,        \* when the present wait ends
    index,      \* attempts begun before this one
    leader,     \* the process started by this attempt
    exit,       \* how it ended
    status,     \* windows: what the worker left in its status file
    kin,        \* other members of its group or Job are alive
    struck,     \* SIGKILL reached the group
    said,       \* marks in what the tree has printed, within output_limit
    heard,      \* marks the supervisor has read
    code,       \* attempt: code
    reason,     \* attempt: reason
    hard,       \* cleanup: hard_error
    cleaned,    \* attempt: cleaned
    signal,     \* cancelled_signal
    outcome,    \* execute: outcome
    core,       \* version of each pinned module file in the checkout
    before,     \* prepare: inputs_before
    isolated,   \* the copies the download runs on
    evidence,   \* prepare: evidence
    report,     \* the report on disk
    failing,    \* prepare: an exception is on its way out
    result,     \* exit status of the program
    edits       \* bound: edits of the checkout so far

clockVars == <<now, due>>
treeVars == <<leader, exit, status, kin, struck, said>>
attemptVars == <<heard, code, reason, hard, cleaned>>
loopVars == <<index, outcome>>
goVars == <<before, isolated, evidence, report, failing>>
envVars == <<job, host, signal, core, edits>>
vars == <<envVars, clockVars, pc, treeVars, attemptVars, loopVars, goVars, result>>

-----------------------------------------------------------------------------
Reports == [passed : BOOLEAN,
            stage : {"older", "inputs", "download", "complete", "inputs_changed",
                     "isolated_manifest_changed", "download_failed", "cancelled"}]

TypeOK ==
    /\ job \in {"pub", "go"} /\ host \in {"posix", "windows"}
    /\ now \in Nat /\ due \in Nat
    /\ pc \in {"inputs", "copy", "loop", "spawn", "assign", "poll", "term", "kill",
               "verify", "jobStop", "drain", "judge", "backoff", "compare", "seal",
               "publish", "recheck", "exit", "done"}
    /\ index \in 0..(Attempts - 1)
    /\ leader \in {"none", "gated", "running", "exited", "reaped"}
    /\ exit \in Exits \cup {NoExit} /\ code \in Exits \cup {NoExit}
    /\ status \in {"absent", "launch_failed", "started", "exited"}
    /\ {kin, struck, hard, cleaned, signal} \subseteq BOOLEAN
    /\ failing \in {"no", "error", "signal"}
    /\ said \subseteq Marks /\ heard \subseteq Marks
    /\ reason \in {"exit", "output_limit", "cancelled", "attempt_timeout",
                   "launch_or_io_error", "worker_protocol_error"}
    /\ outcome \in {"failed", "success", "cancelled", "process_crash",
                    "cleanup_failed", "budget_exhausted"}
    /\ core \in [Manifests -> Nat] /\ before \in [Manifests -> Nat]
    /\ isolated \in [Manifests -> Nat]
    /\ evidence \in Reports /\ report \in Reports
    /\ result \in {"running", "ok", "failed", "signalled"}
    /\ edits \in 0..MaxEdits

(* A report of an earlier, successful run may be on the disk. *)
Init ==
    /\ job \in {"pub", "go"} /\ host \in {"posix", "windows"}
    /\ now = 0 /\ due = 0 /\ index = 0
    /\ pc = IF job = "go" THEN "inputs" ELSE "loop"
    /\ leader = "none" /\ exit = NoExit /\ status = "absent"
    /\ kin = FALSE /\ struck = FALSE /\ said = {}
    /\ heard = {} /\ code = NoExit /\ reason = "exit" /\ hard = FALSE /\ cleaned = TRUE
    /\ signal = FALSE /\ outcome = "failed"
    /\ core = [f \in Manifests |-> 0]
    /\ before = core /\ isolated = core
    /\ evidence = [passed |-> FALSE, stage |-> "inputs"]
    /\ report = [passed |-> TRUE, stage |-> "older"]
    /\ failing = "no" /\ result = "running" /\ edits = 0

-----------------------------------------------------------------------------
(* The world around the supervisor. *)

TreeRuns == leader = "running" \/ kin
TreeAlive == leader \in {"gated", "running"} \/ kin

Waiting == pc \in {"poll", "backoff", "term", "kill", "verify", "jobStop"}

Tick ==
    /\ Waiting /\ now < due
    /\ now' = now + 1
    /\ UNCHANGED <<envVars, due, pc, treeVars, attemptVars, loopVars, goVars, result>>

(* The handlers only note the signal. *)
Cancel ==
    /\ ~signal /\ pc \notin {"inputs", "done"}
    /\ signal' = TRUE
    /\ UNCHANGED <<job, host, core, edits, clockVars, pc, treeVars, attemptVars, loopVars,
                   goVars, result>>

(* Somebody works in the checkout.  The program reads it at these steps     *)
(* only, so an edit at any other time is the same as one before the next.   *)
Edit(f) ==
    /\ job = "go" /\ edits < MaxEdits /\ pc \in {"copy", "compare"}
    /\ edits' = edits + 1
    /\ core' = [core EXCEPT ![f] = 1 - @]
    /\ UNCHANGED <<job, host, signal, clockVars, pc, treeVars, attemptVars, loopVars,
                   goVars, result>>

TreePrints ==
    /\ TreeRuns /\ ~struck
    /\ \E m \in Marks \ said : said' = said \cup {m}
    /\ UNCHANGED <<envVars, clockVars, pc, leader, exit, status, kin, struck, attemptVars,
                   loopVars, goVars, result>>

TreeForks ==
    /\ leader = "running" /\ ~struck /\ ~kin
    /\ kin' = TRUE
    /\ UNCHANGED <<envVars, clockVars, pc, leader, exit, status, struck, said,
                   attemptVars, loopVars, goVars, result>>

KinEnds ==
    /\ kin /\ kin' = FALSE
    /\ UNCHANGED <<envVars, clockVars, pc, leader, exit, status, struck, said,
                   attemptVars, loopVars, goVars, result>>

(* On Windows the leader is the worker, which waits for the gate, starts    *)
(* the command and passes its exit code on.                                 *)
WorkerLaunches ==
    /\ leader = "gated" /\ pc \notin {"assign", "jobStop"}
    /\ \/ /\ leader' = "running" /\ status' = "started" /\ UNCHANGED exit
       \/ /\ leader' = "exited" /\ status' = "launch_failed" /\ exit' = "fail"
    /\ UNCHANGED <<envVars, clockVars, pc, kin, struck, said, attemptVars, loopVars,
                   goVars, result>>

LeaderExits(e) ==
    /\ leader = "running"
    /\ leader' = "exited" /\ exit' = e
    /\ status' = IF host = "windows" THEN "exited" ELSE status
    /\ UNCHANGED <<envVars, clockVars, pc, kin, struck, said, attemptVars, loopVars,
                   goVars, result>>

(* The worker can die without the command, which the Job still holds. *)
WorkerDies(e) ==
    /\ host = "windows" /\ leader = "running" /\ e \in {"fail", "crashed"}
    /\ leader' = "exited" /\ exit' = e /\ kin' = TRUE
    /\ UNCHANGED <<envVars, clockVars, pc, status, struck, said, attemptVars,
                   loopVars, goVars, result>>

-----------------------------------------------------------------------------
(* attempt: one process tree. *)

Earliest(a, b) == IF a < b THEN a ELSE b

AttemptDeadline == due' = now + Earliest(AttemptTimeout, TotalTimeout - now)

Spawn ==
    /\ pc = "spawn"
    /\ heard' = {} /\ code' = NoExit /\ hard' = FALSE /\ cleaned' = TRUE
    /\ exit' = NoExit /\ status' = "absent" /\ struck' = FALSE
    /\ said' = {}
    /\ \/ /\ leader' = IF host = "windows" THEN "gated" ELSE "running"
          /\ kin' = FALSE /\ reason' = "exit"
          /\ pc' = IF host = "windows" THEN "assign" ELSE "poll"
          /\ AttemptDeadline
       \/ /\ leader' = "none" /\ reason' = "launch_or_io_error" /\ pc' = "judge"
          /\ UNCHANGED <<kin, due>>
    /\ UNCHANGED <<envVars, now, loopVars, goVars, result>>

Stop == IF host = "windows" THEN "jobStop" ELSE "term"

(* The gate opens once the worker is in the Job. *)
Assign ==
    /\ pc = "assign"
    /\ \/ pc' = "poll" /\ UNCHANGED <<due, reason>>
       \/ pc' = "jobStop" /\ reason' = "launch_or_io_error" /\ due' = now + CleanupTimeout
    /\ UNCHANGED <<envVars, now, treeVars, heard, code, hard, cleaned, loopVars, goVars, result>>

(* One turn of the loop looks for a reason to stop in this order; poll()    *)
(* reaps a leader that has exited.  What it reads of the output on the way  *)
(* is left to ReadsRest.                                                    *)
Leaves == pc' = Stop /\ due' = now + CleanupTimeout

Poll ==
    /\ pc = "poll" /\ Leaves
    /\ UNCHANGED heard
    /\ \/ signal /\ reason' = "cancelled" /\ UNCHANGED <<code, leader>>
       \/ /\ ~signal /\ now >= due /\ reason' = "attempt_timeout"
          /\ UNCHANGED <<code, leader>>
       \/ /\ ~signal /\ now < due /\ leader = "exited"
          /\ leader' = "reaped" /\ code' = exit /\ UNCHANGED reason
    /\ UNCHANGED <<envVars, now, exit, status, kin, struck, said, hard, cleaned,
                   loopVars, goVars, result>>

(* Reading the output file fails, or it is longer than output_limit. *)
PollFails ==
    /\ pc = "poll" /\ Leaves
    /\ reason' \in {"launch_or_io_error", "output_limit"}
    /\ UNCHANGED <<envVars, now, treeVars, heard, code, hard, cleaned, loopVars, goVars, result>>

-----------------------------------------------------------------------------
(* cleanup_owned_group. *)

Reaped == leader \in {"reaped", "none"}

(* process.wait: a leader that has exited is reaped, one that has not is    *)
(* left to the next step; the wait itself may fail.                         *)
WaitLeader(bad) ==
    /\ leader' = IF leader = "exited" THEN "reaped" ELSE leader
    /\ hard' = (hard \/ bad)

(* SIGTERM: EPERM is a permission race, any other error is hard. *)
Term ==
    /\ pc = "term"
    /\ \E bad \in BOOLEAN : WaitLeader(bad)
    /\ pc' = "kill"
    /\ UNCHANGED <<envVars, clockVars, exit, status, kin, struck, said, heard, code,
                   reason, cleaned, loopVars, goVars, result>>

(* SIGKILL to the group, whether or not the leader is gone: it ends the     *)
(* descendants, unless it was not delivered.                                *)
Kill ==
    /\ pc = "kill"
    /\ \E bad \in BOOLEAN : WaitLeader(bad)
    /\ struck' \in BOOLEAN
    /\ pc' = "verify"
    /\ UNCHANGED <<envVars, clockVars, exit, status, kin, said, heard, code,
                   reason, cleaned, loopVars, goVars, result>>

AfterStop == IF reason = "launch_or_io_error" THEN "judge" ELSE "drain"

CleanupEnds(ok) ==
    /\ cleaned' = ok
    /\ pc' = AfterStop
    /\ code' = IF code = NoExit /\ leader' = "reaped" THEN exit' ELSE code

(* A fresh inventory of the group decides, once the leader is reaped too. *)
Inventory ==
    IF TreeRuns THEN leader' # leader /\ UNCHANGED <<cleaned, pc, code>>
                ELSE CleanupEnds(~hard)

cleanupRest == <<envVars, clockVars, exit, status, kin, struck, said, heard, reason,
                 loopVars, goVars, result>>

VerifyUntilGone ==
    /\ pc = "verify"
    /\ UNCHANGED cleanupRest
    /\ WaitLeader(FALSE) /\ Inventory

Verify ==
    /\ pc = "verify"
    /\ UNCHANGED cleanupRest
    /\ \/ now < due /\ WaitLeader(FALSE) /\ Inventory
       \/ now >= due /\ UNCHANGED <<leader, hard>> /\ CleanupEnds(FALSE)

(* The inventory, or the wait after it, fails. *)
VerifyFails ==
    /\ pc = "verify" /\ now < due
    /\ UNCHANGED cleanupRest
    /\ WaitLeader(TRUE) /\ CleanupEnds(FALSE)

(* The Job ends its members; a worker that is still behind the gate is      *)
(* killed by itself.  Either may fail, and so may the wait for the worker.  *)
JobStop ==
    /\ pc = "jobStop"
    /\ \E stopped, waited \in BOOLEAN :
         LET gone == stopped \/ leader # "running" IN
         /\ kin' = (kin /\ ~stopped)
         /\ struck' = stopped
         /\ leader' = CASE leader = "reaped" \/ (gone /\ waited) -> "reaped"
                         [] gone -> "exited"
                         [] OTHER -> "running"
         /\ exit' = IF leader' # "running" /\ exit = NoExit THEN "fail" ELSE exit
         /\ CleanupEnds(stopped /\ leader' = "reaped")
    /\ UNCHANGED <<envVars, clockVars, status, said, heard, reason, hard, loopVars,
                   goVars, result>>

-----------------------------------------------------------------------------

(* The rest of the output is read once the tree has ended, up to            *)
(* output_limit: said holds no more than that.                              *)
ReadsRest == heard' = said

(* worker_result: the worker's status file, never its output, tells what    *)
(* became of the command.                                                   *)
WorkerVerdict ==
    IF host = "posix" \/ reason # "exit" THEN UNCHANGED <<reason, code>>
    ELSE CASE status = "launch_failed" -> reason' = "launch_or_io_error" /\ code' = "fail"
           [] status = "exited" -> code' = exit /\ UNCHANGED reason
           [] OTHER -> IF code = "crashed" THEN UNCHANGED <<reason, code>>
                       ELSE reason' = "worker_protocol_error" /\ code' = "fail"

Drain ==
    /\ pc = "drain"
    /\ ReadsRest /\ WorkerVerdict
    /\ pc' = "judge"
    /\ UNCHANGED <<envVars, clockVars, treeVars, hard, cleaned, loopVars, goVars, result>>

(* An error here runs the cleanup again. *)
DrainFails ==
    /\ pc = "drain" /\ Leaves
    /\ reason' = "launch_or_io_error" /\ hard' = FALSE
    /\ UNCHANGED <<envVars, now, treeVars, heard, code, cleaned, loopVars, goVars, result>>

-----------------------------------------------------------------------------
(* execute: whether the attempt is tried again. *)

PubResult(o) ==
    CASE o = "success" -> "ok" [] o = "cancelled" -> "signalled" [] OTHER -> "failed"

(* The local state of attempt ends with it. *)
Forget ==
    /\ heard' = {} /\ code' = NoExit /\ reason' = "exit" /\ hard' = FALSE /\ cleaned' = TRUE
    /\ exit' = NoExit /\ status' = "absent" /\ said' = {} /\ due' = 0

localVars == <<attemptVars, exit, status, said>>

(* main saves the report of a pub job, prepare goes on with the Go job. *)
Finish(o) ==
    /\ outcome' = o
    /\ Forget
    /\ IF job = "go"
       THEN pc' = "compare" /\ UNCHANGED <<report, result>>
       ELSE /\ pc' = "done"
            /\ \/ /\ result' = PubResult(o)
                  /\ report' = [passed |-> o = "success",
                                stage |-> IF o = "success" THEN "complete" ELSE "download_failed"]
               \/ result' = "failed" /\ UNCHANGED report

Loop ==
    /\ pc = "loop"
    /\ \/ signal /\ Finish("cancelled")
       \/ ~signal /\ now >= TotalTimeout /\ Finish("budget_exhausted")
       \/ /\ ~signal /\ now < TotalTimeout /\ pc' = "spawn"
          /\ UNCHANGED <<due, localVars, outcome, report, result>>
    /\ UNCHANGED <<envVars, now, leader, kin, struck, index, before, isolated, evidence,
                   failing>>

Retryable ==
    /\ reason \in {"exit", "attempt_timeout"}
    /\ "permanent" \notin heard
    /\ "network" \in heard \/ reason = "attempt_timeout"

DelayOf(i) == IF i = 0 THEN FirstDelay ELSE LaterDelay

RetryOrFail ==
    IF ~Retryable \/ index + 1 = Attempts THEN Finish("failed")
    ELSE IF now + DelayOf(index) >= TotalTimeout THEN Finish("budget_exhausted")
    ELSE /\ pc' = "backoff" /\ due' = now + DelayOf(index)
         /\ UNCHANGED <<localVars, outcome, report, result>>

VerdictWithoutCleanup ==
    CASE signal \/ reason = "cancelled" -> Finish("cancelled")
      [] reason = "exit" /\ code = "ok" -> Finish("success")
      [] OTHER -> RetryOrFail

Verdict ==
    CASE ~cleaned -> Finish("cleanup_failed")
      [] cleaned /\ (signal \/ reason = "cancelled" \/ (reason = "exit" /\ code = "stopped")) ->
            Finish("cancelled")
      [] cleaned /\ ~signal /\ reason = "exit" /\ code = "crashed" -> Finish("process_crash")
      [] cleaned /\ ~signal /\ reason = "exit" /\ code = "ok" -> Finish("success")
      [] OTHER -> RetryOrFail

Judge ==
    /\ pc = "judge"
    /\ Verdict
    /\ UNCHANGED <<envVars, now, leader, kin, struck, index, before, isolated, evidence,
                   failing>>

Backoff ==
    /\ pc = "backoff"
    /\ now >= due \/ signal
    /\ pc' = "loop" /\ index' = index + 1
    /\ Forget
    /\ UNCHANGED <<envVars, now, leader, kin, struck, outcome, goVars, result>>

-----------------------------------------------------------------------------
(* prepare: the Go job around execute. *)

goRest == <<envVars, clockVars, treeVars, attemptVars, loopVars>>

Fail(kind) == failing' = kind /\ pc' = "seal"

(* The report of an earlier run is overwritten first, then the module files *)
(* are hashed; anything wrong here ends the program.                        *)
Inputs ==
    /\ pc = "inputs"
    /\ before' = core /\ evidence' = [passed |-> FALSE, stage |-> "download"]
    /\ \/ pc' = "copy" /\ report' = evidence' /\ UNCHANGED result
       \/ /\ pc' = "done" /\ result' = "failed"
          /\ \/ report' = [passed |-> FALSE, stage |-> "inputs"] \/ UNCHANGED report
    /\ UNCHANGED <<isolated, failing>>
    /\ UNCHANGED goRest

(* The files are read a second time, into the copies; validate_replacements *)
(* or the file system may refuse them.                                      *)
Copy ==
    /\ pc = "copy"
    /\ isolated' = core
    /\ \/ pc' = "loop" /\ UNCHANGED failing
       \/ Fail("error")
    /\ UNCHANGED <<before, evidence, report, result>>
    /\ UNCHANGED goRest

Changed(a, b) == {f \in Manifests : a[f] # b[f]}

OnlyChecksCheckout(changed, rewritten) ==
    IF changed # {} THEN "inputs_changed"
    ELSE IF outcome # "success" THEN "download_failed" ELSE "complete"

StageOf(changed, rewritten) ==
    CASE outcome = "success" /\ changed = {} /\ "mod" \notin rewritten -> "complete"
      [] changed # {} -> "inputs_changed"
      [] changed = {} /\ "mod" \in rewritten -> "isolated_manifest_changed"
      [] OTHER -> "download_failed"

(* go mod download may have rewritten some of the copies it ran on. *)
Rewritten(some) == Changed(before, isolated) \cup some

Compare ==
    /\ pc = "compare"
    /\ \/ signal /\ Fail("signal") /\ UNCHANGED evidence
       \/ Fail("error") /\ UNCHANGED evidence
       \/ /\ ~signal
          /\ \E some \in SUBSET Manifests :
               LET stage == StageOf(Changed(before, core), Rewritten(some)) IN
               /\ evidence' = [passed |-> stage = "complete", stage |-> stage]
               /\ failing' = IF stage = "complete" THEN "no" ELSE "error"
               /\ pc' = "seal"
    /\ UNCHANGED <<before, isolated, report, result>>
    /\ UNCHANGED goRest

Cancelled == [passed |-> FALSE, stage |-> "cancelled"]

(* A cancellation noted by now goes into the report. *)
Seal ==
    /\ pc = "seal"
    /\ evidence' = IF signal THEN Cancelled ELSE evidence
    /\ pc' = "publish"
    /\ UNCHANGED <<before, isolated, report, failing, result>>
    /\ UNCHANGED goRest

Publish ==
    /\ pc = "publish"
    /\ \/ report' = evidence /\ pc' = "recheck" /\ UNCHANGED failing
       \/ /\ pc' = "exit" /\ UNCHANGED report
          /\ failing' = IF failing = "no" /\ ~signal THEN "error" ELSE failing
    /\ UNCHANGED <<before, isolated, evidence, result>>
    /\ UNCHANGED goRest

(* A cancellation can arrive while the report is replaced. *)
Recheck ==
    /\ pc = "recheck" /\ pc' = "exit"
    /\ IF signal /\ evidence # Cancelled
       THEN evidence' = Cancelled /\ report' \in {Cancelled, report}
       ELSE UNCHANGED <<evidence, report>>
    /\ UNCHANGED <<before, isolated, failing, result>>
    /\ UNCHANGED goRest

Exit ==
    /\ pc = "exit" /\ pc' = "done"
    /\ result' = CASE failing = "error" -> "failed"
                   [] failing = "signal" \/ signal -> "signalled"
                   [] OTHER -> "ok"
    /\ UNCHANGED goVars
    /\ UNCHANGED goRest

-----------------------------------------------------------------------------
Supervisor ==
    \/ Loop \/ Spawn \/ Assign \/ Poll \/ Term \/ Kill \/ Verify \/ JobStop
    \/ Drain \/ Judge \/ Backoff \/ Inputs \/ Copy \/ Compare \/ Seal \/ Publish
    \/ Recheck \/ Exit

Faults == PollFails \/ VerifyFails \/ DrainFails

World ==
    \/ Cancel \/ TreePrints \/ TreeForks \/ KinEnds \/ WorkerLaunches
    \/ \E f \in Manifests : Edit(f)
    \/ \E e \in Exits : LeaderExits(e) \/ WorkerDies(e)

Next == Supervisor \/ Faults \/ Tick \/ World

(* The supervisor and the clock go on; the command need not. *)
Spec == Init /\ [][Next]_vars /\ WF_vars(Supervisor) /\ WF_vars(Tick)

-----------------------------------------------------------------------------
(* No attempt begins beside what is left of an earlier one: two pub gets    *)
(* would write the same cache (attempt, stop_tree and the cleanup_failed    *)
(* exit of execute).                                                        *)
OneTreeAtATime == pc \in {"loop", "backoff", "spawn"} => ~TreeAlive

(* What was tried again had ended, had failed for a reviewed transient      *)
(* reason, and had printed no permanent diagnosis anywhere in the output    *)
(* that is read, the lines written while it was being stopped included.     *)
RetriesTransientOnly ==
    pc = "backoff" =>
        /\ cleaned
        /\ code # "ok" \/ reason = "attempt_timeout"
        /\ "permanent" \notin said
        /\ reason = "attempt_timeout" \/ "network" \in said

(* A retry is safe: nothing of the earlier attempt is alive to write the    *)
(* cache beside it, and that attempt had failed for a reason a second one   *)
(* may cure (stop_tree, classify and the loop of execute).                  *)
RetriesAreSafe == OneTreeAtATime /\ RetriesTransientOnly

(* A preparation that reports success fetched the module graph of the       *)
(* go.mod files it hashed, although others edit the checkout meanwhile      *)
(* (inputs_before, isolated_changed_inputs, changed_inputs).                *)
ReportedGraphIsPinned ==
    job = "go" /\ report.stage = "complete" => isolated["mod"] = before["mod"]

(* Exit status 0 comes with a report of this run's success, and that report *)
(* with a status 0 unless the operator's signal came too late for it.       *)
StatusMatchesReport ==
    /\ result = "ok" => report = [passed |-> TRUE, stage |-> "complete"]
    /\ pc = "done" /\ report.stage = "complete" => result = "ok" \/ signal
    /\ pc = "done" /\ job = "go" /\ report.stage = "older" => result = "failed"

(* The report is true to the checkout and to the run: a success names the   *)
(* graph that was hashed, and it stands exactly beside an exit status of 0, *)
(* whatever failure or signal comes while it is published.                  *)
ReportIsTrue == ReportedGraphIsPinned /\ StatusMatchesReport

(* It always ends, even when the command hangs and its tree cannot be       *)
(* killed (the deadlines of execute, cleanup and verify).                   *)
Ends == <>(pc = "done")

=============================================================================
