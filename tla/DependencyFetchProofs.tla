------------------------- MODULE DependencyFetchProofs -------------------------
(***************************************************************************)
(* A retry never begins beside the tree of an earlier attempt, and the     *)
(* report tells the truth: theorems about DependencyFetch for any number   *)
(* of attempts, any timeouts and delays and any number of edits.           *)
(***************************************************************************)
EXTENDS DependencyFetch, TLAPS

(* Contents of a module file alternate, an attempt begins with time left,   *)
(* and a backoff has an attempt to go to.                                   *)
Bounds ==
    /\ core \in [Manifests -> 0..1]
    /\ pc = "spawn" => now < TotalTimeout
    /\ pc = "backoff" => index + 1 < Attempts

Typed == TypeOK /\ Bounds

-----------------------------------------------------------------------------
(* Types. *)

LEMMA Sizes ==
    /\ Attempts \in Nat /\ Attempts >= 1 /\ AttemptTimeout \in Nat /\ TotalTimeout \in Nat
    /\ FirstDelay \in Nat /\ LaterDelay \in Nat /\ CleanupTimeout \in Nat /\ MaxEdits \in Nat
BY FetchAssumption

LEMMA TypedInit == Init => Typed
<1> SUFFICES ASSUME Init PROVE Typed
  OBVIOUS
<1>1. core \in [Manifests -> 0..1] /\ core \in [Manifests -> Nat]
  BY DEF Init, Manifests
<1>2. 0 \in 0..(Attempts - 1) /\ 0 \in 0..MaxEdits
  BY Sizes
<1>3. evidence \in Reports /\ report \in Reports
  BY DEF Init, Reports
<1>4. pc \in {"inputs", "loop"}
  BY DEF Init
<1>5. QED
  BY <1>1, <1>2, <1>3, <1>4 DEF Init, Typed, TypeOK, Bounds, Exits, Marks

(* The world. *)
LEMMA TickTyped == ASSUME Typed, Tick PROVE Typed'
BY DEF Typed, TypeOK, Bounds, Tick, Waiting, envVars, treeVars, attemptVars, loopVars, goVars

LEMMA CancelTyped == ASSUME Typed, Cancel PROVE Typed'
BY DEF Typed, TypeOK, Bounds, Cancel, clockVars, treeVars, attemptVars, loopVars, goVars

LEMMA EditTyped == ASSUME Typed, NEW f \in Manifests, Edit(f) PROVE Typed'
<1>1. core' \in [Manifests -> 0..1] /\ core' \in [Manifests -> Nat]
  BY DEF Typed, Bounds, Edit
<1>2. edits' \in 0..MaxEdits
  BY Sizes DEF Typed, TypeOK, Edit
<1>3. QED
  BY <1>1, <1>2 DEF Typed, TypeOK, Bounds, Edit, clockVars, treeVars, attemptVars, loopVars, goVars

LEMMA TreeTyped ==
    ASSUME Typed, TreePrints \/ TreeForks \/ KinEnds \/ WorkerLaunches PROVE Typed'
<1>1. /\ leader' \in {"none", "gated", "running", "exited", "reaped"}
      /\ exit' \in Exits \cup {NoExit} /\ status' \in {"absent", "launch_failed", "started", "exited"}
      /\ kin' \in BOOLEAN /\ said' \subseteq Marks
      /\ UNCHANGED <<envVars, clockVars, pc, struck, attemptVars, loopVars, goVars, result>>
  BY DEF Typed, TypeOK, TreePrints, TreeForks, KinEnds, WorkerLaunches, Exits
<1>2. QED
  BY <1>1 DEF Typed, TypeOK, Bounds, envVars, clockVars, attemptVars, loopVars, goVars

LEMMA LeaderTyped ==
    ASSUME Typed, NEW e \in Exits, LeaderExits(e) \/ WorkerDies(e) PROVE Typed'
<1>1. /\ leader' = "exited" /\ exit' = e
      /\ status' \in {"absent", "launch_failed", "started", "exited"}
      /\ kin' \in BOOLEAN
      /\ UNCHANGED <<envVars, clockVars, pc, struck, said, attemptVars, loopVars, goVars, result>>
  BY DEF Typed, TypeOK, LeaderExits, WorkerDies
<1>2. QED
  BY <1>1 DEF Typed, TypeOK, Bounds, envVars, clockVars, attemptVars, loopVars, goVars

(* attempt. *)
LEMMA SpawnTyped == ASSUME Typed, Spawn PROVE Typed'
<1>1. due' \in Nat
  BY Sizes DEF Typed, TypeOK, Bounds, Spawn, AttemptDeadline, Earliest
<1>2. pc' \in {"assign", "poll", "judge"} /\ leader' \in {"none", "gated", "running"} /\ kin' \in BOOLEAN
      /\ reason' \in {"exit", "launch_or_io_error"}
  BY DEF Typed, TypeOK, Spawn
<1>3. /\ heard' = {} /\ code' = NoExit /\ hard' = FALSE /\ cleaned' = TRUE
      /\ exit' = NoExit /\ status' = "absent" /\ struck' = FALSE /\ said' = {}
      /\ UNCHANGED <<envVars, now, loopVars, goVars, result>>
  BY DEF Spawn
<1>4. /\ heard' \subseteq Marks /\ said' \subseteq Marks
      /\ code' \in Exits \cup {NoExit} /\ exit' \in Exits \cup {NoExit}
      /\ {kin', struck', hard', cleaned', signal'} \subseteq BOOLEAN
  BY <1>2, <1>3 DEF Typed, TypeOK, envVars
<1>5. Bounds'
  BY <1>2, <1>3 DEF Typed, Bounds, envVars
<1>6. TypeOK'
  BY <1>1, <1>2, <1>3, <1>4 DEF Typed, TypeOK, envVars, loopVars, goVars
<1>7. QED
  BY <1>5, <1>6 DEF Typed

LEMMA WaitTyped == ASSUME Typed, Assign \/ Poll \/ PollFails \/ DrainFails PROVE Typed'
<1>1. due' \in Nat
  BY Sizes DEF Typed, TypeOK, Assign, Poll, PollFails, DrainFails, Leaves
<1>2. /\ pc' \in {"poll", "jobStop", "term"} /\ leader' \in {leader, "reaped"}
      /\ reason' \in {reason, "launch_or_io_error", "output_limit", "cancelled", "attempt_timeout"}
      /\ code' \in {code, exit} /\ hard' \in BOOLEAN
      /\ UNCHANGED <<envVars, now, exit, status, kin, struck, said, heard, cleaned, loopVars, goVars, result>>
  BY DEF Typed, TypeOK, Assign, Poll, PollFails, DrainFails, Leaves, Stop, treeVars
<1>3. QED
  BY <1>1, <1>2 DEF Typed, TypeOK, Bounds, envVars, loopVars, goVars

(* What the cleanup changes. *)
Cleans ==
    /\ pc' \in {"kill", "verify", "judge", "drain"}
    /\ leader' \in {"none", "gated", "running", "exited", "reaped"}
    /\ exit' \in Exits \cup {NoExit} /\ code' \in Exits \cup {NoExit}
    /\ kin' \in BOOLEAN /\ struck' \in BOOLEAN /\ hard' \in BOOLEAN /\ cleaned' \in BOOLEAN
    /\ UNCHANGED <<envVars, clockVars, status, said, heard, reason, loopVars, goVars, result>>

LEMMA CleanTyped == ASSUME Typed, Cleans PROVE Typed'
BY DEF Cleans, Typed, TypeOK, Bounds, envVars, clockVars, loopVars, goVars

LEMMA TermCleans == ASSUME Typed, Term \/ Kill PROVE Cleans
BY DEF Typed, TypeOK, Term, Kill, WaitLeader, Cleans

LEMMA VerifyCleans == ASSUME Typed, Verify \/ VerifyFails PROVE Cleans
<1>1. /\ leader' \in {leader, "reaped"} /\ hard' \in BOOLEAN /\ cleaned' \in BOOLEAN
      /\ pc' \in {"verify", "judge", "drain"} /\ exit' = exit /\ code' \in {code, exit}
      /\ UNCHANGED cleanupRest
  BY DEF Typed, TypeOK, Verify, VerifyFails, WaitLeader, Inventory, CleanupEnds, AfterStop, cleanupRest
<1>2. QED
  BY <1>1 DEF Typed, TypeOK, Cleans, cleanupRest

LEMMA JobStopCleans == ASSUME Typed, JobStop PROVE Cleans
<1>1. PICK stopped \in BOOLEAN, waited \in BOOLEAN :
         LET gone == stopped \/ leader # "running" IN
         /\ kin' = (kin /\ ~stopped)
         /\ struck' = stopped
         /\ leader' = CASE leader = "reaped" \/ (gone /\ waited) -> "reaped"
                         [] gone -> "exited"
                         [] OTHER -> "running"
         /\ exit' = IF leader' # "running" /\ exit = NoExit THEN "fail" ELSE exit
         /\ CleanupEnds(stopped /\ leader' = "reaped")
  BY DEF JobStop
<1>2. leader' \in {"reaped", "exited", "running"}
  BY <1>1
<1>3. exit' \in Exits \cup {NoExit} /\ code' \in Exits \cup {NoExit}
  BY <1>1 DEF Typed, TypeOK, CleanupEnds, Exits
<1>4. kin' \in BOOLEAN /\ struck' \in BOOLEAN /\ cleaned' \in BOOLEAN
  BY <1>1 DEF CleanupEnds
<1>5. pc' \in {"judge", "drain"}
  BY <1>1 DEF CleanupEnds, AfterStop
<1>6. QED
  BY <1>2, <1>3, <1>4, <1>5 DEF JobStop, Typed, TypeOK, Cleans

LEMMA DrainTyped == ASSUME Typed, Drain PROVE Typed'
<1>1. /\ heard' \subseteq Marks /\ reason' \in {reason, "launch_or_io_error", "worker_protocol_error"}
      /\ code' \in {code, exit, "fail"} /\ pc' = "judge"
      /\ UNCHANGED <<envVars, clockVars, treeVars, hard, cleaned, loopVars, goVars, result>>
  BY DEF Drain, ReadsRest, WorkerVerdict, Typed, TypeOK
<1>2. QED
  BY <1>1 DEF Typed, TypeOK, Bounds, envVars, clockVars, treeVars, loopVars, goVars, Exits

(* execute. *)
LEMMA ForgetTyped ==
    ASSUME Forget
    PROVE  /\ heard' \subseteq Marks /\ said' \subseteq Marks /\ due' \in Nat
           /\ code' \in Exits \cup {NoExit} /\ exit' \in Exits \cup {NoExit}
           /\ reason' = "exit" /\ status' = "absent" /\ hard' \in BOOLEAN /\ cleaned' \in BOOLEAN
BY DEF Forget

LEMMA ReportKinds ==
    /\ \A p \in BOOLEAN : \A st \in {"older", "inputs", "download", "complete", "inputs_changed",
                               "isolated_manifest_changed", "download_failed", "cancelled"} :
          [passed |-> p, stage |-> st] \in Reports
    /\ Cancelled \in Reports
BY DEF Reports, Cancelled

LEMMA FinishTyped ==
    ASSUME Typed,
           NEW o \in {"failed", "success", "cancelled", "process_crash", "cleanup_failed",
                      "budget_exhausted"},
           Finish(o),
           UNCHANGED <<envVars, now, leader, kin, struck, index, before, isolated, evidence, failing>>
    PROVE  Typed'
<1>1. /\ heard' \subseteq Marks /\ said' \subseteq Marks /\ due' \in Nat
      /\ code' \in Exits \cup {NoExit} /\ exit' \in Exits \cup {NoExit}
      /\ reason' = "exit" /\ status' = "absent" /\ hard' \in BOOLEAN /\ cleaned' \in BOOLEAN
  BY ForgetTyped DEF Finish
<1>2. report' \in Reports
  <2>1. CASE UNCHANGED report
    BY <2>1 DEF Typed, TypeOK
  <2>2. CASE report' = [passed |-> o = "success",
                        stage |-> IF o = "success" THEN "complete" ELSE "download_failed"]
    <3>1. PICK p \in BOOLEAN : p = (o = "success")
      OBVIOUS
    <3>2. PICK stage \in {"complete", "download_failed"} :
              stage = IF o = "success" THEN "complete" ELSE "download_failed"
      OBVIOUS
    <3>3. QED
      BY <2>2, <3>1, <3>2, ReportKinds
  <2>3. QED
    BY <2>1, <2>2 DEF Finish
<1>3. pc' \in {"compare", "done"} /\ outcome' = o /\ result' \in {result, "ok", "failed", "signalled"}
  BY DEF Finish, PubResult
<1>4. Bounds'
  BY <1>3 DEF Typed, Bounds, envVars
<1>5. {kin', struck', hard', cleaned', signal'} \subseteq BOOLEAN
  BY <1>1 DEF Typed, TypeOK, envVars
<1>6. TypeOK'
  BY <1>1, <1>2, <1>3, <1>5 DEF Typed, TypeOK, envVars
<1>7. QED
  BY <1>4, <1>6 DEF Typed

LEMMA LoopTyped == ASSUME Typed, Loop PROVE Typed'
<1>1. UNCHANGED <<envVars, now, leader, kin, struck, index, before, isolated, evidence, failing>>
  BY DEF Loop
<1>2. CASE Finish("cancelled") \/ Finish("budget_exhausted")
  BY <1>1, <1>2, FinishTyped
<1>3. CASE now < TotalTimeout /\ pc' = "spawn" /\ UNCHANGED <<due, localVars, outcome, report, result>>
  BY <1>1, <1>3 DEF Typed, TypeOK, Bounds, envVars, localVars, attemptVars
<1>4. QED
  BY <1>2, <1>3 DEF Loop

(* What the verdict on an attempt may be. *)
Outcomes == {"failed", "success", "cancelled", "process_crash", "cleanup_failed", "budget_exhausted"}
BacksOff ==
    /\ cleaned /\ ~(reason = "exit" /\ code = "ok") /\ Retryable /\ index + 1 # Attempts
    /\ pc' = "backoff" /\ due' = now + DelayOf(index)
    /\ UNCHANGED <<localVars, outcome, report, result>>

LEMMA Verdicts == ASSUME Typed, Verdict PROVE (\E o \in Outcomes : Finish(o)) \/ BacksOff
<1>1. cleaned \in BOOLEAN /\ signal \in BOOLEAN
  BY DEF Typed, TypeOK
<1>2. RetryOrFail => (\E o \in Outcomes : Finish(o)) \/
                     (/\ Retryable /\ index + 1 # Attempts
                      /\ pc' = "backoff" /\ due' = now + DelayOf(index)
                      /\ UNCHANGED <<localVars, outcome, report, result>>)
  BY DEF RetryOrFail, Outcomes
<1>3. CASE ~cleaned
  BY <1>3 DEF Verdict, Outcomes
<1>4. CASE cleaned /\ (signal \/ reason = "cancelled" \/ (reason = "exit" /\ code = "stopped"))
  BY <1>4 DEF Verdict, Outcomes
<1>5. CASE cleaned /\ ~signal /\ reason = "exit" /\ code = "crashed"
  BY <1>5 DEF Verdict, Outcomes
<1>6. CASE cleaned /\ ~signal /\ reason = "exit" /\ code = "ok"
  BY <1>6 DEF Verdict, Outcomes
<1>7. CASE /\ cleaned /\ ~(signal \/ reason = "cancelled" \/ (reason = "exit" /\ code = "stopped"))
           /\ ~(reason = "exit" /\ code = "crashed") /\ ~(reason = "exit" /\ code = "ok")
  <2>1. RetryOrFail
    BY <1>7 DEF Verdict
  <2>2. QED
    BY <1>2, <1>7, <2>1 DEF BacksOff
<1>8. QED
  BY <1>1, <1>3, <1>4, <1>5, <1>6, <1>7

LEMMA JudgeTyped == ASSUME Typed, Judge PROVE Typed'
<1>1. UNCHANGED <<envVars, now, leader, kin, struck, index, before, isolated, evidence, failing>>
  BY DEF Judge
<1>2. (\E o \in Outcomes : Finish(o)) \/ BacksOff
  BY Verdicts DEF Judge
<1>3. CASE \E o \in Outcomes : Finish(o)
  BY <1>1, <1>3, FinishTyped DEF Outcomes
<1>4. CASE BacksOff
  <2>1. due' \in Nat
    BY <1>4, Sizes DEF BacksOff, DelayOf, Typed, TypeOK
  <2>2. index + 1 < Attempts
    BY <1>4, Sizes DEF BacksOff, Typed, TypeOK
  <2>3. QED
    BY <1>1, <1>4, <2>1, <2>2 DEF BacksOff, Typed, TypeOK, Bounds, envVars, localVars, attemptVars
<1>5. QED
  BY <1>2, <1>3, <1>4

LEMMA BackoffTyped == ASSUME Typed, Backoff PROVE Typed'
<1>1. /\ heard' \subseteq Marks /\ said' \subseteq Marks /\ due' \in Nat
      /\ code' \in Exits \cup {NoExit} /\ exit' \in Exits \cup {NoExit}
      /\ reason' = "exit" /\ status' = "absent" /\ hard' \in BOOLEAN /\ cleaned' \in BOOLEAN
  BY ForgetTyped DEF Backoff
<1>2. index' \in 0..(Attempts - 1)
  BY Sizes DEF Backoff, Typed, TypeOK, Bounds
<1>3. pc' = "loop" /\ UNCHANGED <<envVars, now, leader, kin, struck, outcome, goVars, result>>
  BY DEF Backoff
<1>4. Bounds'
  BY <1>3 DEF Typed, Bounds, envVars
<1>5. TypeOK'
  BY <1>1, <1>2, <1>3 DEF Typed, TypeOK, envVars, goVars
<1>6. QED
  BY <1>4, <1>5 DEF Typed

(* prepare. *)
LEMMA PrepareTyped ==
    ASSUME Typed, UNCHANGED goRest,
           pc' \in {"copy", "done", "loop", "seal", "publish", "recheck", "exit"},
           before' \in {before, core}, isolated' \in {isolated, core},
           evidence' \in Reports, report' \in Reports,
           failing' \in {"no", "error", "signal"}, result' \in {"running", "ok", "failed", "signalled"}
    PROVE  Typed'
<1>1. Bounds'
  BY DEF Typed, Bounds, goRest, envVars, clockVars, loopVars
<1>2. TypeOK'
  BY DEF Typed, TypeOK, goRest, envVars, clockVars, treeVars, attemptVars, loopVars
<1>3. QED
  BY <1>1, <1>2 DEF Typed

LEMMA InputsTyped == ASSUME Typed, Inputs PROVE Typed'
<1>1. [passed |-> FALSE, stage |-> "download"] \in Reports /\ [passed |-> FALSE, stage |-> "inputs"] \in Reports
  BY ReportKinds
<1>2. evidence' \in Reports /\ report' \in Reports
  BY <1>1 DEF Inputs, Typed, TypeOK
<1>3. QED
  BY <1>2, PrepareTyped DEF Inputs, Typed, TypeOK

LEMMA CopyTyped == ASSUME Typed, Copy PROVE Typed'
BY PrepareTyped DEF Copy, Fail, Typed, TypeOK

LEMMA CompareTyped == ASSUME Typed, Compare PROVE Typed'
<1>1. evidence' \in Reports
  <2>1. CASE UNCHANGED evidence
    BY <2>1 DEF Typed, TypeOK
  <2>2. CASE \E some \in SUBSET Manifests :
                LET stage == StageOf(Changed(before, core), Rewritten(some)) IN
                evidence' = [passed |-> stage = "complete", stage |-> stage]
    <3>1. PICK some \in SUBSET Manifests :
                LET stage == StageOf(Changed(before, core), Rewritten(some)) IN
                evidence' = [passed |-> stage = "complete", stage |-> stage]
      BY <2>2
    <3>2. PICK stage : stage = StageOf(Changed(before, core), Rewritten(some))
      OBVIOUS
    <3>3. stage \in {"complete", "inputs_changed", "isolated_manifest_changed", "download_failed"}
      BY <3>2 DEF StageOf
    <3>4. QED
      BY <3>1, <3>2, <3>3, ReportKinds
  <2>3. QED
    BY <2>1, <2>2 DEF Compare
<1>2. pc' = "seal" /\ failing' \in {"no", "error", "signal"}
      /\ UNCHANGED <<before, isolated, report, result>> /\ UNCHANGED goRest
  BY DEF Compare, Fail
<1>3. QED
  BY <1>1, <1>2, PrepareTyped DEF Typed, TypeOK

LEMMA PublishTyped == ASSUME Typed, Seal \/ Publish \/ Recheck \/ Exit PROVE Typed'
<1>1. evidence' \in Reports /\ report' \in Reports
  BY ReportKinds DEF Seal, Publish, Recheck, Exit, goVars, Typed, TypeOK
<1>2. /\ pc' \in {"publish", "recheck", "exit", "done"} /\ failing' \in {"no", "error", "signal"}
      /\ result' \in {"running", "ok", "failed", "signalled"}
      /\ UNCHANGED <<before, isolated>> /\ UNCHANGED goRest
  BY DEF Seal, Publish, Recheck, Exit, goVars, Typed, TypeOK
<1>3. QED
  BY <1>1, <1>2, PrepareTyped

LEMMA StutterTyped == ASSUME Typed, UNCHANGED vars PROVE Typed'
BY DEF Typed, TypeOK, Bounds, vars, envVars, clockVars, treeVars, attemptVars, loopVars, goVars

LEMMA TypedNext == Typed /\ [Next]_vars => Typed'
<1> SUFFICES ASSUME Typed, [Next]_vars PROVE Typed'
  OBVIOUS
<1>1. CASE Supervisor
  <2>1. CASE Loop \/ Spawn \/ Assign \/ Poll \/ Term \/ Kill \/ Verify \/ JobStop
    BY <2>1, LoopTyped, SpawnTyped, WaitTyped, TermCleans, VerifyCleans, JobStopCleans, CleanTyped
  <2>2. CASE Drain \/ Judge \/ Backoff \/ Inputs \/ Copy \/ Compare \/ Seal \/ Publish \/ Recheck \/ Exit
    BY <2>2, DrainTyped, JudgeTyped, BackoffTyped, InputsTyped, CopyTyped, CompareTyped, PublishTyped
  <2>3. QED
    BY <1>1, <2>1, <2>2 DEF Supervisor
<1>2. CASE Faults
  BY <1>2, WaitTyped, VerifyCleans, CleanTyped DEF Faults
<1>3. CASE Tick \/ World
  BY <1>3, TickTyped, CancelTyped, EditTyped, TreeTyped, LeaderTyped DEF World
<1>4. CASE UNCHANGED vars
  BY <1>4, StutterTyped
<1>5. QED
  BY <1>1, <1>2, <1>3, <1>4 DEF Next

(* Every variable of the supervisor, of the tree it owns and of the report   *)
(* keeps its type; an attempt begins with time left and has its number       *)
(* within the limit (the loop of execute).                                   *)
THEOREM TypeCorrect == Spec => []TypeOK
<1>1. Typed => TypeOK
  BY DEF Typed
<1>2. QED
  BY <1>1, TypedInit, TypedNext, PTL DEF Spec

-----------------------------------------------------------------------------
(* Retries. *)

TreeGone == ~TreeAlive

(* Only the worker of a Windows host waits at a gate, and each host has its *)
(* own steps of the cleanup.                                                *)
HostKnown ==
    /\ pc \in {"term", "kill", "verify"} => host = "posix"
    /\ pc \in {"assign", "jobStop"} => host = "windows"
    /\ leader = "gated" => host = "windows"

(* Between two attempts nothing is alive, and nothing is after a cleanup    *)
(* that succeeded, so that what was heard of the tree by then is all it     *)
(* ever said.                                                               *)
Ended ==
    /\ pc \in {"inputs", "copy", "loop", "backoff", "spawn"} => TreeGone
    /\ pc \in {"drain", "judge"} /\ cleaned => TreeGone
    /\ pc = "judge" /\ cleaned /\ reason \in {"exit", "attempt_timeout"} => heard = said

Safe == HostKnown /\ Ended /\ RetriesTransientOnly

LEMMA SafeInit == Init => Safe
BY DEF Init, Safe, HostKnown, Ended, RetriesTransientOnly, TreeGone, TreeAlive

(* Steps beside the supervisor. *)
LEMMA QuietSafe ==
    ASSUME Safe, UNCHANGED <<pc, host, cleaned, reason, code, heard>>,
           leader' = "gated" => leader = "gated",
           TreeGone => TreeGone' /\ said' = said
    PROVE  Safe'
BY DEF Safe, HostKnown, Ended, RetriesTransientOnly

LEMMA WorldSafe ==
    ASSUME Safe,
           Tick \/ Cancel \/ TreePrints \/ TreeForks \/ KinEnds \/ WorkerLaunches
           \/ (\E f \in Manifests : Edit(f)) \/ (\E e \in Exits : LeaderExits(e) \/ WorkerDies(e))
           \/ UNCHANGED vars
    PROVE  Safe'
<1>1. CASE Tick \/ Cancel \/ (\E f \in Manifests : Edit(f)) \/ UNCHANGED vars
  <2>1. UNCHANGED <<pc, host, cleaned, reason, code, heard, leader, kin, said>>
    BY <1>1 DEF Tick, Cancel, Edit, vars, envVars, treeVars, attemptVars
  <2>2. QED
    BY <2>1, QuietSafe DEF TreeGone, TreeAlive
<1>2. CASE TreePrints \/ TreeForks \/ KinEnds \/ WorkerLaunches
  <2>1. UNCHANGED <<pc, host, cleaned, reason, code, heard>>
    BY <1>2 DEF TreePrints, TreeForks, KinEnds, WorkerLaunches, envVars, attemptVars
  <2>2. leader' = "gated" => leader = "gated"
    BY <1>2 DEF TreePrints, TreeForks, KinEnds, WorkerLaunches
  <2>3. TreeGone => TreeGone' /\ said' = said
    BY <1>2 DEF TreePrints, TreeForks, KinEnds, WorkerLaunches, TreeGone, TreeAlive, TreeRuns
  <2>4. QED
    BY <2>1, <2>2, <2>3, QuietSafe
<1>3. CASE \E e \in Exits : LeaderExits(e) \/ WorkerDies(e)
  <2>1. UNCHANGED <<pc, host, cleaned, reason, code, heard>> /\ leader = "running" /\ leader' = "exited"
    BY <1>3 DEF LeaderExits, WorkerDies, envVars, attemptVars
  <2>2. QED
    BY <2>1, QuietSafe DEF TreeGone, TreeAlive
<1>4. QED
  BY <1>1, <1>2, <1>3

(* attempt. *)
LEMMA SpawnSafe == ASSUME Typed, Safe, Spawn PROVE Safe'
<1>1. host \in {"posix", "windows"} /\ host' = host /\ TreeGone
  BY DEF Typed, TypeOK, Spawn, envVars, Safe, Ended
<1>2. CASE leader' = "none" /\ reason' = "launch_or_io_error" /\ pc' = "judge" /\ UNCHANGED kin
  BY <1>1, <1>2 DEF Safe, HostKnown, Ended, RetriesTransientOnly, TreeGone, TreeAlive
<1>3. CASE /\ leader' = IF host = "windows" THEN "gated" ELSE "running"
           /\ pc' = IF host = "windows" THEN "assign" ELSE "poll"
  BY <1>1, <1>3 DEF Safe, HostKnown, Ended, RetriesTransientOnly
<1>4. QED
  BY <1>2, <1>3 DEF Spawn

LEMMA WaitSafe == ASSUME Typed, Safe, Assign \/ Poll \/ PollFails \/ DrainFails PROVE Safe'
<1>1. host \in {"posix", "windows"} /\ host' = host /\ leader' \in {leader, "reaped"}
  BY DEF Typed, TypeOK, Assign, Poll, PollFails, DrainFails, envVars, treeVars
<1>2. \/ pc = "assign" /\ pc' \in {"poll", "jobStop"}
      \/ pc' = IF host = "windows" THEN "jobStop" ELSE "term"
  BY DEF Assign, Poll, PollFails, DrainFails, Leaves, Stop
<1>3. QED
  BY <1>1, <1>2 DEF Safe, HostKnown, Ended, RetriesTransientOnly

LEMMA TermSafe == ASSUME Safe, Term \/ Kill PROVE Safe'
BY DEF Safe, HostKnown, Ended, RetriesTransientOnly, Term, Kill, WaitLeader, envVars

(* A cleanup that succeeds leaves nothing alive. *)
LEMMA CleanSafe ==
    ASSUME Safe, pc' \in {"judge", "drain"}, host' = host, UNCHANGED <<reason, heard, said>>,
           reason = "launch_or_io_error" <=> pc' = "judge",
           leader' = "gated" => leader = "gated", cleaned' => TreeGone'
    PROVE  Safe'
BY DEF Safe, HostKnown, Ended, RetriesTransientOnly

LEMMA VerifySafe == ASSUME Typed, Safe, Verify \/ VerifyFails PROVE Safe'
<1>1. /\ leader' = IF leader = "exited" THEN "reaped" ELSE leader
      \/ leader' = leader
  BY DEF Verify, VerifyFails, WaitLeader
<1>2. /\ UNCHANGED <<host, reason, heard, said, kin>> /\ pc = "verify" /\ host = "posix"
      /\ leader # "gated" /\ kin \in BOOLEAN
  BY DEF Verify, VerifyFails, cleanupRest, envVars, Safe, HostKnown, Typed, TypeOK
<1>3. CASE UNCHANGED <<pc, cleaned, code>>
  BY <1>1, <1>2, <1>3 DEF Safe, HostKnown, Ended, RetriesTransientOnly
<1>4. CASE CleanupEnds(FALSE)
  <2>1. ~cleaned' /\ pc' = AfterStop
    BY <1>4 DEF CleanupEnds
  <2>2. QED
    BY <1>1, <1>2, <2>1, CleanSafe DEF AfterStop
<1>5. CASE ~TreeRuns /\ CleanupEnds(~hard)
  <2>1. pc' = AfterStop
    BY <1>5 DEF CleanupEnds
  <2>2. TreeGone'
    BY <1>1, <1>2, <1>5 DEF TreeRuns, TreeGone, TreeAlive
  <2>3. QED
    BY <1>1, <1>2, <2>1, <2>2, CleanSafe DEF AfterStop
<1>6. QED
  BY <1>3, <1>4, <1>5 DEF Verify, VerifyFails, Inventory

LEMMA JobStopSafe == ASSUME Typed, Safe, JobStop PROVE Safe'
<1>1. PICK stopped \in BOOLEAN, waited \in BOOLEAN :
         LET gone == stopped \/ leader # "running" IN
         /\ kin' = (kin /\ ~stopped)
         /\ leader' = CASE leader = "reaped" \/ (gone /\ waited) -> "reaped"
                         [] gone -> "exited"
                         [] OTHER -> "running"
         /\ CleanupEnds(stopped /\ leader' = "reaped")
  BY DEF JobStop
<1>2. leader' # "gated"
  BY <1>1
<1>3. pc' = AfterStop /\ (cleaned' => stopped /\ leader' = "reaped")
  BY <1>1 DEF CleanupEnds
<1>4. stopped => ~kin'
  BY <1>1
<1>5. cleaned' => TreeGone'
  BY <1>3, <1>4 DEF TreeGone, TreeAlive
<1>6. host' = host /\ UNCHANGED <<reason, heard, said>>
  BY DEF JobStop, envVars
<1>7. QED
  BY <1>2, <1>3, <1>5, <1>6, CleanSafe DEF AfterStop

LEMMA DrainSafe == ASSUME Typed, Safe, Drain PROVE Safe'
<1>1. /\ pc = "drain" /\ pc' = "judge" /\ heard' = said
      /\ UNCHANGED <<host, leader, kin, said, cleaned>>
  BY DEF Drain, ReadsRest, envVars, treeVars
<1>2. QED
  BY <1>1 DEF Safe, HostKnown, Ended, RetriesTransientOnly, TreeGone, TreeAlive

(* execute. *)
LEMMA OverSafe ==
    ASSUME Safe, pc' \in {"compare", "done", "seal", "publish", "recheck", "exit"}, UNCHANGED <<host, leader>>
    PROVE  Safe'
BY DEF Safe, HostKnown, Ended, RetriesTransientOnly

LEMMA FinishSafe ==
    ASSUME Safe, NEW o \in Outcomes, Finish(o), UNCHANGED <<host, leader>>
    PROVE  Safe'
BY OverSafe DEF Finish

LEMMA LoopSafe == ASSUME Safe, Loop PROVE Safe'
<1>1. UNCHANGED <<host, leader, kin>> /\ pc = "loop"
  BY DEF Loop, envVars
<1>2. CASE Finish("cancelled") \/ Finish("budget_exhausted")
  BY <1>1, <1>2, FinishSafe DEF Outcomes
<1>3. CASE pc' = "spawn"
  BY <1>1, <1>3 DEF Safe, HostKnown, Ended, RetriesTransientOnly, TreeGone, TreeAlive
<1>4. QED
  BY <1>2, <1>3 DEF Loop

LEMMA JudgeSafe == ASSUME Typed, Safe, Judge PROVE Safe'
<1>1. UNCHANGED <<host, leader, kin>> /\ pc = "judge"
  BY DEF Judge, envVars
<1>2. CASE \E o \in Outcomes : Finish(o)
  BY <1>1, <1>2, FinishSafe
<1>3. CASE BacksOff
  <2>1. UNCHANGED <<code, reason, cleaned, said>> /\ pc' = "backoff" /\ cleaned
    BY <1>3 DEF BacksOff, localVars, attemptVars
  <2>2. TreeGone /\ heard = said
    BY <1>1, <1>3, <2>1 DEF Safe, Ended, BacksOff, Retryable
  <2>3. RetriesTransientOnly'
    BY <1>3, <2>1, <2>2 DEF RetriesTransientOnly, BacksOff, Retryable
  <2>4. HostKnown' /\ Ended'
    BY <1>1, <2>1, <2>2 DEF Safe, HostKnown, Ended, TreeGone, TreeAlive
  <2>5. QED
    BY <2>3, <2>4 DEF Safe
<1>4. QED
  BY <1>2, <1>3, Verdicts DEF Judge

LEMMA BackoffSafe == ASSUME Safe, Backoff PROVE Safe'
BY DEF Safe, HostKnown, Ended, RetriesTransientOnly, TreeGone, TreeAlive, Backoff, envVars

LEMMA PrepareSafe ==
    ASSUME Safe, Inputs \/ Copy \/ Compare \/ Seal \/ Publish \/ Recheck \/ Exit PROVE Safe'
<1>1. UNCHANGED <<host, leader, kin>>
  BY DEF Inputs, Copy, Compare, Seal, Publish, Recheck, Exit, goRest, envVars, treeVars
<1>2. \/ pc \in {"inputs", "copy"} /\ pc' \in {"copy", "loop"}
      \/ pc' \in {"compare", "done", "seal", "publish", "recheck", "exit"}
  BY DEF Inputs, Copy, Compare, Seal, Publish, Recheck, Exit, Fail
<1>3. QED
  BY <1>1, <1>2, OverSafe DEF Safe, HostKnown, Ended, RetriesTransientOnly, TreeGone, TreeAlive

LEMMA SafeNext == Typed /\ Safe /\ [Next]_vars => Safe'
<1> SUFFICES ASSUME Typed, Safe, [Next]_vars PROVE Safe'
  OBVIOUS
<1>1. CASE Supervisor
  <2>1. CASE Loop \/ Spawn \/ Assign \/ Poll \/ Term \/ Kill \/ Verify \/ JobStop
    BY <2>1, LoopSafe, SpawnSafe, WaitSafe, TermSafe, VerifySafe, JobStopSafe
  <2>2. CASE Drain \/ Judge \/ Backoff \/ Inputs \/ Copy \/ Compare \/ Seal \/ Publish \/ Recheck \/ Exit
    BY <2>2, DrainSafe, JudgeSafe, BackoffSafe, PrepareSafe
  <2>3. QED
    BY <1>1, <2>1, <2>2 DEF Supervisor
<1>2. CASE Faults
  BY <1>2, WaitSafe, VerifySafe DEF Faults
<1>3. CASE Tick \/ World \/ UNCHANGED vars
  BY <1>3, WorldSafe DEF World
<1>4. QED
  BY <1>1, <1>2, <1>3 DEF Next

(* A retry is safe: nothing of the earlier attempt is alive beside it, and   *)
(* that attempt had failed for a reason a second one may cure (stop_tree,    *)
(* classify and the loop of execute).                                        *)
THEOREM RetriesStaySafe == Spec => []RetriesAreSafe
<1>1. Safe => RetriesAreSafe
  BY DEF Safe, Ended, RetriesAreSafe, OneTreeAtATime, TreeGone
<1>2. QED
  BY <1>1, TypedInit, TypedNext, SafeInit, SafeNext, PTL DEF Spec

-----------------------------------------------------------------------------
(* The report. *)

Succeeded == [passed |-> TRUE, stage |-> "complete"]
Underway == [passed |-> FALSE, stage |-> "download"]
Pinned == isolated["mod"] = before["mod"]

Executing == {"loop", "spawn", "assign", "poll", "term", "kill", "verify", "jobStop", "drain",
              "judge", "backoff"}
Ending == {"seal", "publish", "recheck"}

(* Up to the comparison the report on disk says that nothing has passed.    *)
StillOpen ==
    /\ pc # "done" => result = "running"
    /\ pc = "inputs" => report.stage = "older" /\ failing = "no"
    /\ job = "pub" /\ pc # "done" => pc \in Executing /\ report.stage = "older"
    /\ job = "go" /\ pc \in {"copy", "compare"} \cup Executing =>
         report = Underway /\ evidence = Underway /\ failing = "no"
    /\ pc \in {"seal", "publish"} => report = Underway

(* From then on, evidence of success means that nothing fails and that the  *)
(* graph is the one hashed; and where nothing fails, there is that evidence *)
(* or a signal has come.                                                    *)
Told ==
    /\ pc \in Ending =>
         /\ evidence.stage = "complete" => failing = "no" /\ Pinned
         /\ failing = "no" => evidence = Succeeded \/ signal
         /\ evidence.stage # "older"
    /\ pc = "recheck" => report = evidence
    /\ pc \in Ending \cup {"exit"} => report.stage # "older"
    /\ pc = "exit" =>
         /\ report.stage = "complete" => failing = "no" /\ Pinned
         /\ failing = "no" => report = Succeeded \/ signal

Honest == StillOpen /\ Told /\ ReportIsTrue

LEMMA Kinds ==
    /\ Underway.stage = "download" /\ Succeeded.stage = "complete" /\ Cancelled.stage = "cancelled"
    /\ Underway # Succeeded /\ Cancelled # Succeeded /\ Cancelled # Underway
BY DEF Underway, Succeeded, Cancelled

LEMMA HonestInit == Init => Honest
<1> SUFFICES ASSUME Init PROVE Honest
  OBVIOUS
<1>1. /\ pc = IF job = "go" THEN "inputs" ELSE "loop"
      /\ report.stage = "older" /\ result = "running" /\ failing = "no" /\ job \in {"pub", "go"}
  BY DEF Init
<1>2. StillOpen /\ Told
  BY <1>1 DEF StillOpen, Told, Executing, Ending
<1>3. ReportIsTrue
  BY <1>1 DEF ReportIsTrue, ReportedGraphIsPinned, StatusMatchesReport
<1>4. QED
  BY <1>2, <1>3 DEF Honest

(* While the program is not done, that makes the report true. *)
LEMMA OpenHonest ==
    ASSUME Typed', StillOpen', Told', pc' # "done" PROVE Honest'
<1>1. job' \in {"pub", "go"} /\ result' = "running"
      /\ pc' \in {"inputs", "copy", "compare", "exit"} \cup Executing \cup Ending
  BY DEF Typed, TypeOK, StillOpen, Executing, Ending
<1>2. job' = "go" /\ report'.stage = "complete" => Pinned'
  <2>1. CASE pc' = "inputs"
    BY <2>1 DEF StillOpen
  <2>2. CASE pc' # "inputs"
    BY <1>1, <2>2, Kinds DEF StillOpen, Told, Ending
  <2>3. QED
    BY <2>1, <2>2
<1>3. ReportIsTrue'
  BY <1>1, <1>2 DEF ReportIsTrue, ReportedGraphIsPinned, StatusMatchesReport, Pinned
<1>4. QED
  BY <1>3 DEF Honest

(* Steps that leave the report and what it rests on alone. *)
LEMMA QuietHonest ==
    ASSUME Typed, Honest, UNCHANGED <<job, report, evidence, failing, result, before, isolated>>,
           signal => signal', pc' = pc \/ (pc \in Executing /\ pc' \in Executing)
    PROVE  Honest'
<1>1. StillOpen'
  <2>1. CASE pc' = pc
    BY <2>1 DEF Honest, StillOpen
  <2>2. CASE pc \in Executing /\ pc' \in Executing
    <3>1. pc # "done" /\ pc' \notin {"inputs", "done", "seal", "publish"}
      BY <2>2 DEF Executing
    <3>2. QED
      BY <2>2, <3>1 DEF Honest, StillOpen
  <2>3. QED
    BY <2>1, <2>2
<1>2. Told'
  BY DEF Honest, Told, Executing, Ending, Pinned
<1>3. ReportIsTrue'
  <2>1. pc' = "done" <=> pc = "done"
    BY DEF Executing
  <2>2. QED
    BY <2>1 DEF Honest, ReportIsTrue, ReportedGraphIsPinned, StatusMatchesReport
<1>4. QED
  BY <1>1, <1>2, <1>3 DEF Honest

LEMMA WorldHonest ==
    ASSUME Typed, Honest,
           Tick \/ Cancel \/ TreePrints \/ TreeForks \/ KinEnds \/ WorkerLaunches
           \/ (\E f \in Manifests : Edit(f)) \/ (\E e \in Exits : LeaderExits(e) \/ WorkerDies(e))
           \/ UNCHANGED vars
    PROVE  Honest'
<1>1. UNCHANGED <<job, report, evidence, failing, result, before, isolated, pc>> /\ (signal => signal')
  BY DEF Tick, Cancel, TreePrints, TreeForks, KinEnds, WorkerLaunches, Edit, LeaderExits, WorkerDies,
         vars, envVars, goVars
<1>2. QED
  BY <1>1, QuietHonest

LEMMA AttemptHonest ==
    ASSUME Typed, Honest,
           Spawn \/ Assign \/ Poll \/ PollFails \/ Term \/ Kill \/ Verify \/ VerifyFails \/ JobStop
           \/ Drain \/ DrainFails \/ Backoff
    PROVE  Honest'
<1>1. CASE Spawn \/ Assign \/ Poll \/ PollFails \/ DrainFails
  <2>1. UNCHANGED <<envVars, goVars, result>>
    BY <1>1 DEF Spawn, Assign, Poll, PollFails, DrainFails
  <2>2. pc \in Executing /\ pc' \in Executing
    BY <1>1 DEF Spawn, Assign, Poll, PollFails, DrainFails, Leaves, Stop, Executing
  <2>3. QED
    BY <2>1, <2>2, QuietHonest DEF envVars, goVars
<1>2. CASE Term \/ Kill \/ Verify \/ VerifyFails \/ JobStop
  <2>1. Cleans
    BY <1>2, TermCleans, VerifyCleans, JobStopCleans
  <2>2. pc \in Executing
    BY <1>2 DEF Term, Kill, Verify, VerifyFails, JobStop, Executing
  <2>3. QED
    BY <2>1, <2>2, QuietHonest DEF Cleans, Executing, envVars, goVars
<1>3. CASE Drain \/ Backoff
  <2>1. UNCHANGED <<envVars, goVars, result>> /\ pc \in Executing /\ pc' \in Executing
    BY <1>3 DEF Drain, Backoff, Executing
  <2>2. QED
    BY <2>1, QuietHonest DEF envVars, goVars
<1>4. QED
  BY <1>1, <1>2, <1>3

(* A Go job is compared next; a pub job is done, with status and report.    *)
LEMMA FinishHonest ==
    ASSUME Typed, Typed', Honest, NEW o \in Outcomes, Finish(o), pc \in Executing,
           UNCHANGED <<envVars, before, isolated, evidence, failing>>
    PROVE  Honest'
<1>1. UNCHANGED <<job, signal>> /\ job \in {"pub", "go"} /\ pc # "done"
  BY DEF envVars, Typed, TypeOK, Executing
<1>2. CASE job = "go"
  <2>1. pc' = "compare" /\ UNCHANGED <<report, result>>
    BY <1>2 DEF Finish
  <2>2. StillOpen'
    BY <1>1, <1>2, <2>1 DEF Honest, StillOpen, Executing
  <2>3. Told'
    BY <2>1 DEF Told, Ending
  <2>4. QED
    BY <2>1, <2>2, <2>3, OpenHonest
<1>3. CASE job = "pub"
  <2>1. /\ pc' = "done" /\ report.stage = "older"
        /\ \/ /\ result' = PubResult(o)
              /\ report' = [passed |-> o = "success",
                            stage |-> IF o = "success" THEN "complete" ELSE "download_failed"]
           \/ result' = "failed" /\ UNCHANGED report
    BY <1>1, <1>3 DEF Finish, Honest, StillOpen
  <2>2. StillOpen' /\ Told'
    BY <1>1, <1>3, <2>1 DEF StillOpen, Told, Ending
  <2>3. CASE o = "success" /\ result' = PubResult(o)
    <3>1. result' = "ok" /\ report' = Succeeded
      BY <2>1, <2>3 DEF PubResult, Succeeded
    <3>2. QED
      BY <1>1, <1>3, <2>2, <3>1 DEF Honest, ReportIsTrue, ReportedGraphIsPinned, StatusMatchesReport, Succeeded
  <2>4. CASE ~(o = "success" /\ result' = PubResult(o))
    <3>1. result' # "ok" /\ report'.stage # "complete"
      BY <2>1, <2>4 DEF PubResult
    <3>2. QED
      BY <1>1, <1>3, <2>2, <3>1 DEF Honest, ReportIsTrue, ReportedGraphIsPinned, StatusMatchesReport
  <2>5. QED
    BY <2>3, <2>4
<1>4. QED
  BY <1>1, <1>2, <1>3

LEMMA LoopHonest == ASSUME Typed, Typed', Honest, Loop \/ Judge PROVE Honest'
<1>1. UNCHANGED <<envVars, before, isolated, evidence, failing>> /\ pc \in Executing
  BY DEF Loop, Judge, Executing
<1>2. CASE \E o \in Outcomes : Finish(o)
  BY <1>1, <1>2, FinishHonest
<1>3. CASE pc' \in {"spawn", "backoff"} /\ UNCHANGED <<report, result>>
  BY <1>1, <1>3, QuietHonest DEF Executing, envVars
<1>4. (\E o \in Outcomes : Finish(o)) \/ (pc' \in {"spawn", "backoff"} /\ UNCHANGED <<report, result>>)
  <2>1. CASE Loop
    BY <2>1 DEF Loop, Outcomes
  <2>2. CASE Judge
    BY <2>2, Verdicts DEF Judge, BacksOff
  <2>3. QED
    BY <2>1, <2>2
<1>5. QED
  BY <1>2, <1>3, <1>4

(* prepare. *)
LEMMA InputsHonest == ASSUME Typed, Typed', Honest, Inputs PROVE Honest'
<1>1. /\ pc = "inputs" /\ evidence' = Underway /\ job' = job /\ failing' = failing
      /\ \/ pc' = "copy" /\ report' = Underway /\ result' = "running"
         \/ /\ pc' = "done" /\ result' = "failed"
            /\ report' = [passed |-> FALSE, stage |-> "inputs"] \/ UNCHANGED report
  BY DEF Inputs, Underway, goRest, envVars, Honest, StillOpen
<1>2. report.stage = "older" /\ failing = "no" /\ job \in {"pub", "go"} /\ job # "pub"
  BY <1>1 DEF Honest, StillOpen, Executing, Typed, TypeOK
<1>3. CASE pc' = "done"
  <2>1. report'.stage # "complete" /\ result' = "failed"
    BY <1>1, <1>2, <1>3
  <2>2. QED
    BY <1>1, <1>2, <1>3, <2>1
    DEF Honest, StillOpen, Told, Executing, Ending, ReportIsTrue, ReportedGraphIsPinned,
        StatusMatchesReport
<1>4. CASE pc' = "copy"
  <2>1. StillOpen' /\ Told'
    BY <1>1, <1>2, <1>4 DEF Honest, StillOpen, Told, Executing, Ending
  <2>2. QED
    BY <1>4, <2>1, OpenHonest
<1>5. QED
  BY <1>1, <1>3, <1>4

(* The steps of prepare, which work for a Go job only. *)
LEMMA ForGo ==
    ASSUME Typed, Honest, Copy \/ Compare \/ Seal \/ Publish \/ Recheck \/ Exit
    PROVE  job = "go" /\ job' = "go" /\ pc # "done" /\ result = "running" /\ signal' = signal
BY DEF Typed, TypeOK, Honest, StillOpen, Executing, Copy, Compare, Seal, Publish, Recheck, Exit,
       goRest, envVars

LEMMA CopyHonest == ASSUME Typed, Typed', Honest, Copy PROVE Honest'
<1>1. /\ job = "go" /\ job' = "go" /\ result' = "running" /\ pc = "copy"
      /\ UNCHANGED <<report, evidence>>
      /\ (pc' = "loop" /\ UNCHANGED failing) \/ (pc' = "seal" /\ failing' = "error")
  BY ForGo DEF Copy, Fail
<1>2. report = Underway /\ evidence = Underway /\ failing = "no"
  BY <1>1 DEF Honest, StillOpen
<1>3. StillOpen' /\ Told'
  BY <1>1, <1>2, Kinds DEF StillOpen, Told, Executing, Ending
<1>4. QED
  BY <1>1, <1>3, OpenHonest

LEMMA CompareHonest == ASSUME Typed, Typed', Honest, Compare PROVE Honest'
<1>1. /\ job = "go" /\ job' = "go" /\ result' = "running" /\ pc = "compare" /\ pc' = "seal"
      /\ UNCHANGED <<report, before, isolated>>
  BY ForGo DEF Compare, Fail
<1>2. report = Underway /\ evidence = Underway
  BY <1>1 DEF Honest, StillOpen
<1>3. /\ evidence'.stage = "complete" => failing' = "no" /\ Pinned
      /\ failing' = "no" => evidence' = Succeeded
      /\ evidence'.stage # "older"
  <2>1. CASE UNCHANGED evidence /\ failing' \in {"signal", "error"}
    BY <1>2, <2>1, Kinds
  <2>2. CASE \E some \in SUBSET Manifests :
               LET stage == StageOf(Changed(before, core), Rewritten(some)) IN
               /\ evidence' = [passed |-> stage = "complete", stage |-> stage]
               /\ failing' = IF stage = "complete" THEN "no" ELSE "error"
    <3>1. PICK some \in SUBSET Manifests :
               LET stage == StageOf(Changed(before, core), Rewritten(some)) IN
               /\ evidence' = [passed |-> stage = "complete", stage |-> stage]
               /\ failing' = IF stage = "complete" THEN "no" ELSE "error"
      BY <2>2
    <3>2. PICK stage : stage = StageOf(Changed(before, core), Rewritten(some))
      OBVIOUS
    <3>3. stage # "older" /\ (stage = "complete" => "mod" \notin Rewritten(some))
      BY <3>2 DEF StageOf
    <3>4. "mod" \notin Rewritten(some) => Pinned
      BY DEF Rewritten, Changed, Manifests, Pinned
    <3>5. evidence'.stage = stage /\ failing' = IF stage = "complete" THEN "no" ELSE "error"
      BY <3>1, <3>2
    <3>6. stage = "complete" => evidence' = Succeeded
      BY <3>1, <3>2 DEF Succeeded
    <3>7. QED
      BY <3>3, <3>4, <3>5, <3>6
  <2>3. QED
    BY <2>1, <2>2 DEF Compare, Fail
<1>4. Pinned' = Pinned
  BY <1>1 DEF Pinned
<1>5. StillOpen' /\ Told'
  BY <1>1, <1>2, <1>3, <1>4, Kinds DEF StillOpen, Told, Executing, Ending
<1>6. QED
  BY <1>1, <1>5, OpenHonest

LEMMA SealHonest == ASSUME Typed, Typed', Honest, Seal PROVE Honest'
<1>1. /\ job = "go" /\ job' = "go" /\ result' = "running" /\ pc = "seal" /\ pc' = "publish"
      /\ UNCHANGED <<report, before, isolated, failing, signal>>
      /\ evidence' = IF signal THEN Cancelled ELSE evidence
  BY ForGo DEF Seal
<1>2. /\ report = Underway
      /\ evidence.stage = "complete" => failing = "no" /\ Pinned
      /\ failing = "no" => evidence = Succeeded \/ signal
      /\ evidence.stage # "older"
  BY <1>1 DEF Honest, StillOpen, Told, Ending
<1>3. Pinned' = Pinned
  BY <1>1 DEF Pinned
<1>4. StillOpen' /\ Told'
  BY <1>1, <1>2, <1>3, Kinds DEF StillOpen, Told, Executing, Ending
<1>5. QED
  BY <1>1, <1>4, OpenHonest

LEMMA PublishHonest == ASSUME Typed, Typed', Honest, Publish PROVE Honest'
<1>1. /\ job = "go" /\ job' = "go" /\ result' = "running" /\ pc = "publish"
      /\ UNCHANGED <<before, isolated, evidence, signal>>
      /\ \/ report' = evidence /\ pc' = "recheck" /\ UNCHANGED failing
         \/ /\ pc' = "exit" /\ UNCHANGED report
            /\ failing' = IF failing = "no" /\ ~signal THEN "error" ELSE failing
  BY ForGo DEF Publish
<1>2. /\ report = Underway
      /\ evidence.stage = "complete" => failing = "no" /\ Pinned
      /\ failing = "no" => evidence = Succeeded \/ signal
      /\ report.stage # "older" /\ evidence.stage # "older"
  BY <1>1 DEF Honest, StillOpen, Told, Ending
<1>3. Pinned' = Pinned
  BY <1>1 DEF Pinned
<1>4. StillOpen' /\ Told'
  BY <1>1, <1>2, <1>3, Kinds DEF StillOpen, Told, Executing, Ending
<1>5. QED
  BY <1>1, <1>4, OpenHonest

LEMMA RecheckHonest == ASSUME Typed, Typed', Honest, Recheck PROVE Honest'
<1>1. /\ job = "go" /\ job' = "go" /\ result' = "running" /\ pc = "recheck" /\ pc' = "exit"
      /\ UNCHANGED <<before, isolated, failing, signal>>
      /\ IF signal /\ evidence # Cancelled
           THEN evidence' = Cancelled /\ report' \in {Cancelled, report}
           ELSE UNCHANGED <<evidence, report>>
  BY ForGo DEF Recheck
<1>2. /\ report = evidence /\ report.stage # "older"
      /\ evidence.stage = "complete" => failing = "no" /\ Pinned
      /\ failing = "no" => evidence = Succeeded \/ signal
  BY <1>1 DEF Honest, Told, Ending
<1>3. Pinned' = Pinned
  BY <1>1 DEF Pinned
<1>4. StillOpen' /\ Told'
  BY <1>1, <1>2, <1>3, Kinds DEF StillOpen, Told, Executing, Ending
<1>5. QED
  BY <1>1, <1>4, OpenHonest

LEMMA ExitHonest == ASSUME Typed, Honest, Exit PROVE Honest'
<1>1. /\ job = "go" /\ job' = "go" /\ pc = "exit" /\ pc' = "done"
      /\ UNCHANGED <<before, isolated, report, failing, signal>>
      /\ result' = CASE failing = "error" -> "failed"
                      [] failing = "signal" \/ signal -> "signalled"
                      [] OTHER -> "ok"
      /\ failing \in {"no", "error", "signal"}
  BY ForGo DEF Exit, goVars, Typed, TypeOK
<1>2. /\ report.stage # "older"
      /\ report.stage = "complete" => failing = "no" /\ Pinned
      /\ failing = "no" => report = Succeeded \/ signal
  BY <1>1 DEF Honest, Told
<1>3. StillOpen' /\ Told'
  BY <1>1 DEF StillOpen, Told, Executing, Ending
<1>4. failing = "no" /\ ~signal => result' = "ok"
  BY <1>1
<1>5. result' = "ok" => failing = "no" /\ ~signal
  <2>1. CASE failing = "error"
    BY <1>1, <2>1
  <2>2. CASE failing # "error" /\ (failing = "signal" \/ signal)
    BY <1>1, <2>2
  <2>3. QED
    BY <1>1, <2>1, <2>2
<1>6. ReportIsTrue'
  BY <1>1, <1>2, <1>4, <1>5
  DEF ReportIsTrue, ReportedGraphIsPinned, StatusMatchesReport, Pinned, Succeeded
<1>7. QED
  BY <1>3, <1>6 DEF Honest

LEMMA HonestNext == Typed /\ Typed' /\ Honest /\ [Next]_vars => Honest'
<1> SUFFICES ASSUME Typed, Typed', Honest, [Next]_vars PROVE Honest'
  OBVIOUS
<1>1. CASE Supervisor
  <2>1. CASE Loop \/ Judge
    BY <2>1, LoopHonest
  <2>2. CASE Spawn \/ Assign \/ Poll \/ Term \/ Kill \/ Verify \/ JobStop \/ Drain \/ Backoff
    BY <2>2, AttemptHonest
  <2>3. CASE Inputs \/ Copy \/ Compare \/ Seal \/ Publish \/ Recheck \/ Exit
    BY <2>3, InputsHonest, CopyHonest, CompareHonest, SealHonest, PublishHonest, RecheckHonest, ExitHonest
  <2>4. QED
    BY <1>1, <2>1, <2>2, <2>3 DEF Supervisor
<1>2. CASE Faults
  BY <1>2, AttemptHonest DEF Faults
<1>3. CASE Tick \/ World \/ UNCHANGED vars
  BY <1>3, WorldHonest DEF World
<1>4. QED
  BY <1>1, <1>2, <1>3 DEF Next

(* The report is true to the checkout and to the run: a success names the    *)
(* graph that was hashed, and it stands beside an exit status of 0, whatever *)
(* failure, edit or signal comes while it is made (prepare, main).           *)
THEOREM ReportStaysTrue == Spec => []ReportIsTrue
<1>1. Honest => ReportIsTrue
  BY DEF Honest
<1>2. QED
  BY <1>1, TypedInit, TypedNext, HonestInit, HonestNext, PTL DEF Spec

-----------------------------------------------------------------------------
(* Time. *)

(* The total time may be overrun by two cleanups: that of an attempt that    *)
(* runs until then, and a second one when its output cannot be read.        *)
FetchInTime == now <= TotalTimeout + 2 * CleanupTimeout

Stopping == {"term", "kill", "verify", "jobStop"}

(* Whatever is waited for has an end within that time. *)
Clocked ==
    /\ FetchInTime
    /\ Waiting \/ pc = "assign" => now <= due
    /\ pc \in {"spawn", "assign"} => now < TotalTimeout
    /\ pc \in {"assign", "poll", "backoff"} => due <= TotalTimeout
    /\ pc \in Stopping => \/ due <= TotalTimeout + CleanupTimeout
                          \/ reason = "launch_or_io_error" /\ due <= TotalTimeout + 2 * CleanupTimeout
    /\ pc = "drain" => now <= TotalTimeout + CleanupTimeout

LEMMA ClockedInit == Init => Clocked
BY Sizes DEF Init, Clocked, FetchInTime, Waiting, Stopping

LEMMA UntimedSteps ==
    ASSUME Typed, Clocked, now' = now,
           \/ UNCHANGED <<pc, due, reason>>
           \/ pc' \notin {"spawn", "assign", "poll", "backoff", "drain"} \cup Stopping
    PROVE  Clocked'
BY DEF Clocked, FetchInTime, Waiting, Stopping

LEMMA WorldClocked == ASSUME Typed, Clocked, World \/ UNCHANGED vars PROVE Clocked'
<1>1. UNCHANGED <<now, pc, due, reason>>
  BY DEF World, Cancel, Edit, TreePrints, TreeForks, KinEnds, WorkerLaunches, LeaderExits, WorkerDies,
         vars, clockVars, attemptVars
<1> QED
  BY <1>1, UntimedSteps

LEMMA TickClocked == ASSUME Typed, Clocked, Tick PROVE Clocked'
BY Sizes DEF Typed, TypeOK, Clocked, FetchInTime, Waiting, Stopping, Tick, attemptVars

LEMMA AttemptClocked == ASSUME Typed, Clocked, Spawn \/ Assign \/ Poll \/ PollFails PROVE Clocked'
<1>1. CASE Spawn
  <2>1. now < TotalTimeout /\ now' = now /\ now \in Nat
    BY <1>1 DEF Spawn, Clocked, Typed, TypeOK
  <2>2. \/ pc' = "judge"
        \/ pc' \in {"assign", "poll"} /\ due' = now + Earliest(AttemptTimeout, TotalTimeout - now)
    BY <1>1 DEF Spawn, AttemptDeadline
  <2>3. Earliest(AttemptTimeout, TotalTimeout - now) \in Nat
        /\ now + Earliest(AttemptTimeout, TotalTimeout - now) <= TotalTimeout
    BY <2>1, Sizes DEF Earliest
  <2> QED
    BY <2>1, <2>2, <2>3, Sizes DEF Clocked, FetchInTime, Waiting, Stopping
<1>2. CASE Assign
  <2>1. /\ now < TotalTimeout /\ now' = now /\ now \in Nat
        /\ \/ pc' = "poll" /\ due' = due
           \/ pc' = "jobStop" /\ due' = now + CleanupTimeout
    BY <1>2 DEF Assign, Clocked, Typed, TypeOK
  <2> QED
    BY <1>2, <2>1, Sizes DEF Clocked, FetchInTime, Waiting, Stopping, Assign
<1>3. CASE Poll \/ PollFails
  <2>1. /\ now <= TotalTimeout /\ now' = now /\ now \in Nat
        /\ pc' \in Stopping /\ due' = now + CleanupTimeout
    BY <1>3, Sizes DEF Poll, PollFails, Leaves, Stop, Stopping, Clocked, Waiting, Typed, TypeOK
  <2> QED
    BY <2>1, Sizes DEF Clocked, FetchInTime, Waiting, Stopping
<1> QED
  BY <1>1, <1>2, <1>3

LEMMA CleanupClocked == ASSUME Typed, Clocked, Term \/ Kill \/ Verify \/ VerifyFails \/ JobStop PROVE Clocked'
<1>1. /\ now' = now /\ due' = due /\ reason' = reason
      /\ \/ pc' \in Stopping
         \/ pc' = "judge"
         \/ pc' = "drain" /\ reason # "launch_or_io_error"
  BY DEF Term, Kill, Verify, VerifyFails, JobStop, Inventory, CleanupEnds, AfterStop, clockVars, cleanupRest,
         Stopping
<1>2. pc \in Stopping /\ now <= due
  BY DEF Term, Kill, Verify, VerifyFails, JobStop, Stopping, Clocked, Waiting
<1> QED
  BY <1>1, <1>2, Sizes DEF Typed, TypeOK, Clocked, FetchInTime, Waiting, Stopping

LEMMA DrainClocked == ASSUME Typed, Clocked, Drain \/ DrainFails PROVE Clocked'
<1>1. CASE Drain
  BY <1>1, UntimedSteps DEF Drain, clockVars, Stopping
<1>2. CASE DrainFails
  <2>1. /\ now <= TotalTimeout + CleanupTimeout /\ now' = now /\ now \in Nat
        /\ pc' \in Stopping /\ due' = now + CleanupTimeout /\ reason' = "launch_or_io_error"
    BY <1>2 DEF DrainFails, Leaves, Stop, Stopping, Clocked, Typed, TypeOK
  <2> QED
    BY <2>1, Sizes DEF Clocked, FetchInTime, Waiting, Stopping
<1> QED
  BY <1>1, <1>2

LEMMA LoopClocked == ASSUME Typed, Clocked, Loop \/ Judge \/ Backoff PROVE Clocked'
<1>1. /\ now' = now
      /\ \/ pc' \in {"compare", "done", "loop"}
         \/ pc' = "spawn" /\ now < TotalTimeout
         \/ pc' = "backoff" /\ \E i : due' = now + DelayOf(i) /\ ~(now + DelayOf(i) >= TotalTimeout)
  BY DEF Loop, Judge, Backoff, Verdict, RetryOrFail, Finish
<1>2. CASE pc' \in {"compare", "done", "loop"}
  BY <1>1, <1>2, UntimedSteps DEF Stopping
<1>3. CASE pc' = "spawn" /\ now < TotalTimeout
  BY <1>1, <1>3 DEF Clocked, FetchInTime, Waiting, Stopping
<1>4. CASE pc' = "backoff"
  <2>1. PICK i : due' = now + DelayOf(i) /\ ~(now + DelayOf(i) >= TotalTimeout)
    BY <1>1, <1>4
  <2>2. DelayOf(i) \in Nat /\ now \in Nat
    BY Sizes DEF DelayOf, Typed, TypeOK
  <2> QED
    BY <1>1, <1>4, <2>1, <2>2, Sizes DEF Clocked, FetchInTime, Waiting, Stopping
<1> QED
  BY <1>1, <1>2, <1>3, <1>4

LEMMA PrepareClocked ==
    ASSUME Typed, Clocked, Inputs \/ Copy \/ Compare \/ Seal \/ Publish \/ Recheck \/ Exit
    PROVE  Clocked'
<1>1. /\ now' = now
      /\ pc' \in {"copy", "done", "loop", "seal", "publish", "recheck", "exit"}
  BY DEF Inputs, Copy, Compare, Seal, Publish, Recheck, Exit, Fail, goRest, clockVars
<1> QED
  BY <1>1, UntimedSteps DEF Stopping

LEMMA ClockedNext == Typed /\ Clocked /\ [Next]_vars => Clocked'
<1> SUFFICES ASSUME Typed, Clocked, [Next]_vars PROVE Clocked'
  OBVIOUS
<1>1. CASE Supervisor
  BY <1>1, AttemptClocked, CleanupClocked, DrainClocked, LoopClocked, PrepareClocked DEF Supervisor
<1>2. CASE Faults
  BY <1>2, AttemptClocked, CleanupClocked, DrainClocked DEF Faults
<1>3. CASE Tick \/ World \/ UNCHANGED vars
  BY <1>3, TickClocked, WorldClocked
<1> QED
  BY <1>1, <1>2, <1>3 DEF Next

(* However long the command hangs, whatever cannot be killed and whatever   *)
(* fails on the way, the clock never passes the total time by more than two *)
(* cleanups (execute, attempt, cleanup_owned_group).                        *)
THEOREM FetchStaysInTime == Spec => []FetchInTime
<1>1. Clocked => FetchInTime
  BY DEF Clocked
<1> QED
  BY <1>1, TypedInit, TypedNext, ClockedInit, ClockedNext, PTL DEF Spec

================================================================================
