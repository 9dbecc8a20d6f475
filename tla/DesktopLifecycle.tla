-------------------------- MODULE DesktopLifecycle --------------------------
(***************************************************************************)
(* The desktop Core lifecycle: DesktopCoreLifecycle of                     *)
(* lib/core/desktop/lifecycle.dart with the transport binding and          *)
(* IpcCoreTransport of transport.dart.  One asynchronous worker drives the *)
(* Core process towards the newest intent while callers keep submitting    *)
(* intents, the IPC transport reports connections and losses, and the Core *)
(* process itself starts, connects and dies on its own.                    *)
(*                                                                         *)
(* Scheduling.  The Dart event loop drains every microtask before it takes *)
(* the next event (a completed I/O operation, a timer, an IPC message).  A *)
(* worker step that resumes by microtask is a "micro" step; an action that *)
(* stands for an event of the event loop is guarded by Quiet, which says   *)
(* that no microtask is left.  Callers may submit at any time, from a      *)
(* microtask as well as from an event.  Processes are not scheduled by     *)
(* Dart and move at any time.                                              *)
(***************************************************************************)
EXTENDS Naturals, Sequences, FiniteSets

CONSTANTS
    MaxRevision,    \* bound on the number of submitted intents
    MaxLaunch,      \* bound on the number of Core processes launched
    VerifyPeerPid   \* verifyPeerPid: TRUE on Windows

ASSUME BoundsAssumption ==
    /\ MaxRevision \in Nat
    /\ MaxLaunch \in Nat
    /\ VerifyPeerPid \in BOOLEAN

Revisions == 1..MaxRevision
Procs == 1..MaxLaunch
NoProc == 0

Targets == {"running", "restarted", "stopped", "closed"}
Outcomes == {"unsubmitted", "pending", "applied", "coalesced", "superseded",
             "failed"}
Phases == {"idle", "starting", "running", "stopping", "failed", "closed"}
Achievements == {"none", "runningExisting", "runningFresh", "idle", "closed"}

NoSession == [proc |-> NoProc, gen |-> 0]
NoWaiter == [status |-> "none", gen |-> 0, peer |-> NoProc]
FreshTransport == [state |-> "idle", gen |-> 0, peer |-> NoProc]

VARIABLES
    revision,       \* _revision: the number of intents submitted so far
    target,         \* the target of each submitted intent
    outcome,        \* what became of the command of each intent
    phase,          \* the phase of _state, the published state
    session,        \* _session: the process and connection generation it holds
    disconnected,   \* _sessionDisconnect.isCompleted
    unconfirmed,    \* _unconfirmedLease
    recovery,       \* the lease _unexpectedDisconnectOperation is stopping
    pc,             \* where the worker is; "none" when _worker is null
    intent,         \* revision of the intent _reconcile works for
    achieved,       \* what _reconcile returned
    forced,         \* allowUnconfirmedExit of the stop in progress
    lease,          \* the lease owned by the _startSession in progress
    waiter,         \* its _TransportConnectionWaiter
    released,       \* what releaseLease leads to: "abandoning" or "failing"
    transport,      \* the bound transport: state, generation and peer
    events,         \* transport events the lifecycle has yet to handle
    launches,       \* number of launches asked of the launcher so far
    process,        \* each Core process: none, alive, linked, cut or dead
    orphans         \* history: live processes given up without a lease

ledgerVars == <<revision, target, outcome>>
startVars == <<lease, waiter, released>>
ownerVars == <<session, disconnected, unconfirmed, recovery, orphans>>
vars == <<revision, target, outcome, phase, session, disconnected, unconfirmed,
          recovery, pc, intent, achieved, forced, lease, waiter, released,
          transport, events, launches, process, orphans>>

-----------------------------------------------------------------------------
(* Derived state.                                                          *)

(* _desired: the newest intent; before any was submitted, revision 0, stopped. *)
TargetOf(r) == IF r \in Revisions THEN target[r] ELSE "stopped"
Desired == TargetOf(revision)

(* _wantsRunning of an intent. *)
Runs(t) == t \in {"running", "restarted"}
WantsRunning == Runs(Desired)

(* _terminalRequested: no intent is accepted after closed, so it is the newest. *)
TerminalRequested == Desired = "closed"

Pending == {r \in Revisions : outcome[r] = "pending"}
HasSession == session.proc # NoProc
Live(p) == process[p] \in {"alive", "linked", "cut"}

MicroPcs == {"settling", "failing", "exiting", "abandoning", "stopped",
             "dispatching"}

(* A worker waiting on a future that is already completed resumes by microtask. *)
WakePending ==
    \/ pc = "awaitRecovery" /\ recovery = NoProc
    \/ pc = "opening" /\ (~WantsRunning \/ transport.state # "starting")
    \/ pc = "connecting" /\ (~WantsRunning \/ waiter.status # "pending")
    \/ pc = "grace" /\ disconnected

Quiet == events = <<>> /\ pc \notin MicroPcs /\ ~WakePending

(* The peer of a connection that ends lives on without it. *)
Unlinked == [p \in Procs |-> IF process[p] = "linked" THEN "cut" ELSE process[p]]

-----------------------------------------------------------------------------
Pcs == MicroPcs \cup
    {"none", "awaitRecovery", "stopUnconfirmed", "stopping", "grace",
     "replacingOnStop", "replacingOnStart", "opening", "resolving",
     "launching", "connecting", "releasing", "closing"}
Transports == [state : {"idle", "starting", "ready", "connected", "failed", "closed"},
               gen : Nat, peer : 0..MaxLaunch]
Events == [kind : {"disconnected", "failed"}, gen : Nat]

TypeOK ==
    /\ revision \in 0..MaxRevision
    /\ target \in [Revisions -> Targets]
    /\ outcome \in [Revisions -> Outcomes]
    /\ phase \in Phases
    /\ session \in [proc : 0..MaxLaunch, gen : Nat]
    /\ disconnected \in BOOLEAN
    /\ unconfirmed \in 0..MaxLaunch
    /\ recovery \in 0..MaxLaunch
    /\ pc \in Pcs
    /\ intent \in 0..MaxRevision
    /\ achieved \in Achievements
    /\ forced \in BOOLEAN
    /\ lease \in 0..MaxLaunch
    /\ waiter \in [status : {"none", "pending", "connected", "failed"},
                   gen : Nat, peer : 0..MaxLaunch]
    /\ released \in {"abandoning", "failing"}
    /\ transport \in Transports
    /\ events \in Seq(Events)
    /\ launches \in 0..MaxLaunch
    /\ process \in [Procs -> {"none", "alive", "linked", "cut", "dead"}]
    /\ orphans \in SUBSET (0..MaxLaunch)

Init ==
    /\ revision = 0
    /\ target = [r \in Revisions |-> "stopped"]
    /\ outcome = [r \in Revisions |-> "unsubmitted"]
    /\ phase = "idle"
    /\ session = NoSession
    /\ disconnected = FALSE
    /\ unconfirmed = NoProc
    /\ recovery = NoProc
    /\ pc = "none"
    /\ intent = 0
    /\ achieved = "none"
    /\ forced = FALSE
    /\ lease = NoProc
    /\ waiter = NoWaiter
    /\ released = "abandoning"
    /\ transport = FreshTransport
    /\ events = <<>>
    /\ launches = 0
    /\ process = [p \in Procs |-> "none"]
    /\ orphans = {}

-----------------------------------------------------------------------------
(* Straight-line stretches of the worker between two awaits.  Each sets    *)
(* the variables of flowVars; d is the target of the newest intent.        *)

flowVars == <<phase, pc, achieved, forced, transport, events, process>>

GoTo(label) == pc' = label

(* The awaits of the worker that end in a value for _runWorker. *)
Return(achievement) ==
    /\ GoTo("settling")
    /\ achieved' = achievement

(* DesktopCoreTransportBinding.replace and the close of the transport up to *)
(* the await of the server's close.                                        *)
DropTransport ==
    /\ transport' = [transport EXCEPT !.state = "closed", !.peer = NoProc]
    /\ process' = Unlinked

AnnounceReplacement ==
    events' = IF transport.state = "connected"
                THEN Append(events, [kind |-> "failed", gen |-> 0])
                ELSE events

(* _stopSession up to the await of lease.stop. *)
StopSession(mayGiveUp) ==
    /\ phase' = "stopping"
    /\ forced' = mayGiveUp
    /\ GoTo("stopping")
    /\ UNCHANGED <<achieved, transport, events, process>>

(* open() is memoised: an open in flight is joined. *)
OpenTransport(d) ==
    /\ transport' = [transport EXCEPT !.state = "starting"]
    /\ GoTo(IF Runs(d) THEN "opening" ELSE "abandoning")

(* _startSession and _ensureTransportReady up to their first await. *)
StartSession(d) ==
    /\ phase' = "starting"
    /\ UNCHANGED <<achieved, forced>>
    /\ \/ /\ transport.state \in {"failed", "closed", "connected"}
          /\ DropTransport
          /\ AnnounceReplacement
          /\ GoTo("replacingOnStart")
       \/ /\ transport.state = "ready"
          /\ GoTo("resolving")
          /\ UNCHANGED <<transport, events, process>>
       \/ /\ transport.state \in {"idle", "starting"}
          /\ OpenTransport(d)
          /\ UNCHANGED <<events, process>>

(* _abandonedStart *)
AbandonedStart(d) ==
    /\ phase' = IF d = "stopped" THEN "idle" ELSE phase
    /\ Return("idle")
    /\ UNCHANGED <<forced, transport, events, process>>

(* The closed branch of _reconcile up to the await of the transport's close. *)
CloseTransport ==
    /\ DropTransport
    /\ events' = <<>>
    /\ GoTo("closing")
    /\ UNCHANGED <<phase, achieved, forced>>

(* What _reconcile does for target t once it holds no session; a running    *)
(* target rereads the newest intent only after a stop.                      *)
Proceed(t, d, afterStop) ==
    LET wanted == Runs(d) \/ (t = "running" /\ ~afterStop) IN
    \/ /\ Runs(t) /\ wanted
       /\ StartSession(d)
    \/ /\ t = "stopped" \/ (Runs(t) /\ ~wanted)
       /\ AbandonedStart(d)
    \/ /\ t = "closed"
       /\ CloseTransport

(* A start over the session of a failed stop that does not stop it again. *)
DispatchOverFailed(t, d) ==
    \/ /\ ~HasSession \/ (t = "running" /\ phase = "failed")
       /\ Proceed(t, d, FALSE)
    \/ /\ HasSession /\ t = "running" /\ phase = "running"
       /\ Return("runningExisting")
       /\ UNCHANGED <<phase, forced, transport, events, process>>
    \/ /\ HasSession /\ ~(t = "running" /\ phase \in {"running", "failed"})
       /\ StopSession(t = "closed" \/ (Runs(t) /\ d = "closed"))

(* The switch of _reconcile on intent.target. *)
Dispatch(t, d) ==
    LET existing == t = "running" /\ phase = "running" IN
    \/ /\ ~HasSession
       /\ Proceed(t, d, FALSE)
    \/ /\ HasSession /\ existing
       /\ Return("runningExisting")
       /\ UNCHANGED <<phase, forced, transport, events, process>>
    \/ /\ HasSession /\ ~existing
       /\ StopSession(t = "closed" \/ (Runs(t) /\ d = "closed"))

(* _runWorker from the read of _desired, revision r with target d. *)
Reconcile(r, d) ==
    /\ intent' = r
    /\ \/ /\ unconfirmed # NoProc
          /\ GoTo("stopUnconfirmed")
          /\ UNCHANGED <<phase, achieved, forced, transport, events, process>>
       \/ /\ unconfirmed = NoProc
          /\ Dispatch(d, d)

(* A worker that does not wait for the cleanup of a crash. *)
LoopHeadWithoutRecovery(r, d) == Reconcile(r, d)

(* The head of the loop of _runWorker, reached with a command pending. *)
LoopHead(r, d) ==
    \/ /\ recovery # NoProc
       /\ GoTo("awaitRecovery")
       /\ UNCHANGED <<intent, phase, achieved, forced, transport, events, process>>
    \/ /\ recovery = NoProc
       /\ Reconcile(r, d)

-----------------------------------------------------------------------------
(* _submit refuses once _terminalRequested; the bound is the model's. *)
Accepting == revision < MaxRevision /\ ~TerminalRequested

(* The callers: start, restart, stop and close.  _submit runs the worker   *)
(* to its first await when there is none.                                  *)
Submit(t) ==
    /\ Accepting
    /\ revision' = revision + 1
    /\ target' = [target EXCEPT ![revision + 1] = t]
    /\ outcome' = [outcome EXCEPT ![revision + 1] = "pending"]
    /\ \/ pc = "none" /\ LoopHead(revision + 1, t)
       \/ pc # "none" /\ UNCHANGED <<intent, flowVars>>
    /\ UNCHANGED <<ownerVars, startVars, launches>>

-----------------------------------------------------------------------------
(* The worker. *)

(* await recovery has completed: read _desired and reconcile. *)
ResumeAfterRecovery ==
    /\ pc = "awaitRecovery"
    /\ recovery = NoProc
    /\ Reconcile(revision, Desired)
    /\ UNCHANGED <<ledgerVars, ownerVars, startVars, launches>>

(* _stopUnconfirmedLease: the retained lease is stopped again; a terminal   *)
(* close gives it up when that fails.                                       *)
UnconfirmedStopped ==
    /\ Quiet
    /\ pc = "stopUnconfirmed"
    /\ ~Live(unconfirmed)
    /\ unconfirmed' = NoProc
    /\ GoTo("dispatching")
    /\ UNCHANGED <<ledgerVars, startVars, launches, session, disconnected,
                   recovery, orphans, intent, phase, achieved, forced,
                   transport, events, process>>

UnconfirmedStopFails ==
    /\ Quiet
    /\ pc = "stopUnconfirmed"
    /\ IF TargetOf(intent) = "closed"
         THEN /\ unconfirmed' = NoProc
              /\ orphans' = orphans \cup {unconfirmed}
              /\ GoTo("dispatching")
         ELSE /\ GoTo("failing")
              /\ UNCHANGED <<unconfirmed, orphans>>
    /\ UNCHANGED <<ledgerVars, startVars, launches, session, disconnected,
                   recovery, intent, phase, achieved, forced, transport,
                   events, process>>

ResumeDispatch ==
    /\ pc = "dispatching"
    /\ Dispatch(TargetOf(intent), Desired)
    /\ UNCHANGED <<ledgerVars, ownerVars, startVars, launches, intent>>

(* _clearSession *)
ClearSession ==
    /\ session' = NoSession
    /\ disconnected' = FALSE

(* _stopSession: lease.stop confirmed the exit; the matching disconnect is  *)
(* awaited for one turn of the event loop.                                  *)
SessionExitConfirmed ==
    /\ Quiet
    /\ pc = "stopping"
    /\ ~Live(session.proc)
    /\ GoTo("grace")
    /\ UNCHANGED <<ledgerVars, ownerVars, startVars, launches, intent, phase,
                   achieved, forced, transport, events, process>>

(* _stopSession: lease.stop timed out or failed. *)
SessionExitUnconfirmed ==
    /\ Quiet
    /\ pc = "stopping"
    /\ IF forced
         THEN /\ ClearSession
              /\ orphans' = orphans \cup {session.proc}
              /\ GoTo("stopped")
         ELSE /\ GoTo("failing")
              /\ UNCHANGED <<session, disconnected, orphans>>
    /\ UNCHANGED <<ledgerVars, startVars, launches, unconfirmed, recovery,
                   intent, phase, achieved, forced, transport, events, process>>

(* _stopSession after the wait for the disconnect: a missing one replaces   *)
(* the transport.                                                           *)
GraceEnds ==
    /\ pc = "grace"
    /\ disconnected \/ Quiet
    /\ ClearSession
    /\ IF disconnected \/ TerminalRequested
         THEN /\ GoTo("stopped")
              /\ UNCHANGED <<transport, events, process>>
         ELSE /\ DropTransport
              /\ AnnounceReplacement
              /\ GoTo("replacingOnStop")
    /\ UNCHANGED <<ledgerVars, startVars, launches, unconfirmed, recovery,
                   orphans, intent, phase, achieved, forced>>

(* The old transport's close returns or throws; replace binds the new one   *)
(* either way.                                                              *)
StopReplaced(throws) ==
    /\ Quiet
    /\ pc = "replacingOnStop"
    /\ transport' = FreshTransport
    /\ GoTo(IF throws /\ ~forced THEN "failing" ELSE "stopped")
    /\ UNCHANGED <<ledgerVars, ownerVars, startVars, launches, intent, phase,
                   achieved, forced, events, process>>

(* _reconcile after _stopSession. *)
ResumeAfterStop ==
    /\ pc = "stopped"
    /\ Proceed(TargetOf(intent), Desired, TRUE)
    /\ UNCHANGED <<ledgerVars, ownerVars, startVars, launches, intent>>

(* _ensureTransportReady after replace: the fresh transport is opened. *)
StartReplaced(throws) ==
    /\ Quiet
    /\ pc = "replacingOnStart"
    /\ IF throws
         THEN transport' = FreshTransport /\ GoTo("failing")
         ELSE /\ transport' = [FreshTransport EXCEPT !.state = "starting"]
              /\ GoTo(IF WantsRunning THEN "opening" ELSE "abandoning")
    /\ UNCHANGED <<ledgerVars, ownerVars, startVars, launches, intent, phase,
                   achieved, forced, events, process>>

(* _ensureTransportReady: open() answers, times out, or is no longer wanted. *)
TransportOpened ==
    /\ pc = "opening"
    /\ transport.state \in {"ready", "connected"}
    /\ GoTo("resolving")
    /\ UNCHANGED <<ledgerVars, ownerVars, startVars, launches, intent, phase,
                   achieved, forced, transport, events, process>>

OpenFails ==
    /\ pc = "opening"
    /\ transport.state = "failed" \/ Quiet
    /\ GoTo("failing")
    /\ UNCHANGED <<ledgerVars, ownerVars, startVars, launches, intent, phase,
                   achieved, forced, transport, events, process>>

OpenNoLongerWanted ==
    /\ pc = "opening"
    /\ ~WantsRunning
    /\ GoTo("abandoning")
    /\ UNCHANGED <<ledgerVars, ownerVars, startVars, launches, intent, phase,
                   achieved, forced, transport, events, process>>

(* launcherResolver.resolve answers: the waiter listens before the launch. *)
Resolved ==
    /\ pc = "resolving"
    /\ IF WantsRunning
         THEN /\ launches < MaxLaunch
              /\ launches' = launches + 1
              /\ waiter' = [NoWaiter EXCEPT !.status = "pending"]
              /\ GoTo("launching")
         ELSE /\ GoTo("abandoning")
              /\ UNCHANGED <<launches, waiter>>
    /\ UNCHANGED <<ledgerVars, ownerVars, lease, released, intent, phase,
                   achieved, forced, transport, events, process>>

ResolveFails ==
    /\ pc = "resolving"
    /\ GoTo("failing")
    /\ UNCHANGED <<ledgerVars, ownerVars, startVars, launches, intent, phase,
                   achieved, forced, transport, events, process>>

(* launcher.start returns the lease of the process it spawned. *)
Launched ==
    /\ Quiet
    /\ pc = "launching"
    /\ process[launches] # "none"
    /\ lease' = launches
    /\ released' = "abandoning"
    /\ GoTo(IF WantsRunning THEN "connecting" ELSE "releasing")
    /\ UNCHANGED <<ledgerVars, ownerVars, waiter, launches, intent, phase,
                   achieved, forced, transport, events, process>>

(* launcher.start throws.  The Helper may have spawned a Core whose answer  *)
(* is lost: no lease of it exists.                                          *)
LaunchFails ==
    /\ Quiet
    /\ pc = "launching"
    /\ orphans' = orphans \cup {p \in {launches} : Live(p)}
    /\ waiter' = NoWaiter
    /\ GoTo("failing")
    /\ UNCHANGED <<ledgerVars, session, disconnected, unconfirmed, recovery,
                   lease, released, launches, intent, phase, achieved, forced,
                   transport, events, process>>

(* peer_pid_mismatch *)
PeerMismatch == VerifyPeerPid /\ waiter.peer # lease

(* _waitForConnectionWhileWanted returns the connection: the session runs,  *)
(* unless the peer is not the launched process.                             *)
ConnectionAccepted ==
    /\ pc = "connecting"
    /\ WantsRunning
    /\ waiter.status = "connected"
    /\ IF PeerMismatch
         THEN /\ released' = "failing"
              /\ GoTo("releasing")
              /\ UNCHANGED <<session, disconnected, phase, achieved, lease, waiter>>
         ELSE /\ session' = [proc |-> lease, gen |-> waiter.gen]
              /\ disconnected' = FALSE
              /\ phase' = "running"
              /\ lease' = NoProc
              /\ waiter' = NoWaiter
              /\ Return("runningFresh")
              /\ UNCHANGED released
    /\ UNCHANGED <<ledgerVars, unconfirmed, recovery, orphans, launches, intent,
                   forced, transport, events, process>>

(* The waiter failed, or its timer fired first. *)
ConnectionFails ==
    /\ pc = "connecting"
    /\ waiter.status = "failed"
    /\ released' = "failing"
    /\ GoTo("releasing")
    /\ UNCHANGED <<ledgerVars, ownerVars, lease, waiter, launches, intent,
                   phase, achieved, forced, transport, events, process>>

ConnectionNoLongerWanted ==
    /\ pc = "connecting"
    /\ ~WantsRunning
    /\ released' = "abandoning"
    /\ GoTo("releasing")
    /\ UNCHANGED <<ledgerVars, ownerVars, lease, waiter, launches, intent,
                   phase, achieved, forced, transport, events, process>>

(* _cleanObsoleteLease *)
LeaseReleased ==
    /\ Quiet
    /\ pc = "releasing"
    /\ ~Live(lease)
    /\ lease' = NoProc
    /\ waiter' = NoWaiter
    /\ GoTo(released)
    /\ UNCHANGED <<ledgerVars, ownerVars, released, launches, intent, phase,
                   achieved, forced, transport, events, process>>

LeaseNotReleased ==
    /\ Quiet
    /\ pc = "releasing"
    /\ unconfirmed' = lease
    /\ lease' = NoProc
    /\ waiter' = NoWaiter
    /\ GoTo("failing")
    /\ UNCHANGED <<ledgerVars, session, disconnected, recovery, orphans,
                   released, launches, intent, phase, achieved, forced,
                   transport, events, process>>

(* _startForIntent after a start that returned false. *)
ResumeAbandonedStart ==
    /\ pc = "abandoning"
    /\ AbandonedStart(Desired)
    /\ UNCHANGED <<ledgerVars, ownerVars, startVars, launches, intent>>

(* The binding's close returns: Closed is published.  It may throw. *)
TransportClosed ==
    /\ Quiet
    /\ pc = "closing"
    /\ phase' = "closed"
    /\ Return("closed")
    /\ UNCHANGED <<ledgerVars, ownerVars, startVars, launches, intent, forced,
                   transport, events, process>>

CloseFails ==
    /\ Quiet
    /\ pc = "closing"
    /\ GoTo("failing")
    /\ UNCHANGED <<ledgerVars, ownerVars, startVars, launches, intent, phase,
                   achieved, forced, transport, events, process>>

-----------------------------------------------------------------------------
(* Settling the commands. *)

(* _satisfies *)
Fulfils == [running |-> {"runningExisting", "runningFresh"},
            restarted |-> {"runningFresh"},
            stopped |-> {"idle"},
            closed |-> {"closed"}]

SatisfiesOldIntent(achievement, t) == achievement \in Fulfils[TargetOf(intent)]
Satisfies(achievement, t) == achievement \in Fulfils[t]

(* _targetsCoalesce *)
SameTarget(t, settled) == t = settled
TargetsCoalesce(t, settled) == (Runs(t) /\ Runs(settled)) \/ t = settled

(* The outcome _completeCommands gives to command r when the newest is settled. *)
OutcomeOf(r) ==
    IF r = revision THEN "applied"
    ELSE IF TargetsCoalesce(target[r], Desired) THEN "coalesced"
    ELSE "superseded"

(* _completeCommands(_desired) *)
CompleteCommands ==
    outcome' = [r \in Revisions |->
                  IF outcome[r] = "pending" THEN OutcomeOf(r) ELSE outcome[r]]

(* _failCommands *)
FailCommands(upTo) ==
    outcome' = [r \in Revisions |->
                  IF outcome[r] = "pending" /\ r <= upTo THEN "failed" ELSE outcome[r]]

(* _reconcile returned: settle against the newest intent, or go round again. *)
Settle ==
    /\ pc = "settling"
    /\ \/ /\ Satisfies(achieved, Desired)
          /\ CompleteCommands
          /\ GoTo("exiting")
          /\ UNCHANGED <<intent, phase, achieved, forced, transport, events, process>>
       \/ /\ ~Satisfies(achieved, Desired)
          /\ LoopHead(revision, Desired)
          /\ UNCHANGED outcome
    /\ UNCHANGED <<revision, target, ownerVars, startVars, launches>>

(* A failure met by a newer intent is not the last word. *)
Outdated == intent # revision

(* _reconcile threw: the failure settles the commands up to its intent; a   *)
(* newer intent is reconciled next, and a pending close keeps them all.     *)
Fail ==
    /\ pc = "failing"
    /\ \/ /\ ~Outdated
          /\ phase' = "failed"
          /\ FailCommands(intent)
          /\ GoTo("exiting")
          /\ UNCHANGED <<intent, achieved, forced, transport, events, process>>
       \/ /\ Outdated
          /\ IF TerminalRequested THEN UNCHANGED outcome ELSE FailCommands(intent)
          /\ LoopHead(revision, Desired)
    /\ UNCHANGED <<revision, target, ownerVars, startVars, launches>>

(* whenComplete of the worker that only forgets it. *)
WorkerForgotten ==
    /\ pc = "exiting"
    /\ GoTo("none")
    /\ UNCHANGED <<ledgerVars, ownerVars, startVars, launches, intent, phase,
                   achieved, forced, transport, events, process>>

(* whenComplete of the worker: a command submitted since restarts it. *)
WorkerDone ==
    /\ pc = "exiting"
    /\ \/ /\ Pending # {}
          /\ LoopHead(revision, Desired)
       \/ /\ Pending = {}
          /\ GoTo("none")
          /\ UNCHANGED <<intent, phase, achieved, forced, transport, events, process>>
    /\ UNCHANGED <<ledgerVars, ownerVars, startVars, launches>>

-----------------------------------------------------------------------------
(* Transport events reaching the lifecycle. *)

(* A disconnect of another generation, or while not running, crashes nothing. *)
IsCrash(event) ==
    /\ phase = "running"
    /\ HasSession
    /\ recovery = NoProc
    /\ event.kind = "disconnected" => event.gen = session.gen

(* _handleTransportEvent and _handleUnexpectedDisconnect *)
HandleTransportEvent ==
    /\ events # <<>>
    /\ events' = Tail(events)
    /\ LET event == Head(events) IN
         \/ /\ IsCrash(event)
            /\ ClearSession
            /\ recovery' = session.proc
            /\ phase' = "failed"
         \/ /\ ~IsCrash(event)
            /\ disconnected' = \/ disconnected
                               \/ /\ HasSession
                                  /\ event.kind = "disconnected"
                                  /\ event.gen = session.gen
            /\ UNCHANGED <<session, recovery, phase>>
    /\ UNCHANGED <<ledgerVars, startVars, launches, unconfirmed, orphans, pc,
                   intent, achieved, forced, transport, process>>

RecoveryOutcomeIgnored == UNCHANGED unconfirmed
RecoveryOutcome ==
    \/ ~Live(recovery) /\ UNCHANGED unconfirmed
    \/ unconfirmed' = recovery

(* The crashed session's lease.stop ends; an exit it cannot confirm is kept. *)
RecoveryEnds ==
    /\ Quiet
    /\ recovery # NoProc
    /\ recovery' = NoProc
    /\ RecoveryOutcome
    /\ UNCHANGED <<ledgerVars, startVars, launches, session, disconnected,
                   orphans, pc, intent, flowVars>>

(* The connection waiter's timer. *)
WaiterTimesOut ==
    /\ Quiet
    /\ waiter.status = "pending"
    /\ waiter' = [waiter EXCEPT !.status = "failed"]
    /\ UNCHANGED <<ledgerVars, ownerVars, lease, released, launches, intent,
                   flowVars>>

-----------------------------------------------------------------------------
(* IpcCoreTransport *)

Emit(kind, gen) == events' = Append(events, [kind |-> kind, gen |-> gen])

(* The waiter hears of what the bound transport reports. *)
Notify(status, gen, peer) ==
    waiter' = IF waiter.status = "pending"
                THEN [status |-> status, gen |-> gen, peer |-> peer]
                ELSE waiter

(* _open binds the socket. *)
TransportBinds ==
    /\ Quiet
    /\ transport.state = "starting"
    /\ transport' = [transport EXCEPT !.state = "ready"]
    /\ UNCHANGED <<ledgerVars, ownerVars, startVars, launches, intent, phase,
                   pc, achieved, forced, events, process>>

(* _connect: the server serves one peer at a time, and a Core dials once. *)
TransportConnects(p) ==
    /\ Quiet
    /\ transport.state = "ready"
    /\ process[p] = "alive"
    /\ transport' = [state |-> "connected", gen |-> transport.gen + 1, peer |-> p]
    /\ process' = [process EXCEPT ![p] = "linked"]
    /\ Notify("connected", transport.gen + 1, p)
    /\ UNCHANGED <<ledgerVars, ownerVars, lease, released, launches, intent,
                   phase, pc, achieved, forced, events>>

(* _disconnect: the peer died or its connection broke. *)
TransportDisconnects ==
    /\ Quiet
    /\ transport.state = "connected"
    /\ transport' = [transport EXCEPT !.state = "ready", !.peer = NoProc]
    /\ process' = Unlinked
    /\ Emit("disconnected", transport.gen)
    /\ UNCHANGED <<ledgerVars, ownerVars, startVars, launches, intent, phase,
                   pc, achieved, forced>>

(* _fail: the bind failed, or the server stopped. *)
TransportFails ==
    /\ Quiet
    /\ transport.state \in {"starting", "ready", "connected"}
    /\ transport' = [transport EXCEPT !.state = "failed", !.peer = NoProc]
    /\ process' = Unlinked
    /\ Emit("failed", 0)
    /\ Notify("failed", 0, NoProc)
    /\ UNCHANGED <<ledgerVars, ownerVars, lease, released, launches, intent,
                   phase, pc, achieved, forced>>

-----------------------------------------------------------------------------
(* The Core processes. *)

Spawn ==
    /\ pc = "launching"
    /\ process[launches] = "none"
    /\ process' = [process EXCEPT ![launches] = "alive"]
    /\ UNCHANGED <<ledgerVars, ownerVars, startVars, launches, intent, phase,
                   pc, achieved, forced, transport, events>>

Die(p) ==
    /\ Live(p)
    /\ process' = [process EXCEPT ![p] = "dead"]
    /\ UNCHANGED <<ledgerVars, ownerVars, startVars, launches, intent, phase,
                   pc, achieved, forced, transport, events>>

-----------------------------------------------------------------------------
Callers == \E t \in Targets : Submit(t)

Stopping ==
    \/ UnconfirmedStopped \/ UnconfirmedStopFails \/ SessionExitConfirmed
    \/ SessionExitUnconfirmed \/ GraceEnds
    \/ \E throws \in BOOLEAN : StopReplaced(throws)

Starting ==
    \/ \E throws \in BOOLEAN : StartReplaced(throws)
    \/ TransportOpened \/ OpenFails \/ OpenNoLongerWanted
    \/ Resolved \/ ResolveFails \/ Launched \/ LaunchFails
    \/ ConnectionAccepted \/ ConnectionFails \/ ConnectionNoLongerWanted
    \/ LeaseReleased \/ LeaseNotReleased

Worker ==
    \/ ResumeAfterRecovery \/ ResumeDispatch \/ ResumeAfterStop
    \/ ResumeAbandonedStart \/ TransportClosed \/ CloseFails
    \/ Settle \/ Fail \/ WorkerDone
    \/ Stopping \/ Starting

Environment ==
    \/ TransportBinds \/ TransportDisconnects \/ TransportFails
    \/ \E p \in Procs : TransportConnects(p) \/ Die(p)
    \/ Spawn

Next ==
    \/ Callers
    \/ Worker
    \/ HandleTransportEvent
    \/ RecoveryEnds
    \/ WaiterTimesOut
    \/ Environment

(* Every await of the worker ends: its operations are bounded by the        *)
(* timeouts of DesktopCoreTimeouts, by the Helper client's own, or complete *)
(* by themselves, and the event loop delivers what is queued.  Nothing      *)
(* makes a caller submit, a process die or connect.                         *)
Fairness ==
    /\ WF_vars(Worker)
    /\ WF_vars(HandleTransportEvent)
    /\ WF_vars(RecoveryEnds)
    /\ WF_vars(WaiterTimesOut)

Spec == Init /\ [][Next]_vars /\ Fairness

-----------------------------------------------------------------------------
(* Properties. *)

(* The processes the lifecycle can still stop through a lease, or is launching. *)
Held ==
    ({session.proc, unconfirmed, recovery, lease}
       \cup (IF pc = "launching" THEN {launches} ELSE {})) \ {NoProc}

(* No Core is forgotten: a live Core process is held by the session, by the *)
(* start in progress, by the crash cleanup or as the unconfirmed lease, or  *)
(* is one whose lease never arrived or that a terminal close gave up.       *)
NoCoreForgotten == \A p \in Procs : Live(p) => p \in Held \cup orphans

(* Two Cores are never up for the lifecycle at once: a start waits for the  *)
(* crash cleanup and for the unconfirmed lease before it launches.          *)
OneCore ==
    \A p, q \in Procs :
        Live(p) /\ Live(q) /\ p \notin orphans /\ q \notin orphans => p = q

(* The published phase agrees with the session kept: Running always has the *)
(* session a crash or a stop needs, Idle, Starting and Closed never do.     *)
PhaseAgrees ==
    /\ phase = "running" => HasSession
    /\ phase \in {"idle", "starting", "closed"} => ~HasSession

(* An applied command tells the truth once the worker rests: after a stop   *)
(* no Core is left behind, after a close the lifecycle is closed, after a   *)
(* start it runs or has crashed since.                                      *)
AppliedIsTrue ==
    pc = "none" /\ revision \in Revisions /\ outcome[revision] = "applied" =>
        /\ Runs(Desired) => phase \in {"running", "failed"}
        /\ Desired = "stopped" => /\ ~HasSession
                                 /\ \A p \in Procs : Live(p) => p \in orphans
        /\ Desired = "closed" => phase = "closed" /\ transport.state = "closed"

(* A stop that was applied leaves Idle published ("stop supersedes an       *)
(* in-flight start and publishes idle").                                    *)
StopPublishesIdle ==
    pc = "none" /\ revision \in Revisions /\ outcome[revision] = "applied"
        /\ Desired = "stopped" => phase = "idle"

(* On Windows the peer of the running session is the process of its lease.  *)
PeerIsLease ==
    VerifyPeerPid /\ phase = "running" /\ transport.state = "connected"
        /\ transport.gen = session.gen => transport.peer = session.proc

(* What a caller is told is true once the worker rests: an applied command  *)
(* is achieved, no Core is left behind a stop, and the Core that is running *)
(* is the one that was launched, not an orphan that dialled first           *)
(* (_completeCommands, peer_pid_mismatch).                                  *)
AnswersAreTrue == AppliedIsTrue /\ PeerIsLease

(* Every command settles: a newer intent, a failure, a crash or a close     *)
(* never leaves a caller waiting.                                           *)
EveryCommandSettles ==
    \A r \in Revisions : outcome[r] = "pending" ~> outcome[r] # "pending"

(* While running, the session's connection is up or its loss is about to be *)
(* handled ("an unexpected disconnect or transport failure while running is *)
(* converted to DesktopCoreFailure").                                       *)
RunningIsConnected ==
    phase = "running" =>
        \/ transport.state = "connected" /\ transport.gen = session.gen
        \/ events # <<>>

(* The worker found or made the Core running; a crash handled before it     *)
(* settles does not take that back.                                         *)
ReachedRunning == pc = "settling" /\ achieved \in Fulfils["running"]

(* The lifecycle keeps its promise to the callers: see LatestIntent. *)
Promised == INSTANCE LatestIntent
    WITH core <- IF phase = "running" \/ ReachedRunning THEN "up"
                 ELSE IF phase = "closed" THEN "closed" ELSE "down"

KeepsPromise == Promised!Promise

=============================================================================
