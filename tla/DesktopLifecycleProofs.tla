----------------------- MODULE DesktopLifecycleProofs -----------------------
(***************************************************************************)
(* Theorems about DesktopLifecycle for every number of intents and of      *)
(* launches, with and without the check of the peer's PID.                 *)
(***************************************************************************)
EXTENDS DesktopLifecycle, SequenceTheorems, TLAPS

-----------------------------------------------------------------------------
(* Type correctness. *)

(* The variables a straight-line stretch of the worker sets keep their types. *)
FlowTyped ==
    /\ phase \in Phases
    /\ pc \in Pcs
    /\ achieved \in Achievements
    /\ forced \in BOOLEAN
    /\ transport \in Transports
    /\ events \in Seq(Events)
    /\ process \in [Procs -> {"none", "alive", "linked", "cut", "dead"}]

LEMMA UnlinkedTyped ==
    TypeOK => Unlinked \in [Procs -> {"none", "alive", "linked", "cut", "dead"}]
  BY DEF TypeOK, Unlinked

LEMMA DropTransportTyped ==
    ASSUME TypeOK, DropTransport
    PROVE  /\ transport' \in Transports
           /\ process' \in [Procs -> {"none", "alive", "linked", "cut", "dead"}]
<1>1. transport \in Transports /\ NoProc \in 0..MaxLaunch
  BY BoundsAssumption DEF TypeOK, NoProc
<1>2. transport' = [transport EXCEPT !.state = "closed", !.peer = NoProc]
  BY DEF DropTransport
<1>3. transport' \in Transports
  BY <1>1, <1>2 DEF Transports
<1>4. QED
  BY <1>3, UnlinkedTyped DEF DropTransport

(* Appending an event keeps the queue a sequence of events. *)
LEMMA QueueTyped ==
    ASSUME events \in Seq(Events), NEW k \in {"disconnected", "failed"}, NEW g \in Nat
    PROVE  Append(events, [kind |-> k, gen |-> g]) \in Seq(Events)
<1>1. [kind |-> k, gen |-> g] \in Events
  BY DEF Events
<1>2. QED
  BY <1>1

LEMMA StartSessionTyped ==
    ASSUME TypeOK, NEW d \in Targets, StartSession(d)
    PROVE  FlowTyped'
<1>1. phase' \in Phases /\ achieved' \in Achievements /\ forced' \in BOOLEAN
  BY DEF StartSession, TypeOK, Phases
<1>2. CASE /\ transport.state \in {"failed", "closed", "connected"}
           /\ DropTransport /\ AnnounceReplacement /\ GoTo("replacingOnStart")
  <2>1. events' \in Seq(Events)
    BY <1>2, QueueTyped DEF AnnounceReplacement, TypeOK
  <2>2. pc' \in Pcs
    BY <1>2 DEF GoTo, Pcs
  <2>3. QED
    BY <1>1, <1>2, <2>1, <2>2, DropTransportTyped DEF FlowTyped
<1>3. CASE transport.state = "ready" /\ GoTo("resolving")
           /\ UNCHANGED <<transport, events, process>>
  BY <1>1, <1>3 DEF TypeOK, FlowTyped, GoTo, Pcs
<1>4. CASE transport.state \in {"idle", "starting"} /\ OpenTransport(d)
           /\ UNCHANGED <<events, process>>
  BY <1>1, <1>4 DEF OpenTransport, TypeOK, FlowTyped, GoTo, Pcs, MicroPcs, Transports
<1>5. QED
  BY <1>2, <1>3, <1>4 DEF StartSession

LEMMA ProceedTyped ==
    ASSUME TypeOK, NEW t \in Targets, NEW d \in Targets,
           NEW afterStop \in BOOLEAN, Proceed(t, d, afterStop)
    PROVE  FlowTyped'
<1>1. CASE StartSession(d)
  BY <1>1, StartSessionTyped
<1>2. CASE AbandonedStart(d)
  BY <1>2 DEF TypeOK, FlowTyped, AbandonedStart, Return, GoTo, Phases, Pcs,
              MicroPcs, Achievements
<1>3. CASE CloseTransport
  BY <1>3, DropTransportTyped DEF TypeOK, FlowTyped, CloseTransport, GoTo, Pcs
<1>4. QED
  BY <1>1, <1>2, <1>3 DEF Proceed

LEMMA DispatchTyped ==
    ASSUME TypeOK, NEW t \in Targets, NEW d \in Targets, Dispatch(t, d)
    PROVE  FlowTyped'
<1>1. CASE Proceed(t, d, FALSE)
  BY <1>1, ProceedTyped
<1>2. CASE Return("runningExisting")
           /\ UNCHANGED <<phase, forced, transport, events, process>>
  BY <1>2 DEF TypeOK, FlowTyped, Return, GoTo, Pcs, MicroPcs, Achievements
<1>3. CASE \E mayGiveUp \in BOOLEAN : StopSession(mayGiveUp)
  BY <1>3 DEF TypeOK, FlowTyped, StopSession, GoTo, Phases, Pcs, MicroPcs
<1>4. QED
  BY <1>1, <1>2, <1>3 DEF Dispatch

LEMMA LoopHeadTyped ==
    ASSUME TypeOK, NEW r \in 0..MaxRevision, NEW d \in Targets, LoopHead(r, d)
    PROVE  FlowTyped' /\ intent' \in 0..MaxRevision
<1>1. CASE GoTo("awaitRecovery")
           /\ UNCHANGED <<intent, phase, achieved, forced, transport, events, process>>
  BY <1>1 DEF TypeOK, FlowTyped, GoTo, Pcs, MicroPcs
<1>2. CASE Reconcile(r, d)
  <2>1. CASE GoTo("stopUnconfirmed")
             /\ UNCHANGED <<phase, achieved, forced, transport, events, process>>
    BY <1>2, <2>1 DEF TypeOK, FlowTyped, Reconcile, GoTo, Pcs, MicroPcs
  <2>2. CASE Dispatch(d, d)
    BY <1>2, <2>2, DispatchTyped DEF Reconcile
  <2>3. QED
    BY <1>2, <2>1, <2>2 DEF Reconcile
<1>3. QED
  BY <1>1, <1>2 DEF LoopHead

LEMMA DesiredTyped == TypeOK => \A r \in 0..MaxRevision : TargetOf(r) \in Targets
  BY DEF TypeOK, TargetOf, Targets

(* The ledger of commands keeps its types. *)
LEMMA LedgerTyped ==
    /\ TypeOK /\ CompleteCommands => outcome' \in [Revisions -> Outcomes]
    /\ \A upTo \in Nat : TypeOK /\ FailCommands(upTo) => outcome' \in [Revisions -> Outcomes]
<1>1. \A r \in Revisions : OutcomeOf(r) \in Outcomes
  BY DEF OutcomeOf, Outcomes
<1>2. "failed" \in Outcomes
  BY DEF Outcomes
<1>3. QED
  BY <1>1, <1>2 DEF TypeOK, CompleteCommands, FailCommands

(* Every variable but those of FlowTyped, the intent and the ledger. *)
RestTyped ==
    /\ session \in [proc : 0..MaxLaunch, gen : Nat]
    /\ disconnected \in BOOLEAN
    /\ unconfirmed \in 0..MaxLaunch
    /\ recovery \in 0..MaxLaunch
    /\ lease \in 0..MaxLaunch
    /\ waiter \in [status : {"none", "pending", "connected", "failed"},
                   gen : Nat, peer : 0..MaxLaunch]
    /\ released \in {"abandoning", "failing"}
    /\ launches \in 0..MaxLaunch
    /\ orphans \in SUBSET (0..MaxLaunch)

LedgerTypes ==
    /\ revision \in 0..MaxRevision
    /\ target \in [Revisions -> Targets]
    /\ outcome \in [Revisions -> Outcomes]

LEMMA TypesSplit ==
    /\ TypeOK <=> LedgerTypes /\ RestTyped /\ FlowTyped /\ intent \in 0..MaxRevision
    /\ TypeOK' <=> LedgerTypes' /\ RestTyped' /\ FlowTyped' /\ intent' \in 0..MaxRevision
  BY DEF TypeOK, LedgerTypes, RestTyped, FlowTyped

LEMMA Unchanged ==
    /\ TypeOK /\ UNCHANGED ledgerVars => LedgerTypes'
    /\ TypeOK /\ UNCHANGED <<ownerVars, startVars, launches>> => RestTyped'
    /\ TypeOK /\ UNCHANGED flowVars => FlowTyped'
  BY DEF TypeOK, LedgerTypes, RestTyped, FlowTyped, ledgerVars, ownerVars, startVars, flowVars

LEMMA NoProcTyped ==
    /\ NoProc \in 0..MaxLaunch
    /\ NoSession \in [proc : 0..MaxLaunch, gen : Nat]
    /\ NoWaiter \in [status : {"none", "pending", "connected", "failed"},
                    gen : Nat, peer : 0..MaxLaunch]
    /\ FreshTransport \in Transports
  BY BoundsAssumption DEF NoProc, NoSession, NoWaiter, FreshTransport, Transports

LEMMA InitTyped == Init => TypeOK
<1> SUFFICES ASSUME Init PROVE TypeOK
  OBVIOUS
<1>1. LedgerTypes
  BY BoundsAssumption DEF Init, LedgerTypes, Targets, Outcomes
<1>2. RestTyped
  <2>1. launches \in 0..MaxLaunch /\ orphans \in SUBSET (0..MaxLaunch)
    BY BoundsAssumption DEF Init
  <2>2. released \in {"abandoning", "failing"} /\ disconnected \in BOOLEAN
    BY DEF Init
  <2>3. /\ session = NoSession /\ waiter = NoWaiter
        /\ unconfirmed = NoProc /\ recovery = NoProc /\ lease = NoProc
    BY DEF Init
  <2>4. QED
    BY <2>1, <2>2, <2>3, NoProcTyped DEF RestTyped
<1>3. FlowTyped
  <2>1. events \in Seq(Events)
    BY DEF Init
  <2>2. process \in [Procs -> {"none", "alive", "linked", "cut", "dead"}]
    BY DEF Init
  <2>3. transport \in Transports
    BY NoProcTyped DEF Init
  <2>4. QED
    BY <2>1, <2>2, <2>3 DEF Init, FlowTyped, Phases, Pcs, Achievements
<1>4. intent \in 0..MaxRevision
  BY BoundsAssumption DEF Init
<1>5. QED
  BY <1>1, <1>2, <1>3, <1>4, TypesSplit

LEMMA SubmitTyped ==
    ASSUME TypeOK, NEW t \in Targets, Submit(t)
    PROVE  TypeOK'
<1>1. revision + 1 \in Revisions /\ revision + 1 \in 0..MaxRevision
  BY BoundsAssumption DEF TypeOK, Submit, Accepting, Revisions
<1>2. LedgerTypes'
  BY <1>1 DEF TypeOK, LedgerTypes, Submit, Outcomes
<1>3. FlowTyped' /\ intent' \in 0..MaxRevision
  BY <1>1, LoopHeadTyped, Unchanged DEF Submit, TypeOK
<1>4. QED
  BY <1>2, <1>3, Unchanged, TypesSplit DEF Submit

(* The worker's steps that settle commands, or only read the newest intent. *)
LEMMA LoopTyped ==
    ASSUME TypeOK,
           ResumeAfterRecovery \/ ResumeDispatch \/ ResumeAfterStop \/ ResumeAbandonedStart
             \/ Settle \/ Fail \/ WorkerDone
    PROVE  TypeOK'
<1>1. /\ revision \in 0..MaxRevision /\ intent \in 0..MaxRevision
      /\ Desired \in Targets /\ TargetOf(intent) \in Targets
  BY DesiredTyped DEF TypeOK, Desired
<1>2. CASE ResumeAfterRecovery
  <2>1. FlowTyped' /\ intent' \in 0..MaxRevision
    <3>1. LoopHead(revision, Desired)
      BY <1>2 DEF ResumeAfterRecovery, LoopHead
    <3>2. QED
      BY <1>1, <3>1, LoopHeadTyped
  <2>2. QED
    BY <1>2, <2>1, Unchanged, TypesSplit DEF ResumeAfterRecovery
<1>3. CASE ResumeDispatch
  BY <1>1, <1>3, DispatchTyped, Unchanged, TypesSplit DEF ResumeDispatch
<1>4. CASE ResumeAfterStop
  BY <1>1, <1>4, ProceedTyped, Unchanged, TypesSplit DEF ResumeAfterStop
<1>5. CASE ResumeAbandonedStart
  <2>1. FlowTyped'
    BY <1>1, <1>5 DEF ResumeAbandonedStart, AbandonedStart, Return, GoTo, TypeOK,
                      FlowTyped, Phases, Pcs, MicroPcs, Achievements
  <2>2. QED
    BY <1>5, <2>1, Unchanged, TypesSplit DEF ResumeAbandonedStart
<1>6. CASE Settle
  <2>1. FlowTyped' /\ intent' \in 0..MaxRevision
    <3>1. CASE GoTo("exiting")
               /\ UNCHANGED <<intent, phase, achieved, forced, transport, events, process>>
      BY <3>1 DEF GoTo, TypeOK, FlowTyped, Pcs, MicroPcs
    <3>2. CASE LoopHead(revision, Desired)
      BY <1>1, <3>2, LoopHeadTyped
    <3>3. QED
      BY <1>6, <3>1, <3>2 DEF Settle
  <2>2. LedgerTypes'
    BY <1>6, LedgerTyped DEF Settle, TypeOK, LedgerTypes
  <2>3. QED
    BY <1>6, <2>1, <2>2, Unchanged, TypesSplit DEF Settle
<1>7. CASE Fail
  <2>1. FlowTyped' /\ intent' \in 0..MaxRevision
    <3>1. CASE phase' = "failed" /\ GoTo("exiting")
               /\ UNCHANGED <<intent, achieved, forced, transport, events, process>>
      BY <3>1 DEF GoTo, TypeOK, FlowTyped, Phases, Pcs, MicroPcs
    <3>2. CASE LoopHead(revision, Desired)
      BY <1>1, <3>2, LoopHeadTyped
    <3>3. QED
      BY <1>7, <3>1, <3>2 DEF Fail
  <2>2. LedgerTypes'
    BY <1>1, <1>7, LedgerTyped DEF Fail, TypeOK, LedgerTypes
  <2>3. QED
    BY <1>7, <2>1, <2>2, Unchanged, TypesSplit DEF Fail
<1>8. CASE WorkerDone
  <2>1. FlowTyped' /\ intent' \in 0..MaxRevision
    <3>1. CASE GoTo("none")
               /\ UNCHANGED <<intent, phase, achieved, forced, transport, events, process>>
      BY <3>1 DEF GoTo, TypeOK, FlowTyped, Pcs, MicroPcs
    <3>2. CASE LoopHead(revision, Desired)
      BY <1>1, <3>2, LoopHeadTyped
    <3>3. QED
      BY <1>8, <3>1, <3>2 DEF WorkerDone
  <2>2. QED
    BY <1>8, <2>1, Unchanged, TypesSplit DEF WorkerDone
<1>9. QED
  BY <1>2, <1>3, <1>4, <1>5, <1>6, <1>7, <1>8

LEMMA StoppingTyped ==
    ASSUME TypeOK, Stopping
    PROVE  TypeOK'
<1> USE DEF Pcs, MicroPcs, GoTo
<1>1. CASE UnconfirmedStopped \/ UnconfirmedStopFails
  <2>1. FlowTyped' /\ LedgerTypes' /\ intent' \in 0..MaxRevision
    BY <1>1 DEF UnconfirmedStopped, UnconfirmedStopFails, TypeOK, FlowTyped,
                LedgerTypes, ledgerVars
  <2>2. RestTyped'
    BY <1>1, NoProcTyped DEF UnconfirmedStopped, UnconfirmedStopFails, TypeOK,
                RestTyped, startVars
  <2>3. QED
    BY <1>1, <2>1, <2>2, TypesSplit
<1>2. CASE SessionExitConfirmed
  <2>1. FlowTyped' /\ intent' \in 0..MaxRevision
    BY <1>2 DEF SessionExitConfirmed, TypeOK, FlowTyped
  <2>2. QED
    BY <1>2, <2>1, Unchanged, TypesSplit DEF SessionExitConfirmed
<1>3. CASE SessionExitUnconfirmed
  <2>1. FlowTyped' /\ LedgerTypes' /\ intent' \in 0..MaxRevision
    BY <1>3 DEF SessionExitUnconfirmed, TypeOK, FlowTyped, LedgerTypes, ledgerVars
  <2>2. RestTyped'
    BY <1>3, NoProcTyped DEF SessionExitUnconfirmed, ClearSession, TypeOK,
                RestTyped, startVars
  <2>3. QED
    BY <2>1, <2>2, TypesSplit
<1>4. CASE GraceEnds
  <2>1. CASE GoTo("stopped") /\ UNCHANGED <<transport, events, process>>
    <3>1. FlowTyped'
      BY <1>4, <2>1 DEF GraceEnds, TypeOK, FlowTyped
    <3>2. QED
      BY <1>4, <3>1, NoProcTyped, TypesSplit DEF GraceEnds, ClearSession,
         TypeOK, RestTyped, LedgerTypes, ledgerVars, startVars
  <2>2. CASE DropTransport /\ AnnounceReplacement /\ GoTo("replacingOnStop")
    <3>1. events' \in Seq(Events)
      BY <2>2, QueueTyped DEF AnnounceReplacement, TypeOK
    <3>2. FlowTyped'
      BY <1>4, <2>2, <3>1, DropTransportTyped DEF GraceEnds, TypeOK, FlowTyped
    <3>3. QED
      BY <1>4, <3>2, NoProcTyped, TypesSplit DEF GraceEnds, ClearSession,
         TypeOK, RestTyped, LedgerTypes, ledgerVars, startVars
  <2>3. QED
    BY <1>4, <2>1, <2>2 DEF GraceEnds
<1>5. ASSUME NEW throws \in BOOLEAN, StopReplaced(throws)
      PROVE  TypeOK'
  <2>1. FlowTyped' /\ intent' \in 0..MaxRevision
    BY <1>5, NoProcTyped DEF StopReplaced, TypeOK, FlowTyped
  <2>2. QED
    BY <1>5, <2>1, Unchanged, TypesSplit DEF StopReplaced
<1>6. QED
  BY <1>1, <1>2, <1>3, <1>4, <1>5 DEF Stopping

LEMMA StartingTyped ==
    ASSUME TypeOK, Starting
    PROVE  TypeOK'
<1> USE DEF Pcs, MicroPcs, GoTo
<1>1. ASSUME NEW throws \in BOOLEAN, StartReplaced(throws)
      PROVE  TypeOK'
  <2>1. [FreshTransport EXCEPT !.state = "starting"] \in Transports
    BY NoProcTyped DEF Transports
  <2>2. FlowTyped' /\ intent' \in 0..MaxRevision
    BY <1>1, <2>1, NoProcTyped DEF StartReplaced, TypeOK, FlowTyped
  <2>3. QED
    BY <1>1, <2>2, Unchanged, TypesSplit DEF StartReplaced
<1>2. CASE TransportOpened \/ OpenFails \/ OpenNoLongerWanted \/ ResolveFails
  <2>1. FlowTyped' /\ intent' \in 0..MaxRevision
    BY <1>2 DEF TransportOpened, OpenFails, OpenNoLongerWanted, ResolveFails,
                TypeOK, FlowTyped
  <2>2. QED
    BY <1>2, <2>1, Unchanged, TypesSplit DEF TransportOpened, OpenFails,
       OpenNoLongerWanted, ResolveFails
<1>3. CASE Resolved
  <2>1. FlowTyped' /\ LedgerTypes' /\ intent' \in 0..MaxRevision
    BY <1>3 DEF Resolved, TypeOK, FlowTyped, LedgerTypes, ledgerVars
  <2>2. [NoWaiter EXCEPT !.status = "pending"]
          \in [status : {"none", "pending", "connected", "failed"},
              gen : Nat, peer : 0..MaxLaunch]
    BY NoProcTyped
  <2>3. RestTyped'
    <3>1. launches' \in 0..MaxLaunch
      BY <1>3, BoundsAssumption DEF Resolved, TypeOK
    <3>2. waiter' = waiter \/ waiter' = [NoWaiter EXCEPT !.status = "pending"]
      BY <1>3 DEF Resolved
    <3>3. UNCHANGED <<session, disconnected, unconfirmed, recovery, orphans, lease, released>>
      BY <1>3 DEF Resolved, ownerVars
    <3>4. QED
      BY <2>2, <3>1, <3>2, <3>3 DEF TypeOK, RestTyped
  <2>4. QED
    BY <2>1, <2>3, TypesSplit
<1>4. CASE Launched \/ LaunchFails \/ ConnectionFails \/ ConnectionNoLongerWanted
             \/ LeaseReleased \/ LeaseNotReleased
  <2>1. FlowTyped' /\ LedgerTypes' /\ intent' \in 0..MaxRevision
    BY <1>4 DEF Launched, LaunchFails, ConnectionFails, ConnectionNoLongerWanted,
       LeaseReleased, LeaseNotReleased, TypeOK, FlowTyped, LedgerTypes, ledgerVars
  <2>2. RestTyped'
    BY <1>4, NoProcTyped DEF Launched, LaunchFails, ConnectionFails,
       ConnectionNoLongerWanted, LeaseReleased, LeaseNotReleased, TypeOK, RestTyped,
       ownerVars
  <2>3. QED
    BY <2>1, <2>2, TypesSplit
<1>5. CASE ConnectionAccepted
  <2>1. FlowTyped' /\ LedgerTypes' /\ intent' \in 0..MaxRevision
    BY <1>5 DEF ConnectionAccepted, Return, TypeOK, FlowTyped, LedgerTypes,
       ledgerVars, Phases, Achievements
  <2>2. [proc |-> lease, gen |-> waiter.gen] \in [proc : 0..MaxLaunch, gen : Nat]
    BY DEF TypeOK
  <2>3. RestTyped'
    BY <1>5, <2>2, NoProcTyped DEF ConnectionAccepted, TypeOK, RestTyped
  <2>4. QED
    BY <2>1, <2>3, TypesSplit
<1>6. QED
  BY <1>1, <1>2, <1>3, <1>4, <1>5 DEF Starting

LEMMA ClosingTyped ==
    ASSUME TypeOK, TransportClosed \/ CloseFails
    PROVE  TypeOK'
<1>1. FlowTyped' /\ intent' \in 0..MaxRevision
  BY DEF TransportClosed, CloseFails, Return, GoTo, TypeOK, FlowTyped, Phases, Pcs,
         MicroPcs, Achievements
<1>2. QED
  BY <1>1, Unchanged, TypesSplit DEF TransportClosed, CloseFails

LEMMA EventTyped ==
    ASSUME TypeOK, HandleTransportEvent
    PROVE  TypeOK'
<1>1. events' \in Seq(Events)
  BY HeadTailProperties DEF HandleTransportEvent, TypeOK
<1>2. phase' \in Phases
  BY DEF HandleTransportEvent, TypeOK, Phases
<1>3. FlowTyped' /\ intent' \in 0..MaxRevision
  BY <1>1, <1>2 DEF HandleTransportEvent, TypeOK, FlowTyped
<1>4. RestTyped'
  BY NoProcTyped DEF HandleTransportEvent, ClearSession, TypeOK, RestTyped, startVars
<1>5. QED
  BY <1>3, <1>4, Unchanged, TypesSplit DEF HandleTransportEvent

LEMMA TimersTyped ==
    ASSUME TypeOK, RecoveryEnds \/ WaiterTimesOut
    PROVE  TypeOK'
<1>1. FlowTyped' /\ LedgerTypes' /\ intent' \in 0..MaxRevision
  BY Unchanged DEF RecoveryEnds, WaiterTimesOut, TypeOK
<1>2. RestTyped'
  BY NoProcTyped DEF RecoveryEnds, RecoveryOutcome, WaiterTimesOut, TypeOK, RestTyped,
     startVars, ownerVars
<1>3. QED
  BY <1>1, <1>2, TypesSplit

LEMMA EnvironmentTyped ==
    ASSUME TypeOK, Environment
    PROVE  TypeOK'
<1>1. CASE TransportBinds
  <2>1. transport' \in Transports
    BY <1>1 DEF TransportBinds, TypeOK, Transports
  <2>2. FlowTyped' /\ intent' \in 0..MaxRevision
    BY <1>1, <2>1 DEF TransportBinds, TypeOK, FlowTyped
  <2>3. QED
    BY <1>1, <2>2, Unchanged, TypesSplit DEF TransportBinds
<1>2. CASE TransportDisconnects \/ TransportFails
  <2>1. transport' \in Transports
    BY <1>2, NoProcTyped DEF TransportDisconnects, TransportFails, TypeOK, Transports
  <2>2. events' \in Seq(Events)
    <3>1. transport.gen \in Nat
      BY DEF TypeOK, Transports
    <3>2. CASE TransportDisconnects
      BY <3>1, <3>2, QueueTyped DEF TransportDisconnects, Emit, TypeOK
    <3>3. CASE TransportFails
      <4>1. events' = Append(events, [kind |-> "failed", gen |-> 0])
        BY <3>3 DEF TransportFails, Emit
      <4>2. QED
        BY <4>1, QueueTyped DEF TypeOK
    <3>4. QED
      BY <1>2, <3>2, <3>3
  <2>3. FlowTyped' /\ LedgerTypes' /\ intent' \in 0..MaxRevision
    BY <1>2, <2>1, <2>2, UnlinkedTyped DEF TransportDisconnects, TransportFails,
       TypeOK, FlowTyped, LedgerTypes, ledgerVars
  <2>4. RestTyped'
    BY <1>2, NoProcTyped DEF TransportDisconnects, TransportFails, Notify,
       TypeOK, RestTyped, ownerVars, startVars
  <2>5. QED
    BY <2>3, <2>4, TypesSplit
<1>3. ASSUME NEW p \in Procs, TransportConnects(p)
      PROVE  TypeOK'
  <2>1. p \in 0..MaxLaunch /\ transport.gen + 1 \in Nat
    BY BoundsAssumption DEF Procs, TypeOK, Transports
  <2>2. transport' \in Transports
    BY <1>3, <2>1 DEF TransportConnects, Transports
  <2>3. FlowTyped' /\ LedgerTypes' /\ intent' \in 0..MaxRevision
    BY <1>3, <2>2 DEF TransportConnects, TypeOK, FlowTyped, LedgerTypes, ledgerVars
  <2>4. waiter' \in [status : {"none", "pending", "connected", "failed"},
                     gen : Nat, peer : 0..MaxLaunch]
    BY <1>3, <2>1 DEF TransportConnects, Notify, TypeOK
  <2>5. QED
    BY <1>3, <2>3, <2>4, TypesSplit DEF TransportConnects, TypeOK, RestTyped, ownerVars
<1>4. ASSUME NEW p \in Procs, Die(p)
      PROVE  TypeOK'
  <2>1. FlowTyped' /\ intent' \in 0..MaxRevision
    BY <1>4 DEF Die, TypeOK, FlowTyped
  <2>2. QED
    BY <1>4, <2>1, Unchanged, TypesSplit DEF Die
<1>5. CASE Spawn
  <2>1. FlowTyped' /\ intent' \in 0..MaxRevision
    BY <1>5 DEF Spawn, TypeOK, FlowTyped
  <2>2. QED
    BY <1>5, <2>1, Unchanged, TypesSplit DEF Spawn
<1>6. QED
  BY <1>1, <1>2, <1>3, <1>4, <1>5 DEF Environment

LEMMA NextTyped == TypeOK /\ [Next]_vars => TypeOK'
<1> SUFFICES ASSUME TypeOK, [Next]_vars PROVE TypeOK'
  OBVIOUS
<1>1. CASE UNCHANGED vars
  BY <1>1 DEF vars, TypeOK
<1>2. CASE Callers
  BY <1>2, SubmitTyped DEF Callers
<1>3. CASE Worker
  BY <1>3, LoopTyped, ClosingTyped, StoppingTyped, StartingTyped DEF Worker
<1>4. CASE HandleTransportEvent
  BY <1>4, EventTyped
<1>5. CASE RecoveryEnds \/ WaiterTimesOut
  BY <1>5, TimersTyped
<1>6. CASE Environment
  BY <1>6, EnvironmentTyped
<1>7. QED
  BY <1>1, <1>2, <1>3, <1>4, <1>5, <1>6 DEF Next

(* The worker's pc, the published phase, the ledger and the queue of events *)
(* hold what the code's types allow, for any number of intents and launches. *)
THEOREM TypeCorrect == Spec => []TypeOK
  BY InitTyped, NextTyped, PTL DEF Spec

-----------------------------------------------------------------------------
(* Who owns the Core.  At every point of the worker at most one of the      *)
(* session, the start in progress, the crash cleanup and the unconfirmed    *)
(* lease holds a process.                                                   *)

(* Where the worker holds nothing but what the start in progress launched. *)
BarePcs == {"dispatching", "replacingOnStop", "stopped", "replacingOnStart",
            "opening", "resolving", "launching", "connecting", "releasing",
            "abandoning", "closing"}

SessionAlone ==
    /\ pc \in {"stopping", "grace"} => HasSession
    /\ pc = "grace" => ~Live(session.proc)
    /\ phase = "running" => HasSession /\ pc \in {"none", "settling", "exiting"}
    /\ phase \in {"idle", "starting", "closed"} => ~HasSession

StartAlone ==
    /\ pc \in BarePcs => ~HasSession /\ unconfirmed = NoProc /\ recovery = NoProc
    /\ pc = "launching" => launches # NoProc
    /\ pc = "connecting" => lease # NoProc
    /\ lease # NoProc => pc \in {"connecting", "releasing"}

RecoveryAlone ==
    recovery # NoProc =>
        /\ ~HasSession
        /\ unconfirmed = NoProc
        /\ pc \in {"none", "awaitRecovery", "settling", "exiting"}

UnconfirmedAlone ==
    /\ pc = "stopUnconfirmed" => unconfirmed # NoProc
    /\ unconfirmed # NoProc =>
        /\ ~HasSession
        /\ pc \in {"none", "stopUnconfirmed", "failing", "exiting", "awaitRecovery",
                   "settling"}

Ownership == SessionAlone /\ StartAlone /\ RecoveryAlone /\ UnconfirmedAlone

(* The inductive invariant. *)
Inv == TypeOK /\ Ownership /\ NoCoreForgotten

LEMMA UnlinkedLives ==
    ASSUME TypeOK, process' = process \/ process' = Unlinked
    PROVE  \A p \in Procs : Live(p)' <=> Live(p)
  BY DEF TypeOK, Unlinked, Live

(* Nothing is forgotten while the live processes and their holders stay. *)
LEMMA NothingForgotten ==
    ASSUME NoCoreForgotten, \A p \in Procs : Live(p)' => Live(p), Held \subseteq Held',
           orphans \subseteq orphans'
    PROVE  NoCoreForgotten'
  BY DEF NoCoreForgotten

(* The state of a worker about to start, close or find nothing to do. *)
Bare ==
    /\ ~HasSession /\ unconfirmed = NoProc /\ recovery = NoProc /\ lease = NoProc
    /\ pc # "launching"

LEMMA ProceedOwns ==
    ASSUME Inv, Bare, NEW t, NEW d, NEW afterStop, Proceed(t, d, afterStop),
           UNCHANGED <<ownerVars, startVars, launches>>
    PROVE  Ownership' /\ NoCoreForgotten'
<1> USE DEF Bare, ownerVars, startVars, GoTo
<1>1. phase # "running"
  BY DEF Inv, Ownership, SessionAlone
<1>2. /\ pc' \in {"replacingOnStart", "resolving", "opening", "abandoning", "settling",
                  "closing"}
      /\ phase' # "running"
      /\ process' = process \/ process' = Unlinked
  <2>1. CASE StartSession(d)
    BY <2>1 DEF StartSession, DropTransport, OpenTransport
  <2>2. CASE AbandonedStart(d)
    BY <1>1, <2>2 DEF AbandonedStart, Return
  <2>3. CASE CloseTransport
    BY <1>1, <2>3 DEF CloseTransport, DropTransport
  <2>4. QED
    BY <2>1, <2>2, <2>3 DEF Proceed
<1>3. ~HasSession'
  BY DEF HasSession
<1>4. Ownership'
  BY <1>2, <1>3 DEF Ownership, SessionAlone, StartAlone, RecoveryAlone,
     UnconfirmedAlone, BarePcs, HasSession
<1>5. Held \subseteq Held'
  BY DEF Held
<1>6. QED
  BY <1>2, <1>4, <1>5, UnlinkedLives, NothingForgotten DEF Inv

LEMMA DispatchOwns ==
    ASSUME Inv, NEW t, NEW d, Dispatch(t, d),
           unconfirmed = NoProc, recovery = NoProc, lease = NoProc, pc # "launching",
           UNCHANGED <<ownerVars, startVars, launches>>
    PROVE  Ownership' /\ NoCoreForgotten'
<1> USE DEF ownerVars, startVars, GoTo
<1>1. CASE ~HasSession /\ Proceed(t, d, FALSE)
  BY <1>1, ProceedOwns DEF Bare
<1>2. ASSUME HasSession,
             \/ /\ phase = "running" /\ Return("runningExisting")
                /\ UNCHANGED <<phase, forced, transport, events, process>>
             \/ \E mayGiveUp \in BOOLEAN : StopSession(mayGiveUp)
      PROVE  Ownership' /\ NoCoreForgotten'
  <2>1. /\ pc' \in {"settling", "stopping"}
        /\ pc' = "stopping" => phase' = "stopping"
        /\ pc' = "settling" => phase' = "running"
        /\ process' = process
    BY <1>2 DEF Return, StopSession
  <2>2. HasSession'
    BY <1>2 DEF HasSession
  <2>3. Ownership'
    BY <2>1, <2>2 DEF Ownership, SessionAlone, StartAlone, RecoveryAlone,
       UnconfirmedAlone, BarePcs
  <2>4. Held \subseteq Held'
    BY DEF Held
  <2>5. QED
    BY <2>1, <2>3, <2>4, UnlinkedLives, NothingForgotten DEF Inv
<1>3. QED
  BY <1>1, <1>2 DEF Dispatch

(* The pcs at which the loop of the worker is entered. *)
HeadPcs == {"none", "awaitRecovery", "settling", "failing", "exiting"}

LEMMA ReconcileOwns ==
    ASSUME Inv, NEW r, NEW d, Reconcile(r, d), pc \in HeadPcs, recovery = NoProc,
           UNCHANGED <<ownerVars, startVars, launches>>
    PROVE  Ownership' /\ NoCoreForgotten'
<1>1. lease = NoProc /\ pc # "launching"
  BY DEF Inv, Ownership, StartAlone, HeadPcs
<1>2. CASE unconfirmed # NoProc
  <2>1. /\ pc' = "stopUnconfirmed"
        /\ UNCHANGED <<phase, process>>
    BY <1>2 DEF Reconcile, GoTo
  <2>2. ~HasSession /\ phase # "running"
    BY <1>2 DEF Inv, Ownership, UnconfirmedAlone, SessionAlone
  <2>3. Ownership'
    BY <1>1, <1>2, <2>1, <2>2 DEF Ownership, SessionAlone, StartAlone, RecoveryAlone,
       UnconfirmedAlone, BarePcs, HasSession, ownerVars, startVars
  <2>4. Held \subseteq Held'
    BY <1>1 DEF Held, ownerVars, startVars
  <2>5. QED
    BY <2>1, <2>3, <2>4, UnlinkedLives, NothingForgotten DEF Inv, ownerVars
<1>3. CASE unconfirmed = NoProc
  BY <1>1, <1>3, DispatchOwns DEF Reconcile
<1>4. QED
  BY <1>2, <1>3

LEMMA LoopHeadOwns ==
    ASSUME Inv, NEW r, NEW d, LoopHead(r, d), pc \in HeadPcs \ {"awaitRecovery"},
           UNCHANGED <<ownerVars, startVars, launches>>
    PROVE  Ownership' /\ NoCoreForgotten'
<1>1. CASE recovery # NoProc
  <2>1. pc' = "awaitRecovery" /\ UNCHANGED <<phase, process>>
    BY <1>1 DEF LoopHead, GoTo
  <2>2. /\ ~HasSession /\ phase # "running" /\ lease = NoProc /\ unconfirmed = NoProc
        /\ pc # "launching"
    BY <1>1 DEF Inv, Ownership, RecoveryAlone, SessionAlone, StartAlone, HeadPcs
  <2>3. Ownership'
    BY <1>1, <2>1, <2>2 DEF Ownership, SessionAlone, StartAlone, RecoveryAlone,
       UnconfirmedAlone, BarePcs, HasSession, ownerVars, startVars
  <2>4. Held \subseteq Held'
    BY <2>2 DEF Held, ownerVars, startVars
  <2>5. QED
    BY <2>1, <2>3, <2>4, UnlinkedLives, NothingForgotten DEF Inv, ownerVars
<1>2. CASE recovery = NoProc
  BY <1>2, ReconcileOwns DEF LoopHead
<1>3. QED
  BY <1>1, <1>2

LEMMA InitOwns == Init => Ownership /\ NoCoreForgotten
<1> SUFFICES ASSUME Init PROVE Ownership /\ NoCoreForgotten
  OBVIOUS
<1>1. ~HasSession
  BY DEF Init, HasSession, NoSession
<1>2. Ownership
  BY <1>1 DEF Init, Ownership, SessionAlone, StartAlone, RecoveryAlone,
     UnconfirmedAlone, BarePcs
<1>3. NoCoreForgotten
  BY DEF Init, NoCoreForgotten, Live
<1>4. QED
  BY <1>2, <1>3

LEMMA LoopOwns ==
    ASSUME Inv,
           \/ \E t \in Targets : Submit(t)
           \/ ResumeAfterRecovery \/ ResumeDispatch \/ ResumeAfterStop
           \/ Settle \/ Fail \/ WorkerDone
    PROVE  Ownership' /\ NoCoreForgotten'
<1>1. ASSUME NEW t \in Targets, Submit(t)
      PROVE  Ownership' /\ NoCoreForgotten'
  <2>1. CASE pc = "none" /\ LoopHead(revision + 1, t)
    BY <1>1, <2>1, LoopHeadOwns DEF Submit, HeadPcs
  <2>2. CASE UNCHANGED <<intent, flowVars>>
    <3>1. Held' = Held /\ process' = process /\ orphans' = orphans
      BY <1>1, <2>2 DEF Submit, Held, ownerVars, startVars, flowVars
    <3>2. Ownership'
      BY <1>1, <2>2, <3>1 DEF Inv, Submit, Ownership, SessionAlone, StartAlone,
         RecoveryAlone, UnconfirmedAlone, HasSession, Live, ownerVars, startVars, flowVars
    <3>3. QED
      BY <3>1, <3>2, UnlinkedLives, NothingForgotten DEF Inv
  <2>3. QED
    BY <1>1, <2>1, <2>2 DEF Submit
<1>2. CASE ResumeAfterRecovery
  BY <1>2, ReconcileOwns DEF ResumeAfterRecovery, HeadPcs
<1>3. CASE ResumeDispatch
  <2>1. /\ unconfirmed = NoProc /\ recovery = NoProc /\ lease = NoProc
        /\ pc # "launching"
    BY <1>3 DEF ResumeDispatch, Inv, Ownership, StartAlone, BarePcs
  <2>2. QED
    BY <1>3, <2>1, DispatchOwns DEF ResumeDispatch
<1>4. CASE ResumeAfterStop
  <2>1. Bare
    BY <1>4 DEF ResumeAfterStop, Inv, Ownership, StartAlone, BarePcs, Bare
  <2>2. QED
    BY <1>4, <2>1, ProceedOwns DEF ResumeAfterStop
<1>5. CASE (Settle \/ Fail \/ WorkerDone) /\ LoopHead(revision, Desired)
  BY <1>5, LoopHeadOwns DEF Settle, Fail, WorkerDone, HeadPcs
<1>6. CASE (Settle \/ Fail \/ WorkerDone) /\ ~LoopHead(revision, Desired)
  <2>1. /\ pc \in {"settling", "failing", "exiting"}
        /\ \/ phase' = phase /\ pc \in {"settling", "exiting"}
           \/ phase' = "failed"
        /\ pc' \in {"exiting", "none"}
        /\ process' = process
        /\ UNCHANGED <<ownerVars, startVars, launches>>
    BY <1>6 DEF Settle, Fail, WorkerDone, GoTo
  <2>2. Ownership'
    BY <2>1 DEF Inv, Ownership, SessionAlone, StartAlone, RecoveryAlone,
       UnconfirmedAlone, BarePcs, HasSession, ownerVars, startVars
  <2>3. Held \subseteq Held'
    BY <2>1 DEF Held, ownerVars, startVars
  <2>4. QED
    BY <2>1, <2>2, <2>3, UnlinkedLives, NothingForgotten DEF Inv, ownerVars
<1>7. QED
  BY <1>1, <1>2, <1>3, <1>4, <1>5, <1>6

LEMMA StoppingOwns ==
    ASSUME Inv, Stopping
    PROVE  Ownership' /\ NoCoreForgotten'
<1> USE DEF GoTo
<1>1. CASE UnconfirmedStopped \/ UnconfirmedStopFails
  <2>1. /\ pc = "stopUnconfirmed" /\ ~HasSession /\ recovery = NoProc /\ lease = NoProc
        /\ phase # "running"
    BY <1>1 DEF UnconfirmedStopped, UnconfirmedStopFails, Inv, Ownership,
       UnconfirmedAlone, RecoveryAlone, StartAlone, SessionAlone
  <2>2. /\ \/ pc' = "dispatching" /\ unconfirmed' = NoProc
           \/ pc' = "failing" /\ unconfirmed' = unconfirmed
        /\ UNCHANGED <<session, recovery, lease, phase, process>>
    BY <1>1 DEF UnconfirmedStopped, UnconfirmedStopFails, startVars
  <2>3. Ownership'
    BY <2>1, <2>2 DEF Ownership, SessionAlone, StartAlone, RecoveryAlone,
       UnconfirmedAlone, BarePcs, HasSession
  <2>4. \A p \in Procs : Live(p) => p \in Held' \cup orphans'
    BY <1>1, <2>1 DEF UnconfirmedStopped, UnconfirmedStopFails, startVars,
       Inv, NoCoreForgotten, Held, HasSession
  <2>5. QED
    BY <2>2, <2>3, <2>4 DEF NoCoreForgotten, Live
<1>2. CASE SessionExitConfirmed
  <2>1. Ownership'
    BY <1>2 DEF SessionExitConfirmed, Inv, Ownership, SessionAlone, StartAlone,
       RecoveryAlone, UnconfirmedAlone, BarePcs, HasSession, Live, ownerVars, startVars
  <2>2. Held \subseteq Held'
    BY <1>2 DEF SessionExitConfirmed, Held, ownerVars, startVars
  <2>3. QED
    BY <1>2, <2>1, <2>2, UnlinkedLives, NothingForgotten
       DEF Inv, SessionExitConfirmed, ownerVars
<1>3. CASE SessionExitUnconfirmed
  <2>1. /\ HasSession /\ recovery = NoProc /\ lease = NoProc /\ unconfirmed = NoProc
        /\ phase \notin {"running", "idle", "starting", "closed"}
    BY <1>3 DEF SessionExitUnconfirmed, Inv, Ownership, UnconfirmedAlone,
       RecoveryAlone, StartAlone, SessionAlone
  <2>2. /\ \/ pc' = "stopped" /\ session' = NoSession /\ orphans' = orphans \cup {session.proc}
           \/ pc' = "failing" /\ session' = session /\ orphans' = orphans
        /\ UNCHANGED <<recovery, lease, unconfirmed, phase, process, launches>>
        /\ pc # "launching"
    BY <1>3 DEF SessionExitUnconfirmed, ClearSession, startVars
  <2>3. Ownership'
    BY <2>1, <2>2 DEF Ownership, SessionAlone, StartAlone, RecoveryAlone,
       UnconfirmedAlone, BarePcs, HasSession, NoSession
  <2>4. \A p \in Procs : Live(p) => p \in Held' \cup orphans'
    BY <2>1, <2>2 DEF Inv, NoCoreForgotten, Held
  <2>5. QED
    BY <2>2, <2>3, <2>4 DEF NoCoreForgotten, Live
<1>4. CASE GraceEnds
  <2>1. /\ HasSession /\ recovery = NoProc /\ lease = NoProc /\ unconfirmed = NoProc
        /\ ~Live(session.proc) /\ phase # "running"
    BY <1>4 DEF GraceEnds, Inv, Ownership, UnconfirmedAlone,
       RecoveryAlone, StartAlone, SessionAlone
  <2>2. /\ pc' \in {"stopped", "replacingOnStop"} /\ session' = NoSession
        /\ process' = process \/ process' = Unlinked
        /\ UNCHANGED <<recovery, lease, unconfirmed, phase, launches, orphans>>
        /\ pc # "launching"
    BY <1>4 DEF GraceEnds, ClearSession, DropTransport, startVars
  <2>3. Ownership'
    BY <2>1, <2>2 DEF Ownership, SessionAlone, StartAlone, RecoveryAlone,
       UnconfirmedAlone, BarePcs, HasSession, NoSession
  <2>4. \A p \in Procs : Live(p) => p \in Held' \cup orphans'
    BY <2>1, <2>2 DEF Inv, NoCoreForgotten, Held
  <2>5. QED
    BY <2>2, <2>3, <2>4, UnlinkedLives DEF NoCoreForgotten, Inv
<1>5. ASSUME NEW throws \in BOOLEAN, StopReplaced(throws)
      PROVE  Ownership' /\ NoCoreForgotten'
  <2>1. /\ ~HasSession /\ recovery = NoProc /\ lease = NoProc /\ unconfirmed = NoProc
        /\ phase # "running" /\ pc # "launching"
    BY <1>5 DEF StopReplaced, Inv, Ownership, StartAlone, SessionAlone, BarePcs
  <2>2. /\ pc' \in {"stopped", "failing"}
        /\ UNCHANGED <<session, recovery, lease, unconfirmed, phase, launches, orphans, process>>
    BY <1>5 DEF StopReplaced, ownerVars, startVars
  <2>3. Ownership'
    BY <2>1, <2>2 DEF Ownership, SessionAlone, StartAlone, RecoveryAlone,
       UnconfirmedAlone, BarePcs, HasSession
  <2>4. Held \subseteq Held'
    BY <2>1, <2>2 DEF Held
  <2>5. QED
    BY <2>2, <2>3, <2>4, UnlinkedLives, NothingForgotten DEF Inv
<1>6. QED
  BY <1>1, <1>2, <1>3, <1>4, <1>5 DEF Stopping

(* Steps between two bare points that touch neither owner nor process. *)
LEMMA BareStepOwns ==
    ASSUME Inv, pc \in BarePcs \ {"launching", "connecting", "releasing"},
           pc' \in (BarePcs \ {"launching", "connecting", "releasing"})
                     \cup {"failing", "settling"},
           phase' # "running",
           process' = process \/ process' = Unlinked,
           UNCHANGED <<session, unconfirmed, recovery, lease, orphans>>
    PROVE  Ownership' /\ NoCoreForgotten'
<1>1. ~HasSession /\ unconfirmed = NoProc /\ recovery = NoProc /\ lease = NoProc
  BY DEF Inv, Ownership, StartAlone
<1>2. Ownership'
  BY <1>1 DEF Ownership, SessionAlone, StartAlone, RecoveryAlone, UnconfirmedAlone,
     BarePcs, HasSession
<1>3. Held \subseteq Held'
  BY <1>1 DEF Held
<1>4. QED
  BY <1>2, <1>3, UnlinkedLives, NothingForgotten DEF Inv

LEMMA OpeningOwns ==
    ASSUME Inv,
           \/ \E throws \in BOOLEAN : StartReplaced(throws)
           \/ TransportOpened \/ OpenFails \/ OpenNoLongerWanted \/ ResolveFails
           \/ Resolved /\ ~WantsRunning
           \/ ResumeAbandonedStart \/ TransportClosed \/ CloseFails
    PROVE  Ownership' /\ NoCoreForgotten'
<1>1. pc \in {"replacingOnStart", "opening", "resolving", "abandoning", "closing"}
  BY DEF StartReplaced, TransportOpened, OpenFails, OpenNoLongerWanted, ResolveFails,
     Resolved, ResumeAbandonedStart, TransportClosed, CloseFails
<1>2. phase # "running"
  BY <1>1 DEF Inv, Ownership, SessionAlone
<1>3. /\ pc' \in {"opening", "resolving", "abandoning", "settling", "failing"}
      /\ phase' # "running"
      /\ process' = process
      /\ UNCHANGED <<session, unconfirmed, recovery, lease, orphans>>
  BY <1>2 DEF StartReplaced, TransportOpened, OpenFails, OpenNoLongerWanted,
     ResolveFails, Resolved, ResumeAbandonedStart, AbandonedStart, TransportClosed,
     CloseFails, Return, GoTo, ownerVars, startVars
<1>4. QED
  BY <1>1, <1>3, BareStepOwns DEF BarePcs

LEMMA LaunchingOwns ==
    ASSUME Inv,
           Resolved \/ Launched \/ LaunchFails \/ Spawn
    PROVE  Ownership' /\ NoCoreForgotten'
<1> USE DEF GoTo
<1>1. CASE Resolved
  <2>1. CASE ~WantsRunning
    BY <1>1, <2>1, OpeningOwns
  <2>2. CASE WantsRunning
    <3>1. /\ ~HasSession /\ unconfirmed = NoProc /\ recovery = NoProc /\ lease = NoProc
          /\ phase # "running" /\ pc # "launching"
      BY <1>1 DEF Resolved, Inv, Ownership, StartAlone, SessionAlone, BarePcs
    <3>2. /\ pc' = "launching" /\ launches' # NoProc
          /\ UNCHANGED <<session, unconfirmed, recovery, lease, orphans, phase, process>>
      BY <1>1, <2>2 DEF Resolved, ownerVars, Inv, TypeOK, NoProc
    <3>3. Ownership'
      BY <3>1, <3>2 DEF Ownership, SessionAlone, StartAlone, RecoveryAlone,
         UnconfirmedAlone, HasSession
    <3>4. Held \subseteq Held'
      BY <3>1, <3>2 DEF Held
    <3>5. QED
      BY <3>2, <3>3, <3>4, UnlinkedLives, NothingForgotten DEF Inv
  <2>3. QED
    BY <2>1, <2>2
<1>2. CASE Launched \/ LaunchFails
  <2>1. /\ ~HasSession /\ unconfirmed = NoProc /\ recovery = NoProc /\ lease = NoProc
        /\ phase # "running" /\ pc = "launching" /\ launches # NoProc
    BY <1>2 DEF Launched, LaunchFails, Inv, Ownership, StartAlone, SessionAlone, BarePcs
  <2>2. /\ \/ /\ pc' \in {"connecting", "releasing"} /\ lease' = launches
              /\ orphans' = orphans
           \/ /\ pc' = "failing" /\ lease' = lease
              /\ orphans' = orphans \cup {p \in {launches} : Live(p)}
        /\ UNCHANGED <<session, unconfirmed, recovery, phase, process>>
    BY <1>2 DEF Launched, LaunchFails, ownerVars
  <2>3. Ownership'
    BY <2>1, <2>2 DEF Ownership, SessionAlone, StartAlone, RecoveryAlone,
       UnconfirmedAlone, BarePcs, HasSession
  <2>4. \A p \in Procs : Live(p) => p \in Held' \cup orphans'
    BY <2>1, <2>2 DEF Inv, NoCoreForgotten, Held, HasSession
  <2>5. QED
    BY <2>2, <2>3, <2>4 DEF NoCoreForgotten, Live
<1>3. CASE Spawn
  <2>1. /\ pc = "launching" /\ launches # NoProc
        /\ UNCHANGED <<session, unconfirmed, recovery, lease, orphans, phase, pc, launches>>
        /\ process' = [process EXCEPT ![launches] = "alive"]
    BY <1>3 DEF Spawn, Inv, Ownership, StartAlone, ownerVars, startVars
  <2>2. Ownership'
    BY <2>1 DEF Inv, Ownership, SessionAlone, StartAlone, RecoveryAlone,
       UnconfirmedAlone, HasSession
  <2>3. Held' = Held /\ launches \in Held
    BY <2>1 DEF Held
  <2>4. \A p \in Procs : Live(p)' => Live(p) \/ p = launches
    BY <2>1 DEF Inv, TypeOK, Live
  <2>5. QED
    BY <2>1, <2>2, <2>3, <2>4 DEF Inv, NoCoreForgotten
<1>4. QED
  BY <1>1, <1>2, <1>3

LEMMA ConnectingOwns ==
    ASSUME Inv,
           ConnectionAccepted \/ ConnectionFails \/ ConnectionNoLongerWanted
             \/ LeaseReleased \/ LeaseNotReleased
    PROVE  Ownership' /\ NoCoreForgotten'
<1>1. /\ pc \in {"connecting", "releasing"}
      /\ pc = "connecting" => lease # NoProc
      /\ ~HasSession /\ unconfirmed = NoProc /\ recovery = NoProc /\ phase # "running"
  BY DEF ConnectionAccepted, ConnectionFails, ConnectionNoLongerWanted, LeaseReleased,
     LeaseNotReleased, Inv, Ownership, StartAlone, SessionAlone, BarePcs
<1>2. UNCHANGED <<recovery, orphans, process, launches>>
  BY DEF ConnectionAccepted, ConnectionFails, ConnectionNoLongerWanted, LeaseReleased,
     LeaseNotReleased, ownerVars
<1>3. \/ /\ pc' = "settling" /\ phase' = "running" /\ lease' = NoProc
         /\ session'.proc = lease /\ lease # NoProc /\ unconfirmed' = unconfirmed
      \/ /\ pc' = "releasing"
         /\ UNCHANGED <<lease, session, unconfirmed, phase>>
      \/ /\ pc' \in {"abandoning", "failing"} /\ lease' = NoProc /\ ~Live(lease)
         /\ UNCHANGED <<session, unconfirmed, phase>>
      \/ /\ pc' = "failing" /\ lease' = NoProc /\ unconfirmed' = lease
         /\ UNCHANGED <<session, phase>>
  BY <1>1 DEF ConnectionAccepted, ConnectionFails, ConnectionNoLongerWanted,
     LeaseReleased, LeaseNotReleased, Return, GoTo, ownerVars, Inv, TypeOK
<1>4. Ownership'
  BY <1>1, <1>2, <1>3 DEF Inv, Ownership, SessionAlone, StartAlone, RecoveryAlone,
     UnconfirmedAlone, BarePcs, HasSession
<1>5. \A p \in Procs : Live(p) => p \in Held' \cup orphans'
  BY <1>1, <1>2, <1>3 DEF Inv, NoCoreForgotten, Held, HasSession, NoProc, Procs
<1>6. QED
  BY <1>2, <1>4, <1>5 DEF NoCoreForgotten, Live

LEMMA CrashOwns ==
    ASSUME Inv, HandleTransportEvent \/ RecoveryEnds
    PROVE  Ownership' /\ NoCoreForgotten'
<1>1. UNCHANGED <<pc, lease, orphans, process, launches>>
  BY DEF HandleTransportEvent, RecoveryEnds, startVars, flowVars
<1>2. CASE HandleTransportEvent
  <2>1. CASE IsCrash(Head(events))
    <3>1. /\ phase = "running" /\ HasSession /\ recovery = NoProc /\ unconfirmed = NoProc
          /\ lease = NoProc /\ pc \in {"none", "settling", "exiting"}
      BY <2>1 DEF IsCrash, Inv, Ownership, SessionAlone, UnconfirmedAlone, StartAlone
    <3>2. /\ session' = NoSession /\ recovery' = session.proc /\ phase' = "failed"
          /\ unconfirmed' = unconfirmed
      BY <1>2, <2>1 DEF HandleTransportEvent, ClearSession
    <3>3. Ownership'
      BY <1>1, <3>1, <3>2 DEF Ownership, SessionAlone, StartAlone, RecoveryAlone,
         UnconfirmedAlone, BarePcs, HasSession, NoSession
    <3>4. \A p \in Procs : Live(p) => p \in Held' \cup orphans'
      BY <1>1, <3>1, <3>2 DEF Inv, NoCoreForgotten, Held
    <3>5. QED
      BY <1>1, <3>3, <3>4 DEF NoCoreForgotten, Live
  <2>2. CASE ~IsCrash(Head(events))
    <3>1. UNCHANGED <<session, recovery, phase, unconfirmed>>
      BY <1>2, <2>2 DEF HandleTransportEvent
    <3>2. Ownership'
      BY <1>1, <3>1 DEF Inv, Ownership, SessionAlone, StartAlone, RecoveryAlone,
         UnconfirmedAlone, HasSession, Live
    <3>3. Held \subseteq Held'
      BY <1>1, <3>1 DEF Held
    <3>4. QED
      BY <1>1, <3>2, <3>3, UnlinkedLives, NothingForgotten DEF Inv
  <2>3. QED
    BY <2>1, <2>2
<1>3. CASE RecoveryEnds
  <2>1. /\ recovery # NoProc /\ ~HasSession /\ unconfirmed = NoProc /\ lease = NoProc
        /\ pc \in {"none", "awaitRecovery", "settling", "exiting"} /\ phase # "running"
    BY <1>3 DEF RecoveryEnds, Inv, Ownership, RecoveryAlone, StartAlone, SessionAlone
  <2>2. /\ recovery' = NoProc
        /\ unconfirmed' = recovery \/ (~Live(recovery) /\ unconfirmed' = unconfirmed)
        /\ UNCHANGED <<session, phase>>
    BY <1>3 DEF RecoveryEnds, RecoveryOutcome, flowVars
  <2>3. Ownership'
    BY <1>1, <2>1, <2>2 DEF Inv, Ownership, SessionAlone, StartAlone, RecoveryAlone,
       UnconfirmedAlone, BarePcs, HasSession
  <2>4. \A p \in Procs : Live(p) => p \in Held' \cup orphans'
    BY <1>1, <2>1, <2>2 DEF Inv, NoCoreForgotten, Held
  <2>5. QED
    BY <1>1, <2>3, <2>4 DEF NoCoreForgotten, Live
<1>4. QED
  BY <1>2, <1>3

LEMMA EnvironmentOwns ==
    ASSUME Inv,
           \/ WaiterTimesOut \/ TransportBinds \/ TransportDisconnects \/ TransportFails
           \/ \E p \in Procs : TransportConnects(p) \/ Die(p)
    PROVE  Ownership' /\ NoCoreForgotten'
<1>1. UNCHANGED <<session, unconfirmed, recovery, lease, orphans, launches, phase, pc>>
  BY DEF WaiterTimesOut, TransportBinds, TransportDisconnects, TransportFails,
     TransportConnects, Die, ownerVars, startVars, flowVars
<1>2. \A p \in Procs : Live(p)' => Live(p)
  <2>1. CASE WaiterTimesOut \/ TransportBinds \/ TransportDisconnects \/ TransportFails
    <3>1. process' = process \/ process' = Unlinked
      BY <2>1 DEF WaiterTimesOut, TransportBinds, TransportDisconnects, TransportFails,
         flowVars
    <3>2. QED
      BY <3>1, UnlinkedLives DEF Inv
  <2>2. CASE \E p \in Procs : TransportConnects(p) \/ Die(p)
    BY <2>2 DEF TransportConnects, Die, Live, Inv, TypeOK
  <2>3. QED
    BY <2>1, <2>2
<1>3. Ownership'
  <2>1. pc = "grace" => session.proc \in Procs
    BY DEF Inv, Ownership, SessionAlone, HasSession, TypeOK, Procs, NoProc
  <2>2. QED
    BY <1>1, <1>2, <2>1 DEF Inv, Ownership, SessionAlone, StartAlone, RecoveryAlone,
       UnconfirmedAlone, HasSession
<1>4. Held \subseteq Held'
  BY <1>1 DEF Held
<1>5. QED
  BY <1>1, <1>2, <1>3, <1>4, NothingForgotten DEF Inv, Procs

LEMMA InvInductive == Inv /\ [Next]_vars => Inv'
<1> SUFFICES ASSUME Inv, [Next]_vars PROVE Inv'
  OBVIOUS
<1>1. TypeOK'
  BY NextTyped DEF Inv
<1>2. CASE UNCHANGED vars
  BY <1>1, <1>2 DEF vars, Inv, Ownership, SessionAlone, StartAlone, RecoveryAlone,
     UnconfirmedAlone, NoCoreForgotten, Held, HasSession, Live
<1>3. CASE Callers \/ Worker
  <2>1. CASE Stopping
    BY <1>1, <2>1, StoppingOwns DEF Inv
  <2>2. CASE Starting
    BY <1>1, <2>2, OpeningOwns, LaunchingOwns, ConnectingOwns DEF Inv, Starting
  <2>3. QED
    BY <1>1, <1>3, <2>1, <2>2, LoopOwns, OpeningOwns DEF Inv, Callers, Worker
<1>4. CASE HandleTransportEvent \/ RecoveryEnds
  BY <1>1, <1>4, CrashOwns DEF Inv
<1>5. CASE WaiterTimesOut \/ Environment
  BY <1>1, <1>5, EnvironmentOwns, LaunchingOwns DEF Inv, Environment
<1>6. QED
  BY <1>2, <1>3, <1>4, <1>5 DEF Next

LEMMA Invariance == Spec => []Inv
<1>1. Init => Inv
  BY InitTyped, InitOwns DEF Inv
<1>2. QED
  BY <1>1, InvInductive, PTL DEF Spec

(* At most one process is held at a time. *)
LEMMA OneHeld == Inv => \A p, q \in Held : p = q
  BY DEF Inv, Ownership, SessionAlone, StartAlone, RecoveryAlone, UnconfirmedAlone,
     BarePcs, Held, HasSession

(* No Core process the lifecycle launched is ever forgotten: whatever fails, *)
(* times out or crashes, a lease or a launch in progress still holds it, or *)
(* its lease never arrived or was given up by a terminal close.             *)
THEOREM NothingIsForgotten == Spec => []NoCoreForgotten
<1>1. Inv => NoCoreForgotten
  BY DEF Inv
<1>2. QED
  BY <1>1, Invariance, PTL

(* Two Cores the lifecycle is responsible for are never alive together.     *)
THEOREM AtMostOneCore == Spec => []OneCore
<1>1. Inv => OneCore
  BY OneHeld DEF OneCore, Inv, NoCoreForgotten
<1>2. QED
  BY <1>1, Invariance, PTL

(* The published phase agrees with the session the lifecycle keeps. *)
THEOREM PhaseMatchesSession == Spec => []PhaseAgrees
<1>1. Inv => PhaseAgrees
  BY DEF Inv, Ownership, SessionAlone, PhaseAgrees
<1>2. QED
  BY <1>1, Invariance, PTL

-----------------------------------------------------------------------------
(* What callers are told.  The newest intent is the one that counts: until  *)
(* the worker settles it stays pending, what the worker reached is still    *)
(* so when it settles, and a close is the last intent of all.               *)

LastClose == \A r \in Revisions : r < revision => target[r] # "closed"

NoneBeyond == \A r \in Revisions : outcome[r] = "pending" => r <= revision

Works ==
    /\ pc # "none" => revision \in Revisions
    /\ pc \notin {"none", "awaitRecovery"} => intent \in Revisions /\ intent <= revision

Owed ==
    /\ pc \notin {"none", "exiting"} => outcome[revision] = "pending"
    /\ pc = "none" => Pending = {}
    /\ pc = "exiting" /\ Pending # {} => revision \in Pending

Unheld == ~HasSession /\ unconfirmed = NoProc /\ recovery = NoProc

Reached ==
    pc = "settling" =>
        \/ achieved = "idle" /\ Unheld
        \/ achieved = "closed" /\ phase = "closed"
        \/ achieved \in {"runningExisting", "runningFresh"} /\ phase \in {"running", "failed"}

ClosedIsLast ==
    /\ pc = "closing" => TargetOf(intent) = "closed" /\ transport.state = "closed"
    /\ phase = "closed" =>
         /\ Desired = "closed" /\ transport.state = "closed"
         /\ \/ pc = "settling" /\ achieved = "closed"
            \/ pc \in {"exiting", "none"} /\ Pending = {}

Kept ==
    pc \in {"exiting", "none"} /\ revision \in Revisions /\ outcome[revision] = "applied" =>
        /\ Runs(Desired) => phase \in {"running", "failed"}
        /\ Desired = "stopped" => Unheld
        /\ Desired = "closed" => phase = "closed"

Answers == LastClose /\ NoneBeyond /\ Works /\ Owed /\ Reached /\ ClosedIsLast /\ Kept

(* A close the worker works for is the newest intent. *)
LEMMA CloseIsNewest ==
    ASSUME TypeOK, LastClose, intent \in Revisions, intent <= revision,
           TargetOf(intent) = "closed"
    PROVE  Desired = "closed" /\ intent = revision
<1>1. revision \in 0..MaxRevision /\ MaxRevision \in Nat
  BY BoundsAssumption DEF TypeOK
<1>2. ~(intent < revision)
  BY DEF LastClose, TargetOf
<1>3. intent = revision
  BY <1>1, <1>2 DEF Revisions
<1>4. QED
  BY <1>3 DEF Desired

(* What a stretch of the worker that works for target t leads to. *)
TurnPcs == {"awaitRecovery", "stopUnconfirmed", "stopping", "replacingOnStart",
            "opening", "resolving", "abandoning", "settling", "closing"}

Turned(t) ==
    /\ pc' \in TurnPcs
    /\ phase' # "closed"
    /\ phase' = "running" => phase = "running" /\ pc' = "settling"
    /\ pc' = "settling" =>
         \/ achieved' = "idle" /\ Unheld
         \/ achieved' = "runningExisting" /\ phase' = "running"
    /\ pc' = "closing" => t = "closed" /\ transport'.state = "closed"

LEMMA ProceedTurns ==
    ASSUME Inv, phase # "closed", Unheld, NEW t \in Targets, NEW d,
           NEW afterStop, Proceed(t, d, afterStop)
    PROVE  Turned(t)
<1>1. phase # "running"
  BY DEF Inv, Ownership, SessionAlone, Unheld
<1>2. CASE StartSession(d)
  BY <1>2 DEF StartSession, OpenTransport, GoTo, Turned, TurnPcs
<1>3. CASE AbandonedStart(d)
  BY <1>1, <1>3 DEF AbandonedStart, Return, GoTo, Turned, TurnPcs
<1>4. CASE t = "closed" /\ CloseTransport
  <2>1. transport' = [transport EXCEPT !.state = "closed", !.peer = NoProc]
    BY <1>4 DEF CloseTransport, DropTransport
  <2>2. transport'.state = "closed"
    BY <2>1 DEF Inv, TypeOK, Transports
  <2>3. QED
    BY <1>1, <1>4, <2>2 DEF CloseTransport, GoTo, Turned, TurnPcs
<1>5. QED
  BY <1>2, <1>3, <1>4 DEF Proceed

LEMMA DispatchTurns ==
    ASSUME Inv, phase # "closed", unconfirmed = NoProc, recovery = NoProc,
           NEW t \in Targets, NEW d, Dispatch(t, d)
    PROVE  Turned(t)
<1>1. CASE ~HasSession /\ Proceed(t, d, FALSE)
  BY <1>1, ProceedTurns DEF Unheld
<1>2. CASE /\ phase = "running" /\ Return("runningExisting")
           /\ UNCHANGED <<phase, forced, transport, events, process>>
  BY <1>2 DEF Return, GoTo, Turned, TurnPcs
<1>3. CASE \E mayGiveUp \in BOOLEAN : StopSession(mayGiveUp)
  BY <1>3 DEF StopSession, GoTo, Turned, TurnPcs
<1>4. QED
  BY <1>1, <1>2, <1>3 DEF Dispatch

LEMMA LoopHeadTurns ==
    ASSUME Inv, phase # "closed", NEW r, NEW d \in Targets, LoopHead(r, d)
    PROVE  Turned(d) /\ (pc' # "awaitRecovery" => intent' = r)
<1>1. CASE recovery # NoProc
  <2>1. phase # "running"
    BY <1>1 DEF Inv, Ownership, RecoveryAlone, SessionAlone
  <2>2. QED
    BY <1>1, <2>1 DEF LoopHead, GoTo, Turned, TurnPcs
<1>2. CASE recovery = NoProc
  <2>1. Reconcile(r, d)
    BY <1>2 DEF LoopHead
  <2>2. intent' = r
    BY <2>1 DEF Reconcile
  <2>3. CASE unconfirmed # NoProc
    <3>1. phase # "running"
      BY <2>3 DEF Inv, Ownership, UnconfirmedAlone, SessionAlone
    <3>2. /\ pc' = "stopUnconfirmed"
          /\ UNCHANGED <<phase, achieved, forced, transport, events, process>>
      BY <2>1, <2>3 DEF Reconcile, GoTo
    <3>3. QED
      BY <2>2, <3>1, <3>2 DEF Turned, TurnPcs
  <2>4. CASE unconfirmed = NoProc
    <3>1. Dispatch(d, d)
      BY <2>1, <2>4 DEF Reconcile
    <3>2. QED
      BY <1>2, <2>2, <2>4, <3>1, DispatchTurns
  <2>5. QED
    BY <2>3, <2>4
<1>3. QED
  BY <1>1, <1>2

(* A worker that turned to work for the newest intent keeps what it owes. *)
LEMMA TurnAnswers ==
    ASSUME NEW t \in Targets, Turned(t), LastClose', NoneBeyond',
           revision' \in Revisions, outcome'[revision'] = "pending",
           pc' # "awaitRecovery" =>
             /\ intent' \in Revisions /\ intent' <= revision'
             /\ TargetOf(intent)' = t,
           UNCHANGED <<session, unconfirmed, recovery>>
    PROVE  Answers'
<1>1. Works' /\ Owed'
  BY DEF Turned, TurnPcs, Works, Owed
<1>2. Reached'
  BY DEF Turned, Reached, Unheld, HasSession
<1>3. ClosedIsLast' /\ Kept'
  BY DEF Turned, TurnPcs, ClosedIsLast, Kept
<1>4. QED
  BY <1>1, <1>2, <1>3 DEF Answers

LEMMA LedgerStays ==
    ASSUME UNCHANGED ledgerVars
    PROVE  /\ LastClose => LastClose'
           /\ NoneBeyond => NoneBeyond'
           /\ Desired' = Desired /\ WantsRunning' = WantsRunning
           /\ Pending' = Pending
           /\ \A r : TargetOf(r)' = TargetOf(r)
  BY DEF ledgerVars, LastClose, NoneBeyond, Desired, WantsRunning, TargetOf, Pending

LEMMA SubmitAnswers ==
    ASSUME Inv, Answers, NEW t \in Targets, Submit(t)
    PROVE  Answers'
<1>1. /\ revision \in Nat /\ revision + 1 \in Revisions /\ revision' = revision + 1
      /\ Desired # "closed"
      /\ target' = [target EXCEPT ![revision + 1] = t]
      /\ outcome' = [outcome EXCEPT ![revision + 1] = "pending"]
      /\ UNCHANGED <<session, unconfirmed, recovery>>
  BY BoundsAssumption DEF Submit, Accepting, TerminalRequested, Inv, TypeOK, Revisions,
     ownerVars
<1>2. /\ outcome'[revision'] = "pending" /\ TargetOf(revision)' = t
      /\ \A r \in Revisions : r # revision + 1 =>
           target'[r] = target[r] /\ outcome'[r] = outcome[r]
  BY <1>1 DEF Inv, TypeOK, TargetOf
<1>3. \A r \in Revisions : r \in Nat
  BY DEF Revisions
<1>4. LastClose'
  <2> SUFFICES ASSUME NEW r \in Revisions, r < revision + 1
               PROVE  target'[r] # "closed"
    BY <1>1 DEF LastClose
  <2>1. r < revision \/ r = revision
    BY <1>1, <1>3
  <2>2. target'[r] = target[r]
    BY <1>1, <1>2, <2>1, <1>3
  <2>3. QED
    BY <1>1, <2>1, <2>2 DEF Answers, LastClose, Desired, TargetOf
<1>5. NoneBeyond'
  BY <1>1, <1>2, <1>3 DEF Answers, NoneBeyond
<1>6. phase # "closed"
  BY <1>1 DEF Answers, ClosedIsLast
<1>7. CASE pc = "none" /\ LoopHead(revision + 1, t)
  <2>1. Turned(t) /\ (pc' # "awaitRecovery" => intent' = revision')
    BY <1>1, <1>6, <1>7, LoopHeadTurns
  <2>2. QED
    BY <1>1, <1>2, <1>3, <1>4, <1>5, <2>1, TurnAnswers DEF TargetOf
<1>8. CASE pc # "none" /\ UNCHANGED <<intent, flowVars>>
  <2>1. UNCHANGED <<intent, phase, pc, achieved, transport>>
    BY <1>8 DEF flowVars
  <2>2. Works'
    BY <1>1, <1>3, <1>8, <2>1 DEF Answers, Works
  <2>3. Owed'
    BY <1>1, <1>2, <1>8, <2>1 DEF Owed, Pending
  <2>4. Reached'
    BY <1>1, <2>1 DEF Answers, Reached, Unheld, HasSession
  <2>5. ClosedIsLast'
    <3>1. pc = "closing" => Desired = "closed"
      BY CloseIsNewest DEF Inv, Answers, Works, ClosedIsLast
    <3>2. QED
      BY <1>1, <1>6, <2>1, <3>1 DEF ClosedIsLast
  <2>6. Kept'
    BY <1>2 DEF Kept
  <2>7. QED
    BY <1>4, <1>5, <2>2, <2>3, <2>4, <2>5, <2>6 DEF Answers
<1>9. QED
  BY <1>7, <1>8 DEF Submit

(* The worker reads the newest intent again, its commands still open. *)
LEMMA HeadAnswers ==
    ASSUME Inv, Answers, LastClose', NoneBeyond', phase # "closed",
           revision \in Revisions, outcome'[revision] = "pending",
           LoopHead(revision, Desired),
           UNCHANGED <<revision, target, session, unconfirmed, recovery>>
    PROVE  Answers'
<1>1. Desired \in Targets
  BY DesiredTyped DEF Desired, Inv, TypeOK
<1>2. Turned(Desired) /\ (pc' # "awaitRecovery" => intent' = revision)
  BY <1>1, LoopHeadTurns
<1>3. revision <= revision
  BY DEF Revisions
<1>4. TargetOf(revision)' = Desired
  BY DEF TargetOf, Desired
<1>5. pc' # "awaitRecovery" => TargetOf(intent)' = Desired
  BY <1>2, <1>4 DEF TargetOf
<1>6. QED
  BY <1>1, <1>2, <1>3, <1>5, TurnAnswers

LEMMA ResumeAnswers ==
    ASSUME Inv, Answers, ResumeAfterRecovery \/ ResumeDispatch \/ ResumeAfterStop
    PROVE  Answers'
<1>1. /\ pc \in {"awaitRecovery", "dispatching", "stopped"} /\ phase # "closed"
      /\ revision \in Revisions /\ outcome[revision] = "pending"
      /\ UNCHANGED <<revision, target, outcome, session, unconfirmed, recovery>>
      /\ UNCHANGED ledgerVars
  BY DEF ResumeAfterRecovery, ResumeDispatch, ResumeAfterStop, Answers, ClosedIsLast,
     Works, Owed, ledgerVars, ownerVars
<1>2. LastClose' /\ NoneBeyond'
  BY <1>1, LedgerStays DEF Answers
<1>3. CASE ResumeAfterRecovery
  <2>1. LoopHead(revision, Desired)
    BY <1>3 DEF ResumeAfterRecovery, LoopHead
  <2>2. QED
    BY <1>1, <1>2, <2>1, HeadAnswers
<1>4. CASE ResumeDispatch \/ ResumeAfterStop
  <2>1. /\ pc \in {"dispatching", "stopped"} /\ intent' = intent
        /\ intent \in Revisions /\ intent <= revision
    BY <1>1, <1>4 DEF ResumeDispatch, ResumeAfterStop, Answers, Works
  <2>2. Unheld
    BY <2>1 DEF Inv, Ownership, StartAlone, BarePcs, Unheld
  <2>3. TargetOf(intent) \in Targets /\ TargetOf(intent)' = TargetOf(intent)
    BY <1>1, <2>1, DesiredTyped, LedgerStays DEF Inv, TypeOK, TargetOf
  <2>4. Turned(TargetOf(intent))
    BY <1>1, <1>4, <2>2, <2>3, DispatchTurns, ProceedTurns
       DEF ResumeDispatch, ResumeAfterStop, Unheld
  <2>5. QED
    BY <1>1, <1>2, <2>1, <2>3, <2>4, TurnAnswers
<1>5. QED
  BY <1>3, <1>4

LEMMA SettleAnswers ==
    ASSUME Inv, Answers, Settle
    PROVE  Answers'
<1>1. /\ pc = "settling" /\ revision \in Revisions /\ outcome[revision] = "pending"
      /\ UNCHANGED <<revision, target, session, unconfirmed, recovery>>
  BY DEF Settle, Answers, Works, Owed, ownerVars
<1>2. LastClose' /\ Desired' = Desired
  BY <1>1 DEF Answers, LastClose, Desired, TargetOf
<1>3. CASE Satisfies(achieved, Desired)
  <2>1. /\ CompleteCommands /\ pc' = "exiting"
        /\ UNCHANGED <<intent, phase, achieved, transport>>
    BY <1>3 DEF Settle, GoTo
  <2>2. outcome'[revision] = "applied" /\ \A r \in Revisions : outcome'[r] # "pending"
    BY <1>1, <2>1 DEF CompleteCommands, OutcomeOf
  <2>3. NoneBeyond' /\ Owed' /\ Pending' = {}
    BY <2>1, <2>2 DEF NoneBeyond, Owed, Pending
  <2>4. Works' /\ Reached'
    BY <1>1, <2>1 DEF Answers, Works, Reached
  <2>5. ClosedIsLast'
    BY <1>1, <1>2, <2>1, <2>3 DEF Answers, ClosedIsLast
  <2>6. Desired \in Targets
    BY DesiredTyped DEF Desired, Inv, TypeOK
  <2>7. Kept'
    BY <1>1, <1>2, <1>3, <2>1, <2>6 DEF Answers, Reached, Satisfies, Fulfils, Runs, Kept,
       Unheld, HasSession, Targets
  <2>8. QED
    BY <1>2, <2>3, <2>4, <2>5, <2>7 DEF Answers
<1>4. CASE ~Satisfies(achieved, Desired)
  <2>1. LoopHead(revision, Desired) /\ outcome' = outcome
    BY <1>4 DEF Settle
  <2>2. phase # "closed"
    BY <1>1, <1>4 DEF Answers, ClosedIsLast, Satisfies, Fulfils
  <2>3. NoneBeyond'
    BY <1>1, <2>1 DEF Answers, NoneBeyond
  <2>4. QED
    BY <1>1, <1>2, <2>1, <2>2, <2>3, HeadAnswers
<1>5. QED
  BY <1>3, <1>4

LEMMA FailAnswers ==
    ASSUME Inv, Answers, Fail
    PROVE  Answers'
<1>1. /\ pc = "failing" /\ revision \in Revisions /\ outcome[revision] = "pending"
      /\ intent \in Revisions /\ intent <= revision /\ phase # "closed"
      /\ UNCHANGED <<revision, target, session, unconfirmed, recovery>>
  BY DEF Fail, Answers, Works, Owed, ClosedIsLast, ownerVars
<1>2. \A r \in Revisions : r \in Nat
  BY DEF Revisions
<1>3. LastClose' /\ Desired' = Desired
  BY <1>1 DEF Answers, LastClose, Desired, TargetOf
<1>4. CASE ~Outdated
  <2>1. /\ FailCommands(intent) /\ intent = revision /\ pc' = "exiting"
        /\ phase' = "failed"
        /\ UNCHANGED <<intent, achieved, transport>>
    BY <1>4 DEF Fail, GoTo, Outdated
  <2>2. outcome'[revision] = "failed" /\ \A r \in Revisions : outcome'[r] # "pending"
    BY <1>1, <1>2, <2>1 DEF FailCommands, Answers, NoneBeyond
  <2>3. NoneBeyond' /\ Owed'
    BY <2>1, <2>2 DEF NoneBeyond, Owed, Pending
  <2>4. Works' /\ Reached' /\ ClosedIsLast'
    BY <1>1, <2>1 DEF Works, Reached, ClosedIsLast
  <2>5. Kept'
    BY <1>1, <2>2 DEF Kept
  <2>6. QED
    BY <1>3, <2>3, <2>4, <2>5 DEF Answers
<1>5. CASE Outdated
  <2>1. /\ LoopHead(revision, Desired)
        /\ outcome' = outcome \/ FailCommands(intent)
    BY <1>5 DEF Fail
  <2>2. ~(revision <= intent)
    BY <1>1, <1>2, <1>5 DEF Outdated
  <2>3. /\ outcome'[revision] = "pending"
        /\ \A r \in Revisions : outcome'[r] = "pending" => outcome[r] = "pending"
    BY <1>1, <2>1, <2>2 DEF FailCommands
  <2>4. NoneBeyond'
    BY <1>1, <2>3 DEF Answers, NoneBeyond
  <2>5. QED
    BY <1>1, <1>3, <2>1, <2>3, <2>4, HeadAnswers
<1>6. QED
  BY <1>4, <1>5

LEMMA DoneAnswers ==
    ASSUME Inv, Answers, WorkerDone
    PROVE  Answers'
<1>1. /\ pc = "exiting" /\ revision \in Revisions
      /\ UNCHANGED <<revision, target, outcome, session, unconfirmed, recovery>>
      /\ UNCHANGED ledgerVars
  BY DEF WorkerDone, Answers, Works, ledgerVars, ownerVars
<1>2. LastClose' /\ NoneBeyond' /\ Desired' = Desired /\ Pending' = Pending
  BY <1>1, LedgerStays DEF Answers
<1>3. CASE Pending # {}
  <2>1. LoopHead(revision, Desired) /\ outcome[revision] = "pending"
    BY <1>1, <1>3 DEF WorkerDone, Answers, Owed, Pending
  <2>2. phase # "closed"
    BY <1>1, <1>3 DEF Answers, ClosedIsLast
  <2>3. QED
    BY <1>1, <1>2, <2>1, <2>2, HeadAnswers
<1>4. CASE Pending = {}
  <2>1. pc' = "none" /\ UNCHANGED <<intent, phase, achieved, transport>>
    BY <1>4 DEF WorkerDone, GoTo
  <2>2. Works' /\ Owed' /\ Reached'
    BY <1>2, <1>4, <2>1 DEF Works, Owed, Reached
  <2>3. ClosedIsLast'
    BY <1>1, <1>2, <1>4, <2>1 DEF Answers, ClosedIsLast
  <2>4. Kept'
    BY <1>1, <1>2, <2>1 DEF Answers, Kept, Unheld, HasSession
  <2>5. QED
    BY <1>2, <2>2, <2>3, <2>4 DEF Answers
<1>5. QED
  BY <1>3, <1>4

(* The steps between two awaits of one intent, which settle nothing. *)
RestPcs == {"none", "awaitRecovery", "settling", "exiting", "closing"}

LEMMA WalkAnswers ==
    ASSUME Inv, Answers, pc \notin {"none", "awaitRecovery", "settling", "exiting"},
           pc' \notin RestPcs, UNCHANGED <<revision, target, outcome, intent, phase>>
    PROVE  Answers'
<1>1. UNCHANGED ledgerVars
  BY DEF ledgerVars
<1>2. phase # "closed"
  BY DEF Answers, ClosedIsLast
<1>3. LastClose' /\ NoneBeyond'
  BY <1>1, LedgerStays DEF Answers
<1>4. Works' /\ Owed'
  BY DEF RestPcs, Answers, Works, Owed
<1>5. Reached' /\ ClosedIsLast' /\ Kept'
  BY <1>2 DEF RestPcs, Reached, ClosedIsLast, Kept
<1>6. QED
  BY <1>3, <1>4, <1>5 DEF Answers

(* A stop, a start or a close on its way. *)
Walk ==
    \/ Stopping \/ CloseFails
    \/ \E throws \in BOOLEAN : StartReplaced(throws)
    \/ TransportOpened \/ OpenFails \/ OpenNoLongerWanted
    \/ Resolved \/ ResolveFails \/ Launched \/ LaunchFails
    \/ ConnectionFails \/ ConnectionNoLongerWanted
    \/ LeaseReleased \/ LeaseNotReleased
    \/ (ConnectionAccepted /\ PeerMismatch)

LEMMA WalkKeeps ==
    ASSUME TypeOK, Walk
    PROVE  /\ pc \notin {"none", "awaitRecovery", "settling", "exiting"}
           /\ pc' \notin RestPcs
           /\ UNCHANGED <<revision, target, outcome, intent, phase>>
<1> USE DEF GoTo, RestPcs, ledgerVars
<1>1. CASE Stopping
  BY <1>1 DEF Stopping, UnconfirmedStopped, UnconfirmedStopFails, SessionExitConfirmed,
     SessionExitUnconfirmed, GraceEnds, StopReplaced
<1>2. CASE \/ CloseFails \/ \E throws \in BOOLEAN : StartReplaced(throws)
           \/ TransportOpened \/ OpenFails \/ OpenNoLongerWanted
           \/ Resolved \/ ResolveFails
  BY <1>2 DEF CloseFails, StartReplaced, TransportOpened, OpenFails, OpenNoLongerWanted,
     Resolved, ResolveFails
<1>3. CASE \/ Launched \/ LaunchFails \/ ConnectionFails \/ ConnectionNoLongerWanted
           \/ LeaseReleased \/ LeaseNotReleased \/ (ConnectionAccepted /\ PeerMismatch)
  BY <1>3 DEF Launched, LaunchFails, ConnectionFails, ConnectionNoLongerWanted,
     LeaseReleased, LeaseNotReleased, ConnectionAccepted, TypeOK
<1>4. QED
  BY <1>1, <1>2, <1>3 DEF Walk

(* What the worker reached for the intent it worked for. *)
LEMMA ReachAnswers ==
    ASSUME Inv, Answers,
           ResumeAbandonedStart \/ TransportClosed \/ (ConnectionAccepted /\ ~PeerMismatch)
    PROVE  Answers'
<1>1. /\ pc \in {"abandoning", "closing", "connecting"} /\ pc' = "settling"
      /\ UNCHANGED <<revision, target, outcome, intent, transport>>
      /\ UNCHANGED ledgerVars
  BY DEF ResumeAbandonedStart, AbandonedStart, TransportClosed, ConnectionAccepted, Return,
     GoTo, ledgerVars
<1>2. LastClose' /\ NoneBeyond' /\ Desired' = Desired
  BY <1>1, LedgerStays DEF Answers
<1>3. phase # "closed"
  BY <1>1 DEF Answers, ClosedIsLast
<1>4. Works' /\ Owed' /\ Kept'
  BY <1>1 DEF Answers, Works, Owed, Kept
<1>5. CASE ResumeAbandonedStart
  <2>1. /\ achieved' = "idle" /\ phase' # "closed"
        /\ UNCHANGED <<session, unconfirmed, recovery>>
    BY <1>3, <1>5 DEF ResumeAbandonedStart, AbandonedStart, Return, ownerVars
  <2>2. Unheld
    BY <1>5 DEF ResumeAbandonedStart, Inv, Ownership, StartAlone, BarePcs, Unheld
  <2>3. Reached' /\ ClosedIsLast'
    BY <1>1, <2>1, <2>2 DEF Reached, ClosedIsLast, Unheld, HasSession
  <2>4. QED
    BY <1>2, <1>4, <2>3 DEF Answers
<1>6. CASE TransportClosed
  <2>1. pc = "closing" /\ achieved' = "closed" /\ phase' = "closed"
    BY <1>6 DEF TransportClosed, Return
  <2>2. Desired = "closed" /\ transport.state = "closed"
    BY <2>1, CloseIsNewest DEF Inv, Answers, Works, ClosedIsLast
  <2>3. Reached' /\ ClosedIsLast'
    BY <1>1, <1>2, <2>1, <2>2 DEF Reached, ClosedIsLast
  <2>4. QED
    BY <1>2, <1>4, <2>3 DEF Answers
<1>7. CASE ConnectionAccepted /\ ~PeerMismatch
  <2>1. achieved' = "runningFresh" /\ phase' = "running"
    BY <1>7 DEF ConnectionAccepted, Return
  <2>2. Reached' /\ ClosedIsLast'
    BY <1>1, <2>1 DEF Reached, ClosedIsLast
  <2>3. QED
    BY <1>2, <1>4, <2>2 DEF Answers
<1>8. QED
  BY <1>5, <1>6, <1>7

(* A crash, its cleanup, a timer and the transport leave the ledger and the *)
(* worker alone.                                                            *)
Outside == HandleTransportEvent \/ RecoveryEnds \/ WaiterTimesOut \/ Environment

LEMMA OutsideKeeps ==
    ASSUME TypeOK, Outside \/ UNCHANGED vars
    PROVE  /\ UNCHANGED <<revision, target, outcome, intent, pc, achieved>>
           /\ phase' = phase \/ (phase = "running" /\ phase' = "failed")
           /\ transport.state = "closed" => transport' = transport
<1>1. CASE HandleTransportEvent
  BY <1>1 DEF HandleTransportEvent, IsCrash, ledgerVars
<1>2. CASE RecoveryEnds \/ WaiterTimesOut \/ UNCHANGED vars
  BY <1>2 DEF RecoveryEnds, WaiterTimesOut, vars, ledgerVars, ownerVars, flowVars
<1>3. CASE Environment
  BY <1>3 DEF Environment, TransportBinds, TransportDisconnects, TransportFails,
     TransportConnects, Spawn, Die, ledgerVars, ownerVars
<1>4. QED
  BY <1>1, <1>2, <1>3 DEF Outside

(* What has no holder gets none. *)
LEMMA OutsideHolds ==
    ASSUME Inv, Outside \/ UNCHANGED vars, Unheld
    PROVE  Unheld'
<1>1. phase # "running"
  BY DEF Inv, Ownership, SessionAlone, Unheld
<1>2. CASE HandleTransportEvent
  <2>1. ~IsCrash(Head(events))
    BY <1>1 DEF IsCrash
  <2>2. UNCHANGED <<session, unconfirmed, recovery>>
    BY <1>2, <2>1 DEF HandleTransportEvent
  <2>3. QED
    BY <2>2 DEF Unheld, HasSession
<1>3. CASE RecoveryEnds
  BY <1>3 DEF RecoveryEnds, Unheld
<1>4. CASE WaiterTimesOut \/ UNCHANGED vars
  BY <1>4 DEF WaiterTimesOut, vars, ownerVars, Unheld, HasSession
<1>5. CASE Environment
  BY <1>5 DEF Environment, TransportBinds, TransportDisconnects, TransportFails,
     TransportConnects, Spawn, Die, ownerVars, Unheld, HasSession
<1>6. QED
  BY <1>2, <1>3, <1>4, <1>5 DEF Outside

LEMMA OutsideAnswers ==
    ASSUME Inv, Answers, Outside \/ UNCHANGED vars
    PROVE  Answers'
<1>1. /\ UNCHANGED <<revision, target, outcome, intent, pc, achieved>>
      /\ UNCHANGED ledgerVars
      /\ phase' = phase \/ (phase = "running" /\ phase' = "failed")
      /\ transport.state = "closed" => transport' = transport
  BY OutsideKeeps DEF Inv, ledgerVars
<1>2. Unheld => Unheld'
  BY OutsideHolds
<1>3. /\ LastClose' /\ NoneBeyond' /\ Desired' = Desired /\ Pending' = Pending
      /\ \A r : TargetOf(r)' = TargetOf(r)
  BY <1>1, LedgerStays DEF Answers
<1>4. Works' /\ Owed'
  BY <1>1, <1>3 DEF Answers, Works, Owed
<1>5. Reached'
  BY <1>1, <1>2 DEF Answers, Reached
<1>6. ClosedIsLast'
  <2>1. TargetOf(intent)' = TargetOf(intent)
    BY <1>1 DEF TargetOf
  <2>2. QED
    BY <1>1, <1>3, <2>1 DEF Answers, ClosedIsLast
<1>7. Kept'
  BY <1>1, <1>2, <1>3 DEF Answers, Kept
<1>8. QED
  BY <1>3, <1>4, <1>5, <1>6, <1>7 DEF Answers

(* The steps of the system, as the proofs about its answers take them. *)
LEMMA Steps ==
    ASSUME [Next]_vars
    PROVE  \/ \E t \in Targets : Submit(t)
           \/ ResumeAfterRecovery \/ ResumeDispatch \/ ResumeAfterStop
           \/ Settle \/ Fail \/ WorkerDone
           \/ Walk
           \/ ResumeAbandonedStart \/ TransportClosed
           \/ (ConnectionAccepted /\ ~PeerMismatch)
           \/ Outside \/ UNCHANGED vars
<1>1. CASE Worker
  <2>1. Starting => Walk \/ (ConnectionAccepted /\ ~PeerMismatch)
    BY DEF Starting, Walk
  <2>2. QED
    BY <1>1, <2>1 DEF Worker, Walk
<1>2. CASE Callers \/ HandleTransportEvent \/ RecoveryEnds \/ WaiterTimesOut \/ Environment
  BY <1>2 DEF Callers, Outside
<1>3. QED
  BY <1>1, <1>2 DEF Next

LEMMA InitAnswers == Init => Answers
<1> SUFFICES ASSUME Init PROVE Answers
  OBVIOUS
<1>1. LastClose /\ NoneBeyond /\ Pending = {} /\ revision \notin Revisions
  BY DEF Init, LastClose, NoneBeyond, Pending, Revisions
<1>2. QED
  BY <1>1 DEF Init, Answers, Works, Owed, Reached, ClosedIsLast, Kept

LEMMA AnswersNext == Inv /\ Answers /\ [Next]_vars => Answers'
<1> SUFFICES ASSUME Inv, Answers, [Next]_vars PROVE Answers'
  OBVIOUS
<1>1. CASE Walk
  BY <1>1, WalkKeeps, WalkAnswers DEF Inv
<1>2. QED
  BY <1>1, Steps, SubmitAnswers, ResumeAnswers, SettleAnswers, FailAnswers, DoneAnswers,
     ReachAnswers, OutsideAnswers

-----------------------------------------------------------------------------
(* Who is on the line.  A connection's generation is used once, so what the *)
(* waiter, and then the session, noted about the peer of a generation holds *)
(* as long as that generation is the transport's.                           *)

WaiterOfLink ==
    /\ waiter.status # "none" => pc \in {"launching", "connecting", "releasing"}
    /\ waiter.status = "connected" =>
         /\ waiter.gen <= transport.gen
         /\ transport.state = "connected" /\ transport.gen = waiter.gen =>
              transport.peer = waiter.peer

SessionOfLink ==
    HasSession =>
        /\ session.gen <= transport.gen
        /\ VerifyPeerPid /\ transport.state = "connected" /\ transport.gen = session.gen =>
             transport.peer = session.proc

Links == WaiterOfLink /\ SessionOfLink

(* The connection stays what it was, or ends. *)
LinkStaysOrEnds ==
    /\ transport'.gen = transport.gen
    /\ transport'.state = "connected" => transport' = transport

LEMMA DropEnds ==
    ASSUME TypeOK, DropTransport
    PROVE  LinkStaysOrEnds
<1>1. transport' = [transport EXCEPT !.state = "closed", !.peer = NoProc]
  BY DEF DropTransport
<1>2. transport'.gen = transport.gen /\ transport'.state = "closed"
  BY <1>1 DEF TypeOK, Transports
<1>3. QED
  BY <1>2 DEF LinkStaysOrEnds

LEMMA ProceedLinks ==
    ASSUME TypeOK, NEW t, NEW d, NEW afterStop, Proceed(t, d, afterStop)
    PROVE  LinkStaysOrEnds
<1>1. CASE DropTransport
  BY <1>1, DropEnds
<1>2. CASE OpenTransport(d)
  <2>1. transport' = [transport EXCEPT !.state = "starting"]
    BY <1>2 DEF OpenTransport
  <2>2. transport'.gen = transport.gen /\ transport'.state = "starting"
    BY <2>1 DEF TypeOK, Transports
  <2>3. QED
    BY <2>2 DEF LinkStaysOrEnds
<1>3. CASE transport' = transport
  BY <1>3 DEF LinkStaysOrEnds
<1>4. QED
  BY <1>1, <1>2, <1>3 DEF Proceed, StartSession, AbandonedStart, CloseTransport

LEMMA DispatchLinks ==
    ASSUME TypeOK, NEW t, NEW d, Dispatch(t, d)
    PROVE  LinkStaysOrEnds
<1>1. CASE transport' = transport
  BY <1>1 DEF LinkStaysOrEnds
<1>2. CASE Proceed(t, d, FALSE)
  BY <1>2, ProceedLinks
<1>3. QED
  BY <1>1, <1>2 DEF Dispatch, StopSession

LEMMA LoopHeadLinks ==
    ASSUME TypeOK, NEW r, NEW d, LoopHead(r, d)
    PROVE  LinkStaysOrEnds
<1>1. CASE transport' = transport
  BY <1>1 DEF LinkStaysOrEnds
<1>2. CASE Dispatch(d, d)
  BY <1>2, DispatchLinks
<1>3. QED
  BY <1>1, <1>2 DEF LoopHead, Reconcile

(* Ending a connection, or the session that had it, spoils nothing. *)
LEMMA LinksStay ==
    ASSUME TypeOK, Links, LinkStaysOrEnds \/ (~HasSession' /\ waiter'.status # "connected"),
           session' = session \/ ~HasSession',
           waiter'.status = "connected" => waiter' = waiter,
           waiter'.status # "none" => pc' \in {"launching", "connecting", "releasing"}
    PROVE  Links'
<1>1. WaiterOfLink'
  <2>1. CASE waiter'.status = "connected"
    BY <2>1 DEF Links, WaiterOfLink, LinkStaysOrEnds
  <2>2. CASE waiter'.status # "connected"
    BY <2>2 DEF WaiterOfLink
  <2>3. QED
    BY <2>1, <2>2
<1>2. SessionOfLink'
  <2>1. CASE HasSession'
    <3>1. session' = session /\ LinkStaysOrEnds /\ HasSession
      BY <2>1 DEF HasSession
    <3>2. QED
      BY <3>1 DEF Links, SessionOfLink, LinkStaysOrEnds
  <2>2. CASE ~HasSession'
    BY <2>2 DEF SessionOfLink
  <2>3. QED
    BY <2>1, <2>2
<1>3. QED
  BY <1>1, <1>2 DEF Links

LEMMA LoopLinks ==
    ASSUME TypeOK, Links,
           \/ \E t \in Targets : Submit(t)
           \/ ResumeAfterRecovery \/ ResumeDispatch \/ ResumeAfterStop
           \/ Settle \/ Fail \/ WorkerDone
           \/ ResumeAbandonedStart \/ TransportClosed \/ UNCHANGED vars
    PROVE  Links'
<1>1. /\ session' = session /\ waiter' = waiter
      /\ pc' = pc \/ pc \notin {"launching", "connecting", "releasing"}
  BY DEF Submit, ResumeAfterRecovery, ResumeDispatch, ResumeAfterStop, Settle, Fail,
     WorkerDone, ResumeAbandonedStart, TransportClosed, vars, ownerVars, startVars, flowVars
<1>2. LinkStaysOrEnds
  <2>1. CASE transport' = transport
    BY <2>1 DEF LinkStaysOrEnds
  <2>2. ASSUME transport' # transport
        PROVE  \/ \E r, d : LoopHead(r, d)
               \/ \E t, d : Dispatch(t, d)
               \/ \E t, d, afterStop : Proceed(t, d, afterStop)
    BY <2>2 DEF Submit, ResumeAfterRecovery, ResumeDispatch, ResumeAfterStop, Settle, Fail,
       WorkerDone, ResumeAbandonedStart, AbandonedStart, TransportClosed, vars, flowVars,
       Reconcile
  <2>3. QED
    BY <2>1, <2>2, LoopHeadLinks, DispatchLinks, ProceedLinks
<1>3. waiter.status # "none" => pc' \in {"launching", "connecting", "releasing"}
  BY <1>1 DEF Links, WaiterOfLink
<1>4. QED
  BY <1>1, <1>2, <1>3, LinksStay

LEMMA StoppingLinks ==
    ASSUME Inv, Links, Stopping
    PROVE  Links'
<1>1. /\ pc \in {"stopUnconfirmed", "stopping", "grace", "replacingOnStop"}
      /\ waiter' = waiter
      /\ session' = session \/ session' = NoSession
      /\ transport' = transport \/ session' = NoSession \/ pc = "replacingOnStop"
  BY DEF Stopping, UnconfirmedStopped, UnconfirmedStopFails, SessionExitConfirmed,
     SessionExitUnconfirmed, GraceEnds, StopReplaced, ClearSession, startVars, ownerVars
<1>2. waiter.status = "none"
  BY <1>1 DEF Links, WaiterOfLink
<1>3. pc = "replacingOnStop" => ~HasSession
  BY DEF Inv, Ownership, StartAlone, BarePcs
<1>4. session' = NoSession => ~HasSession'
  BY DEF NoSession, HasSession
<1>5. transport' = transport => LinkStaysOrEnds
  BY DEF LinkStaysOrEnds
<1>6. session' = session => HasSession' = HasSession
  BY DEF HasSession
<1>7. QED
  BY <1>1, <1>2, <1>3, <1>4, <1>5, <1>6, LinksStay DEF Inv

LEMMA StartingLinks ==
    ASSUME Inv, Links, Walk, ~Stopping
    PROVE  Links'
<1>1. ~HasSession /\ session' = session
  <2>1. pc \in {"closing", "replacingOnStart", "opening", "resolving", "launching",
                "connecting", "releasing"}
    BY DEF Walk, CloseFails, StartReplaced, TransportOpened, OpenFails, OpenNoLongerWanted,
       Resolved, ResolveFails, Launched, LaunchFails, ConnectionFails,
       ConnectionNoLongerWanted, LeaseReleased, LeaseNotReleased, ConnectionAccepted
  <2>2. ~HasSession
    BY <2>1 DEF Inv, Ownership, StartAlone, BarePcs
  <2>3. session' = session
    BY DEF Walk, CloseFails, StartReplaced, TransportOpened, OpenFails, OpenNoLongerWanted,
       Resolved, ResolveFails, Launched, LaunchFails, ConnectionFails, ownerVars,
       ConnectionNoLongerWanted, LeaseReleased, LeaseNotReleased, ConnectionAccepted
  <2>4. QED
    BY <2>2, <2>3
<1>2. ~HasSession'
  BY <1>1 DEF HasSession
<1>3. NoWaiter.status = "none" /\ [NoWaiter EXCEPT !.status = "pending"].status = "pending"
  BY DEF NoWaiter
<1>4. CASE \/ CloseFails \/ \E throws \in BOOLEAN : StartReplaced(throws)
           \/ TransportOpened \/ OpenFails \/ OpenNoLongerWanted \/ ResolveFails
  <2>1. /\ waiter' = waiter
        /\ pc \in {"closing", "replacingOnStart", "opening", "resolving"}
    BY <1>4 DEF CloseFails, StartReplaced, TransportOpened, OpenFails, OpenNoLongerWanted,
       ResolveFails, startVars
  <2>2. waiter'.status = "none"
    BY <2>1 DEF Links, WaiterOfLink
  <2>3. QED
    BY <1>2, <2>2, LinksStay DEF Inv
<1>5. CASE Resolved
  <2>1. \/ waiter' = [NoWaiter EXCEPT !.status = "pending"] /\ pc' = "launching"
        \/ waiter' = waiter /\ pc = "resolving"
    BY <1>5 DEF Resolved, GoTo
  <2>2. \/ waiter'.status = "pending" /\ pc' = "launching"
        \/ waiter'.status = "none"
    BY <1>3, <2>1 DEF Links, WaiterOfLink
  <2>3. QED
    BY <1>2, <2>2, LinksStay DEF Inv
<1>6. CASE \/ Launched \/ ConnectionFails \/ ConnectionNoLongerWanted
           \/ (ConnectionAccepted /\ PeerMismatch)
  <2>1. waiter' = waiter /\ transport' = transport /\ pc' \in {"connecting", "releasing"}
    BY <1>6 DEF Launched, ConnectionFails, ConnectionNoLongerWanted, ConnectionAccepted, GoTo
  <2>2. LinkStaysOrEnds
    BY <2>1 DEF LinkStaysOrEnds
  <2>3. QED
    BY <1>1, <2>1, <2>2, LinksStay DEF Inv
<1>7. CASE LaunchFails \/ LeaseReleased \/ LeaseNotReleased
  <2>1. waiter'.status = "none"
    BY <1>3, <1>7 DEF LaunchFails, LeaseReleased, LeaseNotReleased
  <2>2. QED
    BY <1>2, <2>1, LinksStay DEF Inv
<1>8. QED
  BY <1>4, <1>5, <1>6, <1>7 DEF Walk

(* The session takes over what the waiter noted: the PIDs were compared. *)
LEMMA AcceptedLinks ==
    ASSUME Inv, Links, ConnectionAccepted, ~PeerMismatch
    PROVE  Links'
<1>1. /\ waiter.status = "connected" /\ waiter' = NoWaiter /\ transport' = transport
      /\ session' = [proc |-> lease, gen |-> waiter.gen]
      /\ VerifyPeerPid => waiter.peer = lease
  BY DEF ConnectionAccepted, PeerMismatch
<1>2. session'.proc = lease /\ session'.gen = waiter.gen /\ waiter'.status = "none"
  BY <1>1 DEF NoWaiter
<1>3. WaiterOfLink'
  BY <1>2 DEF WaiterOfLink
<1>4. SessionOfLink'
  BY <1>1, <1>2 DEF Links, WaiterOfLink, SessionOfLink
<1>5. QED
  BY <1>3, <1>4 DEF Links

LEMMA OutsideLinks ==
    ASSUME Inv, Links, Outside
    PROVE  Links'
<1>1. pc' = pc /\ (waiter.status # "none" => pc \in {"launching", "connecting", "releasing"})
  BY OutsideKeeps DEF Inv, Links, WaiterOfLink
<1>2. transport' = transport => LinkStaysOrEnds
  BY DEF LinkStaysOrEnds
<1>3. /\ waiter.status \in {"none", "pending", "connected", "failed"}
      /\ waiter = [f \in {"status", "gen", "peer"} |-> waiter[f]]
      /\ transport = [f \in {"state", "gen", "peer"} |-> transport[f]]
      /\ transport.gen \in Nat
  BY DEF Inv, TypeOK, Transports
<1>4. CASE HandleTransportEvent \/ RecoveryEnds \/ Spawn \/ \E p \in Procs : Die(p)
  <2>1. /\ transport' = transport /\ waiter' = waiter
        /\ session' = session \/ session' = NoSession
    BY <1>4 DEF HandleTransportEvent, RecoveryEnds, Spawn, Die, ClearSession, startVars,
       ownerVars, flowVars
  <2>2. session' = NoSession => ~HasSession'
    BY DEF NoSession, HasSession
  <2>3. QED
    BY <1>1, <1>2, <2>1, <2>2, LinksStay DEF Inv
<1>5. CASE WaiterTimesOut
  <2>1. /\ transport' = transport /\ session' = session /\ waiter.status = "pending"
        /\ waiter' = [waiter EXCEPT !.status = "failed"]
    BY <1>5 DEF WaiterTimesOut, ownerVars, flowVars
  <2>2. waiter'.status = "failed"
    BY <1>3, <2>1
  <2>3. QED
    BY <1>1, <1>2, <2>1, <2>2, LinksStay DEF Inv
<1>6. CASE TransportBinds \/ TransportDisconnects \/ TransportFails
  <2>1. /\ session' = session
        /\ \/ transport' = [transport EXCEPT !.state = "ready"]
           \/ transport' = [transport EXCEPT !.state = "ready", !.peer = NoProc]
           \/ transport' = [transport EXCEPT !.state = "failed", !.peer = NoProc]
        /\ \/ waiter' = waiter
           \/ waiter.status = "pending" /\ waiter' = [status |-> "failed", gen |-> 0, peer |-> NoProc]
    BY <1>6 DEF TransportBinds, TransportDisconnects, TransportFails, Notify, ownerVars,
       startVars
  <2>2. LinkStaysOrEnds
    <3>1. transport'.gen = transport.gen /\ transport'.state \in {"ready", "failed"}
      BY <1>3, <2>1
    <3>2. QED
      BY <3>1 DEF LinkStaysOrEnds
  <2>3. waiter' = waiter \/ (waiter'.status = "failed" /\ waiter.status = "pending")
    BY <2>1
  <2>4. QED
    BY <1>1, <2>1, <2>2, <2>3, LinksStay DEF Inv
<1>7. ASSUME NEW p \in Procs, TransportConnects(p)
      PROVE  Links'
  <2>1. /\ session' = session
        /\ transport' = [state |-> "connected", gen |-> transport.gen + 1, peer |-> p]
        /\ \/ waiter' = waiter /\ waiter.status # "pending"
           \/ /\ waiter.status = "pending"
              /\ waiter' = [status |-> "connected", gen |-> transport.gen + 1, peer |-> p]
    BY <1>7 DEF TransportConnects, Notify, ownerVars
  <2>2. /\ transport'.gen = transport.gen + 1 /\ transport'.peer = p
        /\ \/ waiter' = waiter
           \/ /\ waiter.status = "pending" /\ waiter'.status = "connected"
              /\ waiter'.gen = transport.gen + 1 /\ waiter'.peer = p
    BY <2>1
  <2>3. waiter.gen \in Nat /\ session.gen \in Nat
    BY DEF Inv, TypeOK
  <2>4. WaiterOfLink'
    BY <1>1, <1>3, <2>2, <2>3 DEF Links, WaiterOfLink
  <2>5. SessionOfLink'
    BY <1>3, <2>1, <2>2, <2>3 DEF Links, SessionOfLink, HasSession
  <2>6. QED
    BY <2>4, <2>5 DEF Links
<1>8. QED
  BY <1>4, <1>5, <1>6, <1>7 DEF Outside, Environment

LEMMA LinksNext == Inv /\ Links /\ [Next]_vars => Links'
<1> SUFFICES ASSUME Inv, Links, [Next]_vars PROVE Links'
  OBVIOUS
<1>1. CASE Walk
  BY <1>1, StoppingLinks, StartingLinks
<1>2. QED
  BY <1>1, Steps, LoopLinks, AcceptedLinks, OutsideLinks DEF Inv

LEMMA InitLinks == Init => Links
  BY DEF Init, Links, WaiterOfLink, SessionOfLink, HasSession, NoWaiter, NoSession

LEMMA AnswersInvariance == Spec => [](Inv /\ Answers /\ Links)
<1>1. Init => Inv /\ Answers /\ Links
  BY InitTyped, InitOwns, InitAnswers, InitLinks DEF Inv
<1>2. Inv /\ Answers /\ Links /\ [Next]_vars => Inv' /\ Answers' /\ Links'
  BY InvInductive, AnswersNext, LinksNext
<1>3. QED
  BY <1>1, <1>2, PTL DEF Spec

(* What a caller is told is true once the worker rests: an applied start    *)
(* runs or has crashed since, an applied stop left no Core alive that the   *)
(* lifecycle could stop, an applied close closed, and where the PIDs are    *)
(* verified the peer of the running session is the process of its lease.    *)
THEOREM AnswersStayTrue == Spec => []AnswersAreTrue
<1>1. ASSUME Inv, Answers, Links
      PROVE  AnswersAreTrue
  <2>1. AppliedIsTrue
    <3> SUFFICES ASSUME pc = "none", revision \in Revisions, outcome[revision] = "applied"
                 PROVE  /\ Runs(Desired) => phase \in {"running", "failed"}
                        /\ Desired = "stopped" => /\ ~HasSession
                                                  /\ \A p \in Procs : Live(p) => p \in orphans
                        /\ Desired = "closed" => phase = "closed" /\ transport.state = "closed"
      BY DEF AppliedIsTrue
    <3>1. /\ Runs(Desired) => phase \in {"running", "failed"}
          /\ Desired = "stopped" => Unheld
          /\ Desired = "closed" => phase = "closed" /\ transport.state = "closed"
      BY <1>1 DEF Answers, Kept, ClosedIsLast
    <3>2. lease = NoProc
      BY <1>1 DEF Inv, Ownership, StartAlone
    <3>3. Unheld => Held = {}
      BY <3>2 DEF Unheld, Held, HasSession
    <3>4. QED
      BY <1>1, <3>1, <3>3 DEF Inv, NoCoreForgotten, Unheld
  <2>2. PeerIsLease
    BY <1>1 DEF PeerIsLease, Links, SessionOfLink, Inv, Ownership, SessionAlone
  <2>3. QED
    BY <2>1, <2>2 DEF AnswersAreTrue
<1>2. QED
  BY <1>1, AnswersInvariance, PTL

-----------------------------------------------------------------------------
(* The promise to the callers: every step of the lifecycle is a step of     *)
(* LatestIntent, or changes nothing that callers see.                       *)

(* The Core as callers see it. *)
Core == IF phase = "running" \/ ReachedRunning THEN "up"
        ELSE IF phase = "closed" THEN "closed" ELSE "down"

LEMMA CoreCases ==
    ASSUME Answers
    PROVE  /\ Core \in {"up", "down", "closed"}
           /\ Core = "up" <=> phase = "running" \/ ReachedRunning
           /\ Core = "closed" <=> phase = "closed"
           /\ pc # "settling" => (Core = "up" <=> phase = "running")
<1>1. ReachedRunning => phase # "closed"
  BY DEF ReachedRunning, Fulfils, Answers, ClosedIsLast
<1>2. QED
  BY <1>1 DEF Core, ReachedRunning

(* The two specifications speak of the same intents. *)
LEMMA SameIntents ==
    /\ Promised!Revisions = Revisions /\ Promised!Targets = Targets
    /\ Promised!Newest = Desired
    /\ \A t : Promised!Runs(t) = Runs(t)
    /\ Promised!promiseVars = <<revision, target, outcome, Core>>
  BY DEF Promised!Revisions, Revisions, Promised!Targets, Targets, Promised!Newest, Desired,
     TargetOf, Promised!Runs, Runs, Promised!promiseVars, Core

(* Turning to an intent never brings the Core up. *)
LEMMA TurnedCore ==
    ASSUME Answers, NEW t, Turned(t)
    PROVE  Core' = "down" \/ (Core' = "up" /\ Core = "up")
<1>1. ReachedRunning' => phase' = "running"
  BY DEF ReachedRunning, Fulfils, Turned
<1>2. QED
  BY <1>1 DEF Turned, Core

(* A running Core stays for an intent it already satisfies. *)
LEMMA RunningStays ==
    ASSUME Inv, phase = "running", NEW r, LoopHead(r, "running")
    PROVE  phase' = "running"
<1>1. HasSession /\ unconfirmed = NoProc /\ recovery = NoProc
  BY DEF Inv, Ownership, SessionAlone, UnconfirmedAlone, RecoveryAlone
<1>2. Dispatch("running", "running")
  BY <1>1 DEF LoopHead, Reconcile
<1>3. QED
  BY <1>1, <1>2 DEF Dispatch

LEMMA SubmitPromised ==
    ASSUME Inv, Answers, NEW t \in Targets, Submit(t)
    PROVE  Promised!Accept(t)
<1>1. /\ revision < MaxRevision /\ Desired # "closed" /\ revision' = revision + 1
      /\ target' = [target EXCEPT ![revision + 1] = t]
      /\ outcome' = [outcome EXCEPT ![revision + 1] = "pending"]
  BY DEF Submit, Accepting, TerminalRequested
<1>2. phase # "closed" /\ Core \in {"up", "down"}
  BY <1>1, CoreCases DEF Answers, ClosedIsLast
<1>3. Core' = Core \/ (Core = "up" /\ t # "running" /\ Core' = "down")
  <2>1. CASE pc = "none" /\ LoopHead(revision + 1, t)
    <3>1. Turned(t)
      BY <1>2, <2>1, LoopHeadTurns
    <3>2. Core' = "down" \/ (Core' = "up" /\ Core = "up")
      BY <3>1, TurnedCore
    <3>3. t = "running" /\ Core = "up" => Core' = "up"
      BY <2>1, CoreCases, RunningStays DEF Core
    <3>4. QED
      BY <1>2, <3>2, <3>3
  <2>2. CASE UNCHANGED <<intent, flowVars>>
    BY <2>2 DEF flowVars, Core, ReachedRunning
  <2>3. QED
    BY <2>1, <2>2 DEF Submit
<1>4. QED
  BY <1>1, <1>3, SameIntents DEF Promised!Accept, Core

(* The Core may go down, and nothing else may change. *)
LEMMA DownPromised ==
    ASSUME UNCHANGED <<revision, target, outcome>>,
           Core' = Core \/ (Core = "up" /\ Core' = "down")
    PROVE  [Promised!PromiseNext]_(Promised!promiseVars)
<1>1. CASE Core' = Core
  BY <1>1 DEF Promised!promiseVars, Core
<1>2. CASE Core = "up" /\ Core' = "down"
  BY <1>2 DEF Promised!PromiseNext, Promised!GoesDown, Core
<1>3. QED
  BY <1>1, <1>2

LEMMA ResumePromised ==
    ASSUME Inv, Answers,
           \/ ResumeAfterRecovery \/ ResumeDispatch \/ ResumeAfterStop
           \/ (WorkerDone /\ Pending # {})
    PROVE  [Promised!PromiseNext]_(Promised!promiseVars)
<1>1. /\ pc \in {"awaitRecovery", "dispatching", "stopped", "exiting"} /\ phase # "closed"
      /\ UNCHANGED <<revision, target, outcome>>
  BY DEF ResumeAfterRecovery, ResumeDispatch, ResumeAfterStop, WorkerDone, Answers,
     ClosedIsLast, ledgerVars
<1>2. Core \in {"up", "down"}
  BY <1>1, CoreCases
<1>3. Desired \in Targets /\ TargetOf(intent) \in Targets
  BY DesiredTyped DEF Inv, TypeOK, Desired
<1>4. \E t : Turned(t)
  <2>1. CASE ResumeAfterRecovery \/ (WorkerDone /\ Pending # {})
    <3>1. LoopHead(revision, Desired)
      BY <2>1 DEF ResumeAfterRecovery, WorkerDone, LoopHead
    <3>2. QED
      BY <1>1, <1>3, <3>1, LoopHeadTurns
  <2>2. CASE ResumeDispatch \/ ResumeAfterStop
    <3>1. Unheld
      BY <2>2 DEF ResumeDispatch, ResumeAfterStop, Inv, Ownership, StartAlone, BarePcs, Unheld
    <3>2. QED
      BY <1>1, <1>3, <2>2, <3>1, DispatchTurns, ProceedTurns
         DEF ResumeDispatch, ResumeAfterStop, Unheld
  <2>3. QED
    BY <2>1, <2>2
<1>5. Core' = Core \/ (Core = "up" /\ Core' = "down")
  BY <1>2, <1>4, TurnedCore
<1>6. QED
  BY <1>1, <1>5, DownPromised

LEMMA SettlePromised ==
    ASSUME Inv, Answers, Settle
    PROVE  [Promised!PromiseNext]_(Promised!promiseVars)
<1>1. pc = "settling" /\ UNCHANGED <<revision, target>>
  BY DEF Settle
<1>2. Desired \in Targets
  BY DesiredTyped DEF Inv, TypeOK, Desired
<1>3. CASE Satisfies(achieved, Desired)
  <2>1. CompleteCommands /\ pc' = "exiting" /\ phase' = phase
    BY <1>3 DEF Settle, GoTo
  <2>2. outcome' = [r \in Promised!Revisions |->
          IF outcome[r] # "pending" THEN outcome[r]
          ELSE IF r = revision THEN "applied"
          ELSE IF target[r] = Desired \/ (Runs(target[r]) /\ Runs(Desired)) THEN "coalesced"
          ELSE "superseded"]
    BY <2>1, SameIntents DEF CompleteCommands, OutcomeOf, TargetsCoalesce
  <2>3. \/ Runs(Desired) /\ Core = "up"
        \/ Desired = "stopped" /\ Core = "down"
        \/ Desired = "closed" /\ Core = "closed"
    <3>1. CASE Runs(Desired)
      BY <1>1, <1>3, <3>1, CoreCases DEF Satisfies, Fulfils, Runs, ReachedRunning
    <3>2. CASE Desired = "stopped"
      <4>1. achieved = "idle" /\ Unheld
        BY <1>1, <1>3, <3>2 DEF Satisfies, Fulfils, Answers, Reached
      <4>2. phase \notin {"running", "closed"}
        BY <1>1, <4>1 DEF Inv, Ownership, SessionAlone, Unheld, Answers, ClosedIsLast
      <4>3. QED
        BY <3>2, <4>1, <4>2 DEF Core, ReachedRunning, Fulfils
    <3>3. CASE Desired = "closed"
      <4>1. achieved = "closed" /\ phase = "closed"
        BY <1>1, <1>3, <3>3 DEF Satisfies, Fulfils, Answers, Reached
      <4>2. QED
        BY <3>3, <4>1, CoreCases
    <3>4. QED
      BY <1>2, <3>1, <3>2, <3>3 DEF Targets, Runs
  <2>4. Core' = Core \/ (Core = "up" /\ Core' = "down")
    BY <1>1, <2>1, CoreCases DEF Core, ReachedRunning, Answers, Reached, Fulfils
  <2>5. Promised!Answer
    BY <1>1, <2>2, <2>3, <2>4, SameIntents DEF Promised!Answer, Promised!Achieved, Core
  <2>6. QED
    BY <2>5 DEF Promised!PromiseNext
<1>4. CASE ~Satisfies(achieved, Desired)
  <2>1. LoopHead(revision, Desired) /\ outcome' = outcome
    BY <1>4 DEF Settle
  <2>2. phase # "closed"
    BY <1>1, <1>4 DEF Answers, ClosedIsLast, Satisfies, Fulfils
  <2>3. Core \in {"up", "down"} /\ Turned(Desired)
    BY <1>2, <2>1, <2>2, CoreCases, LoopHeadTurns
  <2>4. Core' = Core \/ (Core = "up" /\ Core' = "down")
    BY <2>3, TurnedCore
  <2>5. QED
    BY <1>1, <2>1, <2>4, DownPromised
<1>5. QED
  BY <1>3, <1>4

LEMMA FailPromised ==
    ASSUME Inv, Answers, Fail
    PROVE  [Promised!PromiseNext]_(Promised!promiseVars)
<1>1. /\ pc = "failing" /\ UNCHANGED <<revision, target>>
      /\ intent \in Revisions /\ intent <= revision /\ phase \notin {"running", "closed"}
  BY DEF Fail, Answers, Works, ClosedIsLast, Inv, Ownership, SessionAlone
<1>2. Core = "down"
  BY <1>1 DEF Core, ReachedRunning
<1>3. Core' = "down"
  <2>1. CASE Outdated
    <3>1. Desired \in Targets /\ LoopHead(revision, Desired)
      BY <2>1, DesiredTyped DEF Fail, Inv, TypeOK, Desired
    <3>2. QED
      BY <1>1, <1>2, <3>1, LoopHeadTurns, TurnedCore
  <2>2. CASE ~Outdated
    BY <2>2 DEF Fail, GoTo, Core, ReachedRunning
  <2>3. QED
    BY <2>1, <2>2
<1>4. CASE outcome' = outcome
  BY <1>1, <1>2, <1>3, <1>4, DownPromised
<1>5. CASE FailCommands(intent) /\ (intent = revision \/ Desired # "closed")
  <2>1. outcome' = [r \in Promised!Revisions |->
          IF outcome[r] = "pending" /\ r <= intent THEN "failed" ELSE outcome[r]]
    BY <1>5, SameIntents DEF FailCommands
  <2>2. intent \in Promised!Revisions
    BY <1>1, SameIntents
  <2>3. Promised!Refuse
    BY <1>1, <1>2, <1>3, <1>5, <2>1, <2>2, SameIntents DEF Promised!Refuse, Core
  <2>4. QED
    BY <2>3 DEF Promised!PromiseNext
<1>6. QED
  BY <1>4, <1>5 DEF Fail, Outdated, TerminalRequested

(* The end of a start, of an abandoned one and of a close. *)
LEMMA ReachPromised ==
    ASSUME Inv, Answers,
           ResumeAbandonedStart \/ TransportClosed \/ (ConnectionAccepted /\ ~PeerMismatch)
    PROVE  [Promised!PromiseNext]_(Promised!promiseVars)
<1>1. /\ pc \in {"abandoning", "closing", "connecting"} /\ pc' = "settling"
      /\ UNCHANGED <<revision, target, outcome>>
  BY DEF ResumeAbandonedStart, AbandonedStart, TransportClosed, ConnectionAccepted, Return,
     GoTo, ledgerVars
<1>2. Core = "down" /\ phase \notin {"running", "closed"}
  BY <1>1 DEF Core, ReachedRunning, Inv, Ownership, SessionAlone, Answers, ClosedIsLast
<1>3. CASE ResumeAbandonedStart
  <2>1. achieved' = "idle" /\ phase' \notin {"running", "closed"}
    BY <1>2, <1>3 DEF ResumeAbandonedStart, AbandonedStart, Return
  <2>2. Core' = "down"
    BY <2>1 DEF Core, ReachedRunning, Fulfils
  <2>3. QED
    BY <1>1, <1>2, <2>2, DownPromised
<1>4. CASE TransportClosed
  <2>1. pc = "closing" /\ achieved' = "closed" /\ phase' = "closed"
    BY <1>4 DEF TransportClosed, Return
  <2>2. Desired = "closed"
    BY <2>1, CloseIsNewest DEF Inv, Answers, Works, ClosedIsLast
  <2>3. Core' = "closed"
    BY <2>1 DEF Core, ReachedRunning, Fulfils
  <2>4. Promised!Closes
    BY <1>1, <1>2, <2>2, <2>3, SameIntents DEF Promised!Closes, Core
  <2>5. QED
    BY <2>4 DEF Promised!PromiseNext
<1>5. CASE ConnectionAccepted /\ ~PeerMismatch
  <2>1. phase' = "running" /\ Runs(Desired)
    BY <1>5 DEF ConnectionAccepted, WantsRunning
  <2>2. Core' = "up"
    BY <2>1 DEF Core
  <2>3. Promised!ComesUp
    BY <1>1, <1>2, <2>1, <2>2, SameIntents DEF Promised!ComesUp, Core
  <2>4. QED
    BY <2>3 DEF Promised!PromiseNext
<1>6. QED
  BY <1>3, <1>4, <1>5

(* Everything else goes on behind the callers' backs, but for a crash. *)
LEMMA BehindPromised ==
    ASSUME Inv, Answers,
           Walk \/ (WorkerDone /\ Pending = {}) \/ Outside \/ UNCHANGED vars
    PROVE  [Promised!PromiseNext]_(Promised!promiseVars)
<1>1. CASE Walk \/ (WorkerDone /\ Pending = {})
  <2>1. /\ pc # "settling" /\ pc' # "settling" /\ phase' = phase
        /\ UNCHANGED <<revision, target, outcome>>
    BY <1>1, WalkKeeps DEF RestPcs, WorkerDone, GoTo, ledgerVars, Inv
  <2>2. Core' = Core
    BY <2>1 DEF Core, ReachedRunning
  <2>3. QED
    BY <2>1, <2>2, DownPromised
<1>2. CASE Outside \/ UNCHANGED vars
  <2>1. /\ UNCHANGED <<revision, target, outcome, pc, achieved>>
        /\ phase' = phase \/ (phase = "running" /\ phase' = "failed")
    BY <1>2, OutsideKeeps DEF Inv
  <2>2. Core' = Core \/ (Core = "up" /\ Core' = "down")
    BY <2>1 DEF Core, ReachedRunning
  <2>3. QED
    BY <2>1, <2>2, DownPromised
<1>3. QED
  BY <1>1, <1>2

LEMMA StepPromised ==
    ASSUME Inv, Answers, [Next]_vars
    PROVE  [Promised!PromiseNext]_(Promised!promiseVars)
<1>1. ASSUME NEW t \in Targets, Submit(t)
      PROVE  [Promised!PromiseNext]_(Promised!promiseVars)
  BY <1>1, SubmitPromised, SameIntents DEF Promised!PromiseNext
<1>2. CASE WorkerDone
  BY <1>2, ResumePromised, BehindPromised
<1>3. QED
  BY <1>1, <1>2, Steps, ResumePromised, SettlePromised, FailPromised, ReachPromised,
     BehindPromised

LEMMA InitPromised == Init => Promised!PromiseInit
  BY SameIntents DEF Init, Promised!PromiseInit, ReachedRunning

(* The lifecycle implements the promise to its callers, for every number of *)
(* intents and launches: the newest intent decides what the Core may do,    *)
(* nothing is accepted after a close, each command is answered as applied,  *)
(* coalesced, superseded or failed just when LatestIntent allows it, and a  *)
(* failure met by a close waits for the close (_submit, _completeCommands,  *)
(* _failCommands).                                                          *)
THEOREM PromiseIsKept == Spec => KeepsPromise
<1>1. Inv /\ Answers /\ [Next]_vars => [Promised!PromiseNext]_(Promised!promiseVars)
  BY StepPromised
<1>2. QED
  BY <1>1, InitPromised, AnswersInvariance, PTL DEF Spec, KeepsPromise, Promised!Promise

=============================================================================
