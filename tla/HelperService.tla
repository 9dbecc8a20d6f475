---------------------------- MODULE HelperService ----------------------------
(***************************************************************************)
(* The privileged Helper (services/helper/src/service/hub.rs) and its only *)
(* client, HelperLauncher and HelperCoreLease of                           *)
(* lib/core/desktop/helper_client.dart.  Each /start and /stop request     *)
(* runs on a thread of the blocking pool and works under one mutex, around *)
(* the slot MANAGED_CORE; the threads take it in any order.  The client    *)
(* works on one session at a time, gives up on answers that come late, and *)
(* never withdraws a request it gave up on.                                *)
(***************************************************************************)
EXTENDS Naturals, FiniteSets

CONSTANTS
    MaxSession,     \* bound on the sessions the client starts
    MaxStop,        \* bound on the stop requests sent for one session
    MaxCrash,       \* bound on the ends of the Helper process
    JobConfined     \* TRUE on Windows, where adopting the Core may fail

ASSUME HelperAssumption ==
    /\ MaxSession \in Nat
    /\ MaxStop \in Nat
    /\ MaxCrash \in Nat
    /\ JobConfined \in BOOLEAN

Sessions == 1..MaxSession
NoSession == 0

(* A request is named by its session and a number: 0 is its /start. *)
Requests == Sessions \X (0..MaxStop)
StartOf(s) == <<s, 0>>
NoRequest == <<0, 0>>
IsStart(r) == r[2] = 0

Stages == {"unsent", "waiting", "releasing", "verifying", "spawning",
           "adopting", "done"}
Answers == {"none", "ok", "notRunning", "sessionMismatch", "coreStopFailed",
            "coreVerificationFailed", "processLaunchFailed", "internalError",
            "transportError"}

VARIABLES
    core,       \* the Core process of each session: none, running or exited
    managed,    \* MANAGED_CORE: the session whose child it holds
    unconfined, \* history: sessions whose child the Helper failed to adopt
    holder,     \* the request whose thread holds the mutex
    stage,      \* how far the thread of each request is
    answer,     \* the answer of each request, once done
    crashes,    \* how often the Helper process ended
    session,    \* the client's newest session
    step,       \* what the client is doing with it
    heard,      \* the error a start failed with, until it is rethrown
    stops,      \* stop requests the client sent for it
    confirmed,  \* history: sessions whose exit the client took for confirmed
    direct      \* the direct Core the client fell back to is running

helperVars == <<core, managed, unconfined, holder, stage, answer, crashes>>
clientVars == <<session, step, heard, stops, confirmed, direct>>
vars == <<core, managed, unconfined, holder, stage, answer, crashes,
          session, step, heard, stops, confirmed, direct>>

-----------------------------------------------------------------------------
TypeOK ==
    /\ core \in [Sessions -> {"none", "running", "exited"}]
    /\ managed \in 0..MaxSession
    /\ unconfined \in SUBSET Sessions
    /\ holder \in Requests \cup {NoRequest}
    /\ stage \in [Requests -> Stages]
    /\ answer \in [Requests -> Answers]
    /\ crashes \in 0..MaxCrash
    /\ session \in 0..MaxSession
    /\ step \in {"idle", "starting", "abandoning", "leased", "stopping", "direct"}
    /\ heard \in Answers
    /\ stops \in 0..MaxStop
    /\ confirmed \in SUBSET Sessions
    /\ direct \in BOOLEAN

Init ==
    /\ core = [s \in Sessions |-> "none"]
    /\ managed = NoSession
    /\ unconfined = {}
    /\ holder = NoRequest
    /\ stage = [r \in Requests |-> "unsent"]
    /\ answer = [r \in Requests |-> "none"]
    /\ crashes = 0
    /\ session = 0
    /\ step = "idle"
    /\ heard = "none"
    /\ stops = 0
    /\ confirmed = {}
    /\ direct = FALSE

-----------------------------------------------------------------------------
(* The Helper. *)

Send(r) == stage' = [stage EXCEPT ![r] = "waiting"]

(* The thread answers and drops the guard of the mutex. *)
Answer(r, code) ==
    /\ stage' = [stage EXCEPT ![r] = "done"]
    /\ answer' = [answer EXCEPT ![r] = code]
    /\ holder' = NoRequest

Advance(r, next) ==
    /\ stage' = [stage EXCEPT ![r] = next]
    /\ UNCHANGED <<answer, holder>>

(* A launch that spawns next to the Core it manages. *)
LaunchWithoutRelease(r) ==
    /\ IsStart(r)
    /\ holder = NoRequest
    /\ stage[r] = "waiting"
    /\ holder' = r
    /\ stage' = [stage EXCEPT ![r] = "verifying"]
    /\ UNCHANGED <<core, managed, unconfined, answer, crashes, clientVars>>

(* launch takes the mutex and releases the managed Core before all else. *)
LaunchTakesLock(r) ==
    /\ IsStart(r)
    /\ holder = NoRequest
    /\ stage[r] = "waiting"
    /\ holder' = r
    /\ stage' = [stage EXCEPT ![r] = IF managed = NoSession THEN "verifying"
                                                            ELSE "releasing"]
    /\ UNCHANGED <<core, managed, unconfined, answer, crashes, clientVars>>

(* stop_decision *)
StopDecision(current, requested) ==
    IF current = NoSession THEN "notRunning"
    ELSE IF current = requested THEN "stop"
    ELSE "sessionMismatch"

(* stop_core takes the mutex; it terminates its own session's Core only. *)
StopTakesLock(r) ==
    /\ ~IsStart(r)
    /\ holder = NoRequest
    /\ stage[r] = "waiting"
    /\ LET decision == StopDecision(managed, r[1]) IN
         IF decision = "stop"
           THEN /\ holder' = r
                /\ stage' = [stage EXCEPT ![r] = "releasing"]
                /\ UNCHANGED answer
           ELSE Answer(r, decision)
    /\ UNCHANGED <<core, managed, unconfined, crashes, clientVars>>

(* terminate saw the child exit: the slot is cleared. *)
Released(r) ==
    /\ holder = r
    /\ stage[r] = "releasing"
    /\ core[managed] = "exited"
    /\ managed' = NoSession
    /\ IF IsStart(r) THEN Advance(r, "verifying") ELSE Answer(r, "ok")
    /\ UNCHANGED <<core, unconfined, crashes, clientVars>>

(* The child outlived the kill or could not be waited on: the slot keeps it. *)
ManagedAfterFailure == managed' = managed

(* A failed release that keeps the mutex. *)
ReleaseFailsHolding(r) ==
    /\ holder = r
    /\ stage[r] = "releasing"
    /\ stage' = [stage EXCEPT ![r] = "done"]
    /\ answer' = [answer EXCEPT ![r] = "coreStopFailed"]
    /\ UNCHANGED <<core, managed, unconfined, holder, crashes, clientVars>>

ReleaseFails(r) ==
    /\ holder = r
    /\ stage[r] = "releasing"
    /\ Answer(r, "coreStopFailed")
    /\ ManagedAfterFailure
    /\ UNCHANGED <<core, unconfined, crashes, clientVars>>

(* VerifiedCore::open *)
Verified(r) ==
    /\ holder = r
    /\ stage[r] = "verifying"
    /\ Advance(r, "spawning")
    /\ UNCHANGED <<core, managed, unconfined, crashes, clientVars>>

VerificationFails(r) ==
    /\ holder = r
    /\ stage[r] = "verifying"
    /\ Answer(r, "coreVerificationFailed")
    /\ UNCHANGED <<core, managed, unconfined, crashes, clientVars>>

(* core.spawn *)
Spawned(r) ==
    /\ holder = r
    /\ stage[r] = "spawning"
    /\ core' = [core EXCEPT ![r[1]] = "running"]
    /\ Advance(r, "adopting")
    /\ UNCHANGED <<managed, unconfined, crashes, clientVars>>

SpawnFails(r) ==
    /\ holder = r
    /\ stage[r] = "spawning"
    /\ Answer(r, "processLaunchFailed")
    /\ UNCHANGED <<core, managed, unconfined, crashes, clientVars>>

(* ManagedCore::adopt *)
Adopted(r) ==
    /\ holder = r
    /\ stage[r] = "adopting"
    /\ managed' = r[1]
    /\ Answer(r, "ok")
    /\ UNCHANGED <<core, unconfined, crashes, clientVars>>

(* The child is dropped without a kill; the slot was cleared by the release. *)
AdoptionFails(r) ==
    /\ JobConfined
    /\ holder = r
    /\ stage[r] = "adopting"
    /\ unconfined' = unconfined \cup {r[1]}
    /\ Answer(r, "internalError")
    /\ UNCHANGED <<core, managed, crashes, clientVars>>

(* reap_exited_core: the thread that read the child's stderr to its end     *)
(* polls for the exit under the mutex, for its own session only.            *)
Reaps(s) == managed = s

Reap(s) ==
    /\ holder = NoRequest
    /\ core[s] = "exited"
    /\ Reaps(s)
    /\ managed' = NoSession
    /\ UNCHANGED <<core, unconfined, holder, stage, answer, crashes, clientVars>>

(* A Core exits by itself, or of the signal it was sent. *)
CoreExits(s) ==
    /\ core[s] = "running"
    /\ core' = [core EXCEPT ![s] = "exited"]
    /\ UNCHANGED <<managed, unconfined, holder, stage, answer, crashes, clientVars>>

(* Everything in the Helper's control group or job dies with the Helper.    *)
DiesWithHelper(s) ==
    core[s] = "running" /\ (~JobConfined \/ managed = s)

(* The Helper process ends, in whatever the threads were doing, and the     *)
(* service manager starts it again.                                         *)
HelperEnds ==
    /\ crashes < MaxCrash
    /\ crashes' = crashes + 1
    /\ core' = [s \in Sessions |-> IF DiesWithHelper(s) THEN "exited" ELSE core[s]]
    /\ unconfined' = unconfined \cup {s \in Sessions : core'[s] = "running"}
    /\ managed' = NoSession
    /\ holder' = NoRequest
    /\ LET lost == {r \in Requests : stage[r] \notin {"unsent", "done"}} IN
         /\ stage' = [r \in Requests |-> IF r \in lost THEN "done" ELSE stage[r]]
         /\ answer' = [r \in Requests |->
                         IF r \in lost THEN "transportError" ELSE answer[r]]
    /\ UNCHANGED clientVars

-----------------------------------------------------------------------------
(* The client: HelperLauncher.start and HelperCoreLease.stop. *)

PreSpawnErrors == {"coreVerificationFailed", "processLaunchFailed"}

(* What the client knows of request r: its answer, or that it gives up.     *)
Hears(r, code) ==
    \/ stage[r] = "done" /\ code = answer[r]
    \/ code = "transportError"

MoreSessions == session < MaxSession

ClientStarts ==
    /\ step = "idle"
    /\ MoreSessions
    /\ session' = session + 1
    /\ step' = "starting"
    /\ stops' = 0
    /\ Send(StartOf(session + 1))
    /\ UNCHANGED <<core, managed, unconfined, holder, answer, crashes,
                   heard, confirmed, direct>>

StartSucceeds ==
    /\ step = "starting"
    /\ stage[StartOf(session)] = "done"
    /\ answer[StartOf(session)] = "ok"
    /\ step' = "leased"
    /\ UNCHANGED <<helperVars, session, heard, stops, confirmed, direct>>

(* A start that failed, or whose answer never came, is stopped once, and    *)
(* the outcome of that stop is ignored.                                     *)
StartFails(code) ==
    /\ step = "starting"
    /\ code # "ok"
    /\ Hears(StartOf(session), code)
    /\ stops < MaxStop
    /\ step' = "abandoning"
    /\ heard' = code
    /\ stops' = stops + 1
    /\ Send(<<session, stops + 1>>)
    /\ UNCHANGED <<core, managed, unconfined, holder, answer, crashes,
                   session, confirmed, direct>>

(* The error is rethrown, and FallbackCoreLauncher launches the direct Core *)
(* if it is a pre-spawn failure the Helper reported.                        *)
FallsBack(code) == code \in PreSpawnErrors

StartAbandoned ==
    /\ step = "abandoning"
    /\ heard' = "none"
    /\ direct' = FallsBack(heard)
    /\ step' = IF FallsBack(heard) THEN "direct" ELSE "idle"
    /\ UNCHANGED <<helperVars, session, stops, confirmed>>

(* The direct Core is stopped through its own lease. *)
DirectStops ==
    /\ step = "direct"
    /\ step' = "idle"
    /\ direct' = FALSE
    /\ UNCHANGED <<helperVars, session, heard, stops, confirmed>>

LeaseStops ==
    /\ step = "leased"
    /\ stops < MaxStop
    /\ step' = "stopping"
    /\ stops' = stops + 1
    /\ Send(<<session, stops + 1>>)
    /\ UNCHANGED <<core, managed, unconfined, holder, answer, crashes,
                   session, heard, confirmed, direct>>

(* exitConfirmed: the Helper stopped it, knows of none, or cannot be        *)
(* reached while the OS says that the process is gone.                      *)
ConfirmsAll(code) == code # "coreStopFailed"
Confirms(code) ==
    \/ code \in {"ok", "notRunning"}
    \/ code = "transportError" /\ core[session] # "running"

(* The lease's stop returns, whether or not it could confirm the exit. *)
LeaseStopped(code) ==
    /\ step = "stopping"
    /\ Hears(<<session, stops>>, code)
    /\ IF Confirms(code)
         THEN step' = "idle" /\ confirmed' = confirmed \cup {session}
         ELSE step' = "leased" /\ UNCHANGED confirmed
    /\ UNCHANGED <<helperVars, session, heard, stops, direct>>

-----------------------------------------------------------------------------
Thread(r) ==
    \/ LaunchTakesLock(r) \/ StopTakesLock(r)
    \/ Released(r) \/ ReleaseFails(r)
    \/ Verified(r) \/ VerificationFails(r)
    \/ Spawned(r) \/ SpawnFails(r)
    \/ Adopted(r) \/ AdoptionFails(r)

Client ==
    \/ ClientStarts \/ StartSucceeds
    \/ \E code \in Answers : StartFails(code) \/ LeaseStopped(code)
    \/ StartAbandoned \/ DirectStops \/ LeaseStops

Next ==
    \/ \E r \in Requests : Thread(r)
    \/ \E s \in Sessions : Reap(s) \/ CoreExits(s)
    \/ HelperEnds
    \/ Client

(* Threads run to their end: their waits are bounded and the mutex is held  *)
(* by one of them.  The client's waits end by its receive timeouts.  No     *)
(* Core exits on demand and the Helper need not end.                        *)
Fairness ==
    /\ \A r \in Requests : WF_vars(Thread(r))
    /\ WF_vars(StartSucceeds \/ \E code \in Answers : StartFails(code))
    /\ WF_vars(\E code \in Answers : LeaseStopped(code))
    /\ WF_vars(StartAbandoned)

Spec == Init /\ [][Next]_vars /\ Fairness

-----------------------------------------------------------------------------
(* Properties. *)

(* The session a thread has spawned and not yet adopted. *)
InHand == {s \in Sessions : holder = StartOf(s) /\ stage[StartOf(s)] = "adopting"}

(* A running Core is never out of the Helper's sight: it is the managed     *)
(* one, or in the hands of the thread that spawned it, unless its adoption  *)
(* failed.                                                                  *)
NoCoreLost ==
    \A s \in Sessions :
        core[s] = "running" => managed = s \/ s \in InHand \/ s \in unconfined

(* The Helper never runs two Cores: releasing comes before spawning, under  *)
(* one hold of the mutex, however late a request is served.                 *)
OneHelperCore ==
    \A s, t \in Sessions \ unconfined :
        core[s] = "running" /\ core[t] = "running" => s = t

(* When the client takes an exit for confirmed, the Core is gone, and stays *)
(* gone: no request still under way revives it.                             *)
ConfirmedIsGone == \A s \in confirmed : core[s] # "running"

(* A stop only ever works on the Core of its own session: one that comes    *)
(* late must not end the Core a newer session started meanwhile.            *)
StopsOwnCore ==
    \A r \in Requests :
        ~IsStart(r) /\ stage[r] = "releasing" => holder = r /\ managed = r[1]

(* The Helper keeps its one Core: no running Core leaves MANAGED_CORE, no   *)
(* second one is spawned, and no stop ends the Core of a newer session, in  *)
(* whatever order late starts, stops and reapers get the mutex (launch,     *)
(* stop_core, reap_exited_core, release_managed_core).                      *)
KeepsItsCore == NoCoreLost /\ OneHelperCore /\ StopsOwnCore

(* Every request that reaches the Helper is answered. *)
EveryRequestAnswered ==
    \A r \in Requests : stage[r] = "waiting" ~> stage[r] = "done"

(* "The Core must not outlive the Helper." *)
CoreDiesWithHelper ==
    [][crashes' > crashes => \A s \in Sessions : core'[s] # "running"]_vars

(* "the direct retry cannot race a Helper-managed Core" *)
DirectRetryAlone ==
    direct => \A s \in Sessions : ~(core[s] = "running" /\ managed = s)

=============================================================================
