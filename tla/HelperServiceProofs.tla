------------------------- MODULE HelperServiceProofs -------------------------
(***************************************************************************)
(* The Helper keeps its one Core, and an exit that the client confirmed is   *)
(* final: theorems about HelperService for any number of sessions, of stop   *)
(* requests and of ends of the Helper.                                       *)
(***************************************************************************)
EXTENDS HelperService, TLAPS

(* All of the types that the safety of the Helper rests on. *)
Shaped ==
    /\ core = [s \in Sessions |-> core[s]]
    /\ stage = [r \in Requests |-> stage[r]]
    /\ managed \in Sessions \cup {NoSession}
    /\ session \in Nat
    /\ stops \in Nat

Holding == {"releasing", "verifying", "spawning", "adopting"}

(* Only the holder of the mutex works. *)
Mutex == \A r \in Requests : stage[r] \in Holding => holder = r

(* Whoever launches released the slot first; a stop that releases has its   *)
(* own session in it.                                                       *)
SlotFits ==
    \A r \in Requests :
        /\ stage[r] \in {"verifying", "spawning", "adopting"} => IsStart(r) /\ managed = NoSession
        /\ stage[r] = "releasing" => managed # NoSession /\ (IsStart(r) \/ managed = r[1])

(* The start of a session the client has not come to is unsent: it cannot   *)
(* be sent twice.                                                           *)
FreshStarts == \A s \in Sessions : s > session => stage[StartOf(s)] = "unsent"

Inv == Shaped /\ Mutex /\ SlotFits /\ FreshStarts /\ NoCoreLost

-----------------------------------------------------------------------------
(* A request is a session and a number. *)
LEMMA RequestParts ==
    /\ \A r \in Requests : r[1] \in Sessions /\ r # NoRequest /\ (IsStart(r) => r = StartOf(r[1]))
    /\ \A s \in Sessions : StartOf(s) \in Requests /\ StartOf(s)[1] = s /\ IsStart(StartOf(s))
    /\ \A s, t \in Sessions : StartOf(s) = StartOf(t) => s = t
    /\ NoSession \notin Sessions
BY HelperAssumption DEF Requests, Sessions, StartOf, IsStart, NoRequest, NoSession

(* The invariant says all that KeepsItsCore promises. *)
LEMMA InvImpliesKeeps == Inv => KeepsItsCore
<1> SUFFICES ASSUME Inv PROVE KeepsItsCore
  OBVIOUS
<1>1. \A s \in Sessions : s \in InHand => managed = NoSession
  BY RequestParts DEF Inv, SlotFits, InHand
<1>2. \A s, t \in Sessions : s \in InHand /\ t \in InHand => s = t
  BY RequestParts DEF InHand
<1>3. OneHelperCore
  <2> SUFFICES ASSUME NEW s \in Sessions \ unconfined, NEW t \in Sessions \ unconfined,
                      core[s] = "running", core[t] = "running"
               PROVE  s = t
    BY DEF OneHelperCore
  <2>1. (managed = s \/ s \in InHand) /\ (managed = t \/ t \in InHand)
    BY DEF Inv, NoCoreLost
  <2>2. QED
    BY <1>1, <1>2, <2>1, RequestParts
<1>4. StopsOwnCore
  BY DEF Inv, Mutex, SlotFits, StopsOwnCore, Holding
<1>5. QED
  BY <1>3, <1>4 DEF Inv, KeepsItsCore

LEMMA InvInit == Init => Inv
<1> SUFFICES ASSUME Init PROVE Inv
  OBVIOUS
<1>1. Shaped
  BY DEF Init, Shaped
<1>2. Mutex /\ SlotFits /\ NoCoreLost
  BY DEF Init, Mutex, SlotFits, NoCoreLost, Holding
<1>3. FreshStarts
  BY RequestParts DEF Init, FreshStarts
<1>4. QED
  BY <1>1, <1>2, <1>3 DEF Inv

-----------------------------------------------------------------------------
(* What the threads do with the mutex. *)

(* While the mutex is free nobody works, and while a thread holds it nobody *)
(* else does.                                                               *)
LEMMA OthersWait ==
    Inv => /\ holder = NoRequest => \A q \in Requests : stage[q] \notin Holding
           /\ \A q \in Requests : q # holder => stage[q] \notin Holding
BY RequestParts DEF Inv, Mutex

LEMMA LaunchKeeps == ASSUME Inv, NEW r \in Requests, LaunchTakesLock(r) PROVE Inv'
<1> USE DEF Inv
<1>1. Shaped'
  BY RequestParts DEF Shaped, LaunchTakesLock, clientVars
<1>2. Mutex'
  BY OthersWait DEF Shaped, Mutex, Holding, LaunchTakesLock, clientVars
<1>3. SlotFits'
  BY OthersWait, RequestParts DEF Shaped, SlotFits, Holding, LaunchTakesLock, clientVars
<1>4. FreshStarts'
  BY RequestParts DEF Shaped, FreshStarts, LaunchTakesLock, clientVars
<1>5. NoCoreLost'
  BY RequestParts DEF Shaped, NoCoreLost, SlotFits, InHand, LaunchTakesLock, clientVars
<1>6. QED
  BY <1>1, <1>2, <1>3, <1>4, <1>5

LEMMA StopKeeps == ASSUME Inv, NEW r \in Requests, StopTakesLock(r) PROVE Inv'
<1> USE DEF Inv
<1>1. Shaped'
  BY RequestParts DEF Shaped, StopTakesLock, Answer, StopDecision, clientVars
<1>2. Mutex'
  BY OthersWait DEF Shaped, Mutex, Holding, StopTakesLock, Answer, StopDecision, clientVars
<1>3. SlotFits'
  BY OthersWait, RequestParts DEF Shaped, SlotFits, Holding, StopTakesLock, Answer, StopDecision, clientVars
<1>4. FreshStarts'
  BY RequestParts DEF Shaped, FreshStarts, StopTakesLock, Answer, StopDecision, clientVars
<1>5. NoCoreLost'
  BY RequestParts DEF Shaped, NoCoreLost, SlotFits, InHand, StopTakesLock, Answer, StopDecision, clientVars
<1>6. QED
  BY <1>1, <1>2, <1>3, <1>4, <1>5

LEMMA ReleasedKeeps == ASSUME Inv, NEW r \in Requests, Released(r) PROVE Inv'
<1> USE DEF Inv
<1>1. Shaped'
  BY RequestParts DEF Shaped, Released, Advance, Answer, clientVars
<1>2. Mutex'
  BY OthersWait DEF Shaped, Mutex, Holding, Released, Advance, Answer, clientVars
<1>3. SlotFits'
  BY OthersWait, RequestParts DEF Shaped, SlotFits, Holding, Released, Advance, Answer, clientVars
<1>4. FreshStarts'
  BY RequestParts DEF Shaped, FreshStarts, Released, Advance, Answer, clientVars
<1>5. NoCoreLost'
  BY RequestParts DEF Shaped, NoCoreLost, SlotFits, InHand, Released, Advance, Answer, clientVars
<1>6. QED
  BY <1>1, <1>2, <1>3, <1>4, <1>5

LEMMA ReleaseFailsKeeps == ASSUME Inv, NEW r \in Requests, ReleaseFails(r) PROVE Inv'
<1> USE DEF Inv
<1>1. Shaped'
  BY RequestParts DEF Shaped, ReleaseFails, ManagedAfterFailure, Answer, clientVars
<1>2. Mutex'
  BY OthersWait DEF Shaped, Mutex, Holding, ReleaseFails, ManagedAfterFailure, Answer, clientVars
<1>3. SlotFits'
  BY OthersWait, RequestParts DEF Shaped, SlotFits, Holding, ReleaseFails, ManagedAfterFailure, Answer, clientVars
<1>4. FreshStarts'
  BY RequestParts DEF Shaped, FreshStarts, ReleaseFails, ManagedAfterFailure, Answer, clientVars
<1>5. NoCoreLost'
  BY RequestParts DEF Shaped, NoCoreLost, SlotFits, InHand, ReleaseFails, ManagedAfterFailure, Answer, clientVars
<1>6. QED
  BY <1>1, <1>2, <1>3, <1>4, <1>5

LEMMA VerifiedKeeps == ASSUME Inv, NEW r \in Requests, Verified(r) PROVE Inv'
<1> USE DEF Inv
<1>1. Shaped'
  BY RequestParts DEF Shaped, Verified, Advance, clientVars
<1>2. Mutex'
  BY OthersWait DEF Shaped, Mutex, Holding, Verified, Advance, clientVars
<1>3. SlotFits'
  BY OthersWait, RequestParts DEF Shaped, SlotFits, Holding, Verified, Advance, clientVars
<1>4. FreshStarts'
  BY RequestParts DEF Shaped, FreshStarts, Verified, Advance, clientVars
<1>5. NoCoreLost'
  BY RequestParts DEF Shaped, NoCoreLost, SlotFits, InHand, Verified, Advance, clientVars
<1>6. QED
  BY <1>1, <1>2, <1>3, <1>4, <1>5

LEMMA VerificationFailsKeeps == ASSUME Inv, NEW r \in Requests, VerificationFails(r) PROVE Inv'
<1> USE DEF Inv
<1>1. Shaped'
  BY RequestParts DEF Shaped, VerificationFails, Answer, clientVars
<1>2. Mutex'
  BY OthersWait DEF Shaped, Mutex, Holding, VerificationFails, Answer, clientVars
<1>3. SlotFits'
  BY OthersWait, RequestParts DEF Shaped, SlotFits, Holding, VerificationFails, Answer, clientVars
<1>4. FreshStarts'
  BY RequestParts DEF Shaped, FreshStarts, VerificationFails, Answer, clientVars
<1>5. NoCoreLost'
  BY RequestParts DEF Shaped, NoCoreLost, SlotFits, InHand, VerificationFails, Answer, clientVars
<1>6. QED
  BY <1>1, <1>2, <1>3, <1>4, <1>5

LEMMA SpawnedKeeps == ASSUME Inv, NEW r \in Requests, Spawned(r) PROVE Inv'
<1> USE DEF Inv
<1>1. Shaped'
  BY RequestParts DEF Shaped, Spawned, Advance, clientVars
<1>2. Mutex'
  BY OthersWait DEF Shaped, Mutex, Holding, Spawned, Advance, clientVars
<1>3. SlotFits'
  BY OthersWait, RequestParts DEF Shaped, SlotFits, Holding, Spawned, Advance, clientVars
<1>4. FreshStarts'
  BY RequestParts DEF Shaped, FreshStarts, Spawned, Advance, clientVars
<1>5. NoCoreLost'
  BY RequestParts DEF Shaped, NoCoreLost, SlotFits, InHand, Spawned, Advance, clientVars
<1>6. QED
  BY <1>1, <1>2, <1>3, <1>4, <1>5

LEMMA SpawnFailsKeeps == ASSUME Inv, NEW r \in Requests, SpawnFails(r) PROVE Inv'
<1> USE DEF Inv
<1>1. Shaped'
  BY RequestParts DEF Shaped, SpawnFails, Answer, clientVars
<1>2. Mutex'
  BY OthersWait DEF Shaped, Mutex, Holding, SpawnFails, Answer, clientVars
<1>3. SlotFits'
  BY OthersWait, RequestParts DEF Shaped, SlotFits, Holding, SpawnFails, Answer, clientVars
<1>4. FreshStarts'
  BY RequestParts DEF Shaped, FreshStarts, SpawnFails, Answer, clientVars
<1>5. NoCoreLost'
  BY RequestParts DEF Shaped, NoCoreLost, SlotFits, InHand, SpawnFails, Answer, clientVars
<1>6. QED
  BY <1>1, <1>2, <1>3, <1>4, <1>5

LEMMA AdoptedKeeps == ASSUME Inv, NEW r \in Requests, Adopted(r) PROVE Inv'
<1> USE DEF Inv
<1>1. Shaped'
  BY RequestParts DEF Shaped, Adopted, Answer, clientVars
<1>2. Mutex'
  BY OthersWait DEF Shaped, Mutex, Holding, Adopted, Answer, clientVars
<1>3. SlotFits'
  BY OthersWait, RequestParts DEF Shaped, SlotFits, Holding, Adopted, Answer, clientVars
<1>4. FreshStarts'
  BY RequestParts DEF Shaped, FreshStarts, Adopted, Answer, clientVars
<1>5. NoCoreLost'
  <2> SUFFICES ASSUME NEW s \in Sessions, core[s] = "running"
               PROVE  managed' = s \/ s \in unconfined'
    BY DEF NoCoreLost, Adopted
  <2>1. managed # s
    BY RequestParts DEF SlotFits, Adopted
  <2>2. s \in InHand => s = r[1]
    BY RequestParts DEF InHand, Adopted
  <2>3. QED
    BY <2>1, <2>2 DEF NoCoreLost, Adopted
<1>6. QED
  BY <1>1, <1>2, <1>3, <1>4, <1>5

LEMMA AdoptionFailsKeeps == ASSUME Inv, NEW r \in Requests, AdoptionFails(r) PROVE Inv'
<1> USE DEF Inv
<1>1. Shaped'
  BY RequestParts DEF Shaped, AdoptionFails, Answer, clientVars
<1>2. Mutex'
  BY OthersWait DEF Shaped, Mutex, Holding, AdoptionFails, Answer, clientVars
<1>3. SlotFits'
  BY OthersWait, RequestParts DEF Shaped, SlotFits, Holding, AdoptionFails, Answer, clientVars
<1>4. FreshStarts'
  BY RequestParts DEF Shaped, FreshStarts, AdoptionFails, Answer, clientVars
<1>5. NoCoreLost'
  BY RequestParts DEF Shaped, NoCoreLost, SlotFits, InHand, AdoptionFails, Answer, clientVars
<1>6. QED
  BY <1>1, <1>2, <1>3, <1>4, <1>5

LEMMA ReapKeeps == ASSUME Inv, NEW s \in Sessions, Reap(s) PROVE Inv'
<1> USE DEF Inv
<1>1. (Shaped /\ Mutex /\ FreshStarts)'
  BY DEF Shaped, Mutex, FreshStarts, Reap, clientVars
<1>2. SlotFits'
  BY OthersWait DEF SlotFits, Holding, Reap
<1>3. NoCoreLost'
  BY DEF NoCoreLost, InHand, Reap, Reaps
<1>4. QED
  BY <1>1, <1>2, <1>3

LEMMA ExitKeeps == ASSUME Inv, NEW s \in Sessions, CoreExits(s) PROVE Inv'
<1> USE DEF Inv
<1>1. (Shaped /\ Mutex /\ SlotFits /\ FreshStarts)'
  BY DEF Shaped, Mutex, SlotFits, FreshStarts, CoreExits, clientVars
<1>2. NoCoreLost'
  BY DEF Shaped, NoCoreLost, InHand, CoreExits
<1>3. QED
  BY <1>1, <1>2

LEMMA HelperEndsKeeps == ASSUME Inv, HelperEnds PROVE Inv'
<1> USE DEF Inv
<1>1. \A r \in Requests : stage'[r] = IF stage[r] \in {"unsent", "done"} THEN stage[r] ELSE "done"
  BY DEF HelperEnds
<1>2. Shaped'
  BY DEF Shaped, HelperEnds, clientVars
<1>3. Mutex' /\ SlotFits'
  BY <1>1 DEF Mutex, SlotFits, Holding
<1>4. FreshStarts'
  BY <1>1, RequestParts DEF FreshStarts, HelperEnds, clientVars
<1>5. NoCoreLost'
  BY DEF NoCoreLost, HelperEnds
<1>6. QED
  BY <1>2, <1>3, <1>4, <1>5

-----------------------------------------------------------------------------
(* The client disturbs the threads only by sending a request. *)

LEMMA StartsKeep == ASSUME Inv, ClientStarts PROVE Inv'
<1> USE DEF Inv
<1>1. session + 1 \in Sessions /\ stage[StartOf(session + 1)] = "unsent"
  <2>1. session + 1 \in Sessions
    BY HelperAssumption DEF ClientStarts, MoreSessions, Shaped, Sessions
  <2>2. QED
    BY <2>1 DEF Shaped, FreshStarts
<1>2. Shaped'
  BY DEF Shaped, ClientStarts, Send
<1>3. Mutex' /\ SlotFits'
  BY DEF Shaped, Mutex, SlotFits, Holding, ClientStarts, Send
<1>4. FreshStarts'
  <2> SUFFICES ASSUME NEW s \in Sessions, s > session + 1 PROVE stage'[StartOf(s)] = "unsent"
    BY DEF FreshStarts, ClientStarts
  <2>1. s # session + 1 /\ s > session
    BY HelperAssumption DEF Shaped, Sessions
  <2>2. StartOf(s) # StartOf(session + 1) /\ stage[StartOf(s)] = "unsent"
    BY <1>1, <2>1, RequestParts DEF FreshStarts
  <2>3. QED
    BY <2>2, RequestParts DEF Shaped, ClientStarts, Send
<1>5. NoCoreLost'
  <2>1. \A s \in InHand : s \in InHand'
    <3> SUFFICES ASSUME NEW s \in InHand PROVE s \in InHand'
      OBVIOUS
    <3>1. StartOf(s) # StartOf(session + 1)
      BY <1>1 DEF InHand
    <3>2. QED
      BY <3>1, RequestParts DEF Shaped, InHand, ClientStarts, Send
  <2>2. QED
    BY <2>1 DEF NoCoreLost, ClientStarts
<1>6. QED
  BY <1>2, <1>3, <1>4, <1>5

(* A stop is no start, so that sending one touches nothing in hand. *)
LEMMA StopSent ==
    ASSUME Inv, Send(<<session, stops + 1>>),
           UNCHANGED <<core, managed, unconfined, holder, session>>, stops' = stops + 1
    PROVE  Inv'
<1> USE DEF Inv
<1>1. Shaped'
  BY DEF Shaped, Send
<1>2. Mutex' /\ SlotFits'
  <2>1. \A q \in Requests : stage'[q] = stage[q] \/ stage'[q] = "waiting"
    BY DEF Shaped, Send
  <2>2. QED
    BY <2>1 DEF Mutex, SlotFits, Holding
<1>3. \A s \in Sessions : stage'[StartOf(s)] = stage[StartOf(s)]
  <2>1. ASSUME NEW s \in Sessions PROVE StartOf(s) # <<session, stops + 1>>
    <3>1. stops + 1 # 0
      BY DEF Shaped
    <3>2. QED
      BY <3>1 DEF StartOf
  <2>2. QED
    BY <2>1, RequestParts DEF Shaped, Send
<1>4. FreshStarts' /\ NoCoreLost'
  BY <1>3 DEF FreshStarts, NoCoreLost, InHand
<1>5. QED
  BY <1>1, <1>2, <1>4

(* Steps of the client that send nothing. *)
LEMMA RestKeeps ==
    ASSUME Inv, UNCHANGED <<core, managed, unconfined, holder, stage, session, stops>> PROVE Inv'
BY DEF Inv, Shaped, Mutex, SlotFits, FreshStarts, NoCoreLost, InHand

LEMMA ClientKeeps == ASSUME Inv, Client PROVE Inv'
<1>1. CASE ClientStarts
  BY <1>1, StartsKeep
<1>2. CASE \E code \in Answers : StartFails(code)
  BY <1>2, StopSent DEF StartFails
<1>3. CASE LeaseStops
  BY <1>3, StopSent DEF LeaseStops
<1>4. CASE StartSucceeds \/ StartAbandoned \/ DirectStops
  BY <1>4, RestKeeps DEF StartSucceeds, StartAbandoned, DirectStops, helperVars
<1>5. CASE \E code \in Answers : LeaseStopped(code)
  BY <1>5, RestKeeps DEF LeaseStopped, helperVars
<1>6. QED
  BY <1>1, <1>2, <1>3, <1>4, <1>5 DEF Client

-----------------------------------------------------------------------------
LEMMA InvNext == Inv /\ [Next]_vars => Inv'
<1> SUFFICES ASSUME Inv, [Next]_vars PROVE Inv'
  OBVIOUS
<1>1. ASSUME NEW r \in Requests, Thread(r) PROVE Inv'
  BY <1>1, LaunchKeeps, StopKeeps, ReleasedKeeps, ReleaseFailsKeeps, VerifiedKeeps,
     VerificationFailsKeeps, SpawnedKeeps, SpawnFailsKeeps, AdoptedKeeps, AdoptionFailsKeeps
  DEF Thread
<1>2. ASSUME NEW s \in Sessions, Reap(s) \/ CoreExits(s) PROVE Inv'
  BY <1>2, ReapKeeps, ExitKeeps
<1>3. CASE UNCHANGED vars
  BY <1>3, RestKeeps DEF vars
<1>4. QED
  BY <1>1, <1>2, <1>3, HelperEndsKeeps, ClientKeeps DEF Next

(* For any number of sessions, of stops and of ends of the Helper, with a    *)
(* job or a control group: no running Core leaves MANAGED_CORE, there is     *)
(* never a second one, and no late stop ends the Core of a newer session     *)
(* (launch, stop_core, reap_exited_core, release_managed_core).              *)
THEOREM HelperKeepsItsCore == Spec => []KeepsItsCore
<1>1. Spec => []Inv
  BY InvInit, InvNext, PTL DEF Spec
<1>2. QED
  BY <1>1, InvImpliesKeeps, PTL

-----------------------------------------------------------------------------
(* A confirmed exit. *)

(* A Core that was not adopted is of a start that did not succeed. *)
UnconfinedFailed ==
    \A s \in unconfined : s \in Sessions /\ stage[StartOf(s)] = "done" /\ answer[StartOf(s)] # "ok"

(* The client holds a lease of a start that is over and succeeded. *)
LeaseIsGood ==
    /\ step = "starting" => session \in Sessions
    /\ step \in {"leased", "stopping"} =>
          session \in Sessions /\ stage[StartOf(session)] = "done" /\ session \notin unconfined

(* The answer that the client will take for the exit of the Core is true. *)
StopIsTrue ==
    step = "stopping" =>
        /\ <<session, stops>> \in Requests /\ stops # 0
        /\ stage[<<session, stops>>] = "done" /\ answer[<<session, stops>>] \in {"ok", "notRunning"} =>
              core[session] # "running"

(* Nothing is under way that would spawn it again. *)
ConfirmedIsOver ==
    \A s \in confirmed : s \in Sessions /\ stage[StartOf(s)] = "done" /\ core[s] # "running"

GoneInv ==
    /\ answer = [r \in Requests |-> answer[r]]
    /\ UnconfinedFailed /\ LeaseIsGood /\ StopIsTrue /\ ConfirmedIsOver

(* What a thread answered stays. *)
DoneStays ==
    \A r \in Requests : stage[r] = "done" => stage'[r] = "done" /\ answer'[r] = answer[r]

(* A Core comes up only while its start is under way. *)
NoneRevived ==
    \A s \in Sessions : core'[s] = "running" => core[s] = "running" \/ stage[StartOf(s)] # "done"

(* A Core that is not adopted ends its start. *)
NewUnconfined ==
    \A s \in unconfined' : s \in unconfined \/
        (s \in Sessions /\ stage[StartOf(s)] # "done" /\ stage'[StartOf(s)] = "done"
         /\ answer'[StartOf(s)] # "ok")

(* A stop that confirms an exit, after the start was over, has seen it. *)
NewAnswers ==
    \A r \in Requests :
        ~IsStart(r) /\ stage[r] # "done" /\ stage'[r] = "done" /\ answer'[r] \in {"ok", "notRunning"}
        /\ stage[StartOf(r[1])] = "done" /\ r[1] \notin unconfined =>
            core'[r[1]] # "running"

LEMMA GoneStep ==
    ASSUME Inv, GoneInv, UNCHANGED clientVars, answer' = [r \in Requests |-> answer'[r]],
           DoneStays, NoneRevived, NewUnconfined, NewAnswers
    PROVE  GoneInv'
<1>1. UnconfinedFailed'
  BY RequestParts DEF GoneInv, UnconfinedFailed, DoneStays, NewUnconfined
<1>2. LeaseIsGood'
  BY RequestParts DEF GoneInv, LeaseIsGood, DoneStays, NewUnconfined, clientVars
<1>3. StopIsTrue'
  <2> SUFFICES ASSUME step = "stopping" PROVE StopIsTrue'
    BY DEF StopIsTrue, clientVars
  <2>1. PICK r : r = <<session, stops>>
    OBVIOUS
  <2>2. r \in Requests /\ ~IsStart(r) /\ r[1] = session
    BY <2>1 DEF GoneInv, StopIsTrue, IsStart
  <2>3. session \in Sessions /\ stage[StartOf(session)] = "done" /\ session \notin unconfined
    BY DEF GoneInv, LeaseIsGood
  <2>4. stage[r] = "done" /\ answer[r] \in {"ok", "notRunning"} => core[session] # "running"
    BY <2>1 DEF GoneInv, StopIsTrue
  <2>5. stage'[r] = "done" /\ answer'[r] \in {"ok", "notRunning"} => core'[session] # "running"
    BY <2>2, <2>3, <2>4 DEF DoneStays, NoneRevived, NewAnswers
  <2>6. QED
    BY <2>1, <2>5 DEF GoneInv, StopIsTrue, clientVars
<1>4. ConfirmedIsOver'
  BY RequestParts DEF GoneInv, ConfirmedIsOver, DoneStays, NoneRevived, clientVars
<1>5. QED
  BY <1>1, <1>2, <1>3, <1>4 DEF GoneInv

(* Steps that answer nothing. *)
LEMMA GoneQuiet ==
    ASSUME Inv, GoneInv, UNCHANGED <<clientVars, answer, unconfined>>, NEW r \in Requests, NEW next,
           next # "done", stage[r] # "done", stage' = [stage EXCEPT ![r] = next], NoneRevived
    PROVE  GoneInv'
<1>1. \A q \in Requests : stage'[q] = IF q = r THEN next ELSE stage[q]
  BY DEF Inv, Shaped
<1>2. DoneStays /\ NewUnconfined /\ NewAnswers
  BY <1>1 DEF DoneStays, NewUnconfined, NewAnswers
<1>3. QED
  BY <1>2, GoneStep DEF GoneInv

(* Steps that answer a request. *)
LEMMA GoneAnswer ==
    ASSUME Inv, GoneInv, UNCHANGED <<clientVars, core>>, NEW r \in Requests, NEW code,
           stage[r] # "done", Answer(r, code),
           unconfined' = unconfined \/ (IsStart(r) /\ code # "ok" /\ unconfined' = unconfined \cup {r[1]}),
           ~IsStart(r) /\ code \in {"ok", "notRunning"} /\ stage[StartOf(r[1])] = "done"
           /\ r[1] \notin unconfined => core[r[1]] # "running"
    PROVE  GoneInv'
<1>1. \A q \in Requests : /\ stage'[q] = IF q = r THEN "done" ELSE stage[q]
                          /\ answer'[q] = IF q = r THEN code ELSE answer[q]
  BY DEF Inv, Shaped, GoneInv, Answer
<1>2. answer' = [q \in Requests |-> answer'[q]]
  BY DEF GoneInv, Answer
<1>3. DoneStays /\ NoneRevived /\ NewAnswers
  BY <1>1 DEF DoneStays, NoneRevived, NewAnswers
<1>4. NewUnconfined
  BY <1>1, RequestParts DEF NewUnconfined
<1>5. QED
  BY <1>2, <1>3, <1>4, GoneStep

LEMMA GoneThread == ASSUME Inv, GoneInv, NEW r \in Requests, Thread(r) PROVE GoneInv'
<1>1. CASE LaunchTakesLock(r)
  <2>1. PICK next \in {"verifying", "releasing"} : stage' = [stage EXCEPT ![r] = next]
    BY <1>1 DEF LaunchTakesLock
  <2>2. stage[r] # "done" /\ NoneRevived
    BY <1>1 DEF LaunchTakesLock, NoneRevived
  <2>3. QED
    BY <1>1, <2>1, <2>2, GoneQuiet DEF LaunchTakesLock
<1>2. CASE StopTakesLock(r)
  <2>1. stage[r] # "done" /\ ~IsStart(r) /\ holder = NoRequest /\ UNCHANGED <<core, unconfined, clientVars>>
    BY <1>2 DEF StopTakesLock
  <2>2. CASE stage' = [stage EXCEPT ![r] = "releasing"] /\ UNCHANGED answer
    BY <2>1, <2>2, GoneQuiet DEF NoneRevived
  <2>3. CASE Answer(r, "sessionMismatch")
    BY <2>1, <2>3, GoneAnswer
  <2>4. CASE managed = NoSession /\ Answer(r, "notRunning")
    <3>1. stage[StartOf(r[1])] = "done" /\ r[1] \notin unconfined => core[r[1]] # "running"
      BY <2>4, RequestParts DEF Inv, NoCoreLost, InHand
    <3>2. QED
      BY <2>1, <2>4, <3>1, GoneAnswer
  <2>5. QED
    BY <1>2, <2>2, <2>3, <2>4 DEF StopTakesLock, StopDecision
<1>3. CASE Released(r)
  <2>1. stage[r] = "releasing" /\ core[managed] = "exited" /\ UNCHANGED <<core, unconfined, clientVars>>
    BY <1>3 DEF Released
  <2>2. CASE Advance(r, "verifying")
    BY <2>1, <2>2, GoneQuiet DEF Advance, NoneRevived
  <2>3. CASE ~IsStart(r) /\ Answer(r, "ok")
    <3>1. managed = r[1]
      BY <2>1, <2>3 DEF Inv, SlotFits
    <3>2. QED
      BY <2>1, <2>3, <3>1, GoneAnswer
  <2>4. QED
    BY <1>3, <2>2, <2>3 DEF Released
<1>4. CASE ReleaseFails(r)
  BY <1>4, GoneAnswer DEF ReleaseFails
<1>5. CASE Verified(r)
  BY <1>5, GoneQuiet DEF Verified, Advance, NoneRevived
<1>6. CASE VerificationFails(r)
  BY <1>6, GoneAnswer DEF VerificationFails
<1>7. CASE Spawned(r)
  <2>1. stage[r] = "spawning" /\ stage' = [stage EXCEPT ![r] = "adopting"]
        /\ UNCHANGED <<clientVars, answer, unconfined>>
    BY <1>7 DEF Spawned, Advance
  <2>2. r = StartOf(r[1]) /\ stage[StartOf(r[1])] # "done"
    BY <2>1, RequestParts DEF Inv, SlotFits
  <2>3. NoneRevived
    BY <1>7, <2>2 DEF Spawned, NoneRevived, Inv, Shaped
  <2>4. QED
    BY <2>1, <2>3, GoneQuiet
<1>8. CASE SpawnFails(r)
  BY <1>8, GoneAnswer DEF SpawnFails
<1>9. CASE Adopted(r)
  <2>1. stage[r] = "adopting" /\ IsStart(r)
    BY <1>9 DEF Adopted, Inv, SlotFits
  <2>2. QED
    BY <1>9, <2>1, GoneAnswer DEF Adopted
<1>10. CASE AdoptionFails(r)
  <2>1. stage[r] = "adopting" /\ IsStart(r)
    BY <1>10 DEF AdoptionFails, Inv, SlotFits
  <2>2. QED
    BY <1>10, <2>1, GoneAnswer DEF AdoptionFails
<1>11. QED
  BY <1>1, <1>2, <1>3, <1>4, <1>5, <1>6, <1>7, <1>8, <1>9, <1>10 DEF Thread

(* Cores that end, and the Helper: the threads it takes along answer with an *)
(* error.                                                                   *)
LEMMA GoneEnds ==
    ASSUME Inv, GoneInv, HelperEnds \/ \E s \in Sessions : Reap(s) \/ CoreExits(s) PROVE GoneInv'
<1>1. CASE \E s \in Sessions : Reap(s) \/ CoreExits(s)
  <2>1. /\ UNCHANGED <<clientVars, stage, answer, unconfined>>
        /\ \A s \in Sessions : core'[s] = "running" => core[s] = "running"
    BY <1>1 DEF Reap, CoreExits, Inv, Shaped
  <2>2. DoneStays /\ NoneRevived /\ NewUnconfined /\ NewAnswers
    BY <2>1 DEF DoneStays, NoneRevived, NewUnconfined, NewAnswers
  <2>3. QED
    BY <2>1, <2>2, GoneStep DEF GoneInv
<1>2. CASE HelperEnds
  <2>1. \A r \in Requests :
            /\ stage'[r] = IF stage[r] \in {"unsent", "done"} THEN stage[r] ELSE "done"
            /\ answer'[r] = IF stage[r] \in {"unsent", "done"} THEN answer[r] ELSE "transportError"
    BY <1>2 DEF HelperEnds
  <2>2. /\ UNCHANGED clientVars /\ answer' = [r \in Requests |-> answer'[r]]
        /\ \A s \in Sessions : core'[s] = "running" => core[s] = "running" /\ ~DiesWithHelper(s)
        /\ unconfined' = unconfined \cup {s \in Sessions : core'[s] = "running"}
    BY <1>2 DEF HelperEnds
  <2>3. DoneStays /\ NoneRevived /\ NewAnswers
    BY <2>1, <2>2 DEF DoneStays, NoneRevived, NewAnswers
  <2>4. NewUnconfined
    <3> SUFFICES ASSUME NEW s \in Sessions, core'[s] = "running", s \notin unconfined
                 PROVE  /\ stage[StartOf(s)] # "done" /\ stage'[StartOf(s)] = "done"
                        /\ answer'[StartOf(s)] # "ok"
      BY <2>2 DEF NewUnconfined
    <3>1. core[s] = "running" /\ managed # s
      BY <2>2 DEF DiesWithHelper
    <3>2. stage[StartOf(s)] = "adopting"
      BY <3>1 DEF Inv, NoCoreLost, InHand
    <3>3. QED
      BY <2>1, <3>2, RequestParts
  <2>5. QED
    BY <2>2, <2>3, <2>4, GoneStep
<1>3. QED
  BY <1>1, <1>2

(* Sending a stop touches no start. *)
LEMMA StartsUntouched ==
    ASSUME Inv, Send(<<session, stops + 1>>)
    PROVE  \A s \in Sessions : stage'[StartOf(s)] = stage[StartOf(s)]
<1>1. ASSUME NEW s \in Sessions PROVE StartOf(s) # <<session, stops + 1>>
  <2>1. stops + 1 # 0
    BY DEF Inv, Shaped
  <2>2. QED
    BY <2>1 DEF StartOf
<1>2. QED
  BY <1>1, RequestParts DEF Inv, Shaped, Send

LEMMA GoneClient == ASSUME Inv, GoneInv, Client PROVE GoneInv'
<1>1. CASE ClientStarts
  <2>1. session + 1 \in Sessions /\ stage[StartOf(session + 1)] = "unsent"
    <3>1. session + 1 \in Sessions
      BY <1>1, HelperAssumption DEF ClientStarts, MoreSessions, Inv, Shaped, Sessions
    <3>2. QED
      BY <3>1 DEF Inv, Shaped, FreshStarts
  <2>2. \A s \in Sessions : stage[StartOf(s)] = "done" => stage'[StartOf(s)] = "done"
    BY <1>1, <2>1, RequestParts DEF ClientStarts, Send, Inv, Shaped
  <2>3. UNCHANGED <<core, answer, unconfined, confirmed>> /\ session' = session + 1 /\ step' = "starting"
    BY <1>1 DEF ClientStarts
  <2>4. QED
    BY <2>1, <2>2, <2>3 DEF GoneInv, UnconfinedFailed, LeaseIsGood, StopIsTrue, ConfirmedIsOver
<1>2. CASE \E code \in Answers : StartFails(code)
  <2>1. /\ step' = "abandoning" /\ UNCHANGED <<core, answer, unconfined, confirmed, session>>
        /\ Send(<<session, stops + 1>>)
    BY <1>2 DEF StartFails
  <2>2. \A s \in Sessions : stage'[StartOf(s)] = stage[StartOf(s)]
    BY <2>1, StartsUntouched
  <2>3. QED
    BY <2>1, <2>2 DEF GoneInv, UnconfinedFailed, LeaseIsGood, StopIsTrue, ConfirmedIsOver
<1>3. CASE LeaseStops
  <2>1. /\ step = "leased" /\ step' = "stopping" /\ stops < MaxStop /\ stops' = stops + 1
        /\ UNCHANGED <<core, answer, unconfined, confirmed, session>>
        /\ Send(<<session, stops + 1>>)
    BY <1>3 DEF LeaseStops
  <2>2. \A s \in Sessions : stage'[StartOf(s)] = stage[StartOf(s)]
    BY <2>1, StartsUntouched
  <2>3. session \in Sessions
    BY <2>1 DEF GoneInv, LeaseIsGood
  <2>4. stops + 1 \in 0..MaxStop /\ stops + 1 # 0
    BY <2>1, HelperAssumption DEF Inv, Shaped
  <2>5. <<session, stops + 1>> \in Requests
    BY <2>3, <2>4 DEF Requests
  <2>6. stage'[<<session, stops + 1>>] = "waiting"
    BY <2>1, <2>5 DEF Inv, Shaped, Send
  <2>7. StopIsTrue'
    BY <2>1, <2>4, <2>5, <2>6 DEF StopIsTrue
  <2>8. QED
    BY <2>1, <2>2, <2>7 DEF GoneInv, UnconfinedFailed, LeaseIsGood, ConfirmedIsOver
<1>4. CASE StartSucceeds
  <2>1. session \notin unconfined
    BY <1>4 DEF StartSucceeds, GoneInv, UnconfinedFailed
  <2>2. QED
    BY <1>4, <2>1 DEF StartSucceeds, helperVars, GoneInv, UnconfinedFailed, LeaseIsGood, StopIsTrue,
       ConfirmedIsOver
<1>5. CASE StartAbandoned \/ DirectStops
  <2>1. /\ step' \in {"idle", "direct"}
        /\ UNCHANGED <<core, stage, answer, unconfined, confirmed, session>>
    BY <1>5 DEF StartAbandoned, DirectStops, helperVars
  <2>2. QED
    BY <2>1 DEF GoneInv, UnconfinedFailed, LeaseIsGood, StopIsTrue, ConfirmedIsOver
<1>6. ASSUME NEW code \in Answers, LeaseStopped(code) PROVE GoneInv'
  <2>1. /\ step = "stopping" /\ step' \in {"idle", "leased"}
        /\ UNCHANGED <<core, stage, answer, unconfined, session>>
    BY <1>6 DEF LeaseStopped, helperVars
  <2>2. session \in Sessions /\ stage[StartOf(session)] = "done" /\ session \notin unconfined
    BY <2>1 DEF GoneInv, LeaseIsGood
  <2>3. UnconfinedFailed' /\ LeaseIsGood' /\ StopIsTrue'
    BY <2>1, <2>2 DEF GoneInv, UnconfinedFailed, LeaseIsGood, StopIsTrue
  <2>4. Confirms(code) => core[session] # "running"
    BY <1>6, <2>1 DEF LeaseStopped, Hears, Confirms, GoneInv, StopIsTrue
  <2>5. confirmed' = confirmed \/ (confirmed' = confirmed \cup {session} /\ Confirms(code))
    BY <1>6 DEF LeaseStopped
  <2>6. ConfirmedIsOver'
    BY <2>1, <2>2, <2>4, <2>5 DEF GoneInv, ConfirmedIsOver
  <2>7. QED
    BY <2>1, <2>3, <2>6 DEF GoneInv
<1>7. QED
  BY <1>1, <1>2, <1>3, <1>4, <1>5, <1>6 DEF Client

LEMMA GoneInit == Init => GoneInv
BY RequestParts DEF Init, GoneInv, UnconfinedFailed, LeaseIsGood, StopIsTrue, ConfirmedIsOver

LEMMA GoneNext == Inv /\ GoneInv /\ [Next]_vars => GoneInv'
<1> SUFFICES ASSUME Inv, GoneInv, [Next]_vars PROVE GoneInv'
  OBVIOUS
<1>1. CASE UNCHANGED vars
  BY <1>1 DEF vars, GoneInv, UnconfinedFailed, LeaseIsGood, StopIsTrue, ConfirmedIsOver
<1>2. QED
  BY <1>1, GoneThread, GoneEnds, GoneClient DEF Next

(* When the client takes an exit for confirmed, the Core is gone and stays   *)
(* gone, however late the Helper serves what it was sent and whenever it     *)
(* ends: no request that is still under way spawns it again (HelperCoreLease *)
(* .stop, exitConfirmed).                                                    *)
THEOREM ConfirmedStaysGone == Spec => []ConfirmedIsGone
<1>1. Spec => [](Inv /\ GoneInv)
  BY InvInit, InvNext, GoneInit, GoneNext, PTL DEF Spec
<1>2. GoneInv => ConfirmedIsGone
  BY DEF GoneInv, ConfirmedIsOver, ConfirmedIsGone
<1>3. QED
  BY <1>1, <1>2, PTL

-----------------------------------------------------------------------------
(* Types. *)

LEMMA HelperSizes ==
    /\ MaxSession \in Nat /\ MaxStop \in Nat /\ MaxCrash \in Nat
    /\ Sessions = 1..MaxSession /\ NoSession = 0
    /\ \A r \in Requests : r[1] \in Sessions
    /\ \A s \in Sessions, n \in 0..MaxStop : <<s, n>> \in Requests
BY HelperAssumption DEF Sessions, Requests, NoSession

LEMMA TypeInit == Init => TypeOK
<1> SUFFICES ASSUME Init PROVE TypeOK
  OBVIOUS
<1>1. core \in [Sessions -> {"none", "running", "exited"}]
  BY DEF Init
<1>2. stage \in [Requests -> Stages] /\ answer \in [Requests -> Answers]
  BY DEF Init, Stages, Answers
<1>3. managed \in 0..MaxSession /\ crashes \in 0..MaxCrash /\ session \in 0..MaxSession /\ stops \in 0..MaxStop
  BY HelperSizes DEF Init
<1>4. heard \in Answers /\ unconfined = {} /\ confirmed = {} /\ step = "idle" /\ direct = FALSE
      /\ holder = NoRequest
  BY DEF Init, Answers
<1> QED
  BY <1>1, <1>2, <1>3, <1>4 DEF TypeOK

LEMMA ThreadTyped == ASSUME TypeOK, NEW r \in Requests, Thread(r) PROVE TypeOK'
<1>1. UNCHANGED <<crashes, session, step, heard, stops, confirmed, direct>>
  BY DEF Thread, LaunchTakesLock, StopTakesLock, Released, ReleaseFails, Verified, VerificationFails,
         Spawned, SpawnFails, Adopted, AdoptionFails, clientVars
<1>2. holder' \in {holder, r, NoRequest}
  BY DEF Thread, LaunchTakesLock, StopTakesLock, Released, ReleaseFails, Verified, VerificationFails,
         Spawned, SpawnFails, Adopted, AdoptionFails, Answer, Advance
<1>3. \E next \in Stages : stage' = [stage EXCEPT ![r] = next]
  BY DEF Thread, LaunchTakesLock, StopTakesLock, Released, ReleaseFails, Verified, VerificationFails,
         Spawned, SpawnFails, Adopted, AdoptionFails, Answer, Advance, Stages
<1>4. answer' = answer \/ \E code \in Answers : answer' = [answer EXCEPT ![r] = code]
  BY DEF Thread, LaunchTakesLock, StopTakesLock, StopDecision, Released, ReleaseFails, Verified,
         VerificationFails, Spawned, SpawnFails, Adopted, AdoptionFails, Answer, Advance, Answers
<1>5. /\ core' = core \/ core' = [core EXCEPT ![r[1]] = "running"]
      /\ managed' \in {managed, NoSession, r[1]}
      /\ unconfined' \in {unconfined, unconfined \cup {r[1]}}
  BY DEF Thread, LaunchTakesLock, StopTakesLock, Released, ReleaseFails, ManagedAfterFailure, Verified,
         VerificationFails, Spawned, SpawnFails, Adopted, AdoptionFails
<1>6. stage' \in [Requests -> Stages] /\ answer' \in [Requests -> Answers]
  BY <1>3, <1>4 DEF TypeOK
<1>7. core' \in [Sessions -> {"none", "running", "exited"}] /\ managed' \in 0..MaxSession
      /\ unconfined' \in SUBSET Sessions
  BY <1>5, HelperSizes DEF TypeOK
<1> QED
  BY <1>1, <1>2, <1>6, <1>7 DEF TypeOK

LEMMA HelperEndsTyped == ASSUME TypeOK, HelperEnds PROVE TypeOK'
<1>1. /\ crashes' \in 0..MaxCrash /\ managed' \in 0..MaxSession /\ holder' = NoRequest
      /\ UNCHANGED <<session, step, heard, stops, confirmed, direct>>
  BY HelperSizes DEF TypeOK, HelperEnds, clientVars
<1>2. /\ core' \in [Sessions -> {"none", "running", "exited"}]
      /\ unconfined' \in SUBSET Sessions
  BY DEF TypeOK, HelperEnds
<1>3. stage' \in [Requests -> Stages] /\ answer' \in [Requests -> Answers]
  BY DEF TypeOK, HelperEnds, Stages, Answers
<1> QED
  BY <1>1, <1>2, <1>3 DEF TypeOK

LEMMA ClientTyped == ASSUME TypeOK, GoneInv, Client PROVE TypeOK'
<1> USE DEF TypeOK
<1>1. CASE ClientStarts
  <2>1. session' = session + 1 /\ session' \in 1..MaxSession /\ StartOf(session + 1) \in Requests
    BY <1>1, HelperSizes, RequestParts DEF ClientStarts, MoreSessions
  <2>2. stage' \in [Requests -> Stages]
    BY <1>1, <2>1 DEF ClientStarts, Send, Stages
  <2> QED
    BY <1>1, <2>1, <2>2, HelperSizes DEF ClientStarts
<1>2. CASE LeaseStops \/ \E code \in Answers : StartFails(code)
  <2>1. /\ stops < MaxStop /\ stops' = stops + 1 /\ Send(<<session, stops + 1>>)
        /\ step' \in {"abandoning", "stopping"} /\ heard' \in Answers
        /\ UNCHANGED <<core, managed, unconfined, holder, answer, crashes, session, confirmed, direct>>
    BY <1>2 DEF LeaseStops, StartFails
  <2>2. stops' \in 0..MaxStop
    BY <2>1, HelperSizes
  <2>3. stage' \in [Requests -> Stages]
    BY <2>1 DEF Send, Stages
  <2> QED
    BY <2>1, <2>2, <2>3
<1>3. CASE StartSucceeds \/ StartAbandoned \/ DirectStops
  <2>1. UNCHANGED <<helperVars, session, stops, confirmed>>
    BY <1>3 DEF StartSucceeds, StartAbandoned, DirectStops
  <2>2. step' \in {"leased", "direct", "idle"} /\ heard' \in Answers
    BY <1>3 DEF StartSucceeds, StartAbandoned, DirectStops, Answers
  <2>3. direct' \in BOOLEAN
    <3>1. FallsBack(heard) \in BOOLEAN
      BY DEF FallsBack
    <3>2. direct' = direct \/ direct' = FallsBack(heard) \/ direct' = FALSE
      BY <1>3 DEF StartSucceeds, StartAbandoned, DirectStops
    <3> QED
      BY <3>1, <3>2, Zenon
  <2> QED
    BY <2>1, <2>2, <2>3 DEF helperVars
<1>4. ASSUME NEW code \in Answers, LeaseStopped(code) PROVE TypeOK'
  <2>1. session \in Sessions
    BY <1>4 DEF LeaseStopped, GoneInv, LeaseIsGood
  <2> QED
    BY <1>4, <2>1 DEF LeaseStopped, helperVars
<1> QED
  BY <1>1, <1>2, <1>3, <1>4 DEF Client

LEMMA TypeNext == TypeOK /\ GoneInv /\ [Next]_vars => TypeOK'
<1> SUFFICES ASSUME TypeOK, GoneInv, [Next]_vars PROVE TypeOK'
  OBVIOUS
<1>1. ASSUME NEW s \in Sessions, Reap(s) \/ CoreExits(s) PROVE TypeOK'
  <2>1. /\ UNCHANGED <<unconfined, holder, stage, answer, crashes, clientVars>>
        /\ core' = core \/ core' = [core EXCEPT ![s] = "exited"]
        /\ managed' = managed \/ managed' = NoSession
    BY <1>1 DEF Reap, CoreExits
  <2>2. core' \in [Sessions -> {"none", "running", "exited"}] /\ managed' \in 0..MaxSession
    BY <2>1, HelperSizes DEF TypeOK
  <2> QED
    BY <2>1, <2>2 DEF TypeOK, clientVars
<1>2. CASE UNCHANGED vars
  BY <1>2 DEF TypeOK, vars
<1> QED
  BY <1>1, <1>2, ThreadTyped, HelperEndsTyped, ClientTyped DEF Next

(* The Helper, its requests and the client keep their types: the slot and    *)
(* the confirmed exits are of sessions that were opened (ManagedCore of      *)
(* service/mod.rs, HelperCoreLease).                                         *)
THEOREM TypeCorrect == Spec => []TypeOK
<1>1. Spec => [](Inv /\ GoneInv)
  BY InvInit, InvNext, GoneInit, GoneNext, PTL DEF Spec
<1> QED
  BY <1>1, TypeInit, TypeNext, PTL DEF Spec

=============================================================================
