------------------------------ MODULE RpcClient ------------------------------
(***************************************************************************)
(* Method calls to the Core: CoreRpcClient (lib/core/desktop/              *)
(* rpc_client.dart) with its timeout windows, the answers a Core spills to *)
(* files (lib/core/spill.dart, core/spill.go) and the Core's side of the   *)
(* link (core/server.go, core/method.go), which may drop an answer, and    *)
(* goes away with its connection.  Time is counted in ticks; the ages of   *)
(* the calls, and not the date, are in the state.                          *)
(***************************************************************************)
EXTENDS Integers, Sequences, FiniteSets

CONSTANTS
    MaxCall,        \* bound on the calls of the host
    MaxConn,        \* bound on the connections
    Idle,           \* requestTimeout of every call, in ticks
    Grace,          \* extensionGrace, in ticks
    Connect         \* _connectTimeout, in ticks

ASSUME RpcAssumption ==
    /\ MaxCall \in Nat
    /\ MaxConn \in Nat
    /\ Idle \in Nat \ {0}
    /\ Grace \in Nat
    /\ Connect \in Nat \ {0}

Calls == 1..MaxCall

Response(c, spilled) == [kind |-> "response", call |-> c, file |-> spilled]
Event(kind) == [kind |-> kind, call |-> 0, file |-> FALSE]

Files(items) == {items[i].call : i \in {j \in DOMAIN items : items[j].file}}

VARIABLES
    call,       \* what the caller of each call sees
    pending,    \* _pending: the calls that wait for a response
    reading,    \* calls whose spilled answer is being read
    age,        \* ticks since the call started: its stopwatch
    timer,      \* ticks left on the timer the call waits with
    sinceLast,  \* ticks since the last response, up to one more than Idle
    closed,     \* close was called
    link,       \* the transport, as its events told the host
    coreUp,     \* a Core serves the connection
    initDone,   \* this Core handled initClash
    conns,      \* connections so far
    atCore,     \* calls the Core works on
    files,      \* calls whose spilled answer is on disk
    lost,       \* history: files whose answer will never reach the host
    toHost      \* responses and transport events on their way to the client

clientVars == <<call, pending, reading, age, timer, sinceLast, closed, link>>
coreVars == <<coreUp, initDone, conns, atCore>>
vars == <<call, pending, reading, age, timer, sinceLast, closed, link,
          coreUp, initDone, conns, atCore, files, lost, toHost>>

Waiting == {c \in Calls : call[c] \in {"connecting", "sent"}}
Connecting == {c \in Calls : call[c] = "connecting"}

-----------------------------------------------------------------------------
Shorter(a, b) == IF a < b THEN a ELSE b

HardDeadline == Shorter(3 * Idle, Idle + Grace)
ConnectWindow == Shorter(Connect, Idle)

(* Silence runs from the last response or from the start of the call,       *)
(* whichever is later.                                                      *)
SilenceOfLink(c) == sinceLast
Silence(c) == Shorter(sinceLast, age[c])

WindowLeft(c) == Shorter(Idle - Silence(c), HardDeadline - age[c])

-----------------------------------------------------------------------------
TypeOK ==
    /\ call \in [Calls -> {"unsent", "connecting", "sent",
                           "answered", "timedOut", "failed"}]
    /\ pending \in SUBSET Calls /\ reading \in SUBSET Calls
    /\ age \in [Calls -> 0..HardDeadline]
    /\ timer \in [Calls -> 0..Idle]
    /\ sinceLast \in 0..Idle + 1
    /\ closed \in BOOLEAN
    /\ link \in {"down", "up", "failed"}
    /\ coreUp \in BOOLEAN /\ initDone \in BOOLEAN
    /\ conns \in 0..MaxConn
    /\ atCore \in SUBSET Calls
    /\ files \in SUBSET Calls /\ lost \in SUBSET Calls
    /\ \A i \in DOMAIN toHost :
         toHost[i] \in [kind : {"response", "connected", "disconnected", "failed"},
                        call : 0..MaxCall, file : BOOLEAN]

Init ==
    /\ call = [c \in Calls |-> "unsent"]
    /\ pending = {} /\ reading = {}
    /\ age = [c \in Calls |-> 0]
    /\ timer = [c \in Calls |-> 0]
    /\ sinceLast = 0
    /\ closed = FALSE
    /\ link = "down"
    /\ coreUp = FALSE /\ initDone = FALSE
    /\ conns = 0
    /\ atCore = {}
    /\ files = {} /\ lost = {}
    /\ toHost = <<>>

-----------------------------------------------------------------------------
(* The caller: invoke. *)

Settle(C, outcome) == [c \in Calls |-> IF c \in C THEN outcome ELSE call[c]]

(* transport.send for the calls in C, each accepted or refused: the outbox  *)
(* is closed, or full.  The late ones time out instead.                     *)
SendAll(C, late) == \E accepted \in IF coreUp THEN SUBSET C ELSE {{}} :
    /\ call' = [c \in Calls |-> CASE c \in accepted -> "sent"
                                  [] c \in C \ accepted -> "failed"
                                  [] c \in late -> "timedOut"
                                  [] OTHER -> call[c]]
    /\ timer' = [c \in Calls |-> IF c \in accepted THEN WindowLeft(c) ELSE timer[c]]
    /\ atCore' = atCore \cup accepted

Invoke(c) ==
    /\ call[c] = "unsent"
    /\ \A d \in Calls : d < c => call[d] # "unsent"
    /\ \/ /\ closed \/ link = "failed"
          /\ call' = [call EXCEPT ![c] = "failed"]
          /\ UNCHANGED <<pending, timer, atCore>>
       \/ /\ ~closed /\ link = "up"
          /\ SendAll({c}, {})
          /\ pending' = IF call'[c] = "sent" THEN pending \cup {c} ELSE pending
       \/ /\ ~closed /\ link = "down"
          /\ call' = [call EXCEPT ![c] = "connecting"]
          /\ pending' = pending \cup {c}
          /\ timer' = [timer EXCEPT ![c] = ConnectWindow]
          /\ UNCHANGED atCore
    /\ UNCHANGED <<reading, age, sinceLast, closed, link, coreUp, initDone, conns,
                   files, lost, toHost>>

(* The timer of waitUntilConnected, or of one round of _awaitResponse.      *)
WindowPassed(c) == WindowLeft(c) < 0
WindowOver(c) == WindowLeft(c) <= 0

RemovePending(c) == pending \ {c}

TimerFires(c) ==
    /\ c \in Waiting
    /\ timer[c] = 0
    /\ \/ /\ call[c] = "connecting" \/ WindowOver(c)
          /\ call' = [call EXCEPT ![c] = "timedOut"]
          /\ pending' = RemovePending(c)
          /\ UNCHANGED timer
       \/ /\ call[c] = "sent" /\ ~WindowOver(c)
          /\ timer' = [timer EXCEPT ![c] = WindowLeft(c)]
          /\ UNCHANGED <<call, pending>>
    /\ UNCHANGED <<reading, age, sinceLast, closed, link, coreVars, files, lost, toHost>>

(* Timers fire on time: the isolate is responsive. *)
Tick ==
    /\ \A c \in Waiting : timer[c] > 0
    /\ age' = [c \in Calls |-> IF c \in Waiting THEN age[c] + 1 ELSE age[c]]
    /\ timer' = [c \in Calls |-> IF c \in Waiting THEN timer[c] - 1 ELSE timer[c]]
    /\ sinceLast' = Shorter(sinceLast + 1, Idle + 1)
    /\ UNCHANGED <<call, pending, reading, closed, link, coreVars, files, lost, toHost>>

-----------------------------------------------------------------------------
(* What arrives: _handleResponse, resolveSpilledResponse, and the           *)
(* transport's events.                                                      *)

NothingFails == UNCHANGED <<call, pending>>
FailPending ==
    /\ call' = Settle(pending, "failed")
    /\ pending' = {}

DiscardSpilled(c) == files \ {c}

HandleResponse(item) ==
    LET c == item.call IN
    /\ item.kind = "response"
    /\ sinceLast' = 0
    /\ pending' = pending \ {c}
    /\ \/ /\ c \notin pending
          /\ files' = IF item.file THEN DiscardSpilled(c) ELSE files
          /\ UNCHANGED <<call, reading>>
       \/ /\ c \in pending /\ item.file
          /\ reading' = reading \cup {c}
          /\ UNCHANGED <<call, files>>
       \/ /\ c \in pending /\ ~item.file
          /\ call' = [call EXCEPT ![c] = "answered"]
          /\ UNCHANGED <<reading, files>>
    /\ UNCHANGED <<timer, link, atCore, lost>>

(* The calls that wait for the connection send at once; those whose window  *)
(* is over by then time out.                                                *)
HandleConnected(item) ==
    /\ item.kind = "connected"
    /\ link' = "up"
    /\ LET onTime == {c \in Connecting : age[c] < Idle} IN
         SendAll(onTime, Connecting \ onTime)
    /\ pending' = pending \ {c \in Connecting : call'[c] # "sent"}
    /\ UNCHANGED <<reading, sinceLast, files, lost>>

HandleLoss(item) ==
    /\ item.kind \in {"disconnected", "failed"}
    /\ link' = IF item.kind = "failed" THEN "failed" ELSE "down"
    /\ FailPending
    /\ UNCHANGED <<reading, sinceLast, timer, atCore, files, lost>>

(* A closed client listens no more: a spilled answer stays on disk. *)
Ignore(item) ==
    /\ closed
    /\ lost' = IF item.file THEN lost \cup {item.call} ELSE lost
    /\ UNCHANGED <<call, pending, reading, timer, sinceLast, link, atCore, files>>

Handle ==
    /\ toHost # <<>>
    /\ toHost' = Tail(toHost)
    /\ LET item == Head(toHost) IN
         \/ Ignore(item)
         \/ ~closed /\ (HandleResponse(item) \/ HandleConnected(item) \/ HandleLoss(item))
    /\ UNCHANGED <<age, closed, coreUp, initDone, conns>>

(* The file is read on a worker and deleted; the answer completes the call  *)
(* if it still waits.  A file that is gone answers with spill_error.        *)
ReadDone(c) ==
    /\ c \in reading
    /\ reading' = reading \ {c}
    /\ files' = files \ {c}
    /\ call' = IF call[c] = "sent"
                 THEN [call EXCEPT ![c] = IF c \in files THEN "answered" ELSE "failed"]
                 ELSE call
    /\ UNCHANGED <<pending, age, timer, sinceLast, closed, link, coreVars, lost, toHost>>

Close ==
    /\ ~closed
    /\ closed' = TRUE
    /\ FailPending
    /\ UNCHANGED <<reading, age, timer, sinceLast, link, coreVars, files, lost, toHost>>

-----------------------------------------------------------------------------
(* The Core and its connection. *)

(* The server has not failed; the host may still have to hear of it. *)
Serving == link # "failed" /\ \A i \in DOMAIN toHost : toHost[i].kind # "failed"

(* accept_peers takes the next peer at once, whatever the host has heard of *)
(* the last one.                                                            *)
Connects ==
    /\ ~coreUp /\ conns < MaxConn /\ Serving
    /\ coreUp' = TRUE /\ initDone' = FALSE
    /\ conns' = conns + 1
    /\ toHost' = Append(toHost, Event("connected"))
    /\ UNCHANGED <<clientVars, atCore, files, lost>>

(* handleInitClash removes what an earlier Core spilled. *)
CoreInit ==
    /\ coreUp /\ ~initDone
    /\ initDone' = TRUE
    /\ files' = {} /\ lost' = {}
    /\ UNCHANGED <<clientVars, coreUp, conns, atCore, toHost>>

(* A call is answered with its result, or with the path of its file.        *)
Answer(c, spilled) ==
    /\ coreUp /\ c \in atCore
    /\ atCore' = atCore \ {c}
    /\ files' = IF spilled THEN files \cup {c} ELSE files
    /\ toHost' = Append(toHost, Response(c, spilled))
    /\ UNCHANGED <<clientVars, coreUp, initDone, conns, lost>>

(* send: a write that times out before its first byte drops the answer and  *)
(* keeps the connection.                                                    *)
DropAnswer(c, spilled) ==
    /\ coreUp /\ c \in atCore
    /\ atCore' = atCore \ {c}
    /\ files' = IF spilled THEN files \cup {c} ELSE files
    /\ lost' = IF spilled THEN lost \cup {c} ELSE lost
    /\ UNCHANGED <<clientVars, coreUp, initDone, conns, toHost>>

(* serve returns, or send closes the connection after a partial write.      *)
CoreGoes ==
    /\ coreUp
    /\ coreUp' = FALSE
    /\ atCore' = {}
    /\ toHost' = Append(toHost, Event("disconnected"))
    /\ UNCHANGED <<clientVars, initDone, conns, files, lost>>

ServerFails ==
    /\ ~coreUp /\ Serving
    /\ toHost' = Append(toHost, Event("failed"))
    /\ UNCHANGED <<clientVars, coreVars, files, lost>>

-----------------------------------------------------------------------------
Next ==
    \/ \E c \in Calls : Invoke(c) \/ TimerFires(c) \/ ReadDone(c)
    \/ \E c \in Calls, spilled \in BOOLEAN : Answer(c, spilled) \/ DropAnswer(c, spilled)
    \/ Tick \/ Handle \/ Close
    \/ Connects \/ CoreInit \/ CoreGoes \/ ServerFails

(* Time passes, timers fire, and the isolate and its workers go on.  The    *)
(* Core owes nothing: an answer may never come.                             *)
Fairness ==
    /\ WF_vars(Tick) /\ WF_vars(Handle)
    /\ \A c \in Calls : WF_vars(TimerFires(c)) /\ WF_vars(ReadDone(c))

Spec == Init /\ [][Next]_vars /\ Fairness

-----------------------------------------------------------------------------
(* Properties. *)

(* _pending neither leaks nor forgets: it holds calls that still wait, and  *)
(* every call that waits is in it unless its answer is being read.          *)
PendingIsWaiting == pending \subseteq Waiting /\ Waiting \subseteq pending \cup reading

(* "disconnect fails every pending request": no call is left waiting on a   *)
(* connection that has gone, and none waits for one that never comes after  *)
(* the client closed.                                                       *)
NoneOnDeadLink ==
    \A c \in Waiting \ reading :
        /\ ~closed
        /\ call[c] = "sent" => link = "up"
        /\ call[c] = "connecting" => link = "down"

(* A spilled answer that reached the client is read or discarded: a file on *)
(* disk is being read, is on its way, or its answer was lost.               *)
NoFileLeft == files \subseteq Files(toHost) \cup reading \cup lost

(* No call and no spilled answer is forgotten, whichever of answer,         *)
(* timeout, disconnect and close comes first: a call that waits is pending  *)
(* or being read, on a link that is still up, and a file on disk is read or *)
(* discarded (_pending, _failPending, _discardSpilled).                     *)
NothingIsForgotten == PendingIsWaiting /\ NoneOnDeadLink /\ NoFileLeft

(* "A slow method is not failed on behalf of a healthy link": a call that   *)
(* was sent times out only after a whole window without any response of its *)
(* own time, or at its hard deadline.                                       *)
NoEarlyTimeout ==
    [][\A c \in Calls :
         call[c] = "sent" /\ call'[c] = "timedOut" =>
             \/ age[c] >= HardDeadline
             \/ age[c] >= Idle /\ sinceLast >= Idle]_vars

(* Every call settles, whatever the Core does. *)
EveryCallSettles == \A c \in Calls : c \in Waiting ~> c \notin Waiting

=============================================================================
