---------------------------- MODULE CoreMessages ----------------------------
(***************************************************************************)
(* The events of the Go Core (core/message.go): any goroutine puts a       *)
(* message into one of three bounded queues without ever blocking, and one *)
(* goroutine, the batcher, takes them out by preference and sends them in  *)
(* batches.  Every channel operation is a step of its own.                 *)
(***************************************************************************)
EXTENDS Naturals, Sequences, FiniteSets

CONSTANTS
    MaxMessage,     \* bound on the messages
    QueueSize,      \* messageQueueSize
    BatchSize,      \* messageBatchSize
    Burst,          \* messagePriorityBurst
    EvictAttempts   \* messageEvictAttempts

ASSUME MessagesAssumption ==
    /\ MaxMessage \in Nat
    /\ QueueSize \in Nat \ {0}
    /\ BatchSize \in Nat \ {0}
    /\ Burst \in Nat \ {0}
    /\ EvictAttempts \in Nat \ {0}

Messages == 1..MaxMessage
Queues == {"state", "priority", "bulk"}
Classes == {"state", "priority", "bulk", "yielding"}

(* sendMessage: the queue of each class, and whether enqueueLatest serves   *)
(* it.                                                                      *)
QueueOf(c) == IF c = "yielding" THEN "bulk" ELSE c
YieldingEvicts(c) == c # "state"
Evicts(c) == c \in {"priority", "bulk"}

VARIABLES
    queue,      \* the three channels
    class,      \* the class of each message
    fate,       \* where each message is
    attempt,    \* enqueueLatest: attempts made for each message
    pc,         \* the batcher's next step
    burst,      \* priorityBurst
    batch,      \* the batch being filled
    timer,      \* its timer: off, running or fired
    waited,     \* history: priority messages taken while bulk was waiting
    pushedOut   \* history: the message that pushed each evicted one out

senderVars == <<class, attempt, pushedOut>>
batcherVars == <<pc, burst, batch, timer>>
vars == <<queue, class, fate, attempt, pc, burst, batch, timer, waited, pushedOut>>

Accepted == {"queued", "batched"}

-----------------------------------------------------------------------------
TypeOK ==
    /\ queue \in [Queues -> Seq(Messages)]
    /\ \A q \in Queues : Len(queue[q]) <= QueueSize
    /\ class \in [Messages -> Classes]
    /\ fate \in [Messages -> {"unsent", "trying", "evicting", "queued", "refused",
                              "evicted", "batched", "sent"}]
    /\ attempt \in [Messages -> 0..EvictAttempts]
    /\ pc \in {"state", "bulkTurn", "priority", "any", "flushing", "sending"}
    /\ burst \in 0..Burst
    /\ batch \in Seq(Messages) /\ Len(batch) <= BatchSize
    /\ timer \in {"off", "running", "fired"}
    /\ waited \in Nat
    /\ pushedOut \in [Messages -> 0..MaxMessage]

Init ==
    /\ queue = [q \in Queues |-> <<>>]
    /\ class = [m \in Messages |-> "state"]
    /\ fate = [m \in Messages |-> "unsent"]
    /\ attempt = [m \in Messages |-> 0]
    /\ pc = "state"
    /\ burst = 0
    /\ batch = <<>>
    /\ timer = "off"
    /\ waited = 0
    /\ pushedOut = [m \in Messages |-> 0]

-----------------------------------------------------------------------------
(* The senders. *)

(* Without a listener nothing is queued. *)
SendMessage(m, c) ==
    /\ fate[m] = "unsent"
    /\ \A n \in Messages : n < m => fate[n] # "unsent"
    /\ class' = [class EXCEPT ![m] = c]
    /\ \E heard \in BOOLEAN :
         fate' = [fate EXCEPT ![m] = IF heard THEN "trying" ELSE "refused"]
    /\ UNCHANGED <<queue, attempt, batcherVars, waited, pushedOut>>

(* enqueueState, and the first select of enqueueLatest. *)
Enqueue(m) ==
    LET q == QueueOf(class[m]) IN
    /\ fate[m] = "trying"
    /\ \/ /\ Len(queue[q]) < QueueSize
          /\ queue' = [queue EXCEPT ![q] = Append(@, m)]
          /\ fate' = [fate EXCEPT ![m] = "queued"]
          /\ waited' = IF q = "bulk" /\ queue[q] = <<>> THEN 0 ELSE waited
       \/ /\ Len(queue[q]) = QueueSize
          /\ fate' = [fate EXCEPT ![m] = IF Evicts(class[m]) THEN "evicting" ELSE "refused"]
          /\ UNCHANGED <<queue, waited>>
    /\ UNCHANGED <<senderVars, batcherVars>>

(* The second select of enqueueLatest, and its loop. *)
Retries(m) == attempt[m] + 1 < EvictAttempts

EvictOldest(m) ==
    LET q == QueueOf(class[m])
        next == IF Retries(m) THEN "trying" ELSE "refused"
        oldest == IF queue[q] = <<>> THEN {} ELSE {Head(queue[q])} IN
    /\ fate[m] = "evicting"
    /\ attempt' = [attempt EXCEPT ![m] = @ + 1]
    /\ fate' = [n \in Messages |-> IF n = m THEN next
                                   ELSE IF n \in oldest THEN "evicted" ELSE fate[n]]
    /\ queue' = [queue EXCEPT ![q] = IF @ = <<>> THEN @ ELSE Tail(@)]
    /\ pushedOut' = [n \in Messages |-> IF n \in oldest THEN m ELSE pushedOut[n]]
    /\ UNCHANGED <<class, batcherVars, waited>>

-----------------------------------------------------------------------------
(* The batcher: runMessageBatcher. *)

(* take: the first message of a batch starts its timer, a full batch is     *)
(* flushed.                                                                 *)
LateTimer == timer
TimerAfterTake == IF batch = <<>> THEN "running" ELSE timer

Take(q) ==
    /\ queue[q] # <<>>
    /\ queue' = [queue EXCEPT ![q] = Tail(@)]
    /\ fate' = [fate EXCEPT ![Head(queue[q])] = "batched"]
    /\ batch' = Append(batch, Head(queue[q]))
    /\ timer' = TimerAfterTake
    /\ pc' = IF Len(batch) + 1 >= BatchSize THEN "flushing" ELSE "state"
    /\ waited' = CASE q = "bulk" -> 0
                   [] q = "priority" /\ queue["bulk"] # <<>> -> waited + 1
                   [] OTHER -> waited
    /\ UNCHANGED senderVars

(* A select with default: the queue is empty. *)
Pass(q, next) ==
    /\ queue[q] = <<>>
    /\ pc' = next
    /\ UNCHANGED <<queue, fate, batch, timer, waited, senderVars>>

PollState ==
    /\ pc = "state"
    /\ Take("state") \/ Pass("state", "bulkTurn")
    /\ UNCHANGED burst

BulkTurnLate == burst > Burst
BulkTurnDue == burst >= Burst

BulkTurn ==
    /\ pc = "bulkTurn"
    /\ \/ /\ BulkTurnDue
          /\ burst' = 0
          /\ Take("bulk") \/ Pass("bulk", "priority")
       \/ /\ ~BulkTurnDue
          /\ pc' = "priority"
          /\ UNCHANGED <<burst, queue, fate, batch, timer, waited, senderVars>>

PollPriority ==
    /\ pc = "priority"
    /\ \/ Take("priority") /\ burst' = burst + 1
       \/ Pass("priority", "any") /\ UNCHANGED burst

(* The blocking select takes whichever case is ready. *)
SelectAny ==
    /\ pc = "any"
    /\ \/ Take("state") /\ UNCHANGED burst
       \/ Take("priority") /\ burst' = burst + 1
       \/ Take("bulk") /\ burst' = 0
       \/ /\ timer = "fired"
          /\ pc' = "flushing"
          /\ UNCHANGED <<burst, queue, fate, batch, timer, waited, senderVars>>

(* flush: the timer is stopped and drained before the batch is sent. *)
KeepsTimer == timer
StoppedTimer == "off"

Flush ==
    /\ pc = "flushing"
    /\ timer' = StoppedTimer
    /\ fate' = [m \in Messages |-> IF fate[m] = "batched" THEN "sent" ELSE fate[m]]
    /\ batch' = <<>>
    /\ pc' = "sending"
    /\ UNCHANGED <<queue, burst, waited, senderVars>>

(* deliverEvent may take as long as the link does. *)
Delivered ==
    /\ pc = "sending"
    /\ pc' = "state"
    /\ UNCHANGED <<queue, fate, burst, batch, timer, waited, senderVars>>

TimerFires ==
    /\ timer = "running"
    /\ timer' = "fired"
    /\ UNCHANGED <<queue, fate, pc, burst, batch, waited, senderVars>>

-----------------------------------------------------------------------------
Batcher == PollState \/ BulkTurn \/ PollPriority \/ SelectAny \/ Flush \/ Delivered

Sender(m) == Enqueue(m) \/ EvictOldest(m)

Next ==
    \/ \E m \in Messages : Sender(m) \/ \E c \in Classes : SendMessage(m, c)
    \/ Batcher
    \/ TimerFires

(* Goroutines are scheduled, the timer fires, and the link takes a batch in *)
(* the end (a frame that cannot be written is dropped).                     *)
Fairness ==
    /\ \A m \in Messages : WF_vars(Sender(m))
    /\ WF_vars(Batcher) /\ WF_vars(TimerFires)

Spec == Init /\ [][Next]_vars /\ Fairness

-----------------------------------------------------------------------------
(* Properties. *)

(* "A full priority or bulk queue evicts only its own oldest event": state  *)
(* events are never pushed out, and a DNS lookup never pushes out the       *)
(* request events it shares a queue with.                                   *)
EvictsOwnQueueOnly ==
    \A m \in Messages : fate[m] = "evicted" =>
        LET n == pushedOut[m] IN
        /\ n # 0
        /\ class[m] # "state"
        /\ class[n] \in {"priority", "bulk"}
        /\ QueueOf(class[n]) = QueueOf(class[m])

(* "One bulk opportunity is guaranteed after eight priority messages": no   *)
(* more are taken in a row while a bulk message waits.                      *)
BulkNotStarved == waited <= Burst

(* A batch that holds messages has a timer of its own, and an empty one has *)
(* none: a tick left over from an earlier batch would cut the next short.   *)
TimerIsOfThisBatch == pc # "flushing" => (batch = <<>> <=> timer = "off")

(* A message that was accepted is sent, unless a newer one pushes it out.   *)
AcceptedLeaves ==
    \A m \in Messages : fate[m] \in Accepted ~> fate[m] \in {"sent", "evicted"}

=============================================================================
