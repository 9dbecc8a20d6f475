-------------------------- MODULE CoreMessagesProofs --------------------------
(***************************************************************************)
(* Theorems about CoreMessages for every number of messages, every size of *)
(* queue and batch, every burst and every number of attempts.              *)
(***************************************************************************)
EXTENDS CoreMessages, SequenceTheorems, TLAPS

Fates == {"unsent", "trying", "evicting", "queued", "refused", "evicted", "batched",
          "sent"}
Pcs == {"state", "bulkTurn", "priority", "any", "flushing", "sending"}

(* A sender that has not returned has attempts left, and only those that    *)
(* may evict come to it.                                                    *)
SendersBounded ==
    \A m \in Messages :
        /\ fate[m] \in {"unsent", "trying", "evicting"} => attempt[m] < EvictAttempts
        /\ fate[m] = "evicting" => Evicts(class[m])

(* A queue holds messages of its own classes. *)
InTheirQueue ==
    \A q \in Queues : \A i \in 1..Len(queue[q]) :
        fate[queue[q][i]] # "unsent" /\ QueueOf(class[queue[q][i]]) = q

(* What pushed a message out has been sent, so its class is settled.        *)
Evictions ==
    /\ EvictsOwnQueueOnly
    /\ \A m \in Messages : fate[m] = "evicted" => fate[pushedOut[m]] # "unsent"

(* The burst counts at least the priority messages a waiting bulk message   *)
(* saw go by, and the batcher reaches the priority queue with some of it    *)
(* left.                                                                    *)
BurstCounts ==
    /\ BulkNotStarved
    /\ queue["bulk"] # <<>> => waited <= burst
    /\ pc \in {"priority", "any"} => burst < Burst

(* Room is left in the batch wherever the batcher takes a message.          *)
BatchHasRoom == pc # "flushing" => Len(batch) < BatchSize

Inv ==
    /\ TypeOK /\ SendersBounded
    /\ InTheirQueue /\ Evictions
    /\ BurstCounts
    /\ TimerIsOfThisBatch /\ BatchHasRoom

-----------------------------------------------------------------------------
(* Sequences. *)

(* What leaves the front of a queue, and what stays. *)
LEMMA FrontOf ==
    ASSUME NEW S, NEW s \in Seq(S), s # <<>>
    PROVE  /\ Len(s) \in Nat \ {0}
           /\ Head(s) = s[1] /\ Head(s) \in S
           /\ Tail(s) \in Seq(S) /\ Len(Tail(s)) = Len(s) - 1
           /\ \A i \in 1..Len(Tail(s)) : i + 1 \in 1..Len(s) /\ Tail(s)[i] = s[i + 1]
<1>1. Len(s) \in Nat \ {0}
  BY EmptySeq
<1>2. QED
  BY <1>1, HeadTailProperties

(* Every queue holds messages; taking its head or leaving it keeps that.    *)
LEMMA HeadOfQueue ==
    ASSUME Inv, NEW q \in Queues, queue[q] # <<>>
    PROVE  /\ Head(queue[q]) \in Messages
           /\ fate[Head(queue[q])] # "unsent"
           /\ QueueOf(class[Head(queue[q])]) = q
<1>1. queue[q] \in Seq(Messages)
  BY DEF Inv, TypeOK
<1>2. 1 \in 1..Len(queue[q]) /\ Head(queue[q]) = queue[q][1] /\ Head(queue[q]) \in Messages
  BY <1>1, FrontOf
<1>3. QED
  BY <1>2 DEF Inv, InTheirQueue

LEMMA QueueShortens ==
    ASSUME Inv, NEW q \in Queues, queue[q] # <<>>,
           queue' = [queue EXCEPT ![q] = Tail(@)],
           class' = class,
           \A m \in Messages : fate[m] # "unsent" => fate'[m] # "unsent"
    PROVE  /\ queue' \in [Queues -> Seq(Messages)]
           /\ \A r \in Queues : Len(queue'[r]) <= QueueSize
           /\ InTheirQueue'
<1>1. queue \in [Queues -> Seq(Messages)] /\ QueueSize \in Nat
  BY MessagesAssumption DEF Inv, TypeOK
<1>2. /\ Tail(queue[q]) \in Seq(Messages) /\ Len(Tail(queue[q])) = Len(queue[q]) - 1
      /\ Len(queue[q]) \in Nat
      /\ \A i \in 1..Len(Tail(queue[q])) :
           i + 1 \in 1..Len(queue[q]) /\ Tail(queue[q])[i] = queue[q][i + 1]
  BY <1>1, FrontOf
<1>3. queue' \in [Queues -> Seq(Messages)]
  BY <1>1, <1>2
<1>4. \A r \in Queues : Len(queue'[r]) <= QueueSize
  BY <1>1, <1>2 DEF Inv, TypeOK
<1>5. ASSUME NEW r \in Queues, NEW i \in 1..Len(queue'[r])
      PROVE  fate'[queue'[r][i]] # "unsent" /\ QueueOf(class'[queue'[r][i]]) = r
  <2>1. \E j \in 1..Len(queue[r]) : queue'[r][i] = queue[r][j]
    <3>1. CASE r = q
      BY <1>1, <1>2, <3>1
    <3>2. CASE r # q
      BY <1>1, <3>2
    <3>3. QED
      BY <3>1, <3>2
  <2>2. PICK j \in 1..Len(queue[r]) : queue'[r][i] = queue[r][j]
    BY <2>1
  <2>3. queue[r][j] \in Messages
    BY <1>1, ElementOfSeq
  <2>4. QED
    BY <2>2, <2>3 DEF Inv, InTheirQueue
<1>6. QED
  BY <1>3, <1>4, <1>5 DEF InTheirQueue

(* A queue that is not touched keeps what it holds, as long as no message   *)
(* is sent anew and classes stay.                                           *)
LEMMA QueueStays ==
    ASSUME Inv, queue' = queue,
           \A m \in Messages : fate[m] # "unsent" =>
               fate'[m] # "unsent" /\ class'[m] = class[m]
    PROVE  InTheirQueue'
<1>1. ASSUME NEW q \in Queues, NEW i \in 1..Len(queue[q])
      PROVE  fate'[queue[q][i]] # "unsent" /\ QueueOf(class'[queue[q][i]]) = q
  <2>1. queue[q][i] \in Messages
    BY ElementOfSeq DEF Inv, TypeOK
  <2>2. QED
    BY <2>1 DEF Inv, InTheirQueue
<1>2. QED
  BY <1>1 DEF InTheirQueue

-----------------------------------------------------------------------------
(* The senders keep the invariant. *)

LEMMA SendMessageKeeps ==
    ASSUME Inv, NEW m \in Messages, NEW c \in Classes, SendMessage(m, c)
    PROVE  Inv'
<1>1. PICK f \in {"trying", "refused"} : fate' = [fate EXCEPT ![m] = f]
  BY DEF SendMessage
<1>2. fate[m] = "unsent" /\ class' = [class EXCEPT ![m] = c]
  BY DEF SendMessage
<1>3. UNCHANGED <<queue, attempt, pc, burst, batch, timer, waited, pushedOut>>
  BY DEF SendMessage, batcherVars
<1>4. TypeOK'
  BY <1>1, <1>2, <1>3 DEF Inv, TypeOK
<1>5. SendersBounded'
  BY <1>1, <1>2, <1>3 DEF Inv, TypeOK, SendersBounded
<1>6. \A n \in Messages : n # m => fate'[n] = fate[n] /\ class'[n] = class[n]
  BY <1>1, <1>2 DEF Inv, TypeOK
<1>7. InTheirQueue'
  BY <1>2, <1>3, <1>6, QueueStays
<1>8. Evictions'
  <2>1. ASSUME NEW n \in Messages, fate'[n] = "evicted"
        PROVE  n # m /\ fate[n] = "evicted" /\ pushedOut[n] \in Messages /\ pushedOut[n] # m
    <3>1. n # m /\ fate[n] = "evicted"
      BY <1>1, <1>6, <2>1 DEF Inv, TypeOK
    <3>2. pushedOut[n] \in Messages
      BY <3>1, MessagesAssumption DEF Inv, TypeOK, Evictions, EvictsOwnQueueOnly, Messages
    <3>3. QED
      BY <1>2, <3>1, <3>2 DEF Inv, Evictions
  <2>2. QED
    BY <1>3, <1>6, <2>1 DEF Inv, Evictions, EvictsOwnQueueOnly
<1>9. QED
  BY <1>3, <1>4, <1>5, <1>7, <1>8
     DEF Inv, BurstCounts, BulkNotStarved, TimerIsOfThisBatch, BatchHasRoom

(* Moving a message on, without sending it anew, keeps what was evicted.    *)
LEMMA EvictionsStay ==
    ASSUME Inv, UNCHANGED <<class, pushedOut>>,
           \A n \in Messages : fate'[n] = "evicted" => fate[n] = "evicted",
           \A n \in Messages : fate[n] # "unsent" => fate'[n] # "unsent"
    PROVE  Evictions'
<1>1. ASSUME NEW n \in Messages, fate'[n] = "evicted"
      PROVE  fate[n] = "evicted" /\ pushedOut[n] \in Messages /\ fate'[pushedOut[n]] # "unsent"
  <2>1. fate[n] = "evicted"
    BY <1>1
  <2>2. pushedOut[n] \in Messages
    BY <2>1, MessagesAssumption DEF Inv, TypeOK, Evictions, EvictsOwnQueueOnly, Messages
  <2>3. QED
    BY <2>1, <2>2 DEF Inv, Evictions
<1>2. QED
  BY <1>1 DEF Inv, Evictions, EvictsOwnQueueOnly

LEMMA EnqueueKeeps ==
    ASSUME Inv, NEW m \in Messages, Enqueue(m)
    PROVE  Inv'
<1> DEFINE q == QueueOf(class[m])
<1>1. /\ fate[m] = "trying"
      /\ UNCHANGED <<class, attempt, pushedOut, pc, burst, batch, timer>>
  BY DEF Enqueue, senderVars, batcherVars
<1>2. q \in Queues
  BY DEF Inv, TypeOK, Classes, Queues, QueueOf
<1>3. CASE /\ Len(queue[q]) < QueueSize
           /\ queue' = [queue EXCEPT ![q] = Append(@, m)]
           /\ fate' = [fate EXCEPT ![m] = "queued"]
           /\ waited' = IF q = "bulk" /\ queue[q] = <<>> THEN 0 ELSE waited
  <2>1. queue \in [Queues -> Seq(Messages)] /\ QueueSize \in Nat
    BY MessagesAssumption DEF Inv, TypeOK
  <2>2. /\ Append(queue[q], m) \in Seq(Messages) /\ Append(queue[q], m) # <<>>
        /\ Len(Append(queue[q], m)) = Len(queue[q]) + 1 /\ Len(queue[q]) \in Nat
        /\ \A i \in 1..Len(queue[q]) : Append(queue[q], m)[i] = queue[q][i]
        /\ Append(queue[q], m)[Len(queue[q]) + 1] = m
    BY <1>2, <2>1, AppendProperties, LenProperties
  <2>3. queue' \in [Queues -> Seq(Messages)] /\ \A r \in Queues : Len(queue'[r]) <= QueueSize
    BY <1>2, <1>3, <2>1, <2>2 DEF Inv, TypeOK
  <2>4. waited' \in Nat /\ waited' <= Burst
    BY <1>3, MessagesAssumption DEF Inv, TypeOK, BurstCounts, BulkNotStarved
  <2>5. TypeOK'
    BY <1>1, <1>3, <2>3, <2>4 DEF Inv, TypeOK
  <2>6. SendersBounded'
    BY <1>1, <1>3 DEF Inv, TypeOK, SendersBounded
  <2>7. ASSUME NEW r \in Queues, NEW i \in 1..Len(queue'[r])
        PROVE  fate'[queue'[r][i]] # "unsent" /\ QueueOf(class'[queue'[r][i]]) = r
    <3>1. CASE r = q /\ i = Len(queue[q]) + 1
      <4>1. queue'[r][i] = m
        BY <1>2, <1>3, <2>1, <2>2, <3>1
      <4>2. QED
        BY <1>1, <1>3, <3>1, <4>1 DEF Inv, TypeOK
    <3>2. CASE ~(r = q /\ i = Len(queue[q]) + 1)
      <4>1. i \in 1..Len(queue[r]) /\ queue'[r][i] = queue[r][i]
        BY <1>2, <1>3, <2>1, <2>2, <3>2
      <4>2. queue[r][i] \in Messages
        BY <2>1, <4>1, ElementOfSeq
      <4>3. QED
        BY <1>1, <1>3, <4>1, <4>2 DEF Inv, TypeOK, InTheirQueue
    <3>3. QED
      BY <3>1, <3>2
  <2>8. Evictions'
    BY <1>1, <1>3, EvictionsStay DEF Inv, TypeOK
  <2>9. BurstCounts'
    <3>1. queue'["bulk"] # <<>> => waited' <= burst
      <4>1. CASE q = "bulk" /\ queue[q] = <<>>
        BY <1>3, <4>1 DEF Inv, TypeOK
      <4>2. CASE q = "bulk" /\ queue[q] # <<>>
        BY <1>3, <4>2 DEF Inv, BurstCounts
      <4>3. CASE q # "bulk"
        BY <1>3, <2>1, <4>3 DEF Inv, BurstCounts, Queues
      <4>4. QED
        BY <4>1, <4>2, <4>3
    <3>2. QED
      BY <1>1, <2>4, <3>1 DEF Inv, BurstCounts, BulkNotStarved
  <2>10. QED
    BY <1>1, <2>5, <2>6, <2>7, <2>8, <2>9
       DEF Inv, InTheirQueue, TimerIsOfThisBatch, BatchHasRoom
<1>4. CASE /\ fate' = [fate EXCEPT ![m] = IF Evicts(class[m]) THEN "evicting" ELSE "refused"]
           /\ UNCHANGED <<queue, waited>>
  <2>1. TypeOK' /\ SendersBounded'
    BY <1>1, <1>4 DEF Inv, TypeOK, SendersBounded
  <2>2. InTheirQueue'
    BY <1>1, <1>4, QueueStays DEF Inv, TypeOK
  <2>3. Evictions'
    BY <1>1, <1>4, EvictionsStay DEF Inv, TypeOK
  <2>4. QED
    BY <1>1, <1>4, <2>1, <2>2, <2>3
       DEF Inv, BurstCounts, BulkNotStarved, TimerIsOfThisBatch, BatchHasRoom
<1>5. QED
  BY <1>3, <1>4 DEF Enqueue

LEMMA EvictOldestKeeps ==
    ASSUME Inv, NEW m \in Messages, EvictOldest(m)
    PROVE  Inv'
<1> DEFINE q == QueueOf(class[m])
           next == IF Retries(m) THEN "trying" ELSE "refused"
           oldest == IF queue[q] = <<>> THEN {} ELSE {Head(queue[q])}
<1>1. /\ fate[m] = "evicting" /\ Evicts(class[m]) /\ attempt[m] < EvictAttempts
      /\ UNCHANGED <<class, pc, burst, batch, timer, waited>>
  BY DEF EvictOldest, batcherVars, Inv, SendersBounded
<1>2. /\ attempt' = [attempt EXCEPT ![m] = @ + 1]
      /\ fate' = [n \in Messages |-> IF n = m THEN next
                                     ELSE IF n \in oldest THEN "evicted" ELSE fate[n]]
      /\ queue' = [queue EXCEPT ![q] = IF @ = <<>> THEN @ ELSE Tail(@)]
      /\ pushedOut' = [n \in Messages |-> IF n \in oldest THEN m ELSE pushedOut[n]]
  BY DEF EvictOldest
<1>3. q \in {"priority", "bulk"} /\ q \in Queues
  BY <1>1 DEF Evicts, QueueOf, Queues
<1>4. /\ queue \in [Queues -> Seq(Messages)]
      /\ \A n \in Messages : fate[n] # "unsent" => fate'[n] # "unsent"
  BY <1>2 DEF Inv, TypeOK
<1>5. /\ queue' \in [Queues -> Seq(Messages)] /\ \A r \in Queues : Len(queue'[r]) <= QueueSize
      /\ InTheirQueue'
  <2>1. CASE queue[q] = <<>>
    <3>1. queue' = queue
      BY <1>2, <1>3, <1>4, <2>1
    <3>2. QED
      BY <1>1, <1>4, <3>1, QueueStays DEF Inv, TypeOK
  <2>2. CASE queue[q] # <<>>
    <3>1. queue' = [queue EXCEPT ![q] = Tail(@)]
      BY <1>2, <1>3, <1>4, <2>2
    <3>2. QED
      BY <1>1, <1>3, <1>4, <2>2, <3>1, QueueShortens
  <2>3. QED
    BY <2>1, <2>2
<1>6. attempt' \in [Messages -> 0..EvictAttempts]
  BY <1>1, <1>2, MessagesAssumption DEF Inv, TypeOK
<1>7. fate' \in [Messages -> Fates] /\ pushedOut' \in [Messages -> 0..MaxMessage]
  BY <1>2, MessagesAssumption DEF Inv, TypeOK, Fates, Messages
<1>8. TypeOK'
  BY <1>1, <1>5, <1>6, <1>7 DEF Inv, TypeOK, Fates
<1>9. SendersBounded'
  <2>1. ASSUME NEW n \in Messages, fate'[n] \in {"unsent", "trying", "evicting"}
        PROVE  attempt'[n] < EvictAttempts
    <3>1. CASE n = m
      BY <1>1, <1>2, <2>1, <3>1, MessagesAssumption DEF Inv, TypeOK, Retries
    <3>2. CASE n # m
      BY <1>2, <2>1, <3>2 DEF Inv, TypeOK, SendersBounded
    <3>3. QED
      BY <3>1, <3>2
  <2>2. \A n \in Messages : fate'[n] = "evicting" => fate[n] = "evicting"
    BY <1>2
  <2>3. QED
    BY <1>1, <2>1, <2>2 DEF Inv, SendersBounded
<1>10. Evictions'
  <2>1. ASSUME NEW n \in Messages, fate'[n] = "evicted"
        PROVE  /\ pushedOut'[n] # 0 /\ class'[n] # "state"
               /\ class'[pushedOut'[n]] \in {"priority", "bulk"}
               /\ QueueOf(class'[pushedOut'[n]]) = QueueOf(class'[n])
               /\ fate'[pushedOut'[n]] # "unsent"
    <3>1. CASE n \in oldest
      <4>1. queue[q] # <<>> /\ n = Head(queue[q])
        BY <3>1
      <4>2. QueueOf(class[n]) = q
        BY <1>3, <4>1, HeadOfQueue
      <4>3. pushedOut'[n] = m /\ m # 0
        BY <1>2, <3>1, MessagesAssumption DEF Messages
      <4>4. class[n] # "state"
        BY <1>3, <4>2 DEF QueueOf
      <4>5. QED
        BY <1>1, <1>4, <4>2, <4>3, <4>4 DEF Evicts
    <3>2. CASE n \notin oldest
      <4>1. fate[n] = "evicted" /\ pushedOut'[n] = pushedOut[n]
        BY <1>2, <2>1, <3>2
      <4>2. pushedOut[n] \in Messages
        BY <4>1, MessagesAssumption
           DEF Inv, TypeOK, Evictions, EvictsOwnQueueOnly, Messages
      <4>3. QED
        BY <1>1, <1>4, <4>1, <4>2 DEF Inv, Evictions, EvictsOwnQueueOnly
    <3>3. QED
      BY <3>1, <3>2
  <2>2. QED
    BY <2>1 DEF Evictions, EvictsOwnQueueOnly
<1>11. BurstCounts'
  <2>1. queue'["bulk"] # <<>> => queue["bulk"] # <<>>
    BY <1>2, <1>3, <1>4 DEF Queues
  <2>2. QED
    BY <1>1, <2>1 DEF Inv, BurstCounts, BulkNotStarved
<1>12. QED
  BY <1>1, <1>5, <1>8, <1>9, <1>10, <1>11 DEF Inv, TimerIsOfThisBatch, BatchHasRoom

-----------------------------------------------------------------------------
(* The batcher keeps the invariant. *)

(* Taking a message, whichever select takes it, when the burst covers what  *)
(* bulk has been waiting for.                                               *)
LEMMA TakeKeeps ==
    ASSUME Inv, NEW q \in Queues, pc # "flushing", Take(q),
           burst' \in 0..Burst, waited' \in Nat, waited' <= Burst,
           queue'["bulk"] # <<>> => waited' <= burst'
    PROVE  Inv'
<1> DEFINE h == Head(queue[q])
<1>1. /\ queue[q] # <<>>
      /\ queue' = [queue EXCEPT ![q] = Tail(@)]
      /\ fate' = [fate EXCEPT ![h] = "batched"]
      /\ batch' = Append(batch, h)
      /\ timer' = IF batch = <<>> THEN "running" ELSE timer
      /\ pc' = IF Len(batch) + 1 >= BatchSize THEN "flushing" ELSE "state"
      /\ UNCHANGED <<class, attempt, pushedOut>>
  BY DEF Take, TimerAfterTake, senderVars
<1>2. h \in Messages /\ fate[h] # "unsent"
  BY <1>1, HeadOfQueue
<1>3. \A n \in Messages : fate'[n] = IF n = h THEN "batched" ELSE fate[n]
  BY <1>1, <1>2 DEF Inv, TypeOK
<1>4. /\ queue' \in [Queues -> Seq(Messages)]
      /\ \A r \in Queues : Len(queue'[r]) <= QueueSize
      /\ InTheirQueue'
  <2>1. \A n \in Messages : fate[n] # "unsent" => fate'[n] # "unsent"
    BY <1>3
  <2>2. /\ queue[q] # <<>>
        /\ queue' = [queue EXCEPT ![q] = Tail(@)]
        /\ class' = class
    BY <1>1
  <2>3. QED
    BY <2>1, <2>2, QueueShortens
<1>5. /\ batch' \in Seq(Messages) /\ batch' # <<>>
      /\ Len(batch) \in Nat /\ Len(batch') = Len(batch) + 1
  <2>1. batch \in Seq(Messages) /\ h \in Messages
    BY <1>2 DEF Inv, TypeOK
  <2>2. batch' = Append(batch, h)
    BY <1>1
  <2> HIDE DEF h
  <2>3. Len(batch) \in Nat
    BY <2>1, LenProperties
  <2>4. Append(batch, h) \in Seq(Messages) /\ Append(batch, h) # <<>>
        /\ Len(Append(batch, h)) = Len(batch) + 1
    BY <2>1, AppendProperties
  <2>5. QED
    BY <2>2, <2>3, <2>4
<1>6. Len(batch) < BatchSize
  BY DEF Inv, BatchHasRoom
<1>7. TypeOK'
  <2>1. fate' \in [Messages -> Fates]
    BY <1>1, <1>2 DEF Inv, TypeOK, Fates
  <2>2. Len(batch') <= BatchSize /\ BatchSize \in Nat
    BY <1>5, <1>6, MessagesAssumption
  <2>3. timer' \in {"off", "running", "fired"} /\ pc' \in {"flushing", "state"}
    BY <1>1 DEF Inv, TypeOK
  <2>4. QED
    BY <1>1, <1>4, <1>5, <2>1, <2>2, <2>3 DEF Inv, TypeOK, Fates
<1>8. SendersBounded'
  BY <1>1, <1>3 DEF Inv, SendersBounded
<1>9. Evictions'
  BY <1>1, <1>3, EvictionsStay
<1>10. BurstCounts'
  BY <1>1 DEF BurstCounts, BulkNotStarved
<1>11. TimerIsOfThisBatch'
  BY <1>1, <1>5 DEF Inv, TimerIsOfThisBatch
<1>12. BatchHasRoom'
  BY <1>1, <1>5, <1>6, MessagesAssumption DEF BatchHasRoom
<1>13. QED
  BY <1>4, <1>7, <1>8, <1>9, <1>10, <1>11, <1>12 DEF Inv

(* How long bulk has been waiting, after a message was taken. *)
LEMMA WaitingAfterTake ==
    ASSUME Inv, NEW q \in Queues, Take(q)
    PROVE  /\ q = "bulk" => waited' = 0
           /\ q = "state" => waited' = waited
           /\ q = "priority" => waited' = IF queue["bulk"] # <<>> THEN waited + 1 ELSE waited
           /\ q # "bulk" => queue'["bulk"] = queue["bulk"]
           /\ waited \in Nat /\ burst \in 0..Burst /\ waited <= Burst
           /\ queue["bulk"] # <<>> => waited <= burst
<1>1. q # "bulk" => queue'["bulk"] = queue["bulk"]
  BY DEF Take, Inv, TypeOK, Queues
<1>2. waited' = CASE q = "bulk" -> 0
                  [] q = "priority" /\ queue["bulk"] # <<>> -> waited + 1
                  [] OTHER -> waited
  BY DEF Take
<1>3. q = "bulk" => waited' = 0
  BY <1>2
<1>4. q = "state" => waited' = waited
  BY <1>2
<1>5. q = "priority" => waited' = IF queue["bulk"] # <<>> THEN waited + 1 ELSE waited
  BY <1>2
<1>6. QED
  BY <1>1, <1>3, <1>4, <1>5 DEF Inv, TypeOK, BurstCounts, BulkNotStarved

(* A select that found its queue empty, or a step that moves only the       *)
(* batcher's place, when the place it moves to is justified.                *)
LEMMA MovingOnKeeps ==
    ASSUME Inv, pc # "flushing",
           UNCHANGED <<queue, class, fate, attempt, batch, timer, waited, pushedOut>>,
           pc' \in Pcs, burst' \in 0..Burst,
           queue["bulk"] # <<>> => waited <= burst',
           pc' \in {"priority", "any"} => burst' < Burst
    PROVE  Inv'
<1>1. TypeOK' /\ SendersBounded'
  BY DEF Inv, TypeOK, SendersBounded, Pcs
<1>2. InTheirQueue' /\ Evictions'
  BY QueueStays, EvictionsStay DEF Inv
<1>3. BurstCounts'
  BY DEF Inv, BurstCounts, BulkNotStarved
<1>4. TimerIsOfThisBatch' /\ BatchHasRoom'
  BY DEF Inv, TimerIsOfThisBatch, BatchHasRoom
<1>5. QED
  BY <1>1, <1>2, <1>3, <1>4 DEF Inv

LEMMA PollStateKeeps ==
    ASSUME Inv, PollState
    PROVE  Inv'
<1>1. pc = "state" /\ burst' = burst /\ burst \in 0..Burst
  BY DEF PollState, Inv, TypeOK
<1>2. CASE Take("state")
  BY <1>1, <1>2, TakeKeeps, WaitingAfterTake DEF Queues
<1>3. CASE Pass("state", "bulkTurn")
  BY <1>1, <1>3, MovingOnKeeps DEF Pass, senderVars, Pcs, Inv, BurstCounts
<1>4. QED
  BY <1>2, <1>3 DEF PollState

(* Without its turn coming up, bulk has not waited for a whole burst; with  *)
(* it, either a bulk message is taken or none is waiting.                   *)
LEMMA BulkTurnKeeps ==
    ASSUME Inv, BulkTurn
    PROVE  Inv'
<1>1. pc = "bulkTurn" /\ burst \in 0..Burst /\ Burst \in Nat \ {0}
  BY MessagesAssumption DEF BulkTurn, Inv, TypeOK
<1>2. CASE burst' = 0 /\ Take("bulk")
  BY <1>1, <1>2, TakeKeeps, WaitingAfterTake DEF Queues
<1>3. CASE burst' = 0 /\ Pass("bulk", "priority")
  BY <1>1, <1>3, MovingOnKeeps DEF Pass, senderVars, Pcs
<1>4. CASE /\ ~BulkTurnDue
           /\ pc' = "priority"
           /\ UNCHANGED <<burst, queue, fate, batch, timer, waited, senderVars>>
  <2>1. burst < Burst
    BY <1>1, <1>4 DEF BulkTurnDue
  <2>2. QED
    BY <1>1, <1>4, <2>1, MovingOnKeeps DEF senderVars, Pcs, Inv, BurstCounts
<1>5. QED
  BY <1>2, <1>3, <1>4 DEF BulkTurn

(* The next priority message, with some of the burst left. *)
LEMMA PriorityTakeKeeps ==
    ASSUME Inv, pc \in {"priority", "any"}, Take("priority"), burst' = burst + 1
    PROVE  Inv'
<1>1. burst < Burst /\ Burst \in Nat
  BY MessagesAssumption DEF Inv, BurstCounts
<1>2. /\ waited' = IF queue["bulk"] # <<>> THEN waited + 1 ELSE waited
      /\ queue'["bulk"] = queue["bulk"]
      /\ waited \in Nat /\ burst \in 0..Burst /\ waited <= Burst
      /\ queue["bulk"] # <<>> => waited <= burst
  BY WaitingAfterTake DEF Queues
<1>3. /\ burst' \in 0..Burst /\ waited' \in Nat /\ waited' <= Burst
      /\ queue'["bulk"] # <<>> => waited' <= burst'
  BY <1>1, <1>2
<1>4. QED
  BY <1>3, TakeKeeps DEF Queues

LEMMA PollPriorityKeeps ==
    ASSUME Inv, PollPriority
    PROVE  Inv'
<1>1. CASE Take("priority") /\ burst' = burst + 1
  BY <1>1, PriorityTakeKeeps DEF PollPriority
<1>2. CASE Pass("priority", "any") /\ burst' = burst
  BY <1>2, MovingOnKeeps
     DEF PollPriority, Pass, senderVars, Pcs, Inv, TypeOK, BurstCounts
<1>3. QED
  BY <1>1, <1>2 DEF PollPriority

LEMMA SelectAnyKeeps ==
    ASSUME Inv, SelectAny
    PROVE  Inv'
<1>1. pc = "any" /\ burst \in 0..Burst /\ Burst \in Nat
  BY MessagesAssumption DEF SelectAny, Inv, TypeOK
<1>2. CASE Take("state") /\ burst' = burst
  BY <1>1, <1>2, TakeKeeps, WaitingAfterTake DEF Queues
<1>3. CASE Take("priority") /\ burst' = burst + 1
  BY <1>1, <1>3, PriorityTakeKeeps
<1>4. CASE Take("bulk") /\ burst' = 0
  BY <1>1, <1>4, TakeKeeps, WaitingAfterTake DEF Queues
<1>5. CASE /\ pc' = "flushing"
           /\ UNCHANGED <<burst, queue, fate, batch, timer, waited, senderVars>>
  BY <1>1, <1>5, MovingOnKeeps DEF senderVars, Pcs, Inv, BurstCounts
<1>6. QED
  BY <1>2, <1>3, <1>4, <1>5 DEF SelectAny

LEMMA FlushKeeps ==
    ASSUME Inv, Flush
    PROVE  Inv'
<1>1. /\ timer' = "off" /\ batch' = <<>> /\ pc' = "sending"
      /\ fate' = [m \in Messages |-> IF fate[m] = "batched" THEN "sent" ELSE fate[m]]
      /\ UNCHANGED <<queue, burst, waited, class, attempt, pushedOut>>
  BY DEF Flush, StoppedTimer, senderVars
<1>2. fate' \in [Messages -> Fates]
  BY <1>1 DEF Inv, TypeOK, Fates
<1>3. batch' \in Seq(Messages) /\ Len(batch') = 0 /\ BatchSize \in Nat \ {0}
  BY <1>1, MessagesAssumption
<1>4. TypeOK'
  BY <1>1, <1>2, <1>3 DEF Inv, TypeOK, Fates
<1>5. SendersBounded'
  BY <1>1 DEF Inv, SendersBounded
<1>6. InTheirQueue' /\ Evictions'
  BY <1>1, QueueStays, EvictionsStay
<1>7. BurstCounts' /\ TimerIsOfThisBatch' /\ BatchHasRoom'
  BY <1>1, <1>3 DEF Inv, BurstCounts, BulkNotStarved, TimerIsOfThisBatch, BatchHasRoom
<1>8. QED
  BY <1>4, <1>5, <1>6, <1>7 DEF Inv

LEMMA DeliveredKeeps ==
    ASSUME Inv, Delivered
    PROVE  Inv'
BY MovingOnKeeps DEF Delivered, senderVars, Pcs, Inv, TypeOK, BurstCounts

LEMMA TimerFiresKeeps ==
    ASSUME Inv, TimerFires
    PROVE  Inv'
<1>1. /\ timer = "running" /\ timer' = "fired"
      /\ UNCHANGED <<queue, fate, pc, burst, batch, waited, class, attempt, pushedOut>>
  BY DEF TimerFires, senderVars
<1>2. TypeOK' /\ SendersBounded'
  BY <1>1 DEF Inv, TypeOK, SendersBounded
<1>3. InTheirQueue' /\ Evictions'
  BY <1>1, QueueStays, EvictionsStay
<1>4. BurstCounts' /\ TimerIsOfThisBatch' /\ BatchHasRoom'
  BY <1>1 DEF Inv, BurstCounts, BulkNotStarved, TimerIsOfThisBatch, BatchHasRoom
<1>5. QED
  BY <1>2, <1>3, <1>4 DEF Inv

-----------------------------------------------------------------------------
(* The theorems. *)

LEMMA InitInv == Init => Inv
<1> SUFFICES ASSUME Init PROVE Inv
  OBVIOUS
<1>1. /\ <<>> \in Seq(Messages) /\ Len(<<>>) = 0
      /\ QueueSize \in Nat \ {0} /\ BatchSize \in Nat \ {0} /\ Burst \in Nat \ {0}
      /\ EvictAttempts \in Nat \ {0} /\ MaxMessage \in Nat
  BY MessagesAssumption
<1>2. \A q \in Queues : queue[q] = <<>>
  BY DEF Init
<1>3. TypeOK
  BY <1>1, <1>2 DEF Init, TypeOK, Classes
<1>4. InTheirQueue
  BY <1>1, <1>2 DEF InTheirQueue
<1>5. QED
  BY <1>1, <1>3, <1>4
     DEF Init, Inv, SendersBounded, Evictions, EvictsOwnQueueOnly, BurstCounts,
         BulkNotStarved, TimerIsOfThisBatch, BatchHasRoom

LEMMA NextKeeps == Inv /\ [Next]_vars => Inv'
<1> SUFFICES ASSUME Inv, [Next]_vars PROVE Inv'
  OBVIOUS
<1>1. ASSUME NEW m \in Messages, NEW c \in Classes, SendMessage(m, c) PROVE Inv'
  BY <1>1, SendMessageKeeps
<1>2. ASSUME NEW m \in Messages, Sender(m) PROVE Inv'
  BY <1>2, EnqueueKeeps, EvictOldestKeeps DEF Sender
<1>3. CASE Batcher
  BY <1>3, PollStateKeeps, BulkTurnKeeps, PollPriorityKeeps, SelectAnyKeeps, FlushKeeps,
     DeliveredKeeps DEF Batcher
<1>4. CASE TimerFires
  BY <1>4, TimerFiresKeeps
<1>5. CASE UNCHANGED vars
  BY <1>5 DEF vars, Inv, TypeOK, SendersBounded, InTheirQueue, Evictions,
     EvictsOwnQueueOnly, BurstCounts, BulkNotStarved, TimerIsOfThisBatch, BatchHasRoom
<1>6. QED
  BY <1>1, <1>2, <1>3, <1>4, <1>5 DEF Next

LEMMA Invariance == Spec => []Inv
BY InitInv, NextKeeps, PTL DEF Spec

(* The queues never hold more than their capacity, the batch no more than   *)
(* its size, and the rest keeps its types.                                  *)
THEOREM TypeCorrect == Spec => []TypeOK
BY Invariance, PTL DEF Inv

(* "A full priority or bulk queue evicts only its own oldest event": no     *)
(* state event and no event of another queue is ever pushed out.            *)
THEOREM EvictionStaysInQueue == Spec => []EvictsOwnQueueOnly
BY Invariance, PTL DEF Inv, Evictions

(* "One bulk opportunity is guaranteed after eight priority messages": a    *)
(* waiting bulk message sees at most a burst of them taken before it.       *)
THEOREM BulkTurnGuaranteed == Spec => []BulkNotStarved
BY Invariance, PTL DEF Inv, BurstCounts

(* The batch timer runs exactly while a batch is being filled, so no tick   *)
(* of an earlier batch cuts a later one short.                              *)
THEOREM TimerBelongsToBatch == Spec => []TimerIsOfThisBatch
BY Invariance, PTL DEF Inv

=============================================================================
