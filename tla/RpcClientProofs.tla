---------------------------- MODULE RpcClientProofs ----------------------------
(***************************************************************************)
(* No call and no spilled answer is forgotten, and no call times out on a    *)
(* healthy link: theorems about RpcClient for any number of calls and of     *)
(* connections and for any windows.                                          *)
(***************************************************************************)
EXTENDS RpcClient, TLAPS

Outcomes == {"unsent", "connecting", "sent", "answered", "timedOut", "failed"}
Losses == {"connected", "disconnected", "failed"}
Items == {Response(c, spilled) : c \in Calls, spilled \in BOOLEAN} \cup {Event(kind) : kind \in Losses}

(* The kinds of values the safety rests on. *)
Shaped ==
    /\ call \in [Calls -> Outcomes]
    /\ pending \in SUBSET Calls /\ reading \in SUBSET Calls
    /\ age \in [Calls -> Nat] /\ timer \in [Calls -> Int] /\ sinceLast \in Nat
    /\ closed \in BOOLEAN /\ coreUp \in BOOLEAN /\ initDone \in BOOLEAN
    /\ link \in {"down", "up", "failed"}
    /\ conns \in 0..MaxConn
    /\ atCore \in SUBSET Calls /\ files \in SUBSET Calls /\ lost \in SUBSET Calls
    /\ toHost \in Seq(Items)

Fresh == {c \in Calls : call[c] \in {"unsent", "connecting"}}

(* Only calls that were sent are answered. *)
AnsweredWereSent ==
    /\ \A c \in Fresh : c \notin atCore /\ c \notin reading
    /\ \A i \in 1..Len(toHost) : toHost[i].kind = "response" => toHost[i].call \notin Fresh

(* A call whose answer is being read is pending no more. *)
ReadOnce == pending \cap reading = {}

Inv == Shaped /\ AnsweredWereSent /\ ReadOnce /\ NothingIsForgotten

-----------------------------------------------------------------------------
(* Sequences of items. *)

LEMMA ItemParts ==
    \A item \in Items :
        /\ item.kind \in {"response"} \cup Losses /\ item.call \in 0..MaxCall /\ item.file \in BOOLEAN
        /\ item.kind = "response" => item.call \in Calls
        /\ item.kind # "response" => ~item.file
<1> SUFFICES ASSUME NEW item \in Items
             PROVE  /\ item.kind \in {"response"} \cup Losses /\ item.call \in 0..MaxCall
                    /\ item.file \in BOOLEAN
                    /\ item.kind = "response" => item.call \in Calls
                    /\ item.kind # "response" => ~item.file
  OBVIOUS
<1>1. Calls \subseteq 0..MaxCall /\ 0 \in 0..MaxCall /\ "response" \notin Losses
  BY RpcAssumption DEF Calls, Losses
<1>2. CASE \E c \in Calls, spilled \in BOOLEAN : item = Response(c, spilled)
  <2>1. PICK c \in Calls, spilled \in BOOLEAN : item = Response(c, spilled)
    BY <1>2
  <2>2. item.kind = "response" /\ item.call = c /\ item.file = spilled
    BY <2>1 DEF Response
  <2>3. QED
    BY <1>1, <2>1, <2>2
<1>3. CASE \E kind \in Losses : item = Event(kind)
  <2>1. PICK kind \in Losses : item = Event(kind)
    BY <1>3
  <2>2. item.kind = kind /\ item.call = 0 /\ item.file = FALSE
    BY <2>1 DEF Event
  <2>3. QED
    BY <1>1, <2>1, <2>2
<1>4. QED
  BY <1>2, <1>3 DEF Items

LEMMA FirstAndRest ==
    ASSUME NEW S, NEW q \in Seq(S), q # <<>>
    PROVE  /\ Head(q) \in S /\ Tail(q) \in Seq(S) /\ Head(q) = q[1] /\ 1 \in 1..Len(q)
           /\ \A i \in 1..Len(Tail(q)) : i + 1 \in 1..Len(q) /\ Tail(q)[i] = q[i + 1]
           /\ \A i \in 1..Len(q) : i # 1 => i - 1 \in 1..Len(Tail(q)) /\ Tail(q)[i - 1] = q[i]
<1>1. Len(q) \in Nat /\ Len(q) # 0
  OBVIOUS
<1>2. PICK n \in Nat : n = Len(q)
  BY <1>1
<1>3. n >= 1 /\ Tail(q) \in Seq(S) /\ Len(Tail(q)) = n - 1 /\ Head(q) = q[1]
  BY <1>1, <1>2
<1>4. \A i \in 1..n - 1 : Tail(q)[i] = q[i + 1]
  BY <1>2, <1>3
<1>5. \A i \in 1..n : q[i] \in S
  BY <1>2
<1>6. QED
  BY <1>2, <1>3, <1>4, <1>5

LEMMA OneMore ==
    ASSUME NEW S, NEW q \in Seq(S), NEW x \in S
    PROVE  /\ Append(q, x) \in Seq(S) /\ Len(Append(q, x)) = Len(q) + 1
           /\ \A i \in 1..Len(q) : Append(q, x)[i] = q[i]
           /\ Append(q, x)[Len(q) + 1] = x
OBVIOUS

(* The answers that name a file. *)
LEMMA FilesOf ==
    ASSUME NEW S, NEW q \in Seq(S)
    PROVE  \A c : c \in Files(q) <=> \E i \in 1..Len(q) : q[i].file /\ q[i].call = c
<1>1. DOMAIN q = 1..Len(q)
  OBVIOUS
<1>2. QED
  BY <1>1 DEF Files

LEMMA FilesOfRest ==
    ASSUME NEW S, NEW q \in Seq(S), q # <<>>
    PROVE  \A c \in Files(q) : c \in Files(Tail(q)) \/ (Head(q).file /\ c = Head(q).call)
<1> SUFFICES ASSUME NEW c \in Files(q)
             PROVE  c \in Files(Tail(q)) \/ (Head(q).file /\ c = Head(q).call)
  OBVIOUS
<1>1. PICK i \in 1..Len(q) : q[i].file /\ q[i].call = c
  BY FilesOf
<1>2. CASE i = 1
  BY <1>1, <1>2, FirstAndRest
<1>3. CASE i # 1
  <2>1. i - 1 \in 1..Len(Tail(q)) /\ Tail(q)[i - 1] = q[i] /\ Tail(q) \in Seq(S)
    BY <1>3, FirstAndRest
  <2>2. QED
    BY <1>1, <2>1, FilesOf
<1>4. QED
  BY <1>2, <1>3

LEMMA FilesOfMore ==
    ASSUME NEW S, NEW q \in Seq(S), NEW x \in S
    PROVE  /\ \A c \in Files(q) : c \in Files(Append(q, x))
           /\ x.file => x.call \in Files(Append(q, x))
<1>1. Append(q, x) \in Seq(S) /\ Len(Append(q, x)) = Len(q) + 1 /\ Append(q, x)[Len(q) + 1] = x
  BY OneMore
<1>2. PICK n \in Nat : n = Len(q)
  OBVIOUS
<1>3. n + 1 \in 1..n + 1 /\ \A i \in 1..n : i \in 1..n + 1
  BY <1>2
<1>4. ASSUME NEW c \in Files(q) PROVE c \in Files(Append(q, x))
  <2>1. PICK i \in 1..n : q[i].file /\ q[i].call = c
    BY <1>2, FilesOf
  <2>2. Append(q, x)[i] = q[i]
    BY <1>2, OneMore
  <2>3. QED
    BY <1>1, <1>2, <1>3, <2>1, <2>2, FilesOf
<1>5. ASSUME x.file PROVE x.call \in Files(Append(q, x))
  <2>1. PICK r \in Seq(S) : r = Append(q, x)
    BY <1>1
  <2>2. n + 1 \in 1..Len(r) /\ r[n + 1].file /\ r[n + 1].call = x.call
    BY <1>1, <1>2, <1>3, <1>5, <2>1
  <2>3. x.call \in Files(r)
    BY <2>2, FilesOf
  <2>4. QED
    BY <2>1, <2>3
<1>6. QED
  BY <1>4, <1>5

-----------------------------------------------------------------------------
LEMMA InvInit == Init => Inv
<1> SUFFICES ASSUME Init PROVE Inv
  OBVIOUS
<1>1. toHost = <<>> /\ toHost \in Seq(Items) /\ Len(toHost) = 0
  BY DEF Init
<1>2. 0 \in 0..MaxConn
  BY RpcAssumption
<1>3. call \in [Calls -> Outcomes] /\ age \in [Calls -> Nat] /\ timer \in [Calls -> Int]
  BY DEF Init, Outcomes
<1>4. Shaped
  BY <1>1, <1>2, <1>3 DEF Init, Shaped
<1>5. Waiting = {} /\ \A c \in Calls : c \in Fresh
  BY DEF Init, Waiting, Fresh
<1>6. AnsweredWereSent
  BY <1>1 DEF Init, AnsweredWereSent
<1>7. PendingIsWaiting /\ NoneOnDeadLink /\ NoFileLeft
  BY <1>5 DEF Init, PendingIsWaiting, NoneOnDeadLink, NoFileLeft
<1>8. ReadOnce
  BY DEF Init, ReadOnce
<1>9. QED
  BY <1>4, <1>6, <1>7, <1>8 DEF Inv, NothingIsForgotten

-----------------------------------------------------------------------------
(* The caller. *)

LEMMA Windows ==
    /\ HardDeadline \in Nat /\ Idle <= HardDeadline
    /\ ConnectWindow \in Nat /\ ConnectWindow <= Idle
    /\ Shaped => \A c \in Calls : WindowLeft(c) \in Int
BY RpcAssumption DEF HardDeadline, ConnectWindow, Shorter, Shaped, WindowLeft, Silence

(* Answers on their way stay answers to calls that were sent. *)
LEMMA StillSent ==
    ASSUME Inv, UNCHANGED toHost, Fresh' \subseteq Fresh
    PROVE  \A i \in 1..Len(toHost') : toHost'[i].kind = "response" => toHost'[i].call \notin Fresh'
BY DEF Inv, AnsweredWereSent

(* What sending the calls in C comes to when some of them are accepted. *)
Sends(C, late, accepted) ==
    /\ call' \in [Calls -> Outcomes] /\ timer' \in [Calls -> Int]
    /\ atCore' \in SUBSET Calls /\ atCore' = atCore \cup accepted
    /\ \A c \in Calls : /\ c \in accepted => call'[c] = "sent"
                        /\ c \in C \ accepted => call'[c] = "failed"
                        /\ c \notin C /\ c \in late => call'[c] = "timedOut"
                        /\ c \notin C /\ c \notin late => call'[c] = call[c]
                        /\ timer'[c] = IF c \in accepted THEN WindowLeft(c) ELSE timer[c]

LEMMA SendsAll ==
    ASSUME Shaped, NEW C \in SUBSET Calls, NEW late \in SUBSET Calls,
           C \cap late = {}, SendAll(C, late)
    PROVE  \E accepted \in SUBSET C : Sends(C, late, accepted)
<1>1. PICK accepted \in SUBSET C :
        /\ call' = [c \in Calls |-> CASE c \in accepted -> "sent"
                                      [] c \in C \ accepted -> "failed"
                                      [] c \in late -> "timedOut"
                                      [] OTHER -> call[c]]
        /\ timer' = [c \in Calls |-> IF c \in accepted THEN WindowLeft(c) ELSE timer[c]]
        /\ atCore' = atCore \cup accepted
  BY DEF SendAll
<1>2. \A c \in Calls : /\ c \in accepted => call'[c] = "sent"
                       /\ c \in C \ accepted => call'[c] = "failed"
                       /\ c \notin C /\ c \in late => call'[c] = "timedOut"
                       /\ c \notin C /\ c \notin late => call'[c] = call[c]
  <2> TAKE c \in Calls
  <2>1. call'[c] = CASE c \in accepted -> "sent"
                     [] c \in C \ accepted -> "failed"
                     [] c \in late -> "timedOut"
                     [] OTHER -> call[c]
    BY <1>1
  <2>2. c \in accepted => call'[c] = "sent"
    BY <1>1, <2>1
  <2>3. c \in C \ accepted => call'[c] = "failed"
    BY <1>1, <2>1
  <2>4. c \notin C /\ c \in late => call'[c] = "timedOut"
    BY <1>1, <2>1
  <2>5. c \notin C /\ c \notin late => call'[c] = call[c]
    BY <1>1, <2>1
  <2>6. QED
    BY <2>2, <2>3, <2>4, <2>5
<1>3. DOMAIN call' = Calls /\ call' = [c \in Calls |-> call'[c]]
  BY <1>1
<1>4. \A c \in Calls : call'[c] \in Outcomes
  BY <1>2 DEF Shaped, Outcomes
<1>5. timer' \in [Calls -> Int]
  BY <1>1, Windows DEF Shaped
<1>6. call' \in [Calls -> Outcomes] /\ atCore' \in SUBSET Calls
  BY <1>1, <1>3, <1>4 DEF Shaped
<1>7. \A c \in Calls : timer'[c] = IF c \in accepted THEN WindowLeft(c) ELSE timer[c]
  BY <1>1
<1>8. Sends(C, late, accepted)
  BY <1>1, <1>2, <1>5, <1>6, <1>7 DEF Sends
<1>9. QED
  BY <1>8

LEMMA InvokeKeeps == ASSUME Inv, NEW c \in Calls, Invoke(c) PROVE Inv'
<1>1. /\ call[c] = "unsent" /\ c \in Fresh /\ c \notin Waiting /\ c \notin pending /\ c \notin atCore
      /\ c \notin reading /\ Shaped
  BY DEF Invoke, Fresh, Waiting, Inv, AnsweredWereSent, NothingIsForgotten, PendingIsWaiting
<1>2. UNCHANGED <<reading, age, sinceLast, closed, link, coreUp, initDone, conns, files, lost, toHost>>
  BY DEF Invoke
<1>3. ReadOnce'
  BY <1>1, <1>2 DEF Invoke, Inv, ReadOnce
<1>4. CASE /\ closed \/ link = "failed"
           /\ call' = [call EXCEPT ![c] = "failed"] /\ UNCHANGED <<pending, timer, atCore>>
  <2>1. Shaped'
    BY <1>1, <1>2, <1>4 DEF Shaped, Outcomes
  <2>2. Fresh' \subseteq Fresh /\ Waiting' = Waiting
    BY <1>1, <1>4 DEF Shaped, Fresh, Waiting
  <2>3. \A d \in Waiting : call'[d] = call[d]
    BY <1>1, <1>4 DEF Shaped
  <2>4. AnsweredWereSent'
    BY <1>2, <1>4, <2>2, StillSent DEF Inv, AnsweredWereSent
  <2>5. NothingIsForgotten'
    BY <1>2, <1>4, <2>2, <2>3
    DEF Inv, NothingIsForgotten, PendingIsWaiting, NoneOnDeadLink, NoFileLeft
  <2>6. QED
    BY <1>3, <2>1, <2>4, <2>5 DEF Inv
<1>5. CASE /\ ~closed /\ link = "up" /\ SendAll({c}, {})
           /\ pending' = IF call'[c] = "sent" THEN pending \cup {c} ELSE pending
  <2>1. PICK accepted \in SUBSET {c} :
            /\ call' \in [Calls -> Outcomes] /\ timer' \in [Calls -> Int] /\ atCore' \in SUBSET Calls
            /\ atCore' = atCore \cup accepted
            /\ \A d \in Calls : /\ d \in accepted => call'[d] = "sent"
                                /\ d \in {c} \ accepted => call'[d] = "failed"
                                /\ d \notin {c} => call'[d] = call[d]
    <3>1. PICK C \in SUBSET Calls, late \in SUBSET Calls : C = {c} /\ late = {}
      OBVIOUS
    <3>2. SendAll(C, late) /\ C \cap late = {}
      BY <1>5, <3>1
    <3>3. PICK accepted \in SUBSET C : Sends(C, late, accepted)
      BY <1>1, <3>2, SendsAll
    <3>4. QED
      BY <3>1, <3>3 DEF Sends
  <2>2. call'[c] \in {"sent", "failed"} /\ \A d \in Calls : d # c => call'[d] = call[d]
    BY <2>1
  <2>3. Shaped'
    BY <1>1, <1>2, <1>5, <2>1 DEF Shaped
  <2>4. Fresh' \subseteq Fresh /\ c \notin Fresh'
    BY <2>2 DEF Fresh
  <2>5. AnsweredWereSent'
    <3>1. \A d \in Fresh' : d \notin atCore' /\ d \notin reading'
      BY <1>2, <2>1, <2>4 DEF Inv, AnsweredWereSent
    <3>2. QED
      BY <1>2, <2>4, <3>1, StillSent DEF AnsweredWereSent
  <2>6. Waiting' = IF call'[c] = "sent" THEN Waiting \cup {c} ELSE Waiting
    BY <1>1, <2>2 DEF Waiting
  <2>7. PendingIsWaiting' /\ NoFileLeft'
    BY <1>2, <1>5, <2>6 DEF Inv, NothingIsForgotten, PendingIsWaiting, NoFileLeft
  <2>8. NoneOnDeadLink'
    BY <1>1, <1>2, <1>5, <2>2, <2>6 DEF Inv, NothingIsForgotten, NoneOnDeadLink, Waiting
  <2>9. QED
    BY <1>3, <2>3, <2>5, <2>7, <2>8 DEF Inv, NothingIsForgotten
<1>6. CASE /\ ~closed /\ link = "down"
           /\ call' = [call EXCEPT ![c] = "connecting"] /\ pending' = pending \cup {c}
           /\ timer' = [timer EXCEPT ![c] = ConnectWindow] /\ UNCHANGED atCore
  <2>1. Shaped'
    BY <1>1, <1>2, <1>6, Windows DEF Shaped, Outcomes
  <2>2. /\ Fresh' \subseteq Fresh /\ Waiting' = Waiting \cup {c}
        /\ call'[c] = "connecting" /\ \A d \in Calls : d # c => call'[d] = call[d]
    BY <1>1, <1>6 DEF Shaped, Fresh, Waiting
  <2>3. AnsweredWereSent'
    BY <1>2, <1>6, <2>2, StillSent DEF Inv, AnsweredWereSent
  <2>4. PendingIsWaiting' /\ NoFileLeft'
    BY <1>2, <1>6, <2>2 DEF Inv, NothingIsForgotten, PendingIsWaiting, NoFileLeft
  <2>5. NoneOnDeadLink'
    BY <1>1, <1>2, <1>6, <2>2 DEF Inv, NothingIsForgotten, NoneOnDeadLink, Waiting
  <2>6. QED
    BY <1>3, <2>1, <2>3, <2>4, <2>5 DEF Inv, NothingIsForgotten
<1>7. QED
  BY <1>4, <1>5, <1>6 DEF Invoke

LEMMA TimerKeeps == ASSUME Inv, NEW c \in Calls, TimerFires(c) PROVE Inv'
<1>1. Shaped /\ c \in Waiting
      /\ UNCHANGED <<reading, age, sinceLast, closed, link, coreVars, files, lost, toHost>>
  BY DEF TimerFires, Inv
<1>2. CASE call' = [call EXCEPT ![c] = "timedOut"] /\ pending' = pending \ {c} /\ UNCHANGED timer
  <2>1. Shaped'
    BY <1>1, <1>2 DEF Shaped, Outcomes, coreVars
  <2>2. Fresh' \subseteq Fresh /\ Waiting' = Waiting \ {c} /\ \A d \in Waiting' : call'[d] = call[d]
    BY <1>1, <1>2 DEF Shaped, Fresh, Waiting
  <2>3. AnsweredWereSent'
    BY <1>1, <1>2, <2>2, StillSent DEF Inv, AnsweredWereSent, coreVars
  <2>4. NothingIsForgotten'
    BY <1>1, <1>2, <2>2 DEF Inv, NothingIsForgotten, PendingIsWaiting, NoneOnDeadLink, NoFileLeft
  <2>5. ReadOnce'
    BY <1>1, <1>2 DEF Inv, ReadOnce
  <2>6. QED
    BY <2>1, <2>3, <2>4, <2>5 DEF Inv
<1>3. CASE timer' = [timer EXCEPT ![c] = WindowLeft(c)] /\ UNCHANGED <<call, pending>>
  <2>1. Shaped'
    BY <1>1, <1>3, Windows DEF Shaped, coreVars
  <2>2. Fresh' = Fresh /\ Waiting' = Waiting
    BY <1>3 DEF Fresh, Waiting
  <2>3. AnsweredWereSent'
    BY <1>1, <1>3, <2>2, StillSent DEF Inv, AnsweredWereSent, coreVars
  <2>4. NothingIsForgotten'
    BY <1>1, <1>3, <2>2 DEF Inv, NothingIsForgotten, PendingIsWaiting, NoneOnDeadLink, NoFileLeft
  <2>5. ReadOnce'
    BY <1>1, <1>3 DEF Inv, ReadOnce
  <2>6. QED
    BY <2>1, <2>3, <2>4, <2>5 DEF Inv
<1>4. QED
  BY <1>2, <1>3 DEF TimerFires, RemovePending

LEMMA TickKeeps == ASSUME Inv, Tick PROVE Inv'
<1>1. Shaped /\ UNCHANGED <<call, pending, reading, closed, link, coreVars, files, lost, toHost>>
  BY DEF Tick, Inv
<1>2. Shaped'
  <2>1. age' \in [Calls -> Nat] /\ timer' \in [Calls -> Int]
    BY <1>1 DEF Tick, Shaped
  <2>2. sinceLast' \in Nat
    BY <1>1, RpcAssumption DEF Tick, Shaped, Shorter
  <2>3. QED
    BY <1>1, <2>1, <2>2 DEF Shaped, coreVars
<1>3. QED
  BY <1>1, <1>2, StillSent
  DEF Inv, AnsweredWereSent, ReadOnce, Fresh, NothingIsForgotten, PendingIsWaiting, NoneOnDeadLink, NoFileLeft,
      Waiting, coreVars

-----------------------------------------------------------------------------
(* What arrives. *)

(* The item that is handled, and what is still on its way. *)
LEMMA Popped ==
    ASSUME Inv, toHost # <<>>, toHost' = Tail(toHost)
    PROVE  /\ Head(toHost) \in Items /\ toHost' \in Seq(Items)
           /\ Head(toHost).kind = "response" => Head(toHost).call \notin Fresh
           /\ \A i \in 1..Len(toHost') : toHost'[i].kind = "response" => toHost'[i].call \notin Fresh
           /\ \A c \in Files(toHost) :
                 c \in Files(toHost)' \/ (Head(toHost).file /\ c = Head(toHost).call)
<1>1. toHost \in Seq(Items)
  BY DEF Inv, Shaped
<1>2. Head(toHost) \in Items /\ Head(toHost) = toHost[1] /\ 1 \in 1..Len(toHost)
  BY <1>1, FirstAndRest
<1>3. toHost' \in Seq(Items)
        /\ \A i \in 1..Len(toHost') : i + 1 \in 1..Len(toHost) /\ toHost'[i] = toHost[i + 1]
  BY <1>1, FirstAndRest
<1>4. \A c \in Files(toHost) : c \in Files(Tail(toHost)) \/ (Head(toHost).file /\ c = Head(toHost).call)
  BY <1>1, FilesOfRest
<1>5. Files(toHost)' = Files(Tail(toHost))
  BY DEF Files
<1>6. QED
  BY <1>2, <1>3, <1>4, <1>5 DEF Inv, AnsweredWereSent

LEMMA IgnoreKeeps ==
    ASSUME Inv, Handle, Ignore(Head(toHost)) PROVE Inv'
<1>1. /\ UNCHANGED <<call, pending, reading, timer, sinceLast, link, atCore, files>>
      /\ UNCHANGED <<age, closed, coreUp, initDone, conns>>
      /\ toHost # <<>> /\ toHost' = Tail(toHost)
      /\ lost' = IF Head(toHost).file THEN lost \cup {Head(toHost).call} ELSE lost
  BY DEF Handle, Ignore
<1>2. PICK item \in Items : item = Head(toHost)
  BY <1>1, Popped
<1>3. item.file => item.call \in Calls
  BY ItemParts
<1>4. Shaped'
  BY <1>1, <1>2, <1>3, Popped DEF Inv, Shaped
<1>5. Fresh' = Fresh /\ Waiting' = Waiting
  BY <1>1 DEF Fresh, Waiting
<1>6. AnsweredWereSent'
  BY <1>1, <1>5, Popped DEF Inv, AnsweredWereSent
<1>7. PendingIsWaiting' /\ NoneOnDeadLink'
  BY <1>1, <1>5 DEF Inv, NothingIsForgotten, PendingIsWaiting, NoneOnDeadLink
<1>8. NoFileLeft'
  BY <1>1, Popped DEF Inv, NothingIsForgotten, NoFileLeft
<1>9. ReadOnce'
  BY <1>1 DEF Inv, ReadOnce
<1>10. QED
  BY <1>4, <1>6, <1>7, <1>8, <1>9 DEF Inv, NothingIsForgotten

LEMMA ResponseKeeps ==
    ASSUME Inv, Handle, HandleResponse(Head(toHost)) PROVE Inv'
<1>1. /\ UNCHANGED <<age, closed, coreUp, initDone, conns, timer, link, atCore, lost>>
      /\ toHost # <<>> /\ toHost' = Tail(toHost)
  BY DEF Handle, HandleResponse
<1>2. PICK item \in Items : item = Head(toHost)
  BY <1>1, Popped
<1>3. PICK c : c = item.call
  OBVIOUS
<1>4. /\ item.kind = "response" /\ sinceLast' = 0 /\ pending' = pending \ {c}
      /\ \/ /\ c \notin pending
            /\ files' = IF item.file THEN files \ {c} ELSE files
            /\ UNCHANGED <<call, reading>>
         \/ c \in pending /\ item.file /\ reading' = reading \cup {c} /\ UNCHANGED <<call, files>>
         \/ /\ c \in pending /\ ~item.file /\ call' = [call EXCEPT ![c] = "answered"]
            /\ UNCHANGED <<reading, files>>
  BY <1>2, <1>3 DEF HandleResponse, DiscardSpilled
<1>5. c \in Calls /\ c \notin Fresh /\ Shaped
  BY <1>1, <1>2, <1>3, <1>4, ItemParts, Popped DEF Inv
<1>6. /\ toHost' \in Seq(Items)
      /\ \A i \in 1..Len(toHost') : toHost'[i].kind = "response" => toHost'[i].call \notin Fresh
      /\ \A d \in Files(toHost) : d \in Files(toHost)' \/ (item.file /\ d = c)
  BY <1>1, <1>2, <1>3, Popped
<1>7. Shaped'
  BY <1>1, <1>4, <1>5, <1>6 DEF Shaped, Outcomes
<1>8. Fresh' = Fresh
  BY <1>4, <1>5 DEF Shaped, Fresh
<1>9. AnsweredWereSent'
  BY <1>1, <1>4, <1>5, <1>6, <1>8 DEF Inv, AnsweredWereSent
<1>10. PendingIsWaiting' /\ NoneOnDeadLink'
  <2>1. PendingIsWaiting /\ NoneOnDeadLink
    BY DEF Inv, NothingIsForgotten
  <2>2. CASE c \notin pending /\ UNCHANGED <<call, reading>>
    <3>1. pending' = pending /\ Waiting' = Waiting
      BY <1>4, <2>2 DEF Waiting
    <3>2. QED
      BY <1>1, <2>1, <2>2, <3>1 DEF PendingIsWaiting, NoneOnDeadLink
  <2>3. CASE c \in pending /\ reading' = reading \cup {c} /\ UNCHANGED call
    <3>1. Waiting' = Waiting
      BY <2>3 DEF Waiting
    <3>2. QED
      BY <1>1, <1>4, <2>1, <2>3, <3>1 DEF PendingIsWaiting, NoneOnDeadLink
  <2>4. CASE call' = [call EXCEPT ![c] = "answered"] /\ UNCHANGED reading
    <3>1. Waiting' = Waiting \ {c} /\ \A d \in Waiting' : call'[d] = call[d]
      BY <1>5, <2>4 DEF Waiting, Shaped
    <3>2. QED
      BY <1>1, <1>4, <2>1, <2>4, <3>1 DEF PendingIsWaiting, NoneOnDeadLink
  <2>5. QED
    BY <1>4, <2>2, <2>3, <2>4
<1>11. NoFileLeft'
  BY <1>1, <1>4, <1>6 DEF Inv, NothingIsForgotten, NoFileLeft
<1>12. ReadOnce'
  BY <1>4 DEF Inv, ReadOnce
<1>13. QED
  BY <1>7, <1>9, <1>10, <1>11, <1>12 DEF Inv, NothingIsForgotten

(* Events carry no file. *)
LEMMA EventFiles ==
    ASSUME Inv, Handle, Head(toHost).kind # "response"
    PROVE  Files(toHost) \subseteq Files(toHost)'
BY Popped, ItemParts DEF Handle

LEMMA ConnectedKeeps ==
    ASSUME Inv, Handle, HandleConnected(Head(toHost)) PROVE Inv'
<1> DEFINE onTime == {c \in Connecting : age[c] < Idle}
           late == Connecting \ onTime
<1>1. /\ UNCHANGED <<age, closed, coreUp, initDone, conns, reading, sinceLast, files, lost>>
      /\ toHost # <<>> /\ toHost' = Tail(toHost) /\ Head(toHost).kind = "connected"
      /\ link' = "up" /\ SendAll(onTime, late)
      /\ pending' = pending \ {c \in Connecting : call'[c] # "sent"}
  BY DEF Handle, HandleConnected
<1>2. /\ onTime \in SUBSET Calls /\ late \in SUBSET Calls /\ onTime \cap late = {}
      /\ \A c \in Calls : c \in onTime \/ c \in late <=> c \in Connecting
  BY DEF Connecting
<1> HIDE DEF onTime, late
<1>3. PICK accepted \in SUBSET onTime : Sends(onTime, late, accepted)
  BY <1>1, <1>2, SendsAll DEF Inv
<1>4. /\ \A c \in Calls : /\ c \in accepted => call'[c] = "sent" /\ c \in Connecting
                          /\ c \in Connecting /\ c \notin accepted => call'[c] \in {"failed", "timedOut"}
                          /\ c \notin Connecting => call'[c] = call[c]
      /\ atCore' = atCore \cup accepted
  BY <1>2, <1>3 DEF Sends
<1>5. Shaped'
  BY <1>1, <1>3, Popped DEF Inv, Shaped, Sends
<1>6. Fresh' \subseteq Fresh /\ \A c \in Calls : c \in Fresh' => c \notin Connecting
  BY <1>4 DEF Fresh, Connecting
<1>7. AnsweredWereSent'
  <2>1. \A c \in Fresh' : c \in Fresh /\ c \notin accepted
    BY <1>3, <1>4, <1>6 DEF Fresh
  <2>2. QED
    BY <1>1, <1>4, <1>6, <2>1, Popped DEF Inv, AnsweredWereSent
<1>8. Connecting \subseteq pending
  BY DEF Inv, AnsweredWereSent, NothingIsForgotten, PendingIsWaiting, Waiting, Connecting, Fresh
<1>9. Waiting' \subseteq Waiting /\ \A c \in Waiting' : call'[c] = "sent"
  BY <1>4, <1>6 DEF Waiting, Connecting
<1>10. PendingIsWaiting'
  <2>1. \A c \in pending' : c \in Waiting'
    BY <1>1, <1>4 DEF Inv, NothingIsForgotten, PendingIsWaiting, Waiting, Connecting
  <2>2. \A c \in Waiting' : c \in pending' \/ c \in reading'
    BY <1>1, <1>9 DEF Inv, NothingIsForgotten, PendingIsWaiting
  <2>3. QED
    BY <2>1, <2>2 DEF PendingIsWaiting
<1>11. NoneOnDeadLink'
  BY <1>1, <1>9 DEF Inv, NothingIsForgotten, NoneOnDeadLink
<1>12. NoFileLeft'
  BY <1>1, EventFiles DEF Inv, NothingIsForgotten, NoFileLeft
<1>13. ReadOnce'
  BY <1>1 DEF Inv, ReadOnce
<1>14. QED
  BY <1>5, <1>7, <1>10, <1>11, <1>12, <1>13 DEF Inv, NothingIsForgotten

(* Failing what is pending leaves nobody waiting but for a file. *)
LEMMA FailingKeeps ==
    ASSUME Inv, FailPending, UNCHANGED <<reading, atCore>>
    PROVE  /\ call' \in [Calls -> Outcomes] /\ pending' \in SUBSET Calls /\ Fresh' \subseteq Fresh
           /\ \A c \in Fresh' : c \notin atCore' /\ c \notin reading'
           /\ ReadOnce' /\ PendingIsWaiting' /\ NoneOnDeadLink'
<1>1. \A c \in Calls : call'[c] = IF c \in pending THEN "failed" ELSE call[c]
  BY DEF FailPending, Settle
<1>2. call' \in [Calls -> Outcomes] /\ pending' = {}
  BY DEF FailPending, Settle, Inv, Shaped, Outcomes
<1>3. Fresh' \subseteq Fresh
  BY <1>1 DEF Fresh
<1>4. Waiting' \subseteq reading'
  BY <1>1 DEF Waiting, Inv, NothingIsForgotten, PendingIsWaiting
<1>5. QED
  BY <1>2, <1>3, <1>4 DEF Inv, AnsweredWereSent, ReadOnce, PendingIsWaiting, NoneOnDeadLink

LEMMA LossKeeps ==
    ASSUME Inv, Handle, HandleLoss(Head(toHost)) PROVE Inv'
<1>1. /\ UNCHANGED <<age, closed, coreUp, initDone, conns, reading, sinceLast, timer, atCore, files, lost>>
      /\ toHost # <<>> /\ toHost' = Tail(toHost) /\ Head(toHost).kind # "response"
      /\ link' \in {"failed", "down"} /\ FailPending
  BY DEF Handle, HandleLoss
<1>2. Shaped'
  BY <1>1, FailingKeeps, Popped DEF Inv, Shaped
<1>3. AnsweredWereSent'
  BY <1>1, FailingKeeps, Popped DEF AnsweredWereSent
<1>4. NoFileLeft'
  BY <1>1, EventFiles DEF Inv, NothingIsForgotten, NoFileLeft
<1>5. QED
  BY <1>1, <1>2, <1>3, <1>4, FailingKeeps DEF Inv, NothingIsForgotten

LEMMA CloseKeeps == ASSUME Inv, Close PROVE Inv'
<1>1. /\ closed' = TRUE /\ FailPending
      /\ UNCHANGED <<reading, age, timer, sinceLast, link, coreVars, files, lost, toHost>>
  BY DEF Close
<1>2. UNCHANGED <<coreUp, initDone, conns, atCore>>
  BY <1>1 DEF coreVars
<1>3. Shaped'
  BY <1>1, <1>2, FailingKeeps DEF Inv, Shaped
<1>4. AnsweredWereSent'
  BY <1>1, <1>2, FailingKeeps, StillSent DEF AnsweredWereSent
<1>5. NoFileLeft'
  BY <1>1 DEF Inv, NothingIsForgotten, NoFileLeft
<1>6. QED
  BY <1>1, <1>2, <1>3, <1>4, <1>5, FailingKeeps DEF Inv, NothingIsForgotten

LEMMA ReadKeeps == ASSUME Inv, NEW c \in Calls, ReadDone(c) PROVE Inv'
<1>1. /\ c \in reading /\ reading' = reading \ {c} /\ files' = files \ {c}
      /\ UNCHANGED <<pending, age, timer, sinceLast, closed, link, coreVars, lost, toHost>>
      /\ \/ call[c] = "sent" /\ \E o \in {"answered", "failed"} : call' = [call EXCEPT ![c] = o]
         \/ call[c] # "sent" /\ UNCHANGED call
  BY DEF ReadDone
<1>2. Shaped /\ c \notin Fresh
  BY <1>1 DEF Inv, AnsweredWereSent
<1>3. Shaped'
  BY <1>1, <1>2 DEF Shaped, Outcomes, coreVars
<1>4. Fresh' = Fresh
  BY <1>1, <1>2 DEF Shaped, Fresh
<1>5. AnsweredWereSent'
  BY <1>1, <1>4, StillSent DEF Inv, AnsweredWereSent, coreVars
<1>6. Waiting' = Waiting \ {c} /\ \A d \in Waiting' : call'[d] = call[d]
  BY <1>1, <1>2 DEF Shaped, Fresh, Waiting
<1>7. c \notin pending
  BY <1>1 DEF Inv, ReadOnce
<1>8. PendingIsWaiting' /\ NoneOnDeadLink'
  <2>1. PendingIsWaiting /\ NoneOnDeadLink
    BY DEF Inv, NothingIsForgotten
  <2>2. PendingIsWaiting'
    BY <1>1, <1>6, <1>7, <2>1 DEF PendingIsWaiting
  <2>3. NoneOnDeadLink'
    BY <1>1, <1>6, <2>1 DEF NoneOnDeadLink
  <2>4. QED
    BY <2>2, <2>3
<1>9. NoFileLeft'
  BY <1>1 DEF Inv, NothingIsForgotten, NoFileLeft, Files
<1>10. ReadOnce'
  BY <1>1 DEF Inv, ReadOnce
<1>11. QED
  BY <1>3, <1>5, <1>8, <1>9, <1>10 DEF Inv, NothingIsForgotten

-----------------------------------------------------------------------------
(* The Core and its connection. *)

(* One more item on its way that carries an answer only to a call that was  *)
(* sent, while the client does nothing.                                     *)
LEMMA MoreKeeps ==
    ASSUME Inv, UNCHANGED clientVars, NEW item \in Items, toHost' = Append(toHost, item),
           item.kind = "response" => item.call \notin Fresh, atCore' \subseteq atCore
    PROVE  /\ toHost' \in Seq(Items) /\ AnsweredWereSent' /\ ReadOnce'
           /\ PendingIsWaiting' /\ NoneOnDeadLink' /\ Files(toHost) \subseteq Files(toHost)'
<1>1. UNCHANGED <<call, pending, reading, closed, link>> /\ toHost \in Seq(Items)
  BY DEF clientVars, Inv, Shaped
<1>2. Fresh' = Fresh /\ Waiting' = Waiting
  BY <1>1 DEF Fresh, Waiting
<1>3. /\ toHost' \in Seq(Items) /\ Len(toHost') = Len(toHost) + 1
      /\ toHost'[Len(toHost) + 1] = item /\ \A i \in 1..Len(toHost) : toHost'[i] = toHost[i]
  BY <1>1, OneMore
<1>4. ASSUME NEW i \in 1..Len(toHost'), toHost'[i].kind = "response"
      PROVE  toHost'[i].call \notin Fresh'
  <2>1. PICK n \in Nat : n = Len(toHost)
    BY <1>1
  <2>2. i \in 1..n \/ i = n + 1
    BY <1>3, <2>1
  <2>3. QED
    BY <1>2, <1>3, <1>4, <2>1, <2>2 DEF Inv, AnsweredWereSent
<1>5. AnsweredWereSent'
  BY <1>1, <1>2, <1>4 DEF Inv, AnsweredWereSent
<1>6. ReadOnce' /\ PendingIsWaiting' /\ NoneOnDeadLink'
  BY <1>1, <1>2 DEF Inv, ReadOnce, NothingIsForgotten, PendingIsWaiting, NoneOnDeadLink
<1>7. Files(toHost)' = Files(Append(toHost, item))
  BY DEF Files
<1>8. \A c \in Files(toHost) : c \in Files(Append(toHost, item))
  BY <1>1, FilesOfMore
<1>9. QED
  BY <1>3, <1>5, <1>6, <1>7, <1>8

LEMMA EventIsItem == \A kind \in Losses : Event(kind) \in Items /\ Event(kind).kind # "response"
<1> TAKE kind \in Losses
<1>1. Event(kind).kind = kind
  BY DEF Event
<1>2. Event(kind) \in Items
  BY DEF Items
<1>3. QED
  BY <1>1, <1>2 DEF Losses

LEMMA ConnectsKeeps == ASSUME Inv, Connects PROVE Inv'
<1>1. /\ UNCHANGED <<clientVars, atCore, files, lost>> /\ conns < MaxConn /\ conns' = conns + 1
      /\ coreUp' = TRUE /\ initDone' = FALSE /\ toHost' = Append(toHost, Event("connected"))
  BY DEF Connects
<1>2. PICK item \in Items : item = Event("connected") /\ item.kind # "response"
  BY EventIsItem DEF Losses
<1>3. /\ toHost' \in Seq(Items) /\ AnsweredWereSent' /\ ReadOnce'
      /\ PendingIsWaiting' /\ NoneOnDeadLink' /\ Files(toHost) \subseteq Files(toHost)'
  BY <1>1, <1>2, MoreKeeps
<1>4. conns' \in 0..MaxConn
  BY <1>1, RpcAssumption DEF Inv, Shaped
<1>5. Shaped'
  BY <1>1, <1>3, <1>4 DEF Inv, Shaped, clientVars
<1>6. NoFileLeft'
  BY <1>1, <1>3 DEF Inv, NothingIsForgotten, NoFileLeft, clientVars
<1>7. QED
  BY <1>3, <1>5, <1>6 DEF Inv, NothingIsForgotten

LEMMA EndsKeep == ASSUME Inv, CoreGoes \/ ServerFails PROVE Inv'
<1>1. /\ UNCHANGED <<clientVars, initDone, conns, files, lost>>
      /\ coreUp' = FALSE /\ atCore' \subseteq atCore
      /\ \E kind \in Losses : toHost' = Append(toHost, Event(kind))
  BY DEF CoreGoes, ServerFails, coreVars, Losses
<1>2. PICK item \in Items : toHost' = Append(toHost, item) /\ item.kind # "response"
  BY <1>1, EventIsItem
<1>3. /\ toHost' \in Seq(Items) /\ AnsweredWereSent' /\ ReadOnce'
      /\ PendingIsWaiting' /\ NoneOnDeadLink' /\ Files(toHost) \subseteq Files(toHost)'
  BY <1>1, <1>2, MoreKeeps
<1>4. Shaped'
  BY <1>1, <1>3 DEF Inv, Shaped, clientVars
<1>5. NoFileLeft'
  BY <1>1, <1>3 DEF Inv, NothingIsForgotten, NoFileLeft, clientVars
<1>6. QED
  BY <1>3, <1>4, <1>5 DEF Inv, NothingIsForgotten

LEMMA CoreInitKeeps == ASSUME Inv, CoreInit PROVE Inv'
<1>1. /\ UNCHANGED <<clientVars, coreUp, conns, atCore, toHost>>
      /\ initDone' = TRUE /\ files' = {} /\ lost' = {}
  BY DEF CoreInit
<1>2. UNCHANGED <<call, pending, reading, age, timer, sinceLast, closed, link>>
  BY <1>1 DEF clientVars
<1>3. Shaped'
  BY <1>1, <1>2 DEF Inv, Shaped
<1>4. Fresh' = Fresh /\ Waiting' = Waiting
  BY <1>2 DEF Fresh, Waiting
<1>5. AnsweredWereSent' /\ ReadOnce'
  BY <1>1, <1>2, <1>4, StillSent DEF Inv, AnsweredWereSent, ReadOnce
<1>6. PendingIsWaiting' /\ NoneOnDeadLink' /\ NoFileLeft'
  BY <1>1, <1>2, <1>4 DEF Inv, NothingIsForgotten, PendingIsWaiting, NoneOnDeadLink, NoFileLeft
<1>7. QED
  BY <1>3, <1>5, <1>6 DEF Inv, NothingIsForgotten

LEMMA AnswerKeeps ==
    ASSUME Inv, NEW c \in Calls, NEW spilled \in BOOLEAN, Answer(c, spilled) PROVE Inv'
<1>1. /\ UNCHANGED <<clientVars, coreUp, initDone, conns, lost>> /\ c \in atCore
      /\ atCore' = atCore \ {c} /\ files' = IF spilled THEN files \cup {c} ELSE files
      /\ toHost' = Append(toHost, Response(c, spilled))
  BY DEF Answer
<1>2. PICK item \in Items : /\ item = Response(c, spilled)
                            /\ item.kind = "response" /\ item.call = c /\ item.file = spilled
  <2>1. Response(c, spilled) \in Items
    BY DEF Items
  <2>2. /\ Response(c, spilled).kind = "response"
        /\ Response(c, spilled).call = c /\ Response(c, spilled).file = spilled
    BY DEF Response
  <2>3. QED
    BY <2>1, <2>2
<1>3. c \notin Fresh /\ toHost \in Seq(Items)
  BY <1>1 DEF Inv, AnsweredWereSent, Shaped
<1>4. /\ toHost' \in Seq(Items) /\ AnsweredWereSent' /\ ReadOnce'
      /\ PendingIsWaiting' /\ NoneOnDeadLink' /\ Files(toHost) \subseteq Files(toHost)'
  BY <1>1, <1>2, <1>3, MoreKeeps
<1>5. Shaped'
  BY <1>1, <1>4 DEF Inv, Shaped, clientVars
<1>6. spilled => c \in Files(toHost)'
  <2>1. Files(toHost)' = Files(Append(toHost, item))
    BY <1>1, <1>2 DEF Files
  <2>2. item.file => item.call \in Files(Append(toHost, item))
    BY <1>3, FilesOfMore
  <2>3. QED
    BY <1>2, <2>1, <2>2
<1>7. NoFileLeft'
  BY <1>1, <1>4, <1>6 DEF Inv, NothingIsForgotten, NoFileLeft, clientVars
<1>8. QED
  BY <1>4, <1>5, <1>7 DEF Inv, NothingIsForgotten

LEMMA DropKeeps ==
    ASSUME Inv, NEW c \in Calls, NEW spilled \in BOOLEAN, DropAnswer(c, spilled) PROVE Inv'
<1>1. /\ UNCHANGED <<clientVars, coreUp, initDone, conns, toHost>>
      /\ atCore' = atCore \ {c} /\ files' = IF spilled THEN files \cup {c} ELSE files
      /\ lost' = IF spilled THEN lost \cup {c} ELSE lost
  BY DEF DropAnswer
<1>2. UNCHANGED <<call, pending, reading, age, timer, sinceLast, closed, link>>
  BY <1>1 DEF clientVars
<1>3. Shaped'
  BY <1>1, <1>2 DEF Inv, Shaped
<1>4. Fresh' = Fresh /\ Waiting' = Waiting
  BY <1>2 DEF Fresh, Waiting
<1>5. AnsweredWereSent' /\ ReadOnce'
  BY <1>1, <1>2, <1>4, StillSent DEF Inv, AnsweredWereSent, ReadOnce
<1>6. PendingIsWaiting' /\ NoneOnDeadLink' /\ NoFileLeft'
  BY <1>1, <1>2, <1>4 DEF Inv, NothingIsForgotten, PendingIsWaiting, NoneOnDeadLink, NoFileLeft
<1>7. QED
  BY <1>3, <1>5, <1>6 DEF Inv, NothingIsForgotten

-----------------------------------------------------------------------------
LEMMA StutterKeeps == ASSUME Inv, UNCHANGED vars PROVE Inv'
BY DEF Inv, vars, Shaped, AnsweredWereSent, ReadOnce, NothingIsForgotten, PendingIsWaiting,
       NoneOnDeadLink, NoFileLeft, Waiting, Fresh, Files

LEMMA HandleKeeps == ASSUME Inv, Handle PROVE Inv'
<1>1. \/ Ignore(Head(toHost)) \/ HandleResponse(Head(toHost))
      \/ HandleConnected(Head(toHost)) \/ HandleLoss(Head(toHost))
  BY DEF Handle
<1>2. QED
  BY <1>1, IgnoreKeeps, ResponseKeeps, ConnectedKeeps, LossKeeps

LEMMA InvNext == Inv /\ [Next]_vars => Inv'
<1> SUFFICES ASSUME Inv, [Next]_vars PROVE Inv'
  OBVIOUS
<1>1. CASE \E c \in Calls : Invoke(c) \/ TimerFires(c) \/ ReadDone(c)
  BY <1>1, InvokeKeeps, TimerKeeps, ReadKeeps
<1>2. CASE \E c \in Calls, spilled \in BOOLEAN : Answer(c, spilled) \/ DropAnswer(c, spilled)
  BY <1>2, AnswerKeeps, DropKeeps
<1>3. CASE Tick \/ Handle \/ Close
  BY <1>3, TickKeeps, HandleKeeps, CloseKeeps
<1>4. CASE Connects \/ CoreInit \/ CoreGoes \/ ServerFails
  BY <1>4, ConnectsKeeps, CoreInitKeeps, EndsKeep
<1>5. CASE UNCHANGED vars
  BY <1>5, StutterKeeps
<1>6. QED
  BY <1>1, <1>2, <1>3, <1>4, <1>5 DEF Next

(* No call and no spilled answer is forgotten, whichever of answer, timeout, *)
(* disconnect and close comes first (_pending, _failPending and              *)
(* _discardSpilled of CoreRpcClient).                                        *)
THEOREM NothingStaysForgotten == Spec => []NothingIsForgotten
<1>1. Inv => NothingIsForgotten
  BY DEF Inv
<1>2. QED
  BY <1>1, InvInit, InvNext, PTL DEF Spec

-----------------------------------------------------------------------------
(* Timeouts. *)

(* A window that is over was silent for all of Idle ticks, or the deadline  *)
(* has come.                                                                *)
LEMMA OverIsSilent ==
    ASSUME Shaped, NEW c \in Calls, WindowOver(c)
    PROVE  age[c] >= HardDeadline \/ (age[c] >= Idle /\ sinceLast >= Idle)
<1>1. age[c] \in Nat /\ sinceLast \in Nat /\ Idle \in Nat
  BY RpcAssumption DEF Shaped
<1>2. PICK d \in Nat : d = HardDeadline
  BY Windows
<1>3. QED
  BY <1>1, <1>2 DEF WindowOver, WindowLeft, Silence, Shorter

LEMMA TimeoutsAreDue ==
    ASSUME Inv, [Next]_vars, NEW c \in Calls, call[c] = "sent", call'[c] = "timedOut"
    PROVE  age[c] >= HardDeadline \/ (age[c] >= Idle /\ sinceLast >= Idle)
<1>1. Shaped /\ call \in [Calls -> Outcomes]
  BY DEF Inv, Shaped
<1>2. ASSUME NEW d \in Calls, Invoke(d) PROVE FALSE
  <2>1. c # d
    BY <1>2 DEF Invoke
  <2>2. CASE call' = [call EXCEPT ![d] = "failed"] \/ call' = [call EXCEPT ![d] = "connecting"]
    BY <1>1, <2>1, <2>2
  <2>3. CASE SendAll({d}, {})
    <3>1. PICK C \in SUBSET Calls, late \in SUBSET Calls : C = {d} /\ late = {}
      OBVIOUS
    <3>2. SendAll(C, late) /\ C \cap late = {}
      BY <2>3, <3>1
    <3>3. PICK accepted \in SUBSET C : Sends(C, late, accepted)
      BY <1>1, <3>2, SendsAll
    <3>4. call'[c] = call[c]
      BY <2>1, <3>1, <3>3 DEF Sends
    <3>5. QED
      BY <3>4
  <2>4. QED
    BY <1>2, <2>2, <2>3 DEF Invoke
<1>3. ASSUME NEW d \in Calls, TimerFires(d)
      PROVE  age[c] >= HardDeadline \/ (age[c] >= Idle /\ sinceLast >= Idle)
  <2>1. c = d /\ WindowOver(c)
    BY <1>1, <1>3 DEF TimerFires
  <2>2. QED
    BY <1>1, <2>1, OverIsSilent
<1>4. ASSUME NEW d \in Calls, ReadDone(d) PROVE FALSE
  BY <1>1, <1>4 DEF ReadDone
<1>5. ASSUME FailPending PROVE FALSE
  BY <1>5 DEF FailPending, Settle
<1>6. ASSUME Handle PROVE FALSE
  <2>1. CASE Ignore(Head(toHost)) \/ HandleLoss(Head(toHost))
    BY <1>5, <2>1 DEF Ignore, HandleLoss
  <2>2. CASE HandleResponse(Head(toHost))
    BY <1>1, <2>2 DEF HandleResponse
  <2>3. CASE HandleConnected(Head(toHost))
    <3> DEFINE onTime == {d \in Connecting : age[d] < Idle}
               late == Connecting \ onTime
    <3>1. onTime \in SUBSET Calls /\ late \in SUBSET Calls /\ onTime \cap late = {}
      BY DEF Connecting
    <3>2. SendAll(onTime, late)
      BY <2>3 DEF HandleConnected
    <3>3. c \notin onTime /\ c \notin late
      BY DEF Connecting
    <3> HIDE DEF onTime, late
    <3>4. PICK accepted \in SUBSET onTime : Sends(onTime, late, accepted)
      BY <1>1, <3>1, <3>2, SendsAll
    <3>5. call'[c] = call[c]
      BY <3>3, <3>4 DEF Sends
    <3>6. QED
      BY <3>5
  <2>4. QED
    BY <1>6, <2>1, <2>2, <2>3 DEF Handle
<1>7. CASE call' = call
  BY <1>7
<1>8. CASE Close
  BY <1>5, <1>8 DEF Close
<1>9. \/ \E d \in Calls : Invoke(d) \/ TimerFires(d) \/ ReadDone(d)
      \/ Handle \/ Close \/ call' = call
  BY DEF Next, vars, clientVars, Answer, DropAnswer, Tick, Connects, CoreInit, CoreGoes, ServerFails
<1>10. QED
  BY <1>2, <1>3, <1>4, <1>6, <1>7, <1>8, <1>9

(* "A slow method is not failed on behalf of a healthy link": a call that    *)
(* was sent times out only after a whole window without any response of its  *)
(* own time, or at its hard deadline (_awaitResponse).                       *)
THEOREM TimeoutsAreNeverEarly == Spec => NoEarlyTimeout
<1> DEFINE Due == \A c \in Calls :
                    call[c] = "sent" /\ call'[c] = "timedOut" =>
                        \/ age[c] >= HardDeadline
                        \/ age[c] >= Idle /\ sinceLast >= Idle
<1>1. Inv /\ [Next]_vars => [Due]_vars
  BY TimeoutsAreDue
<1>2. QED
  BY <1>1, InvInit, InvNext, PTL DEF Spec, NoEarlyTimeout

-----------------------------------------------------------------------------
(* The clocks stay in their bounds. *)

Unsent == {c \in Calls : call[c] = "unsent"}

(* A timer never runs past the hard deadline of a call that waits. *)
InTime ==
    /\ sinceLast \in 0..Idle + 1
    /\ \A c \in Calls :
         /\ age[c] \in 0..HardDeadline /\ timer[c] \in 0..Idle
         /\ c \in Unsent => age[c] = 0
         /\ c \in Waiting => age[c] + timer[c] <= HardDeadline

LEMMA InTimeInit == Init => InTime
<1>1. Init => /\ sinceLast = 0
              /\ \A c \in Calls : age[c] = 0 /\ timer[c] = 0 /\ c \notin Waiting
  BY DEF Init, Waiting
<1>2. QED
  BY <1>1, RpcAssumption, Windows DEF InTime

(* The timer of a call that just went out, or goes on waiting. *)
LEMMA WindowFits ==
    ASSUME Shaped, NEW c \in Calls, ~WindowOver(c)
    PROVE  WindowLeft(c) \in 0..Idle /\ age[c] + WindowLeft(c) <= HardDeadline
<1>1. age[c] \in Nat /\ sinceLast \in Nat /\ Idle \in Nat
  BY RpcAssumption DEF Shaped
<1>2. PICK d \in Nat : d = HardDeadline
  BY Windows
<1>3. QED
  BY <1>1, <1>2 DEF WindowOver, WindowLeft, Silence, Shorter

LEMMA YoungIsOpen ==
    ASSUME Shaped, NEW c \in Calls, age[c] < Idle
    PROVE  ~WindowOver(c)
<1>1. age[c] \in Nat /\ sinceLast \in Nat /\ Idle \in Nat
  BY RpcAssumption DEF Shaped
<1>2. PICK d \in Nat : d = HardDeadline /\ Idle <= d
  BY Windows
<1>3. QED
  BY <1>1, <1>2 DEF WindowOver, WindowLeft, Silence, Shorter

(* A step after which no more calls wait than before, and no clock moves.   *)
LEMMA NobodyStarts ==
    ASSUME InTime, UNCHANGED <<age, timer>>, sinceLast' \in {0, sinceLast},
           Waiting' \subseteq Waiting, Unsent' \subseteq Unsent
    PROVE  InTime'
<1>1. sinceLast' \in 0..Idle + 1
  BY RpcAssumption DEF InTime
<1>2. HardDeadline' = HardDeadline
  BY DEF HardDeadline, Shorter
<1>3. QED
  BY <1>1, <1>2 DEF InTime

(* A step that sends the calls of C, all of them young. *)
LEMMA SendsInTime ==
    ASSUME Shaped, InTime, UNCHANGED <<age, sinceLast>>,
           NEW C \in SUBSET Calls, NEW late \in SUBSET Calls, \A c \in C : age[c] < Idle,
           NEW accepted \in SUBSET C, Sends(C, late, accepted)
    PROVE  InTime'
<1>1. ASSUME NEW c \in Calls
      PROVE  /\ age'[c] \in 0..HardDeadline /\ timer'[c] \in 0..Idle
             /\ c \in Unsent' => age'[c] = 0
             /\ c \in Waiting' => age'[c] + timer'[c] <= HardDeadline
  <2>1. CASE c \in accepted
    <3>1. timer'[c] = WindowLeft(c) /\ call'[c] = "sent"
      BY <2>1 DEF Sends
    <3>2. WindowLeft(c) \in 0..Idle /\ age[c] + WindowLeft(c) <= HardDeadline
      BY <2>1, YoungIsOpen, WindowFits
    <3>3. QED
      BY <3>1, <3>2 DEF InTime, Unsent
  <2>2. CASE c \notin accepted
    <3>1. timer'[c] = timer[c] /\ call'[c] \in {"failed", "timedOut", call[c]}
      BY <2>2 DEF Sends
    <3>2. (c \in Waiting' => c \in Waiting) /\ (c \in Unsent' => c \in Unsent)
      BY <3>1 DEF Waiting, Unsent
    <3>3. QED
      BY <3>1, <3>2 DEF InTime
  <2>3. QED
    BY <2>1, <2>2
<1>2. HardDeadline' = HardDeadline
  BY DEF HardDeadline, Shorter
<1>3. QED
  BY <1>1, <1>2 DEF InTime

LEMMA InvokeInTime == ASSUME Inv, InTime, NEW c \in Calls, Invoke(c) PROVE InTime'
<1>1. /\ Shaped /\ call[c] = "unsent" /\ age[c] = 0 /\ UNCHANGED <<age, sinceLast>>
      /\ Idle \in Nat \ {0} /\ HardDeadline' = HardDeadline
  BY RpcAssumption DEF Invoke, Inv, InTime, Unsent, HardDeadline, Shorter
<1>2. CASE call' = [call EXCEPT ![c] = "failed"] /\ UNCHANGED timer
  <2>1. Waiting' \subseteq Waiting /\ Unsent' \subseteq Unsent
    BY <1>1, <1>2 DEF Shaped, Waiting, Unsent
  <2>2. QED
    BY <1>1, <1>2, <2>1, NobodyStarts
<1>3. CASE SendAll({c}, {})
  <2>1. PICK C \in SUBSET Calls, late \in SUBSET Calls : C = {c} /\ late = {}
    OBVIOUS
  <2>2. SendAll(C, late) /\ C \cap late = {} /\ \A d \in C : age[d] < Idle
    BY <1>1, <1>3, <2>1
  <2>3. PICK accepted \in SUBSET C : Sends(C, late, accepted)
    BY <1>1, <2>2, SendsAll
  <2>4. QED
    BY <1>1, <2>2, <2>3, SendsInTime
<1>4. CASE /\ call' = [call EXCEPT ![c] = "connecting"]
           /\ timer' = [timer EXCEPT ![c] = ConnectWindow]
  <2>1. /\ timer'[c] = ConnectWindow /\ call'[c] = "connecting"
        /\ \A d \in Calls : d # c => timer'[d] = timer[d] /\ call'[d] = call[d]
    BY <1>1, <1>4 DEF Shaped
  <2>2. \A d \in Calls : d # c => (d \in Waiting' => d \in Waiting) /\ (d \in Unsent' => d \in Unsent)
    BY <2>1 DEF Waiting, Unsent
  <2>3. ConnectWindow \in 0..Idle /\ ConnectWindow <= HardDeadline
    BY <1>1, Windows
  <2>4. \A d \in Calls : d # c =>
            /\ age'[d] \in 0..HardDeadline /\ timer'[d] \in 0..Idle
            /\ d \in Unsent' => age'[d] = 0
            /\ d \in Waiting' => age'[d] + timer'[d] <= HardDeadline
    BY <1>1, <2>1, <2>2 DEF InTime
  <2>5. /\ age'[c] \in 0..HardDeadline /\ timer'[c] \in 0..Idle
        /\ age'[c] = 0 /\ age'[c] + timer'[c] <= HardDeadline
    BY <1>1, <2>1, <2>3, Windows
  <2>6. QED
    BY <1>1, <2>4, <2>5 DEF InTime
<1>5. QED
  BY <1>2, <1>3, <1>4 DEF Invoke

LEMMA TimerInTime == ASSUME Inv, InTime, NEW c \in Calls, TimerFires(c) PROVE InTime'
<1>1. /\ Shaped /\ UNCHANGED <<age, sinceLast>> /\ HardDeadline' = HardDeadline
  BY DEF TimerFires, Inv, HardDeadline, Shorter
<1>2. CASE call' = [call EXCEPT ![c] = "timedOut"] /\ UNCHANGED timer
  <2>1. Waiting' \subseteq Waiting /\ Unsent' \subseteq Unsent
    BY <1>1, <1>2 DEF Shaped, Waiting, Unsent
  <2>2. QED
    BY <1>1, <1>2, <2>1, NobodyStarts
<1>3. CASE ~WindowOver(c) /\ timer' = [timer EXCEPT ![c] = WindowLeft(c)] /\ UNCHANGED call
  <2>1. timer'[c] = WindowLeft(c) /\ \A d \in Calls : d # c => timer'[d] = timer[d]
    BY <1>1, <1>3 DEF Shaped
  <2>2. WindowLeft(c) \in 0..Idle /\ age[c] + WindowLeft(c) <= HardDeadline
    BY <1>1, <1>3, WindowFits
  <2>3. Waiting' = Waiting /\ Unsent' = Unsent
    BY <1>3 DEF Waiting, Unsent
  <2>4. \A d \in Calls : d # c =>
            /\ age'[d] \in 0..HardDeadline /\ timer'[d] \in 0..Idle
            /\ d \in Unsent' => age'[d] = 0
            /\ d \in Waiting' => age'[d] + timer'[d] <= HardDeadline
    BY <1>1, <2>1, <2>3 DEF InTime
  <2>5. /\ age'[c] \in 0..HardDeadline /\ timer'[c] \in 0..Idle
        /\ c \in Unsent' => age'[c] = 0
        /\ age'[c] + timer'[c] <= HardDeadline
    BY <1>1, <2>1, <2>2, <2>3 DEF InTime
  <2>6. QED
    BY <1>1, <2>4, <2>5 DEF InTime
<1>4. QED
  BY <1>2, <1>3 DEF TimerFires

LEMMA TickInTime == ASSUME Inv, InTime, Tick PROVE InTime'
<1>1. Shaped /\ UNCHANGED call /\ HardDeadline' = HardDeadline
  BY DEF Tick, Inv, HardDeadline, Shorter
<1>2. Waiting' = Waiting /\ Unsent' = Unsent /\ \A c \in Waiting : c \notin Unsent
  BY <1>1 DEF Waiting, Unsent
<1>3. sinceLast' \in 0..Idle + 1
  BY RpcAssumption DEF Tick, InTime, Shorter
<1>4. ASSUME NEW c \in Calls
      PROVE  /\ age'[c] \in 0..HardDeadline /\ timer'[c] \in 0..Idle
             /\ c \in Unsent => age'[c] = 0
             /\ c \in Waiting => age'[c] + timer'[c] <= HardDeadline
  <2>1. /\ age'[c] = IF c \in Waiting THEN age[c] + 1 ELSE age[c]
        /\ timer'[c] = IF c \in Waiting THEN timer[c] - 1 ELSE timer[c]
        /\ c \in Waiting => timer[c] > 0
    BY DEF Tick
  <2>2. /\ age[c] \in 0..HardDeadline /\ timer[c] \in 0..Idle
        /\ c \in Unsent => age[c] = 0
        /\ c \in Waiting => age[c] + timer[c] <= HardDeadline
    BY DEF InTime
  <2>3. QED
    BY <1>2, <2>1, <2>2, Windows, RpcAssumption
<1>5. QED
  BY <1>1, <1>2, <1>3, <1>4 DEF InTime

LEMMA HandleInTime == ASSUME Inv, InTime, Handle PROVE InTime'
<1>1. Shaped /\ UNCHANGED age
  BY DEF Inv, Handle
<1>2. CASE Ignore(Head(toHost))
  BY <1>1, <1>2, NobodyStarts DEF Ignore, Waiting, Unsent
<1>3. CASE HandleResponse(Head(toHost))
  <2>1. Waiting' \subseteq Waiting /\ Unsent' \subseteq Unsent
    BY <1>1, <1>3 DEF HandleResponse, Shaped, Waiting, Unsent
  <2>2. UNCHANGED timer /\ sinceLast' = 0
    BY <1>3 DEF HandleResponse
  <2>3. QED
    BY <1>1, <2>1, <2>2, NobodyStarts
<1>4. CASE HandleConnected(Head(toHost))
  <2> DEFINE onTime == {c \in Connecting : age[c] < Idle}
             late == Connecting \ onTime
  <2>1. /\ onTime \in SUBSET Calls /\ late \in SUBSET Calls /\ onTime \cap late = {}
        /\ \A c \in onTime : age[c] < Idle
    BY DEF Connecting
  <2>2. SendAll(onTime, late) /\ UNCHANGED sinceLast
    BY <1>4 DEF HandleConnected
  <2> HIDE DEF onTime, late
  <2>3. PICK accepted \in SUBSET onTime : Sends(onTime, late, accepted)
    BY <1>1, <2>1, <2>2, SendsAll
  <2>4. QED
    BY <1>1, <2>1, <2>2, <2>3, SendsInTime
<1>5. CASE HandleLoss(Head(toHost))
  <2>1. UNCHANGED <<timer, sinceLast>> /\ FailPending
    BY <1>5 DEF HandleLoss
  <2>2. Waiting' \subseteq Waiting /\ Unsent' \subseteq Unsent
    BY <2>1 DEF FailPending, Settle, Waiting, Unsent
  <2>3. QED
    BY <1>1, <2>1, <2>2, NobodyStarts
<1>6. QED
  BY <1>2, <1>3, <1>4, <1>5 DEF Handle

LEMMA InTimeNext == Inv /\ InTime /\ [Next]_vars => InTime'
<1> SUFFICES ASSUME Inv, InTime, [Next]_vars PROVE InTime'
  OBVIOUS
<1>1. CASE Tick \/ Handle \/ \E c \in Calls : Invoke(c) \/ TimerFires(c)
  BY <1>1, TickInTime, HandleInTime, InvokeInTime, TimerInTime
<1>2. CASE \E c \in Calls : ReadDone(c)
  <2>1. PICK c \in Calls : ReadDone(c)
    BY <1>2
  <2>2. UNCHANGED <<age, timer, sinceLast>>
    BY <2>1 DEF ReadDone
  <2>3. Waiting' \subseteq Waiting /\ Unsent' \subseteq Unsent
    BY <2>1 DEF ReadDone, Inv, Shaped, Waiting, Unsent
  <2>4. QED
    BY <2>2, <2>3, NobodyStarts
<1>3. CASE Close
  <2>1. UNCHANGED <<age, timer, sinceLast>> /\ FailPending
    BY <1>3 DEF Close
  <2>2. Waiting' \subseteq Waiting /\ Unsent' \subseteq Unsent
    BY <2>1 DEF FailPending, Settle, Waiting, Unsent
  <2>3. QED
    BY <2>1, <2>2, NobodyStarts
<1>4. CASE UNCHANGED <<call, age, timer, sinceLast>>
  BY <1>4, NobodyStarts DEF Waiting, Unsent
<1>5. \/ Tick \/ Handle \/ Close \/ \E c \in Calls : Invoke(c) \/ TimerFires(c) \/ ReadDone(c)
      \/ UNCHANGED <<call, age, timer, sinceLast>>
  BY DEF Next, vars, clientVars, Answer, DropAnswer, Connects, CoreInit, CoreGoes, ServerFails
<1>6. QED
  BY <1>1, <1>2, <1>3, <1>4, <1>5

LEMMA TypesFollow == Inv /\ InTime => TypeOK
<1> SUFFICES ASSUME Inv, InTime PROVE TypeOK
  OBVIOUS
<1>1. Shaped
  BY DEF Inv
<1>2. age \in [Calls -> 0..HardDeadline] /\ timer \in [Calls -> 0..Idle]
  BY <1>1 DEF Shaped, InTime
<1>3. ASSUME NEW i \in DOMAIN toHost
      PROVE  toHost[i] \in [kind : {"response", "connected", "disconnected", "failed"},
                            call : 0..MaxCall, file : BOOLEAN]
  <2>1. PICK item \in Items : item = toHost[i]
    BY <1>1 DEF Shaped
  <2>2. item = [kind |-> item.kind, call |-> item.call, file |-> item.file]
    BY DEF Items, Response, Event
  <2>3. /\ item.kind \in {"response", "connected", "disconnected", "failed"}
        /\ item.call \in 0..MaxCall /\ item.file \in BOOLEAN
    BY ItemParts DEF Losses
  <2>4. QED
    BY <2>1, <2>2, <2>3
<1>4. QED
  BY <1>1, <1>2, <1>3 DEF TypeOK, Shaped, InTime, Outcomes

(* Every variable of the client and of the Core keeps its type; no call      *)
(* grows older than its hard deadline and no timer is set past its window    *)
(* (_awaitResponse, waitUntilConnected).                                     *)
THEOREM TypeCorrect == Spec => []TypeOK
BY InvInit, InvNext, InTimeInit, InTimeNext, TypesFollow, PTL DEF Spec
================================================================================
