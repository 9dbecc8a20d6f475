---------------------------- MODULE IpcLinkProofs ----------------------------
(***************************************************************************)
(* Frames reach the peer they were queued for, and the outbox counts what   *)
(* it holds: theorems about IpcLink for any number of peers, frames and     *)
(* events on their way.                                                     *)
(***************************************************************************)
EXTENDS IpcLink, FiniteSetTheorems, TLAPS

(* The outbox and the frames are records with their fields. *)
Shaped ==
    /\ queue = [frames |-> queue.frames, bytes |-> queue.bytes, open |-> queue.open]
    /\ queue.frames \in Seq(Frames)
    /\ frame \in [Frames -> [size : Sizes, to : Nat,
                    fate : {"unsent", "queued", "notConnected", "full", "received"}, by : Nat]]
    /\ peer \in Nat
    /\ sent \in Nat

(* The outbox holds frames only while it is open, which it is from its        *)
(* opening for a peer to the end of the exchange; transmit runs in between.  *)
OpenForOne ==
    /\ queue.open <=> server \in {"announcing", "exchanging"}
    /\ ~queue.open => queue.frames = <<>>
    /\ writer # "off" => server = "exchanging"

(* What is queued or in hand was sent to the peer that is being served. *)
QueuedForPeer ==
    /\ \A i \in 1..Len(queue.frames) : frame[queue.frames[i]].to = peer
    /\ writer = "writing" => inHand \in Frames /\ frame[inHand].to = peer

Inv == Shaped /\ OpenForOne /\ QueuedForPeer /\ FrameReachesItsPeer

-----------------------------------------------------------------------------
LEMMA OrderOfSteps ==
    After("opening") = "announcing" /\ After("announcing") = "exchanging" /\ Order[1] = "opening"
<1>1. (CHOOSE i \in 1..2 : Order[i] = "opening") = 1
  BY DEF Order
<1>2. (CHOOSE i \in 1..2 : Order[i] = "announcing") = 2
  BY DEF Order
<1>3. QED
  BY <1>1, <1>2 DEF After, Order

LEMMA InvInit == Init => Inv
BY DEF Init, Inv, Shaped, OpenForOne, QueuedForPeer, FrameReachesItsPeer, EmptyOutbox, Sizes

(* Steps that leave the outbox, the frames and the writer alone. *)
LEMMA QuietKeeps ==
    ASSUME Inv, UNCHANGED <<queue, frame, sent, writer, inHand, peer>>,
           server' = server \/ (~queue.open /\ server' \in {"accepting", "opening"})
    PROVE  Inv'
BY DEF Inv, Shaped, OpenForOne, QueuedForPeer, FrameReachesItsPeer

(* Steps that empty the outbox and close it: no frame is left to misdeliver. *)
LEMMA CloseKeeps ==
    ASSUME Inv, Reset(FALSE), writer' = "off", UNCHANGED <<frame, sent, peer>>,
           server' \in {"leaving", "ended"}
    PROVE  Inv'
<1>1. queue' = [frames |-> <<>>, bytes |-> 0, open |-> FALSE]
  BY DEF Reset, EmptyOutbox
<1>2. Shaped'
  BY <1>1 DEF Inv, Shaped
<1>3. OpenForOne' /\ QueuedForPeer'
  BY <1>1 DEF OpenForOne, QueuedForPeer
<1>4. QED
  BY <1>2, <1>3 DEF Inv, FrameReachesItsPeer

LEMMA AcceptKeeps == ASSUME Inv, Accept PROVE Inv'
<1> USE DEF Inv
<1>1. queue.frames = <<>> /\ ~queue.open /\ writer = "off"
  BY DEF OpenForOne, Accept
<1>2. /\ UNCHANGED <<queue, writer, inHand, frame, sent>>
      /\ (peer' = peer + 1 /\ server' = "opening") \/ UNCHANGED <<peer, server>>
  BY DEF Accept, hostVars, Order
<1>3. Shaped'
  BY <1>2 DEF Shaped
<1>4. OpenForOne'
  BY <1>1, <1>2 DEF OpenForOne
<1>5. QueuedForPeer' /\ FrameReachesItsPeer'
  BY <1>1, <1>2 DEF QueuedForPeer, FrameReachesItsPeer
<1>6. QED
  BY <1>3, <1>4, <1>5

LEMMA OpenKeeps == ASSUME Inv, OpenOutbox PROVE Inv'
<1>1. server' = "announcing" /\ writer' = "off" /\ queue'.frames = <<>> /\ queue'.open
  BY OrderOfSteps DEF Inv, OpenForOne, OpenOutbox, Reach, Reset, EmptyOutbox
<1>2. queue' = [frames |-> <<>>, bytes |-> 0, open |-> TRUE] /\ UNCHANGED <<frame, sent, peer>>
  BY DEF OpenOutbox, Reset, EmptyOutbox, hostVars
<1>3. Shaped'
  BY <1>2 DEF Inv, Shaped
<1>4. OpenForOne' /\ QueuedForPeer'
  BY <1>1, <1>2 DEF OpenForOne, QueuedForPeer
<1>5. QED
  BY <1>2, <1>3, <1>4 DEF Inv, FrameReachesItsPeer

LEMMA ConnectedKeeps == ASSUME Inv, EmitConnected PROVE Inv'
<1>1. server' = "exchanging" /\ writer' = "popping"
  BY OrderOfSteps DEF EmitConnected, Reach
<1>2. QED
  BY <1>1 DEF Inv, Shaped, OpenForOne, QueuedForPeer, FrameReachesItsPeer, EmitConnected, hostVars

(* The frame popped is one that was queued, hence for this peer. *)
LEMMA TakeKeeps == ASSUME Inv, TakeFrame PROVE Inv'
<1>1. CASE queue.frames = <<>> /\ writer' = "waiting" /\ UNCHANGED <<queue, inHand>>
  BY <1>1 DEF Inv, Shaped, OpenForOne, QueuedForPeer, FrameReachesItsPeer, TakeFrame, hostVars
<1>2. CASE /\ queue.frames # <<>>
           /\ writer' = "writing"
           /\ inHand' = Head(queue.frames)
           /\ queue' = Popped(Head(queue.frames))
  <2>1. /\ Head(queue.frames) \in Frames /\ frame[Head(queue.frames)].to = peer
        /\ Tail(queue.frames) \in Seq(Frames)
        /\ Len(Tail(queue.frames)) = Len(queue.frames) - 1
        /\ \A i \in 1..Len(Tail(queue.frames)) : Tail(queue.frames)[i] = queue.frames[i + 1]
    <3>1. queue.frames \in Seq(Frames) /\ queue.frames # <<>>
      BY <1>2 DEF Inv, Shaped
    <3>2. /\ Len(queue.frames) >= 1 /\ Head(queue.frames) = queue.frames[1]
          /\ queue.frames[1] \in Frames
      BY <3>1
    <3>3. frame[queue.frames[1]].to = peer
      BY <3>1, <3>2 DEF Inv, QueuedForPeer
    <3>4. /\ Tail(queue.frames) \in Seq(Frames)
          /\ Len(Tail(queue.frames)) = Len(queue.frames) - 1
          /\ \A i \in 1..Len(Tail(queue.frames)) : Tail(queue.frames)[i] = queue.frames[i + 1]
      BY <3>1
    <3>5. QED
      BY <3>2, <3>3, <3>4
  <2>2. queue'.frames = Tail(queue.frames) /\ queue'.open = queue.open
        /\ queue' = [frames |-> queue'.frames, bytes |-> queue'.bytes, open |-> queue'.open]
    <3>1. queue = [frames |-> queue.frames, bytes |-> queue.bytes, open |-> queue.open]
      BY DEF Inv, Shaped
    <3>2. PICK bytes : bytes = queue.bytes - frame[Head(queue.frames)].size
      OBVIOUS
    <3>3. queue' = [queue EXCEPT !.frames = Tail(queue.frames), !.bytes = bytes]
      BY <1>2, <3>2 DEF Popped
    <3>4. QED
      BY <3>1, <3>3
  <2>3. \A i \in 1..Len(Tail(queue.frames)) : i + 1 \in 1..Len(queue.frames)
    <3>1. Len(queue.frames) \in Nat
      BY DEF Inv, Shaped
    <3>2. QED
      BY <2>1, <3>1
  <2>4. UNCHANGED <<frame, sent, peer, server>> /\ writer = "popping"
    BY DEF TakeFrame, hostVars
  <2>5. Shaped'
    <3>1. queue'.frames \in Seq(Frames)
      BY <2>1, <2>2
    <3>2. QED
      BY <2>2, <2>4, <3>1 DEF Inv, Shaped
  <2>6. OpenForOne'
    BY <1>2, <2>1, <2>2, <2>4 DEF Inv, OpenForOne
  <2>7. QueuedForPeer'
    <3>1. \A i \in 1..Len(queue'.frames) : frame'[queue'.frames[i]].to = peer'
      <4> SUFFICES ASSUME NEW i \in 1..Len(Tail(queue.frames))
                   PROVE  frame[Tail(queue.frames)[i]].to = peer
        BY <2>2, <2>4
      <4>1. frame[queue.frames[i + 1]].to = peer
        BY <2>3 DEF Inv, QueuedForPeer
      <4>2. QED
        BY <2>1, <4>1
    <3>2. inHand' \in Frames /\ frame'[inHand'].to = peer'
      BY <1>2, <2>1, <2>4
    <3>3. QED
      BY <3>1, <3>2 DEF QueuedForPeer
  <2>8. QED
    BY <2>4, <2>5, <2>6, <2>7 DEF Inv, FrameReachesItsPeer
<1>3. QED
  BY <1>1, <1>2 DEF TakeFrame

LEMMA WokenKeeps == ASSUME Inv, Woken PROVE Inv'
BY DEF Inv, Shaped, OpenForOne, QueuedForPeer, FrameReachesItsPeer, Woken, hostVars

LEMMA WriteKeeps == ASSUME Inv, WriteFrame PROVE Inv'
<1>1. inHand \in Frames /\ frame[inHand].to = peer /\ server = "exchanging"
  BY DEF Inv, OpenForOne, QueuedForPeer, WriteFrame
<1>2. /\ \A f \in Frames : frame'[f].to = frame[f].to
      /\ \A f \in Frames \ {inHand} : frame'[f] = frame[f]
      /\ frame'[inHand].by = peer
      /\ frame' \in [Frames -> [size : Sizes, to : Nat,
                    fate : {"unsent", "queued", "notConnected", "full", "received"}, by : Nat]]
  BY <1>1 DEF Inv, Shaped, WriteFrame
<1>3. UNCHANGED <<queue, sent, peer, server>> /\ writer' = "popping"
  BY DEF WriteFrame, AfterWrite
<1>4. Shaped' /\ OpenForOne'
  BY <1>1, <1>2, <1>3 DEF Inv, Shaped, OpenForOne
<1>5. QueuedForPeer'
  BY <1>2, <1>3 DEF Inv, Shaped, QueuedForPeer
<1>6. FrameReachesItsPeer'
  BY <1>1, <1>2, <1>3 DEF Inv, FrameReachesItsPeer
<1>7. QED
  BY <1>4, <1>5, <1>6 DEF Inv

(* What the host sends is for the peer that is being served now, even while  *)
(* it still believes in an earlier one.                                      *)
LEMMA SendKeeps == ASSUME Inv, NEW size \in Sizes, Send(size) PROVE Inv'
<1> DEFINE f == sent + 1
<1>1. f \in Frames /\ UNCHANGED <<server, peer, writer, inHand>> /\ sent' \in Nat
  BY LinkAssumption DEF Inv, Shaped, Send, Frames
<1>2. /\ \A g \in Frames : frame'[g].to = frame[g].to \/ frame'[g].to = peer
      /\ \A g \in Frames \ {f} : frame'[g] = frame[g]
      /\ frame'[f].fate # "received"
      /\ frame' \in [Frames -> [size : Sizes, to : Nat,
                    fate : {"unsent", "queued", "notConnected", "full", "received"}, by : Nat]]
  BY <1>1 DEF Inv, Shaped, Send
<1>3. frame'[f].to = peer
  BY <1>1 DEF Inv, Shaped, Send
<1>4. CASE UNCHANGED queue
  <2>1. Shaped' /\ OpenForOne'
    BY <1>1, <1>2, <1>4 DEF Inv, Shaped, OpenForOne
  <2>2. \A i \in 1..Len(queue.frames) : queue.frames[i] \in Frames
    BY DEF Inv, Shaped
  <2>3. QueuedForPeer'
    BY <1>1, <1>2, <1>4, <2>2 DEF Inv, QueuedForPeer
  <2>4. FrameReachesItsPeer'
    BY <1>2 DEF Inv, FrameReachesItsPeer
  <2>5. QED
    BY <2>1, <2>3, <2>4 DEF Inv
<1>5. CASE queue.open /\ queue' = Pushed(f, size)
  <2>1. /\ queue' = [frames |-> queue'.frames, bytes |-> queue'.bytes, open |-> queue'.open]
        /\ queue'.open = queue.open /\ queue'.frames = Append(queue.frames, f)
    BY <1>5 DEF Inv, Shaped, Pushed
  <2>2. /\ Append(queue.frames, f) \in Seq(Frames)
        /\ \A i \in 1..Len(Append(queue.frames, f)) :
              \/ Append(queue.frames, f)[i] = f
              \/ i \in 1..Len(queue.frames) /\ Append(queue.frames, f)[i] = queue.frames[i]
    BY <1>1 DEF Inv, Shaped
  <2>3. Shaped' /\ OpenForOne'
    <3>1. Shaped'
      BY <1>1, <1>2, <2>1, <2>2 DEF Inv, Shaped
    <3>2. OpenForOne'
      BY <1>1, <1>5, <2>1 DEF Inv, OpenForOne
    <3>3. QED
      BY <3>1, <3>2
  <2>4. QueuedForPeer'
    <3>1. \A i \in 1..Len(queue'.frames) : frame'[queue'.frames[i]].to = peer
      <4> SUFFICES ASSUME NEW i \in 1..Len(Append(queue.frames, f))
                   PROVE  frame'[Append(queue.frames, f)[i]].to = peer
        BY <2>1
      <4>1. CASE Append(queue.frames, f)[i] = f
        BY <1>3, <4>1
      <4>2. CASE i \in 1..Len(queue.frames) /\ Append(queue.frames, f)[i] = queue.frames[i]
        <5>1. queue.frames[i] \in Frames /\ frame[queue.frames[i]].to = peer
          BY <4>2 DEF Inv, Shaped, QueuedForPeer
        <5>2. QED
          BY <1>2, <4>2, <5>1
      <4>3. QED
        BY <2>2, <4>1, <4>2
    <3>2. writer = "writing" => inHand \in Frames /\ frame'[inHand].to = peer
      BY <1>2 DEF Inv, QueuedForPeer
    <3>3. QED
      BY <1>1, <3>1, <3>2 DEF QueuedForPeer
  <2>5. FrameReachesItsPeer'
    BY <1>2 DEF Inv, FrameReachesItsPeer
  <2>6. QED
    BY <2>3, <2>4, <2>5 DEF Inv
<1>6. QED
  BY <1>4, <1>5 DEF Send

-----------------------------------------------------------------------------
LEMMA ServerKeeps == ASSUME Inv, Server PROVE Inv'
<1>1. CASE Receive
  BY <1>1, QuietKeeps DEF Receive, linkVars, hostVars
<1>2. CASE ExchangeEnds
  BY <1>2, CloseKeeps DEF ExchangeEnds, hostVars
<1>3. CASE Leave
  <2>1. ~queue.open
    BY <1>3 DEF Inv, OpenForOne, Leave
  <2>2. QED
    BY <1>3, <2>1, QuietKeeps DEF Leave, hostVars
<1>4. CASE AcceptFails \/ ShutDown
  BY <1>4, CloseKeeps DEF AcceptFails, ShutDown, Ended, hostVars
<1>5. QED
  BY <1>1, <1>2, <1>3, <1>4, AcceptKeeps, OpenKeeps, ConnectedKeeps, TakeKeeps, WokenKeeps,
     WriteKeeps DEF Server, Exchange

LEMMA InvNext == Inv /\ [Next]_vars => Inv'
<1> SUFFICES ASSUME Inv, [Next]_vars PROVE Inv'
  OBVIOUS
<1>1. CASE Dial \/ PeerLeaves \/ HandleEvent \/ Close
  BY <1>1, QuietKeeps DEF Dial, PeerLeaves, HandleEvent, Close, linkVars, hostVars
<1>2. CASE UNCHANGED vars
  BY <1>2, QuietKeeps DEF vars
<1>3. QED
  BY <1>1, <1>2, ServerKeeps, SendKeeps DEF Next

(* However late the host learns of connections, and wherever a peer leaves: *)
(* no frame reaches another peer than the one that was served when it was   *)
(* sent (Outbox::open and close, exchange of server.rs).                    *)
THEOREM FramesStayWithTheirPeer == Spec => []FrameReachesItsPeer
<1>1. Spec => []Inv
  BY InvInit, InvNext, PTL DEF Spec
<1>2. Inv => FrameReachesItsPeer
  BY DEF Inv
<1>3. QED
  BY <1>1, <1>2, PTL

-----------------------------------------------------------------------------
(* What a step does to the outbox. *)

(* The frames left when the first one is taken. *)
LEMMA FirstAndRest ==
    ASSUME Inv, queue.frames # <<>>
    PROVE  /\ Len(queue.frames) \in Nat \ {0}
           /\ Head(queue.frames) = queue.frames[1] /\ queue.frames[1] \in Frames
           /\ Len(Tail(queue.frames)) = Len(queue.frames) - 1
           /\ \A i \in 1..Len(Tail(queue.frames)) :
                 i + 1 \in 1..Len(queue.frames) /\ Tail(queue.frames)[i] = queue.frames[i + 1]
<1>1. queue.frames \in Seq(Frames)
  BY DEF Inv, Shaped
<1>2. /\ Len(queue.frames) \in Nat \ {0} /\ Head(queue.frames) = queue.frames[1]
      /\ queue.frames[1] \in Frames
  BY <1>1
<1>3. Len(Tail(queue.frames)) = Len(queue.frames) - 1
  BY <1>1
<1>4. \A i \in 1..Len(Tail(queue.frames)) : i + 1 \in 1..Len(queue.frames)
  BY <1>2, <1>3
<1>5. \A i \in 1..Len(Tail(queue.frames)) : Tail(queue.frames)[i] = queue.frames[i + 1]
  BY <1>1
<1>6. QED
  BY <1>2, <1>3, <1>4, <1>5

(* The frames once one more was pushed. *)
LEMMA OneMore ==
    ASSUME Inv, NEW f \in Frames
    PROVE  /\ Len(queue.frames) \in Nat /\ Len(Append(queue.frames, f)) = Len(queue.frames) + 1
           /\ Append(queue.frames, f)[Len(queue.frames) + 1] = f
           /\ \A i \in 1..Len(queue.frames) : Append(queue.frames, f)[i] = queue.frames[i]
<1>1. queue.frames \in Seq(Frames)
  BY DEF Inv, Shaped
<1>2. QED
  BY <1>1

LEMMA TakenFrame ==
    ASSUME Inv, TakeFrame, queue.frames # <<>>
    PROVE  /\ writer = "popping" /\ writer' = "writing" /\ inHand' = queue.frames[1]
           /\ queue'.frames = Tail(queue.frames) /\ queue'.open = queue.open
           /\ queue'.bytes = queue.bytes - frame[queue.frames[1]].size
           /\ UNCHANGED <<server, peer, host, toHost, frame, sent>>
<1>1. /\ queue' = Popped(Head(queue.frames)) /\ inHand' = Head(queue.frames)
      /\ writer = "popping" /\ writer' = "writing"
      /\ UNCHANGED <<server, peer, host, toHost, frame, sent>>
  BY DEF TakeFrame, hostVars
<1>2. queue = [frames |-> queue.frames, bytes |-> queue.bytes, open |-> queue.open]
  BY DEF Inv, Shaped
<1>3. Head(queue.frames) = queue.frames[1]
  BY FirstAndRest
<1>4. PICK bytes : bytes = queue.bytes - frame[queue.frames[1]].size
  OBVIOUS
<1>5. queue' = [queue EXCEPT !.frames = Tail(queue.frames), !.bytes = bytes]
  BY <1>1, <1>3, <1>4 DEF Popped
<1>6. queue'.frames = Tail(queue.frames) /\ queue'.bytes = bytes /\ queue'.open = queue.open
  BY <1>2, <1>5
<1>7. QED
  BY <1>1, <1>3, <1>4, <1>6

(* A frame that is sent is pushed, or refused. *)
LEMMA SentFrame ==
    ASSUME Inv, NEW size \in Sizes, Send(size)
    PROVE  LET f == sent + 1
           IN  /\ f \in Frames /\ sent' = f /\ sent \in Nat
               /\ UNCHANGED <<server, peer, writer, inHand, host, toHost>>
               /\ \A g \in Frames \ {f} : frame'[g] = frame[g]
               /\ frame'[f].to = peer /\ frame'[f].size = size
               /\ \/ /\ queue.open /\ ~OverBudget(size) /\ frame'[f].fate = "queued"
                     /\ queue'.frames = Append(queue.frames, f)
                     /\ queue'.bytes = queue.bytes + size /\ queue'.open = queue.open
                  \/ frame'[f].fate \in {"notConnected", "full"} /\ UNCHANGED queue
<1> DEFINE f == sent + 1
           fate == IF ~queue.open THEN "notConnected" ELSE IF OverBudget(size) THEN "full" ELSE "queued"
<1>1. /\ f \in Frames /\ sent' = f /\ sent \in Nat
      /\ UNCHANGED <<server, peer, writer, inHand, host, toHost>>
  BY LinkAssumption DEF Inv, Shaped, Send, Frames
<1>2. frame' = [frame EXCEPT ![f] = [size |-> size, to |-> peer, fate |-> fate, by |-> 0]]
  BY DEF Send
<1>3. \A g \in Frames : frame'[g] = IF g = f THEN [size |-> size, to |-> peer, fate |-> fate, by |-> 0]
                                    ELSE frame[g]
  BY <1>2 DEF Inv, Shaped
<1>4. frame'[f].to = peer /\ frame'[f].size = size /\ frame'[f].fate = fate
  BY <1>1, <1>3
<1>5. CASE fate = "queued"
  <2>1. queue' = Pushed(f, size) /\ queue.open /\ ~OverBudget(size)
    BY <1>5 DEF Send
  <2>2. queue = [frames |-> queue.frames, bytes |-> queue.bytes, open |-> queue.open]
    BY DEF Inv, Shaped
  <2>3. PICK bytes : bytes = queue.bytes + size
    OBVIOUS
  <2>4. queue' = [queue EXCEPT !.frames = Append(queue.frames, f), !.bytes = bytes]
    BY <2>1, <2>3 DEF Pushed
  <2>5. /\ queue'.frames = Append(queue.frames, f) /\ queue'.bytes = bytes
        /\ queue'.open = queue.open
    BY <2>2, <2>4
  <2>6. QED
    BY <1>1, <1>3, <1>4, <1>5, <2>1, <2>3, <2>5
<1>6. CASE fate # "queued"
  <2>1. UNCHANGED queue /\ fate \in {"notConnected", "full"}
    BY <1>6 DEF Send
  <2> HIDE DEF fate
  <2>2. QED
    BY <1>1, <1>3, <1>4, <2>1
<1>7. QED
  BY <1>5, <1>6

-----------------------------------------------------------------------------
(* The order of the frames. *)

(* Frames are numbered as they are sent, for the peer served by then. *)
Numbered ==
    /\ \A f \in Frames : f > sent => frame[f].fate = "unsent"
    /\ \A f \in Frames : frame[f].to <= peer
    /\ \A i \in 1..Len(queue.frames) : queue.frames[i] <= sent
    /\ writer = "writing" => inHand <= sent

(* The outbox is in the order of sending, behind the frame in hand. *)
Ascending ==
    /\ \A i, j \in 1..Len(queue.frames) : i < j => queue.frames[i] < queue.frames[j]
    /\ writer = "writing" => \A i \in 1..Len(queue.frames) : inHand < queue.frames[i]

(* What was accepted for the peer being served, and is not received yet, is    *)
(* in hand or still in the outbox.                                             *)
InOutbox(f) ==
    \/ writer = "writing" /\ f = inHand
    \/ \E i \in 1..Len(queue.frames) : queue.frames[i] = f
Held ==
    queue.open \/ server = "opening" =>
        \A f \in Frames : frame[f].fate = "queued" /\ frame[f].to = peer => InOutbox(f)

OrderInv == Numbered /\ Ascending /\ Held /\ InOrder

LEMMA OrderInit == Init => OrderInv
<1> SUFFICES ASSUME Init PROVE OrderInv
  OBVIOUS
<1>1. /\ \A f \in Frames : frame[f].fate = "unsent" /\ frame[f].to = 0
      /\ peer = 0 /\ writer = "off" /\ queue.frames = <<>>
  BY DEF Init, EmptyOutbox
<1>2. QED
  BY <1>1 DEF OrderInv, Numbered, Ascending, Held, InOrder

(* Steps that leave the outbox and the frames alone, and write no frame. *)
LEMMA OrderQuiet ==
    ASSUME Inv, OrderInv, UNCHANGED <<queue, frame, sent, peer>>,
           UNCHANGED <<writer, inHand>> \/ (writer # "writing" /\ writer' # "writing"),
           server' = server \/ server' # "opening"
    PROVE  OrderInv'
BY DEF OrderInv, Numbered, Ascending, Held, InOutbox, InOrder

(* Steps that close the outbox. *)
LEMMA OrderClosed ==
    ASSUME Inv, OrderInv, Reset(FALSE), writer' = "off", UNCHANGED <<frame, sent, peer>>,
           server' # "opening"
    PROVE  OrderInv'
<1>1. queue'.frames = <<>> /\ ~queue'.open
  BY DEF Reset, EmptyOutbox
<1>2. QED
  BY <1>1 DEF OrderInv, Numbered, Ascending, Held, InOrder

(* No frame was accepted for a peer that is new. *)
LEMMA OrderAccept == ASSUME Inv, OrderInv, Accept PROVE OrderInv'
<1>1. /\ ~queue.open /\ queue.frames = <<>> /\ writer = "off"
      /\ UNCHANGED <<queue, frame, sent, writer, inHand>>
  BY DEF Inv, OpenForOne, Accept, hostVars
<1>2. CASE peer' = peer + 1
  <2>1. \A f \in Frames : frame'[f].to # peer' /\ frame'[f].to <= peer'
    BY <1>1, <1>2 DEF Inv, Shaped, OrderInv, Numbered
  <2>2. QED
    BY <1>1, <2>1 DEF OrderInv, Numbered, Ascending, Held, InOrder
<1>3. CASE UNCHANGED <<peer, server>>
  BY <1>1, <1>3, OrderQuiet
<1>4. QED
  BY <1>2, <1>3 DEF Accept

LEMMA OrderOpen == ASSUME Inv, OrderInv, OpenOutbox PROVE OrderInv'
<1>1. /\ server = "opening" /\ writer = "off" /\ queue.frames = <<>>
      /\ queue'.frames = <<>> /\ writer' = "off" /\ UNCHANGED <<frame, sent, peer>>
  BY OrderOfSteps DEF Inv, OpenForOne, OpenOutbox, Reach, Reset, EmptyOutbox, hostVars
<1>2. Held'
  BY <1>1 DEF OrderInv, Held, InOutbox
<1>3. QED
  BY <1>1, <1>2 DEF OrderInv, Numbered, Ascending, InOrder

(* The first frame goes into the hand. *)
LEMMA OrderTake == ASSUME Inv, OrderInv, TakeFrame PROVE OrderInv'
<1>1. CASE queue.frames = <<>>
  BY <1>1, OrderQuiet DEF TakeFrame, hostVars
<1>2. CASE queue.frames # <<>>
  <2> DEFINE q == queue.frames
             t == Tail(queue.frames)
  <2>1. /\ writer' = "writing" /\ writer # "writing" /\ inHand' = q[1]
        /\ queue'.frames = t /\ queue'.open = queue.open
        /\ UNCHANGED <<server, peer, frame, sent>>
    BY <1>2, TakenFrame
  <2>2. /\ Len(q) \in Nat \ {0} /\ Len(t) = Len(q) - 1
        /\ \A i \in 1..Len(t) : i + 1 \in 1..Len(q) /\ t[i] = q[i + 1]
    BY <1>2, FirstAndRest
  <2> HIDE DEF q, t
  <2>3. /\ \A i \in 1..Len(q) : q[i] <= sent
        /\ \A i, j \in 1..Len(q) : i < j => q[i] < q[j]
    BY DEF OrderInv, Numbered, Ascending, q
  <2>4. Numbered'
    <3>1. \A i \in 1..Len(t) : t[i] <= sent
      BY <2>2, <2>3
    <3>2. q[1] <= sent
      BY <2>2, <2>3
    <3>3. QED
      BY <2>1, <3>1, <3>2 DEF OrderInv, Numbered
  <2>5. Ascending'
    <3>1. ASSUME NEW i \in 1..Len(t), NEW j \in 1..Len(t), i < j PROVE t[i] < t[j]
      <4>1. i + 1 \in 1..Len(q) /\ j + 1 \in 1..Len(q) /\ i + 1 < j + 1
        BY <2>2, <3>1
      <4>2. QED
        BY <2>2, <2>3, <4>1
    <3>2. ASSUME NEW i \in 1..Len(t) PROVE q[1] < t[i]
      <4>1. 1 \in 1..Len(q) /\ i + 1 \in 1..Len(q) /\ 1 < i + 1
        BY <2>2
      <4>2. QED
        BY <2>2, <2>3, <4>1
    <3>3. QED
      BY <2>1, <3>1, <3>2 DEF Ascending
  <2>6. Held'
    <3>1. ASSUME NEW f \in Frames, InOutbox(f) PROVE InOutbox(f)'
      <4>1. PICK i \in 1..Len(q) : q[i] = f
        BY <2>1, <3>1 DEF InOutbox, q
      <4>2. CASE i = 1
        BY <2>1, <4>1, <4>2 DEF InOutbox
      <4>3. CASE i # 1
        <5>1. i - 1 \in 1..Len(t) /\ t[i - 1] = f
          BY <2>2, <4>1, <4>3
        <5>2. QED
          BY <2>1, <5>1 DEF InOutbox
      <4>4. QED
        BY <4>2, <4>3
    <3>2. QED
      BY <2>1, <3>1 DEF OrderInv, Held
  <2>7. QED
    BY <2>1, <2>4, <2>5, <2>6 DEF OrderInv, InOrder
<1>3. QED
  BY <1>1, <1>2

(* Every earlier frame for this peer was received before: it is neither in     *)
(* hand nor behind the hand.                                                   *)
LEMMA OrderWrite == ASSUME Inv, OrderInv, WriteFrame PROVE OrderInv'
<1>1. /\ writer = "writing" /\ inHand \in Frames /\ frame[inHand].to = peer /\ queue.open
      /\ inHand <= sent /\ \A i \in 1..Len(queue.frames) : inHand < queue.frames[i]
  <2>1. writer = "writing" /\ server = "exchanging"
    BY DEF Inv, OpenForOne, WriteFrame
  <2>2. QED
    BY <2>1 DEF Inv, OpenForOne, QueuedForPeer, OrderInv, Numbered, Ascending
<1>2. /\ \A f \in Frames : frame'[f].to = frame[f].to
      /\ \A f \in Frames \ {inHand} : frame'[f] = frame[f]
      /\ frame'[inHand].fate = "received"
  BY <1>1 DEF Inv, Shaped, WriteFrame
<1>3. UNCHANGED <<queue, sent, peer, server>> /\ writer' = "popping"
  BY DEF WriteFrame, AfterWrite
<1>4. Numbered' /\ Ascending'
  <2>1. \A f \in Frames : f > sent => f # inHand
    BY <1>1 DEF Inv, Shaped, Frames
  <2>2. QED
    BY <1>2, <1>3, <2>1 DEF OrderInv, Numbered, Ascending
<1>5. Held'
  <2>1. ASSUME NEW f \in Frames, frame'[f].fate = "queued", frame'[f].to = peer PROVE InOutbox(f)'
    <3>1. f # inHand /\ frame[f] = frame'[f]
      BY <1>2, <2>1
    <3>2. InOutbox(f)
      BY <1>1, <2>1, <3>1 DEF OrderInv, Held
    <3>3. QED
      BY <1>3, <3>1, <3>2 DEF InOutbox
  <2>2. QED
    BY <1>3, <2>1 DEF Held
<1>6. InOrder'
  <2>1. ASSUME NEW f \in Frames, NEW g \in Frames, f < g, frame'[f].to = frame'[g].to,
               frame'[g].fate = "received", frame'[f].fate = "queued"
        PROVE  FALSE
    <3>1. f # inHand /\ frame'[f] = frame[f] /\ frame[f].to = frame[g].to
      BY <1>2, <2>1
    <3>2. CASE g # inHand
      BY <1>2, <2>1, <3>1, <3>2 DEF OrderInv, InOrder
    <3>3. CASE g = inHand
      <4>1. InOutbox(f)
        BY <1>1, <2>1, <3>1, <3>3 DEF OrderInv, Held
      <4>2. inHand < f
        BY <1>1, <3>1, <4>1 DEF InOutbox
      <4>3. QED
        BY <2>1, <3>3, <4>2 DEF Frames
    <3>4. QED
      BY <3>2, <3>3
  <2>2. QED
    BY <2>1 DEF InOrder
<1>7. QED
  BY <1>4, <1>5, <1>6 DEF OrderInv

(* A frame that is sent has the highest number, and goes to the end. *)
LEMMA OrderSend == ASSUME Inv, OrderInv, NEW size \in Sizes, Send(size) PROVE OrderInv'
<1> DEFINE f == sent + 1
           q == queue.frames
           a == Append(queue.frames, f)
<1>1. /\ f \in Frames /\ sent' = f /\ sent \in Nat
      /\ UNCHANGED <<server, peer, writer, inHand>>
      /\ \A g \in Frames \ {f} : frame'[g] = frame[g]
      /\ frame'[f].to = peer
      /\ \/ queue.open /\ queue'.frames = a /\ queue'.open = queue.open
         \/ frame'[f].fate \in {"notConnected", "full"} /\ UNCHANGED queue
      /\ frame'[f].fate \in {"queued", "notConnected", "full"}
  BY SentFrame
<1>2. Len(q) \in Nat /\ Len(a) = Len(q) + 1 /\ a[Len(q) + 1] = f /\ \A i \in 1..Len(q) : a[i] = q[i]
  BY <1>1, OneMore
<1>3. /\ \A i \in 1..Len(q) : q[i] \in Nat /\ q[i] < f
      /\ writer = "writing" => inHand \in Nat /\ inHand < f
  <2>1. ASSUME NEW i \in 1..Len(q) PROVE q[i] \in Nat /\ q[i] < f
    <3>1. q[i] \in Frames /\ q[i] <= sent
      BY DEF Inv, Shaped, OrderInv, Numbered
    <3>2. QED
      BY <1>1, <3>1 DEF Frames
  <2>2. ASSUME writer = "writing" PROVE inHand \in Nat /\ inHand < f
    <3>1. inHand \in Frames /\ inHand <= sent
      BY <2>2 DEF Inv, QueuedForPeer, OrderInv, Numbered
    <3>2. QED
      BY <1>1, <3>1 DEF Frames
  <2>3. QED
    BY <2>1, <2>2
<1> HIDE DEF q, a
<1>4. /\ \A g \in Frames : frame'[g].to <= peer
      /\ \A g \in Frames : g > f => frame'[g].fate = "unsent"
  <2>1. \A g \in Frames : g > f => g # f /\ g > sent
    BY <1>1 DEF Frames
  <2>2. peer <= peer
    BY DEF Inv, Shaped
  <2>3. QED
    BY <1>1, <2>1, <2>2 DEF OrderInv, Numbered
<1>5. InOrder'
  <2>1. ASSUME NEW g \in Frames, NEW h \in Frames, g < h, frame'[g].to = frame'[h].to,
               frame'[h].fate = "received", frame'[g].fate = "queued"
        PROVE  FALSE
    <3>1. h # f /\ frame'[h] = frame[h]
      BY <1>1, <2>1
    <3>2. h <= sent
      BY <1>1, <2>1, <3>1 DEF Frames, OrderInv, Numbered
    <3>3. g # f /\ frame'[g] = frame[g]
      BY <1>1, <2>1, <3>2 DEF Frames
    <3>4. QED
      BY <2>1, <3>1, <3>3 DEF OrderInv, InOrder
  <2>2. QED
    BY <2>1 DEF InOrder
<1>6. CASE UNCHANGED queue /\ frame'[f].fate \in {"notConnected", "full"}
  <2>1. Numbered' /\ Ascending'
    <3>1. \A i \in 1..Len(queue'.frames) : queue'.frames[i] <= sent'
      BY <1>1, <1>3, <1>6 DEF q
    <3>2. QED
      BY <1>1, <1>3, <1>4, <1>6, <3>1 DEF OrderInv, Numbered, Ascending
  <2>2. Held'
    <3>1. \A g \in Frames : frame'[g].fate = "queued" => frame'[g] = frame[g]
      BY <1>1, <1>6
    <3>2. QED
      BY <1>1, <1>6, <3>1 DEF OrderInv, Held, InOutbox
  <2>3. QED
    BY <1>5, <2>1, <2>2 DEF OrderInv
<1>7. CASE queue.open /\ queue'.frames = a /\ queue'.open = queue.open
  <2>1. \A i \in 1..Len(a) : i = Len(q) + 1 \/ i \in 1..Len(q)
    BY <1>2
  <2>2. Numbered'
    <3>1. \A i \in 1..Len(a) : a[i] <= f
      BY <1>1, <1>2, <1>3, <2>1
    <3>2. QED
      BY <1>1, <1>3, <1>4, <1>7, <3>1 DEF Numbered
  <2>3. Ascending'
    <3>1. ASSUME NEW i \in 1..Len(a), NEW j \in 1..Len(a), i < j PROVE a[i] < a[j]
      <4>1. i \in 1..Len(q) /\ a[i] = q[i]
        BY <1>2, <2>1, <3>1
      <4>2. CASE j = Len(q) + 1
        BY <1>2, <1>3, <4>1, <4>2
      <4>3. CASE j \in 1..Len(q)
        BY <1>2, <3>1, <4>1, <4>3 DEF OrderInv, Ascending, q
      <4>4. QED
        BY <2>1, <4>2, <4>3
    <3>2. ASSUME writer = "writing", NEW i \in 1..Len(a) PROVE inHand < a[i]
      <4>1. CASE i = Len(q) + 1
        BY <1>2, <1>3, <3>2, <4>1
      <4>2. CASE i \in 1..Len(q)
        BY <1>2, <3>2, <4>2 DEF OrderInv, Ascending, q
      <4>3. QED
        BY <2>1, <4>1, <4>2
    <3>3. QED
      BY <1>1, <1>7, <3>1, <3>2 DEF Ascending
  <2>4. Held'
    <3>1. ASSUME NEW g \in Frames, g = f PROVE InOutbox(g)'
      <4>1. Len(q) + 1 \in 1..Len(a) /\ a[Len(q) + 1] = g
        BY <1>2, <3>1
      <4>2. QED
        BY <1>7, <4>1 DEF InOutbox
    <3>2. ASSUME NEW g \in Frames, InOutbox(g) PROVE InOutbox(g)'
      <4>1. CASE writer = "writing" /\ g = inHand
        BY <1>1, <4>1 DEF InOutbox
      <4>2. ASSUME NEW i \in 1..Len(q), q[i] = g PROVE InOutbox(g)'
        <5>1. i \in 1..Len(a) /\ a[i] = g
          BY <1>2, <4>2
        <5>2. QED
          BY <1>7, <5>1 DEF InOutbox
      <4>3. QED
        BY <3>2, <4>1, <4>2 DEF InOutbox, q
    <3>3. QED
      BY <1>1, <1>7, <3>1, <3>2 DEF OrderInv, Held
  <2>5. QED
    BY <1>5, <2>2, <2>3, <2>4 DEF OrderInv
<1>8. QED
  BY <1>1, <1>6, <1>7

LEMMA OrderNext == Inv /\ OrderInv /\ [Next]_vars => OrderInv'
<1> SUFFICES ASSUME Inv, OrderInv, [Next]_vars PROVE OrderInv'
  OBVIOUS
<1>1. CASE Receive \/ Dial \/ PeerLeaves \/ HandleEvent \/ Close \/ UNCHANGED vars
  BY <1>1, OrderQuiet DEF Receive, Dial, PeerLeaves, HandleEvent, Close, linkVars, hostVars, vars
<1>2. CASE EmitConnected
  <2>1. writer = "off" /\ writer' = "popping" /\ server' = "exchanging"
    BY <1>2, OrderOfSteps DEF Inv, OpenForOne, EmitConnected, Reach
  <2>2. QED
    BY <1>2, <2>1, OrderQuiet DEF EmitConnected, hostVars
<1>3. CASE Woken
  BY <1>3, OrderQuiet DEF Woken, hostVars
<1>4. CASE Leave
  BY <1>4, OrderQuiet DEF Leave, hostVars
<1>5. CASE ExchangeEnds
  BY <1>5, OrderClosed DEF ExchangeEnds, hostVars
<1>6. CASE AcceptFails \/ ShutDown
  BY <1>6, OrderClosed DEF AcceptFails, ShutDown, Ended, hostVars
<1>7. QED
  BY <1>1, <1>2, <1>3, <1>4, <1>5, <1>6, OrderAccept, OrderOpen, OrderTake, OrderWrite, OrderSend
     DEF Next, Server, Exchange

-----------------------------------------------------------------------------
(* The bytes of the outbox. *)

(* Only a frame that is alone may be larger than the budget. *)
BytesInv ==
    /\ Len(queue.frames) = 0 => queue.bytes = 0
    /\ Len(queue.frames) = 1 => queue.bytes = frame[queue.frames[1]].size
    /\ Len(queue.frames) > 1 =>
         /\ queue.bytes = Len(queue.frames) /\ queue.bytes <= Budget
         /\ \A i \in 1..Len(queue.frames) : frame[queue.frames[i]].size = 1

LEMMA BytesAgreeFollows == ASSUME Inv, BytesInv PROVE BytesAgree
<1> DEFINE q == queue.frames
           small == OfSize(q, 1)
           large == OfSize(q, Budget + 1)
<1>1. /\ Len(q) \in Nat /\ Budget \in Nat \ {0}
      /\ \A i \in 1..Len(q) : frame[q[i]].size = 1 \/ frame[q[i]].size = Budget + 1
  BY LinkAssumption DEF Inv, Shaped, Sizes
<1>2. /\ small = {i \in 1..Len(q) : frame[q[i]].size = 1}
      /\ large = {i \in 1..Len(q) : frame[q[i]].size = Budget + 1}
  BY DEF OfSize
<1>3. BytesOf(q) = Cardinality(small) + (Budget + 1) * Cardinality(large)
  BY DEF BytesOf
<1> HIDE DEF q, small, large
<1>4. CASE Len(q) = 0
  <2>1. small = {} /\ large = {}
    BY <1>2, <1>4
  <2>2. Cardinality(small) = 0 /\ Cardinality(large) = 0
    BY <2>1, FS_EmptySet
  <2>3. BytesOf(q) = 0
    BY <1>1, <1>3, <2>2
  <2>4. QED
    BY <1>4, <2>3 DEF BytesInv, BytesAgree, q
<1>5. CASE Len(q) = 1 /\ frame[q[1]].size = 1
  <2>1. small = {1} /\ large = {}
    BY <1>1, <1>2, <1>5
  <2>2. Cardinality(small) = 1 /\ Cardinality(large) = 0
    BY <2>1, FS_EmptySet, FS_Singleton
  <2>3. BytesOf(q) = 1
    BY <1>1, <1>3, <2>2
  <2>4. QED
    BY <1>5, <2>3 DEF BytesInv, BytesAgree, q
<1>6. CASE Len(q) = 1 /\ frame[q[1]].size = Budget + 1
  <2>1. small = {} /\ large = {1}
    BY <1>1, <1>2, <1>6
  <2>2. Cardinality(small) = 0 /\ Cardinality(large) = 1
    BY <2>1, FS_EmptySet, FS_Singleton
  <2>3. BytesOf(q) = Budget + 1
    BY <1>1, <1>3, <2>2
  <2>4. QED
    BY <1>6, <2>3 DEF BytesInv, BytesAgree, q
<1>7. CASE Len(q) > 1
  <2>1. \A i \in 1..Len(q) : frame[q[i]].size = 1
    BY <1>7 DEF BytesInv, q
  <2>2. small = 1..Len(q) /\ large = {}
    BY <1>1, <1>2, <2>1
  <2>3. Cardinality(small) = Len(q) /\ Cardinality(large) = 0
    BY <1>1, <1>7, <2>2, FS_EmptySet, FS_Interval
  <2>4. BytesOf(q) = Len(q)
    BY <1>1, <1>3, <2>3
  <2>5. QED
    BY <1>7, <2>4 DEF BytesInv, BytesAgree, q
<1>8. CASE Len(q) = 1
  <2>1. 1 \in 1..Len(q)
    BY <1>8
  <2>2. QED
    BY <1>1, <1>5, <1>6, <1>8, <2>1
<1>9. Len(q) = 0 \/ Len(q) = 1 \/ Len(q) > 1
  <2>1. PICK n \in Nat : n = Len(q)
    BY <1>1
  <2>2. n = 0 \/ n = 1 \/ n > 1
    OBVIOUS
  <2>3. QED
    BY <2>1, <2>2
<1>10. QED
  BY <1>4, <1>7, <1>8, <1>9

(* Steps that leave the outbox alone, and the size of every frame sent. *)
LEMMA BytesQuiet ==
    ASSUME Inv, Numbered, BytesInv, UNCHANGED queue,
           \A f \in Frames : f <= sent => frame'[f].size = frame[f].size
    PROVE  BytesInv'
<1>1. \A i \in 1..Len(queue.frames) : frame'[queue.frames[i]].size = frame[queue.frames[i]].size
  BY DEF Inv, Shaped, Numbered
<1>2. Len(queue.frames) = 1 => 1 \in 1..Len(queue.frames)
  OBVIOUS
<1>3. QED
  BY <1>1, <1>2 DEF BytesInv

LEMMA BytesEmptied == ASSUME NEW open, Reset(open) PROVE BytesInv'
BY DEF Reset, EmptyOutbox, BytesInv

LEMMA BytesTake == ASSUME Inv, Numbered, BytesInv, TakeFrame PROVE BytesInv'
<1>1. CASE queue.frames = <<>>
  BY <1>1, BytesQuiet DEF TakeFrame, hostVars
<1>2. CASE queue.frames # <<>>
  <2> DEFINE q == queue.frames
             t == Tail(queue.frames)
  <2>1. queue'.frames = t /\ queue'.bytes = queue.bytes - frame[q[1]].size /\ frame' = frame
    BY <1>2, TakenFrame
  <2>2. /\ Len(q) \in Nat \ {0} /\ Len(t) = Len(q) - 1
        /\ \A i \in 1..Len(t) : i + 1 \in 1..Len(q) /\ t[i] = q[i + 1]
    BY <1>2, FirstAndRest
  <2>3. /\ Len(q) = 1 => queue.bytes = frame[q[1]].size
        /\ Len(q) > 1 => queue.bytes = Len(q) /\ queue.bytes <= Budget
                         /\ \A i \in 1..Len(q) : frame[q[i]].size = 1
    BY DEF BytesInv
  <2>4. q[1] \in Frames /\ frame[q[1]].size \in Nat /\ Budget \in Nat
    BY <1>2, FirstAndRest, LinkAssumption DEF Inv, Shaped, Sizes
  <2> HIDE DEF q, t
  <2>5. CASE Len(q) = 1
    BY <2>1, <2>2, <2>3, <2>4, <2>5 DEF BytesInv
  <2>6. CASE Len(q) > 1
    <3>1. \A i \in 1..Len(t) : frame[t[i]].size = 1
      BY <2>2, <2>3, <2>6
    <3>2. 1 \in 1..Len(q)
      BY <2>2
    <3>3. queue'.bytes = Len(t) /\ Len(t) <= Budget /\ Len(t) >= 1
      BY <2>1, <2>2, <2>3, <2>4, <2>6, <3>2
    <3>4. Len(t) = 1 => frame[t[1]].size = 1
      BY <3>1
    <3>5. QED
      BY <2>1, <3>1, <3>3, <3>4 DEF BytesInv
  <2>7. QED
    BY <2>2, <2>5, <2>6
<1>3. QED
  BY <1>1, <1>2

(* Behind another frame there is only room for small ones. *)
LEMMA BytesSend ==
    ASSUME Inv, Numbered, BytesInv, NEW size \in Sizes, Send(size) PROVE BytesInv'
<1> DEFINE f == sent + 1
           q == queue.frames
           a == Append(queue.frames, f)
<1>1. /\ f \in Frames /\ sent \in Nat /\ \A g \in Frames \ {f} : frame'[g] = frame[g]
      /\ frame'[f].size = size
      /\ \/ ~OverBudget(size) /\ queue'.frames = a /\ queue'.bytes = queue.bytes + size
         \/ UNCHANGED queue
  BY SentFrame
<1>2. \A g \in Frames : g <= sent => frame'[g].size = frame[g].size
  BY <1>1 DEF Frames
<1>3. CASE UNCHANGED queue
  BY <1>2, <1>3, BytesQuiet
<1>4. CASE ~OverBudget(size) /\ queue'.frames = a /\ queue'.bytes = queue.bytes + size
  <2>1. Len(q) \in Nat /\ Len(a) = Len(q) + 1 /\ a[Len(q) + 1] = f /\ \A i \in 1..Len(q) : a[i] = q[i]
    BY <1>1, OneMore
  <2>2. \A i \in 1..Len(q) : frame'[q[i]].size = frame[q[i]].size
    BY <1>2 DEF Inv, Shaped, Numbered
  <2>3. Budget \in Nat \ {0} /\ (size = 1 \/ size = Budget + 1)
    BY LinkAssumption DEF Sizes
  <2>4. queue.bytes > 0 => queue.bytes + size <= Budget
    <3>1. queue.bytes > 0 => ~(queue.bytes + size > Budget)
      BY <1>4 DEF OverBudget
    <3>2. queue.bytes \in Nat
      <4>1. CASE Len(q) = 1
        <5>1. q[1] \in Frames
          BY <4>1 DEF Inv, Shaped
        <5>2. frame[q[1]].size \in {1, Budget + 1}
          BY <5>1 DEF Inv, Shaped, Sizes
        <5>3. QED
          BY <2>3, <4>1, <5>2 DEF BytesInv
      <4>2. CASE Len(q) = 0 \/ Len(q) > 1
        BY <2>1, <4>2 DEF BytesInv
      <4>3. Len(q) = 0 \/ Len(q) = 1 \/ Len(q) > 1
        <5>1. PICK n \in Nat : n = Len(q)
          BY <2>1
        <5>2. n = 0 \/ n = 1 \/ n > 1
          OBVIOUS
        <5>3. QED
          BY <5>1, <5>2
      <4>4. QED
        BY <4>1, <4>2, <4>3
    <3>3. QED
      BY <2>3, <3>1, <3>2
  <2>5. /\ Len(q) = 0 => queue.bytes = 0
        /\ Len(q) = 1 => queue.bytes = frame[q[1]].size
        /\ Len(q) > 1 => queue.bytes = Len(q) /\ \A i \in 1..Len(q) : frame[q[i]].size = 1
    BY DEF BytesInv
  <2>6. \A i \in 1..Len(q) : frame[q[i]].size = 1 \/ frame[q[i]].size = Budget + 1
    BY DEF Inv, Shaped, Sizes
  <2> HIDE DEF f, q, a
  <2>7. CASE Len(q) = 0
    <3>1. Len(a) = 1 /\ a[1] = f /\ queue'.bytes = size
      BY <1>4, <2>1, <2>3, <2>5, <2>7
    <3>2. QED
      BY <1>1, <1>4, <3>1 DEF BytesInv
  <2>8. CASE Len(q) >= 1
    <3>1. queue.bytes = Len(q) /\ \A i \in 1..Len(q) : frame[q[i]].size = 1
      <4>1. CASE Len(q) = 1
        <5>1. 1 \in 1..Len(q)
          BY <4>1
        <5>2. frame[q[1]].size = 1
          BY <2>3, <2>4, <2>5, <2>6, <4>1, <5>1
        <5>3. \A i \in 1..Len(q) : i = 1
          BY <4>1
        <5>4. QED
          BY <2>5, <4>1, <5>2, <5>3
      <4>2. CASE Len(q) > 1
        BY <2>5, <4>2
      <4>3. Len(q) = 1 \/ Len(q) > 1
        BY <2>1, <2>8
      <4>4. QED
        BY <4>1, <4>2, <4>3
    <3>2. size = 1 /\ queue'.bytes = Len(a) /\ Len(a) <= Budget /\ Len(a) > 1
      <4>1. queue.bytes = Len(q) /\ Len(q) \in Nat /\ Len(q) >= 1
        BY <2>1, <2>8, <3>1
      <4>2. Len(q) + size <= Budget
        BY <2>4, <4>1
      <4>3. size = 1
        BY <2>3, <4>1, <4>2
      <4>4. QED
        BY <1>4, <2>1, <4>1, <4>2, <4>3
    <3>3. \A i \in 1..Len(a) : frame'[a[i]].size = 1
      <4> SUFFICES ASSUME NEW i \in 1..Len(a) PROVE frame'[a[i]].size = 1
        OBVIOUS
      <4>1. CASE i = Len(q) + 1
        BY <1>1, <2>1, <3>2, <4>1
      <4>2. CASE i \in 1..Len(q)
        BY <2>1, <2>2, <3>1, <4>2
      <4>3. QED
        BY <2>1, <4>1, <4>2
    <3>4. QED
      BY <1>4, <3>2, <3>3 DEF BytesInv
  <2>9. QED
    BY <2>1, <2>7, <2>8
<1>5. QED
  BY <1>1, <1>3, <1>4

LEMMA BytesNext == Inv /\ Numbered /\ BytesInv /\ [Next]_vars => BytesInv'
<1> SUFFICES ASSUME Inv, Numbered, BytesInv, [Next]_vars PROVE BytesInv'
  OBVIOUS
<1>1. CASE \/ Receive \/ Dial \/ PeerLeaves \/ HandleEvent \/ Close \/ UNCHANGED vars
           \/ Accept \/ EmitConnected \/ Woken \/ Leave
  <2>1. UNCHANGED <<queue, frame>>
    BY <1>1 DEF Receive, Dial, PeerLeaves, HandleEvent, Close, vars, Accept, EmitConnected, Woken,
       Leave, linkVars, hostVars
  <2>2. QED
    BY <2>1, BytesQuiet
<1>2. CASE OpenOutbox \/ ExchangeEnds \/ AcceptFails \/ ShutDown
  BY <1>2, BytesEmptied DEF OpenOutbox, ExchangeEnds, AcceptFails, ShutDown, Ended
<1>3. CASE WriteFrame
  <2>1. \A f \in Frames : frame'[f].size = frame[f].size
    BY <1>3 DEF Inv, Shaped, WriteFrame
  <2>2. QED
    BY <1>3, <2>1, BytesQuiet DEF WriteFrame
<1>4. QED
  BY <1>1, <1>2, <1>3, BytesTake, BytesSend DEF Next, Server, Exchange

-----------------------------------------------------------------------------
(* What the host has seen. *)

Events == [kind : {"connected", "message", "disconnected", "failed"}, peer : Nat]

(* The last peer that was announced. *)
Announced == IF server \in {"opening", "announcing"} THEN peer - 1 ELSE peer

HostShaped ==
    /\ host = [state |-> host.state, gen |-> host.gen] /\ host.gen \in Nat
    /\ toHost \in Seq(Events)

(* The host counts no connection before its announcement arrives; those on    *)
(* their way are in order.                                                    *)
Behind ==
    /\ host.gen <= Announced
    /\ \A i \in 1..Len(toHost) : toHost[i].kind = "connected" =>
          host.gen < toHost[i].peer /\ toHost[i].peer <= Announced
    /\ \A i, j \in 1..Len(toHost) :
          i < j /\ toHost[i].kind = "connected" /\ toHost[j].kind = "connected"
              => toHost[i].peer < toHost[j].peer

HostInv == HostShaped /\ Behind

LEMMA HostInit == Init => HostInv
BY DEF Init, HostInv, HostShaped, Behind, Announced

LEMMA HostTypes ==
    ASSUME Inv, HostInv
    PROVE  /\ Announced \in Int /\ host.gen \in Nat /\ toHost \in Seq(Events)
           /\ \A i \in 1..Len(toHost) : toHost[i] \in Events /\ toHost[i].peer \in Nat
<1>1. toHost \in Seq(Events) /\ host.gen \in Nat
  BY DEF HostInv, HostShaped
<1>2. \A i \in 1..Len(toHost) : toHost[i] \in Events
  BY <1>1
<1>3. \A event \in Events : event.peer \in Nat
  BY DEF Events
<1>4. Announced \in Int
  BY DEF Inv, Shaped, Announced
<1>5. QED
  BY <1>1, <1>2, <1>3, <1>4

LEMMA OpenWhenSeenFollows == ASSUME Inv, HostInv PROVE OpenWhenSeen
<1> SUFFICES ASSUME host.gen = peer, server \in {"opening", "announcing", "exchanging"}
             PROVE  queue.open
  BY DEF OpenWhenSeen
<1>1. CASE server \in {"announcing", "exchanging"}
  BY <1>1 DEF Inv, OpenForOne
<1>2. CASE server = "opening"
  BY <1>2 DEF Inv, Shaped, HostInv, Behind, Announced
<1>3. QED
  BY <1>1, <1>2

(* Steps that tell the host nothing. *)
LEMMA HostQuiet ==
    ASSUME Inv, HostInv, UNCHANGED <<toHost, host>>, Announced' \in Int, Announced <= Announced'
    PROVE  HostInv'
<1>1. HostShaped'
  BY DEF HostInv, HostShaped
<1>2. Announced \in Int /\ host.gen \in Nat /\ \A i \in 1..Len(toHost) : toHost[i].peer \in Nat
  BY HostTypes
<1>3. Behind'
  BY <1>1, <1>2 DEF HostInv, Behind
<1>4. QED
  BY <1>1, <1>3 DEF HostInv

(* An event is sent; an announcement is that of the next peer. *)
LEMMA HostTold ==
    ASSUME Inv, HostInv, NEW event \in Events, toHost' = Append(toHost, event), UNCHANGED host,
           Announced' \in Int, Announced <= Announced',
           event.kind = "connected" => Announced < event.peer /\ event.peer <= Announced'
    PROVE  HostInv'
<1> DEFINE n == Len(toHost)
<1>1. /\ toHost \in Seq(Events) /\ Announced \in Int /\ host.gen \in Nat
      /\ \A i \in 1..n : toHost[i].peer \in Nat
  BY HostTypes
<1>2. /\ n \in Nat /\ Len(toHost') = n + 1 /\ toHost'[n + 1] = event /\ toHost' \in Seq(Events)
      /\ \A i \in 1..n : toHost'[i] = toHost[i]
  BY <1>1
<1>3. event.peer \in Nat
  BY DEF Events
<1> HIDE DEF n
<1>4. HostShaped'
  BY <1>2 DEF HostInv, HostShaped
<1>5. \A i \in 1..Len(toHost') : i = n + 1 \/ i \in 1..n
  BY <1>2
<1>6. host'.gen <= Announced'
  BY <1>1 DEF HostInv, Behind
<1>7. ASSUME NEW i \in 1..Len(toHost'), toHost'[i].kind = "connected"
      PROVE  host'.gen < toHost'[i].peer /\ toHost'[i].peer <= Announced'
  <2>1. CASE i \in 1..n
    <3>1. toHost'[i] = toHost[i] /\ toHost[i].peer \in Nat
      BY <1>1, <1>2, <2>1
    <3>2. host.gen < toHost[i].peer /\ toHost[i].peer <= Announced
      BY <1>7, <2>1, <3>1 DEF HostInv, Behind, n
    <3>3. QED
      BY <1>1, <3>1, <3>2
  <2>2. CASE i = n + 1
    BY <1>1, <1>2, <1>3, <1>7, <2>2 DEF HostInv, Behind
  <2>3. QED
    BY <1>5, <2>1, <2>2
<1>8. ASSUME NEW i \in 1..Len(toHost'), NEW j \in 1..Len(toHost'), i < j,
             toHost'[i].kind = "connected", toHost'[j].kind = "connected"
      PROVE  toHost'[i].peer < toHost'[j].peer
  <2>1. i \in 1..n /\ toHost'[i] = toHost[i] /\ toHost[i].peer \in Nat
    <3>1. i \in 1..n
      BY <1>2, <1>8
    <3>2. QED
      BY <1>1, <1>2, <3>1
  <2>2. CASE j \in 1..n
    BY <1>2, <1>8, <2>1, <2>2 DEF HostInv, Behind, n
  <2>3. CASE j = n + 1
    <3>1. toHost[i].peer <= Announced
      BY <1>8, <2>1 DEF HostInv, Behind, n
    <3>2. Announced < event.peer
      BY <1>2, <1>8, <2>3
    <3>3. QED
      BY <1>1, <1>2, <1>3, <2>1, <2>3, <3>1, <3>2
  <2>4. QED
    BY <1>5, <2>2, <2>3
<1>9. QED
  BY <1>4, <1>6, <1>7, <1>8 DEF HostInv, Behind

(* The host takes the next event: its count stays behind the rest. *)
LEMMA HostHandles == ASSUME Inv, HostInv, HandleEvent PROVE HostInv'
<1> DEFINE t == Tail(toHost)
<1>1. toHost \in Seq(Events) /\ toHost # <<>> /\ UNCHANGED <<server, peer>> /\ toHost' = t
  BY DEF HostInv, HostShaped, HandleEvent, linkVars
<1>2. /\ Len(toHost) \in Nat \ {0} /\ Head(toHost) = toHost[1] /\ toHost[1] \in Events
      /\ Len(t) = Len(toHost) - 1 /\ t \in Seq(Events)
      /\ \A i \in 1..Len(t) : t[i] = toHost[i + 1]
  BY <1>1
<1>3. \A i \in 1..Len(t) : i + 1 \in 1..Len(toHost)
  BY <1>2
<1> HIDE DEF t
<1>4. /\ host' = [state |-> host'.state, gen |-> host'.gen]
      /\ host'.gen = host.gen \/ (toHost[1].kind = "connected" /\ host'.gen = host.gen + 1)
  <2>1. host = [state |-> host.state, gen |-> host.gen]
    BY DEF HostInv, HostShaped
  <2>2. host' = Handled(toHost[1]) /\ toHost[1].kind \in {"connected", "message", "disconnected", "failed"}
    BY <1>2 DEF HandleEvent, Events
  <2>3. CASE host' = host
    BY <2>1, <2>3
  <2>4. CASE \E state \in {"ready", "failed"} : host' = [host EXCEPT !.state = state]
    BY <2>1, <2>4
  <2>5. CASE toHost[1].kind = "connected" /\ host' = [state |-> "connected", gen |-> host.gen + 1]
    BY <2>5
  <2>6. QED
    BY <2>2, <2>3, <2>4, <2>5 DEF Handled
<1>5. host.gen \in Nat /\ host'.gen \in Nat /\ Announced \in Int /\ Announced' = Announced
  BY <1>1, <1>4 DEF Inv, Shaped, HostInv, HostShaped, Announced
<1>6. \A i \in 1..Len(toHost) : toHost[i].peer \in Nat
  BY HostTypes
<1>7. HostShaped'
  BY <1>1, <1>2, <1>4, <1>5 DEF HostShaped
<1>8. 1 \in 1..Len(toHost)
  BY <1>2
<1>9. host'.gen <= Announced'
  <2>1. CASE host'.gen = host.gen
    BY <1>5, <2>1 DEF HostInv, Behind
  <2>2. CASE toHost[1].kind = "connected" /\ host'.gen = host.gen + 1
    <3>1. host.gen < toHost[1].peer /\ toHost[1].peer <= Announced
      BY <1>8, <2>2 DEF HostInv, Behind
    <3>2. toHost[1].peer \in Nat
      BY <1>6, <1>8
    <3>3. QED
      BY <1>5, <2>2, <3>1, <3>2
  <2>3. QED
    BY <1>4, <2>1, <2>2
<1>10. ASSUME NEW i \in 1..Len(t), t[i].kind = "connected"
       PROVE  host'.gen < t[i].peer /\ t[i].peer <= Announced'
  <2>1. i + 1 \in 1..Len(toHost) /\ t[i] = toHost[i + 1]
    BY <1>2, <1>3
  <2>2. toHost[i + 1].kind = "connected" /\ toHost[i + 1].peer \in Nat
    BY <1>6, <1>10, <2>1
  <2>3. host.gen < toHost[i + 1].peer /\ toHost[i + 1].peer <= Announced
    BY <2>1, <2>2 DEF HostInv, Behind
  <2>4. CASE host'.gen = host.gen
    BY <1>5, <2>1, <2>3, <2>4
  <2>5. CASE toHost[1].kind = "connected" /\ host'.gen = host.gen + 1
    <3>1. host.gen < toHost[1].peer /\ toHost[1].peer \in Nat
      BY <1>6, <1>8, <2>5 DEF HostInv, Behind
    <3>2. 1 < i + 1
      OBVIOUS
    <3>3. toHost[1].peer < toHost[i + 1].peer
      BY <1>8, <2>1, <2>2, <2>5, <3>2 DEF HostInv, Behind
    <3>4. host'.gen < toHost[i + 1].peer
      BY <1>5, <2>2, <2>5, <3>1, <3>3
    <3>5. QED
      BY <1>5, <2>1, <2>3, <3>4
  <2>6. QED
    BY <1>4, <2>4, <2>5
<1>11. ASSUME NEW i \in 1..Len(t), NEW j \in 1..Len(t), i < j,
              t[i].kind = "connected", t[j].kind = "connected"
       PROVE  t[i].peer < t[j].peer
  <2>1. /\ i + 1 \in 1..Len(toHost) /\ t[i] = toHost[i + 1]
        /\ j + 1 \in 1..Len(toHost) /\ t[j] = toHost[j + 1]
    BY <1>2, <1>3
  <2>2. i + 1 < j + 1
    BY <1>11
  <2>3. QED
    BY <1>11, <2>1, <2>2 DEF HostInv, Behind
<1>12. QED
  BY <1>1, <1>7, <1>9, <1>10, <1>11 DEF HostInv, Behind

LEMMA HostNext == Inv /\ HostInv /\ [Next]_vars => HostInv'
<1> SUFFICES ASSUME Inv, HostInv, [Next]_vars PROVE HostInv'
  OBVIOUS
<1>1. peer \in Nat
  BY DEF Inv, Shaped
<1>2. CASE \/ TakeFrame \/ Woken \/ WriteFrame \/ Dial \/ PeerLeaves \/ UNCHANGED vars
           \/ \E size \in Sizes : Send(size)
  <2>1. UNCHANGED <<toHost, host, server, peer>>
    BY <1>2 DEF TakeFrame, Woken, WriteFrame, Dial, PeerLeaves, Send, vars, linkVars, hostVars
  <2>2. Announced' = Announced /\ Announced \in Int
    BY <1>1, <2>1 DEF Announced
  <2>3. QED
    BY <2>1, <2>2, HostQuiet
<1>3. CASE Close
  <2>1. /\ UNCHANGED <<toHost, server, peer>>
        /\ host' = [host EXCEPT !.state = "closed"] /\ host = [state |-> host.state, gen |-> host.gen]
    BY <1>3 DEF Close, linkVars, HostInv, HostShaped
  <2>2. host' = [state |-> host'.state, gen |-> host'.gen] /\ host'.gen = host.gen
    BY <2>1
  <2>3. QED
    BY <2>1, <2>2 DEF HostInv, HostShaped, Behind, Announced
<1>4. CASE Accept \/ OpenOutbox \/ ExchangeEnds \/ ShutDown
  <2>1. /\ UNCHANGED <<toHost, host>>
        /\ \/ server \in {"accepting", "opening"} /\ UNCHANGED <<server, peer>>
           \/ server = "accepting" /\ server' = "opening" /\ peer' = peer + 1
           \/ server = "opening" /\ server' = "announcing" /\ peer' = peer
           \/ server' \in {"leaving", "ended"} /\ peer' = peer
    BY <1>4, OrderOfSteps
       DEF Accept, OpenOutbox, ExchangeEnds, ShutDown, Ended, Reach, hostVars
  <2>2. Announced' \in Int /\ Announced <= Announced'
    BY <1>1, <2>1 DEF Announced
  <2>3. QED
    BY <2>1, <2>2, HostQuiet
<1>5. CASE EmitConnected
  <2>1. /\ server = "announcing" /\ server' = "exchanging" /\ UNCHANGED <<peer, host>>
        /\ toHost' = Append(toHost, Connected(peer))
    BY <1>5, OrderOfSteps DEF EmitConnected, Reach, hostVars
  <2>2. Announced = peer - 1 /\ Announced' = peer
    BY <2>1 DEF Announced
  <2>3. Connected(peer) \in Events /\ Connected(peer).peer = peer
    BY <1>1 DEF Connected, Events
  <2>4. QED
    BY <1>1, <2>1, <2>2, <2>3, HostTold
<1>6. CASE Receive \/ Leave \/ AcceptFails
  <2>1. PICK event \in {Message(peer), Disconnected(peer), Failed} : toHost' = Append(toHost, event)
    BY <1>6 DEF Receive, Leave, EmitDisconnected, AcceptFails
  <2>2. event \in Events /\ event.kind # "connected"
    BY <1>1, <2>1 DEF Message, Disconnected, Failed, Events
  <2>3. /\ UNCHANGED <<peer, host>> /\ server \notin {"opening", "announcing"}
        /\ server' \notin {"opening", "announcing"}
    BY <1>6 DEF Receive, Leave, AcceptFails, Ended, linkVars, hostVars
  <2>4. Announced' = Announced /\ Announced \in Int
    BY <1>1, <2>3 DEF Announced
  <2>5. QED
    BY <2>1, <2>2, <2>3, <2>4, HostTold
<1>7. QED
  BY <1>2, <1>3, <1>4, <1>5, <1>6, HostHandles DEF Next, Server, Exchange

-----------------------------------------------------------------------------
(* Through drops, reconnects and a host that lags behind, for any budget: a  *)
(* frame never overtakes an earlier one that was accepted for the same peer, *)
(* the byte count is that of the frames held, more than one of them never    *)
(* exceed the budget, and the outbox is open to a host that has seen         *)
(* Connected (push, pop and reset of outbox.rs, accept_peers of server.rs).  *)
THEOREM OutboxStaysSound == Spec => []OutboxIsSound
<1>1. Init => Inv /\ OrderInv /\ BytesInv /\ HostInv
  BY InvInit, OrderInit, HostInit DEF Init, EmptyOutbox, BytesInv
<1>2. Inv /\ OrderInv /\ BytesInv /\ HostInv /\ [Next]_vars
          => Inv' /\ OrderInv' /\ BytesInv' /\ HostInv'
  BY InvNext, OrderNext, BytesNext, HostNext DEF OrderInv
<1>3. Inv /\ OrderInv /\ BytesInv /\ HostInv => OutboxIsSound
  BY BytesAgreeFollows, OpenWhenSeenFollows DEF OrderInv, OutboxIsSound
<1>4. QED
  BY <1>1, <1>2, <1>3, PTL DEF Spec

-----------------------------------------------------------------------------
(* Types. *)

(* Nothing is counted or named beyond the peers that dialled. *)
Counted ==
    /\ peer \in Nat /\ backlog \in Nat /\ dialled \in Nat
    /\ peer + backlog <= dialled /\ dialled <= MaxPeer
    /\ \A i \in 1..Len(toHost) : toHost[i].peer <= peer
    /\ \A f \in Frames : frame[f].to <= peer /\ frame[f].by <= peer

(* What the steps of the link leave in the plain variables. *)
Plain ==
    /\ server \in {"accepting", "opening", "announcing", "exchanging", "leaving", "ended"}
    /\ peerUp \in BOOLEAN /\ queue.open \in BOOLEAN /\ permit \in BOOLEAN /\ shutdown \in BOOLEAN
    /\ writer \in {"off", "popping", "waiting", "writing"}
    /\ inHand \in 0..MaxFrame
    /\ sent \in 0..MaxFrame
    /\ host.state \in {"ready", "connected", "failed", "closed"}

Typed == Plain /\ Counted

LEMMA LinkSizes ==
    MaxPeer \in Nat /\ MaxFrame \in Nat /\ Budget \in Nat /\ Frames = 1..MaxFrame /\ Sizes \subseteq Nat
BY LinkAssumption DEF Frames, Sizes

LEMMA TypedInit == Init => Typed
<1> SUFFICES ASSUME Init PROVE Typed
  OBVIOUS
<1>1. inHand \in 0..MaxFrame /\ sent \in 0..MaxFrame
  BY LinkSizes DEF Init
<1>2. queue.open = FALSE /\ host.state = "ready"
  BY DEF Init, EmptyOutbox
<1>3. Plain
  BY <1>1, <1>2 DEF Init, Plain
<1>4. Len(toHost) = 0 /\ \A f \in Frames : frame[f].to = 0 /\ frame[f].by = 0
  BY DEF Init
<1>5. peer = 0 /\ backlog = 0 /\ dialled = 0 /\ MaxPeer \in Nat
  BY LinkSizes DEF Init
<1> QED
  BY <1>3, <1>4, <1>5 DEF Typed, Counted

(* The host counts no more connections than there were peers, and the bytes  *)
(* are those of the frames.                                                  *)
LEMMA TypesFollow == ASSUME Inv, BytesInv, HostInv, Typed PROVE TypeOK
<1>1. peer \in 0..MaxPeer /\ backlog \in 0..MaxPeer /\ dialled \in 0..MaxPeer
  BY LinkSizes DEF Typed, Counted
<1>2. queue.bytes \in Nat
  <2>1. Len(queue.frames) \in Nat /\ queue.frames \in Seq(Frames)
    BY DEF Inv, Shaped
  <2>2. Len(queue.frames) = 1 => frame[queue.frames[1]].size \in Nat
    <3>1. Len(queue.frames) = 1 => queue.frames[1] \in Frames
      BY <2>1
    <3> QED
      BY <3>1, LinkSizes DEF Inv, Shaped
  <2>3. \/ Len(queue.frames) = 0 /\ queue.bytes = 0
        \/ Len(queue.frames) = 1 /\ queue.bytes = frame[queue.frames[1]].size
        \/ queue.bytes = Len(queue.frames)
    <3>1. \A n \in Nat : n = 0 \/ n = 1 \/ n > 1
      OBVIOUS
    <3>2. Len(queue.frames) = 0 \/ Len(queue.frames) = 1 \/ Len(queue.frames) > 1
      BY <2>1, <3>1
    <3> QED
      BY <3>2 DEF BytesInv
  <2> QED
    BY <2>1, <2>2, <2>3
<1>3. host \in [state : {"ready", "connected", "failed", "closed"}, gen : 0..MaxPeer]
  <2>1. host.gen <= peer
    BY DEF HostInv, HostShaped, Behind, Announced, Inv, Shaped
  <2>2. host.gen \in 0..MaxPeer
    BY <1>1, <2>1, LinkSizes DEF HostInv, HostShaped
  <2>3. host = [state |-> host.state, gen |-> host.gen]
    BY DEF HostInv, HostShaped
  <2> QED
    BY <2>2, <2>3 DEF Typed, Plain
<1>4. \A i \in DOMAIN toHost :
         toHost[i] \in [kind : {"connected", "message", "disconnected", "failed"}, peer : 0..MaxPeer]
  <2> SUFFICES ASSUME NEW i \in DOMAIN toHost
               PROVE  toHost[i] \in [kind : {"connected", "message", "disconnected", "failed"}, peer : 0..MaxPeer]
    OBVIOUS
  <2>1. toHost \in Seq(Events)
    BY DEF HostInv, HostShaped
  <2>2. i \in 1..Len(toHost) /\ toHost[i] \in Events
    BY <2>1
  <2>3. toHost[i].peer <= peer
    BY <2>2 DEF Typed, Counted
  <2>4. \A event \in Events : event = [kind |-> event.kind, peer |-> event.peer] /\ event.peer \in Nat
           /\ event.kind \in {"connected", "message", "disconnected", "failed"}
    BY DEF Events
  <2>5. toHost[i].peer \in 0..MaxPeer
    BY <1>1, <2>2, <2>3, <2>4, LinkSizes
  <2> QED
    BY <2>2, <2>4, <2>5
<1>5. frame \in [Frames -> [size : Sizes, to : 0..MaxPeer,
                    fate : {"unsent", "queued", "notConnected", "full", "received"}, by : 0..MaxPeer]]
  <2> DEFINE Record == [size : Sizes, to : Nat,
                    fate : {"unsent", "queued", "notConnected", "full", "received"}, by : Nat]
             Bounded == [size : Sizes, to : 0..MaxPeer,
                    fate : {"unsent", "queued", "notConnected", "full", "received"}, by : 0..MaxPeer]
  <2>1. \A f \in Frames : frame[f] \in Record /\ frame[f].to <= peer /\ frame[f].by <= peer
    BY DEF Inv, Shaped, Typed, Counted
  <2>2. ASSUME NEW x \in Record, x.to <= peer, x.by <= peer PROVE x \in Bounded
    <3>1. x = [size |-> x.size, to |-> x.to, fate |-> x.fate, by |-> x.by]
      OBVIOUS
    <3>2. x.to \in 0..MaxPeer /\ x.by \in 0..MaxPeer
      BY <1>1, <2>2, LinkSizes
    <3> QED
      BY <3>1, <3>2
  <2>3. \A f \in Frames : frame[f] \in Bounded
    BY <2>1, <2>2
  <2>4. frame = [f \in Frames |-> frame[f]]
    BY DEF Inv, Shaped
  <2> HIDE DEF Bounded
  <2>5. frame \in [Frames -> Bounded]
    BY <2>3, <2>4
  <2> QED
    BY <2>5 DEF Bounded
<1> QED
  BY <1>1, <1>2, <1>3, <1>4, <1>5 DEF Typed, Plain, TypeOK, Inv, Shaped

(* Steps that leave the counts, the frames and what is on its way alone. *)
LEMMA CountedQuiet ==
    ASSUME Counted, UNCHANGED <<peer, backlog, dialled, toHost, frame>> PROVE Counted'
BY DEF Counted

(* An event names a peer that was served. *)
LEMMA CountedTold ==
    ASSUME Inv, HostInv, Counted, UNCHANGED <<peer, backlog, dialled, frame>>,
           NEW n \in 0..peer, NEW k, toHost' = Append(toHost, [kind |-> k, peer |-> n])
    PROVE  Counted'
<1>1. toHost \in Seq(Events) /\ peer \in Nat
  BY DEF HostInv, HostShaped, Counted
<1>2. ASSUME NEW i \in 1..Len(toHost') PROVE toHost'[i].peer <= peer
  <2>1. Len(toHost') = Len(toHost) + 1 /\ Len(toHost) \in Nat
    BY <1>1
  <2>2. CASE i \in 1..Len(toHost)
    BY <1>1, <2>1, <2>2 DEF Counted
  <2>3. CASE i = Len(toHost) + 1
    BY <1>1, <2>1, <2>3
  <2> QED
    BY <2>1, <2>2, <2>3
<1> QED
  BY <1>2 DEF Counted

LEMMA CountedNext == ASSUME Inv, HostInv, Typed, Next PROVE Counted'
<1> USE DEF Typed
<1>1. peer \in Nat /\ Counted
  BY DEF Counted
<1>2. CASE OpenOutbox \/ TakeFrame \/ Woken \/ ExchangeEnds \/ ShutDown \/ PeerLeaves \/ Close
  BY <1>2, CountedQuiet DEF OpenOutbox, TakeFrame, Woken, ExchangeEnds, ShutDown, Ended, PeerLeaves, Close,
     dialVars, hostVars, linkVars
<1>3. CASE EmitConnected \/ Receive \/ Leave \/ AcceptFails
  <2>1. /\ UNCHANGED <<peer, backlog, dialled, frame>>
        /\ toHost' \in {Append(toHost, Connected(peer)), Append(toHost, Message(peer)),
                        Append(toHost, Disconnected(peer)), Append(toHost, Failed)}
    BY <1>3 DEF EmitConnected, Receive, Leave, EmitDisconnected, AcceptFails, Ended, dialVars, hostVars, linkVars
  <2>2. PICK n \in 0..peer, k \in {"connected", "message", "disconnected", "failed"} :
            toHost' = Append(toHost, [kind |-> k, peer |-> n])
    <3>1. peer \in 0..peer /\ 0 \in 0..peer
      BY <1>1
    <3> QED
      BY <2>1, <3>1 DEF Connected, Message, Disconnected, Failed
  <2> QED
    BY <1>1, <2>1, <2>2, CountedTold
<1>4. CASE Accept
  <2>1. /\ backlog > 0 /\ backlog' = backlog - 1 /\ peer' \in {peer, peer + 1}
        /\ UNCHANGED <<dialled, toHost, frame>>
    BY <1>4 DEF Accept, hostVars
  <2>2. \A i \in 1..Len(toHost) : toHost[i].peer \in Nat
    BY HostTypes
  <2>3. \A f \in Frames : frame[f].to \in Nat /\ frame[f].by \in Nat
    BY DEF Inv, Shaped
  <2>4. peer' \in Nat /\ backlog' \in Nat /\ peer' + backlog' <= dialled /\ peer <= peer'
    <3>1. peer \in Nat /\ backlog \in Nat /\ dialled \in Nat /\ peer + backlog <= dialled
      BY DEF Counted
    <3>2. backlog' \in Nat /\ peer' \in Nat /\ peer <= peer'
      BY <2>1, <3>1
    <3>3. \A p, b, d \in Nat : p + b <= d /\ b > 0 => p + 1 + (b - 1) <= d /\ p + (b - 1) <= d
      OBVIOUS
    <3>4. peer' + backlog' <= dialled
      BY <2>1, <3>1, <3>3
    <3> QED
      BY <3>2, <3>4
  <2>5. \A i \in 1..Len(toHost') : toHost'[i].peer <= peer'
    BY <1>1, <2>1, <2>2, <2>4 DEF Counted
  <2>6. \A f \in Frames : frame'[f].to <= peer' /\ frame'[f].by <= peer'
    BY <1>1, <2>1, <2>3, <2>4 DEF Counted
  <2> QED
    BY <1>1, <2>1, <2>4, <2>5, <2>6 DEF Counted
<1>5. CASE Dial
  BY <1>1, <1>5, LinkSizes DEF Dial, Counted, linkVars, hostVars
<1>6. CASE WriteFrame
  <2>1. /\ frame' = [frame EXCEPT ![inHand].fate = "received", ![inHand].by = peer]
        /\ UNCHANGED <<peer, backlog, dialled, toHost>>
    BY <1>6 DEF WriteFrame, dialVars
  <2>2. \A f \in Frames : frame'[f].to <= peer /\ frame'[f].by <= peer
    BY <1>1, <2>1 DEF Counted, Inv, Shaped
  <2> QED
    BY <1>1, <2>1, <2>2 DEF Counted
<1>7. ASSUME NEW size \in Sizes, Send(size) PROVE Counted'
  <2>1. PICK fate \in {"notConnected", "full", "queued"} :
            frame' = [frame EXCEPT ![sent + 1] = [size |-> size, to |-> peer, fate |-> fate, by |-> 0]]
    BY <1>7 DEF Send
  <2>2. UNCHANGED <<peer, backlog, dialled, toHost>>
    BY <1>7 DEF Send, dialVars
  <2>3. \A f \in Frames : frame'[f].to <= peer /\ frame'[f].by <= peer
    BY <1>1, <2>1 DEF Counted, Inv, Shaped
  <2> QED
    BY <1>1, <2>2, <2>3 DEF Counted
<1>8. CASE HandleEvent
  <2>1. /\ toHost \in Seq(Events) /\ toHost # <<>> /\ toHost' = Tail(toHost)
        /\ UNCHANGED <<peer, backlog, dialled, frame>>
    BY <1>8 DEF HandleEvent, HostInv, HostShaped, linkVars, dialVars
  <2>2. /\ Len(toHost') = Len(toHost) - 1 /\ Len(toHost) \in Nat \ {0}
        /\ \A i \in 1..Len(toHost') : toHost'[i] = toHost[i + 1]
    BY <2>1
  <2>3. \A i \in 1..Len(toHost') : toHost'[i].peer <= peer
    BY <2>2 DEF Counted
  <2> QED
    BY <2>1, <2>3 DEF Counted
<1> QED
  BY <1>2, <1>3, <1>4, <1>5, <1>6, <1>7, <1>8 DEF Next, Server, Exchange

(* Opening and closing the outbox leave a Boolean flag. *)
LEMMA QueueOpen == ASSUME Inv, Plain, Next PROVE queue'.open \in BOOLEAN
<1>1. queue = [frames |-> queue.frames, bytes |-> queue.bytes, open |-> queue.open] /\ queue.open \in BOOLEAN
  BY DEF Inv, Shaped, Plain
<1>2. \/ queue' = queue
      \/ \E open \in BOOLEAN : Reset(open)
      \/ \E f \in Frames : queue' = Popped(f)
      \/ \E f \in Frames, size \in Sizes : queue' = Pushed(f, size)
  <2>1. CASE TakeFrame
    <3>1. queue.frames # <<>> => Head(queue.frames) \in Frames
      BY DEF Inv, Shaped
    <3> QED
      BY <2>1, <3>1 DEF TakeFrame
  <2>2. ASSUME NEW size \in Sizes, Send(size) PROVE queue' = queue \/ \E f \in Frames : queue' = Pushed(f, size)
    <3>1. sent + 1 \in Frames
      BY <2>2, LinkSizes DEF Send, Plain
    <3> QED
      BY <2>2, <3>1 DEF Send
  <2> QED
    BY <2>1, <2>2 DEF Next, Server, Exchange, Accept, OpenOutbox, EmitConnected, Receive, Woken, WriteFrame,
       ExchangeEnds, Leave, AcceptFails, ShutDown, Ended, Dial, PeerLeaves, HandleEvent, Close, linkVars
<1>3. ASSUME NEW open \in BOOLEAN, Reset(open) PROVE queue'.open \in BOOLEAN
  BY <1>3 DEF Reset, EmptyOutbox
<1>4. ASSUME NEW f \in Frames, queue' = Popped(f) PROVE queue'.open \in BOOLEAN
  BY <1>1, <1>4 DEF Popped
<1>5. ASSUME NEW f \in Frames, NEW size \in Sizes, queue' = Pushed(f, size) PROVE queue'.open \in BOOLEAN
  BY <1>1, <1>5 DEF Pushed
<1> QED
  BY <1>1, <1>2, <1>3, <1>4, <1>5

LEMMA PlainNext == ASSUME Inv, HostInv, Plain, Next PROVE Plain'
<1>1. queue'.open \in BOOLEAN
  BY QueueOpen
<1>2. server' \in {"accepting", "opening", "announcing", "exchanging", "leaving", "ended"}
  BY OrderOfSteps DEF Plain, Next, Server, Exchange, Accept, OpenOutbox, EmitConnected, Reach, Receive,
     TakeFrame, Woken, WriteFrame, ExchangeEnds, Leave, AcceptFails, ShutDown, Ended, Dial, PeerLeaves,
     HandleEvent, Close, Send, linkVars
<1>3. peerUp' \in BOOLEAN /\ permit' \in BOOLEAN /\ shutdown' \in BOOLEAN
  BY DEF Plain, Next, Server, Exchange, Accept, OpenOutbox, EmitConnected, Receive, TakeFrame, Woken,
     WriteFrame, ExchangeEnds, Leave, AcceptFails, ShutDown, Ended, Dial, PeerLeaves, HandleEvent, Close, Send,
     linkVars, hostVars
<1>4. writer' \in {"off", "popping", "waiting", "writing"}
  BY DEF Plain, Next, Server, Exchange, Accept, OpenOutbox, EmitConnected, Reach, Receive, TakeFrame, Woken,
     WriteFrame, AfterWrite, ExchangeEnds, Leave, AcceptFails, ShutDown, Ended, Dial, PeerLeaves, HandleEvent,
     Close, Send, linkVars
<1>5. inHand' \in 0..MaxFrame
  <2>1. queue.frames # <<>> => Head(queue.frames) \in 1..MaxFrame
    BY LinkSizes DEF Inv, Shaped
  <2>2. 0 \in 0..MaxFrame /\ 1..MaxFrame \subseteq 0..MaxFrame
    BY LinkSizes
  <2>3. inHand' \in {inHand, 0} \/ (queue.frames # <<>> /\ inHand' = Head(queue.frames))
    BY DEF Next, Server, Exchange, Accept, OpenOutbox, EmitConnected, Reach, Receive, TakeFrame, Woken,
       WriteFrame, ExchangeEnds, Leave, AcceptFails, ShutDown, Ended, Dial, PeerLeaves, HandleEvent, Close, Send,
       linkVars
  <2> QED
    BY <2>1, <2>2, <2>3 DEF Plain
<1>6. sent' \in 0..MaxFrame
  <2>1. sent' = sent \/ (sent < MaxFrame /\ sent' = sent + 1)
    BY DEF Next, Server, Exchange, Accept, OpenOutbox, EmitConnected, Receive, TakeFrame, Woken,
       WriteFrame, ExchangeEnds, Leave, AcceptFails, ShutDown, Ended, Dial, PeerLeaves, HandleEvent, Close, Send,
       hostVars
  <2> QED
    BY <2>1, LinkSizes DEF Plain
<1>7. host'.state \in {"ready", "connected", "failed", "closed"}
  <2>1. host = [state |-> host.state, gen |-> host.gen] /\ toHost \in Seq(Events)
    BY DEF HostInv, HostShaped
  <2>2. CASE HandleEvent
    <3>1. host' = Handled(Head(toHost)) /\ Head(toHost) \in Events
      BY <2>1, <2>2 DEF HandleEvent
    <3>2. Head(toHost).kind \in {"connected", "message", "disconnected", "failed"}
      BY <3>1 DEF Events
    <3> QED
      BY <2>1, <3>1, <3>2 DEF Handled, Plain
  <2>3. CASE Close
    BY <2>1, <2>3 DEF Close
  <2>4. CASE ~HandleEvent /\ ~Close
    <3>1. UNCHANGED host
      BY <2>4 DEF Next, Server, Exchange, Accept, OpenOutbox, EmitConnected, Receive, TakeFrame, Woken,
         WriteFrame, ExchangeEnds, Leave, AcceptFails, ShutDown, Ended, Dial, PeerLeaves, Send, hostVars
    <3> QED
      BY <3>1 DEF Plain
  <2> QED
    BY <2>2, <2>3, <2>4
<1> QED
  BY <1>1, <1>2, <1>3, <1>4, <1>5, <1>6, <1>7 DEF Plain

LEMMA TypedNext == Inv /\ HostInv /\ Typed /\ [Next]_vars => Typed'
<1> SUFFICES ASSUME Inv, HostInv, Typed, [Next]_vars PROVE Typed'
  OBVIOUS
<1>1. CASE UNCHANGED vars
  BY <1>1 DEF vars, Typed, Plain, Counted
<1> QED
  BY <1>1, CountedNext, PlainNext DEF Typed

(* The link keeps its types: the host counts no more connections than peers *)
(* dialled, and no event or frame names a peer that was never served        *)
(* (accept_peers of server.rs, _handleEvent of IpcCoreTransport).           *)
THEOREM TypeCorrect == Spec => []TypeOK
<1>1. Init => Inv /\ OrderInv /\ BytesInv /\ HostInv /\ Typed
  BY InvInit, OrderInit, HostInit, TypedInit DEF Init, EmptyOutbox, BytesInv
<1>2. Inv /\ OrderInv /\ BytesInv /\ HostInv /\ Typed /\ [Next]_vars
          => Inv' /\ OrderInv' /\ BytesInv' /\ HostInv' /\ Typed'
  BY InvNext, OrderNext, BytesNext, HostNext, TypedNext DEF OrderInv
<1>3. Inv /\ BytesInv /\ HostInv /\ Typed => TypeOK
  BY TypesFollow
<1> QED
  BY <1>1, <1>2, <1>3, PTL DEF Spec

=============================================================================
