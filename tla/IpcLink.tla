------------------------------- MODULE IpcLink -------------------------------
(***************************************************************************)
(* The desktop IPC link: the server thread of                              *)
(* plugins/rust_api/rust/src/ipc/server.rs with its outbox.rs, and the     *)
(* host's IpcCoreTransport (lib/core/desktop/transport.dart) behind the    *)
(* stream that carries the server's events to the Dart isolate.  The host  *)
(* learns of connections late: it may send to a peer that has gone, while  *)
(* the server already serves the next one.                                 *)
(***************************************************************************)
EXTENDS Integers, Sequences, FiniteSets

CONSTANTS
    MaxPeer,        \* bound on the peers that dial
    MaxFrame,       \* bound on the frames the host sends
    MaxStream,      \* bound on the events on their way when a message arrives
    Budget          \* MAX_PENDING_BYTES, in units of the smallest frame

ASSUME LinkAssumption ==
    /\ MaxPeer \in Nat
    /\ MaxFrame \in Nat
    /\ MaxStream \in Nat
    /\ Budget \in Nat \ {0}

Frames == 1..MaxFrame
Sizes == {1, Budget + 1}

Connected(p) == [kind |-> "connected", peer |-> p]
Message(p) == [kind |-> "message", peer |-> p]
Disconnected(p) == [kind |-> "disconnected", peer |-> p]
Failed == [kind |-> "failed", peer |-> 0]

VARIABLES
    server,     \* what the server thread is doing
    peer,       \* the peers it served so far; the last one is the current
    peerUp,     \* the current peer keeps its end of the connection
    backlog,    \* peers waiting to be accepted
    dialled,    \* peers that dialled so far
    queue,      \* Outbox: frames, bytes and the open flag
    permit,     \* the permit stored in Notify
    writer,     \* transmit: popping, waiting for the permit, or writing
    inHand,     \* the frame transmit popped, 0 when it has none
    toHost,     \* events on their way to the isolate
    host,       \* IpcCoreTransport: its state and connection generation
    shutdown,   \* close was called
    frame,      \* each frame: its size, the peer served when it was sent, its fate
    sent        \* number of frames the host sent

linkVars == <<server, peer, peerUp, queue, permit, writer, inHand>>
dialVars == <<backlog, dialled>>
hostVars == <<host, shutdown, frame, sent>>
vars == <<server, peer, peerUp, backlog, dialled, queue, permit, writer, inHand,
          toHost, host, shutdown, frame, sent>>

EmptyOutbox == [frames |-> <<>>, bytes |-> 0, open |-> FALSE]

-----------------------------------------------------------------------------
TypeOK ==
    /\ server \in {"accepting", "opening", "announcing", "exchanging", "leaving",
                   "ended"}
    /\ peer \in 0..MaxPeer /\ peerUp \in BOOLEAN
    /\ backlog \in 0..MaxPeer /\ dialled \in 0..MaxPeer
    /\ queue.frames \in Seq(Frames) /\ queue.bytes \in Nat /\ queue.open \in BOOLEAN
    /\ permit \in BOOLEAN
    /\ writer \in {"off", "popping", "waiting", "writing"}
    /\ inHand \in 0..MaxFrame
    /\ \A i \in DOMAIN toHost :
         toHost[i] \in [kind : {"connected", "message", "disconnected", "failed"},
                        peer : 0..MaxPeer]
    /\ host \in [state : {"ready", "connected", "failed", "closed"}, gen : 0..MaxPeer]
    /\ shutdown \in BOOLEAN
    /\ frame \in [Frames -> [size : Sizes, to : 0..MaxPeer,
                    fate : {"unsent", "queued", "notConnected", "full", "received"},
                    by : 0..MaxPeer]]
    /\ sent \in 0..MaxFrame

Init ==
    /\ server = "accepting"
    /\ peer = 0 /\ peerUp = FALSE
    /\ backlog = 0 /\ dialled = 0
    /\ queue = EmptyOutbox
    /\ permit = FALSE
    /\ writer = "off" /\ inHand = 0
    /\ toHost = <<>>
    /\ host = [state |-> "ready", gen |-> 0]
    /\ shutdown = FALSE
    /\ frame = [f \in Frames |-> [size |-> 1, to |-> 0, fate |-> "unsent", by |-> 0]]
    /\ sent = 0

-----------------------------------------------------------------------------
(* Outbox *)

OfSize(frames, size) == {i \in 1..Len(frames) : frame[frames[i]].size = size}
BytesOf(frames) ==
    Cardinality(OfSize(frames, 1)) + (Budget + 1) * Cardinality(OfSize(frames, Budget + 1))

(* open and close both start from an empty queue. *)
KeepsFrames(open) == queue' = [queue EXCEPT !.open = open]
Reset(open) == queue' = [EmptyOutbox EXCEPT !.open = open]

(* The check of push on the byte budget. *)
OverBudget(size) == queue.bytes > 0 /\ queue.bytes + size > Budget

Pushed(f, size) ==
    [queue EXCEPT !.frames = Append(@, f), !.bytes = @ + size]

PopForgetsBytes(f) == [queue EXCEPT !.frames = Tail(@)]
Popped(f) == [queue EXCEPT !.frames = Tail(@), !.bytes = @ - frame[f].size]

-----------------------------------------------------------------------------
(* The server thread. *)

(* What accept_peers does to an admitted peer, in order. *)
Order == <<"opening", "announcing", "exchanging">>
After(step) == Order[1 + CHOOSE i \in 1..2 : Order[i] = step]

(* accept and access::admit; a rejected peer is dropped. *)
Accept ==
    /\ server = "accepting"
    /\ backlog > 0
    /\ backlog' = backlog - 1
    /\ \/ /\ peer' = peer + 1
          /\ peerUp' = TRUE
          /\ server' = Order[1]
       \/ UNCHANGED <<peer, peerUp, server>>
    /\ UNCHANGED <<dialled, queue, permit, writer, inHand, toHost, hostVars>>

Reach(step) ==
    /\ server' = step
    /\ writer' = IF step = "exchanging" THEN "popping" ELSE writer
    /\ inHand' = 0

OpenOutbox ==
    /\ server = "opening"
    /\ Reset(TRUE)
    /\ Reach(After("opening"))
    /\ UNCHANGED <<peer, peerUp, permit, dialVars, toHost, hostVars>>

EmitConnected ==
    /\ server = "announcing"
    /\ toHost' = Append(toHost, Connected(peer))
    /\ Reach(After("announcing"))
    /\ UNCHANGED <<peer, peerUp, queue, permit, dialVars, hostVars>>

(* receive *)
Receive ==
    /\ server = "exchanging"
    /\ Len(toHost) < MaxStream
    /\ toHost' = Append(toHost, Message(peer))
    /\ UNCHANGED <<linkVars, dialVars, hostVars>>

(* transmit and Outbox::next: the queue is looked at before each wait. *)
TakeFrame ==
    /\ writer = "popping"
    /\ \/ /\ queue.frames # <<>>
          /\ writer' = "writing"
          /\ inHand' = Head(queue.frames)
          /\ queue' = Popped(Head(queue.frames))
       \/ /\ queue.frames = <<>>
          /\ writer' = "waiting"
          /\ UNCHANGED <<queue, inHand>>
    /\ UNCHANGED <<server, peer, peerUp, permit, dialVars, toHost, hostVars>>

Woken ==
    /\ writer = "waiting"
    /\ permit
    /\ permit' = FALSE
    /\ writer' = "popping"
    /\ UNCHANGED <<server, peer, peerUp, queue, inHand, dialVars, toHost, hostVars>>

AfterWrite == "popping"

WriteFrame ==
    /\ writer = "writing"
    /\ peerUp
    /\ frame' = [frame EXCEPT ![inHand].fate = "received", ![inHand].by = peer]
    /\ writer' = AfterWrite
    /\ inHand' = 0
    /\ UNCHANGED <<server, peer, peerUp, queue, permit, dialVars, toHost, host,
                   shutdown, sent>>

(* exchange ends with receive or transmit: the peer left, or broke the      *)
(* framing, and the outbox closes.                                          *)
ExchangeEnds ==
    /\ server = "exchanging"
    /\ server' = "leaving"
    /\ peerUp' = FALSE
    /\ writer' = "off" /\ inHand' = 0
    /\ Reset(FALSE)
    /\ UNCHANGED <<peer, permit, dialVars, toHost, hostVars>>

LeaveQuietly == UNCHANGED toHost
EmitDisconnected == toHost' = Append(toHost, Disconnected(peer))

Leave ==
    /\ server = "leaving"
    /\ EmitDisconnected
    /\ server' = "accepting"
    /\ UNCHANGED <<peer, peerUp, queue, permit, writer, inHand, dialVars, hostVars>>

Ended ==
    /\ server' = "ended"
    /\ peerUp' = FALSE
    /\ writer' = "off" /\ inHand' = 0
    /\ Reset(FALSE)
    /\ UNCHANGED <<peer, permit, dialVars, hostVars>>

AcceptFails ==
    /\ server = "accepting"
    /\ toHost' = Append(toHost, Failed)
    /\ Ended

(* The select on shutdown: every await of the thread ends. *)
ShutDown ==
    /\ server # "ended"
    /\ shutdown
    /\ Ended
    /\ UNCHANGED toHost

-----------------------------------------------------------------------------
(* The peers. *)

(* A Core the host launched, or one that an earlier run left behind.        *)
Dial ==
    /\ dialled < MaxPeer
    /\ server # "ended"
    /\ dialled' = dialled + 1
    /\ backlog' = backlog + 1
    /\ UNCHANGED <<linkVars, toHost, hostVars>>

PeerLeaves ==
    /\ peerUp
    /\ peerUp' = FALSE
    /\ UNCHANGED <<server, peer, queue, permit, writer, inHand, dialVars, toHost,
                   hostVars>>

-----------------------------------------------------------------------------
(* The host. *)

(* _handleEvent: a terminal transport ignores what still arrives. *)
Handled(event) ==
    IF host.state \in {"failed", "closed"} THEN host
    ELSE CASE event.kind = "connected" -> [state |-> "connected", gen |-> host.gen + 1]
           [] event.kind = "message" -> host
           [] event.kind = "disconnected" -> [host EXCEPT !.state = "ready"]
           [] event.kind = "failed" -> [host EXCEPT !.state = "failed"]

HandleEvent ==
    /\ toHost # <<>>
    /\ host' = Handled(Head(toHost))
    /\ toHost' = Tail(toHost)
    /\ UNCHANGED <<linkVars, dialVars, shutdown, frame, sent>>

(* send and Outbox::push, once waitUntilConnected has returned. *)
Send(size) ==
    /\ host.state = "connected"
    /\ sent < MaxFrame
    /\ sent' = sent + 1
    /\ LET fate == IF ~queue.open THEN "notConnected"
                   ELSE IF OverBudget(size) THEN "full"
                   ELSE "queued" IN
         /\ frame' = [frame EXCEPT ![sent + 1] =
                        [size |-> size, to |-> peer, fate |-> fate, by |-> 0]]
         /\ IF fate = "queued"
              THEN /\ queue' = Pushed(sent + 1, size)
                   /\ permit' = TRUE
              ELSE UNCHANGED <<queue, permit>>
    /\ UNCHANGED <<server, peer, peerUp, writer, inHand, dialVars, toHost, host,
                   shutdown>>

(* _close up to the join of the server thread. *)
Close ==
    /\ host.state # "closed"
    /\ host' = [host EXCEPT !.state = "closed"]
    /\ shutdown' = TRUE
    /\ UNCHANGED <<linkVars, dialVars, toHost, frame, sent>>

-----------------------------------------------------------------------------
Exchange == TakeFrame \/ Woken \/ WriteFrame

Server ==
    \/ Accept \/ OpenOutbox \/ EmitConnected \/ Receive \/ Exchange
    \/ ExchangeEnds \/ Leave \/ AcceptFails \/ ShutDown

Next ==
    \/ Server
    \/ Dial \/ PeerLeaves
    \/ HandleEvent \/ Close
    \/ \E size \in Sizes : Send(size)

(* The server thread is never blocked but in its awaits: it ends the        *)
(* exchange once the peer is gone, a Core reads all it is sent (serve of    *)
(* core/server.go), and the isolate handles what arrives.                   *)
Fairness ==
    /\ WF_vars(Accept) /\ WF_vars(OpenOutbox \/ EmitConnected) /\ WF_vars(Exchange)
    /\ WF_vars(ExchangeEnds /\ ~peerUp) /\ WF_vars(Leave)
    /\ WF_vars(ShutDown)
    /\ WF_vars(HandleEvent)

Spec == Init /\ [][Next]_vars /\ Fairness

-----------------------------------------------------------------------------
(* Properties. *)

(* A frame reaches only the peer it was queued for: what a peer that left   *)
(* never read is not handed to the next one.                                *)
FrameReachesItsPeer ==
    \A f \in Frames : frame[f].fate = "received" => frame[f].by = frame[f].to

(* Frames of one connection arrive in the order they were sent, none left   *)
(* out: a later one never overtakes an earlier one that was accepted.       *)
InOrder ==
    \A f, g \in Frames :
        f < g /\ frame[f].to = frame[g].to /\ frame[g].fate = "received"
            => frame[f].fate # "queued"

(* The bytes counted are those queued, through drops and reconnects, and    *)
(* exceed the budget only for a frame that is alone.                        *)
BytesAgree ==
    /\ queue.bytes = BytesOf(queue.frames)
    /\ Len(queue.frames) > 1 => queue.bytes <= Budget

(* "The host may send as soon as it sees Connected": the outbox is open     *)
(* while the host is connected to the peer being served.                    *)
OpenWhenSeen ==
    host.state = "connected" /\ host.gen = peer
        /\ server \in {"opening", "announcing", "exchanging"} => queue.open

(* The outbox is sound through drops, reconnects and the turnover of the    *)
(* server thread: accepted frames keep their order, the byte count is that  *)
(* of the frames, and it is open to a host that has seen Connected (push,   *)
(* pop and reset of outbox.rs, accept_peers of server.rs).                  *)
OutboxIsSound == InOrder /\ BytesAgree /\ OpenWhenSeen

(* A frame that was accepted leaves the queue: it is received, or the       *)
(* connection it was accepted on ends.                                      *)
FramesLeave ==
    \A f \in Frames :
        (\E i \in DOMAIN queue.frames : queue.frames[i] = f)
            ~> ~(\E i \in DOMAIN queue.frames : queue.frames[i] = f)

(* The host never stays connected to a peer that has gone. *)
HostLearns == \A p \in 1..MaxPeer :
    peer = p /\ ~peerUp ~> ~(host.state = "connected" /\ host.gen = p)

(* The link moves on: no accepted frame sits in the outbox for good, and no *)
(* peer that has gone is held for connected (transmit and its Notify, the   *)
(* Disconnected that ends exchange).                                        *)
LinkMovesOn == FramesLeave /\ HostLearns

=============================================================================
