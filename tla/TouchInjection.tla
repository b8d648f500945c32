--------------------------- MODULE TouchInjection ---------------------------
(***************************************************************************)
(* The touch path from the PC to the panel: the Controller's touch and     *)
(* resize calls, the RawInputDaemonSession that turns them into packets,   *)
(* the TCP connections over USB, and the daemon (EXTENDed, its actions     *)
(* driven by what arrives).  The Controller and the session run on the UI  *)
(* thread, one call at a time; a call may block in start() or in a send,   *)
(* while the daemon and the network go on.                                 *)
(***************************************************************************)
EXTENDS RawInputDaemon, Sequences

CONSTANTS WireCap,      \* packets the socket buffers of a connection hold
          MaxSessions,  \* bound: connections opened in a behaviour
          MouseSlot     \* kMouseTouchSlot, used by plain mouse and by scroll

ASSUME InjectionAssumption == /\ WireCap \in Nat \ {0}
                              /\ MaxSessions \in Nat \ {0}
                              /\ MouseSlot \in Slots

Conns == 1..MaxSessions
NoSock == 0

VARIABLES
  step,         \* where the UI thread is: "idle", "push", "connect", "send"
  call,         \* the Controller call being executed
  outbox,       \* packets the call has still to hand to the socket
  attempted,    \* m_rawInputDaemonAttempted
  available,    \* m_rawInputDaemonAvailable
  sock,         \* m_sockfd: the connection, or NoSock
  lastFrame,    \* m_lastSentFrameSize
  pendingResize, resizeQueued,   \* the Controller's coalesced resize
  wire,         \* per connection: packets sent and not yet read, "FIN" last
  conn,         \* per connection: "none", "queued", "served" or "closed"
  opened,       \* connections opened so far
  starting,     \* a launched daemon process has not reached bind() yet
  held,         \* history: slots whose last packet of this session was a DOWN
  lost          \* history: what of this session never reached the wire

pcVars  == <<step, call, outbox, attempted, available, sock, lastFrame,
             pendingResize, resizeQueued, held, lost>>
netVars == <<wire, conn, opened, starting>>
vars    == <<daemonVars, pcVars, netVars>>

Call(op, s, f, x, y) == [op |-> op, slot |-> s, f |-> f, x |-> x, y |-> y]
TouchCalls == {Call(op, s, f, x, y) : op \in {"DOWN", "MOVE", "UP"},
                 s \in Slots, f \in Frames, x \in Coords, y \in Coords}
ScrollCalls == {Call("SCROLL", MouseSlot, f, x, y) :
                  f \in Frames, x \in Coords, y \in Coords}
NoCall == Call("none", 0, NoFrame, 0, 0)

\* A packet carries what the eight bytes do; f is the frame size a FRAME
\* announces and, in a touch packet, the one its coordinates refer to.
Packet(cmd, s, f, x, y) == [cmd |-> cmd, slot |-> s, f |-> f, x |-> x, y |-> y]
Fin  == Packet("FIN", 0, NoFrame, 0, 0)
Quit == Packet("QUIT", 0, NoFrame, 0, 0)

InjectionInit ==
  /\ DaemonInit
  /\ step = "idle" /\ call = NoCall /\ outbox = <<>>
  /\ attempted = FALSE /\ available = FALSE
  /\ sock = NoSock /\ lastFrame = NoFrame
  /\ pendingResize = NoFrame /\ resizeQueued = FALSE
  /\ wire = [c \in Conns |-> <<>>] /\ conn = [c \in Conns |-> "none"]
  /\ opened = 0 /\ starting = FALSE
  /\ held = {} /\ lost = {}

-----------------------------------------------------------------------------
(* The packets of a call.                                                  *)

\* Mutant: one announcement per session, as in the plan's first draft.
FrameOnceOnly(f) == IF lastFrame = NoFrame THEN <<Packet("FRAME", 0, f, 0, 0)>>
                    ELSE <<>>

\* A window that has not shown a picture yet has no size.
EmptySize(f) == f.w <= 0 \/ f.h <= 0

\* ensureFrameSize(): announce the size once, and remember it as sent.
FramePackets(f) ==
  IF f = lastFrame \/ EmptySize(f) THEN <<>>
  ELSE <<Packet("FRAME", 0, f, 0, 0)>>

Remembered(f) == IF FramePackets(f) = <<>> THEN lastFrame ELSE f

\* Mutant: the wheel's drag is not lifted.
PacketsScrollHolds(c) ==
  (IF c.op = "UP" THEN <<>> ELSE FramePackets(c.f))
    \o <<Packet(IF c.op = "SCROLL" THEN "DOWN" ELSE c.op, c.slot, c.f, c.x, c.y)>>

\* Mutant: an UP is sent as a MOVE.
PacketsNoUp(c) ==
  <<Packet(IF c.op = "DOWN" THEN "DOWN" ELSE "MOVE", c.slot, c.f, c.x, c.y)>>

\* sendRealTouch() and sendRealScroll(), the wheel's four steps as one.
Packets(c) ==
  LET p(cmd) == <<Packet(cmd, c.slot, c.f, c.x, c.y)>>
      up     == <<Packet("UP", c.slot, NoFrame, 0, 0)>>
  IN CASE c.op = "UP"     -> up
       [] c.op = "SCROLL" -> FramePackets(c.f) \o p("DOWN") \o p("MOVE") \o up
       [] OTHER           -> FramePackets(c.f) \o p(c.op)

-----------------------------------------------------------------------------
(* The UI thread.                                                          *)

\* What a call does once start() is behind it: packets to send, or, with no
\* session, a dropped event.  A wheel turn in an empty frame is no event; a touch
\* in one is sent, and the daemon told nothing of its frame.
Dispatch(c) ==
  /\ call' = NoCall
  /\ IF available /\ sock # NoSock /\ ~(c.op = "SCROLL" /\ EmptySize(c.f))
     THEN /\ outbox' = Packets(c)
          /\ lastFrame' = IF c.op = "UP" THEN lastFrame ELSE Remembered(c.f)
          /\ held' = CASE c.op = "DOWN" -> held \cup {c.slot}
                       [] c.op \in {"UP", "SCROLL"} -> held \ {c.slot}
                       [] OTHER -> held
          /\ step' = "send"
     ELSE /\ step' = "idle"
          /\ UNCHANGED <<outbox, lastFrame, held>>
  /\ UNCHANGED <<available, sock, pendingResize, resizeQueued, lost>>

\* A touch, drag or wheel event reaches the Controller; the first one of a
\* connection tries to start the daemon, behind the tried-once latch.
TouchEvent(c) ==
  /\ step = "idle"
  /\ attempted' = TRUE
  /\ IF attempted THEN Dispatch(c)
     ELSE /\ call' = c /\ step' = "push"
          /\ UNCHANGED <<outbox, available, sock, lastFrame, pendingResize, resizeQueued, held, lost>>
  /\ UNCHANGED <<daemonVars, netVars>>

DispatchAfterStart == /\ step = "dispatch"
                      /\ Dispatch(call)
                      /\ UNCHANGED attempted
                      /\ UNCHANGED <<daemonVars, netVars>>

\* pushDaemon, launchDaemon, resolveRndisAddress or the connect fails or times
\* out: touch is dropped for the rest of the connection.
StartFails ==
  /\ step \in {"push", "connect"}
  /\ step' = "dispatch"
  /\ UNCHANGED <<call, outbox, attempted, available, sock, lastFrame,
                 pendingResize, resizeQueued, held, lost>>
  /\ UNCHANGED <<daemonVars, netVars>>

\* launchDaemon() returns once the first parent has exited.
LaunchDaemon ==
  /\ step = "push"
  /\ step' = "connect"
  /\ starting' = TRUE
  /\ UNCHANGED <<call, outbox, attempted, available, sock, lastFrame,
                 pendingResize, resizeQueued, held, lost>>
  /\ UNCHANGED <<daemonVars, wire, conn, opened>>

\* After the settle delay: whichever process listens on the port accepts.
Connect ==
  /\ step = "connect" /\ running /\ opened < MaxSessions
  /\ opened' = opened + 1
  /\ conn' = [conn EXCEPT ![opened'] = "queued"]
  /\ sock' = opened'
  /\ lastFrame' = NoFrame
  /\ available' = TRUE
  /\ step' = "dispatch"
  /\ held' = {} /\ lost' = {}
  /\ UNCHANGED <<call, outbox, attempted, pendingResize, resizeQueued>>
  /\ UNCHANGED <<daemonVars, wire, starting>>

Room(c) == Len(wire[c]) < WireCap

AfterPacket == /\ outbox' = Tail(outbox)
               /\ step' = IF Tail(outbox) = <<>> THEN "idle" ELSE "send"

SendNext ==
  /\ step = "send" /\ outbox # <<>>
  /\ conn[sock] # "closed" /\ Room(sock)
  /\ wire' = [wire EXCEPT ![sock] = Append(@, Head(outbox))]
  /\ AfterPacket
  /\ UNCHANGED <<call, attempted, available, sock, lastFrame, pendingResize, resizeQueued, held, lost>>
  /\ UNCHANGED <<daemonVars, conn, opened, starting>>

\* The buffer is full (a MOVE is dropped at once, anything else after the
\* retries of sendPacketReliable), or the peer is gone: the packet is lost and
\* the session goes on as if it had been sent.
SendDrops ==
  /\ step = "send" /\ outbox # <<>>
  /\ conn[sock] = "closed" \/ ~Room(sock)
  /\ lost' = CASE Head(outbox).cmd = "FRAME" -> lost \cup {"FRAME"}
               [] Head(outbox).cmd \in {"DOWN", "UP"} -> lost \cup {"TOUCH"}
               [] OTHER -> lost
  /\ AfterPacket
  /\ UNCHANGED <<call, attempted, available, sock, lastFrame, pendingResize, resizeQueued, held>>
  /\ UNCHANGED <<daemonVars, netVars>>

\* An empty outbox: an ensureFrameSize() that had nothing new to say.
SendNothing ==
  /\ step = "send" /\ outbox = <<>>
  /\ step' = "idle"
  /\ UNCHANGED <<call, outbox, attempted, available, sock, lastFrame,
                 pendingResize, resizeQueued, held, lost>>
  /\ UNCHANGED <<daemonVars, netVars>>

\* resizeDisplay(): only the call that queues the timer tells the daemon.
ResizeDisplay(f) ==
  /\ step = "idle" /\ ~EmptySize(f)
  /\ pendingResize' = f
  /\ resizeQueued' = TRUE
  /\ IF ~resizeQueued /\ available /\ sock # NoSock
     THEN /\ outbox' = FramePackets(f)
          /\ lastFrame' = Remembered(f)
          /\ step' = "send"
     ELSE UNCHANGED <<outbox, lastFrame, step>>
  /\ UNCHANGED <<call, attempted, available, sock, held, lost>>
  /\ UNCHANGED <<daemonVars, netVars>>

SendPendingResize ==
  /\ step = "idle" /\ resizeQueued
  /\ resizeQueued' = FALSE
  /\ pendingResize' = NoFrame
  /\ UNCHANGED <<step, call, outbox, attempted, available, sock, lastFrame,
                 held, lost>>
  /\ UNCHANGED <<daemonVars, netVars>>

\* Mutant: stop() forgets the socket without closing it.
GoneWithoutClose(tail) ==
  /\ step' = "idle" /\ call' = NoCall /\ outbox' = <<>>
  /\ attempted' = FALSE /\ available' = FALSE
  /\ sock' = NoSock /\ lastFrame' = NoFrame
  /\ pendingResize' = NoFrame /\ resizeQueued' = FALSE
  /\ held' = {} /\ lost' = {}
  /\ UNCHANGED <<daemonVars, netVars>>

\* The device object goes away and its Controller with it.
ControllerGone(tail) ==
  /\ step' = "idle" /\ call' = NoCall /\ outbox' = <<>>
  /\ attempted' = FALSE /\ available' = FALSE
  /\ sock' = NoSock /\ lastFrame' = NoFrame
  /\ pendingResize' = NoFrame /\ resizeQueued' = FALSE
  /\ held' = {} /\ lost' = {}
  /\ wire' = IF sock = NoSock \/ conn[sock] = "closed" THEN wire
             ELSE [wire EXCEPT ![sock] = @ \o tail]
  /\ UNCHANGED <<daemonVars, conn, opened, starting>>

\* ~RawInputDaemonSession: stop() sends QUIT if the buffer takes it, and closes.
Stop ==
  /\ step = "idle" /\ attempted
  /\ ControllerGone(IF sock # NoSock /\ Room(sock) THEN <<Quit, Fin>> ELSE <<Fin>>)

\* The PC program dies at any point: its kernel closes the connection.
PCCrash == attempted /\ ControllerGone(<<Fin>>)

-----------------------------------------------------------------------------
(* The device.                                                             *)

\* A launched process reaches bind(): it serves, or finds the port taken.
Bind ==
  /\ starting
  /\ starting' = FALSE
  /\ IF running THEN UNCHANGED daemonVars ELSE Launch
  /\ UNCHANGED <<pcVars, wire, conn, opened>>

\* It cannot open the touch node, and exits.
BindFails ==
  /\ starting
  /\ starting' = FALSE
  /\ UNCHANGED <<daemonVars, pcVars, wire, conn, opened>>

AcceptNext ==
  /\ Accept
  /\ \E c \in Conns :
       /\ conn[c] = "queued" /\ \A d \in Conns : d < c => conn[d] # "queued"
       /\ conn' = [conn EXCEPT ![c] = "served"]
  /\ UNCHANGED <<pcVars, wire, opened, starting>>

\* Ending the process resets the connections the kernel had queued for it.
Ended(c, p) == [d \in Conns |-> IF d = c \/ (p = Quit /\ conn[d] = "queued")
                                THEN "closed" ELSE conn[d]]

HandlePacket(p) ==
  CASE p.cmd = "DOWN"  -> HandleDown(p.slot, p.slot + 1, p.x, p.y)
    [] p.cmd = "MOVE"  -> HandleMove(p.slot, p.x, p.y)
    [] p.cmd = "UP"    -> HandleUp(p.slot)
    [] p.cmd = "FRAME" -> HandleFrame(p.f)
    [] p.cmd = "QUIT"  -> HandleQuit
    [] p.cmd = "FIN"   -> ClientGone

ReadPacket ==
  \E c \in Conns :
    /\ conn[c] = "served" /\ wire[c] # <<>>
    /\ HandlePacket(Head(wire[c]))
    /\ LET over == Head(wire[c]) \in {Quit, Fin}
       IN /\ wire' = [wire EXCEPT ![c] = IF over THEN <<>> ELSE Tail(@)]
          /\ conn' = IF over THEN Ended(c, Head(wire[c])) ELSE conn
    /\ UNCHANGED <<pcVars, opened, starting>>

PollRotation == /\ \E r \in Polled : RotationPoll(r)
                /\ UNCHANGED <<pcVars, netVars>>

-----------------------------------------------------------------------------
UIThread == StartFails \/ LaunchDaemon \/ Connect \/ DispatchAfterStart
            \/ SendNext \/ SendDrops \/ SendNothing

InjectionNext ==
  \/ \E c \in TouchCalls \cup ScrollCalls : TouchEvent(c)
  \/ \E f \in Frames : ResizeDisplay(f)
  \/ SendPendingResize
  \/ UIThread
  \/ Stop
  \/ PCCrash
  \/ Bind \/ BindFails
  \/ AcceptNext \/ ReadPacket
  \/ PollRotation

InjectionSpec == InjectionInit /\ [][InjectionNext]_vars

\* The UI thread finishes what it has begun (every wait in it has a timeout),
\* and the daemon's loop reads what its kernel holds.
FairInjectionSpec == InjectionSpec /\ WF_vars(UIThread)
                     /\ WF_vars(AcceptNext) /\ WF_vars(ReadPacket)

-----------------------------------------------------------------------------
\* The daemon maps a touch with the frame size its coordinates refer to:
\* announced at most once, before the touches that need it, by a session that
\* remembers what it announced, to a daemon that keeps its size between
\* clients.  Only a lost FRAME breaks this; an empty size is never announced.
TouchMappedInItsFrame ==
  \A c \in Conns :
    (conn[c] = "served" /\ wire[c] # <<>> /\ Head(wire[c]).cmd \in {"DOWN", "MOVE"}
     /\ ~EmptySize(Head(wire[c]).f)
     /\ c = sock /\ "FRAME" \notin lost) => frame = Head(wire[c]).f

\* Once the daemon has read everything a session sent, and no DOWN or UP was
\* dropped, the contacts on the panel are exactly those the PC holds.
Caught(c) == conn[c] = "served" /\ wire[c] = <<>> /\ outbox = <<>>

PanelFollowsCalls ==
  \A c \in Conns :
    (c = sock /\ Caught(c) /\ "TOUCH" \notin lost) =>
      {s \in Slots : Down(s)} = held

\* controller.h:171 "true only if the daemon is up and usable for touch".
AvailableIsUsable == available => sock # NoSock /\ conn[sock] # "closed"

\* A contact the PC has let go is lifted, unless the UP was dropped.
LiftReaches ==
  \A s \in Slots : (s \notin held) ~> (~Down(s) \/ s \in held \/ "TOUCH" \in lost)

\* Whatever was down when a session ended, by stop() or by a crash, is lifted:
\* its end is noticed even when the QUIT did not fit in the buffer.
SessionEndLifts == (sock = NoSock) ~> (sock # NoSock \/ \A s \in Slots : ~Down(s))
=============================================================================
