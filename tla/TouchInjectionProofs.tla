------------------------ MODULE TouchInjectionProofs ------------------------
(***************************************************************************)
(* What the touch path guarantees for every number of slots and sessions,  *)
(* every buffer and every frame: the daemon is driven as its specification *)
(* allows, so that all it guarantees holds here too; each touch is mapped  *)
(* in its own frame, and the panel catches up with the calls.              *)
(***************************************************************************)
EXTENDS TouchInjection, RawInputDaemonProofs, SequenceTheorems

\* What the session itself hands to its socket.
Sent ==
  {p \in [cmd : {"DOWN", "MOVE", "UP", "FRAME"}, slot : Slots,
          f : Frames \cup {NoFrame}, x : Coords \cup {0}, y : Coords \cup {0}] :
     /\ p.cmd \in {"DOWN", "MOVE"} => p.f \in Frames /\ p.x \in Coords /\ p.y \in Coords
     /\ p.cmd = "FRAME" => p.f \in Frames /\ ~EmptySize(p.f)}

InjectionTypeOK ==
  /\ step \in {"idle", "push", "connect", "dispatch", "send"}
  /\ call \in TouchCalls \cup ScrollCalls \cup {NoCall}
  /\ outbox \in Seq(Sent)
  /\ attempted \in BOOLEAN /\ available \in BOOLEAN
  /\ opened \in 0..MaxSessions /\ sock \in 0..opened
  /\ lastFrame \in Frames \cup {NoFrame}
  /\ pendingResize \in Frames \cup {NoFrame} /\ resizeQueued \in BOOLEAN
  /\ wire \in [Conns -> Seq(Sent \cup {Fin, Quit})]
  /\ conn \in [Conns -> {"none", "queued", "served", "closed"}]
  /\ starting \in BOOLEAN
  /\ held \subseteq Slots
  /\ lost \subseteq {"FRAME", "TOUCH"}

-----------------------------------------------------------------------------
(***************************************************************************)
(* The inductive invariant.                                                *)
(***************************************************************************)

\* A blocked call waits with its arguments, packets wait only to be sent, and
\* only on a connection.
StepFits == /\ step \in {"push", "connect", "dispatch"} => call # NoCall
            /\ step # "send" => outbox = <<>>
            /\ step = "send" => sock # NoSock

\* The kernel's view of the connections: opened in turn, one of them served,
\* none queued for a process that is gone.
NetFits == /\ \A c \in Conns : /\ conn[c] = "none" <=> c > opened
                               /\ conn[c] = "none" => wire[c] = <<>>
                               /\ conn[c] = "queued" => running
           /\ \A c, d \in Conns : conn[c] = "served" /\ conn[d] = "served" => c = d
           /\ client <=> \E c \in Conns : conn[c] = "served"

Live == sock # NoSock /\ conn[sock] # "closed"

\* A live session has sent nothing that ends it.
NoEndYet == Live => wire[sock] \in Seq(Sent)

\* g is the frame size the daemon of a connection in state st knows after n
\* packets of w: the last one announced in them, or the one it has, fr.
LatestIn(w, st, fr, n, g) ==
  \/ \E j \in 1..n : /\ w[j].cmd = "FRAME" /\ w[j].f = g
                     /\ \A k \in (j + 1)..n : w[k].cmd # "FRAME"
  \/ /\ st = "served" /\ fr = g
     /\ \A k \in 1..n : w[k].cmd # "FRAME"

Latest(n, g) == LatestIn(wire[sock], conn[sock], frame, n, g)

Mapped(p) == p.cmd \in {"DOWN", "MOVE"} /\ ~EmptySize(p.f)

\* The packets of one call name one frame, which is announced first.
OutboxInFrame ==
  \A i \in 1..Len(outbox) :
    /\ outbox[i].cmd = "FRAME" => i = 1 /\ outbox[i].f = lastFrame
    /\ Mapped(outbox[i]) => outbox[i].f = lastFrame

WireInFrame ==
  /\ \A i \in 1..Len(wire[sock]) :
       Mapped(wire[sock][i]) => Latest(i - 1, wire[sock][i].f)
  /\ (lastFrame # NoFrame /\ (outbox = <<>> \/ outbox[1].cmd # "FRAME"))
       => Latest(Len(wire[sock]), lastFrame)

FrameInv == Live /\ "FRAME" \notin lost => OutboxInFrame /\ WireInFrame

\* The last DOWN or UP of slot s in the packets q, if there is one, leaves it
\* down or not as the set h says.
Touches(p, s) == p.cmd \in {"DOWN", "UP"} /\ p.slot = s
Silent(q, s)  == \A k \in 1..Len(q) : ~Touches(q[k], s)
Decides(q, s, h) ==
  \E j \in 1..Len(q) : /\ Touches(q[j], s)
                       /\ q[j].cmd = "DOWN" <=> s \in h
                       /\ \A k \in (j + 1)..Len(q) : ~Touches(q[k], s)

\* The daemon of a connection not yet accepted will start with nothing down.
PanelFits(s) == IF conn[sock] = "served" THEN Down(s) <=> s \in held
                ELSE s \notin held

WireSettles(s) == \/ Decides(wire[sock], s, held)
                  \/ Silent(wire[sock], s) /\ PanelFits(s)

Settles(s) == \/ Decides(outbox, s, held)
              \/ Silent(outbox, s) /\ WireSettles(s)

HeldInv == Live /\ "TOUCH" \notin lost => \A s \in Slots : Settles(s)

InjectionInv == /\ InjectionTypeOK
                /\ StepFits
                /\ NetFits
                /\ NoEndYet
                /\ FrameInv
                /\ HeldInv

-----------------------------------------------------------------------------
Calls == TouchCalls \cup ScrollCalls

LEMMA SlotZero == 0 \in Slots /\ Slots \subseteq Nat
BY DaemonAssumption DEF Slots

LEMMA CallFields ==
  ASSUME NEW c \in Calls
  PROVE  /\ c.op \in {"DOWN", "MOVE", "UP", "SCROLL"}
         /\ c.slot \in Slots /\ c.f \in Frames /\ c.x \in Coords /\ c.y \in Coords
         /\ c # NoCall
BY InjectionAssumption DEF Calls, TouchCalls, ScrollCalls, Call, NoCall

LEMMA SentPackets ==
  ASSUME NEW cmd \in {"DOWN", "MOVE"}, NEW s \in Slots, NEW f \in Frames,
         NEW x \in Coords, NEW y \in Coords
  PROVE  /\ Packet(cmd, s, f, x, y) \in Sent
         /\ Packet("UP", s, NoFrame, 0, 0) \in Sent
         /\ ~EmptySize(f) => Packet("FRAME", 0, f, 0, 0) \in Sent
BY SlotZero DEF Packet, Sent

\* The sequence that announces a frame, if it has to be.
LEMMA FramePacketsOf ==
  ASSUME InjectionTypeOK, NEW f \in Frames
  PROVE  /\ FramePackets(f) \in Seq(Sent)
         /\ Remembered(f) \in Frames \cup {NoFrame}
         /\ \/ /\ FramePackets(f) = <<>> /\ Len(FramePackets(f)) = 0
               /\ Remembered(f) = lastFrame /\ (f = lastFrame \/ EmptySize(f))
            \/ /\ Len(FramePackets(f)) = 1
               /\ FramePackets(f)[1] = Packet("FRAME", 0, f, 0, 0)
               /\ Remembered(f) = f /\ ~EmptySize(f)
<1> DEFINE fr == Packet("FRAME", 0, f, 0, 0)
<1>1. ~EmptySize(f) => fr \in Sent
  BY SlotZero DEF Packet, Sent
<1>2. lastFrame \in Frames \cup {NoFrame}
  BY DEF InjectionTypeOK
<1>3. \/ /\ FramePackets(f) = <<>> /\ Remembered(f) = lastFrame
         /\ f = lastFrame \/ EmptySize(f)
      \/ FramePackets(f) = <<fr>> /\ Remembered(f) = f /\ ~EmptySize(f)
  BY DEF FramePackets, Remembered
<1> HIDE DEF fr
<1>4. CASE FramePackets(f) = <<>>
  BY <1>2, <1>3, <1>4
<1>5. CASE FramePackets(f) = <<fr>>
  <2>1. <<fr>> # <<>>
    OBVIOUS
  <2>2. QED BY <1>1, <1>3, <1>5, <2>1 DEF fr
<1>6. QED BY <1>3, <1>4, <1>5

LEMMA OneMore ==
  ASSUME NEW T, NEW q \in Seq(T), NEW a \in T
  PROVE  /\ q \o <<a>> \in Seq(T)
         /\ Len(q \o <<a>>) = Len(q) + 1
         /\ \A i \in 1..Len(q) : (q \o <<a>>)[i] = q[i]
         /\ (q \o <<a>>)[Len(q) + 1] = a
<1>1. <<a>> \in Seq(T) /\ Len(<<a>>) = 1 /\ <<a>>[1] = a
  OBVIOUS
<1>2. Len(q) \in Nat
  OBVIOUS
<1>3. QED BY <1>1, <1>2, ConcatProperties

\* What a call hands to the socket: at most one FRAME, then its own packets.
Announces(c) == IF c.op = "UP" THEN 0 ELSE Len(FramePackets(c.f))

LEMMA PacketsOf ==
  ASSUME InjectionTypeOK, NEW c \in Calls
  PROVE  LET P == Packets(c)
             k == Announces(c)
         IN  /\ P \in Seq(Sent)
             /\ k = 0 => c.op = "UP" \/ (Remembered(c.f) = lastFrame
                                         /\ (c.f = lastFrame \/ EmptySize(c.f)))
             /\ k # 0 => k = 1 /\ P[1] = Packet("FRAME", 0, c.f, 0, 0) /\ c.op # "UP"
                         /\ Remembered(c.f) = c.f /\ ~EmptySize(c.f)
             /\ c.op = "UP" => Len(P) = k + 1
                               /\ P[k + 1] = Packet("UP", c.slot, NoFrame, 0, 0)
             /\ c.op \in {"DOWN", "MOVE"} =>
                  Len(P) = k + 1 /\ P[k + 1] = Packet(c.op, c.slot, c.f, c.x, c.y)
             /\ c.op = "SCROLL" =>
                  /\ Len(P) = k + 3
                  /\ P[k + 1] = Packet("DOWN", c.slot, c.f, c.x, c.y)
                  /\ P[k + 2] = Packet("MOVE", c.slot, c.f, c.x, c.y)
                  /\ P[k + 3] = Packet("UP", c.slot, NoFrame, 0, 0)
<1> DEFINE d  == Packet("DOWN", c.slot, c.f, c.x, c.y)
           m  == Packet("MOVE", c.slot, c.f, c.x, c.y)
           up == Packet("UP", c.slot, NoFrame, 0, 0)
           F  == FramePackets(c.f)
<1>0. c.op \in {"DOWN", "MOVE", "UP", "SCROLL"}
  BY CallFields
<1>1. d \in Sent /\ m \in Sent /\ up \in Sent
  BY CallFields, SentPackets
<1>2. F \in Seq(Sent) /\ Len(F) \in {0, 1}
  BY CallFields, FramePacketsOf
<1>3. /\ Len(F) = 0 => Remembered(c.f) = lastFrame /\ (c.f = lastFrame \/ EmptySize(c.f))
      /\ Len(F) # 0 => /\ Len(F) = 1 /\ F[1] = Packet("FRAME", 0, c.f, 0, 0)
                       /\ Remembered(c.f) = c.f /\ ~EmptySize(c.f)
  BY CallFields, FramePacketsOf
<1>4. CASE c.op = "UP"
  <2>1. Packets(c) = <<up>> /\ Announces(c) = 0
    BY <1>4 DEF Packets, Announces
  <2>2. <<up>> \in Seq(Sent) /\ Len(<<up>>) = 1 /\ <<up>>[1] = up
    BY <1>1
  <2>3. QED BY <1>4, <2>1, <2>2
<1>5. CASE c.op \in {"DOWN", "MOVE"}
  <2>1. Packets(c) = F \o <<Packet(c.op, c.slot, c.f, c.x, c.y)>> /\ Announces(c) = Len(F)
    BY <1>5 DEF Packets, Announces
  <2>2. Packet(c.op, c.slot, c.f, c.x, c.y) \in Sent
    BY <1>5, <1>1
  <2> DEFINE a == Packet(c.op, c.slot, c.f, c.x, c.y)
  <2>3. a \in Sent /\ Packets(c) = F \o <<a>>
    BY <2>1, <2>2
  <2> HIDE DEF F, a
  <2>4. /\ Packets(c) \in Seq(Sent) /\ Len(Packets(c)) = Len(F) + 1
        /\ \A i \in 1..Len(F) : Packets(c)[i] = F[i]
        /\ Packets(c)[Len(F) + 1] = a
    BY <1>2, <2>3, OneMore
  <2>5. Len(F) # 0 => Packets(c)[1] = F[1]
    BY <1>2, <2>4
  <2>6. QED BY <1>3, <1>5, <2>1, <2>4, <2>5 DEF a
<1>6. CASE c.op = "SCROLL"
  <2>1. Packets(c) = F \o <<d>> \o <<m>> \o <<up>> /\ Announces(c) = Len(F)
    BY <1>6 DEF Packets, Announces
  <2> DEFINE q1 == F \o <<d>>
             q2 == q1 \o <<m>>
             q3 == q2 \o <<up>>
  <2>2. Packets(c) = q3
    BY <2>1
  <2> HIDE DEF F, d, m, up
  <2>3. /\ q1 \in Seq(Sent) /\ Len(q1) = Len(F) + 1
        /\ \A i \in 1..Len(F) : q1[i] = F[i]
        /\ q1[Len(F) + 1] = d
    BY <1>1, <1>2, OneMore
  <2> HIDE DEF q1
  <2>4. /\ q2 \in Seq(Sent) /\ Len(q2) = Len(q1) + 1
        /\ \A i \in 1..Len(q1) : q2[i] = q1[i]
        /\ q2[Len(q1) + 1] = m
    BY <1>1, <2>3, OneMore
  <2> HIDE DEF q2
  <2>5. /\ q3 \in Seq(Sent) /\ Len(q3) = Len(q2) + 1
        /\ \A i \in 1..Len(q2) : q3[i] = q2[i]
        /\ q3[Len(q2) + 1] = up
    BY <1>1, <2>4, OneMore
  <2> HIDE DEF q3
  <2>6. /\ Len(q3) = Len(F) + 3 /\ q3[Len(F) + 1] = d
        /\ q3[Len(F) + 2] = m /\ q3[Len(F) + 3] = up
        /\ Len(F) # 0 => q3[1] = F[1]
    BY <1>2, <2>3, <2>4, <2>5
  <2>7. QED BY <1>3, <1>6, <2>1, <2>2, <2>5, <2>6 DEF d, m, up
<1>7. QED BY <1>0, <1>4, <1>5, <1>6

-----------------------------------------------------------------------------
(* Types.                                                                  *)
TypeInv == InjectionTypeOK /\ StepFits

LEMMA SockConn ==
  ASSUME InjectionTypeOK
  PROVE  sock # NoSock <=> sock \in Conns
<1>1. MaxSessions \in Nat /\ opened \in 0..MaxSessions /\ sock \in 0..opened
  BY InjectionAssumption DEF InjectionTypeOK
<1>2. QED BY <1>1 DEF Conns, NoSock

LEMMA TypeInit == InjectionInit => TypeInv
<1> SUFFICES ASSUME InjectionInit PROVE TypeInv
  OBVIOUS
<1>1. <<>> \in Seq(Sent) /\ <<>> \in Seq(Sent \cup {Fin, Quit})
  OBVIOUS
<1>2. outbox \in Seq(Sent) /\ wire \in [Conns -> Seq(Sent \cup {Fin, Quit})]
  BY <1>1 DEF InjectionInit
<1>3. opened \in 0..MaxSessions /\ sock \in 0..opened
  BY InjectionAssumption DEF InjectionInit, NoSock
<1>4. conn \in [Conns -> {"none", "queued", "served", "closed"}]
  BY DEF InjectionInit
<1>5. QED
  BY <1>2, <1>3, <1>4 DEF InjectionInit, TypeInv, InjectionTypeOK, StepFits

\* What a call leaves in the socket's queue, or nothing when it is not heard.
LEMMA DispatchType ==
  ASSUME TypeInv, NEW c \in Calls, Dispatch(c), attempted' \in BOOLEAN,
         step \in {"idle", "dispatch"}, UNCHANGED netVars
  PROVE  TypeInv'
<1> USE DEF TypeInv
<1>1. /\ call' = NoCall /\ UNCHANGED <<available, sock, pendingResize, resizeQueued, lost>>
      /\ UNCHANGED <<wire, conn, opened, starting>>
  BY DEF Dispatch, netVars
<1>2. CASE step' = "send"
  <2>1. /\ outbox' = Packets(c) /\ sock # NoSock
        /\ lastFrame' = IF c.op = "UP" THEN lastFrame ELSE Remembered(c.f)
        /\ held' = CASE c.op = "DOWN" -> held \cup {c.slot}
                     [] c.op \in {"UP", "SCROLL"} -> held \ {c.slot}
                     [] OTHER -> held
    BY <1>2 DEF Dispatch
  <2>2. outbox' \in Seq(Sent)
    BY <2>1, PacketsOf
  <2>3. lastFrame' \in Frames \cup {NoFrame}
    BY <2>1, CallFields, FramePacketsOf DEF InjectionTypeOK
  <2>4. held' \subseteq Slots
    BY <2>1, CallFields DEF InjectionTypeOK
  <2>5. StepFits'
    BY <1>1, <1>2, <2>1 DEF StepFits, NoSock
  <2>6. QED BY <1>1, <1>2, <2>2, <2>3, <2>4, <2>5 DEF InjectionTypeOK
<1>3. CASE step' # "send"
  <2>1. step' = "idle" /\ UNCHANGED <<outbox, lastFrame, held>>
    BY <1>3 DEF Dispatch
  <2>2. outbox = <<>>
    BY DEF StepFits
  <2>3. QED BY <1>1, <2>1, <2>2 DEF InjectionTypeOK, StepFits
<1>4. QED BY <1>2, <1>3

\* The head of the socket's queue, sent or dropped.
LEMMA OutboxTail ==
  ASSUME TypeInv, step = "send", outbox # <<>>, AfterPacket
  PROVE  /\ outbox' \in Seq(Sent) /\ step' \in {"idle", "send"}
         /\ step' # "send" => outbox' = <<>>
         /\ Head(outbox) \in Sent /\ Head(outbox) = outbox[1]
         /\ Len(outbox) \in Nat \ {0} /\ Len(outbox') = Len(outbox) - 1
         /\ \A i \in 1..Len(outbox') : outbox'[i] = outbox[i + 1]
<1>1. outbox \in Seq(Sent)
  BY DEF TypeInv, InjectionTypeOK
<1>2. outbox' = Tail(outbox) /\ step' = IF Tail(outbox) = <<>> THEN "idle" ELSE "send"
  BY DEF AfterPacket
<1>3. QED BY <1>1, <1>2, HeadTailProperties, EmptySeq

LEMMA TypeNext == TypeInv /\ [InjectionNext]_vars => TypeInv'
<1> SUFFICES ASSUME TypeInv, [InjectionNext]_vars PROVE TypeInv'
  OBVIOUS
<1> USE DEF TypeInv
<1>1. ASSUME NEW c \in Calls, TouchEvent(c) PROVE TypeInv'
  <2>1. CASE attempted
    BY <1>1, <2>1, DispatchType DEF TouchEvent
  <2>2. CASE ~attempted
    BY <1>1, <2>2, CallFields DEF TouchEvent, netVars, InjectionTypeOK, StepFits, Calls
  <2>3. QED BY <2>1, <2>2
<1>2. CASE DispatchAfterStart
  <2>1. call \in Calls
    BY <1>2 DEF DispatchAfterStart, InjectionTypeOK, StepFits, Calls
  <2>2. QED BY <1>2, <2>1, DispatchType DEF DispatchAfterStart, InjectionTypeOK
<1>3. CASE StartFails \/ LaunchDaemon \/ SendNothing
  BY <1>3 DEF StartFails, LaunchDaemon, SendNothing, netVars, InjectionTypeOK, StepFits
<1>4. CASE Connect
  <2>1. opened' \in 1..MaxSessions /\ opened' \in Conns
    BY <1>4, InjectionAssumption DEF Connect, InjectionTypeOK, Conns
  <2>2. conn' \in [Conns -> {"none", "queued", "served", "closed"}]
    BY <1>4, <2>1 DEF Connect, InjectionTypeOK
  <2>3. QED
    BY <1>4, <2>1, <2>2 DEF Connect, InjectionTypeOK, StepFits, NoSock, NoFrame
<1>5. CASE SendNext
  <2>1. sock \in Conns
    BY <1>5, SockConn DEF SendNext, StepFits
  <2>2. Head(outbox) \in Sent /\ outbox' \in Seq(Sent) /\ step' \in {"idle", "send"}
        /\ (step' # "send" => outbox' = <<>>)
    BY <1>5, OutboxTail DEF SendNext
  <2>3. Append(wire[sock], Head(outbox)) \in Seq(Sent \cup {Fin, Quit})
    BY <2>1, <2>2, AppendProperties DEF InjectionTypeOK
  <2>4. wire' \in [Conns -> Seq(Sent \cup {Fin, Quit})]
    BY <1>5, <2>3 DEF SendNext, InjectionTypeOK
  <2>5. QED BY <1>5, <2>2, <2>4 DEF SendNext, InjectionTypeOK, StepFits
<1>6. CASE SendDrops
  <2>1. outbox' \in Seq(Sent) /\ step' \in {"idle", "send"}
        /\ (step' # "send" => outbox' = <<>>)
    BY <1>6, OutboxTail DEF SendDrops
  <2>2. lost' \subseteq {"FRAME", "TOUCH"}
    BY <1>6 DEF SendDrops, InjectionTypeOK
  <2>3. QED BY <1>6, <2>1, <2>2 DEF SendDrops, netVars, InjectionTypeOK, StepFits
<1>7. ASSUME NEW f \in Frames, ResizeDisplay(f) PROVE TypeInv'
  <2>1. CASE step' = "send"
    <3>1. /\ outbox' = FramePackets(f) /\ lastFrame' = Remembered(f)
          /\ step' = "send" /\ sock # NoSock
      BY <1>7, <2>1 DEF ResizeDisplay
    <3>2. QED
      BY <1>7, <3>1, FramePacketsOf DEF ResizeDisplay, netVars, InjectionTypeOK, StepFits
  <2>2. CASE step' # "send"
    BY <1>7, <2>2 DEF ResizeDisplay, netVars, InjectionTypeOK, StepFits
  <2>3. QED BY <2>1, <2>2
<1>8. CASE SendPendingResize
  BY <1>8 DEF SendPendingResize, netVars, InjectionTypeOK, StepFits
<1>9. ASSUME NEW tail \in {<<Quit, Fin>>, <<Fin>>}, ControllerGone(tail) PROVE TypeInv'
  <2>1. tail \in Seq(Sent \cup {Fin, Quit})
    <3>1. <<Fin>> \in Seq(Sent \cup {Fin, Quit}) /\ <<Quit, Fin>> \in Seq(Sent \cup {Fin, Quit})
      OBVIOUS
    <3>2. QED BY <1>9, <3>1
  <2>2. wire' \in [Conns -> Seq(Sent \cup {Fin, Quit})]
    <3>1. CASE wire' = wire
      BY <3>1 DEF InjectionTypeOK
    <3>2. CASE sock \in Conns /\ wire' = [wire EXCEPT ![sock] = @ \o tail]
      <4>1. wire[sock] \o tail \in Seq(Sent \cup {Fin, Quit})
        BY <2>1, <3>2, ConcatProperties DEF InjectionTypeOK
      <4>2. QED BY <3>2, <4>1 DEF InjectionTypeOK
    <3>3. QED BY <1>9, <3>1, <3>2 DEF ControllerGone, InjectionTypeOK, Conns, NoSock
  <2>3. outbox' = <<>> /\ outbox' \in Seq(Sent)
    BY <1>9 DEF ControllerGone
  <2>4. sock' \in 0..opened'
    BY <1>9 DEF ControllerGone, InjectionTypeOK, NoSock
  <2>5. QED BY <1>9, <2>2, <2>3, <2>4 DEF ControllerGone, InjectionTypeOK, StepFits
<1>10. CASE Stop \/ PCCrash
  BY <1>9, <1>10 DEF Stop, PCCrash
<1>11. CASE Bind \/ BindFails \/ PollRotation
  BY <1>11 DEF Bind, BindFails, PollRotation, pcVars, netVars, InjectionTypeOK, StepFits
<1>12. CASE AcceptNext
  <2>1. conn' \in [Conns -> {"none", "queued", "served", "closed"}]
    BY <1>12 DEF AcceptNext, InjectionTypeOK
  <2>2. QED BY <1>12, <2>1 DEF AcceptNext, pcVars, InjectionTypeOK, StepFits
<1>13. CASE ReadPacket
  <2>1. PICK c \in Conns :
          /\ wire[c] # <<>>
          /\ wire' = [wire EXCEPT ![c] = IF Head(wire[c]) \in {Quit, Fin} THEN <<>> ELSE Tail(@)]
          /\ conn' = IF Head(wire[c]) \in {Quit, Fin} THEN Ended(c, Head(wire[c])) ELSE conn
          /\ UNCHANGED <<pcVars, opened, starting>>
    BY <1>13 DEF ReadPacket
  <2>2. <<>> \in Seq(Sent \cup {Fin, Quit}) /\ Tail(wire[c]) \in Seq(Sent \cup {Fin, Quit})
    BY <2>1, HeadTailProperties DEF InjectionTypeOK
  <2>3. wire' \in [Conns -> Seq(Sent \cup {Fin, Quit})]
    BY <2>1, <2>2 DEF InjectionTypeOK
  <2>4. conn' \in [Conns -> {"none", "queued", "served", "closed"}]
    BY <2>1 DEF InjectionTypeOK, Ended
  <2>5. QED BY <2>1, <2>3, <2>4 DEF pcVars, InjectionTypeOK, StepFits
<1>14. CASE UNCHANGED vars
  BY <1>14 DEF vars, pcVars, netVars, InjectionTypeOK, StepFits
<1>15. QED
  BY <1>1, <1>2, <1>3, <1>4, <1>5, <1>6, <1>7, <1>8, <1>10, <1>11, <1>12, <1>13, <1>14
     DEF InjectionNext, UIThread, Calls

\* The connections, the queue of packets and the call keep their types.
THEOREM InjectionTypes == InjectionSpec => []TypeInv
BY TypeInit, TypeNext, PTL DEF InjectionSpec

-----------------------------------------------------------------------------
(***************************************************************************)
(* The composition implements the daemon's own specification: whatever     *)
(* calls, connections and losses do, what reaches the daemon is a packet   *)
(* of a slot, a coordinate and a frame it was specified for.               *)
(***************************************************************************)
LEMMA HeadOfWire ==
  ASSUME InjectionTypeOK, NEW c \in Conns, wire[c] # <<>>
  PROVE  /\ Head(wire[c]) \in Sent \cup {Fin, Quit} /\ Head(wire[c]) = wire[c][1]
         /\ Len(wire[c]) \in Nat \ {0}
         /\ Tail(wire[c]) \in Seq(Sent \cup {Fin, Quit})
         /\ Len(Tail(wire[c])) = Len(wire[c]) - 1
         /\ \A i \in 1..Len(Tail(wire[c])) : Tail(wire[c])[i] = wire[c][i + 1]
<1>1. wire[c] \in Seq(Sent \cup {Fin, Quit})
  BY DEF InjectionTypeOK
<1>2. QED BY <1>1, HeadTailProperties, EmptySeq

\* Each packet is one of the daemon's handlers.
LEMMA PacketIsHandler ==
  ASSUME NEW p \in Sent \cup {Fin, Quit}, HandlePacket(p)
  PROVE  DaemonNext
<1>1. CASE p = Fin
  BY <1>1 DEF Fin, Packet, HandlePacket, DaemonNext
<1>2. CASE p = Quit
  BY <1>2 DEF Quit, Packet, HandlePacket, DaemonNext
<1>3. CASE p \in Sent
  <2>1. /\ p.cmd \in {"DOWN", "MOVE", "UP", "FRAME"} /\ p.slot \in Slots
        /\ p.cmd \in {"DOWN", "MOVE"} => p.x \in Coords /\ p.y \in Coords
        /\ p.cmd = "FRAME" => p.f \in Frames
    BY <1>3 DEF Sent
  <2>2. p.slot \in 0..MaxSlots /\ p.slot + 1 \in TrackIds
    BY <2>1, DaemonAssumption DEF Slots, TrackIds
  <2>3. CASE p.cmd = "DOWN"
    BY <2>1, <2>2, <2>3 DEF HandlePacket, DaemonNext
  <2>4. CASE p.cmd = "MOVE"
    BY <2>1, <2>2, <2>4 DEF HandlePacket, DaemonNext
  <2>5. CASE p.cmd = "UP"
    BY <2>1, <2>2, <2>5 DEF HandlePacket, DaemonNext
  <2>6. CASE p.cmd = "FRAME"
    BY <2>1, <2>6 DEF HandlePacket, DaemonNext
  <2>7. QED BY <2>1, <2>3, <2>4, <2>5, <2>6
<1>4. QED BY <1>1, <1>2, <1>3

LEMMA StepIsDaemons ==
  TypeInv /\ [InjectionNext]_vars => [DaemonNext]_daemonVars
<1> SUFFICES ASSUME TypeInv, [InjectionNext]_vars PROVE [DaemonNext]_daemonVars
  OBVIOUS
<1>1. CASE AcceptNext
  BY <1>1 DEF AcceptNext, DaemonNext
<1>2. CASE ReadPacket
  <2>1. PICK c \in Conns : wire[c] # <<>> /\ HandlePacket(Head(wire[c]))
    BY <1>2 DEF ReadPacket
  <2>2. Head(wire[c]) \in Sent \cup {Fin, Quit}
    BY <2>1, HeadOfWire DEF TypeInv
  <2>3. QED BY <2>1, <2>2, PacketIsHandler
<1>3. CASE Bind
  BY <1>3 DEF Bind, DaemonNext
<1>4. CASE PollRotation
  BY <1>4 DEF PollRotation, DaemonNext
<1>5. CASE UNCHANGED daemonVars
  BY <1>5
<1>6. CASE \E c \in TouchCalls \cup ScrollCalls : TouchEvent(c)
  BY <1>6, <1>5 DEF TouchEvent
<1>7. CASE \E f \in Frames : ResizeDisplay(f)
  BY <1>7, <1>5 DEF ResizeDisplay
<1>8. CASE SendPendingResize
  BY <1>8, <1>5 DEF SendPendingResize
<1>9. CASE UIThread
  BY <1>9, <1>5 DEF UIThread, StartFails, LaunchDaemon, Connect, DispatchAfterStart,
                    SendNext, SendDrops, SendNothing
<1>10. CASE Stop \/ PCCrash
  BY <1>10, <1>5 DEF Stop, PCCrash, ControllerGone
<1>11. CASE BindFails
  BY <1>11, <1>5 DEF BindFails
<1>12. CASE UNCHANGED vars
  BY <1>12, <1>5 DEF vars
<1>13. QED
  BY <1>1, <1>2, <1>3, <1>4, <1>6, <1>7, <1>8, <1>9, <1>10, <1>11, <1>12 DEF InjectionNext

\* What the Controller, the session and the network do to the daemon is a
\* behaviour of the daemon's specification.
LEMMA ImplementsDaemon == InjectionSpec => DaemonSpec
<1>1. InjectionInit => DaemonInit
  BY DEF InjectionInit
<1>2. QED
  BY <1>1, InjectionTypes, StepIsDaemons, PTL DEF InjectionSpec, DaemonSpec

\* So that what is proved of the daemon holds behind the network: its books, and
\* that no contact and no button stays down while nobody is served.
THEOREM DaemonStaysCorrect ==
  InjectionSpec => [](DaemonInv /\ ContactsAgree /\ ButtonFollowsContacts
                      /\ NothingStuckWithoutClient)
<1>1. DaemonInv => ContactsAgree
  BY DEF DaemonInv
<1>2. QED
  BY <1>1, ImplementsDaemon, DaemonInvariant, InvImplies, PTL

-----------------------------------------------------------------------------
(* The connections.                                                        *)
NetInv == NetFits /\ NoEndYet

LEMMA NetInit == InjectionInit => NetInv
BY DEF InjectionInit, DaemonInit, NetInv, NetFits, NoEndYet, Live, Conns

\* A step of the PC that neither opens nor ends a session.
LEMMA NetSame ==
  ASSUME NetInv, UNCHANGED <<running, client, wire, conn, opened>>,
         sock' = sock \/ sock' = NoSock
  PROVE  NetInv'
BY DEF NetInv, NetFits, NoEndYet, Live

\* What a packet does to the process and its client.
LEMMA PacketEffect ==
  ASSUME NEW p \in Sent \cup {Fin, Quit}, HandlePacket(p)
  PROVE  /\ client
         /\ p \in Sent => running' = running /\ client'
         /\ p = Fin => running' = running /\ ~client'
         /\ p = Quit => ~running' /\ ~client'
         /\ p \in Sent => p \notin {Quit, Fin}
         /\ Fin # Quit
<1>1. p \in Sent => p.cmd \in {"DOWN", "MOVE", "UP", "FRAME"}
  BY DEF Sent
<1>2. Fin.cmd = "FIN" /\ Quit.cmd = "QUIT"
  BY DEF Fin, Quit, Packet
<1>3. CASE p \in Sent
  <2>1. client /\ UNCHANGED <<running, client>>
    BY <1>1, <1>3 DEF HandlePacket, HandleDown, HandleMove, HandleUp, HandleFrame
  <2>2. QED BY <2>1, <1>1, <1>2, <1>3
<1>4. CASE p = Fin
  BY <1>1, <1>2, <1>4 DEF HandlePacket, ClientGone
<1>5. CASE p = Quit
  BY <1>1, <1>2, <1>5 DEF HandlePacket, HandleQuit
<1>6. QED BY <1>3, <1>4, <1>5

LEMMA NetNext ==
  TypeInv /\ TypeInv' /\ DaemonInv /\ NetInv /\ [InjectionNext]_vars => NetInv'
<1> SUFFICES ASSUME TypeInv, TypeInv', DaemonInv, NetInv, [InjectionNext]_vars
             PROVE  NetInv'
  OBVIOUS
<1>0. client => running
  BY DEF DaemonInv, CleanWithoutClient
<1>1. CASE \E c \in TouchCalls \cup ScrollCalls : TouchEvent(c)
  BY <1>1, NetSame DEF TouchEvent, Dispatch, daemonVars, netVars
<1>2. CASE \/ StartFails \/ LaunchDaemon \/ DispatchAfterStart \/ SendDrops \/ SendNothing
           \/ SendPendingResize \/ BindFails
           \/ \E f \in Frames : ResizeDisplay(f)
  BY <1>2, NetSame DEF StartFails, LaunchDaemon, DispatchAfterStart, Dispatch, SendDrops,
     SendNothing, SendPendingResize, BindFails, ResizeDisplay, daemonVars, netVars, pcVars
<1>3. CASE Connect
  <2>1. opened' = opened + 1 /\ opened' \in Conns /\ opened \in Nat
    BY <1>3, InjectionAssumption DEF Connect, TypeInv, InjectionTypeOK, Conns
  <2>2. /\ conn' = [conn EXCEPT ![opened'] = "queued"] /\ sock' = opened'
        /\ UNCHANGED <<client, running, wire>> /\ running
    BY <1>3 DEF Connect, daemonVars
  <2>3. conn \in [Conns -> {"none", "queued", "served", "closed"}]
    BY DEF TypeInv, InjectionTypeOK
  <2>4. conn[opened'] = "none" /\ wire[opened'] = <<>>
    BY <2>1 DEF NetInv, NetFits, Conns
  <2>5. NetFits'
    <3>1. \A c \in Conns : conn'[c] = IF c = opened' THEN "queued" ELSE conn[c]
      BY <2>2, <2>3
    <3>2. \A c \in Conns : conn'[c] = "none" <=> c > opened'
      BY <3>1, <2>1 DEF NetInv, NetFits, Conns
    <3>3. QED BY <3>1, <3>2, <2>2, <2>4 DEF NetInv, NetFits
  <2>6. NoEndYet'
    BY <2>2, <2>4, EmptySeq DEF NoEndYet
  <2>7. QED BY <2>5, <2>6 DEF NetInv
<1>4. CASE SendNext
  <2>1. sock \in Conns
    BY <1>4, SockConn DEF SendNext, TypeInv, StepFits
  <2>2. Head(outbox) \in Sent
    BY <1>4, OutboxTail DEF SendNext
  <2>3. /\ wire' = [wire EXCEPT ![sock] = Append(wire[sock], Head(outbox))]
        /\ conn[sock] # "closed" /\ UNCHANGED <<sock, conn, opened, running, client>>
    BY <1>4 DEF SendNext, daemonVars
  <2>4. wire \in [Conns -> Seq(Sent \cup {Fin, Quit})]
    BY DEF TypeInv, InjectionTypeOK
  <2>5. conn[sock] # "none"
    BY <2>1 DEF TypeInv, InjectionTypeOK, NetInv, NetFits, Conns
  <2>6. NetFits'
    BY <2>3, <2>4, <2>5 DEF NetInv, NetFits
  <2>7. wire[sock] \in Seq(Sent)
    BY <2>1, <2>3, SockConn DEF NetInv, NoEndYet, Live, TypeInv
  <2>8. wire'[sock] \in Seq(Sent)
    BY <2>1, <2>2, <2>3, <2>4, <2>7, AppendProperties
  <2>9. QED BY <2>3, <2>6, <2>8 DEF NetInv, NoEndYet
<1>5. CASE Stop \/ PCCrash
  <2>1. PICK tail : ControllerGone(tail)
    BY <1>5 DEF Stop, PCCrash
  <2>2. sock' = NoSock /\ UNCHANGED <<running, client, conn, opened>>
    BY <2>1 DEF ControllerGone, daemonVars
  <2>3. wire' = wire \/ (sock \in Conns /\ wire' = [wire EXCEPT ![sock] = @ \o tail])
    BY <2>1, SockConn DEF ControllerGone, TypeInv
  <2>4. sock \in Conns => conn[sock] # "none"
    BY DEF TypeInv, InjectionTypeOK, NetInv, NetFits, Conns
  <2>5. \A c \in Conns : conn[c] = "none" => wire'[c] = wire[c]
    BY <2>3, <2>4 DEF TypeInv, InjectionTypeOK
  <2>6. NetFits'
    BY <2>2, <2>5 DEF NetInv, NetFits
  <2>7. QED BY <2>2, <2>6 DEF NetInv, NoEndYet, Live
<1>6. CASE Bind
  <2>1. UNCHANGED <<sock, wire, conn, opened>>
    BY <1>6 DEF Bind, pcVars
  <2>2. CASE running
    BY <1>6, <2>1, <2>2, NetSame DEF Bind, daemonVars
  <2>3. CASE ~running
    <3>1. running' /\ ~client' /\ ~client
      BY <1>0, <1>6, <2>3 DEF Bind, Launch
    <3>2. NetFits'
      BY <2>1, <3>1 DEF NetInv, NetFits
    <3>3. QED BY <2>1, <3>2 DEF NetInv, NoEndYet, Live
  <2>4. QED BY <2>2, <2>3
<1>7. CASE AcceptNext
  <2>1. ~client /\ client' /\ running' = running
    BY <1>7 DEF AcceptNext, Accept
  <2>2. PICK c \in Conns : conn[c] = "queued" /\ conn' = [conn EXCEPT ![c] = "served"]
    BY <1>7 DEF AcceptNext
  <2>3. UNCHANGED <<sock, wire, opened>>
    BY <1>7 DEF AcceptNext, pcVars
  <2>4. conn \in [Conns -> {"none", "queued", "served", "closed"}]
    BY DEF TypeInv, InjectionTypeOK
  <2>5. \A d \in Conns : conn'[d] = IF d = c THEN "served" ELSE conn[d]
    BY <2>2, <2>4
  <2>6. \A d \in Conns : conn[d] # "served"
    BY <2>1 DEF NetInv, NetFits
  <2>7. NetFits'
    <3>1. \A d \in Conns : /\ conn'[d] = "none" <=> d > opened'
                           /\ conn'[d] = "none" => wire'[d] = <<>>
                           /\ conn'[d] = "queued" => running'
      BY <2>1, <2>2, <2>3, <2>5 DEF NetInv, NetFits
    <3>2. QED BY <2>1, <2>2, <2>5, <2>6, <3>1 DEF NetFits
  <2>8. NoEndYet'
    BY <2>2, <2>3, <2>5, SockConn DEF NetInv, NoEndYet, Live, TypeInv
  <2>9. QED BY <2>7, <2>8 DEF NetInv
<1>8. CASE ReadPacket
  <2>1. PICK c \in Conns :
          /\ conn[c] = "served" /\ wire[c] # <<>> /\ HandlePacket(Head(wire[c]))
          /\ wire' = [wire EXCEPT ![c] = IF Head(wire[c]) \in {Quit, Fin} THEN <<>> ELSE Tail(@)]
          /\ conn' = IF Head(wire[c]) \in {Quit, Fin} THEN Ended(c, Head(wire[c])) ELSE conn
          /\ UNCHANGED <<pcVars, opened, starting>>
    BY <1>8 DEF ReadPacket
  <2> DEFINE p == Head(wire[c])
  <2>2. p \in Sent \cup {Fin, Quit}
    BY <2>1, HeadOfWire DEF TypeInv
  <2>3. /\ client
        /\ p \in Sent => running' = running /\ client' /\ p \notin {Quit, Fin}
        /\ p = Fin => running' = running /\ ~client'
        /\ p = Quit => ~running' /\ ~client'
    BY <2>1, <2>2, PacketEffect
  <2>4. \A d \in Conns : conn[d] = "served" => d = c
    BY <2>1 DEF NetInv, NetFits
  <2>5. UNCHANGED <<sock, opened>>
    BY <2>1 DEF pcVars
  <2>6. \A d \in Conns : d # c => wire'[d] = wire[d]
    BY <2>1 DEF TypeInv, InjectionTypeOK
  <2>7. CASE p \in Sent
    <3>1. conn' = conn /\ wire'[c] = Tail(wire[c])
      BY <2>1, <2>3, <2>7 DEF TypeInv, InjectionTypeOK
    <3>2. NetFits'
      BY <2>1, <2>3, <2>5, <2>6, <2>7, <3>1 DEF NetInv, NetFits
    <3>3. c = sock /\ Live => Tail(wire[c]) \in Seq(Sent)
      <4>1. c = sock /\ Live => wire[c] \in Seq(Sent)
        BY DEF NetInv, NoEndYet
      <4>2. QED BY <2>1, <4>1, HeadTailProperties
    <3>4. NoEndYet'
      BY <2>5, <2>6, <3>1, <3>3, SockConn DEF NetInv, NoEndYet, Live, TypeInv
    <3>5. QED BY <3>2, <3>4 DEF NetInv
  <2>8. CASE p \in {Fin, Quit}
    <3>1. \A d \in Conns : conn'[d] = IF d = c \/ (p = Quit /\ conn[d] = "queued")
                                      THEN "closed" ELSE conn[d]
      BY <2>1, <2>8 DEF Ended
    <3>2. wire'[c] = <<>>
      BY <2>1, <2>8 DEF TypeInv, InjectionTypeOK
    <3>3. ~client' /\ (p = Quit \/ running' = running)
      BY <2>3, <2>8
    <3>4. NetFits'
      <4>1. \A d \in Conns : /\ conn'[d] = "none" <=> d > opened'
                             /\ conn'[d] = "none" => wire'[d] = <<>>
                             /\ conn'[d] = "queued" => running'
        BY <2>1, <2>5, <2>6, <3>1, <3>3 DEF NetInv, NetFits
      <4>2. \A d \in Conns : conn'[d] # "served"
        BY <2>4, <3>1
      <4>3. QED BY <3>3, <4>1, <4>2 DEF NetFits
    <3>5. NoEndYet'
      BY <2>5, <2>6, <3>1, SockConn DEF NetInv, NoEndYet, Live, TypeInv
    <3>6. QED BY <3>4, <3>5 DEF NetInv
  <2>9. QED BY <2>2, <2>7, <2>8
<1>9. CASE PollRotation
  BY <1>9, NetSame DEF PollRotation, RotationPoll, pcVars, netVars
<1>10. CASE UNCHANGED vars
  BY <1>10, NetSame DEF vars, daemonVars, pcVars, netVars
<1>11. QED
  BY <1>1, <1>2, <1>3, <1>4, <1>5, <1>6, <1>7, <1>8, <1>9, <1>10 DEF InjectionNext, UIThread

-----------------------------------------------------------------------------
(* The frame of each touch.                                                *)

\* A packet sent says nothing about those before it, and is the last word
\* when it is a FRAME.
LEMMA LatestAppend ==
  ASSUME NEW T, NEW w \in Seq(T), NEW p \in T, NEW st, NEW fr, NEW g
  PROVE  LET v == Append(w, p)
         IN  /\ \A n \in 0..Len(w) : LatestIn(w, st, fr, n, g) => LatestIn(v, st, fr, n, g)
             /\ p.cmd # "FRAME" /\ LatestIn(w, st, fr, Len(w), g)
                  => LatestIn(v, st, fr, Len(w) + 1, g)
             /\ p.cmd = "FRAME" /\ p.f = g => LatestIn(v, st, fr, Len(w) + 1, g)
<1> DEFINE v == Append(w, p)
<1>1. /\ Len(w) \in Nat /\ v[Len(w) + 1] = p
      /\ \A i \in 1..Len(w) : v[i] = w[i]
  BY AppendProperties
<1> HIDE DEF v
<1>2. \A n \in 0..Len(w) : LatestIn(w, st, fr, n, g) => LatestIn(v, st, fr, n, g)
  BY <1>1 DEF LatestIn
<1>3. p.cmd # "FRAME" /\ LatestIn(w, st, fr, Len(w), g) => LatestIn(v, st, fr, Len(w) + 1, g)
  BY <1>1 DEF LatestIn
<1>4. p.cmd = "FRAME" /\ p.f = g => LatestIn(v, st, fr, Len(w) + 1, g)
  BY <1>1 DEF LatestIn
<1>5. QED BY <1>2, <1>3, <1>4 DEF v

\* A packet read moves the daemon's own frame to where the packet was.
LEMMA LatestTail ==
  ASSUME NEW T, NEW w \in Seq(T), w # <<>>, NEW n \in 1..Len(w), NEW fr, NEW g,
         LatestIn(w, "served", fr, n, g)
  PROVE  LatestIn(Tail(w), "served", IF w[1].cmd = "FRAME" THEN w[1].f ELSE fr, n - 1, g)
<1> DEFINE v == Tail(w)
           h == IF w[1].cmd = "FRAME" THEN w[1].f ELSE fr
<1>1. /\ Len(w) \in Nat /\ Len(v) = Len(w) - 1 /\ n - 1 \in 0..Len(v)
      /\ \A i \in 1..Len(v) : v[i] = w[i + 1]
  BY HeadTailProperties, EmptySeq
<1> HIDE DEF v
<1>2. CASE \E j \in 1..n : /\ w[j].cmd = "FRAME" /\ w[j].f = g
                           /\ \A k \in (j + 1)..n : w[k].cmd # "FRAME"
  <2>1. PICK j \in 1..n : /\ w[j].cmd = "FRAME" /\ w[j].f = g
                          /\ \A k \in (j + 1)..n : w[k].cmd # "FRAME"
    BY <1>2
  <2>2. \A k \in j..(n - 1) : v[k].cmd # "FRAME"
    BY <1>1, <2>1
  <2>3. CASE j = 1
    BY <2>1, <2>2, <2>3 DEF LatestIn, v
  <2>4. CASE j # 1
    <3>1. j - 1 \in 1..(n - 1) /\ v[j - 1] = w[j]
      BY <1>1, <2>4
    <3>2. \A k \in ((j - 1) + 1)..(n - 1) : v[k].cmd # "FRAME"
      BY <2>2
    <3> HIDE DEF h
    <3>3. LatestIn(v, "served", h, n - 1, g)
      BY <2>1, <3>1, <3>2 DEF LatestIn
    <3>4. QED BY <3>3 DEF v, h
  <2>5. QED BY <2>3, <2>4
<1>3. CASE fr = g /\ \A k \in 1..n : w[k].cmd # "FRAME"
  <2>1. h = g /\ \A k \in 1..(n - 1) : v[k].cmd # "FRAME"
    BY <1>1, <1>3
  <2>2. QED BY <2>1 DEF LatestIn, v
<1>4. QED BY <1>2, <1>3 DEF LatestIn

LEMMA FrameInit == InjectionInit => FrameInv
BY DEF InjectionInit, FrameInv, Live

LEMMA FrameSame ==
  ASSUME FrameInv, UNCHANGED <<wire, conn, sock, frame, lastFrame, outbox, lost>>
  PROVE  FrameInv'
BY DEF FrameInv, Live, OutboxInFrame, WireInFrame, Latest, LatestIn

\* A process starts only when no connection is alive.
LEMMA NothingLives ==
  ASSUME TypeInv, NetInv, DaemonInv, ~running
  PROVE  ~Live
<1>1. \A c \in Conns : conn[c] \in {"none", "closed"}
  BY DEF TypeInv, InjectionTypeOK, NetInv, NetFits, DaemonInv, CleanWithoutClient
<1>2. sock \in Conns => conn[sock] # "none"
  BY DEF TypeInv, InjectionTypeOK, NetInv, NetFits, Conns
<1>3. QED BY <1>1, <1>2, SockConn DEF Live, TypeInv

\* A live session's wire.
LEMMA LiveWire ==
  ASSUME TypeInv, NetInv, Live
  PROVE  /\ sock \in Conns /\ wire[sock] \in Seq(Sent) /\ Len(wire[sock]) \in Nat
         /\ wire \in [Conns -> Seq(Sent \cup {Fin, Quit})]
         /\ conn[sock] \in {"queued", "served"}
<1>1. sock \in Conns
  BY SockConn DEF Live, TypeInv
<1>2. wire[sock] \in Seq(Sent)
  BY DEF NetInv, NoEndYet
<1>3. conn[sock] # "none"
  BY <1>1 DEF TypeInv, InjectionTypeOK, NetInv, NetFits, Conns
<1>4. wire \in [Conns -> Seq(Sent \cup {Fin, Quit})]
  BY DEF TypeInv, InjectionTypeOK
<1>5. conn[sock] \in {"queued", "served"}
  BY <1>1, <1>3 DEF Live, TypeInv, InjectionTypeOK
<1>6. QED BY <1>1, <1>2, <1>4, <1>5

\* A call's packets name the frame the session remembers from then on.
LEMMA PacketsInFrame ==
  ASSUME TypeInv, NEW c \in Calls, outbox' = Packets(c),
         lastFrame' = IF c.op = "UP" THEN lastFrame ELSE Remembered(c.f)
  PROVE  /\ OutboxInFrame'
         /\ outbox'[1].cmd # "FRAME" => lastFrame' = lastFrame
<1> DEFINE k == Announces(c)
           P == Packets(c)
<1>0. c.op \in {"DOWN", "MOVE", "UP", "SCROLL"} /\ c.f \in Frames
  BY CallFields
<1>1. /\ k = 0 => c.op = "UP" \/ (Remembered(c.f) = lastFrame
                                  /\ (c.f = lastFrame \/ EmptySize(c.f)))
      /\ k # 0 => k = 1 /\ P[1] = Packet("FRAME", 0, c.f, 0, 0) /\ c.op # "UP"
                  /\ Remembered(c.f) = c.f /\ ~EmptySize(c.f)
      /\ c.op = "UP" => Len(P) = k + 1 /\ P[k + 1] = Packet("UP", c.slot, NoFrame, 0, 0)
      /\ c.op \in {"DOWN", "MOVE"} =>
           Len(P) = k + 1 /\ P[k + 1] = Packet(c.op, c.slot, c.f, c.x, c.y)
      /\ c.op = "SCROLL" =>
           /\ Len(P) = k + 3
           /\ P[k + 1] = Packet("DOWN", c.slot, c.f, c.x, c.y)
           /\ P[k + 2] = Packet("MOVE", c.slot, c.f, c.x, c.y)
           /\ P[k + 3] = Packet("UP", c.slot, NoFrame, 0, 0)
  BY PacketsOf DEF TypeInv
<1> HIDE DEF k, P
<1>2. k \in {0, 1}
  BY <1>1
<1>3. \A i \in (k + 1)..Len(P) : /\ P[i].cmd \in {"DOWN", "MOVE", "UP"}
                                 /\ P[i].cmd # "UP" => P[i].f = c.f /\ c.op # "UP"
  BY <1>0, <1>1, <1>2 DEF Packet
<1>4. k = 1 => P[1].cmd = "FRAME" /\ P[1].f = c.f
  BY <1>1 DEF Packet
<1>5. Len(P) \in Nat /\ Len(P) >= k + 1
  BY <1>0, <1>1, <1>2
<1>6. \A i \in 1..Len(P) :
        /\ P[i].cmd = "FRAME" => i = 1 /\ P[i].f = lastFrame'
        /\ Mapped(P[i]) => P[i].f = lastFrame'
  <2>1. SUFFICES ASSUME NEW i \in 1..Len(P)
                 PROVE  /\ P[i].cmd = "FRAME" => i = 1 /\ P[i].f = lastFrame'
                        /\ Mapped(P[i]) => P[i].f = lastFrame'
    OBVIOUS
  <2>2. CASE i = 1 /\ k = 1
    BY <1>1, <1>4, <2>2 DEF Mapped
  <2>3. CASE i \in (k + 1)..Len(P)
    BY <1>1, <1>2, <1>3, <2>3 DEF Mapped
  <2>4. QED BY <1>2, <1>5, <2>2, <2>3
<1>7. OutboxInFrame'
  BY <1>6 DEF OutboxInFrame, Mapped, P
<1>8. P[1].cmd # "FRAME" => lastFrame' = lastFrame
  BY <1>1, <1>2, <1>4
<1>9. QED BY <1>7, <1>8 DEF P

LEMMA AnnouncementInFrame ==
  ASSUME TypeInv, NEW f \in Frames, outbox' = FramePackets(f), lastFrame' = Remembered(f)
  PROVE  /\ OutboxInFrame'
         /\ outbox' = <<>> \/ outbox'[1].cmd # "FRAME" => lastFrame' = lastFrame
<1>1. \/ Len(FramePackets(f)) = 0 /\ Remembered(f) = lastFrame
      \/ /\ Len(FramePackets(f)) = 1
         /\ FramePackets(f)[1] = Packet("FRAME", 0, f, 0, 0) /\ Remembered(f) = f
  BY FramePacketsOf DEF TypeInv
<1>2. QED
  <2>1. CASE Len(outbox') = 0 /\ lastFrame' = lastFrame
    BY <2>1 DEF OutboxInFrame
  <2>2. CASE Len(outbox') = 1 /\ outbox'[1].cmd = "FRAME" /\ outbox'[1].f = lastFrame'
    <3>1. outbox' # <<>>
      BY <2>2
    <3>2. OutboxInFrame'
      BY <2>2 DEF OutboxInFrame, Mapped
    <3>3. QED BY <2>2, <3>1, <3>2
  <2>3. QED BY <1>1, <2>1, <2>2 DEF Packet

\* A call's packets are queued: the wire is as it was, and what it will say is
\* what the session remembers.
LEMMA FrameQueued ==
  ASSUME TypeInv, NetInv, FrameInv, step # "send",
         UNCHANGED <<wire, conn, sock, frame, lost>>, OutboxInFrame',
         outbox' = <<>> \/ outbox'[1].cmd # "FRAME" => lastFrame' = lastFrame
  PROVE  FrameInv'
<1>1. outbox = <<>>
  BY DEF TypeInv, StepFits
<1>2. SUFFICES ASSUME Live', "FRAME" \notin lost' PROVE WireInFrame'
  BY DEF FrameInv
<1>3. Live /\ WireInFrame
  BY <1>2 DEF FrameInv, Live
<1>4. QED
  BY <1>1, <1>3 DEF WireInFrame, Latest, LatestIn

\* What is to be shown of the wire a step leaves.
LEMMA WireInFrameAfter ==
  ASSUME NEW v, NEW st, NEW fr,
         wire'[sock'] = v, conn'[sock'] = st, frame' = fr, lastFrame' = lastFrame,
         \A i \in 1..Len(v) : Mapped(v[i]) => LatestIn(v, st, fr, i - 1, v[i].f),
         (lastFrame # NoFrame /\ (outbox' = <<>> \/ outbox'[1].cmd # "FRAME"))
           => LatestIn(v, st, fr, Len(v), lastFrame)
  PROVE  WireInFrame'
BY DEF WireInFrame, Latest, Mapped, EmptySize

LEMMA FrameNext ==
  TypeInv /\ NetInv /\ NetInv' /\ TypeInv' /\ DaemonInv /\ FrameInv /\ [InjectionNext]_vars
    => FrameInv'
<1> SUFFICES ASSUME TypeInv, NetInv, NetInv', TypeInv', DaemonInv, FrameInv, [InjectionNext]_vars
             PROVE  FrameInv'
  OBVIOUS
<1>1. ASSUME NEW c \in Calls, Dispatch(c), step # "send", UNCHANGED <<daemonVars, netVars>>
      PROVE  FrameInv'
  <2>1. UNCHANGED <<wire, conn, sock, frame, lost>>
    BY <1>1 DEF Dispatch, daemonVars, netVars, state
  <2>2. CASE step' = "send"
    <3>1. /\ outbox' = Packets(c)
          /\ lastFrame' = IF c.op = "UP" THEN lastFrame ELSE Remembered(c.f)
      BY <1>1, <2>2 DEF Dispatch
    <3>2. outbox' # <<>>
      BY <3>1, CallFields, PacketsOf DEF TypeInv
    <3>3. QED BY <1>1, <2>1, <3>1, <3>2, PacketsInFrame, FrameQueued
  <2>3. CASE step' # "send"
    BY <1>1, <2>1, <2>3, FrameSame DEF Dispatch
  <2>4. QED BY <2>2, <2>3
<1>2. ASSUME NEW c \in Calls, TouchEvent(c) PROVE FrameInv'
  <2>1. CASE attempted
    BY <1>1, <1>2, <2>1 DEF TouchEvent
  <2>2. CASE ~attempted
    BY <1>2, <2>2, FrameSame DEF TouchEvent, daemonVars, netVars, state
  <2>3. QED BY <2>1, <2>2
<1>3. CASE DispatchAfterStart
  <2>1. call \in Calls
    BY <1>3 DEF DispatchAfterStart, TypeInv, InjectionTypeOK, StepFits, Calls
  <2>2. QED BY <1>1, <1>3, <2>1 DEF DispatchAfterStart
<1>4. CASE StartFails \/ LaunchDaemon \/ SendNothing \/ SendPendingResize \/ BindFails
  BY <1>4, FrameSame DEF StartFails, LaunchDaemon, SendNothing, SendPendingResize,
     BindFails, daemonVars, netVars, pcVars, state
<1>5. ASSUME NEW f \in Frames, ResizeDisplay(f) PROVE FrameInv'
  <2>1. UNCHANGED <<wire, conn, sock, frame, lost>> /\ step # "send"
    BY <1>5 DEF ResizeDisplay, daemonVars, netVars, state
  <2>2. CASE step' = "send"
    BY <1>5, <2>1, <2>2, AnnouncementInFrame, FrameQueued DEF ResizeDisplay
  <2>3. CASE step' # "send"
    BY <1>5, <2>1, <2>3, FrameSame DEF ResizeDisplay
  <2>4. QED BY <2>2, <2>3
<1>6. CASE Connect
  <2>1. opened' \in Conns /\ wire'[sock'] = <<>> /\ lastFrame' = NoFrame
    <3>1. opened' = opened + 1 /\ opened' \in Conns /\ opened \in Nat
      BY <1>6, InjectionAssumption DEF Connect, TypeInv, InjectionTypeOK, Conns
    <3>2. QED BY <1>6, <3>1 DEF Connect, NetInv, NetFits
  <2>2. outbox' = <<>>
    BY <1>6 DEF Connect, TypeInv, StepFits
  <2>3. QED BY <2>1, <2>2, EmptySeq DEF FrameInv, OutboxInFrame, WireInFrame
<1>7. CASE SendNext
  <2> SUFFICES ASSUME Live', "FRAME" \notin lost' PROVE OutboxInFrame' /\ WireInFrame'
    BY DEF FrameInv
  <2>1. /\ UNCHANGED <<sock, conn, frame, lastFrame, lost>>
        /\ wire' = [wire EXCEPT ![sock] = Append(wire[sock], Head(outbox))]
    BY <1>7 DEF SendNext, daemonVars, state
  <2>2. Live /\ OutboxInFrame /\ WireInFrame
    BY <2>1 DEF Live, FrameInv
  <2>3. /\ sock \in Conns /\ wire[sock] \in Seq(Sent) /\ Len(wire[sock]) \in Nat
        /\ wire \in [Conns -> Seq(Sent \cup {Fin, Quit})]
    BY <2>2, LiveWire
  <2>4. /\ outbox # <<>> /\ Head(outbox) \in Sent /\ Head(outbox) = outbox[1]
        /\ Len(outbox) \in Nat \ {0} /\ Len(outbox') = Len(outbox) - 1
        /\ outbox' \in Seq(Sent)
        /\ \A i \in 1..Len(outbox') : outbox'[i] = outbox[i + 1]
    BY <1>7, OutboxTail DEF SendNext
  <2>5. /\ \A i \in 1..Len(outbox') : outbox'[i].cmd # "FRAME"
        /\ OutboxInFrame'
    BY <2>1, <2>2, <2>4 DEF OutboxInFrame, Mapped
  <2> DEFINE w == wire[sock]
             h == Head(outbox)
             v == Append(w, h)
  <2>6. /\ wire'[sock] = v /\ Len(v) = Len(w) + 1 /\ v[Len(w) + 1] = h
        /\ \A i \in 1..Len(w) : v[i] = w[i]
    BY <2>1, <2>3, <2>4, AppendProperties
  <2> DEFINE After(n, g) == LatestIn(v, conn[sock], frame, n, g)
  <2>7. \A g : /\ \A n \in 0..Len(w) : Latest(n, g) => After(n, g)
               /\ h.cmd # "FRAME" /\ Latest(Len(w), g) => After(Len(w) + 1, g)
               /\ h.cmd = "FRAME" /\ h.f = g => After(Len(w) + 1, g)
    <3> HIDE DEF w, h
    <3>1. w \in Seq(Sent) /\ h \in Sent
      BY <2>3, <2>4 DEF w, h
    <3>2. QED BY <3>1, LatestAppend DEF Latest, v, w
  <2> HIDE DEF w, h, v, After
  <2>8. /\ Len(w) \in Nat
        /\ \A i \in 1..Len(w) : Mapped(w[i]) => Latest(i - 1, w[i].f)
        /\ lastFrame # NoFrame /\ h.cmd # "FRAME" => Latest(Len(w), lastFrame)
        /\ h.cmd = "FRAME" => h.f = lastFrame
        /\ Mapped(h) => h.f = lastFrame
    <3>1. 1 \in 1..Len(outbox)
      BY <2>4
    <3>2. QED BY <2>2, <2>3, <2>4, <3>1 DEF WireInFrame, OutboxInFrame, w, h
  <2>9. Mapped(h) => h.f # NoFrame /\ h.cmd # "FRAME"
    BY DEF Mapped, EmptySize, NoFrame
  <2>10. \A i \in 1..Len(v) : Mapped(v[i]) => After(i - 1, v[i].f)
    <3>1. SUFFICES ASSUME NEW i \in 1..Len(v), Mapped(v[i]) PROVE After(i - 1, v[i].f)
      OBVIOUS
    <3>2. CASE i \in 1..Len(w)
      <4>1. v[i] = w[i] /\ i - 1 \in 0..Len(w)
        BY <2>6, <2>8, <3>2
      <4>2. QED BY <2>7, <2>8, <3>1, <3>2, <4>1
    <3>3. CASE i = Len(w) + 1
      <4>1. v[i] = h /\ i - 1 = Len(w) /\ h.f = lastFrame /\ lastFrame # NoFrame /\ h.cmd # "FRAME"
        BY <2>6, <2>8, <2>9, <3>1, <3>3
      <4>2. Len(w) \in 0..Len(w)
        BY <2>8
      <4>3. QED BY <2>7, <2>8, <4>1, <4>2
    <3>4. QED BY <2>6, <2>8, <3>2, <3>3
  <2>11. lastFrame # NoFrame => After(Len(v), lastFrame)
    BY <2>6, <2>7, <2>8
  <2>12. wire'[sock'] = v /\ conn'[sock'] = conn[sock] /\ frame' = frame /\ lastFrame' = lastFrame
    BY <2>1, <2>6
  <2>13. WireInFrame'
    BY <2>10, <2>11, <2>12, WireInFrameAfter DEF After
  <2>14. QED BY <2>5, <2>13
<1>8. CASE SendDrops
  <2> SUFFICES ASSUME Live', "FRAME" \notin lost' PROVE OutboxInFrame' /\ WireInFrame'
    BY DEF FrameInv
  <2>1. UNCHANGED <<wire, sock, conn, frame, lastFrame>>
    BY <1>8 DEF SendDrops, daemonVars, netVars, state
  <2>2. "FRAME" \notin lost /\ Head(outbox).cmd # "FRAME"
    BY <1>8 DEF SendDrops
  <2>3. Live /\ OutboxInFrame /\ WireInFrame
    BY <2>1, <2>2 DEF Live, FrameInv
  <2>4. /\ outbox # <<>> /\ Head(outbox) = outbox[1]
        /\ Len(outbox) \in Nat \ {0} /\ Len(outbox') = Len(outbox) - 1
        /\ \A i \in 1..Len(outbox') : outbox'[i] = outbox[i + 1]
    BY <1>8, OutboxTail DEF SendDrops
  <2>5. OutboxInFrame'
    BY <2>1, <2>3, <2>4 DEF OutboxInFrame, Mapped
  <2>6. WireInFrame'
    BY <2>1, <2>2, <2>3, <2>4 DEF WireInFrame, Latest, LatestIn
  <2>7. QED BY <2>5, <2>6
<1>9. CASE Stop \/ PCCrash
  BY <1>9 DEF Stop, PCCrash, ControllerGone, FrameInv, Live
<1>10. CASE Bind
  <2>1. CASE running
    BY <1>10, <2>1, FrameSame DEF Bind, daemonVars, pcVars, state
  <2>2. CASE ~running
    BY <1>10, <2>2, NothingLives DEF Bind, FrameInv, Live, pcVars
  <2>3. QED BY <2>1, <2>2
<1>11. CASE AcceptNext
  <2> SUFFICES ASSUME Live', "FRAME" \notin lost' PROVE OutboxInFrame' /\ WireInFrame'
    BY DEF FrameInv
  <2>1. UNCHANGED <<wire, sock, frame, lastFrame, lost, outbox>>
    BY <1>11 DEF AcceptNext, Accept, pcVars, state
  <2>2. \A c \in Conns : conn'[c] = conn[c] \/ (conn[c] = "queued" /\ conn'[c] = "served")
    BY <1>11 DEF AcceptNext, TypeInv, InjectionTypeOK
  <2>3. Live /\ OutboxInFrame /\ WireInFrame
    BY <2>1, <2>2, SockConn DEF Live, FrameInv, TypeInv
  <2>4. \A n, g : Latest(n, g) => Latest(n, g)'
    <3>1. \A n, g : LatestIn(wire[sock], conn[sock], frame, n, g)
                      => LatestIn(wire[sock], conn'[sock], frame, n, g)
      BY <2>2, <2>3, SockConn DEF LatestIn, Live, TypeInv
    <3>2. QED BY <2>1, <3>1 DEF Latest
  <2>5. QED
    BY <2>1, <2>3, <2>4 DEF OutboxInFrame, WireInFrame, Mapped
<1>12. CASE ReadPacket
  <2> SUFFICES ASSUME Live', "FRAME" \notin lost' PROVE OutboxInFrame' /\ WireInFrame'
    BY DEF FrameInv
  <2>1. PICK c \in Conns :
          /\ conn[c] = "served" /\ wire[c] # <<>> /\ HandlePacket(Head(wire[c]))
          /\ wire' = [wire EXCEPT ![c] = IF Head(wire[c]) \in {Quit, Fin} THEN <<>> ELSE Tail(@)]
          /\ conn' = IF Head(wire[c]) \in {Quit, Fin} THEN Ended(c, Head(wire[c])) ELSE conn
          /\ UNCHANGED <<pcVars, opened, starting>>
    BY <1>12 DEF ReadPacket
  <2>2. UNCHANGED <<sock, lastFrame, lost, outbox>>
    BY <2>1 DEF pcVars
  <2>3. sock \in Conns /\ conn'[sock] = conn[sock] /\ conn[sock] # "closed"
    BY <2>1, <2>2, SockConn DEF Live, Ended, TypeInv
  <2>4. Live /\ OutboxInFrame /\ WireInFrame
    BY <2>2, <2>3 DEF Live, FrameInv
  <2>5. /\ wire[sock] \in Seq(Sent) /\ Len(wire[sock]) \in Nat
        /\ wire \in [Conns -> Seq(Sent \cup {Fin, Quit})]
    BY <2>4, LiveWire
  <2>6. OutboxInFrame'
    BY <2>2, <2>4 DEF OutboxInFrame, Mapped
  <2>7. CASE c # sock
    <3>1. wire'[sock] = wire[sock] /\ conn[sock] # "served"
      BY <2>1, <2>3, <2>5, <2>7 DEF NetInv, NetFits
    <3>2. \A n, g : Latest(n, g) => Latest(n, g)'
      BY <2>2, <2>3, <3>1 DEF Latest, LatestIn
    <3>3. WireInFrame'
      BY <2>2, <2>4, <3>1, <3>2 DEF WireInFrame, Mapped
    <3>4. QED BY <2>6, <3>3
  <2>8. CASE c = sock
    <3> DEFINE w == wire[sock]
               v == Tail(w)
               fr == IF w[1].cmd = "FRAME" THEN w[1].f ELSE frame
    <3>1. Head(w) \in Sent /\ Head(w) = w[1] /\ w # <<>>
      BY <2>1, <2>5, <2>8, HeadTailProperties
    <3>2. wire'[sock] = v /\ Head(w) \notin {Quit, Fin}
      BY <2>1, <2>5, <2>8, <3>1, PacketEffect
    <3>3. frame' = fr
      <4>1. Head(w).cmd \in {"DOWN", "MOVE", "UP", "FRAME"}
        BY <3>1 DEF Sent
      <4>2. HandlePacket(Head(w))
        BY <2>1, <2>8
      <4>3. CASE Head(w).cmd = "FRAME"
        BY <3>1, <4>2, <4>3 DEF HandlePacket, HandleFrame
      <4>4. CASE Head(w).cmd = "DOWN"
        BY <3>1, <4>2, <4>4 DEF HandlePacket, HandleDown, state
      <4>5. CASE Head(w).cmd = "MOVE"
        BY <3>1, <4>2, <4>5 DEF HandlePacket, HandleMove, state
      <4>6. CASE Head(w).cmd = "UP"
        BY <3>1, <4>2, <4>6 DEF HandlePacket, HandleUp, state
      <4>7. QED BY <4>1, <4>3, <4>4, <4>5, <4>6
    <3>4. /\ Len(w) \in Nat \ {0} /\ Len(v) = Len(w) - 1
          /\ \A i \in 1..Len(v) : v[i] = w[i + 1]
      BY <2>5, <3>1, HeadTailProperties, EmptySeq
    <3> DEFINE After(n, g) == LatestIn(v, "served", fr, n, g)
    <3>5. \A n \in 1..Len(w) : \A g : Latest(n, g) => After(n - 1, g)
      <4>1. SUFFICES ASSUME NEW n \in 1..Len(w), NEW g, Latest(n, g)
                     PROVE  After(n - 1, g)
        OBVIOUS
      <4>2. LatestIn(w, "served", frame, n, g)
        BY <2>1, <2>8, <4>1 DEF Latest
      <4> HIDE DEF w
      <4>3. w \in Seq(Sent)
        BY <2>5 DEF w
      <4>4. QED BY <3>1, <4>2, <4>3, LatestTail
    <3>6. wire'[sock'] = v /\ conn'[sock'] = "served" /\ frame' = fr /\ lastFrame' = lastFrame
      BY <2>1, <2>2, <2>3, <2>8, <3>2, <3>3
    <3>7. /\ \A i \in 1..Len(w) : Mapped(w[i]) => Latest(i - 1, w[i].f)
          /\ (lastFrame # NoFrame /\ (outbox' = <<>> \/ outbox'[1].cmd # "FRAME"))
               => Latest(Len(w), lastFrame)
      BY <2>2, <2>4 DEF WireInFrame
    <3> HIDE DEF w, v, fr, After
    <3>8. \A i \in 1..Len(v) : Mapped(v[i]) => After(i - 1, v[i].f)
      <4>1. SUFFICES ASSUME NEW i \in 1..Len(v), Mapped(v[i]) PROVE After(i - 1, v[i].f)
        OBVIOUS
      <4>2. i + 1 \in 1..Len(w) /\ i \in 1..Len(w) /\ v[i] = w[i + 1] /\ (i + 1) - 1 = i
        BY <3>4
      <4>3. Latest(i, v[i].f)
        BY <3>7, <4>1, <4>2
      <4>4. QED BY <3>5, <4>2, <4>3
    <3>9. Latest(Len(w), lastFrame) => After(Len(v), lastFrame)
      <4>1. Len(w) \in 1..Len(w) /\ Len(w) - 1 = Len(v)
        BY <3>4
      <4>2. QED BY <3>5, <4>1
    <3>10. WireInFrame'
      BY <3>6, <3>7, <3>8, <3>9, WireInFrameAfter DEF After
    <3>11. QED BY <2>6, <3>10
  <2>9. QED BY <2>7, <2>8
<1>13. CASE PollRotation \/ UNCHANGED vars
  BY <1>13, FrameSame DEF PollRotation, RotationPoll, vars, daemonVars, pcVars, netVars, state
<1>14. QED
  BY <1>2, <1>3, <1>4, <1>5, <1>6, <1>7, <1>8, <1>9, <1>10, <1>11, <1>12, <1>13
     DEF InjectionNext, UIThread, Calls

-----------------------------------------------------------------------------
(* The contacts.                                                           *)
LEMMA DecidesAppend ==
  ASSUME NEW T, NEW q \in Seq(T), NEW p \in T, NEW s, NEW h
  PROVE  /\ Touches(p, s) /\ (p.cmd = "DOWN" <=> s \in h) => Decides(Append(q, p), s, h)
         /\ ~Touches(p, s) /\ Decides(q, s, h) => Decides(Append(q, p), s, h)
         /\ ~Touches(p, s) /\ Silent(q, s) => Silent(Append(q, p), s)
<1> DEFINE v == Append(q, p)
<1>1. /\ Len(q) \in Nat /\ Len(v) = Len(q) + 1 /\ v[Len(v)] = p
      /\ \A i \in 1..Len(q) : v[i] = q[i]
  BY AppendProperties
<1> HIDE DEF v
<1>2. ASSUME Touches(p, s), p.cmd = "DOWN" <=> s \in h PROVE Decides(v, s, h)
  <2>1. Len(v) \in 1..Len(v) /\ \A k \in (Len(v) + 1)..Len(v) : ~Touches(v[k], s)
    BY <1>1
  <2>2. QED BY <1>1, <1>2, <2>1 DEF Decides
<1>3. ASSUME ~Touches(p, s), Decides(q, s, h) PROVE Decides(v, s, h)
  <2>1. PICK j \in 1..Len(q) : /\ Touches(q[j], s) /\ (q[j].cmd = "DOWN" <=> s \in h)
                               /\ \A k \in (j + 1)..Len(q) : ~Touches(q[k], s)
    BY <1>3 DEF Decides
  <2>2. \A k \in (j + 1)..Len(v) : ~Touches(v[k], s)
    BY <1>1, <1>3, <2>1
  <2>3. j \in 1..Len(v) /\ v[j] = q[j]
    BY <1>1
  <2>4. QED BY <2>1, <2>2, <2>3 DEF Decides
<1>4. ~Touches(p, s) /\ Silent(q, s) => Silent(v, s)
  BY <1>1 DEF Silent
<1>5. QED BY <1>2, <1>3, <1>4 DEF v

LEMMA DecidesTail ==
  ASSUME NEW T, NEW q \in Seq(T), q # <<>>, NEW s, NEW h
  PROVE  /\ Decides(q, s, h) =>
              \/ Decides(Tail(q), s, h)
              \/ Silent(Tail(q), s) /\ Touches(q[1], s) /\ (q[1].cmd = "DOWN" <=> s \in h)
         /\ Silent(q, s) => Silent(Tail(q), s) /\ ~Touches(q[1], s)
<1> DEFINE v == Tail(q)
<1>1. /\ Len(q) \in Nat \ {0} /\ Len(v) = Len(q) - 1
      /\ \A i \in 1..Len(v) : v[i] = q[i + 1]
  BY HeadTailProperties, EmptySeq
<1> HIDE DEF v
<1>2. ASSUME Decides(q, s, h)
      PROVE  \/ Decides(v, s, h)
             \/ Silent(v, s) /\ Touches(q[1], s) /\ (q[1].cmd = "DOWN" <=> s \in h)
  <2>1. PICK j \in 1..Len(q) : /\ Touches(q[j], s) /\ (q[j].cmd = "DOWN" <=> s \in h)
                               /\ \A k \in (j + 1)..Len(q) : ~Touches(q[k], s)
    BY <1>2 DEF Decides
  <2>2. \A k \in j..Len(v) : ~Touches(v[k], s)
    BY <1>1, <2>1
  <2>3. CASE j = 1
    BY <2>1, <2>2, <2>3 DEF Silent
  <2>4. CASE j # 1
    <3>1. j - 1 \in 1..Len(v) /\ v[j - 1] = q[j] /\ (j - 1) + 1 = j
      BY <1>1, <2>4
    <3>2. QED BY <2>1, <2>2, <3>1 DEF Decides
  <2>5. QED BY <2>3, <2>4
<1>3. Silent(q, s) => Silent(v, s) /\ ~Touches(q[1], s)
  BY <1>1 DEF Silent
<1>4. QED BY <1>2, <1>3 DEF v

\* What a packet of a session does to one contact.
LEMMA PacketPanel ==
  ASSUME DaemonInv, NEW p \in Sent, HandlePacket(p), NEW s \in Slots
  PROVE  /\ Touches(p, s) => (Down(s)' <=> p.cmd = "DOWN")
         /\ ~Touches(p, s) => (Down(s)' <=> Down(s))
<1>1. p.cmd \in {"DOWN", "MOVE", "UP", "FRAME"} /\ p.slot \in Slots
  BY DEF Sent
<1>2. track \in [Slots -> TrackIds \cup {NoTrack}]
  BY DEF DaemonInv, PreType
<1>3. CASE p.cmd = "DOWN"
  <2>1. track' = [track EXCEPT ![p.slot] = p.slot + 1] /\ p.slot + 1 # NoTrack
    BY <1>1, <1>3, SlotZero DEF HandlePacket, HandleDown, NoTrack
  <2>2. QED BY <1>1, <1>2, <1>3, <2>1 DEF Touches, Down
<1>4. CASE p.cmd = "UP"
  <2>1. track' = [track EXCEPT ![p.slot] = NoTrack]
    BY <1>1, <1>4 DEF HandlePacket, HandleUp
  <2>2. QED BY <1>1, <1>2, <1>4, <2>1 DEF Touches, Down
<1>5. CASE p.cmd = "MOVE"
  BY <1>5 DEF HandlePacket, HandleMove, Touches, Down
<1>6. CASE p.cmd = "FRAME"
  BY <1>6 DEF HandlePacket, HandleFrame, Touches, Down, panel
<1>7. QED BY <1>1, <1>3, <1>4, <1>5, <1>6

\* A call's packets leave its slot as `held` has it, and the others alone.
LEMMA PacketsHeld ==
  ASSUME TypeInv, NEW c \in Calls, NEW s \in Slots, NEW h,
         s = c.slot => (c.op = "DOWN" => s \in h) /\ (c.op \in {"UP", "SCROLL"} => s \notin h)
  PROVE  \/ Decides(Packets(c), s, h) /\ s = c.slot
         \/ Silent(Packets(c), s) /\ (s # c.slot \/ c.op = "MOVE")
<1> DEFINE k == Announces(c)
           P == Packets(c)
<1>0. c.op \in {"DOWN", "MOVE", "UP", "SCROLL"} /\ c.slot \in Slots
  BY CallFields
<1>1. /\ k # 0 => k = 1 /\ P[1] = Packet("FRAME", 0, c.f, 0, 0)
      /\ c.op = "UP" => Len(P) = k + 1 /\ P[k + 1] = Packet("UP", c.slot, NoFrame, 0, 0)
      /\ c.op \in {"DOWN", "MOVE"} =>
           Len(P) = k + 1 /\ P[k + 1] = Packet(c.op, c.slot, c.f, c.x, c.y)
      /\ c.op = "SCROLL" =>
           /\ Len(P) = k + 3
           /\ P[k + 1] = Packet("DOWN", c.slot, c.f, c.x, c.y)
           /\ P[k + 2] = Packet("MOVE", c.slot, c.f, c.x, c.y)
           /\ P[k + 3] = Packet("UP", c.slot, NoFrame, 0, 0)
  BY PacketsOf DEF TypeInv
<1> HIDE DEF k, P
<1>2. k \in {0, 1} /\ Len(P) \in Nat /\ Len(P) >= k + 1
  BY <1>0, <1>1
<1>3. k = 1 => ~Touches(P[1], s)
  BY <1>1 DEF Packet, Touches
<1>4. CASE s # c.slot \/ c.op = "MOVE"
  <2>1. \A i \in (k + 1)..Len(P) : ~Touches(P[i], s)
    BY <1>0, <1>1, <1>2, <1>4 DEF Packet, Touches
  <2>2. Silent(P, s)
    BY <1>2, <1>3, <2>1 DEF Silent
  <2>3. QED BY <1>4, <2>2 DEF P
<1>5. CASE s = c.slot /\ c.op # "MOVE"
  <2>1. Touches(P[Len(P)], s) /\ (P[Len(P)].cmd = "DOWN" <=> s \in h)
    BY <1>0, <1>1, <1>5 DEF Packet, Touches
  <2>2. Len(P) \in 1..Len(P) /\ \A i \in (Len(P) + 1)..Len(P) : ~Touches(P[i], s)
    BY <1>2
  <2>3. QED BY <1>5, <2>1, <2>2 DEF Decides, P
<1>6. QED BY <1>4, <1>5

LEMMA HeldInit == InjectionInit => HeldInv
BY DEF InjectionInit, HeldInv, Live

LEMMA HeldSame ==
  ASSUME HeldInv, UNCHANGED <<wire, conn, sock, track, held, outbox, lost>>
  PROVE  HeldInv'
BY DEF HeldInv, Live, Settles, WireSettles, Decides, Silent, Touches, PanelFits, Down

\* What is to be shown of the state a step leaves.
LEMMA SettlesAfter ==
  ASSUME NEW s \in Slots, NEW v, NEW q, wire'[sock'] = v, outbox' = q,
         \/ Decides(q, s, held')
         \/ Silent(q, s) /\ (Decides(v, s, held') \/ (Silent(v, s) /\ PanelFits(s)'))
  PROVE  Settles(s)'
BY DEF Settles, WireSettles, Decides, Silent, Touches

\* New packets are queued behind a wire that settles what was held before.
LEMMA HeldQueued ==
  ASSUME TypeInv, HeldInv, step # "send", UNCHANGED <<wire, conn, sock, track, lost>>,
         NEW q, outbox' = q,
         \A s \in Slots : \/ Decides(q, s, held')
                          \/ Silent(q, s) /\ (s \in held' <=> s \in held)
  PROVE  HeldInv'
<1>1. outbox = <<>>
  BY DEF TypeInv, StepFits
<1> SUFFICES ASSUME Live', "TOUCH" \notin lost', NEW s \in Slots PROVE Settles(s)'
  BY DEF HeldInv
<1>2. Settles(s)
  BY DEF HeldInv, Live
<1>3. WireSettles(s)
  BY <1>1, <1>2 DEF Settles, Decides
<1>4. CASE Decides(q, s, held')
  BY <1>4, SettlesAfter
<1>5. CASE Silent(q, s) /\ (s \in held' <=> s \in held)
  <2>1. Decides(wire[sock], s, held) => Decides(wire[sock], s, held')
    BY <1>5 DEF Decides
  <2>2. PanelFits(s) => PanelFits(s)'
    BY <1>5 DEF PanelFits, Down
  <2>3. wire'[sock'] = wire[sock]
    OBVIOUS
  <2>4. QED BY <1>3, <1>5, <2>1, <2>2, <2>3, SettlesAfter DEF WireSettles
<1>6. QED BY <1>4, <1>5

LEMMA HeldNext ==
  TypeInv /\ TypeInv' /\ NetInv /\ NetInv' /\ DaemonInv /\ HeldInv /\ [InjectionNext]_vars
    => HeldInv'
<1> SUFFICES ASSUME TypeInv, TypeInv', NetInv, NetInv', DaemonInv, HeldInv, [InjectionNext]_vars
             PROVE  HeldInv'
  OBVIOUS
<1>1. ASSUME NEW c \in Calls, Dispatch(c), step # "send", UNCHANGED <<daemonVars, netVars>>
      PROVE  HeldInv'
  <2>1. UNCHANGED <<wire, conn, sock, track, lost>>
    BY <1>1 DEF Dispatch, daemonVars, netVars, panel
  <2>2. CASE step' = "send"
    <3>1. /\ outbox' = Packets(c)
          /\ held' = CASE c.op = "DOWN" -> held \cup {c.slot}
                       [] c.op \in {"UP", "SCROLL"} -> held \ {c.slot}
                       [] OTHER -> held
      BY <1>1, <2>2 DEF Dispatch
    <3>2. c.op \in {"DOWN", "MOVE", "UP", "SCROLL"}
      BY CallFields
    <3>3. \A s \in Slots : \/ Decides(Packets(c), s, held')
                           \/ Silent(Packets(c), s) /\ (s \in held' <=> s \in held)
      <4>1. SUFFICES ASSUME NEW s \in Slots
                     PROVE  \/ Decides(Packets(c), s, held')
                            \/ Silent(Packets(c), s) /\ (s \in held' <=> s \in held)
        OBVIOUS
      <4> DEFINE h == held'
      <4>2. s = c.slot => (c.op = "DOWN" => s \in h) /\ (c.op \in {"UP", "SCROLL"} => s \notin h)
        BY <3>1, <3>2
      <4>3. s # c.slot \/ c.op = "MOVE" => (s \in h <=> s \in held)
        BY <3>1, <3>2
      <4> HIDE DEF h
      <4>4. \/ Decides(Packets(c), s, h) /\ s = c.slot
            \/ Silent(Packets(c), s) /\ (s # c.slot \/ c.op = "MOVE")
        BY <4>2, PacketsHeld
      <4>5. QED BY <4>3, <4>4 DEF h
    <3>4. QED BY <1>1, <2>1, <3>1, <3>3, HeldQueued
  <2>3. CASE step' # "send"
    BY <1>1, <2>1, <2>3, HeldSame DEF Dispatch
  <2>4. QED BY <2>2, <2>3
<1>2. ASSUME NEW c \in Calls, TouchEvent(c) PROVE HeldInv'
  <2>1. CASE attempted
    BY <1>1, <1>2, <2>1 DEF TouchEvent
  <2>2. CASE ~attempted
    BY <1>2, <2>2, HeldSame DEF TouchEvent, daemonVars, netVars, panel
  <2>3. QED BY <2>1, <2>2
<1>3. CASE DispatchAfterStart
  <2>1. call \in Calls
    BY <1>3 DEF DispatchAfterStart, TypeInv, InjectionTypeOK, StepFits, Calls
  <2>2. QED BY <1>1, <1>3, <2>1 DEF DispatchAfterStart
<1>4. CASE StartFails \/ LaunchDaemon \/ SendNothing \/ SendPendingResize \/ BindFails
  BY <1>4, HeldSame DEF StartFails, LaunchDaemon, SendNothing, SendPendingResize,
     BindFails, daemonVars, netVars, pcVars, panel
<1>5. ASSUME NEW f \in Frames, ResizeDisplay(f) PROVE HeldInv'
  <2>1. UNCHANGED <<wire, conn, sock, track, held, lost>> /\ step # "send"
    BY <1>5 DEF ResizeDisplay, daemonVars, netVars, panel
  <2>2. CASE step' = "send"
    <3>1. outbox' = FramePackets(f)
      BY <1>5, <2>2 DEF ResizeDisplay
    <3>2. \/ Len(FramePackets(f)) = 0
          \/ /\ Len(FramePackets(f)) = 1
             /\ FramePackets(f)[1] = Packet("FRAME", 0, f, 0, 0)
      BY FramePacketsOf DEF TypeInv
    <3>3. \A s \in Slots : Silent(FramePackets(f), s)
      BY <3>2 DEF Silent, Touches, Packet
    <3>4. QED BY <2>1, <3>1, <3>3, HeldQueued
  <2>3. CASE step' # "send"
    BY <1>5, <2>1, <2>3, HeldSame DEF ResizeDisplay
  <2>4. QED BY <2>2, <2>3
<1>6. CASE Connect
  <2>1. opened' = opened + 1 /\ opened' \in Conns /\ opened \in Nat
    BY <1>6, InjectionAssumption DEF Connect, TypeInv, InjectionTypeOK, Conns
  <2>2. wire'[sock'] = <<>> /\ conn'[sock'] = "queued" /\ held' = {}
    BY <1>6, <2>1 DEF Connect, NetInv, NetFits, TypeInv, InjectionTypeOK
  <2>3. outbox' = <<>>
    BY <1>6 DEF Connect, TypeInv, StepFits
  <2>4. \A s \in Slots : Silent(<<>>, s) /\ PanelFits(s)'
    BY <2>2, EmptySeq DEF Silent, PanelFits
  <2>5. QED BY <2>2, <2>3, <2>4, SettlesAfter DEF HeldInv
<1>7. CASE SendNext
  <2> SUFFICES ASSUME Live', "TOUCH" \notin lost', NEW s \in Slots PROVE Settles(s)'
    BY DEF HeldInv
  <2>1. /\ UNCHANGED <<sock, conn, track, held, lost>>
        /\ wire' = [wire EXCEPT ![sock] = Append(wire[sock], Head(outbox))]
        /\ outbox' = Tail(outbox)
    BY <1>7 DEF SendNext, AfterPacket, daemonVars, panel
  <2>2. Live /\ Settles(s)
    BY <2>1 DEF Live, HeldInv
  <2>3. /\ sock \in Conns /\ wire[sock] \in Seq(Sent)
        /\ wire \in [Conns -> Seq(Sent \cup {Fin, Quit})]
    BY <2>2, LiveWire
  <2>4. /\ outbox \in Seq(Sent) /\ outbox # <<>>
        /\ Head(outbox) \in Sent /\ Head(outbox) = outbox[1]
    BY <1>7, OutboxTail DEF SendNext, TypeInv, InjectionTypeOK
  <2> DEFINE w == wire[sock]
             p == Head(outbox)
             q == Tail(outbox)
  <2>5. wire'[sock'] = Append(w, p) /\ outbox' = q
    BY <2>1, <2>3
  <2>6. /\ Touches(p, s) /\ (p.cmd = "DOWN" <=> s \in held) => Decides(Append(w, p), s, held)
        /\ ~Touches(p, s) /\ Decides(w, s, held) => Decides(Append(w, p), s, held)
        /\ ~Touches(p, s) /\ Silent(w, s) => Silent(Append(w, p), s)
    <3> HIDE DEF w, p
    <3>1. w \in Seq(Sent) /\ p \in Sent
      BY <2>3, <2>4 DEF w, p
    <3>2. QED BY <3>1, DecidesAppend
  <2>7. /\ Decides(outbox, s, held) =>
              \/ Decides(q, s, held)
              \/ Silent(q, s) /\ Touches(p, s) /\ (p.cmd = "DOWN" <=> s \in held)
        /\ Silent(outbox, s) => Silent(q, s) /\ ~Touches(p, s)
    BY <2>4, DecidesTail
  <2>8. PanelFits(s)' <=> PanelFits(s)
    BY <2>1 DEF PanelFits, Down
  <2>9. \/ Decides(q, s, held)
        \/ Silent(q, s) /\ (\/ Decides(Append(w, p), s, held)
                            \/ Silent(Append(w, p), s) /\ PanelFits(s)')
    BY <2>2, <2>6, <2>7, <2>8 DEF Settles, WireSettles
  <2>10. held' = held
    BY <2>1
  <2> HIDE DEF w, p, q
  <2>11. QED BY <2>5, <2>9, <2>10, SettlesAfter
<1>8. CASE SendDrops
  <2> SUFFICES ASSUME Live', "TOUCH" \notin lost', NEW s \in Slots PROVE Settles(s)'
    BY DEF HeldInv
  <2>1. UNCHANGED <<wire, sock, conn, track, held>> /\ outbox' = Tail(outbox)
    BY <1>8 DEF SendDrops, AfterPacket, daemonVars, netVars, panel
  <2>2. "TOUCH" \notin lost /\ Head(outbox).cmd \notin {"DOWN", "UP"}
    BY <1>8 DEF SendDrops
  <2>3. Settles(s)
    BY <2>1, <2>2 DEF Live, HeldInv
  <2>4. outbox \in Seq(Sent) /\ outbox # <<>> /\ Head(outbox) = outbox[1]
    BY <1>8, OutboxTail DEF SendDrops, TypeInv, InjectionTypeOK
  <2>5. ~Touches(outbox[1], s)
    BY <2>2, <2>4 DEF Touches
  <2>6. /\ Decides(outbox, s, held) => Decides(Tail(outbox), s, held)
        /\ Silent(outbox, s) => Silent(Tail(outbox), s)
    BY <2>4, <2>5, DecidesTail
  <2>7. PanelFits(s)' <=> PanelFits(s)
    BY <2>1 DEF PanelFits, Down
  <2> DEFINE q == Tail(outbox)
             w == wire[sock]
  <2>8. \/ Decides(q, s, held)
        \/ Silent(q, s) /\ (Decides(w, s, held) \/ (Silent(w, s) /\ PanelFits(s)'))
    BY <2>3, <2>6, <2>7 DEF Settles, WireSettles
  <2>9. held' = held /\ wire'[sock'] = w /\ outbox' = q
    BY <2>1
  <2> HIDE DEF q, w
  <2>10. QED BY <2>8, <2>9, SettlesAfter
<1>9. CASE Stop \/ PCCrash
  BY <1>9 DEF Stop, PCCrash, ControllerGone, HeldInv, Live
<1>10. CASE Bind
  <2>1. CASE running
    BY <1>10, <2>1, HeldSame DEF Bind, daemonVars, pcVars, panel
  <2>2. CASE ~running
    BY <1>10, <2>2, NothingLives DEF Bind, HeldInv, Live, pcVars
  <2>3. QED BY <2>1, <2>2
<1>11. CASE AcceptNext
  <2> SUFFICES ASSUME Live', "TOUCH" \notin lost', NEW s \in Slots PROVE Settles(s)'
    BY DEF HeldInv
  <2>1. UNCHANGED <<wire, sock, track, held, lost, outbox>> /\ ~client
    BY <1>11 DEF AcceptNext, Accept, pcVars, panel
  <2>2. \A c \in Conns : conn'[c] = conn[c] \/ (conn[c] = "queued" /\ conn'[c] = "served")
    BY <1>11 DEF AcceptNext, TypeInv, InjectionTypeOK
  <2>3. Live /\ Settles(s) /\ sock \in Conns
    BY <2>1, <2>2, SockConn DEF Live, HeldInv, TypeInv
  <2>4. ~Down(s)
    BY <2>1, InvImplies DEF NothingStuckWithoutClient
  <2>5. PanelFits(s) => PanelFits(s)'
    BY <2>1, <2>2, <2>3, <2>4 DEF PanelFits, Down
  <2> DEFINE q == outbox
             w == wire[sock]
  <2>6. \/ Decides(q, s, held)
        \/ Silent(q, s) /\ (Decides(w, s, held) \/ (Silent(w, s) /\ PanelFits(s)'))
    BY <2>3, <2>5 DEF Settles, WireSettles
  <2>7. held' = held /\ wire'[sock'] = w /\ outbox' = q
    BY <2>1
  <2> HIDE DEF q, w
  <2>8. QED BY <2>6, <2>7, SettlesAfter
<1>12. CASE ReadPacket
  <2> SUFFICES ASSUME Live', "TOUCH" \notin lost', NEW s \in Slots PROVE Settles(s)'
    BY DEF HeldInv
  <2>1. PICK c \in Conns :
          /\ conn[c] = "served" /\ wire[c] # <<>> /\ HandlePacket(Head(wire[c]))
          /\ wire' = [wire EXCEPT ![c] = IF Head(wire[c]) \in {Quit, Fin} THEN <<>> ELSE Tail(@)]
          /\ conn' = IF Head(wire[c]) \in {Quit, Fin} THEN Ended(c, Head(wire[c])) ELSE conn
          /\ UNCHANGED <<pcVars, opened, starting>>
    BY <1>12 DEF ReadPacket
  <2>2. UNCHANGED <<sock, held, lost, outbox>>
    BY <2>1 DEF pcVars
  <2>3. sock \in Conns /\ conn'[sock] = conn[sock] /\ conn[sock] # "closed"
    BY <2>1, <2>2, SockConn DEF Live, Ended, TypeInv
  <2>4. Live /\ Settles(s)
    BY <2>2, <2>3 DEF Live, HeldInv
  <2>5. wire[sock] \in Seq(Sent) /\ wire \in [Conns -> Seq(Sent \cup {Fin, Quit})]
    BY <2>4, LiveWire
  <2> DEFINE q == outbox
             w == wire[sock]
  <2>6. CASE c # sock
    <3>1. wire[sock] = wire'[sock'] /\ conn[sock] # "served"
      BY <2>1, <2>2, <2>3, <2>5, <2>6 DEF NetInv, NetFits
    <3>2. PanelFits(s) => PanelFits(s)'
      BY <2>2, <2>3, <3>1 DEF PanelFits
    <3>3. \/ Decides(q, s, held)
          \/ Silent(q, s) /\ (Decides(w, s, held) \/ (Silent(w, s) /\ PanelFits(s)'))
      BY <2>4, <3>2 DEF Settles, WireSettles
    <3>4. held' = held /\ wire'[sock'] = w /\ outbox' = q
      BY <2>2, <3>1
    <3> HIDE DEF q, w
    <3>5. QED BY <3>3, <3>4, SettlesAfter
  <2>7. CASE c = sock
    <3> DEFINE v == Tail(w)
    <3>1. Head(w) \in Sent /\ Head(w) = w[1] /\ w # <<>> /\ HandlePacket(Head(w))
      BY <2>1, <2>5, <2>7, HeadTailProperties
    <3>2. wire'[sock] = v
      BY <2>1, <2>5, <2>7, <3>1, PacketEffect
    <3>3. /\ Touches(w[1], s) => (Down(s)' <=> w[1].cmd = "DOWN")
          /\ ~Touches(w[1], s) => (Down(s)' <=> Down(s))
      BY <3>1, PacketPanel
    <3>4. PanelFits(s)' <=> (Down(s)' <=> s \in held)
      BY <2>1, <2>2, <2>3, <2>7 DEF PanelFits
    <3>5. PanelFits(s) <=> (Down(s) <=> s \in held)
      BY <2>1, <2>7 DEF PanelFits
    <3>6. /\ Decides(w, s, held) =>
               \/ Decides(v, s, held)
               \/ Silent(v, s) /\ Touches(w[1], s) /\ (w[1].cmd = "DOWN" <=> s \in held)
          /\ Silent(w, s) => Silent(v, s) /\ ~Touches(w[1], s)
      BY <2>5, <3>1, DecidesTail
    <3>7. \/ Decides(q, s, held)
          \/ Silent(q, s) /\ (Decides(w, s, held) \/ (Silent(w, s) /\ PanelFits(s)))
      BY <2>4 DEF Settles, WireSettles
    <3> HIDE DEF q, w, v
    <3>8. \/ Decides(q, s, held)
          \/ Silent(q, s) /\ (Decides(v, s, held) \/ (Silent(v, s) /\ PanelFits(s)'))
      BY <3>3, <3>4, <3>5, <3>6, <3>7
    <3>9. held' = held /\ wire'[sock'] = v /\ outbox' = q
      BY <2>2, <3>2 DEF q
    <3>10. QED BY <3>8, <3>9, SettlesAfter
  <2>8. QED BY <2>6, <2>7
<1>13. CASE PollRotation \/ UNCHANGED vars
  BY <1>13, HeldSame DEF PollRotation, RotationPoll, vars, daemonVars, pcVars, netVars, panel
<1>14. QED
  BY <1>2, <1>3, <1>4, <1>5, <1>6, <1>7, <1>8, <1>9, <1>10, <1>11, <1>12, <1>13
     DEF InjectionNext, UIThread, Calls

-----------------------------------------------------------------------------
THEOREM InjectionInvariant == InjectionSpec => []InjectionInv
<1>1. InjectionInit => TypeInv /\ NetInv /\ FrameInv /\ HeldInv
  BY TypeInit, NetInit, FrameInit, HeldInit
<1>2. TypeInv /\ TypeInv' /\ DaemonInv /\ NetInv /\ FrameInv /\ HeldInv /\ [InjectionNext]_vars
        => NetInv' /\ FrameInv' /\ HeldInv'
  BY NetNext, FrameNext, HeldNext
<1>3. TypeInv /\ NetInv /\ FrameInv /\ HeldInv => InjectionInv
  BY DEF TypeInv, NetInv, InjectionInv
<1>4. QED
  BY <1>1, <1>2, <1>3, InjectionTypes, DaemonStaysCorrect, PTL DEF InjectionSpec

\* Each touch reaches the panel in the frame its coordinates refer to, unless a
\* FRAME of its session was lost (ensureFrameSize, handle_frame).
THEOREM FrameSafety == InjectionSpec => []TouchMappedInItsFrame
<1>1. InjectionInv => TouchMappedInItsFrame
  <2> SUFFICES ASSUME InjectionInv, NEW c \in Conns, conn[c] = "served", wire[c] # <<>>,
                      Head(wire[c]).cmd \in {"DOWN", "MOVE"}, ~EmptySize(Head(wire[c]).f),
                      c = sock, "FRAME" \notin lost
               PROVE  frame = Head(wire[c]).f
    BY DEF TouchMappedInItsFrame
  <2>1. Head(wire[c]) = wire[c][1] /\ 1 \in 1..Len(wire[c])
    BY HeadOfWire DEF InjectionInv
  <2>2. Live /\ WireInFrame
    BY SockConn DEF InjectionInv, FrameInv, Live
  <2>3. Latest(0, wire[c][1].f)
    BY <2>1, <2>2 DEF WireInFrame, Mapped
  <2>4. QED BY <2>1, <2>3 DEF Latest, LatestIn
<1>2. QED BY <1>1, InjectionInvariant, PTL

\* Once the daemon has read everything, exactly the contacts the PC holds are
\* down, unless a DOWN or an UP was lost (sendRealTouch, sendPacketReliable).
THEOREM PanelSafety == InjectionSpec => []PanelFollowsCalls
<1>1. InjectionInv => PanelFollowsCalls
  <2> SUFFICES ASSUME InjectionInv, NEW c \in Conns, c = sock, Caught(c), "TOUCH" \notin lost
               PROVE  {s \in Slots : Down(s)} = held
    BY DEF PanelFollowsCalls
  <2>1. Live /\ conn[sock] = "served" /\ wire[sock] = <<>> /\ outbox = <<>>
    BY SockConn DEF Caught, Live, InjectionInv
  <2>2. \A s \in Slots : PanelFits(s)
    BY <2>1, EmptySeq DEF InjectionInv, HeldInv, Settles, WireSettles, Decides
  <2>3. held \subseteq Slots
    BY DEF InjectionInv, InjectionTypeOK
  <2>4. QED BY <2>1, <2>2, <2>3 DEF PanelFits
<1>2. QED BY <1>1, InjectionInvariant, PTL
=============================================================================
