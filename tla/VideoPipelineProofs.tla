------------------------ MODULE VideoPipelineProofs ------------------------
(***************************************************************************)
(* The safety of VideoPipeline for every number of packets.  The invariant *)
(* says what makes the exchange without a lock sound: from the moment it   *)
(* is given to the decoder until the swap, the demuxer's frame is the back *)
(* one; the other holds the picture decoded before it; and a frame that is *)
(* consumed is the one shown, while one that is not has its event.  Every  *)
(* session received is told of or has its event, in front of the newFrame()*)
(* whose picture belongs to it.                                            *)
(***************************************************************************)
EXTENDS VideoPipeline, TLAPS

Booleans ==
  /\ consumed \in BOOLEAN /\ interrupted \in BOOLEAN /\ renderExpired \in BOOLEAN
  /\ stopped \in BOOLEAN /\ failed \in BOOLEAN /\ header \in BOOLEAN
  /\ serverUp \in BOOLEAN

Values ==
  /\ mutex \in {"free", "ui"}
  /\ rec \in {"off", "run", "write", "ended"}
  /\ dmx \in {"recv", "decode", "offer", "wait", "emit", "record", "ended"}
  /\ ui \in {"idle", "render", "peek", "flush", "waitStream", "waitRecorder", "closed", "stuck"}
  /\ codec \in {"open", "freed"}

\* A picture is decoded from each frame packet at most.
Numbers ==
  /\ front \in Frames /\ target \in Frames /\ content \in [Frames -> Nat]
  /\ newFrames \in 0..1 /\ shown \in Nat
  /\ decoded \in Nat /\ frame \in Nat /\ received \in Nat
  /\ frame <= received /\ received <= MaxPackets
  /\ decoded <= frame /\ (dmx = "decode" => decoded < frame)

\* The swap has not come yet.
Offering == dmx \in {"offer", "wait"}

\* The decoder's frame is the back one until the swap.
TargetInv == dmx = "decode" \/ Offering => target = Back

\* The front frame holds the last picture, the back frame one that is to come.
ContentInv ==
  /\ Offering => content[Back] = decoded /\ content[front] + 1 = decoded
  /\ ~Offering => content[front] = decoded
  /\ content[0] <= decoded /\ content[1] <= decoded

ShownInv ==
  /\ consumed => shown = content[front]
  /\ ~consumed => shown < content[front]
  /\ ~consumed /\ renderExpired => content[front] = shown + 1

EventInv ==
  /\ consumed => newFrames = 0 /\ dmx # "emit"
  /\ ~consumed => (dmx = "emit" <=> newFrames = 0)

\* While the UI thread renders it holds the mutex, and no frame is swapped.
RenderInv == ui = "render" => mutex = "ui" /\ consumed

StopInv == /\ interrupted \/ codec = "freed" \/ stopped => dmx = "ended"

Flushing == IF ui = "flush" THEN 1 ELSE 0

\* Each session received has been told of, is being told of, or is queued; what
\* is queued behind newFrame() is younger than the picture it is about.
SessionInv ==
  /\ session \in Nat /\ told \in Nat /\ ahead \in Nat /\ behind \in Nat
  /\ session <= received
  /\ drawnIn \in [Frames -> Nat]
  /\ told + Flushing + ahead + behind = session
  /\ newFrames = 0 => behind = 0
  /\ \A f \in Frames : drawnIn[f] <= session
  /\ newFrames = 1 /\ renderExpired => drawnIn[front] <= told + Flushing + ahead
  /\ ui = "render" /\ renderExpired => drawnIn[front] <= told

Exchange == Values /\ Numbers /\ TargetInv /\ ContentInv /\ ShownInv /\ EventInv /\ RenderInv

IInv == Booleans /\ Exchange /\ StopInv

USE DEF bufferVars, recorderVars, demuxerVars, uiVars, sessionVars, Offering, Frames, Back
USE PipelineAssumption DEF PipelineAssumption

-----------------------------------------------------------------------------
LEMMA InitInv == Init => IInv
<1>. SUFFICES ASSUME Init PROVE IInv
  OBVIOUS
<1>. USE DEF Init, BufferInit, RecorderInit
<1>1. Booleans
  BY Zenon DEF Booleans
<1>2. Exchange
  BY DEF Exchange, Values, Numbers, TargetInv, ContentInv, ShownInv, EventInv, RenderInv
<1>3. StopInv
  BY DEF StopInv
<1>. QED BY <1>1, <1>2, <1>3 DEF IInv

-----------------------------------------------------------------------------
(* The demuxer's thread.                                                   *)

\* push() leaves the recorder's thread and its flags alone.
LEMMA PushFacts ==
  ASSUME NEW packet, Push(packet)
  PROVE  UNCHANGED <<rec, stopped, failed, header>>
BY DEF Push

\* What the exchange rests on.
LEMMA ExchangeStep ==
  ASSUME Exchange, UNCHANGED <<bufferVars, demuxerVars, shown, ui, codec>>,
         rec' \in {"off", "run", "write", "ended"}
  PROVE  Exchange'
BY DEF Exchange, Values, Numbers, TargetInv, ContentInv, ShownInv, EventInv, RenderInv

LEMMA RecvSessionInv ==
  ASSUME IInv, RecvSession
  PROVE  IInv'
<1>1. Booleans'
  BY Zenon DEF IInv, Booleans, RecvSession
<1>2. Exchange'
  BY SMT DEF IInv, RecvSession,
    Exchange, Values, Numbers, TargetInv, ContentInv, ShownInv, EventInv, RenderInv
<1>3. StopInv'
  BY Zenon DEF IInv, StopInv, Values, RecvSession
<1>. QED BY <1>1, <1>2, <1>3 DEF IInv

LEMMA RecvConfigInv ==
  ASSUME IInv, RecvConfig
  PROVE  IInv'
<1>1. Booleans'
  BY PushFacts, Zenon DEF IInv, Booleans, RecvConfig
<1>2. Exchange'
  BY PushFacts, SMT DEF IInv, RecvConfig,
    Exchange, Values, Numbers, TargetInv, ContentInv, ShownInv, EventInv, RenderInv
<1>3. StopInv'
  BY PushFacts, Zenon DEF IInv, StopInv, Values, RecvConfig
<1>. QED BY <1>1, <1>2, <1>3 DEF IInv

LEMMA RecvFrameInv ==
  ASSUME IInv, RecvFrame
  PROVE  IInv'
<1>1. Booleans'
  BY Zenon DEF IInv, Booleans, RecvFrame
<1>2. Exchange'
  BY SMT DEF IInv, RecvFrame,
    Exchange, Values, Numbers, TargetInv, ContentInv, ShownInv, EventInv, RenderInv
<1>3. StopInv'
  BY Zenon DEF IInv, StopInv, Values, RecvFrame
<1>. QED BY <1>1, <1>2, <1>3 DEF IInv

LEMMA StreamEndsInv ==
  ASSUME IInv, StreamEnds
  PROVE  IInv'
<1>1. Booleans'
  BY Zenon DEF IInv, Booleans, StreamEnds
<1>2. Exchange'
  BY SMT DEF IInv, StreamEnds,
    Exchange, Values, Numbers, TargetInv, ContentInv, ShownInv, EventInv, RenderInv
<1>3. StopInv'
  BY Zenon DEF IInv, StopInv, Values, StreamEnds
<1>. QED BY <1>1, <1>2, <1>3 DEF IInv

LEMMA DecodeInv ==
  ASSUME IInv, NEW result \in {"picture", "none", "error"}, Decode(result)
  PROVE  IInv'
<1>1. Booleans'
  BY Zenon DEF IInv, Booleans, Decode, Fill
<1>2. Exchange'
  BY SMT DEF IInv, Decode, Fill,
    Exchange, Values, Numbers, TargetInv, ContentInv, ShownInv, EventInv, RenderInv
<1>3. StopInv'
  BY Zenon DEF IInv, StopInv, Values, Decode, Fill
<1>. QED BY <1>1, <1>2, <1>3 DEF IInv

LEMMA WaitConsumedInv ==
  ASSUME IInv, WaitConsumed
  PROVE  IInv'
<1>1. Booleans'
  BY Zenon DEF IInv, Booleans, WaitConsumed
<1>2. Exchange'
  BY SMT DEF IInv, WaitConsumed,
    Exchange, Values, Numbers, TargetInv, ContentInv, ShownInv, EventInv, RenderInv
<1>3. StopInv'
  BY Zenon DEF IInv, StopInv, Values, WaitConsumed
<1>. QED BY <1>1, <1>2, <1>3 DEF IInv

\* The frame before has been consumed, or may be dropped: the wait is over for
\* no other reason while the demuxer's thread lives.
LEMMA OfferFrameInv ==
  ASSUME IInv, OfferFrame
  PROVE  IInv'
<1>. USE DEF OfferFrame, Offer, MayOffer, MustWait
<1>1. Booleans'
  BY Zenon DEF IInv, Booleans
<1>2. consumed \/ ~renderExpired
  BY Zenon DEF IInv, StopInv
<1>3. dmx' = IF consumed THEN "emit" ELSE "record"
  BY Zenon DEF Skips
<1>4. consumed' = FALSE
  BY Zenon
<1>5. front' = Back /\ UNCHANGED <<content, mutex, newFrames, renderExpired, shown, ui>>
  BY Zenon
<1>6. Exchange'
  <2>1. CASE consumed
    BY <1>3, <1>4, <1>5, <2>1, SMT DEF IInv,
      Exchange, Values, Numbers, TargetInv, ContentInv, ShownInv, EventInv, RenderInv
  <2>2. CASE ~consumed
    BY <1>2, <1>3, <1>4, <1>5, <2>2, SMT DEF IInv,
      Exchange, Values, Numbers, TargetInv, ContentInv, ShownInv, EventInv, RenderInv
  <2>. QED BY <2>1, <2>2
<1>7. StopInv'
  BY Zenon DEF IInv, StopInv, Values
<1>. QED BY <1>1, <1>6, <1>7 DEF IInv

LEMMA NewFrameInv ==
  ASSUME IInv, NewFrame
  PROVE  IInv'
<1>1. Booleans'
  BY Zenon DEF IInv, Booleans, NewFrame, EmitNewFrame
<1>2. Exchange'
  BY SMT DEF IInv, NewFrame, EmitNewFrame,
    Exchange, Values, Numbers, TargetInv, ContentInv, ShownInv, EventInv, RenderInv
<1>3. StopInv'
  BY Zenon DEF IInv, StopInv, Values, NewFrame, EmitNewFrame
<1>. QED BY <1>1, <1>2, <1>3 DEF IInv

LEMMA RecordInv ==
  ASSUME IInv, Record
  PROVE  IInv'
<1>1. Booleans'
  BY PushFacts, Zenon DEF IInv, Booleans, Record
<1>2. Exchange'
  BY PushFacts, SMT DEF IInv, Record,
    Exchange, Values, Numbers, TargetInv, ContentInv, ShownInv, EventInv, RenderInv
<1>3. StopInv'
  BY PushFacts, Zenon DEF IInv, StopInv, Values, Record
<1>. QED BY <1>1, <1>2, <1>3 DEF IInv

-----------------------------------------------------------------------------
(* The UI thread, and the recorder's.                                      *)

LEMMA OnNewFrameInv ==
  ASSUME IInv, OnNewFrame
  PROVE  IInv'
<1>1. Booleans'
  BY Zenon DEF IInv, Booleans, OnNewFrame, Consume, Woken
<1>2. Exchange'
  BY SMT DEF IInv, OnNewFrame, Consume, Woken,
    Exchange, Values, Numbers, TargetInv, ContentInv, ShownInv, EventInv, RenderInv
<1>3. StopInv'
  BY Zenon DEF IInv, StopInv, Values, OnNewFrame, Consume, Woken
<1>. QED BY <1>1, <1>2, <1>3 DEF IInv

LEMMA RenderedInv ==
  ASSUME IInv, Rendered
  PROVE  IInv'
<1>1. Booleans'
  BY Zenon DEF IInv, Booleans, Rendered, Unlock
<1>2. Exchange'
  BY SMT DEF IInv, Rendered, Unlock,
    Exchange, Values, Numbers, TargetInv, ContentInv, ShownInv, EventInv, RenderInv
<1>3. StopInv'
  BY Zenon DEF IInv, StopInv, Values, Rendered, Unlock
<1>. QED BY <1>1, <1>2, <1>3 DEF IInv

LEMMA ScreenshotInv ==
  ASSUME IInv, Screenshot
  PROVE  IInv'
<1>1. Booleans'
  BY Zenon DEF IInv, Booleans, Screenshot, Peek
<1>2. Exchange'
  BY SMT DEF IInv, Screenshot, Peek,
    Exchange, Values, Numbers, TargetInv, ContentInv, ShownInv, EventInv, RenderInv
<1>3. StopInv'
  BY Zenon DEF IInv, StopInv, Values, Screenshot, Peek
<1>. QED BY <1>1, <1>2, <1>3 DEF IInv

LEMMA StickInv ==
  ASSUME IInv, Stick
  PROVE  IInv'
<1>1. Booleans'
  BY Zenon DEF IInv, Booleans, Stick
<1>2. Exchange'
  BY SMT DEF IInv, Stick,
    Exchange, Values, Numbers, TargetInv, ContentInv, ShownInv, EventInv, RenderInv
<1>3. StopInv'
  BY Zenon DEF IInv, StopInv, Values, Stick
<1>. QED BY <1>1, <1>2, <1>3 DEF IInv

LEMMA OnSessionChangedInv ==
  ASSUME IInv, OnSessionChanged \/ Flushed
  PROVE  IInv'
<1>. USE DEF OnSessionChanged, Flushed
<1>1. Booleans'
  BY Zenon DEF IInv, Booleans
<1>2. Exchange'
  BY SMT DEF IInv,
    Exchange, Values, Numbers, TargetInv, ContentInv, ShownInv, EventInv, RenderInv
<1>3. StopInv'
  BY Zenon DEF IInv, StopInv, Values
<1>. QED BY <1>1, <1>2, <1>3 DEF IInv

LEMMA DisconnectInv ==
  ASSUME IInv, Disconnect
  PROVE  IInv'
<1>1. Booleans'
  BY Zenon DEF IInv, Booleans, Disconnect
<1>2. Exchange'
  BY SMT DEF IInv, Disconnect,
    Exchange, Values, Numbers, TargetInv, ContentInv, ShownInv, EventInv, RenderInv
<1>3. StopInv'
  BY Zenon DEF IInv, StopInv, Values, Disconnect
<1>. QED BY <1>1, <1>2, <1>3 DEF IInv

LEMMA StreamWaitedInv ==
  ASSUME IInv, StreamWaited
  PROVE  IInv'
<1>1. Booleans'
  BY Zenon DEF IInv, Booleans, StreamWaited, CloseDecoder, Interrupt, StopRecorder
<1>2. Exchange'
  BY SMT DEF IInv, StreamWaited, CloseDecoder, Interrupt, StopRecorder,
    Exchange, Values, Numbers, TargetInv, ContentInv, ShownInv, EventInv, RenderInv
<1>3. StopInv'
  BY Zenon DEF IInv, StopInv, Values, StreamWaited, CloseDecoder, Interrupt, StopRecorder
<1>. QED BY <1>1, <1>2, <1>3 DEF IInv

LEMMA RecorderWaitedInv ==
  ASSUME IInv, RecorderWaited
  PROVE  IInv'
<1>1. Booleans'
  BY Zenon DEF IInv, Booleans, RecorderWaited
<1>2. Exchange'
  BY SMT DEF IInv, RecorderWaited,
    Exchange, Values, Numbers, TargetInv, ContentInv, ShownInv, EventInv, RenderInv
<1>3. StopInv'
  BY Zenon DEF IInv, StopInv, Values, RecorderWaited
<1>. QED BY <1>1, <1>2, <1>3 DEF IInv

LEMMA RecorderThreadInv ==
  ASSUME IInv, RecorderThread
  PROVE  IInv'
<1>1. Booleans'
  BY Zenon DEF IInv, Booleans, RecorderThread, RecorderStep, Take, Write, Finish
<1>2. Exchange'
  BY SMT DEF IInv, RecorderThread, RecorderStep, Take, Write, Finish,
    Exchange, Values, Numbers, TargetInv, ContentInv, ShownInv, EventInv, RenderInv
<1>3. StopInv'
  BY Zenon DEF IInv, StopInv, Values, RecorderThread, RecorderStep, Take, Write, Finish
<1>. QED BY <1>1, <1>2, <1>3 DEF IInv

-----------------------------------------------------------------------------
LEMMA StutterInv == ASSUME IInv, UNCHANGED vars PROVE IInv'
<1>1. Booleans'
  BY Zenon DEF IInv, Booleans, vars
<1>2. Exchange'
  BY ExchangeStep DEF IInv, Exchange, Values, vars
<1>3. StopInv'
  BY Zenon DEF IInv, StopInv, vars
<1>. QED BY <1>1, <1>2, <1>3 DEF IInv

LEMMA StepInv == IInv /\ [Next]_vars => IInv'
<1>. SUFFICES ASSUME IInv, [Next]_vars PROVE IInv'
  OBVIOUS
<1>1. CASE RecvSession \/ RecvConfig \/ RecvFrame \/ StreamEnds
  BY <1>1, RecvSessionInv, RecvConfigInv, RecvFrameInv, StreamEndsInv, Zenon
<1>2. CASE Demux
  BY <1>2, DecodeInv, WaitConsumedInv, OfferFrameInv, NewFrameInv, RecordInv, Zenon DEF Demux
<1>3. CASE RecorderThread
  BY <1>3, RecorderThreadInv
<1>4. CASE OnNewFrame \/ Rendered \/ Screenshot \/ Stick \/ OnSessionChanged \/ Flushed
  BY <1>4, OnNewFrameInv, RenderedInv, ScreenshotInv, StickInv, OnSessionChangedInv, Zenon
<1>5. CASE Disconnect \/ StreamWaited \/ RecorderWaited
  BY <1>5, DisconnectInv, StreamWaitedInv, RecorderWaitedInv, Zenon
<1>6. CASE UNCHANGED vars
  BY <1>6, StutterInv
<1>. QED BY <1>1, <1>2, <1>3, <1>4, <1>5, <1>6, Zenon DEF Next

\* The exchange of frames between the three threads keeps its invariant.
THEOREM Invariance == Spec => []IInv
BY InitInv, StepInv, PTL DEF Spec

-----------------------------------------------------------------------------
(* The sessions.                                                           *)

LEMMA SessionInit == Init => SessionInv
BY DEF Init, BufferInit, SessionInv, Flushing

LEMMA SessionStep == IInv /\ SessionInv /\ [Next]_vars => SessionInv'
<1>. SUFFICES ASSUME IInv, SessionInv, [Next]_vars PROVE SessionInv'
  OBVIOUS
<1>. USE DEF SessionInv, Flushing
<1>1. CASE RecvSession
  BY <1>1 DEF RecvSession, IInv, Exchange, Numbers
<1>2. CASE RecvConfig \/ RecvFrame \/ StreamEnds \/ WaitConsumed \/ Record
  BY <1>2 DEF RecvConfig, RecvFrame, StreamEnds, WaitConsumed, Record, IInv, Exchange, Numbers
<1>3. CASE \E result \in {"picture", "none", "error"} : Decode(result)
  <2>1. target # front /\ dmx = "decode"
    BY <1>3 DEF Decode, IInv, Exchange, Numbers, TargetInv
  <2>. QED BY <1>3, <2>1 DEF Decode, Fill, IInv, Exchange, Numbers
\* With renderExpired no frame is handed over while its event is queued.
<1>4. CASE OfferFrame
  <2>1. newFrames = 0 \/ ~renderExpired
    BY <1>4, Zenon DEF OfferFrame, Offer, MustWait, IInv, Exchange, EventInv, StopInv
  <2>2. mutex = "free" /\ front' = Back /\ ui # "render"
    BY <1>4, Zenon DEF OfferFrame, Offer, MayOffer, IInv, Exchange, RenderInv
  <2>. QED BY <1>4, <2>1, <2>2 DEF OfferFrame, Offer, IInv, Exchange, Numbers
<1>5. CASE NewFrame
  BY <1>5 DEF NewFrame, EmitNewFrame, IInv, Exchange, Numbers, EventInv
<1>6. CASE RecorderThread
  BY <1>6 DEF RecorderThread, IInv, Exchange, Numbers
<1>7. CASE OnNewFrame
  BY <1>7 DEF OnNewFrame, InTurn, Consume, IInv, Exchange, Numbers
<1>8. CASE OnSessionChanged \/ Flushed
  BY <1>8 DEF OnSessionChanged, Flushed, IInv, Exchange, Numbers
<1>9. CASE Rendered \/ Screenshot \/ Stick \/ Disconnect \/ RecorderWaited
  BY <1>9 DEF Rendered, Unlock, Screenshot, Peek, Stick, Disconnect, RecorderWaited,
     IInv, Exchange, Numbers
<1>10. CASE StreamWaited
  BY <1>10 DEF StreamWaited, CloseDecoder, Interrupt, IInv, Exchange, Numbers
<1>11. CASE UNCHANGED vars
  BY <1>11 DEF vars
<1>. QED BY <1>1, <1>2, <1>3, <1>4, <1>5, <1>6, <1>7, <1>8, <1>9, <1>10, <1>11, Zenon
     DEF Next, Demux

\* Every session received is told of in its turn.
THEOREM SessionsAreTold == Spec => []SessionInv
BY SessionInit, SessionStep, Invariance, PTL DEF Spec

\* Where expired frames are rendered, a picture of a new session is rendered only
\* when the windows have been told of it (device.cpp:335-343).
THEOREM SessionSafety == Spec => []PictureAfterItsSession
<1>1. SessionInv => PictureAfterItsSession
  BY DEF SessionInv, PictureAfterItsSession
<1>. QED BY <1>1, SessionsAreTold, PTL

\* Type correctness: at most one newFrame() is queued, whatever is skipped.
THEOREM TypeCorrect == Spec => []TypeOK
<1>1. IInv /\ SessionInv => TypeOK
  <2>. SUFFICES ASSUME IInv, SessionInv PROVE TypeOK
    OBVIOUS
  <2>1. {consumed, interrupted, renderExpired, stopped, failed, header, serverUp} \subseteq BOOLEAN
    BY Zenon DEF IInv, Booleans
  <2>2. content \in [Frames -> 0..MaxPackets] /\ shown \in 0..MaxPackets
    BY DEF IInv, Exchange, Numbers, Values, ContentInv, ShownInv
  <2>3. /\ session \in 0..MaxPackets /\ told \in 0..session
        /\ ahead \in 0..session /\ behind \in 0..session
    BY DEF SessionInv, Flushing, IInv, Exchange, Numbers
  <2>. QED BY <2>1, <2>2, <2>3 DEF IInv, Exchange, Values, Numbers, TypeOK
<1>. QED BY <1>1, Invariance, SessionsAreTold, PTL

\* onNewFrame() never finds its frame consumed already.
THEOREM EventSafety == Spec => []OneEventPerFrame
<1>1. IInv => OneEventPerFrame
  BY DEF IInv, Exchange, Numbers, EventInv, OneEventPerFrame
<1>. QED BY <1>1, Invariance, PTL

\* The decoder, which takes no lock, never writes to a frame being rendered.
THEOREM FrameSafety == Spec => []NoTornFrame
<1>1. IInv => NoTornFrame
  BY DEF IInv, Exchange, Numbers, TargetInv, RenderInv, ShownInv, NoTornFrame
<1>. QED BY <1>1, Invariance, PTL

\* Pictures are rendered in the order they were decoded in, and none is left
\* out where expired frames are rendered too.
THEOREM OrderSafety == Spec => FramesInOrder
<1>1. ASSUME IInv, [Next]_vars, shown' # shown
      PROVE  IF renderExpired THEN shown' = shown + 1 ELSE shown' > shown
  <2>1. OnNewFrame
    BY <1>1 DEF Next, Demux, RecvSession, OnSessionChanged, Flushed, RecvConfig, RecvFrame, StreamEnds, Decode, WaitConsumed,
      OfferFrame, NewFrame, Record, RecorderThread, Rendered, Screenshot, Stick,
      Disconnect, StreamWaited, RecorderWaited, vars
  <2>2. newFrames > 0 /\ shown' = content[front]
    BY <2>1 DEF OnNewFrame
  <2>3. ~consumed
    BY <1>1, <2>2 DEF IInv, Exchange, EventInv
  <2>. QED BY <1>1, <2>2, <2>3 DEF IInv, Exchange, Numbers, ShownInv
<1>2. ASSUME IInv, [Next]_vars
      PROVE  [shown' # shown => IF renderExpired THEN shown' = shown + 1
                                                 ELSE shown' > shown]_vars
  BY <1>1, <1>2, Zenon
<1>. QED BY <1>2, Invariance, PTL DEF Spec, FramesInOrder

-----------------------------------------------------------------------------
(***************************************************************************)
(* The file.  What the recorder has been given and has not written waits   *)
(* in three places, the packet being written, the one kept back and the    *)
(* queue, in this order, with config packets in between.  The frames among *)
(* them are the accepted ones the file has not got yet.                    *)
(***************************************************************************)
Packets == Nat \cup {None}
Waits(n) == n = writing \/ n = previous \/ \E i \in 1..Len(queue) : queue[i] = n

\* The frames accepted: each one received, but for one still in the decoder.
Handed == IF dmx \in {"decode", "offer", "wait", "emit", "record"} THEN frame - 1 ELSE frame

FileTypes ==
  /\ queue \in Seq(Nat) /\ file \in Seq(Nat) /\ accepted \in Seq(Nat)
  /\ previous \in Packets /\ writing \in Packets

InOrder ==
  /\ \A i, j \in 1..Len(queue) : i < j /\ queue[j] # Config => queue[i] < queue[j]
  /\ \A i \in 1..Len(queue) : queue[i] # Config => previous < queue[i] /\ writing < queue[i]
  /\ previous # Config => writing < previous \/ previous = None

NoneLost == \A n \in Nat \ {0} : Waits(n) <=> Len(file) < n /\ n <= Len(accepted)

Numbered == /\ \A i \in 1..Len(accepted) : accepted[i] = i
            /\ \A i \in 1..Len(file) : file[i] = i \/ (i = Len(file) /\ file[i] = Config)

Recording ==
  /\ ~failed
  /\ Len(accepted) = Handed
  /\ Len(file) <= Len(accepted) /\ \A i \in 1..Len(file) : file[i] = i
  /\ InOrder /\ NoneLost
  /\ rec = "run" <=> writing = None

FileInv ==
  /\ FileTypes /\ Numbered
  /\ Handed \in Nat
  /\ rec = "off" => file = <<>>
  /\ rec \in {"run", "write"} => Recording
  /\ rec = "ended" =>
       /\ failed \/ stopped
       /\ FramesWritten <= Len(accepted)
       /\ ~failed => Len(accepted) - FramesWritten <= 1

USE DEF Config, None

LEMMA FileFacts ==
  ASSUME FileTypes
  PROVE  /\ Len(queue) \in Nat /\ Len(file) \in Nat /\ Len(accepted) \in Nat
         /\ \A i \in 1..Len(queue) : queue[i] \in Nat
         /\ \A i \in 1..Len(file) : file[i] \in Nat
         /\ previous \in Int /\ writing \in Int
BY DEF FileTypes, Packets

LEMMA FileInit == Init => FileInv
<1>. SUFFICES ASSUME Init PROVE FileInv
  OBVIOUS
<1>1. /\ queue = <<>> /\ file = <<>> /\ accepted = <<>> /\ previous = None /\ writing = None
      /\ rec \in {"off", "run"} /\ failed = FALSE /\ dmx = "recv" /\ frame = 0
  BY DEF Init, RecorderInit
<1>2. Handed = 0
  BY <1>1 DEF Handed
<1>. QED BY <1>1, <1>2
   DEF FileInv, FileTypes, Packets, Numbered, Recording, InOrder, NoneLost, Waits

\* What leaves the recorder alone and gives it nothing.
LEMMA FileKept ==
  ASSUME FileInv, UNCHANGED recorderVars, Handed' = Handed
  PROVE  FileInv'
BY DEF FileInv, FileTypes, Numbered, Recording, InOrder, NoneLost, Waits, FramesWritten

\* A config packet waits at the end of the queue.
LEMMA ConfigPushed ==
  ASSUME FileInv, rec \in {"off", "run", "write"}, Push(Config), Handed' = Handed
  PROVE  FileInv'
<1>1. CASE rec = "off" \/ failed
  BY <1>1, FileKept DEF Push
<1>2. CASE ~(rec = "off" \/ failed)
  <2>1. /\ queue' = Append(queue, Config)
        /\ UNCHANGED <<rec, previous, writing, stopped, failed, header, file, accepted>>
    BY <1>2 DEF Push
  <2>2. /\ queue' \in Seq(Nat) /\ Len(queue') = Len(queue) + 1 /\ queue'[Len(queue) + 1] = Config
        /\ \A i \in 1..Len(queue) : queue'[i] = queue[i]
    BY <2>1 DEF FileInv, FileTypes
  <2>3. Recording
    BY <1>2 DEF FileInv
  <2>4. NoneLost'
    BY <2>1, <2>2, <2>3 DEF Recording, NoneLost, Waits, FileInv, FileTypes
  <2>5. InOrder'
    <3>1. InOrder
      BY <2>3 DEF Recording
    <3>2. ASSUME NEW i \in 1..Len(queue'), NEW j \in 1..Len(queue'), i < j, queue'[j] # Config
          PROVE  queue'[i] < queue'[j]
      <4>1. j # Len(queue) + 1 /\ Len(queue) \in Nat
        BY <2>2, <3>2, FileFacts DEF FileInv
      <4>2. i \in 1..Len(queue) /\ j \in 1..Len(queue)
        BY <2>2, <3>2, <4>1
      <4>. QED BY <2>2, <3>1, <3>2, <4>2 DEF InOrder
    <3>3. ASSUME NEW i \in 1..Len(queue'), queue'[i] # Config
          PROVE  previous < queue'[i] /\ writing < queue'[i]
      <4>1. i # Len(queue) + 1 /\ Len(queue) \in Nat
        BY <2>2, <3>3, FileFacts DEF FileInv
      <4>2. i \in 1..Len(queue)
        BY <2>2, <4>1
      <4>. QED BY <2>2, <3>1, <3>3, <4>2 DEF InOrder
    <3>. QED BY <2>1, <3>1, <3>2, <3>3 DEF InOrder
  <2>. QED BY <2>1, <2>2, <2>3, <2>4, <2>5 DEF FileInv, FileTypes, Numbered, Recording
<1>. QED BY <1>1, <1>2

\* A frame that was decoded waits at the end of the queue.
LEMMA FramePushed ==
  ASSUME FileInv, rec \in {"off", "run", "write"}, Push(frame), frame = Handed + 1, Handed' = frame, Handed \in Nat
  PROVE  FileInv'
<1>1. CASE rec = "off" \/ failed
  BY <1>1 DEF Push, FileInv, FileTypes, Numbered, Recording
<1>2. CASE ~(rec = "off" \/ failed)
  <2>0. frame \in Nat /\ frame # Config
    OBVIOUS
  <2>1. /\ queue' = Append(queue, frame) /\ accepted' = Append(accepted, frame)
        /\ UNCHANGED <<rec, previous, writing, stopped, failed, header, file>>
    BY <1>2, <2>0 DEF Push
  <2>2. /\ queue' \in Seq(Nat) /\ Len(queue') = Len(queue) + 1 /\ queue'[Len(queue) + 1] = frame
        /\ \A i \in 1..Len(queue) : queue'[i] = queue[i]
    BY <2>0, <2>1 DEF FileInv, FileTypes
  <2>3. /\ accepted' \in Seq(Nat) /\ Len(accepted') = Len(accepted) + 1
        /\ accepted'[Len(accepted) + 1] = frame
        /\ \A i \in 1..Len(accepted) : accepted'[i] = accepted[i]
    BY <2>0, <2>1 DEF FileInv, FileTypes
  <2>4. Recording /\ Len(accepted) = frame - 1 /\ Len(accepted') = frame
    BY <1>2, <2>3 DEF FileInv, Recording
  <2>. Len(queue) \in Nat /\ Len(file) \in Nat /\ Len(accepted) \in Nat
    BY FileFacts DEF FileInv
  <2>5. \A n \in Nat \ {0} : Waits(n)' <=> Waits(n) \/ n = frame
    BY <2>1, <2>2 DEF Waits
  <2>6. NoneLost'
    BY <2>0, <2>1, <2>4, <2>5 DEF Recording, NoneLost, FileInv, FileTypes
  <2>7. /\ \A i \in 1..Len(queue) : queue[i] < frame
        /\ previous < frame /\ writing < frame
    <3>1. \A n \in Nat \ {0} : Waits(n) => n < frame
      BY <2>0, <2>4 DEF Recording, NoneLost
    <3>2. \A i \in 1..Len(queue) : queue[i] \in Nat
      BY FileFacts DEF FileInv
    <3>3. \A i \in 1..Len(queue) : queue[i] < frame
      BY <2>0, <3>1, <3>2 DEF Waits
    <3>4. ASSUME NEW n \in Packets, n = previous \/ n = writing PROVE n < frame
      <4>1. CASE n \in Nat \ {0}
        BY <3>1, <3>4, <4>1 DEF Waits
      <4>2. CASE n \notin Nat \ {0}
        BY <2>0, <4>2 DEF Packets
      <4>. QED BY <4>1, <4>2
    <3>5. previous < frame /\ writing < frame
      BY <3>4 DEF FileInv, FileTypes
    <3>. QED BY <3>3, <3>5
  <2>8. InOrder'
    <3>1. InOrder
      BY <2>4 DEF Recording
    <3>2. ASSUME NEW i \in 1..Len(queue'), NEW j \in 1..Len(queue'), i < j, queue'[j] # Config
          PROVE  queue'[i] < queue'[j]
      <4>1. i \in 1..Len(queue) /\ j \in 1..(Len(queue) + 1)
        BY <2>2, <3>2
      <4>2. CASE j = Len(queue) + 1
        BY <2>2, <2>7, <4>1, <4>2
      <4>3. CASE j \in 1..Len(queue)
        BY <2>2, <3>1, <3>2, <4>1, <4>3 DEF InOrder
      <4>. QED BY <4>1, <4>2, <4>3
    <3>3. \A i \in 1..Len(queue') : queue'[i] # Config => previous < queue'[i] /\ writing < queue'[i]
      BY <2>2, <2>7, <3>1 DEF InOrder
    <3>. QED BY <2>1, <3>1, <3>2, <3>3 DEF InOrder
  <2>9. Numbered'
    BY <2>1, <2>3, <2>4 DEF FileInv, Numbered
  <2>10. Recording'
    BY <2>1, <2>4, <2>6, <2>8 DEF Recording, FileInv, FileTypes
  <2>. QED BY <1>2, <2>1, <2>2, <2>3, <2>9, <2>10 DEF FileInv, FileTypes
<1>. QED BY <1>1, <1>2

\* The recorder takes a packet and keeps it back.
LEMMA TakeFile ==
  ASSUME FileInv, Take, Handed' = Handed
  PROVE  FileInv'
<1>1. /\ rec = "run" /\ queue # <<>> /\ queue' = Tail(queue) /\ previous' = Head(queue)
      /\ writing' = previous /\ rec' = (IF previous = None THEN "run" ELSE "write")
      /\ UNCHANGED <<stopped, failed, header, file, accepted>>
  BY DEF Take
<1>2. /\ queue \in Seq(Nat) /\ Len(queue) # 0 /\ Len(queue) \in Nat /\ Head(queue) = queue[1]
      /\ queue[1] \in Nat
  BY <1>1 DEF FileInv, FileTypes
<1>3. /\ queue' \in Seq(Nat) /\ Len(queue') = Len(queue) - 1
      /\ \A i \in 1..Len(queue') : queue'[i] = queue[i + 1]
  BY <1>1, <1>2
<1>4. Recording /\ writing = None
  BY <1>1 DEF FileInv, Recording
<1>5. \A n \in Nat \ {0} : Waits(n)' <=> Waits(n)
  <2>. TAKE n \in Nat \ {0}
  <2>1. ASSUME NEW i \in 1..Len(queue), queue[i] = n PROVE Waits(n)'
    <3>1. CASE i = 1
      BY <1>1, <1>2, <2>1, <3>1 DEF Waits
    <3>2. CASE i # 1
      <4>1. i - 1 \in 1..Len(queue') /\ queue'[i - 1] = n
        BY <1>2, <1>3, <2>1, <3>2
      <4>. QED BY <4>1 DEF Waits
    <3>. QED BY <3>1, <3>2
  <2>2. ASSUME NEW i \in 1..Len(queue'), queue'[i] = n PROVE Waits(n)
    <3>1. i + 1 \in 1..Len(queue) /\ queue[i + 1] = n
      BY <1>2, <1>3, <2>2
    <3>. QED BY <3>1 DEF Waits
  <2>. QED BY <1>1, <1>2, <1>4, <2>1, <2>2 DEF Waits
<1>6. NoneLost'
  BY <1>1, <1>4, <1>5 DEF Recording, NoneLost
<1>7. InOrder'
  BY <1>1, <1>2, <1>3, <1>4 DEF Recording, InOrder, FileInv, FileTypes, Packets
<1>8. Recording'
  BY <1>1, <1>4, <1>6, <1>7 DEF Recording
<1>. QED BY <1>1, <1>2, <1>3, <1>8 DEF FileInv, FileTypes, Packets, Numbered

\* A packet is written, left out, or its write fails.
LEMMA WriteFile ==
  ASSUME FileInv, NEW ok \in BOOLEAN, Write(ok), Handed' = Handed
  PROVE  FileInv'
<1>1. /\ rec = "write" /\ writing' = None /\ UNCHANGED <<previous, stopped, accepted>>
  BY DEF Write
<1>2. /\ Recording /\ writing \in Nat
  BY <1>1 DEF FileInv, Recording, FileTypes, Packets
<1>3. CASE rec' = "run" /\ UNCHANGED <<queue, failed, file>> /\ writing = Config
  <2>1. NoneLost' /\ InOrder'
    <3>1. \A n \in Nat \ {0} : Waits(n)' <=> Waits(n)
      BY <1>1, <1>3 DEF Waits
    <3>2. NoneLost'
      BY <1>1, <1>2, <1>3, <3>1 DEF Recording, NoneLost
    <3>3. InOrder'
      BY <1>1, <1>2, <1>3, FileFacts DEF Recording, InOrder, FileInv, FileTypes, Packets
    <3>. QED BY <3>2, <3>3
  <2>2. Recording'
    BY <1>1, <1>2, <1>3, <2>1 DEF Recording
  <2>. QED BY <1>1, <1>3, <2>2 DEF FileInv, FileTypes, Packets, Numbered
<1>4. CASE rec' = "run" /\ UNCHANGED <<queue, failed>> /\ file' = Append(file, writing)
           /\ writing # Config
  <2>1. writing \in Nat \ {0} /\ Waits(writing)
    BY <1>2, <1>4 DEF Waits
  <2>2. Len(file) < writing /\ writing <= Len(accepted)
    BY <1>2, <2>1 DEF Recording, NoneLost
  <2>. Len(queue) \in Nat /\ Len(file) \in Nat /\ Len(accepted) \in Nat
    BY FileFacts DEF FileInv
  <2>3. Waits(Len(file) + 1)
    <3>1. Len(file) + 1 \in Nat \ {0} /\ Len(file) < Len(file) + 1 /\ Len(file) + 1 <= Len(accepted)
      BY <2>1, <2>2
    <3>. QED BY <1>2, <3>1 DEF Recording, NoneLost
  <2>4. writing = Len(file) + 1
    <3>1. InOrder
      BY <1>2 DEF Recording
    <3>2. CASE Len(file) + 1 = writing
      BY <3>2
    <3>3. CASE Len(file) + 1 = previous
      BY <2>1, <2>2, <3>1, <3>3 DEF InOrder
    <3>4. ASSUME NEW i \in 1..Len(queue), Len(file) + 1 = queue[i] PROVE FALSE
      <4>1. writing < queue[i]
        BY <3>1, <3>4 DEF InOrder
      <4>. QED BY <2>1, <2>2, <3>4, <4>1
    <3>. QED BY <2>3, <3>2, <3>3, <3>4 DEF Waits
  <2>5. /\ file' \in Seq(Nat) /\ Len(file') = Len(file) + 1 /\ file'[Len(file) + 1] = writing
        /\ \A i \in 1..Len(file) : file'[i] = file[i]
    BY <1>2, <1>4 DEF FileInv, FileTypes
  <2>6. \A n \in Nat \ {0} : Waits(n)' <=> Waits(n) /\ n # writing
    BY <1>1, <1>2, <1>4, <2>1 DEF Recording, InOrder, Waits, FileInv, FileTypes, Packets
  <2>7. NoneLost'
    <3>1. NoneLost
      BY <1>2 DEF Recording
    <3>2. \A n \in Nat \ {0} : Waits(n)' <=> Len(file) < n /\ n <= Len(accepted) /\ n # Len(file) + 1
      BY <2>4, <2>6, <3>1 DEF NoneLost
    <3>. QED BY <1>1, <2>5, <3>2 DEF NoneLost
  <2>8. InOrder'
    BY <1>1, <1>2, <1>4 DEF Recording, InOrder, FileInv, FileTypes, Packets
  <2>9. Recording' /\ Numbered'
    BY <1>1, <1>2, <1>4, <2>2, <2>4, <2>5, <2>7, <2>8 DEF Recording, Numbered, FileInv, FileTypes
  <2>. QED BY <1>1, <1>4, <2>5, <2>9 DEF FileInv, FileTypes, Packets
<1>5. CASE rec' = "ended" /\ failed' = TRUE /\ queue' = <<>> /\ file' = file
  <2>1. FramesWritten' = Len(file)
    BY <1>2, <1>5 DEF FramesWritten, Recording, FileInv, FileTypes
  <2>. QED BY <1>1, <1>2, <1>5, <2>1 DEF FileInv, FileTypes, Packets, Numbered, Recording
<1>. QED BY <1>2, <1>3, <1>4, <1>5 DEF Write

\* The last packet is written, whatever it is.
LEMMA FinishFile ==
  ASSUME FileInv, NEW ok \in BOOLEAN, Finish(ok), Handed' = Handed
  PROVE  FileInv'
<1>1. /\ rec = "run" /\ stopped /\ queue = <<>> /\ rec' = "ended"
      /\ UNCHANGED <<queue, previous, writing, stopped, failed, header, accepted>>
      /\ file' = file \/ (file' = Append(file, previous) /\ previous # None)
  BY DEF Finish
<1>2. Recording /\ writing = None
  BY <1>1 DEF FileInv, Recording
<1>3. \A n \in Nat \ {0} : Len(file) < n /\ n <= Len(accepted) => n = previous
  BY <1>1, <1>2 DEF Recording, NoneLost, Waits
<1>4. /\ Len(file) <= Len(accepted) /\ Len(accepted) - Len(file) <= 1
      /\ previous > 0 => previous = Len(file) + 1 /\ Len(accepted) = previous
  <2>1. Len(file) \in Nat /\ Len(accepted) \in Nat /\ Len(file) <= Len(accepted)
    BY <1>2 DEF FileInv, FileTypes, Recording
  <2>2. Len(accepted) > Len(file) => Len(accepted) = previous /\ Len(file) + 1 = previous
    BY <1>3, <2>1
  <2>3. previous > 0 => Waits(previous) /\ previous \in Nat \ {0}
    BY DEF Waits, FileInv, FileTypes, Packets
  <2>4. previous > 0 => Len(file) < previous /\ previous <= Len(accepted)
    BY <1>2, <2>3 DEF Recording, NoneLost
  <2>. QED BY <2>1, <2>2, <2>4 DEF FileInv, FileTypes, Packets
<1>5. CASE file' = file
  <2>1. FramesWritten' = Len(file)
    BY <1>2, <1>5 DEF FramesWritten, Recording, FileInv, FileTypes
  <2>. QED BY <1>1, <1>4, <1>5, <2>1 DEF FileInv, FileTypes, Packets, Numbered
<1>6. CASE file' = Append(file, previous) /\ previous # None
  <2>0. previous \in Nat
    BY <1>6 DEF FileInv, FileTypes, Packets
  <2>1. /\ file' \in Seq(Nat) /\ Len(file') = Len(file) + 1 /\ file'[Len(file) + 1] = previous
        /\ \A i \in 1..Len(file) : file'[i] = file[i]
    BY <1>6, <2>0 DEF FileInv, FileTypes
  <2>2. Numbered'
    <3>1. Len(file) \in Nat /\ \A i \in 1..Len(file) : file[i] = i
      BY <1>2, FileFacts DEF Recording, FileInv
    <3>2. previous = Len(file) + 1 \/ previous = Config
      BY <1>4, <2>0
    <3>3. \A i \in 1..Len(file') : file'[i] = i \/ (i = Len(file') /\ file'[i] = Config)
      BY <2>1, <3>1, <3>2
    <3>. QED BY <1>1, <3>3 DEF Numbered, FileInv
  <2>3. FramesWritten' = IF previous = Config THEN Len(file) ELSE Len(file) + 1
    BY <2>1 DEF FramesWritten, FileInv, FileTypes
  <2>4. FramesWritten' <= Len(accepted) /\ Len(accepted) - FramesWritten' <= 1
    BY <1>4, <2>0, <2>3 DEF FileInv, FileTypes
  <2>. QED BY <1>1, <2>1, <2>2, <2>4 DEF FileInv, FileTypes, Packets
<1>. QED BY <1>1, <1>5, <1>6

\* The demuxer's thread hands nothing over when the recorder has ended.
LEMMA NotEnded ==
  ASSUME IInv, FileInv, dmx # "ended", ~failed PROVE rec \in {"off", "run", "write"}
<1>1. rec # "ended"
  BY Zenon DEF IInv, StopInv, FileInv
<1>. QED BY <1>1 DEF IInv, Exchange, Values

LEMMA FileStep == IInv /\ FileInv /\ [Next]_vars => FileInv'
<1>. SUFFICES ASSUME IInv, FileInv, [Next]_vars PROVE FileInv'
  OBVIOUS
<1>0. frame \in Nat
  BY DEF IInv, Exchange, Numbers
<1>1. CASE RecvConfig
  <2>1. Push(Config) /\ dmx = "recv" /\ UNCHANGED <<dmx, frame>>
    BY <1>1 DEF RecvConfig
  <2>2. Handed' = Handed
    BY <2>1 DEF Handed
  <2>3. CASE failed
    BY <2>1, <2>2, <2>3, FileKept DEF Push
  <2>4. CASE ~failed
    BY <2>1, <2>2, <2>4, NotEnded, ConfigPushed
  <2>. QED BY <2>3, <2>4
<1>2. CASE Record
  <2>1. Push(frame) /\ dmx = "record" /\ dmx' = "recv" /\ UNCHANGED frame
    BY <1>2 DEF Record
  <2>2. Handed = frame - 1 /\ Handed' = frame
    BY <2>1 DEF Handed
  <2>3. CASE failed
    BY <1>0, <2>1, <2>2, <2>3 DEF Push, FileInv, FileTypes, Numbered, Recording, FramesWritten
  <2>4. CASE ~failed
    <3>1. Handed \in Nat
      BY DEF FileInv
    <3>. QED BY <1>0, <2>1, <2>2, <2>4, <3>1, NotEnded, FramePushed
  <2>. QED BY <2>3, <2>4
<1>3. CASE RecvSession \/ RecvFrame \/ StreamEnds \/ WaitConsumed \/ OfferFrame \/ NewFrame
           \/ \E result \in {"picture", "none", "error"} : Decode(result)
  <2>1. UNCHANGED recorderVars
    BY <1>3 DEF RecvSession, RecvFrame, StreamEnds, WaitConsumed, OfferFrame, NewFrame, Decode
  <2>2. Handed' = Handed
    BY <1>0, <1>3 DEF Handed, RecvSession, RecvFrame, StreamEnds, WaitConsumed, OfferFrame, NewFrame, Decode
  <2>. QED BY <2>1, <2>2, FileKept
<1>4. CASE RecorderThread
  <2>1. Handed' = Handed
    BY <1>4 DEF RecorderThread, Handed
  <2>. QED BY <1>4, <2>1, TakeFile, WriteFile, FinishFile DEF RecorderThread, RecorderStep
<1>5. CASE OnNewFrame \/ Rendered \/ Screenshot \/ Stick \/ Disconnect \/ RecorderWaited
           \/ OnSessionChanged \/ Flushed \/ UNCHANGED vars
  <2>1. UNCHANGED recorderVars
    BY <1>5 DEF OnSessionChanged, Flushed, OnNewFrame, Rendered, Screenshot, Stick, Disconnect, RecorderWaited, vars
  <2>2. Handed' = Handed
    BY <1>5 DEF Handed, OnSessionChanged, Flushed, OnNewFrame, Woken, Rendered, Screenshot, Stick, Disconnect,
      RecorderWaited, vars
  <2>. QED BY <2>1, <2>2, FileKept
<1>6. CASE StreamWaited
  <2>1. Handed' = Handed
    BY <1>6 DEF Handed, StreamWaited
  <2>2. CASE UNCHANGED recorderVars
    BY <2>1, <2>2, FileKept
  <2>3. CASE StopRecorder
    BY <2>1, <2>3 DEF StopRecorder, FileInv, FileTypes, Numbered, Recording, InOrder, NoneLost,
      Waits, FramesWritten
  <2>. QED BY <1>6, <2>2, <2>3 DEF StreamWaited
<1>. QED BY <1>1, <1>2, <1>3, <1>4, <1>5, <1>6 DEF Next, Demux

\* The accepted frames are in the file in order and without gap, whatever the
\* order of the two threads, and only the last one may be missing when nothing
\* failed (push, run, write of the Recorder).
THEOREM FileSafety == Spec => []FramesInFile
<1>1. FileInv /\ Booleans /\ Values => FramesInFile
  <2>. SUFFICES ASSUME FileInv, Values PROVE FramesInFile
    OBVIOUS
  <2>1. FramesWritten <= Len(accepted)
    BY DEF FileInv, FileTypes, Numbered, Recording, FramesWritten, Values
  <2>2. \A i \in 1..FramesWritten : file[i] = accepted[i]
    <3>1. Len(file) \in Nat /\ Len(accepted) \in Nat /\ Numbered
      BY FileFacts DEF FileInv
    <3>2. SUFFICES ASSUME NEW i \in 1..FramesWritten PROVE file[i] = accepted[i]
      OBVIOUS
    <3>3. i \in 1..Len(file) /\ (i = Len(file) => file[i] # Config)
      BY <3>1 DEF FramesWritten
    <3>4. i \in 1..Len(accepted)
      BY <2>1, <3>1 DEF FramesWritten
    <3>. QED BY <3>1, <3>3, <3>4 DEF Numbered
  <2>. QED BY <2>1, <2>2 DEF FileInv, FramesInFile
<1>2. IInv => Booleans /\ Values
  BY DEF IInv, Exchange
<1>. QED BY <1>1, <1>2, FileInit, FileStep, Invariance, PTL DEF Spec
=============================================================================
