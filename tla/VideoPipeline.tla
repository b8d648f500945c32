---------------------------- MODULE VideoPipeline ----------------------------
(***************************************************************************)
(* VideoPipeline: the demuxer's thread receives packets, decodes them,     *)
(* offers the frames and hands every packet to the recorder; the UI thread *)
(* renders, takes screenshots, flushes the codec when the video's session  *)
(* has changed, and tears everything down in the order of                  *)
(* Device::disconnectDevice(); the recorder's thread writes the file.  The *)
(* UI thread takes newFrame() and sessionChanged() from one queue, in the  *)
(* order they were emitted in.                                             *)
(***************************************************************************)
EXTENDS VideoBuffer, Recorder

CONSTANT MaxPackets  \* the packets the phone sends

ASSUME PipelineAssumption == MaxPackets \in Nat

VARIABLES
  dmx,       \* the demuxer's thread: recv, decode, offer, wait, emit, record, ended
  target,    \* the frame the decoder was given
  received,  \* packets received
  frame,     \* the number of the frame packet in hand
  decoded,   \* pictures decoded
  ui,        \* the UI thread: idle, render, peek, flush, waitStream, waitRecorder,
             \* closed, stuck
  shown,     \* the picture rendered last
  codec,     \* m_codecCtx of the decoder: open, freed
  serverUp,  \* the server and its video socket have not been stopped
  session,   \* sessions of the video received
  ahead,     \* sessionChanged() events before the queued newFrame(), or at its
             \* place when there is none
  behind,    \* sessionChanged() events behind the queued newFrame()
  told,      \* sessions the UI thread has been told of
  drawnIn    \* the session each frame's picture belongs to (history)

demuxerVars == <<dmx, target, received, frame, decoded>>
uiVars == <<ui, shown, codec, serverUp>>
sessionVars == <<session, ahead, behind, told, drawnIn>>
vars == <<bufferVars, recorderVars, demuxerVars, uiVars, sessionVars>>

Init ==
  /\ BufferInit /\ RecorderInit
  /\ dmx = "recv" /\ target = 0 /\ received = 0 /\ frame = 0 /\ decoded = 0
  /\ ui = "idle" /\ shown = 0 /\ codec = "open" /\ serverUp = TRUE
  /\ session = 0 /\ ahead = 0 /\ behind = 0 /\ told = 0
  /\ drawnIn = [f \in Frames |-> 0]

-----------------------------------------------------------------------------
(* The demuxer's thread: run(), and what its direct connections call.      *)

\* A session packet is consumed: sessionChanged() is queued.
RecvSession ==
  /\ dmx = "recv" /\ received < MaxPackets
  /\ received' = received + 1
  /\ session' = session + 1
  /\ IF newFrames = 0 THEN ahead' = ahead + 1 /\ UNCHANGED behind
     ELSE behind' = behind + 1 /\ UNCHANGED ahead
  /\ UNCHANGED <<bufferVars, recorderVars, dmx, target, frame, decoded, uiVars, told, drawnIn>>

\* A config packet goes to the recorder and, joined to the next frame, to the
\* decoder.
RecvConfig ==
  /\ dmx = "recv" /\ received < MaxPackets
  /\ received' = received + 1
  /\ Push(Config)
  /\ UNCHANGED <<bufferVars, dmx, target, frame, decoded, uiVars, sessionVars>>

RecvFrame ==
  /\ dmx = "recv" /\ received < MaxPackets
  /\ received' = received + 1
  /\ frame' = frame + 1
  /\ dmx' = "decode"
  /\ target' = Back
  /\ UNCHANGED <<bufferVars, recorderVars, decoded, uiVars, sessionVars>>

\* The connection ends, or a packet is broken: onStreamStop is queued.
StreamEnds ==
  /\ dmx = "recv"
  /\ dmx' = "ended"
  /\ UNCHANGED <<bufferVars, recorderVars, target, received, frame, decoded, uiVars, sessionVars>>

\* Decoder::push(): a picture, none yet, or a packet that does not decode.  The
\* UI thread may be flushing the same codec meanwhile, without a lock: any of
\* the three may then come of any packet.
Decode(result) ==
  /\ dmx = "decode"
  /\ CASE result = "picture" -> /\ dmx' = "offer" /\ decoded' = decoded + 1
                                /\ Fill(target, decoded + 1)
       [] result = "none"    -> /\ dmx' = "record"
                                /\ Fill(target, 0) /\ UNCHANGED decoded
       [] OTHER              -> dmx' = "record" /\ UNCHANGED <<bufferVars, decoded>>
  /\ drawnIn' = IF result = "picture" THEN [drawnIn EXCEPT ![target] = session] ELSE drawnIn
  /\ UNCHANGED <<recorderVars, target, received, frame, uiVars, session, ahead, behind, told>>

\* offerDecodedFrame() waits on its condition variable, or hands over.
WaitConsumed ==
  /\ dmx = "offer" /\ MayOffer /\ MustWait
  /\ dmx' = "wait"
  /\ UNCHANGED <<bufferVars, recorderVars, target, received, frame, decoded, uiVars, sessionVars>>

OfferFrame ==
  /\ dmx = "offer"
  /\ Offer
  /\ dmx' = IF Skips THEN "record" ELSE "emit"
  /\ UNCHANGED <<recorderVars, target, received, frame, decoded, uiVars, sessionVars>>

NewFrame ==
  /\ dmx = "emit"
  /\ dmx' = "record"
  /\ EmitNewFrame
  /\ UNCHANGED <<recorderVars, target, received, frame, decoded, uiVars, sessionVars>>

Record ==
  /\ dmx = "record"
  /\ dmx' = "recv"
  /\ Push(frame)
  /\ UNCHANGED <<bufferVars, target, received, frame, decoded, uiVars, sessionVars>>

-----------------------------------------------------------------------------
(* The UI thread.                                                          *)

\* Mutant: nobody is told that the frame is consumed.
WokenNever == dmx

\* wakeOne() of the condition variable.
Woken == IF dmx = "wait" /\ renderExpired THEN "offer" ELSE dmx

\* The mutex that the UI thread itself has left locked never comes free.
Locked == ui \in {"idle", "stuck"} /\ mutex = "ui"

\* Mutant: a frame is rendered before anything else in the queue.
AtOnce == TRUE

\* The events queued before newFrame() have been handled.
InTurn == ahead = 0

OnNewFrame ==
  /\ ui = "idle" /\ newFrames > 0 /\ InTurn /\ Consume
  /\ ui' = "render"
  /\ shown' = content[front]
  /\ dmx' = Woken
  /\ ahead' = ahead + behind /\ behind' = 0
  /\ UNCHANGED <<recorderVars, target, received, frame, decoded, codec, serverUp,
                 session, told, drawnIn>>

\* The slot of sessionChanged(): the decoder's codec is flushed, on this thread,
\* and then the windows are told.
OnSessionChanged ==
  /\ ui = "idle" /\ ahead > 0
  /\ ahead' = ahead - 1
  /\ ui' = "flush"
  /\ UNCHANGED <<bufferVars, recorderVars, demuxerVars, shown, codec, serverUp,
                 session, behind, told, drawnIn>>

Flushed ==
  /\ ui = "flush"
  /\ ui' = "idle"
  /\ told' = told + 1
  /\ UNCHANGED <<bufferVars, recorderVars, demuxerVars, shown, codec, serverUp,
                 session, ahead, behind, drawnIn>>

\* m_onFrame() is done, or the screenshot converted.
Rendered ==
  /\ ui \in {"render", "peek"}
  /\ ui' = "idle"
  /\ Unlock
  /\ UNCHANGED <<recorderVars, demuxerVars, shown, codec, serverUp, sessionVars>>

Screenshot ==
  /\ ui = "idle" /\ Peek
  /\ ui' = IF content[front] = 0 THEN "idle" ELSE "peek"
  /\ UNCHANGED <<recorderVars, demuxerVars, shown, codec, serverUp, sessionVars>>

\* The next lock of the mutex that was left locked.
Stick ==
  /\ ui = "idle" /\ Locked
  /\ ui' = "stuck"
  /\ UNCHANGED <<bufferVars, recorderVars, demuxerVars, shown, codec, serverUp, sessionVars>>

\* disconnectDevice(), part by part: the server is stopped, the stream waited
\* for, the decoder closed, the recorder stopped and waited for.
Disconnect ==
  /\ ui = "idle"
  /\ ui' = "waitStream" /\ serverUp' = FALSE
  /\ UNCHANGED <<bufferVars, recorderVars, demuxerVars, shown, codec, sessionVars>>

CloseDecoder == codec' = "freed" /\ Interrupt

StreamWaited ==
  /\ ui = "waitStream" /\ dmx = "ended"
  /\ CloseDecoder
  /\ IF rec \in {"off", "ended"} THEN ui' = "closed" /\ UNCHANGED recorderVars
     ELSE ui' = "waitRecorder" /\ StopRecorder
  /\ UNCHANGED <<demuxerVars, shown, serverUp, sessionVars>>

RecorderWaited ==
  /\ ui = "waitRecorder" /\ rec = "ended"
  /\ ui' = "closed"
  /\ UNCHANGED <<bufferVars, recorderVars, demuxerVars, shown, codec, serverUp, sessionVars>>

-----------------------------------------------------------------------------
Demux ==
  \/ \E result \in {"picture", "none", "error"} : Decode(result)
  \/ WaitConsumed \/ OfferFrame \/ NewFrame \/ Record

RecorderThread == RecorderStep /\ UNCHANGED <<bufferVars, demuxerVars, uiVars, sessionVars>>

Next ==
  \/ RecvSession \/ RecvConfig \/ RecvFrame \/ StreamEnds \/ Demux
  \/ RecorderThread
  \/ OnNewFrame \/ Rendered \/ Screenshot \/ Stick \/ OnSessionChanged \/ Flushed
  \/ Disconnect \/ StreamWaited \/ RecorderWaited

(***************************************************************************)
(* Threads run; the UI thread serves the events of its queue in turn, so   *)
(* that screenshots do not starve frames; a stream whose server was        *)
(* stopped ends.  Neither the phone nor the user has to do anything.       *)
(***************************************************************************)
Fairness ==
  /\ WF_vars(Demux) /\ WF_vars(RecorderThread)
  /\ WF_vars(~serverUp /\ StreamEnds)
  /\ SF_vars(OnNewFrame) /\ WF_vars(Rendered)
  /\ SF_vars(OnSessionChanged) /\ WF_vars(Flushed)
  /\ WF_vars(StreamWaited) /\ WF_vars(RecorderWaited)

Spec == Init /\ [][Next]_vars
FairSpec == Spec /\ Fairness

-----------------------------------------------------------------------------
TypeOK ==
  /\ front \in Frames /\ target \in Frames /\ content \in [Frames -> 0..MaxPackets]
  /\ {consumed, interrupted, renderExpired, stopped, failed, header, serverUp} \subseteq BOOLEAN
  /\ mutex \in {"free", "ui"} /\ newFrames \in 0..1
  /\ rec \in {"off", "run", "write", "ended"}
  /\ dmx \in {"recv", "decode", "offer", "wait", "emit", "record", "ended"}
  /\ ui \in {"idle", "render", "peek", "flush", "waitStream", "waitRecorder", "closed", "stuck"}
  /\ session \in 0..MaxPackets /\ told \in 0..session
  /\ ahead \in 0..session /\ behind \in 0..session
  /\ codec \in {"open", "freed"} /\ shown \in 0..MaxPackets

\* One newFrame() is under way exactly while a frame is not consumed, so that
\* onNewFrame() never finds it consumed already (Q_ASSERT, videobuffer.cpp:97).
OneEventPerFrame ==
  newFrames + (IF dmx = "emit" THEN 1 ELSE 0) = (IF consumed THEN 0 ELSE 1)

\* The frame that is rendered or converted is never the one being decoded
\* into, although the decoder writes without the mutex.
NoTornFrame ==
  /\ ui \in {"render", "peek"} /\ dmx = "decode" => target # front
  /\ ui = "render" => shown = content[front]

\* Pictures are rendered in order, and with renderExpired none is left out.
FramesInOrder ==
  [][shown' # shown => IF renderExpired THEN shown' = shown + 1 ELSE shown' > shown]_vars

\* Where expired frames are rendered too, no picture of a new session is
\* rendered before the windows have been told of that session, however the
\* events and the frames overtake each other (device.cpp:335-343): the size of
\* the video is not set back by an event that comes late.  Where a frame may
\* replace one that has its event already, it is rendered by that event.
PictureAfterItsSession == ui = "render" /\ renderExpired => drawnIn[front] <= told

\* The frames in the file.  A config packet may have been written behind them:
\* the one kept back when the recording ends, which run() writes without looking
\* for one (recorder.cpp:259-264) although "config packets have no PTS, we must
\* ignore them" (line 287).  That packet is no matter of the next property.
FramesWritten ==
  IF file # <<>> /\ file[Len(file)] = Config THEN Len(file) - 1 ELSE Len(file)

\* Every frame that push() has accepted is written once, in order and without
\* gap, up to a failure; without one, at most the last frame of a device that is
\* closed is missing.  It says nothing of the frames push() refuses after a
\* failure: the stream goes on without them, where the comment at
\* recorder.cpp:335 expects it to stop.
FramesInFile ==
  /\ FramesWritten <= Len(accepted)
  /\ \A i \in 1..FramesWritten : file[i] = accepted[i]
  /\ ui = "closed" /\ rec = "ended" /\ ~failed => Len(accepted) - FramesWritten <= 1

Closing == ui \in {"waitStream", "waitRecorder"}

\* A frame that was offered is rendered, and a demuxer's thread that waits for
\* that is woken, until the server is stopped or the mutex was left locked.
NoFrameStranded ==
  ~consumed \/ dmx = "wait" ~> (consumed /\ dmx # "wait") \/ ~serverUp \/ Locked

\* disconnectDevice() returns, with whatever order of the three threads, when
\* expired frames may be dropped and no screenshot was taken of nothing.
DropsThenCloses == Closing /\ ~renderExpired /\ mutex = "free" ~> ui = "closed"

\* disconnectDevice() returns: VideoBuffer::interrupt() is there to "wake up
\* and avoid any blocking call" (videobuffer.h:41).
InterruptUnblocks == Closing /\ mutex = "free" ~> ui = "closed"
=============================================================================
