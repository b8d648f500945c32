----------------------------- MODULE VideoBuffer -----------------------------
(***************************************************************************)
(* VideoBuffer: the two frames the demuxer's thread and the UI thread      *)
(* exchange.  The demuxer's thread decodes into one of them without the    *)
(* mutex, offers it under the mutex, and waits there for the other to be   *)
(* consumed when expired frames are to be rendered too.  A frame is the    *)
(* number of the decoded picture it holds, 0 for none.                     *)
(***************************************************************************)
EXTENDS Naturals

VARIABLES
  renderExpired,  \* m_renderExpiredFrames
  front,          \* which of the two frames is m_renderingframe
  content,        \* what each frame holds
  consumed,       \* m_renderingFrameConsumed
  interrupted,    \* m_interrupted
  mutex,          \* m_mutex: free, or held by the ui (the demuxer's thread holds
                  \* it within one step)
  newFrames       \* newFrame() events in the UI thread's queue

bufferVars == <<renderExpired, front, content, consumed, interrupted, mutex, newFrames>>

Frames == {0, 1}
Back == 1 - front

BufferInit ==
  /\ renderExpired \in BOOLEAN
  /\ front = 0 /\ content = [f \in Frames |-> 0]
  /\ consumed = TRUE /\ interrupted = FALSE
  /\ mutex = "free" /\ newFrames = 0

\* The decoder writes to the frame it was given, or unreferences it.
Fill(f, n) ==
  /\ content' = [content EXCEPT ![f] = n]
  /\ UNCHANGED <<renderExpired, front, consumed, interrupted, mutex, newFrames>>

\* Mutant: what is rendered is not waited for.
MayOfferUnlocked == TRUE

\* The mutex is taken; with renderExpired the frame before must be gone.
MayOffer == mutex = "free"

\* Mutants: the wait in the wrong mode, and the wait that ends at once.
MustWaitAlways == ~consumed /\ ~interrupted
MustWaitNever == renderExpired /\ ~consumed /\ interrupted

MustWait == renderExpired /\ ~consumed /\ ~interrupted

\* previousFrameSkipped: the event that is on its way will take this frame.
Skips == ~consumed

Offer ==
  /\ MayOffer /\ ~MustWait
  /\ front' = Back
  /\ consumed' = FALSE
  /\ UNCHANGED <<renderExpired, content, interrupted, mutex, newFrames>>

EmitNewFrame ==
  /\ newFrames' = newFrames + 1
  /\ UNCHANGED <<renderExpired, front, content, consumed, interrupted, mutex>>

\* onNewFrame() keeps the mutex until the frame is rendered.
Consume ==
  /\ mutex = "free"
  /\ mutex' = "ui"
  /\ newFrames' = newFrames - 1
  /\ consumed' = TRUE
  /\ UNCHANGED <<renderExpired, front, content, interrupted>>

\* peekRenderedFrame(): the conversion of an empty frame fails, and that
\* return leaves the mutex locked.
Peek ==
  /\ mutex = "free"
  /\ mutex' = "ui"
  /\ UNCHANGED <<renderExpired, front, content, consumed, interrupted, newFrames>>

Unlock ==
  /\ mutex' = "free"
  /\ UNCHANGED <<renderExpired, front, content, consumed, interrupted, newFrames>>

Interrupt ==
  /\ interrupted' = renderExpired
  /\ UNCHANGED <<renderExpired, front, content, consumed, mutex, newFrames>>
=============================================================================
