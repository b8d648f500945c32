------------------------------ MODULE Recorder ------------------------------
(***************************************************************************)
(* Recorder: the thread that writes the file.  It keeps one packet back,   *)
(* to learn its duration from the next.  A packet is the number of its     *)
(* frame, or Config, which has no time stamp.                              *)
(***************************************************************************)
EXTENDS Integers, Sequences

Config == 0
None   == -1

VARIABLES
  rec,       \* the thread: off, run, write (a packet, unlocked), ended
  queue,     \* m_queue
  previous,  \* m_previous
  writing,   \* the packet run() holds while it writes
  stopped, failed,  \* m_stopped, m_failed
  header,    \* m_headerWritten
  file,      \* the packets written as frames
  accepted   \* the frames push() has taken, for the properties

recorderVars == <<rec, queue, previous, writing, stopped, failed, header, file, accepted>>

RecorderInit ==
  /\ rec \in {"off", "run"}
  /\ queue = <<>> /\ previous = None /\ writing = None
  /\ stopped = FALSE /\ failed = FALSE /\ header = FALSE
  /\ file = <<>> /\ accepted = <<>>

\* push(), from the demuxer's thread: its result is only logged.
Push(packet) ==
  IF rec = "off" \/ failed
  THEN UNCHANGED recorderVars
  ELSE /\ queue' = Append(queue, packet)
       /\ accepted' = IF packet = Config THEN accepted ELSE Append(accepted, packet)
       /\ UNCHANGED <<rec, previous, writing, stopped, failed, header, file>>

StopRecorder ==
  /\ stopped' = TRUE
  /\ UNCHANGED <<rec, queue, previous, writing, failed, header, file, accepted>>

\* One round of run(): what was kept back is written, the packet taken is
\* kept back.
Take ==
  /\ rec = "run" /\ queue # <<>>
  /\ queue' = Tail(queue)
  /\ previous' = Head(queue)
  /\ writing' = previous
  /\ rec' = IF previous = None THEN "run" ELSE "write"
  /\ UNCHANGED <<stopped, failed, header, file, accepted>>

\* write(): the first packet makes the header, later config packets are
\* ignored, the others are written; a failure ends the recording.
Write(ok) ==
  /\ rec = "write"
  /\ writing' = None
  /\ IF header /\ writing = Config
     THEN /\ rec' = "run"
          /\ UNCHANGED <<queue, failed, header, file>>
     ELSE IF ok /\ (header \/ writing = Config)
     THEN /\ rec' = "run" /\ header' = TRUE
          /\ file' = IF header THEN Append(file, writing) ELSE file
          /\ UNCHANGED <<queue, failed>>
     ELSE /\ rec' = "ended" /\ failed' = TRUE /\ queue' = <<>>
          /\ UNCHANGED <<header, file>>
  /\ UNCHANGED <<previous, stopped, accepted>>

\* Mutant: a stopped recorder leaves its queue.
FinishAtOnce(ok) ==
  /\ rec = "run" /\ stopped
  /\ rec' = "ended"
  /\ file' = IF ok /\ header /\ previous # None THEN Append(file, previous) ELSE file
  /\ UNCHANGED <<queue, previous, writing, stopped, failed, header, accepted>>

\* The queue is empty and the recorder stopped: the last packet is written
\* with a time stamp computed for it, whatever it is.
Finish(ok) ==
  /\ rec = "run" /\ stopped /\ queue = <<>>
  /\ rec' = "ended"
  /\ file' = IF ok /\ header /\ previous # None THEN Append(file, previous) ELSE file
  /\ UNCHANGED <<queue, previous, writing, stopped, failed, header, accepted>>

RecorderStep ==
  \/ Take
  \/ \E ok \in BOOLEAN : Write(ok) \/ Finish(ok)
=============================================================================
