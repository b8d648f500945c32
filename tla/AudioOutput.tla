---------------------------- MODULE AudioOutput ----------------------------
(***************************************************************************)
(* The sound of a phone (sndcpy): the UI thread opens the sound device and *)
(* starts a worker thread that reads a socket and writes to the device;    *)
(* start() and stop() block the UI thread, the worker goes on meanwhile.   *)
(* What the sndcpy script does is its outcome, the sound is not modelled.  *)
(***************************************************************************)

VARIABLES
  running,       \* m_running
  outputDevice,  \* m_outputDevice: none, open
  worker,        \* the worker thread: off, starting, deaf (no connection),
                 \* waiting (for data), writing
  quitting,      \* it has been told to quit
  call           \* the call the UI thread is blocked in: none, stop, restart, sndcpy

audioVars == <<running, outputDevice, worker, quitting, call>>

AudioInit ==
  /\ running = FALSE /\ outputDevice = "none"
  /\ worker = "off" /\ quitting = FALSE /\ call = "none"

-----------------------------------------------------------------------------
(* The UI thread                                                           *)

\* stop() up to the wait for the worker; start() calls it first when running.
AudioStart ==
  /\ call = "none"
  /\ IF running
     THEN running' = FALSE /\ quitting' = TRUE /\ call' = "restart"
     ELSE call' = "sndcpy" /\ UNCHANGED <<running, quitting>>
  /\ UNCHANGED <<outputDevice, worker>>

\* Mutant: the device is closed before the worker has ended.
AudioStopCloses ==
  /\ call = "none" /\ running
  /\ running' = FALSE /\ quitting' = TRUE /\ call' = "stop"
  /\ outputDevice' = "none" /\ UNCHANGED worker

AudioStop ==
  /\ call = "none" /\ running
  /\ running' = FALSE /\ quitting' = TRUE /\ call' = "stop"
  /\ UNCHANGED <<outputDevice, worker>>

\* stopRecvData() returns, and stopAudioOutput()
WorkerWaited ==
  /\ call \in {"stop", "restart"} /\ worker = "off"
  /\ outputDevice' = "none"
  /\ call' = IF call = "stop" THEN "none" ELSE "sndcpy"
  /\ UNCHANGED <<running, worker, quitting>>

\* runSndcpyProcess() gives up
SndcpyFailed ==
  /\ call = "sndcpy"
  /\ call' = "none"
  /\ UNCHANGED <<running, outputDevice, worker, quitting>>

\* startAudioOutput(), which may find no device for the format; with or without
\* one startRecvData() starts the worker.
SndcpyRan(opened) ==
  /\ call = "sndcpy"
  /\ outputDevice' = IF opened THEN "open" ELSE outputDevice
  /\ worker' = "starting" /\ running' = TRUE /\ call' = "none"
  /\ UNCHANGED quitting

-----------------------------------------------------------------------------
(* The worker thread                                                       *)

\* The connectTo signal: the worker waits for the connection, half a second.
ConnectTo(ok) ==
  /\ worker = "starting"
  /\ worker' = IF ok THEN "waiting" ELSE "deaf"
  /\ UNCHANGED <<running, outputDevice, quitting, call>>

\* readyRead, from the look at m_outputDevice on; without one it reads nothing.
ReadyRead ==
  /\ worker = "waiting" /\ outputDevice # "none"
  /\ worker' = "writing"
  /\ UNCHANGED <<running, outputDevice, quitting, call>>

Written ==
  /\ worker = "writing"
  /\ worker' = "waiting"
  /\ UNCHANGED <<running, outputDevice, quitting, call>>

\* The event loop ends between two handlers, or before the first.
WorkerEnds ==
  /\ quitting /\ worker \in {"starting", "deaf", "waiting"}
  /\ worker' = "off" /\ quitting' = FALSE
  /\ UNCHANGED <<running, outputDevice, call>>

Sound ==
  \/ WorkerWaited
  \/ SndcpyFailed
  \/ \E ok \in BOOLEAN : SndcpyRan(ok) \/ ConnectTo(ok)
  \/ ReadyRead
  \/ Written
  \/ WorkerEnds

-----------------------------------------------------------------------------
\* The worker never writes to a sound device that the UI thread has closed
\* under it, and once stop() has returned neither worker nor device is left.
AudioStopsCleanly ==
  /\ worker = "writing" => outputDevice = "open"
  /\ call = "none" /\ ~running => worker = "off" /\ outputDevice = "none"
=============================================================================
