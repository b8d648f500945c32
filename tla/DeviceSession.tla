---------------------------- MODULE DeviceSession ----------------------------
(***************************************************************************)
(* DeviceSession: one serial number in DeviceManage, its Device, and the   *)
(* Server the Device owns.  A connection is answered or abandoned, and     *)
(* ends by the user's window or stop button, by the end of the server's    *)
(* process, or by the end of the video stream, in any order and at any     *)
(* step of the start-up.  All of it runs on the UI thread; the demuxer's   *)
(* thread is seen here by its end alone.                                   *)
(***************************************************************************)
EXTENDS Server

VARIABLES
  entry,         \* m_devices has the serial
  dev,           \* its Device: none, alive, deleting (deleteLater() called)
  pendingStart,  \* the singleShot(0) of connectDevice()
  server,        \* Device::m_server is not null
  success,       \* m_serverStartSuccess
  stream         \* the demuxer's thread: off, on, ended (onStreamStop queued)

deviceVars == <<entry, dev, pendingStart, server, success, stream>>
vars == <<serverVars, deviceVars>>

Init ==
  /\ ServerInit
  /\ entry = FALSE /\ dev = "none"
  /\ pendingStart = FALSE /\ server = FALSE /\ success = FALSE /\ stream = "off"

\* Mutant: the signal is emitted after the success was forgotten.
DisconnectForgets ==
  IF server
  THEN /\ Stop
       /\ server' = FALSE /\ stream' = "off" /\ success' = FALSE
       /\ UNCHANGED <<entry, dev, pendingStart>>
  ELSE UNCHANGED <<deviceVars, timerVars, tunnelVars, listening, control, proc>>

\* Device::disconnectDevice(): the server first, then the stream, which is
\* waited for; the signal makes DeviceManage drop the entry.
DisconnectDevice ==
  IF server
  THEN /\ Stop
       /\ server' = FALSE /\ stream' = "off" /\ success' = FALSE
       /\ entry' = IF success THEN FALSE ELSE entry
       /\ dev' = IF success /\ entry THEN "deleting" ELSE dev
       /\ UNCHANGED pendingStart
  ELSE UNCHANGED <<deviceVars, timerVars, tunnelVars, listening, control, proc>>

-----------------------------------------------------------------------------
(* DeviceManage and the user's buttons.  A deferred deletion is carried    *)
(* out before the user's next command.                                     *)

Idle == signal = "none"

Connect ==
  /\ ~entry /\ dev = "none"
  /\ entry' = TRUE /\ dev' = "alive" /\ pendingStart' = TRUE /\ server' = TRUE
  /\ UNCHANGED <<serverVars, success, stream>>

StartServer(reverse) ==
  /\ pendingStart /\ Idle
  /\ pendingStart' = FALSE
  /\ Start(reverse)
  /\ UNCHANGED <<restarts, timerVars, tunnelVars, socketVars, proc, signal,
                 entry, dev, server, success, stream>>

\* ~Device(): what disconnectDevice() does, then the children die with it;
\* the adb processes that remove tunnels go on.
DeleteDevice ==
  /\ removing' = IF server /\ enabled
                 THEN removing \cup {IF forward THEN "forward" ELSE "reverse"} ELSE removing
  /\ entry' = IF success THEN FALSE ELSE entry
  /\ dev' = "none" /\ pendingStart' = FALSE /\ server' = FALSE
  /\ success' = FALSE /\ stream' = "off"
  /\ step' = "NULL" /\ useReverse' = TRUE /\ restarts' = 0
  /\ acceptTimer' = FALSE /\ connectTimer' = FALSE /\ tries' = 0
  /\ forward' = FALSE /\ enabled' = FALSE
  /\ listening' = FALSE /\ video' = FALSE /\ control' = FALSE
  /\ work' = "idle" /\ proc' = "idle" /\ signal' = "none"
  /\ UNCHANGED <<tunnels, leaked>>

DeleteLater == dev = "deleting" /\ Idle /\ DeleteDevice

\* DeviceManage::disconnectDevice(), from the stop button.
UserStop == entry /\ dev = "alive" /\ Idle /\ DeleteDevice

\* VideoForm::closeEvent(): there is a window since deviceConnected(true).
CloseWindow ==
  /\ entry /\ dev = "alive" /\ success /\ Idle
  /\ DisconnectDevice
  /\ UNCHANGED <<step, useReverse, restarts, video, work, signal>>

-----------------------------------------------------------------------------
(* The Device's slots.                                                     *)

\* serverStarted(true): the video socket goes to the demuxer's thread.
OnStarted ==
  /\ signal = "started"
  /\ signal' = "none"
  /\ success' = TRUE
  /\ video' = FALSE
  /\ stream' = "on"
  /\ UNCHANGED <<step, useReverse, restarts, timerVars, tunnelVars, listening, control,
                 work, proc, entry, dev, pendingStart, server>>

\* serverStarted(false): DeviceManage drops the entry, then the server stops.
OnFailed ==
  /\ signal = "failed"
  /\ signal' = "none"
  /\ success' = FALSE
  /\ entry' = FALSE /\ dev' = IF entry THEN "deleting" ELSE dev
  /\ Stop
  /\ UNCHANGED <<step, useReverse, restarts, video, work, pendingStart, server, stream>>

\* serverStoped()
OnStopped ==
  /\ signal = "stopped"
  /\ signal' = "none"
  /\ DisconnectDevice
  /\ UNCHANGED <<step, useReverse, restarts, video, work>>

StreamEnds ==
  /\ stream = "on"
  /\ stream' = "ended"
  /\ UNCHANGED <<serverVars, entry, dev, pendingStart, server, success>>

OnStreamStop ==
  /\ stream = "ended" /\ Idle
  /\ DisconnectDevice
  /\ UNCHANGED <<step, useReverse, restarts, video, work, signal>>

-----------------------------------------------------------------------------
Next ==
  \/ ServerEvent /\ UNCHANGED deviceVars
  \/ Connect \/ (\E reverse \in BOOLEAN : StartServer(reverse))
  \/ OnStarted \/ OnFailed \/ OnStopped
  \/ StreamEnds \/ OnStreamStop
  \/ UserStop \/ CloseWindow \/ DeleteLater

(***************************************************************************)
(* Fairness: adb's commands end, timers fire, queued slots run and a       *)
(* killed process dies.  Nothing is asked of the phone or of the user.     *)
(***************************************************************************)
Of(A) == A /\ UNCHANGED deviceVars

Fairness ==
  /\ WF_vars(\E reverse \in BOOLEAN : StartServer(reverse))
  /\ WF_vars(OnStarted \/ OnFailed \/ OnStopped)
  /\ WF_vars(Of(AdbEvent))
  /\ WF_vars(Of(proc = "dying" /\ ProcDies))
  /\ WF_vars(Of(AcceptTimeout))
  /\ WF_vars(Of(\E outcome \in {"ok", "silent", "refused"} : ConnectTick(outcome)))

Spec == Init /\ [][Next]_vars
FairSpec == Spec /\ Fairness

-----------------------------------------------------------------------------
TypeOK ==
  /\ step \in {"NULL", "PUSH", "REVERSE", "FORWARD", "EXECUTE", "RUNNING"}
  /\ work \in {"idle", "push", "reverse", "forward"}
  /\ proc \in {"idle", "starting", "running", "dying"}
  /\ signal \in {"none", "started", "failed", "stopped"}
  /\ tries \in 0..MaxConnect /\ restarts \in 0..MaxRestart
  /\ tunnels \subseteq Tunnels /\ removing \subseteq Tunnels /\ leaked \subseteq Tunnels
  /\ {useReverse, forward, enabled, listening, acceptTimer, connectTimer,
      video, control, entry, pendingStart, server, success} \subseteq BOOLEAN
  /\ dev \in {"none", "alive", "deleting"}
  /\ stream \in {"off", "on", "ended"}

\* serverStarted() is emitted only to a Device that still has its server,
\* whose pointer the slot uses unchecked, and true only once per Device, with
\* both sockets there (device.cpp:260-327).
SlotHasItsServer ==
  /\ signal \in {"started", "failed"} => server
  /\ signal = "started" => video /\ control /\ ~success /\ stream = "off"

\* Once connected nothing of the start-up goes on: no timer that would report
\* a failure, no server socket, no tunnel to remove a second time.
ConnectedIsSettled ==
  success /\ Idle => /\ control /\ ~listening /\ ~enabled /\ work = "idle"
                     /\ ~acceptTimer /\ ~connectTimer

\* A Device that has let go of its server is not reached by any late event of
\* the start-up: the Server object lives on until the Device is deleted.
StoppedIsQuiet ==
  dev = "alive" /\ ~server => /\ work = "idle" /\ ~listening /\ ~enabled
                              /\ ~acceptTimer /\ ~connectTimer
                              /\ proc \in {"idle", "dying"} /\ stream = "off"

\* Whichever way a start-up ends, nothing of it is left to go off later: neither
\* for a device that is connected nor for one that has stopped its server
\* (server.cpp:315-339, called from six places and at any step).
StartUpIsOver == ConnectedIsSettled /\ StoppedIsQuiet

\* A connection keeps no adb tunnel that nobody has tried to remove: a connected
\* device's is gone, is being removed, or is one whose removal, run since it was
\* set up, failed, which nothing looks at (server.cpp:80-84, 103-107).
TunnelReleased == success => tunnels \subseteq removing \cup leaked

phase == CASE ~entry -> "free"
           [] entry /\ success -> "connected"
           [] entry /\ ~success /\ server -> "connecting"
           [] OTHER -> "stuck"

Promise == INSTANCE Session

\* The device manager's observers see what Session promises: one answer per
\* connection, an end only after a success, and a serial that was connected
\* is free again.
KeepsPromise == Promise!Spec

\* A connection attempt comes to an answer or an end, unless the adb process
\* of the last step could not even be started, which no case of the step
\* machine looks at.
Hung == step = "EXECUTE" /\ proc = "idle"
ConnectEnds == phase = "connecting" ~> (phase # "connecting" \/ Hung)
=============================================================================
