------------------------------- MODULE Server -------------------------------
(***************************************************************************)
(* Server: the scrcpy server on the phone is pushed, reached through an    *)
(* adb tunnel, executed, and connected to with a video and a control       *)
(* socket.  Everything runs on the UI thread; an action is the handler of  *)
(* one event: the end of an adb process, a timer, a connection.  A signal  *)
(* is emitted to direct connections, so its slot, which is the Device's,   *)
(* runs before anything else: `signal` holds it meanwhile.                 *)
(***************************************************************************)
EXTENDS Naturals

CONSTANTS MaxConnect,  \* MAX_CONNECT_COUNT, 30
          MaxRestart   \* MAX_RESTART_COUNT, 1

ASSUME ServerAssumption == MaxConnect \in Nat /\ MaxRestart \in Nat

VARIABLES
  step,          \* m_serverStartStep
  useReverse,    \* m_params.useReverse
  forward,       \* m_tunnelForward
  enabled,       \* m_tunnelEnabled
  listening,     \* m_serverSocket
  acceptTimer, connectTimer,  \* m_acceptTimeoutTimer, m_connectTimeoutTimer
  tries,         \* m_connectCount
  restarts,      \* m_restartCount
  video, control,             \* m_videoSocket, m_controlSocket
  work,          \* the command m_workProcess runs, or "idle"
  proc,          \* m_serverProcess: idle, starting, running, or dying of kill()
  signal,        \* the signal being emitted, or "none"
  tunnels,       \* tunnels of this connection on the adb server
  removing,      \* adb processes under way that remove one
  leaked         \* tunnels that a removal has failed to remove (history)

timerVars  == <<acceptTimer, connectTimer, tries>>
tunnelVars == <<forward, enabled, tunnels, removing, leaked>>
socketVars == <<listening, video, control>>
serverVars == <<step, useReverse, restarts, timerVars, tunnelVars, socketVars,
                work, proc, signal>>

Tunnels == {"reverse", "forward"}

ServerInit ==
  /\ step = "NULL" /\ useReverse = TRUE
  /\ forward = FALSE /\ enabled = FALSE
  /\ listening = FALSE /\ video = FALSE /\ control = FALSE
  /\ acceptTimer = FALSE /\ connectTimer = FALSE
  /\ tries = 0 /\ restarts = 0
  /\ work = "idle" /\ proc = "idle" /\ signal = "none"
  /\ tunnels = {} /\ removing = {} /\ leaked = {}

Killed(p) == IF p = "idle" THEN "idle" ELSE "dying"

-----------------------------------------------------------------------------
(* start() and stop(), as the handlers and the Device call them.           *)

Start(reverse) ==
  /\ step' = "PUSH" /\ work' = "push"
  /\ useReverse' = reverse

\* Mutant: the timer of the other tunnel is the one stopped.
StopOtherTimer ==
  /\ connectTimer' = (forward /\ connectTimer)
  /\ acceptTimer' = (~forward /\ acceptTimer)
  /\ tries' = IF forward THEN tries ELSE 0
  /\ control' = FALSE /\ proc' = Killed(proc)
  /\ removing' = IF enabled THEN removing \cup {IF forward THEN "forward" ELSE "reverse"}
                 ELSE removing
  /\ forward' = (forward /\ ~enabled) /\ enabled' = FALSE /\ listening' = FALSE
  /\ UNCHANGED <<tunnels, leaked>>

\* Mutant: the tunnel is left to adb.
StopKeepsTunnel ==
  /\ connectTimer' = (~forward /\ connectTimer)
  /\ acceptTimer' = (forward /\ acceptTimer)
  /\ tries' = IF forward THEN 0 ELSE tries
  /\ control' = FALSE /\ proc' = Killed(proc)
  /\ forward' = (forward /\ ~enabled) /\ enabled' = FALSE /\ listening' = FALSE
  /\ UNCHANGED <<tunnels, removing, leaked>>

\* stop(): which timer it stops and which tunnel it removes hang on the same
\* flag, and the step is left as it is.
Stop ==
  /\ connectTimer' = (~forward /\ connectTimer)
  /\ acceptTimer' = (forward /\ acceptTimer)
  /\ tries' = IF forward THEN 0 ELSE tries
  /\ control' = FALSE
  /\ proc' = Killed(proc)
  /\ removing' = IF enabled THEN removing \cup {IF forward THEN "forward" ELSE "reverse"}
                 ELSE removing
  /\ forward' = (forward /\ ~enabled)
  /\ enabled' = FALSE
  /\ listening' = FALSE
  /\ UNCHANGED <<tunnels, leaked>>

Emit(s) == signal' = s

Fail == step' = "NULL" /\ Emit("failed")

-----------------------------------------------------------------------------
(* The adb processes, one command after the other.                         *)

\* execute(): QProcess::start() of a process that has not died yet does
\* nothing but warn.
Execute == /\ step' = "EXECUTE"
           /\ proc' = IF proc = "idle" THEN "starting" ELSE "dying"

PushDone ==
  /\ work = "push" /\ signal = "none"
  /\ IF useReverse
     THEN step' = "REVERSE" /\ work' = "reverse" /\ UNCHANGED forward
     ELSE step' = "FORWARD" /\ work' = "forward" /\ forward' = TRUE
  /\ UNCHANGED <<useReverse, restarts, timerVars, enabled, tunnels, removing, leaked,
                 socketVars, proc, signal>>

TunnelSet(t) == tunnels' = tunnels \cup {t} /\ leaked' = leaked \ {t}

\* The tunnel stands; listen() may find the port taken.
ReverseDone(listens) ==
  /\ work = "reverse" /\ signal = "none"
  /\ work' = "idle"
  /\ TunnelSet("reverse")
  /\ IF listens
     THEN /\ listening' = TRUE
          /\ Execute
          /\ UNCHANGED <<removing, signal>>
     ELSE /\ removing' = removing \cup {"reverse"}
          /\ Fail
          /\ UNCHANGED <<listening, proc>>
  /\ UNCHANGED <<useReverse, restarts, timerVars, forward, enabled, video, control>>

ForwardDone ==
  /\ work = "forward" /\ signal = "none"
  /\ work' = "idle"
  /\ TunnelSet("forward")
  /\ Execute
  /\ UNCHANGED <<useReverse, restarts, timerVars, forward, enabled, removing,
                 socketVars, signal>>

\* A command ends with an error, or does not start: a failed reverse is
\* followed by a forward, anything else ends the attempt.
WorkFails ==
  /\ work # "idle" /\ signal = "none"
  /\ IF work = "reverse"
     THEN /\ forward' = TRUE /\ step' = "FORWARD" /\ work' = "forward"
          /\ UNCHANGED signal
     ELSE /\ work' = "idle" /\ Fail
          /\ UNCHANGED forward
  /\ UNCHANGED <<useReverse, restarts, timerVars, enabled, tunnels, removing, leaked,
                 socketVars, proc>>

\* A command crashes: the error comes while the process still counts as
\* running, so the forward is not started, and the end of the crashed reverse
\* is then taken for the forward's.
WorkCrashes ==
  /\ work # "idle" /\ signal = "none"
  /\ forward' = (forward \/ work = "reverse")
  /\ work' = "idle"
  /\ Fail
  /\ UNCHANGED <<useReverse, restarts, timerVars, enabled, tunnels, removing, leaked,
                 socketVars, proc>>

\* Mutant: nothing limits the wait for the phone's connections.
ProcStartsUntimed ==
  /\ proc = "starting" /\ step = "EXECUTE" /\ signal = "none"
  /\ proc' = "running" /\ step' = "RUNNING" /\ enabled' = TRUE
  /\ connectTimer' = forward
  /\ UNCHANGED <<useReverse, restarts, acceptTimer, tries, forward, tunnels, removing, leaked,
                 socketVars, work, signal>>

\* The server's process runs: connectTo() waits for the phone's connections,
\* or starts connecting itself.
ProcStarts ==
  /\ proc = "starting" /\ step = "EXECUTE" /\ signal = "none"
  /\ proc' = "running"
  /\ step' = "RUNNING"
  /\ enabled' = TRUE
  /\ IF ~forward /\ ~video
     THEN acceptTimer' = TRUE /\ UNCHANGED <<connectTimer, tries>>
     ELSE connectTimer' = TRUE /\ tries' = 0 /\ UNCHANGED acceptTimer
  /\ UNCHANGED <<useReverse, restarts, forward, tunnels, removing, leaked,
                 socketVars, work, signal>>

\* AER_ERROR_MISSING_BINARY is no case of this step: nothing happens any more.
ProcMissing ==
  /\ proc = "starting" /\ signal = "none"
  /\ proc' = "idle"
  /\ UNCHANGED <<step, useReverse, restarts, timerVars, tunnelVars, socketVars,
                 work, signal>>

\* The process ends by itself or is found dead after kill().
ProcDies ==
  /\ proc \in {"running", "dying"} /\ signal = "none"
  /\ proc' = "idle"
  /\ CASE step = "EXECUTE" ->
            /\ IF forward THEN removing' = removing \cup {"forward"} /\ UNCHANGED listening
               ELSE removing' = removing \cup {"reverse"} /\ listening' = FALSE
            /\ Fail
       [] step = "RUNNING" ->
            /\ step' = "NULL" /\ Emit("stopped")
            /\ UNCHANGED <<removing, listening>>
       [] OTHER -> UNCHANGED <<removing, listening, step, signal>>
  /\ UNCHANGED <<useReverse, restarts, timerVars, forward, enabled, tunnels, leaked,
                 video, control, work>>

\* A process of disableTunnelReverse() or disableTunnelForward() has run: whether
\* adb did remove the tunnel or failed, the process is deleted and no one asks.
TunnelRemoved(t, removed) ==
  /\ t \in removing
  /\ removing' = removing \ {t}
  /\ tunnels' = IF removed THEN tunnels \ {t} ELSE tunnels
  /\ leaked' = IF removed THEN leaked \ {t} ELSE leaked \cup ({t} \cap tunnels)
  /\ UNCHANGED <<step, useReverse, restarts, timerVars, forward, enabled,
                 socketVars, work, proc, signal>>

-----------------------------------------------------------------------------
(* Reverse: the phone connects, first for video, then for control.         *)

\* readInfo() waits up to three seconds for the phone's name and size.
VideoConnects(readInfo) ==
  /\ listening /\ proc = "running" /\ ~video /\ signal = "none"
  /\ video' = TRUE
  /\ IF readInfo THEN UNCHANGED <<timerVars, tunnelVars, listening, control, proc, signal>>
     ELSE Stop /\ Emit("failed")
  /\ UNCHANGED <<step, useReverse, restarts, work>>

\* Mutant: the accept timer goes on after the last connection.
ControlKeepsTimer(valid) ==
  /\ listening /\ proc = "running" /\ video /\ signal = "none" /\ valid
  /\ control' = TRUE /\ listening' = FALSE /\ enabled' = FALSE
  /\ removing' = removing \cup {"reverse"}
  /\ Emit("started")
  /\ UNCHANGED <<step, useReverse, restarts, timerVars, forward, tunnels, leaked, video,
                 work, proc>>

ControlConnects(valid) ==
  /\ listening /\ proc = "running" /\ video /\ signal = "none"
  /\ IF valid
     THEN /\ control' = TRUE
          /\ listening' = FALSE
          /\ removing' = removing \cup {"reverse"}
          /\ enabled' = FALSE
          /\ acceptTimer' = FALSE
          /\ Emit("started")
          /\ UNCHANGED <<connectTimer, tries, forward, tunnels, leaked, proc>>
     ELSE Stop /\ Emit("failed")
  /\ UNCHANGED <<step, useReverse, restarts, video, work>>

AcceptTimeout ==
  /\ acceptTimer /\ signal = "none"
  /\ acceptTimer' = FALSE
  /\ Emit("failed")
  /\ UNCHANGED <<step, useReverse, restarts, connectTimer, tries, tunnelVars,
                 socketVars, work, proc>>

-----------------------------------------------------------------------------
(* Forward: the PC connects, and tries again while the phone is not ready. *)

Connected ==
  /\ video' = TRUE /\ control' = TRUE
  /\ connectTimer' = FALSE /\ tries' = 0 /\ restarts' = 0
  /\ removing' = removing \cup {"forward"}
  /\ enabled' = FALSE
  /\ Emit("started")
  /\ UNCHANGED <<step, useReverse, acceptTimer, forward, tunnels, leaked, listening, work,
                 proc>>

\* The attempts are used up: stop, and start once more from the push.
GiveUp ==
  /\ Stop
  /\ IF restarts < MaxRestart
     THEN Start(useReverse) /\ restarts' = restarts + 1 /\ UNCHANGED signal
     ELSE restarts' = 0 /\ Emit("failed") /\ UNCHANGED <<step, work, useReverse>>
  /\ UNCHANGED video

\* onConnectTimer(): a refused connection is not tried again, one whose server
\* says nothing yet is.
ConnectTick(outcome) ==
  /\ connectTimer /\ signal = "none"
  /\ IF outcome = "ok" THEN Connected
     ELSE IF outcome = "refused" \/ tries >= MaxConnect THEN GiveUp
     ELSE /\ tries' = tries + 1
          /\ UNCHANGED <<step, useReverse, restarts, acceptTimer, connectTimer, tunnelVars,
                         socketVars, work, proc, signal>>

-----------------------------------------------------------------------------
AdbEvent ==
  \/ PushDone \/ ForwardDone \/ WorkFails \/ WorkCrashes
  \/ \E listens \in BOOLEAN : ReverseDone(listens)
  \/ ProcStarts \/ ProcMissing

ServerEvent ==
  \/ AdbEvent
  \/ ProcDies
  \/ \E t \in Tunnels, removed \in BOOLEAN : TunnelRemoved(t, removed)
  \/ \E readInfo \in BOOLEAN : VideoConnects(readInfo)
  \/ \E valid \in BOOLEAN : ControlConnects(valid)
  \/ AcceptTimeout
  \/ \E outcome \in {"ok", "silent", "refused"} : ConnectTick(outcome)
=============================================================================
