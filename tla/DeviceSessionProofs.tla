------------------------- MODULE DeviceSessionProofs -------------------------
(***************************************************************************)
(* The safety of DeviceSession, and that it implements Session, for every  *)
(* number of attempts and restarts.  None of the properties is inductive:  *)
(* what they say of a connected or an abandoned device follows from what   *)
(* the start-up may have armed at each of its steps, so the invariant says *)
(* which facts a running command, a waiting server process, a timer, a     *)
(* listening socket and an emitted signal each imply.                      *)
(***************************************************************************)
EXTENDS DeviceSession, TLAPS

Booleans ==
  /\ useReverse \in BOOLEAN /\ forward \in BOOLEAN /\ enabled \in BOOLEAN
  /\ listening \in BOOLEAN /\ video \in BOOLEAN /\ control \in BOOLEAN
  /\ acceptTimer \in BOOLEAN /\ connectTimer \in BOOLEAN
  /\ entry \in BOOLEAN /\ pendingStart \in BOOLEAN
  /\ server \in BOOLEAN /\ success \in BOOLEAN

Values ==
  /\ step \in {"NULL", "PUSH", "REVERSE", "FORWARD", "EXECUTE", "RUNNING"}
  /\ work \in {"idle", "push", "reverse", "forward"}
  /\ proc \in {"idle", "starting", "running", "dying"}
  /\ signal \in {"none", "started", "failed", "stopped"}
  /\ dev \in {"none", "alive", "deleting"}
  /\ stream \in {"off", "on", "ended"}

Waiting == acceptTimer \/ connectTimer \/ listening

\* Nothing is armed.
Quiet == /\ ~acceptTimer /\ ~connectTimer /\ ~listening /\ ~enabled /\ work = "idle"

\* The device counts and has its server.
Owned == entry /\ dev = "alive" /\ server

\* Before the first step nothing has happened.
PendingInv == pendingStart => /\ Owned /\ ~success /\ Quiet /\ ~forward /\ ~video
                              /\ step = "NULL" /\ proc = "idle" /\ signal = "none"

\* An adb command runs: it is the step's, and nothing is armed yet.
WorkInv ==
  work # "idle" => /\ Owned /\ ~success /\ signal = "none" /\ ~pendingStart
                   /\ ~acceptTimer /\ ~connectTimer /\ ~listening /\ ~enabled /\ ~video
                   /\ step \notin {"NULL", "EXECUTE", "RUNNING"}
                   /\ work \in {"push", "reverse"} => ~forward
                   /\ work = "forward" => forward
                   /\ proc \in {"idle", "dying"}

\* The server's process is waited for.
ExecuteInv ==
  step = "EXECUTE" => /\ Owned /\ ~success /\ signal = "none" /\ work = "idle"
                      /\ ~acceptTimer /\ ~connectTimer /\ ~enabled /\ ~video
                      /\ proc # "running"

ProcInv == /\ proc = "starting" => step = "EXECUTE"
           /\ proc = "running" => step = "RUNNING"

\* Each timer belongs to its kind of tunnel.
TimerInv ==
  /\ acceptTimer => ~forward
  /\ connectTimer => forward /\ ~video
  /\ listening => ~forward
  /\ acceptTimer \/ connectTimer => enabled /\ step \in {"RUNNING", "NULL"}
  /\ enabled => step \in {"RUNNING", "NULL"}
  /\ Waiting \/ enabled => Owned /\ ~success /\ work = "idle" /\ ~pendingStart

SignalInv ==
  /\ signal = "started" => Owned /\ Quiet /\ control /\ video /\ ~success
  /\ signal = "failed" => server /\ ~success /\ work = "idle"
  /\ signal # "none" => step # "EXECUTE" /\ work = "idle" /\ ~pendingStart /\ dev # "none"
  /\ signal = "stopped" => step = "NULL"

SuccessInv ==
  /\ success => Owned /\ Quiet /\ control /\ ~pendingStart
                /\ signal \in {"none", "stopped"}
  /\ stream # "off" => success

DeviceInv ==
  /\ dev = "none" => /\ ~server /\ signal = "none" /\ proc = "idle" /\ step = "NULL"
                     /\ ~forward /\ ~video
  /\ dev # "alive" => ~pendingStart
  /\ dev = "deleting" => ~entry
  /\ ~entry => dev # "alive"
  /\ ~server => Quiet /\ proc \in {"idle", "dying"} /\ ~pendingStart

\* The present attempt has a tunnel, or the phone is to use it.
InUse == step = "EXECUTE" \/ enabled

\* A tunnel that nobody is removing or failed to remove is the one in use.
TunnelInv ==
  server \/ ~entry =>
    /\ "forward" \in tunnels => "forward" \in removing \cup leaked \/ (InUse /\ forward)
    /\ "reverse" \in tunnels => "reverse" \in removing \cup leaked \/ (InUse /\ ~forward)

TunnelType == tunnels \subseteq Tunnels /\ leaked \subseteq Tunnels

StateInv == /\ Values /\ PendingInv /\ WorkInv /\ ExecuteInv /\ ProcInv /\ TimerInv
            /\ SignalInv /\ SuccessInv /\ DeviceInv

IInv == Booleans /\ StateInv /\ TunnelInv /\ TunnelType

USE DEF serverVars, timerVars, tunnelVars, socketVars, deviceVars, StateInv
USE DEF Values, PendingInv, WorkInv, ExecuteInv, ProcInv, TimerInv, SignalInv,
        SuccessInv, DeviceInv, Waiting, Quiet, Owned, TunnelInv, InUse

-----------------------------------------------------------------------------
(* stop() and disconnectDevice().                                          *)

\* stop() finds the timer that runs, whichever tunnel is in use.
LEMMA StopFacts ==
  ASSUME IInv, Stop
  PROVE  /\ ~acceptTimer' /\ ~connectTimer' /\ ~listening' /\ ~enabled' /\ ~control'
         /\ forward' => forward /\ ~enabled
         /\ proc' = IF proc = "idle" THEN "idle" ELSE "dying"
<1>1. ~acceptTimer' /\ ~connectTimer' /\ ~listening' /\ ~enabled' /\ ~control'
  BY Zenon DEF IInv, Stop
<1>2. forward' => forward /\ ~enabled
  BY Zenon DEF Stop
<1>3. proc' = IF proc = "idle" THEN "idle" ELSE "dying"
  BY Zenon DEF Stop, Killed
<1>. QED BY <1>1, <1>2, <1>3

LEMMA StopBooleans ==
  ASSUME Stop
  PROVE  /\ forward' \in BOOLEAN /\ enabled' \in BOOLEAN /\ listening' \in BOOLEAN
         /\ control' \in BOOLEAN /\ acceptTimer' \in BOOLEAN /\ connectTimer' \in BOOLEAN
BY Zenon DEF Stop

\* stop() removes the tunnel it finds enabled.
LEMMA StopTunnels ==
  ASSUME IInv, Stop
  PROVE  /\ tunnels' = tunnels /\ leaked' = leaked
         /\ removing \subseteq removing'
         /\ enabled /\ forward => "forward" \in removing'
         /\ enabled /\ ~forward => "reverse" \in removing'
BY SMT DEF IInv, Stop

LEMMA DisconnectFacts ==
  ASSUME IInv, DisconnectDevice
  PROVE  /\ ~server' /\ pendingStart' = pendingStart
         /\ ~acceptTimer' /\ ~connectTimer' /\ ~listening' /\ ~enabled'
         /\ server => ~success' /\ stream' = "off"
         /\ ~server => success' = success /\ stream' = stream
         /\ success => ~entry' /\ dev' = "deleting"
         /\ ~success => entry' = entry /\ dev' = dev
         /\ forward' => forward
         /\ proc' = IF proc = "idle" THEN "idle" ELSE IF server THEN "dying" ELSE proc
<1>1. CASE server
  <2>1. Stop /\ ~server' /\ stream' = "off" /\ ~success' /\ pendingStart' = pendingStart
    BY <1>1, SMT DEF DisconnectDevice
  <2>2. CASE success
    <3>1. entry /\ ~entry'
      BY <1>1, <2>2, SMT DEF IInv, DisconnectDevice
    <3>2. dev' = "deleting"
      BY <1>1, <2>2, <3>1, SMT DEF DisconnectDevice
    <3>. QED BY <1>1, <2>1, <2>2, <3>1, <3>2, StopFacts, SMT
  <2>3. CASE ~success
    <3>1. entry' = entry /\ dev' = dev
      BY <1>1, <2>3, SMT DEF DisconnectDevice
    <3>. QED BY <1>1, <2>1, <2>3, <3>1, StopFacts, SMT
  <2>. QED BY <2>2, <2>3
<1>2. CASE ~server
  <2>1. UNCHANGED <<deviceVars, timerVars, tunnelVars, listening, control, proc>>
    BY <1>2, Zenon DEF DisconnectDevice
  <2>2. ~success
    BY <1>2, Zenon DEF IInv
  <2>. QED BY <1>2, <2>1, <2>2, SMT DEF IInv
<1>. QED BY <1>1, <1>2

LEMMA DisconnectBooleans ==
  ASSUME Booleans, DisconnectDevice
  PROVE  /\ forward' \in BOOLEAN /\ enabled' \in BOOLEAN /\ listening' \in BOOLEAN
         /\ control' \in BOOLEAN /\ acceptTimer' \in BOOLEAN /\ connectTimer' \in BOOLEAN
         /\ entry' \in BOOLEAN /\ pendingStart' \in BOOLEAN
         /\ server' \in BOOLEAN /\ success' \in BOOLEAN
<1>1. CASE server
  BY <1>1, StopBooleans, Zenon DEF Booleans, DisconnectDevice
<1>2. CASE ~server
  BY <1>2, Zenon DEF Booleans, DisconnectDevice
<1>. QED BY <1>1, <1>2

LEMMA DisconnectTunnels ==
  ASSUME IInv, DisconnectDevice
  PROVE  /\ tunnels' = tunnels /\ leaked' = leaked
         /\ removing \subseteq removing'
         /\ enabled /\ forward => "forward" \in removing'
         /\ enabled /\ ~forward => "reverse" \in removing'
<1>1. CASE server
  BY <1>1, StopTunnels, SMT DEF DisconnectDevice
<1>2. CASE ~server
  <2>1. ~enabled BY <1>2, Zenon DEF IInv
  <2>2. UNCHANGED <<tunnels, removing, leaked>>
    BY <1>2, Zenon DEF DisconnectDevice
  <2>. QED BY <2>1, <2>2, SMT DEF IInv
<1>. QED BY <1>1, <1>2

-----------------------------------------------------------------------------
(* One lemma per action: the types, what is armed, the tunnels.            *)

LEMMA PushDoneStep ==
  ASSUME IInv, PushDone, UNCHANGED deviceVars
  PROVE  IInv'
<1>1. Booleans' BY Zenon DEF IInv, PushDone, Booleans
<1>2. StateInv' BY SMT DEF IInv, PushDone
<1>3. TunnelInv' BY SMT DEF IInv, PushDone
<1>4. TunnelType' BY SMT DEF IInv, PushDone, TunnelType, Tunnels
<1>. QED BY <1>1, <1>2, <1>3, <1>4 DEF IInv

LEMMA ReverseDoneStep ==
  ASSUME IInv, NEW listens \in BOOLEAN, ReverseDone(listens), UNCHANGED deviceVars
  PROVE  IInv'
<1>1. Booleans' BY Zenon DEF IInv, ReverseDone, TunnelSet, Execute, Fail, Emit, Booleans
<1>2. StateInv' BY SMT DEF IInv, ReverseDone, TunnelSet, Execute, Fail, Emit
<1>3. TunnelInv' BY SMT DEF IInv, ReverseDone, TunnelSet, Execute, Fail, Emit
<1>4. TunnelType' BY SMT DEF IInv, ReverseDone, TunnelSet, Execute, Fail, Emit, TunnelType, Tunnels
<1>. QED BY <1>1, <1>2, <1>3, <1>4 DEF IInv

LEMMA ForwardDoneStep ==
  ASSUME IInv, ForwardDone, UNCHANGED deviceVars
  PROVE  IInv'
<1>1. Booleans' BY Zenon DEF IInv, ForwardDone, TunnelSet, Execute, Booleans
<1>2. StateInv' BY SMT DEF IInv, ForwardDone, TunnelSet, Execute
<1>3. TunnelInv' BY SMT DEF IInv, ForwardDone, TunnelSet, Execute
<1>4. TunnelType' BY SMT DEF IInv, ForwardDone, TunnelSet, Execute, TunnelType, Tunnels
<1>. QED BY <1>1, <1>2, <1>3, <1>4 DEF IInv

LEMMA WorkFailsStep ==
  ASSUME IInv, WorkFails, UNCHANGED deviceVars
  PROVE  IInv'
<1>1. Booleans' BY Zenon DEF IInv, WorkFails, Fail, Emit, Booleans
<1>2. StateInv' BY SMT DEF IInv, WorkFails, Fail, Emit
<1>3. TunnelInv' BY SMT DEF IInv, WorkFails, Fail, Emit
<1>4. TunnelType' BY SMT DEF IInv, WorkFails, Fail, Emit, TunnelType, Tunnels
<1>. QED BY <1>1, <1>2, <1>3, <1>4 DEF IInv

LEMMA WorkCrashesStep ==
  ASSUME IInv, WorkCrashes, UNCHANGED deviceVars
  PROVE  IInv'
<1>1. Booleans' BY Zenon DEF IInv, WorkCrashes, Fail, Emit, Booleans
<1>2. StateInv' BY SMT DEF IInv, WorkCrashes, Fail, Emit
<1>3. TunnelInv' BY SMT DEF IInv, WorkCrashes, Fail, Emit
<1>4. TunnelType' BY SMT DEF IInv, WorkCrashes, Fail, Emit, TunnelType, Tunnels
<1>. QED BY <1>1, <1>2, <1>3, <1>4 DEF IInv

LEMMA ProcStartsStep ==
  ASSUME IInv, ProcStarts, UNCHANGED deviceVars
  PROVE  IInv'
<1>1. Booleans' BY Zenon DEF IInv, ProcStarts, Booleans
<1>2. StateInv' BY SMT DEF IInv, ProcStarts
<1>3. TunnelInv' BY SMT DEF IInv, ProcStarts
<1>4. TunnelType' BY SMT DEF IInv, ProcStarts, TunnelType, Tunnels
<1>. QED BY <1>1, <1>2, <1>3, <1>4 DEF IInv

LEMMA ProcMissingStep ==
  ASSUME IInv, ProcMissing, UNCHANGED deviceVars
  PROVE  IInv'
<1>1. Booleans' BY Zenon DEF IInv, ProcMissing, Booleans
<1>2. StateInv' BY SMT DEF IInv, ProcMissing
<1>3. TunnelInv' BY SMT DEF IInv, ProcMissing
<1>4. TunnelType' BY SMT DEF IInv, ProcMissing, TunnelType, Tunnels
<1>. QED BY <1>1, <1>2, <1>3, <1>4 DEF IInv

LEMMA ProcDiesStep ==
  ASSUME IInv, ProcDies, UNCHANGED deviceVars
  PROVE  IInv'
<1>1. Booleans' BY Zenon DEF IInv, ProcDies, Fail, Emit, Booleans
<1>2. StateInv' BY SMT DEF IInv, ProcDies, Fail, Emit
<1>3. TunnelInv' BY SMT DEF IInv, ProcDies, Fail, Emit
<1>4. TunnelType' BY SMT DEF IInv, ProcDies, Fail, Emit, TunnelType, Tunnels
<1>. QED BY <1>1, <1>2, <1>3, <1>4 DEF IInv

LEMMA TunnelRemovedStep ==
  ASSUME IInv, NEW t \in Tunnels, NEW removed \in BOOLEAN, TunnelRemoved(t, removed),
         UNCHANGED deviceVars
  PROVE  IInv'
<1>1. Booleans' BY Zenon DEF IInv, TunnelRemoved, Booleans
<1>2. StateInv' BY SMT DEF IInv, TunnelRemoved
<1>3. TunnelInv' BY SMT DEF IInv, TunnelRemoved
<1>4. TunnelType' BY SMT DEF IInv, TunnelRemoved, TunnelType, Tunnels
<1>. QED BY <1>1, <1>2, <1>3, <1>4 DEF IInv

LEMMA AcceptTimeoutStep ==
  ASSUME IInv, AcceptTimeout, UNCHANGED deviceVars
  PROVE  IInv'
<1>1. Booleans' BY Zenon DEF IInv, AcceptTimeout, Emit, Booleans
<1>2. StateInv' BY SMT DEF IInv, AcceptTimeout, Emit
<1>3. TunnelInv' BY SMT DEF IInv, AcceptTimeout, Emit
<1>4. TunnelType' BY SMT DEF IInv, AcceptTimeout, Emit, TunnelType, Tunnels
<1>. QED BY <1>1, <1>2, <1>3, <1>4 DEF IInv

LEMMA ConnectStep ==
  ASSUME IInv, Connect
  PROVE  IInv'
<1>1. Booleans' BY Zenon DEF IInv, Connect, Booleans
<1>2. StateInv' BY SMT DEF IInv, Connect
<1>3. TunnelInv' BY SMT DEF IInv, Connect
<1>4. TunnelType' BY SMT DEF IInv, Connect, TunnelType, Tunnels
<1>. QED BY <1>1, <1>2, <1>3, <1>4 DEF IInv

LEMMA StartServerStep ==
  ASSUME IInv, NEW reverse \in BOOLEAN, StartServer(reverse)
  PROVE  IInv'
<1>1. Booleans' BY Zenon DEF IInv, StartServer, Start, Idle, Booleans
<1>2. StateInv' BY SMT DEF IInv, StartServer, Start, Idle
<1>3. TunnelInv' BY SMT DEF IInv, StartServer, Start, Idle
<1>4. TunnelType' BY SMT DEF IInv, StartServer, Start, Idle, TunnelType, Tunnels
<1>. QED BY <1>1, <1>2, <1>3, <1>4 DEF IInv

LEMMA OnStartedStep ==
  ASSUME IInv, OnStarted
  PROVE  IInv'
<1>1. Booleans' BY Zenon DEF IInv, OnStarted, Booleans
<1>2. StateInv' BY SMT DEF IInv, OnStarted
<1>3. TunnelInv' BY SMT DEF IInv, OnStarted
<1>4. TunnelType' BY SMT DEF IInv, OnStarted, TunnelType, Tunnels
<1>. QED BY <1>1, <1>2, <1>3, <1>4 DEF IInv

LEMMA OnFailedStep ==
  ASSUME IInv, OnFailed
  PROVE  IInv'
<1>1. Booleans' BY StopBooleans, Zenon DEF IInv, OnFailed, Booleans
<1>2. StateInv' BY StopFacts, SMT DEF IInv, OnFailed
<1>3. TunnelInv' BY StopFacts, StopTunnels, SMT DEF IInv, OnFailed
<1>4. TunnelType' BY StopTunnels, Zenon DEF IInv, OnFailed, TunnelType
<1>. QED BY <1>1, <1>2, <1>3, <1>4 DEF IInv

LEMMA OnStoppedStep ==
  ASSUME IInv, OnStopped
  PROVE  IInv'
<1>1. Booleans' BY DisconnectBooleans, Zenon DEF IInv, OnStopped, Booleans
<1>2. StateInv' BY DisconnectFacts, SMT DEF IInv, OnStopped
<1>3. TunnelInv' BY DisconnectFacts, DisconnectTunnels, SMT DEF IInv, OnStopped
<1>4. TunnelType' BY DisconnectTunnels, Zenon DEF IInv, OnStopped, TunnelType
<1>. QED BY <1>1, <1>2, <1>3, <1>4 DEF IInv

LEMMA StreamEndsStep ==
  ASSUME IInv, StreamEnds
  PROVE  IInv'
<1>1. Booleans' BY Zenon DEF IInv, StreamEnds, Booleans
<1>2. StateInv' BY SMT DEF IInv, StreamEnds
<1>3. TunnelInv' BY SMT DEF IInv, StreamEnds
<1>4. TunnelType' BY SMT DEF IInv, StreamEnds, TunnelType, Tunnels
<1>. QED BY <1>1, <1>2, <1>3, <1>4 DEF IInv

LEMMA OnStreamStopStep ==
  ASSUME IInv, OnStreamStop
  PROVE  IInv'
<1>1. Booleans' BY DisconnectBooleans, Zenon DEF IInv, OnStreamStop, Idle, Booleans
<1>2. StateInv' BY DisconnectFacts, SMT DEF IInv, OnStreamStop, Idle
<1>3. TunnelInv' BY DisconnectFacts, DisconnectTunnels, SMT DEF IInv, OnStreamStop, Idle
<1>4. TunnelType' BY DisconnectTunnels, Zenon DEF IInv, OnStreamStop, Idle, TunnelType
<1>. QED BY <1>1, <1>2, <1>3, <1>4 DEF IInv

LEMMA UserStopStep ==
  ASSUME IInv, UserStop
  PROVE  IInv'
<1>1. Booleans' BY Zenon DEF IInv, UserStop, DeleteDevice, Idle, Booleans
<1>2. StateInv' BY SMT DEF IInv, UserStop, DeleteDevice, Idle
<1>3. TunnelInv' BY SMT DEF IInv, UserStop, DeleteDevice, Idle
<1>4. TunnelType' BY SMT DEF IInv, UserStop, DeleteDevice, Idle, TunnelType, Tunnels
<1>. QED BY <1>1, <1>2, <1>3, <1>4 DEF IInv

LEMMA CloseWindowStep ==
  ASSUME IInv, CloseWindow
  PROVE  IInv'
<1>1. Booleans' BY DisconnectBooleans, Zenon DEF IInv, CloseWindow, Idle, Booleans
<1>2. StateInv' BY DisconnectFacts, SMT DEF IInv, CloseWindow, Idle
<1>3. TunnelInv' BY DisconnectFacts, DisconnectTunnels, SMT DEF IInv, CloseWindow, Idle
<1>4. TunnelType' BY DisconnectTunnels, Zenon DEF IInv, CloseWindow, Idle, TunnelType
<1>. QED BY <1>1, <1>2, <1>3, <1>4 DEF IInv

LEMMA DeleteLaterStep ==
  ASSUME IInv, DeleteLater
  PROVE  IInv'
<1>1. Booleans' BY Zenon DEF IInv, DeleteLater, DeleteDevice, Idle, Booleans
<1>2. StateInv' BY SMT DEF IInv, DeleteLater, DeleteDevice, Idle
<1>3. TunnelInv' BY SMT DEF IInv, DeleteLater, DeleteDevice, Idle
<1>4. TunnelType' BY SMT DEF IInv, DeleteLater, DeleteDevice, Idle, TunnelType, Tunnels
<1>. QED BY <1>1, <1>2, <1>3, <1>4 DEF IInv

LEMMA VideoConnectsStep ==
  ASSUME IInv, NEW readInfo \in BOOLEAN, VideoConnects(readInfo), UNCHANGED deviceVars
  PROVE  IInv'
<1>1. CASE readInfo
  <2>1. Booleans' BY <1>1, Zenon DEF IInv, VideoConnects, Booleans
  <2>2. StateInv' BY <1>1, SMT DEF IInv, VideoConnects
  <2>3. TunnelInv' BY <1>1, SMT DEF IInv, VideoConnects
  <2>4. TunnelType' BY <1>1, Zenon DEF IInv, VideoConnects, TunnelType
  <2>. QED BY <2>1, <2>2, <2>3, <2>4 DEF IInv
<1>2. CASE ~readInfo
  <2>1. Booleans' BY <1>2, StopBooleans, Zenon DEF IInv, VideoConnects, Emit, Booleans
  <2>2. StateInv' BY <1>2, StopFacts, SMT DEF IInv, VideoConnects, Emit
  <2>3. TunnelInv' BY <1>2, StopFacts, StopTunnels, SMT DEF IInv, VideoConnects, Emit
  <2>4. TunnelType' BY <1>2, StopTunnels, Zenon DEF IInv, VideoConnects, Emit, TunnelType
  <2>. QED BY <2>1, <2>2, <2>3, <2>4 DEF IInv
<1>. QED BY <1>1, <1>2

LEMMA ControlConnectsStep ==
  ASSUME IInv, NEW valid \in BOOLEAN, ControlConnects(valid), UNCHANGED deviceVars
  PROVE  IInv'
<1>1. CASE valid
  <2>1. Booleans' BY <1>1, Zenon DEF IInv, ControlConnects, Emit, Booleans
  <2>2. StateInv' BY <1>1, SMT DEF IInv, ControlConnects, Emit
  <2>3. TunnelInv' BY <1>1, SMT DEF IInv, ControlConnects, Emit
  <2>4. TunnelType' BY <1>1, Zenon DEF IInv, ControlConnects, Emit, TunnelType
  <2>. QED BY <2>1, <2>2, <2>3, <2>4 DEF IInv
<1>2. CASE ~valid
  <2>1. Booleans' BY <1>2, StopBooleans, Zenon DEF IInv, ControlConnects, Emit, Booleans
  <2>2. StateInv' BY <1>2, StopFacts, SMT DEF IInv, ControlConnects, Emit
  <2>3. TunnelInv' BY <1>2, StopFacts, StopTunnels, SMT DEF IInv, ControlConnects, Emit
  <2>4. TunnelType' BY <1>2, StopTunnels, Zenon DEF IInv, ControlConnects, Emit, TunnelType
  <2>. QED BY <2>1, <2>2, <2>3, <2>4 DEF IInv
<1>. QED BY <1>1, <1>2

LEMMA ConnectTickStep ==
  ASSUME IInv, NEW outcome \in {"ok", "silent", "refused"}, ConnectTick(outcome), UNCHANGED deviceVars
  PROVE  IInv'
<1>1. CASE Connected
  <2>1. Booleans' BY <1>1, Zenon DEF IInv, ConnectTick, Connected, Emit, Booleans
  <2>2. StateInv' BY <1>1, SMT DEF IInv, ConnectTick, Connected, Emit
  <2>3. TunnelInv' BY <1>1, SMT DEF IInv, ConnectTick, Connected, Emit
  <2>4. TunnelType' BY <1>1, Zenon DEF IInv, ConnectTick, Connected, Emit, TunnelType
  <2>. QED BY <2>1, <2>2, <2>3, <2>4 DEF IInv
<1>2. CASE GiveUp /\ restarts < MaxRestart
  <2>1. Booleans' BY <1>2, StopBooleans, Zenon
         DEF IInv, ConnectTick, GiveUp, Start, Booleans
  <2>2. StateInv' BY <1>2, StopFacts, SMT DEF IInv, ConnectTick, GiveUp, Start
  <2>3. TunnelInv' BY <1>2, StopFacts, StopTunnels, SMT DEF IInv, ConnectTick, GiveUp, Start
  <2>4. TunnelType' BY <1>2, StopTunnels, Zenon
         DEF IInv, ConnectTick, GiveUp, Start, TunnelType
  <2>. QED BY <2>1, <2>2, <2>3, <2>4 DEF IInv
<1>3. CASE GiveUp /\ ~(restarts < MaxRestart)
  <2>1. Booleans' BY <1>3, StopBooleans, Zenon DEF IInv, ConnectTick, GiveUp, Emit, Booleans
  <2>2. StateInv' BY <1>3, StopFacts, SMT DEF IInv, ConnectTick, GiveUp, Emit
  <2>3. TunnelInv' BY <1>3, StopFacts, StopTunnels, SMT DEF IInv, ConnectTick, GiveUp, Emit
  <2>4. TunnelType' BY <1>3, StopTunnels, Zenon
         DEF IInv, ConnectTick, GiveUp, Emit, TunnelType
  <2>. QED BY <2>1, <2>2, <2>3, <2>4 DEF IInv
<1>4. CASE UNCHANGED <<step, useReverse, restarts, acceptTimer, connectTimer, tunnelVars,
                     socketVars, work, proc, signal>>
  <2>1. Booleans' BY <1>4, Zenon DEF IInv, ConnectTick, Booleans
  <2>2. StateInv' BY <1>4, SMT DEF IInv, ConnectTick
  <2>3. TunnelInv' BY <1>4, SMT DEF IInv, ConnectTick
  <2>4. TunnelType' BY <1>4, Zenon DEF IInv, ConnectTick, TunnelType
  <2>. QED BY <2>1, <2>2, <2>3, <2>4 DEF IInv
<1>. QED BY <1>1, <1>2, <1>3, <1>4, Zenon DEF ConnectTick

-----------------------------------------------------------------------------
(* The invariant.                                                          *)

LEMMA InitInv == Init => IInv
<1>. SUFFICES ASSUME Init PROVE IInv
  OBVIOUS
<1>1. Booleans BY Zenon DEF Init, ServerInit, Booleans
<1>2. StateInv BY SMT DEF Init, ServerInit
<1>3. TunnelInv /\ TunnelType BY SMT DEF Init, ServerInit, TunnelType, Tunnels
<1>. QED BY <1>1, <1>2, <1>3 DEF IInv

LEMMA ServerEventStep ==
  ASSUME IInv, ServerEvent, UNCHANGED deviceVars
  PROVE  IInv'
<1>1. CASE AdbEvent
  BY <1>1, PushDoneStep, ForwardDoneStep, WorkFailsStep, WorkCrashesStep, ReverseDoneStep,
     ProcStartsStep, ProcMissingStep DEF AdbEvent
<1>2. CASE ProcDies
  BY <1>2, ProcDiesStep
<1>3. CASE \E t \in Tunnels, removed \in BOOLEAN : TunnelRemoved(t, removed)
  BY <1>3, TunnelRemovedStep
<1>4. CASE \E readInfo \in BOOLEAN : VideoConnects(readInfo)
  BY <1>4, VideoConnectsStep
<1>5. CASE \E valid \in BOOLEAN : ControlConnects(valid)
  BY <1>5, ControlConnectsStep
<1>6. CASE AcceptTimeout
  BY <1>6, AcceptTimeoutStep
<1>7. CASE \E outcome \in {"ok", "silent", "refused"} : ConnectTick(outcome)
  BY <1>7, ConnectTickStep
<1>. QED BY <1>1, <1>2, <1>3, <1>4, <1>5, <1>6, <1>7 DEF ServerEvent

LEMMA StutterStep == ASSUME IInv, UNCHANGED vars PROVE IInv'
<1>1. Booleans' BY Zenon DEF IInv, vars, Booleans
<1>2. StateInv' BY SMT DEF IInv, vars
<1>3. TunnelInv' BY SMT DEF IInv, vars
<1>4. TunnelType' BY SMT DEF IInv, vars, TunnelType, Tunnels
<1>. QED BY <1>1, <1>2, <1>3, <1>4 DEF IInv

LEMMA NextInv == IInv /\ [Next]_vars => IInv'
<1>. SUFFICES ASSUME IInv, [Next]_vars PROVE IInv'
  OBVIOUS
<1>1. CASE ServerEvent /\ UNCHANGED deviceVars
  BY <1>1, ServerEventStep
<1>2. CASE Connect \/ \E reverse \in BOOLEAN : StartServer(reverse)
  BY <1>2, ConnectStep, StartServerStep
<1>3. CASE OnStarted \/ OnFailed \/ OnStopped
  BY <1>3, OnStartedStep, OnFailedStep, OnStoppedStep
<1>4. CASE StreamEnds \/ OnStreamStop
  BY <1>4, StreamEndsStep, OnStreamStopStep
<1>5. CASE UserStop \/ CloseWindow \/ DeleteLater
  BY <1>5, UserStopStep, CloseWindowStep, DeleteLaterStep
<1>6. CASE UNCHANGED vars
  BY <1>6, StutterStep
<1>. QED BY <1>1, <1>2, <1>3, <1>4, <1>5, <1>6, Zenon DEF Next

\* Every reachable state satisfies the invariant.
THEOREM Invariance == Spec => []IInv
BY InitInv, NextInv, PTL DEF Spec

-----------------------------------------------------------------------------
(* The properties.                                                         *)

\* The Device's slots find their server, whenever adb, the phone and the user
\* act, however often the start-up is retried (server.cpp, device.cpp:260).
THEOREM SlotSafety == Spec => []SlotHasItsServer
<1>1. IInv => SlotHasItsServer
  BY SMT DEF IInv, SlotHasItsServer
<1>. QED BY <1>1, Invariance, PTL

\* A connected device has left nothing of its start-up armed.
THEOREM SettledSafety == Spec => []ConnectedIsSettled
<1>1. IInv => ConnectedIsSettled
  BY SMT DEF IInv, ConnectedIsSettled, Idle
<1>. QED BY <1>1, Invariance, PTL

\* A device that let go of its server is quiet until it is deleted.
THEOREM QuietSafety == Spec => []StoppedIsQuiet
<1>1. IInv => StoppedIsQuiet
  BY SMT DEF IInv, StoppedIsQuiet
<1>. QED BY <1>1, Invariance, PTL

\* Nothing of a start-up is left to go off once the device is connected or has
\* stopped its server.
THEOREM StartUpSafety == Spec => []StartUpIsOver
<1>1. ConnectedIsSettled /\ StoppedIsQuiet => StartUpIsOver
  BY DEF StartUpIsOver
<1>. QED BY <1>1, SettledSafety, QuietSafety, PTL

\* A connected device's adb tunnels are gone, being removed, or left by a removal
\* that failed.
THEOREM TunnelSafety == Spec => []TunnelReleased
<1>1. IInv => TunnelReleased
  <2>. SUFFICES ASSUME IInv, success PROVE tunnels \subseteq removing \cup leaked
    BY DEF TunnelReleased
  <2>1. server /\ ~InUse
    BY SMT DEF IInv
  <2>2. tunnels \subseteq {"reverse", "forward"}
    BY Zenon DEF IInv, TunnelType, Tunnels
  <2>3. /\ "forward" \in tunnels => "forward" \in removing \cup leaked
        /\ "reverse" \in tunnels => "reverse" \in removing \cup leaked
    BY <2>1, Zenon DEF IInv
  <2>. QED BY <2>2, <2>3, SMT
<1>. QED BY <1>1, Invariance, PTL

-----------------------------------------------------------------------------
(* The counters, which no other fact depends on.                           *)

Counters == tries \in 0..MaxConnect /\ restarts \in 0..MaxRestart

LEMMA StopCounters == ASSUME Counters, Stop PROVE tries' \in 0..MaxConnect
BY ServerAssumption, SMT DEF Counters, Stop

LEMMA DisconnectCounters ==
  ASSUME Counters, DisconnectDevice PROVE tries' \in 0..MaxConnect
<1>1. CASE server
  BY <1>1, StopCounters, Zenon DEF DisconnectDevice
<1>2. CASE ~server
  BY <1>2, SMT DEF Counters, DisconnectDevice
<1>. QED BY <1>1, <1>2

LEMMA ConnectTickCounters ==
  ASSUME Counters, NEW outcome \in {"ok", "silent", "refused"}, ConnectTick(outcome)
  PROVE  Counters'
<1>1. CASE Connected
  BY <1>1, ServerAssumption, SMT DEF Counters, Connected
<1>2. CASE GiveUp
  <2>1. restarts' \in 0..MaxRestart
    BY <1>2, ServerAssumption, SMT DEF Counters, GiveUp
  <2>2. tries' \in 0..MaxConnect
    BY <1>2, StopCounters DEF GiveUp
  <2>. QED BY <2>1, <2>2 DEF Counters
<1>3. CASE ~(tries >= MaxConnect) /\ tries' = tries + 1 /\ restarts' = restarts
  BY <1>3, ServerAssumption, SMT DEF Counters
<1>. QED BY <1>1, <1>2, <1>3, Zenon DEF ConnectTick

LEMMA ServerCounters == ASSUME Counters, ServerEvent PROVE Counters'
<1>1. CASE AdbEvent
  BY <1>1, ServerAssumption, SMT DEF Counters, AdbEvent, PushDone, ForwardDone, WorkFails,
     WorkCrashes, ReverseDone, ProcStarts, ProcMissing
<1>2. CASE ProcDies
  BY <1>2, SMT DEF Counters, ProcDies
<1>3. CASE \E t \in Tunnels, removed \in BOOLEAN : TunnelRemoved(t, removed)
  BY <1>3, SMT DEF Counters, TunnelRemoved
<1>4. CASE \E readInfo \in BOOLEAN : VideoConnects(readInfo)
  <2>. PICK readInfo \in BOOLEAN : VideoConnects(readInfo)
    BY <1>4
  <2>1. CASE readInfo
    BY <2>1, SMT DEF Counters, VideoConnects
  <2>2. CASE ~readInfo
    BY <2>2, StopCounters, Zenon DEF Counters, VideoConnects
  <2>. QED BY <2>1, <2>2
<1>5. CASE \E valid \in BOOLEAN : ControlConnects(valid)
  BY <1>5, StopCounters, SMT DEF Counters, ControlConnects
<1>6. CASE AcceptTimeout
  BY <1>6, SMT DEF Counters, AcceptTimeout
<1>7. CASE \E outcome \in {"ok", "silent", "refused"} : ConnectTick(outcome)
  BY <1>7, ConnectTickCounters
<1>. QED BY <1>1, <1>2, <1>3, <1>4, <1>5, <1>6, <1>7 DEF ServerEvent

LEMMA NextCounters == Counters /\ [Next]_vars => Counters'
<1>. SUFFICES ASSUME Counters, [Next]_vars PROVE Counters'
  OBVIOUS
<1>1. CASE ServerEvent
  BY <1>1, ServerCounters
<1>2. CASE Connect \/ \E reverse \in BOOLEAN : StartServer(reverse)
  BY <1>2, SMT DEF Counters, Connect, StartServer
<1>3. CASE OnStarted \/ OnFailed
  BY <1>3, StopCounters, SMT DEF Counters, OnStarted, OnFailed
<1>4. CASE OnStopped \/ OnStreamStop \/ CloseWindow
  BY <1>4, DisconnectCounters, SMT DEF Counters, OnStopped, OnStreamStop, CloseWindow
<1>5. CASE StreamEnds \/ UNCHANGED vars
  BY <1>5, SMT DEF Counters, StreamEnds, vars
<1>6. CASE UserStop \/ DeleteLater
  <2>1. tries' = 0 /\ restarts' = 0
    BY <1>6, Zenon DEF UserStop, DeleteLater, DeleteDevice
  <2>. QED BY <2>1, ServerAssumption, SMT DEF Counters
<1>. QED BY <1>1, <1>2, <1>3, <1>4, <1>5, <1>6 DEF Next

RemovingType == removing \subseteq Tunnels

LEMMA MoreRemoving ==
  ASSUME NEW S, S \subseteq Tunnels
  PROVE  S \cup {"reverse"} \subseteq Tunnels /\ S \cup {"forward"} \subseteq Tunnels
<1>1. "reverse" \in Tunnels /\ "forward" \in Tunnels
  BY DEF Tunnels
<1>. QED BY <1>1, Zenon

LEMMA StopRemoving == ASSUME RemovingType, Stop PROVE RemovingType'
<1>1. CASE enabled /\ forward
  BY <1>1, MoreRemoving, Zenon DEF RemovingType, Stop
<1>3. CASE enabled /\ ~forward
  BY <1>3, MoreRemoving, Zenon DEF RemovingType, Stop
<1>2. CASE ~enabled
  BY <1>2, SMT DEF RemovingType, Stop
<1>. QED BY <1>1, <1>2, <1>3

LEMMA DisconnectRemoving ==
  ASSUME RemovingType, DisconnectDevice PROVE RemovingType'
<1>1. CASE server
  BY <1>1, StopRemoving, Zenon DEF DisconnectDevice
<1>2. CASE ~server
  BY <1>2, Zenon DEF RemovingType, DisconnectDevice
<1>. QED BY <1>1, <1>2

LEMMA ServerRemoving == ASSUME RemovingType, ServerEvent PROVE RemovingType'
<1>1. CASE AdbEvent
  <2>1. CASE \E listens \in BOOLEAN : ReverseDone(listens)
    <3>1. removing' = removing \/ removing' = removing \cup {"reverse"}
      BY <2>1, SMT DEF ReverseDone
    <3>. QED BY <3>1, MoreRemoving, Zenon DEF RemovingType
  <2>2. CASE ~\E listens \in BOOLEAN : ReverseDone(listens)
    BY <1>1, <2>2, SMT DEF RemovingType, AdbEvent, PushDone, ForwardDone, WorkFails,
       WorkCrashes, ProcStarts, ProcMissing
  <2>. QED BY <2>1, <2>2
<1>2. CASE ProcDies
  <2>1. \/ removing' = removing
        \/ removing' = removing \cup {"reverse"} \/ removing' = removing \cup {"forward"}
    BY <1>2, SMT DEF ProcDies
  <2>. QED BY <2>1, MoreRemoving, Zenon DEF RemovingType
<1>3. CASE \E t \in Tunnels, removed \in BOOLEAN : TunnelRemoved(t, removed)
  BY <1>3, SMT DEF RemovingType, TunnelRemoved
<1>4. CASE \E readInfo \in BOOLEAN : VideoConnects(readInfo)
  BY <1>4, StopRemoving, Zenon DEF RemovingType, VideoConnects
<1>5. CASE \E valid \in BOOLEAN : ControlConnects(valid)
  <2>1. Stop \/ removing' = removing \cup {"reverse"}
    BY <1>5, Zenon DEF ControlConnects
  <2>. QED BY <2>1, StopRemoving, MoreRemoving, Zenon DEF RemovingType
<1>6. CASE AcceptTimeout
  BY <1>6, SMT DEF RemovingType, AcceptTimeout
<1>7. CASE \E outcome \in {"ok", "silent", "refused"} : ConnectTick(outcome)
  <2>1. Stop \/ removing' = removing \/ removing' = removing \cup {"forward"}
    BY <1>7, Zenon DEF ConnectTick, GiveUp, Connected
  <2>. QED BY <2>1, StopRemoving, MoreRemoving, Zenon DEF RemovingType
<1>. QED BY <1>1, <1>2, <1>3, <1>4, <1>5, <1>6, <1>7 DEF ServerEvent

LEMMA NextRemoving == RemovingType /\ [Next]_vars => RemovingType'
<1>. SUFFICES ASSUME RemovingType, [Next]_vars PROVE RemovingType'
  OBVIOUS
<1>1. CASE ServerEvent
  BY <1>1, ServerRemoving
<1>2. CASE Connect \/ \E reverse \in BOOLEAN : StartServer(reverse)
  BY <1>2, SMT DEF RemovingType, Connect, StartServer
<1>3. CASE OnStarted \/ OnFailed
  BY <1>3, StopRemoving, SMT DEF RemovingType, OnStarted, OnFailed
<1>4. CASE OnStopped \/ OnStreamStop \/ CloseWindow
  BY <1>4, DisconnectRemoving, Zenon DEF OnStopped, OnStreamStop, CloseWindow
<1>5. CASE StreamEnds \/ UNCHANGED vars
  BY <1>5, SMT DEF RemovingType, StreamEnds, vars
<1>6. CASE UserStop \/ DeleteLater
  <2>1. \/ removing' = removing
        \/ removing' = removing \cup {"reverse"} \/ removing' = removing \cup {"forward"}
    BY <1>6, Zenon DEF UserStop, DeleteLater, DeleteDevice
  <2>. QED BY <2>1, MoreRemoving, Zenon DEF RemovingType
<1>. QED BY <1>1, <1>2, <1>3, <1>4, <1>5, <1>6 DEF Next

\* Every variable keeps its type; the attempts and restarts keep their bounds
\* (MAX_CONNECT_COUNT and MAX_RESTART_COUNT, server.cpp:498-506).
THEOREM TypeCorrect == Spec => []TypeOK
<1>1. Init => Counters /\ RemovingType
  BY ServerAssumption, SMT DEF Init, ServerInit, Counters, RemovingType
<1>2. IInv /\ Counters /\ RemovingType => TypeOK
  <2>. SUFFICES ASSUME IInv, Counters, RemovingType PROVE TypeOK
    OBVIOUS
  <2>1. {useReverse, forward, enabled, listening, acceptTimer, connectTimer, video,
         control, entry, pendingStart, server, success} \subseteq BOOLEAN
    BY Zenon DEF IInv, Booleans
  <2>. QED BY <2>1, Zenon DEF TypeOK, IInv, Counters, RemovingType, TunnelType
<1>. QED BY <1>1, <1>2, NextCounters, NextRemoving, Invariance, PTL DEF Spec

-----------------------------------------------------------------------------
(* The refinement: who changes the phase, and from what to what.           *)

LEMMA PhaseOf ==
  /\ ~entry => phase = "free"
  /\ entry /\ success => phase = "connected"
  /\ entry /\ ~success /\ server => phase = "connecting"
  /\ entry /\ ~success /\ ~server => phase = "stuck"
BY Zenon DEF phase

LEMMA PhaseOfNext ==
  /\ ~entry' => phase' = "free"
  /\ entry' /\ success' => phase' = "connected"
  /\ entry' /\ ~success' /\ server' => phase' = "connecting"
  /\ entry' /\ ~success' /\ ~server' => phase' = "stuck"
BY Zenon DEF phase

LEMMA PhaseStays ==
  ASSUME UNCHANGED <<entry, success, server>>
  PROVE  phase' = phase
BY Zenon DEF phase

LEMMA DisconnectPhase ==
  ASSUME IInv, DisconnectDevice
  PROVE  Promise!Next \/ phase' = phase
<1>1. CASE ~server
  BY <1>1, PhaseStays, Zenon DEF DisconnectDevice
<1>2. CASE server /\ success
  <2>1. entry /\ ~entry'
    BY <1>2, DisconnectFacts, Zenon DEF IInv
  <2>. QED BY <1>2, <2>1, PhaseOf, PhaseOfNext DEF Promise!Next, Promise!End
<1>3. CASE server /\ ~success /\ entry
  <2>1. entry' /\ ~success' /\ ~server'
    BY <1>3, DisconnectFacts, Zenon
  <2>. QED BY <1>3, <2>1, PhaseOf, PhaseOfNext DEF Promise!Next, Promise!Abandon
<1>4. CASE server /\ ~success /\ ~entry
  <2>1. ~entry'
    BY <1>4, DisconnectFacts, Zenon
  <2>. QED BY <1>4, <2>1, PhaseOf, PhaseOfNext
<1>. QED BY <1>1, <1>2, <1>3, <1>4

LEMMA DeletePhase ==
  ASSUME DeleteDevice
  PROVE  Promise!Next \/ phase' = phase
<1>1. ~success' /\ ~server'
  BY Zenon DEF DeleteDevice
<1>2. CASE ~entry
  <2>1. ~entry'
    BY <1>2, SMT DEF DeleteDevice
  <2>. QED BY <1>2, <2>1, PhaseOf, PhaseOfNext
<1>3. CASE entry /\ success
  <2>1. ~entry'
    BY <1>3, SMT DEF DeleteDevice
  <2>. QED BY <1>3, <2>1, PhaseOf, PhaseOfNext DEF Promise!Next, Promise!End
<1>4. CASE entry /\ ~success
  <2>1. entry'
    BY <1>4, SMT DEF DeleteDevice
  <2>. QED BY <1>1, <1>4, <2>1, PhaseOf, PhaseOfNext DEF Promise!Next, Promise!Abandon
<1>. QED BY <1>2, <1>3, <1>4

LEMMA OnFailedPhase ==
  ASSUME IInv, OnFailed
  PROVE  Promise!Next \/ phase' = phase
<1>1. ~entry' /\ ~success /\ server
  BY SMT DEF IInv, OnFailed
<1>2. CASE entry
  BY <1>1, <1>2, PhaseOf, PhaseOfNext DEF Promise!Next, Promise!Fail
<1>3. CASE ~entry
  BY <1>1, <1>3, PhaseOf, PhaseOfNext
<1>. QED BY <1>2, <1>3

LEMMA OnStartedPhase ==
  ASSUME IInv, OnStarted
  PROVE  Promise!Next \/ phase' = phase
<1>1. entry /\ ~success /\ server /\ entry' /\ success'
  BY SMT DEF IInv, OnStarted
<1>. QED BY <1>1, PhaseOf, PhaseOfNext DEF Promise!Next, Promise!Succeed

LEMMA ConnectPhase ==
  ASSUME IInv, Connect
  PROVE  Promise!Next \/ phase' = phase
<1>1. ~entry /\ entry' /\ ~success' /\ server'
  BY SMT DEF IInv, Connect
<1>. QED BY <1>1, PhaseOf, PhaseOfNext DEF Promise!Next, Promise!Connect

LEMMA NextPhase == IInv /\ [Next]_vars => [Promise!Next]_phase
<1>. SUFFICES ASSUME IInv, [Next]_vars PROVE Promise!Next \/ phase' = phase
  OBVIOUS
<1>1. CASE ServerEvent /\ UNCHANGED deviceVars
  BY <1>1, PhaseStays
<1>2. CASE \E reverse \in BOOLEAN : StartServer(reverse)
  BY <1>2, PhaseStays DEF StartServer
<1>3. CASE StreamEnds
  BY <1>3, PhaseStays DEF StreamEnds
<1>4. CASE OnStopped \/ OnStreamStop \/ CloseWindow
  BY <1>4, DisconnectPhase DEF OnStopped, OnStreamStop, CloseWindow
<1>5. CASE UserStop \/ DeleteLater
  BY <1>5, DeletePhase DEF UserStop, DeleteLater
<1>6. CASE UNCHANGED vars
  BY <1>6, PhaseStays DEF vars
<1>. QED
  BY <1>1, <1>2, <1>3, <1>4, <1>5, <1>6, ConnectPhase, OnStartedPhase, OnFailedPhase, Zenon
     DEF Next

\* The device manager, with the devices, servers, timers, sockets and adb
\* processes behind it, implements Session.
THEOREM Refinement == Spec => KeepsPromise
<1>1. Init => Promise!Init
  BY PhaseOf DEF Init, Promise!Init
<1>. QED BY <1>1, NextPhase, Invariance, PTL DEF Spec, KeepsPromise, Promise!Spec
=============================================================================
