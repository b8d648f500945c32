--------------------------- MODULE LauncherProofs ---------------------------
(***************************************************************************)
(* The main window for any phones and any number of commands: what is      *)
(* started after a version check, the refresh buttons, and the worker      *)
(* thread of the sound.                                                    *)
(***************************************************************************)
EXTENDS Launcher, TLAPS

-----------------------------------------------------------------------------
(* The sound                                                               *)

\* The worker is told to quit by the call that waits for it; without one a
\* device is only open, and a worker only there, while the sound runs.
AudioTypeOK ==
  /\ running \in BOOLEAN /\ quitting \in BOOLEAN
  /\ outputDevice \in {"none", "open"}
  /\ worker \in {"off", "starting", "deaf", "waiting", "writing"}
  /\ call \in {"none", "stop", "restart", "sndcpy"}

Waiting == call \in {"stop", "restart"}

AudioRest ==
  /\ worker = "writing" => outputDevice = "open"
  /\ quitting => Waiting /\ worker # "off"
  /\ Waiting /\ ~quitting => worker = "off"
  /\ call = "sndcpy" \/ (call = "none" /\ ~running) => worker = "off" /\ outputDevice = "none"
  /\ call # "none" => ~running
  /\ running => worker # "off"

AudioInv == AudioTypeOK /\ AudioRest

LEMMA AudioStartInv == ASSUME AudioInv, AudioStart PROVE AudioInv'
<1>. USE DEF AudioInv
<1>1. CASE running
  <2>1. /\ ~running' /\ quitting' /\ call = "none" /\ call' = "restart"
        /\ UNCHANGED <<outputDevice, worker>> /\ AudioTypeOK'
    BY <1>1, Zenon DEF AudioStart, AudioTypeOK
  <2>. QED BY <1>1, <2>1, SMT DEF AudioRest, Waiting
<1>2. CASE ~running
  <2>1. /\ ~running' /\ (quitting' <=> quitting) /\ call = "none" /\ call' = "sndcpy"
        /\ UNCHANGED <<outputDevice, worker>> /\ AudioTypeOK'
    BY <1>2, Zenon DEF AudioStart, AudioTypeOK
  <2>. QED BY <1>2, <2>1, SMT DEF AudioRest, Waiting
<1>. QED BY <1>1, <1>2

LEMMA AudioStopInv == ASSUME AudioInv, AudioStop PROVE AudioInv'
<1>1. /\ running /\ ~running' /\ quitting' /\ call = "none" /\ call' = "stop"
      /\ UNCHANGED <<outputDevice, worker>> /\ AudioTypeOK'
  BY Zenon DEF AudioInv, AudioStop, AudioTypeOK
<1>. QED BY <1>1, SMT DEF AudioInv, AudioRest, Waiting

LEMMA SoundInv == ASSUME AudioInv, Sound PROVE AudioInv'
<1>. USE DEF AudioInv
<1>1. CASE WorkerWaited
  <2>1. /\ (running' <=> running) /\ (quitting' <=> quitting) /\ Waiting /\ worker = "off"
        /\ outputDevice' = "none" /\ worker' = worker
        /\ call' = IF call = "stop" THEN "none" ELSE "sndcpy"
    BY <1>1, Zenon DEF WorkerWaited, Waiting
  <2>2. AudioTypeOK'
    BY <1>1, Zenon DEF WorkerWaited, AudioTypeOK
  <2>. QED BY <2>1, <2>2, SMT DEF AudioRest, Waiting
<1>2. CASE SndcpyFailed
  <2>1. /\ (running' <=> running) /\ (quitting' <=> quitting) /\ call = "sndcpy" /\ call' = "none"
        /\ UNCHANGED <<outputDevice, worker>> /\ AudioTypeOK'
    BY <1>2, Zenon DEF SndcpyFailed, AudioTypeOK
  <2>. QED BY <2>1, SMT DEF AudioRest, Waiting
<1>3. ASSUME NEW opened \in BOOLEAN, SndcpyRan(opened) PROVE AudioInv'
  <2>1. /\ running' /\ (quitting' <=> quitting) /\ call = "sndcpy" /\ call' = "none"
        /\ worker' = "starting" /\ outputDevice' \in {outputDevice, "open"} /\ AudioTypeOK'
    BY <1>3, Zenon DEF SndcpyRan, AudioTypeOK
  <2>. QED BY <2>1, SMT DEF AudioRest, Waiting
<1>4. ASSUME NEW ok \in BOOLEAN, ConnectTo(ok) PROVE AudioInv'
  <2>1. /\ (running' <=> running) /\ (quitting' <=> quitting) /\ UNCHANGED <<call, outputDevice>>
        /\ worker = "starting" /\ worker' \in {"waiting", "deaf"} /\ AudioTypeOK'
    BY <1>4, Zenon DEF ConnectTo, AudioTypeOK
  <2>. QED BY <2>1, SMT DEF AudioRest, Waiting
<1>5. CASE ReadyRead
  <2>1. /\ (running' <=> running) /\ (quitting' <=> quitting) /\ UNCHANGED <<call, outputDevice>>
        /\ worker = "waiting" /\ worker' = "writing" /\ outputDevice # "none" /\ AudioTypeOK'
    BY <1>5, Zenon DEF ReadyRead, AudioTypeOK
  <2>. QED BY <2>1, SMT DEF AudioTypeOK, AudioRest, Waiting
<1>6. CASE Written
  <2>1. /\ (running' <=> running) /\ (quitting' <=> quitting) /\ UNCHANGED <<call, outputDevice>>
        /\ worker = "writing" /\ worker' = "waiting" /\ AudioTypeOK'
    BY <1>6, Zenon DEF Written, AudioTypeOK
  <2>. QED BY <2>1, SMT DEF AudioRest, Waiting
<1>7. CASE WorkerEnds
  <2>1. /\ (running' <=> running) /\ quitting /\ ~quitting' /\ UNCHANGED <<call, outputDevice>>
        /\ worker' = "off" /\ AudioTypeOK'
    BY <1>7, Zenon DEF WorkerEnds, AudioTypeOK
  <2>. QED BY <2>1, SMT DEF AudioRest, Waiting
<1>. QED BY <1>1, <1>2, <1>3, <1>4, <1>5, <1>6, <1>7, Zenon DEF Sound

-----------------------------------------------------------------------------
(* What is started                                                         *)

\* A serial that is not one of the phones has no session to be given.
StartInv == sessions = [s \in Serials |-> sessions[s]] /\ StartsWhatWasChecked

\* A session that the phone's Android allows, whether it had to be asked or not
Allowed(p) ==
  p.serial \in Serials => /\ p.camera => Sdk[p.serial] >= 31
                          /\ p.virtual => Sdk[p.serial] >= 29

LEMMA ConnectedStart ==
  ASSUME StartInv, NEW p, Allowed(p), sessions' = Connected(p.serial, p)
  PROVE  StartInv'
<1>. USE DEF StartInv, StartsWhatWasChecked
<1>1. CASE UNCHANGED sessions
  BY <1>1, Zenon
<1>2. CASE sessions' = [sessions EXCEPT ![p.serial] = [camera |-> p.camera, virtual |-> p.virtual, up |-> TRUE]]
  <2>1. sessions' = [s \in Serials |-> IF s = p.serial
                                      THEN [camera |-> p.camera, virtual |-> p.virtual, up |-> TRUE]
                                      ELSE sessions[s]]
    BY <1>2, Zenon
  <2>2. sessions' = [s \in Serials |-> sessions'[s]]
    BY <2>1, Zenon
  <2>3. ASSUME NEW s \in Serials, sessions'[s].up
        PROVE  (sessions'[s].camera => Sdk[s] >= 31) /\ (sessions'[s].virtual => Sdk[s] >= 29)
    <3>1. CASE s = p.serial
      <4>1. sessions'[s] = [camera |-> p.camera, virtual |-> p.virtual, up |-> TRUE]
        BY <2>1, <3>1, Zenon
      <4>2. sessions'[s].camera = p.camera /\ sessions'[s].virtual = p.virtual
        BY <4>1
      <4>. QED BY <3>1, <4>2, Zenon DEF Allowed
    <3>2. CASE s # p.serial
      BY <2>1, <2>3, <3>2, Zenon
    <3>. QED BY <3>1, <3>2
  <2>. QED BY <2>2, <2>3
<1>. QED BY <1>1, <1>2, Zenon DEF Connected

\* Without a camera or a virtual display every phone will do.
LEMMA StartServerStart == ASSUME StartInv, NEW p, StartServer(p) PROVE StartInv'
<1>1. CASE p.camera \/ p.virtual
  BY <1>1, Zenon DEF StartServer, StartInv, StartsWhatWasChecked
<1>2. CASE ~(p.camera \/ p.virtual)
  BY <1>2, ConnectedStart, Zenon DEF StartServer, Allowed
<1>. QED BY <1>1, <1>2

LEMMA NewEnoughStart == ASSUME StartInv, NEW p, sessions' = NewEnough(p) PROVE StartInv'
<1>1. CASE p.serial # NoSerial /\ Sdk[p.serial] >= MinimumSdk(p)
  <2>1. Allowed(p)
    <3>1. p.serial \in Serials => Sdk[p.serial] \in Nat
      BY LauncherAssumption
    <3>2. CASE p.camera
      BY <1>1, <3>1, <3>2, SMT DEF Allowed, MinimumSdk
    <3>3. CASE ~p.camera
      BY <1>1, <3>1, <3>3, SMT DEF Allowed, MinimumSdk
    <3>. QED BY <3>2, <3>3
  <2>. QED BY <1>1, <2>1, ConnectedStart, Zenon DEF NewEnough
<1>2. CASE UNCHANGED sessions
  BY <1>2, Zenon DEF StartInv, StartsWhatWasChecked
<1>. QED BY <1>1, <1>2, Zenon DEF NewEnough

\* A session that ends.
LEMMA EndedStart ==
  ASSUME StartInv, NEW S, sessions' = [s \in Serials |-> IF s \in S THEN NoSession ELSE sessions[s]]
  PROVE  StartInv'
<1>1. \A s \in S : s \in Serials => sessions'[s] = NoSession
  BY Zenon
<1>2. \A s \in Serials : s \notin S => sessions'[s] = sessions[s]
  BY Zenon
<1>3. ~NoSession.up
  BY DEF NoSession
<1>. QED BY <1>1, <1>2, <1>3, Zenon DEF StartInv, StartsWhatWasChecked

LEMMA StepStart == StartInv /\ [Next]_vars => StartInv'
<1>. SUFFICES ASSUME StartInv, [Next]_vars PROVE StartInv'
  OBVIOUS
<1>1. CASE UNCHANGED sessions
  BY <1>1, Zenon DEF StartInv, StartsWhatWasChecked
<1>2. CASE OnStartServer
  BY <1>2, StartServerStart DEF OnStartServer
<1>3. CASE \E s \in Serials : OnPhoneDoubleClicked(s)
  BY <1>3, StartServerStart, Zenon DEF OnPhoneDoubleClicked
<1>4. CASE \E i \in 1..MaxClicks, ok \in BOOLEAN : VersionAnswered(i, ok)
  BY <1>4, <1>1, NewEnoughStart, Zenon DEF VersionAnswered
<1>5. ASSUME NEW s \in Serials, sessions' = [sessions EXCEPT ![s] = NoSession] PROVE StartInv'
  <2>1. sessions' = [t \in Serials |-> IF t \in {s} THEN NoSession ELSE sessions[t]]
    BY <1>5, Zenon DEF StartInv
  <2>. QED BY <2>1, EndedStart
<1>6. CASE OnStopServer
  <2>1. CASE serial \in Serials
    BY <1>5, <1>6, <2>1 DEF OnStopServer
  <2>2. CASE serial \notin Serials
    <3>1. sessions' = sessions
      BY <1>6, <2>2, Zenon DEF OnStopServer, StartInv
    <3>. QED BY <3>1, <1>1
  <2>. QED BY <2>1, <2>2
<1>7. CASE \E s \in Serials : SessionEnds(s)
  BY <1>5, <1>7, Zenon DEF SessionEnds
<1>8. CASE OnStopAllServer \/ OnOneClick("usb") \/ OnOneClick("wifi")
  <2>1. sessions' = [s \in Serials |-> IF s \in Serials THEN NoSession ELSE sessions[s]]
    BY <1>8, Zenon DEF OnStopAllServer, OnOneClick, StopAllServer
  <2>. QED BY <2>1, EndedStart
<1>9. CASE FlowStarts
  BY <1>1, <1>9, StartServerStart, Zenon DEF FlowStarts
<1>10. CASE FlowAsksAddress \/ FlowUpdates \/ FlowStartsAdbd \/ FlowConnects
  BY <1>1, <1>10, Zenon DEF FlowAsksAddress, FlowUpdates, FlowStartsAdbd, FlowConnects
<1>11. CASE Console \/ OnAutoUpdateTimeout \/ OnAutoUpdateToggled \/ AdbSucceeds
            \/ (\E started \in BOOLEAN : AdbFails(started))
  BY <1>1, <1>11, Zenon DEF Console, OnAutoUpdateTimeout, OnAutoUpdateToggled, AdbSucceeds, AdbFails
<1>12. CASE \E s \in Serials : SelectSerial(s) \/ Plug(s)
  BY <1>1, <1>12, Zenon DEF SelectSerial, Plug
<1>13. CASE OnVideoSourceChanged \/ OnDisplayModeChanged \/ (\E b \in Buttons : OnRefresh(b) \/ RefreshGoesOn(b))
  BY <1>1, <1>13, Zenon DEF OnVideoSourceChanged, OnDisplayModeChanged, OnRefresh, RefreshGoesOn
<1>14. CASE UNCHANGED NotAudio \/ UNCHANGED vars
  BY <1>1, <1>14, Zenon DEF NotAudio, vars
<1>. QED BY <1>2, <1>3, <1>4, <1>6, <1>7, <1>8, <1>9, <1>10, <1>11, <1>12, <1>13, <1>14, Zenon DEF Next

-----------------------------------------------------------------------------
(* The refresh buttons                                                     *)

ButtonRecord == [enabled : BOOLEAN, busy : BOOLEAN, push : Nat, list : Nat]

RefreshTypeOK ==
  /\ camera \in BOOLEAN
  /\ refresh \in [Buttons -> ButtonRecord]

Back(b) ==
  refresh[b].push + refresh[b].list = 0 =>
    ~refresh[b].busy /\ (b = "cameras" => refresh[b].enabled = camera)

RefreshInv == RefreshTypeOK /\ \A b \in Buttons : Back(b)

\* Only the button that is clicked, or whose process ends, is touched; at work it
\* has a process left, otherwise it is restored.
LEMMA ButtonInv ==
  ASSUME RefreshInv, NEW b \in Buttons, camera' = camera,
         NEW r \in ButtonRecord,
         refresh' = [refresh EXCEPT ![b] = r],
         r.push + r.list > 0 \/ (~r.busy /\ r.enabled = ForSource(b))
  PROVE  RefreshInv'
<1>. USE DEF RefreshInv
<1>1. RefreshTypeOK'
  BY SMT DEF RefreshTypeOK
<1>2. refresh'[b] = r /\ \A c \in Buttons \ {b} : refresh'[c] = refresh[c]
  BY Zenon DEF RefreshTypeOK
<1>3. Back(b)'
  <2>1. CASE r.push + r.list > 0
    BY <2>1, <1>2, SMT DEF Back
  <2>2. CASE ~r.busy /\ r.enabled = ForSource(b)
    <3>1. b = "cameras" => ForSource(b) = camera
      BY Zenon DEF ForSource, RefreshTypeOK
    <3>. QED BY <2>2, <3>1, <1>2, Zenon DEF Back
  <2>. QED BY <2>1, <2>2
<1>4. ASSUME NEW c \in Buttons \ {b} PROVE Back(c)'
  BY <1>2, Zenon DEF Back
<1>. QED BY <1>1, <1>3, <1>4, Zenon

LEMMA EnabledIsRecord ==
  ASSUME NEW r \in ButtonRecord, NEW x \in BOOLEAN
  PROVE  [r EXCEPT !.enabled = x] \in ButtonRecord
BY SMT DEF ButtonRecord

LEMMA RestoredInv ==
  ASSUME RefreshInv, NEW b \in Buttons, camera' = camera, NEW p \in Nat, NEW l \in Nat,
         refresh' = [refresh EXCEPT ![b] = Restored(b, p, l)]
  PROVE  RefreshInv'
<1>1. ForSource(b) \in BOOLEAN
  BY Zenon DEF ForSource
<1>2. Restored(b, p, l) \in ButtonRecord
  BY <1>1, SMT DEF Restored, ButtonRecord
<1>3. ~Restored(b, p, l).busy /\ Restored(b, p, l).enabled = ForSource(b)
  BY SMT DEF Restored
<1>. QED BY <1>2, <1>3, ButtonInv

LEMMA InitRefresh == Init => RefreshInv
BY SMT DEF Init, RefreshInv, RefreshTypeOK, ButtonRecord, Back, Buttons

LEMMA StepRefresh == RefreshInv /\ [Next]_vars => RefreshInv'
<1>. SUFFICES ASSUME RefreshInv, [Next]_vars PROVE RefreshInv'
  OBVIOUS
<1>1. CASE UNCHANGED <<camera, refresh>>
  BY <1>1, Zenon DEF RefreshInv, RefreshTypeOK, Back
<1>2. CASE OnVideoSourceChanged
  <2>1. camera' = ~camera /\ refresh' = [refresh EXCEPT !["cameras"].enabled = ~camera]
    BY <1>2, Zenon DEF OnVideoSourceChanged
  <2>2. RefreshTypeOK'
    <3>. DEFINE r == [refresh["cameras"] EXCEPT !.enabled = ~camera]
    <3>1. "cameras" \in Buttons /\ (~camera) \in BOOLEAN /\ camera' \in BOOLEAN
      BY <2>1, Zenon DEF Buttons
    <3>2. r \in ButtonRecord
      BY <3>1, EnabledIsRecord, Zenon DEF RefreshInv, RefreshTypeOK
    <3>3. refresh' = [refresh EXCEPT !["cameras"] = r]
      BY <2>1, Zenon
    <3>. QED BY <3>1, <3>2, <3>3, Zenon DEF RefreshInv, RefreshTypeOK
  <2>3. Back("cameras")' /\ Back("apps")'
    BY <2>1, SMT DEF RefreshInv, RefreshTypeOK, Back, Buttons
  <2>. QED BY <2>2, <2>3, Zenon DEF RefreshInv, Buttons
<1>3. ASSUME NEW b \in Buttons, OnRefresh(b) PROVE RefreshInv'
  <2>1. Asked(refresh[b]) \in ButtonRecord /\ Asked(refresh[b]).push + Asked(refresh[b]).list > 0
    BY SMT DEF RefreshInv, RefreshTypeOK, ButtonRecord, Asked
  <2>2. refresh' = [refresh EXCEPT ![b] = Asked(refresh[b])] /\ camera' = camera
    BY <1>3, Zenon DEF OnRefresh
  <2>. QED BY <2>1, <2>2, ButtonInv
<1>4. ASSUME NEW b \in Buttons, NEW ok \in BOOLEAN, refresh[b].push > 0, PushEnds(b, ok), camera' = camera
      PROVE  RefreshInv'
  <2>1. Pushed(refresh[b]) \in ButtonRecord /\ Pushed(refresh[b]).push + Pushed(refresh[b]).list > 0
    BY <1>4, SMT DEF RefreshInv, RefreshTypeOK, ButtonRecord, Pushed
  <2>2. CASE ok
    <3>1. refresh' = [refresh EXCEPT ![b] = Pushed(refresh[b])]
      BY <1>4, <2>2, Zenon DEF PushEnds
    <3>. QED BY <1>4, <2>1, <3>1, ButtonInv
  <2>3. CASE ~ok
    <3>1. refresh' = [refresh EXCEPT ![b] = Restored(b, refresh[b].push - 1, refresh[b].list)]
      BY <1>4, <2>3, Zenon DEF PushEnds
    <3>2. refresh[b].push - 1 \in Nat /\ refresh[b].list \in Nat
      BY <1>4, SMT DEF RefreshInv, RefreshTypeOK, ButtonRecord
    <3>. QED BY <1>4, <3>1, <3>2, RestoredInv
  <2>. QED BY <2>2, <2>3
<1>5. ASSUME NEW b \in Buttons, refresh[b].list > 0, ListEnds(b), camera' = camera
      PROVE  RefreshInv'
  <2>1. refresh' = [refresh EXCEPT ![b] = Restored(b, refresh[b].push, refresh[b].list - 1)]
    BY <1>5, Zenon DEF ListEnds
  <2>2. refresh[b].push \in Nat /\ refresh[b].list - 1 \in Nat
    BY <1>5, SMT DEF RefreshInv, RefreshTypeOK, ButtonRecord
  <2>. QED BY <1>5, <2>1, <2>2, RestoredInv
<1>6. CASE \E b \in Buttons : RefreshGoesOn(b)
  BY <1>6, <1>4, <1>5, Zenon DEF RefreshGoesOn
<1>7. CASE \E s \in Serials : SelectSerial(s) \/ SessionEnds(s) \/ OnPhoneDoubleClicked(s) \/ Plug(s)
  BY <1>1, <1>7, Zenon DEF SelectSerial, SessionEnds, OnPhoneDoubleClicked, Plug, Preview
<1>8. CASE Console \/ OnAutoUpdateTimeout \/ OnAutoUpdateToggled \/ AdbSucceeds
           \/ (\E started \in BOOLEAN : AdbFails(started))
  BY <1>1, <1>8, Zenon DEF Console, OnAutoUpdateTimeout, OnAutoUpdateToggled, AdbSucceeds, AdbFails,
                           Preview
<1>9. CASE OnStartServer \/ OnStopServer \/ OnStopAllServer
           \/ (\E i \in 1..MaxClicks, ok \in BOOLEAN : VersionAnswered(i, ok))
  BY <1>1, <1>9, Zenon DEF OnStartServer, OnStopServer, OnStopAllServer, VersionAnswered, Preview
<1>10. CASE OnOneClick("usb") \/ OnOneClick("wifi") \/ FlowUpdates \/ FlowAsksAddress
            \/ FlowStartsAdbd \/ FlowConnects \/ FlowStarts
  BY <1>1, <1>10, Zenon DEF OnOneClick, FlowUpdates, FlowAsksAddress, FlowStartsAdbd, FlowConnects,
                            FlowStarts, Resumes, Preview
<1>11. CASE OnDisplayModeChanged \/ UNCHANGED NotAudio \/ UNCHANGED vars
  BY <1>1, <1>11, Zenon DEF OnDisplayModeChanged, NotAudio, Preview, vars
<1>. QED BY <1>2, <1>3, <1>6, <1>7, <1>8, <1>9, <1>10, <1>11, Zenon DEF Next

-----------------------------------------------------------------------------
(* The theorems                                                            *)

LEMMA InitAudio == Init => AudioInv
<1>. SUFFICES ASSUME Init PROVE AudioInv
  OBVIOUS
<1>1. AudioTypeOK /\ ~running /\ ~quitting
  BY Zenon DEF Init, AudioInit, AudioTypeOK
<1>2. outputDevice = "none" /\ worker = "off" /\ call = "none"
  BY Zenon DEF Init, AudioInit
<1>. QED BY <1>1, <1>2, SMT DEF AudioInv, AudioRest, Waiting

LEMMA InitStart == Init => StartInv
<1>1. ~NoSession.up
  BY DEF NoSession
<1>. QED BY <1>1, Zenon DEF Init, StartInv, StartsWhatWasChecked

\* No step of the main window touches the sound, but for its own two buttons.
LEMMA StepAudio == AudioInv /\ [Next]_vars => AudioInv'
<1>. SUFFICES ASSUME AudioInv, [Next]_vars PROVE AudioInv'
  OBVIOUS
<1>1. CASE UNCHANGED audioVars
  <2>1. /\ (running' <=> running) /\ (quitting' <=> quitting)
        /\ UNCHANGED <<outputDevice, worker, call>> /\ AudioTypeOK'
    BY <1>1, Zenon DEF audioVars, AudioInv, AudioTypeOK
  <2>. QED BY <2>1, SMT DEF AudioInv, AudioRest, Waiting
<1>2. CASE OnStartAudio \/ OnStopAudio
  BY <1>2, AudioStartInv, AudioStopInv, Zenon DEF OnStartAudio, OnStopAudio
<1>3. CASE Sound
  BY <1>3, SoundInv
<1>4. CASE Console \/ OnAutoUpdateTimeout \/ OnAutoUpdateToggled \/ AdbSucceeds
           \/ (\E started \in BOOLEAN : AdbFails(started))
  BY <1>1, <1>4, Zenon DEF Console, OnAutoUpdateTimeout, OnAutoUpdateToggled, AdbSucceeds, AdbFails
<1>5. CASE \E s \in Serials : SelectSerial(s) \/ SessionEnds(s) \/ OnPhoneDoubleClicked(s) \/ Plug(s)
  BY <1>1, <1>5, Zenon DEF SelectSerial, SessionEnds, OnPhoneDoubleClicked, Plug
<1>6. CASE OnStartServer \/ OnStopServer \/ OnStopAllServer
           \/ (\E i \in 1..MaxClicks, ok \in BOOLEAN : VersionAnswered(i, ok))
  BY <1>1, <1>6, Zenon DEF OnStartServer, OnStopServer, OnStopAllServer, VersionAnswered
<1>7. CASE OnOneClick("usb") \/ OnOneClick("wifi") \/ FlowUpdates \/ FlowAsksAddress
           \/ FlowStartsAdbd \/ FlowConnects \/ FlowStarts
  BY <1>1, <1>7, Zenon DEF OnOneClick, FlowUpdates, FlowAsksAddress, FlowStartsAdbd, FlowConnects,
                           FlowStarts, Resumes
<1>8. CASE OnVideoSourceChanged \/ OnDisplayModeChanged
           \/ (\E b \in Buttons : OnRefresh(b) \/ RefreshGoesOn(b))
  BY <1>1, <1>8, Zenon DEF OnVideoSourceChanged, OnDisplayModeChanged, OnRefresh, RefreshGoesOn
<1>9. CASE UNCHANGED vars
  BY <1>1, <1>9, Zenon DEF vars
<1>. QED BY <1>2, <1>3, <1>4, <1>5, <1>6, <1>7, <1>8, <1>9, Zenon DEF Next

\* A camera preview or a virtual display is started only on a phone whose Android
\* is known to have it, for any phones and any order of clicks and answers.
THEOREM StartSafety == Spec => []StartsWhatWasChecked
<1>1. StartInv => StartsWhatWasChecked
  BY DEF StartInv
<1>. QED BY <1>1, InitStart, StepStart, PTL DEF Spec

\* A refresh button whose processes have all ended is no longer shown at work,
\* and the camera's can be clicked exactly while the camera is the source.
THEOREM RefreshSafety == Spec => []RefreshReturns
<1>1. RefreshInv => RefreshReturns
  BY Zenon DEF RefreshInv, Back, RefreshReturns
<1>. QED BY <1>1, InitRefresh, StepRefresh, PTL DEF Spec

\* The worker never writes to a sound device that was closed under it, and
\* neither is left once stop() has returned, however often it is started.
THEOREM AudioSafety == Spec => []AudioStopsCleanly
<1>1. AudioInv => AudioStopsCleanly
  BY Zenon DEF AudioInv, AudioRest, AudioStopsCleanly
<1>. QED BY <1>1, InitAudio, StepAudio, PTL DEF Spec
=============================================================================
