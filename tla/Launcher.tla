------------------------------ MODULE Launcher ------------------------------
(***************************************************************************)
(* The main window (Dialog).  Everything runs on the UI thread, but the    *)
(* adb commands it starts end later, each in an event of its own; the      *)
(* one-click buttons wait for them in delayMs(), an event loop within the  *)
(* handler, in which every other button, timer and result is served.  The  *)
(* sessions of the device manager are only there or not (DeviceSession     *)
(* has the rest); names, histories and the log are left out.               *)
(***************************************************************************)
EXTENDS Naturals, Sequences, SequencesExt, AudioOutput

CONSTANTS
  Phones,       \* all the phones' serials, in the order adb lists them
  Wireless,     \* those that are an address
  AddressOf,    \* a phone's address, or NoSerial
  Sdk,          \* a phone's Android API level
  MaxClicks     \* a bound: what the user clicks, plugs in and out

NoSerial == "none"
Serials == {Phones[i] : i \in DOMAIN Phones}

ASSUME LauncherAssumption ==
  /\ Wireless \subseteq Serials /\ NoSerial \notin Serials
  /\ AddressOf \in [Serials -> Wireless \cup {NoSerial}]
  /\ Sdk \in [Serials -> Nat]

VARIABLES
  attached,    \* the phones adb reaches
  tcpip,       \* the phones whose adbd listens on the network
  box,         \* serialBox's entries
  serial,      \* its current one
  ip,          \* deviceIpEdt: whose address it holds
  adb,         \* m_adb: the command that runs, or none
  flows,       \* the one-click buttons at work, the innermost last
  autoUpdate,  \* m_autoUpdatetimer runs
  camera,      \* the video source is the camera
  virtual,     \* advanced display: a new virtual display
  checks,      \* the versionAdb processes at work, with their parameters
  sessions,    \* the device manager's: the parameters of each, or none
  refresh,     \* the two refresh buttons and the processes they started
  clicks

vars == <<attached, tcpip, box, serial, ip, adb, flows, autoUpdate, camera,
          virtual, checks, sessions, refresh, clicks, audioVars>>

Idle == [cmd |-> "none", on |-> NoSerial]
NoSession == [camera |-> FALSE, virtual |-> FALSE, up |-> FALSE]

\* A user's command.  The UI thread is free, in an event loop of whatever depth.
UiFree == call = "none"
Click == UiFree /\ clicks < MaxClicks /\ clicks' = clicks + 1

-----------------------------------------------------------------------------
(* The adb console                                                         *)

\* checkAdbRun() and execute(): a command while another runs is dropped.
Execute(cmd, on) == adb' = IF adb = Idle THEN [cmd |-> cmd, on |-> on] ELSE adb

Phone == <<attached, tcpip>>
List  == <<box, serial>>
Preview == <<camera, virtual, checks, refresh>>

OnUpdateDevice == Execute("devices", NoSerial)
OnGetIP == Execute("ifconfig", serial)
GetIPbyIp == [cmd |-> "ip -o a", on |-> serial]
OnStartAdbd == Execute("tcpip", serial)
OnWirelessConnect == IF ip = NoSerial THEN UNCHANGED adb ELSE Execute("connect", ip)
OnWirelessDisconnect == Execute("disconnect", ip)
OnAdbCommand == Execute("other", serial)

Console ==
  /\ Click
  /\ \/ OnUpdateDevice
     \/ OnGetIP
     \/ OnStartAdbd
     \/ OnWirelessConnect
     \/ OnWirelessDisconnect
     \/ OnAdbCommand
  /\ UNCHANGED <<Phone, List, ip, flows, autoUpdate, Preview, sessions, audioVars>>

OnAutoUpdateTimeout ==
  /\ UiFree /\ autoUpdate /\ adb = Idle
  /\ OnUpdateDevice
  /\ UNCHANGED <<Phone, List, ip, flows, autoUpdate, Preview, sessions, clicks, audioVars>>

OnAutoUpdateToggled ==
  /\ Click
  /\ autoUpdate' = ~autoUpdate
  /\ UNCHANGED <<Phone, List, ip, adb, flows, Preview, sessions, audioVars>>

First(s) == IF s = <<>> THEN NoSerial ELSE s[1]

\* "devices": the box is filled anew, its first entry becomes the current one.
DevicesListed ==
  /\ adb.cmd = "devices"
  /\ box' = SelectSeq(Phones, LAMBDA s : s \in attached)
  /\ serial' = First(box')
  /\ UNCHANGED <<attached, tcpip, ip>>

\* The phone a command reaches: the one it names or, with no name, the only one.
Reached == IF adb.on = NoSerial
           THEN {s \in attached : attached = {s}} ELSE {adb.on} \cap attached

\* The phone's answer has its wlan0 address in it, or not.
AddressRead ==
  /\ adb.cmd \in {"ifconfig", "ip -o a"}
  /\ ip' \in {ip} \cup ({AddressOf[s] : s \in Reached} \ {NoSerial})
  /\ UNCHANGED <<attached, tcpip, List>>

\* What the other commands do to the phones
PhoneChanged ==
  /\ adb.cmd \in {"tcpip", "connect", "disconnect", "other"}
  /\ CASE adb.cmd = "tcpip" ->
            tcpip' = tcpip \cup Reached /\ UNCHANGED attached
       [] adb.cmd = "connect" ->
            /\ attached' = attached \cup {w \in {adb.on} : \E s \in tcpip : AddressOf[s] = w}
            /\ UNCHANGED tcpip
       [] adb.cmd = "disconnect" ->
            /\ attached' = attached \ (IF adb.on = NoSerial THEN Wireless ELSE {adb.on})
            /\ UNCHANGED tcpip
       [] adb.cmd = "other" -> UNCHANGED <<attached, tcpip>>
  /\ UNCHANGED <<List, ip>>

AdbSucceeds ==
  /\ UiFree /\ adb # Idle
  /\ adb' = Idle
  /\ DevicesListed \/ AddressRead \/ PhoneChanged
  /\ UNCHANGED <<flows, autoUpdate, Preview, sessions, clicks, audioVars>>

\* Also what the button that kills the command does: an ifconfig that fails, or
\* is killed, is followed by the other way to ask, of the phone now current; not
\* so when there is no adb to start.
AdbFails(started) ==
  /\ UiFree /\ adb # Idle
  /\ adb' = IF started /\ adb.cmd = "ifconfig" THEN GetIPbyIp ELSE Idle
  /\ UNCHANGED <<Phone, List, ip, flows, autoUpdate, Preview, sessions, clicks, audioVars>>

SelectSerial(s) ==
  /\ Click
  /\ Contains(box, s) /\ s # serial
  /\ serial' = s
  /\ UNCHANGED <<Phone, box, ip, adb, flows, autoUpdate, Preview, sessions, audioVars>>

-----------------------------------------------------------------------------
(* Starting and stopping a session                                         *)

\* The manager takes no phone twice, and none without a serial.
Connected(s, p) ==
  IF s = NoSerial \/ sessions[s].up THEN sessions
  ELSE [sessions EXCEPT ![s] = [camera |-> p.camera, virtual |-> p.virtual, up |-> TRUE]]

\* A preview of the camera has no advanced display.
Params == [serial |-> serial, camera |-> camera, virtual |-> virtual /\ ~camera]

MinimumSdk(p) == IF p.camera THEN 31 ELSE 29

\* on_startServerBtn_clicked(): what the phone must be new enough for, it is
\* asked first.
StartServer(p) ==
  IF p.camera \/ p.virtual
  THEN checks' = Append(checks, p) /\ UNCHANGED sessions
  ELSE sessions' = Connected(p.serial, p) /\ UNCHANGED checks

OnStartServer ==
  /\ Click
  /\ StartServer(Params)
  /\ UNCHANGED <<Phone, List, ip, adb, flows, autoUpdate, camera, virtual, refresh, audioVars>>

\* Mutant: the phone is the one that is current when the answer comes.
NewEnoughCurrent(p) ==
  IF p.serial # NoSerial /\ Sdk[p.serial] >= MinimumSdk(p)
  THEN Connected(serial, p) ELSE sessions

\* The answer of the phone that was asked, for the parameters of that moment
NewEnough(p) ==
  IF p.serial # NoSerial /\ Sdk[p.serial] >= MinimumSdk(p)
  THEN Connected(p.serial, p) ELSE sessions

VersionAnswered(i, ok) ==
  /\ UiFree /\ i \in DOMAIN checks
  /\ checks' = RemoveAt(checks, i)
  /\ sessions' = IF ok THEN NewEnough(checks[i]) ELSE sessions
  /\ UNCHANGED <<Phone, List, ip, adb, flows, autoUpdate, camera, virtual, refresh,
                 clicks, audioVars>>

\* disconnectDevice(); a version check under way is not called off.
OnStopServer ==
  /\ Click
  /\ serial # NoSerial /\ sessions[serial].up
  /\ sessions' = [sessions EXCEPT ![serial] = NoSession]
  /\ UNCHANGED <<Phone, List, ip, adb, flows, autoUpdate, Preview, audioVars>>

StopAllServer == sessions' = [s \in Serials |-> NoSession]

OnStopAllServer ==
  /\ Click
  /\ StopAllServer
  /\ UNCHANGED <<Phone, List, ip, adb, flows, autoUpdate, Preview, audioVars>>

\* A session that fails or whose phone is lost
SessionEnds(s) ==
  /\ UiFree /\ sessions[s].up
  /\ sessions' = [sessions EXCEPT ![s] = NoSession]
  /\ UNCHANGED <<Phone, List, ip, adb, flows, autoUpdate, Preview, clicks, audioVars>>

\* A double click on a phone of the list
OnPhoneDoubleClicked(s) ==
  /\ Click
  /\ Contains(box, s)
  /\ serial' = s
  /\ StartServer([Params EXCEPT !.serial = s])
  /\ UNCHANGED <<Phone, box, ip, adb, flows, autoUpdate, camera, virtual, refresh, audioVars>>

-----------------------------------------------------------------------------
(* The one-click buttons                                                   *)

FindDevice(wifi) == First(SelectSeq(box, LAMBDA s : (s \in Wireless) = wifi))

\* on_usbConnectBtn_clicked(), on_wifiConnectBtn_clicked(), up to the first delay
OnOneClick(flow) ==
  /\ Click
  /\ StopAllServer
  /\ flows' = Append(flows, [flow |-> flow, at |-> 1])
  /\ UNCHANGED <<Phone, List, ip, adb, autoUpdate, Preview, audioVars>>

Top == flows[Len(flows)]
NextStep == flows' = [flows EXCEPT ![Len(flows)].at = @ + 1]
Return == flows' = Front(flows)

\* The steps after a delay; only the innermost loop's delay can end.
Resumes(at) ==
  /\ UiFree /\ flows # <<>> /\ Top.at \in at
  /\ UNCHANGED <<Phone, box, ip, autoUpdate, camera, virtual, refresh, clicks, audioVars>>

FlowUpdates ==
  /\ Resumes(IF Top.flow = "usb" THEN {1} ELSE {1, 5})
  /\ OnUpdateDevice
  /\ NextStep
  /\ UNCHANGED <<serial, checks, sessions>>

FlowAsksAddress ==
  /\ Resumes({2}) /\ Top.flow = "wifi"
  /\ IF FindDevice(FALSE) = NoSerial
     THEN Return /\ UNCHANGED <<serial, adb>>
     ELSE serial' = FindDevice(FALSE) /\ NextStep
          /\ Execute("ifconfig", serial')
  /\ UNCHANGED <<checks, sessions>>

FlowStartsAdbd ==
  /\ Resumes({3}) /\ OnStartAdbd /\ NextStep
  /\ UNCHANGED <<serial, checks, sessions>>

FlowConnects ==
  /\ Resumes({4}) /\ OnWirelessConnect /\ NextStep
  /\ UNCHANGED <<serial, checks, sessions>>

FlowStarts ==
  /\ Resumes(IF Top.flow = "usb" THEN {2} ELSE {6})
  /\ LET found == FindDevice(Top.flow = "wifi")
     IN IF found = NoSerial
        THEN UNCHANGED <<serial, checks, sessions>>
        ELSE serial' = found /\ StartServer([Params EXCEPT !.serial = found])
  /\ Return /\ UNCHANGED adb

-----------------------------------------------------------------------------
(* The lists a phone is asked for: its cameras, its apps                   *)

Buttons == {"cameras", "apps"}

\* updateVideoSourceUi(): the camera's button itself is enabled or disabled,
\* the apps' only with the group it is in.
OnVideoSourceChanged ==
  /\ Click
  /\ camera' = ~camera
  /\ refresh' = [refresh EXCEPT !["cameras"].enabled = camera']
  /\ UNCHANGED <<Phone, List, ip, adb, flows, autoUpdate, virtual, checks, sessions, audioVars>>

OnDisplayModeChanged ==
  /\ Click
  /\ ~camera /\ virtual' = ~virtual
  /\ UNCHANGED <<Phone, List, ip, adb, flows, autoUpdate, camera, checks, refresh,
                 sessions, audioVars>>

ForSource(b) == (b = "cameras") = camera

Asked(r) == [enabled |-> FALSE, busy |-> TRUE, push |-> r.push + 1, list |-> r.list]

\* A refresh pushes the server to the phone, then runs it for the list; not
\* while the phone has a session.
OnRefresh(b) ==
  /\ Click
  /\ refresh[b].enabled /\ ForSource(b)
  /\ serial # NoSerial /\ ~sessions[serial].up
  /\ refresh' = [refresh EXCEPT ![b] = Asked(@)]
  /\ UNCHANGED <<Phone, List, ip, adb, flows, autoUpdate, camera, virtual, checks,
                 sessions, audioVars>>

\* The button as the end of a refresh leaves it
Restored(b, push, list) ==
  [enabled |-> ForSource(b), busy |-> FALSE, push |-> push, list |-> list]

\* A push that succeeds is followed by the list.
Pushed(r) == [enabled |-> r.enabled, busy |-> r.busy, push |-> r.push - 1, list |-> r.list + 1]

\* Mutant: a push that fails is only logged.
PushEndsSilently(b, ok) ==
  refresh' = [refresh EXCEPT ![b] = IF ok THEN Pushed(@) ELSE [@ EXCEPT !.push = @ - 1]]

PushEnds(b, ok) ==
  refresh' = [refresh EXCEPT ![b] =
                IF ok THEN Pushed(@) ELSE Restored(b, @.push - 1, @.list)]

\* A list, or the failure to get one
ListEnds(b) ==
  refresh' = [refresh EXCEPT ![b] = Restored(b, @.push, @.list - 1)]

RefreshGoesOn(b) ==
  /\ UiFree
  /\ \/ refresh[b].push > 0 /\ \E ok \in BOOLEAN : PushEnds(b, ok)
     \/ refresh[b].list > 0 /\ ListEnds(b)
  /\ UNCHANGED <<Phone, List, ip, adb, flows, autoUpdate, camera, virtual, checks,
                 sessions, clicks, audioVars>>

-----------------------------------------------------------------------------
OnStartAudio == Click /\ box # <<>> /\ AudioStart
OnStopAudio == Click /\ AudioStop

NotAudio == <<Phone, List, ip, adb, flows, autoUpdate, Preview, sessions>>

\* A phone is plugged in or out; one that leaves takes its address with it.
Plug(s) ==
  /\ Click /\ s \notin Wireless
  /\ IF s \in attached
     THEN /\ attached' = attached \ {s, AddressOf[s]}
          /\ tcpip' = tcpip \ {s}
     ELSE attached' = attached \cup {s} /\ UNCHANGED tcpip
  /\ UNCHANGED <<List, ip, adb, flows, autoUpdate, Preview, sessions, audioVars>>

\* The constructor asks for the devices at once.
Init ==
  /\ attached \in SUBSET (Serials \ Wireless) /\ tcpip = {}
  /\ box = <<>> /\ serial = NoSerial /\ ip = NoSerial
  /\ adb = [cmd |-> "devices", on |-> NoSerial]
  /\ flows = <<>> /\ checks = <<>>
  /\ autoUpdate \in BOOLEAN /\ camera \in BOOLEAN /\ virtual = FALSE
  /\ sessions = [s \in Serials |-> NoSession]
  /\ refresh = [b \in Buttons |->
       [enabled |-> b = "apps" \/ camera, busy |-> FALSE, push |-> 0, list |-> 0]]
  /\ clicks = 0
  /\ AudioInit

Next ==
  \/ Console
  \/ OnAutoUpdateTimeout
  \/ OnAutoUpdateToggled
  \/ AdbSucceeds
  \/ \E started \in BOOLEAN : AdbFails(started)
  \/ \E s \in Serials : SelectSerial(s) \/ SessionEnds(s) \/ OnPhoneDoubleClicked(s) \/ Plug(s)
  \/ OnStartServer
  \/ \E i \in 1..MaxClicks, ok \in BOOLEAN : VersionAnswered(i, ok)
  \/ OnStopServer
  \/ OnStopAllServer
  \/ OnOneClick("usb") \/ OnOneClick("wifi")
  \/ FlowUpdates \/ FlowAsksAddress \/ FlowStartsAdbd \/ FlowConnects \/ FlowStarts
  \/ OnVideoSourceChanged
  \/ OnDisplayModeChanged
  \/ \E b \in Buttons : OnRefresh(b) \/ RefreshGoesOn(b)
  \/ (OnStartAudio \/ OnStopAudio) /\ UNCHANGED NotAudio
  \/ Sound /\ UNCHANGED <<NotAudio, clicks>>

Spec == Init /\ [][Next]_vars

-----------------------------------------------------------------------------
\* A camera preview or a virtual display is started only on a phone whose
\* Android is known to have it, whatever was selected, started or stopped in the
\* main window between the click and the phone's answer.
StartsWhatWasChecked ==
  \A s \in Serials : sessions[s].up =>
    /\ sessions[s].camera => Sdk[s] >= 31
    /\ sessions[s].virtual => Sdk[s] >= 29

\* A refresh button comes back: when none of the processes it started is left it
\* is no longer shown at work, and the camera's can be clicked exactly while the
\* camera is the source, however often the source was changed meanwhile.
RefreshReturns ==
  \A b \in Buttons : refresh[b].push + refresh[b].list = 0 =>
    /\ ~refresh[b].busy
    /\ b = "cameras" => refresh[b].enabled = camera
=============================================================================
