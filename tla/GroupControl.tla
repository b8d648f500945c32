---------------------------- MODULE GroupControl ----------------------------
(***************************************************************************)
(* GroupControl: the devices that are mirrored, the window each has, and   *)
(* the GroupController, which repeats what is done at a host's window on   *)
(* every other device of the group.  A serial's connection goes through    *)
(* the phases of Session, which DeviceSession shows to be what a Device    *)
(* and its Server really do.  Calls between devices, windows and the group *)
(* are direct calls on the UI thread: one user's event is one step.        *)
(***************************************************************************)
EXTENDS Naturals, FiniteSets

CONSTANT Serials

VARIABLES
  phase,      \* DeviceManage: free, connecting, connected, stuck
  kind,       \* DeviceParams: display, flex, camera, or record (no window content)
  observers,  \* Device::m_deviceObservers: "form" and "group"
  form,       \* the VideoForm: none, shown, closing (deleteLater() called)
  tool,       \* its ToolForm exists
  host,       \* ToolForm::m_isHost
  group       \* GroupController::m_devices

groupVars == <<phase, kind, observers, form, tool, host, group>>

GroupInit ==
  /\ phase = [s \in Serials |-> "free"]
  /\ kind = [s \in Serials |-> "display"]
  /\ observers = [s \in Serials |-> {}]
  /\ form = [s \in Serials |-> "none"]
  /\ tool = [s \in Serials |-> FALSE]
  /\ host = [s \in Serials |-> FALSE]
  /\ group = {}

-----------------------------------------------------------------------------
(* Device: what each of its commands asks for, and which it repeats.       *)

Keys      == {"postGoBack", "postGoHome", "postGoMenu", "postAppSwitch", "postPower",
              "postVolumeUp", "postVolumeDown", "postCopy", "postCut"}
Panels    == {"setDisplayPower", "expandNotificationPanel", "expandSettingsPanel",
              "collapsePanel", "rotateDevice", "startApp"}
Clipboard == {"postBackOrScreenOn", "postTextInput", "requestDeviceClipboard",
              "setDeviceClipboard", "clipboardPaste"}
Files     == {"pushFileRequest", "installApkRequest"}
Inputs    == {"mouseEvent", "wheelEvent", "keyEvent"}
Camera    == {"setCameraTorch", "cameraZoomIn", "cameraZoomOut"}
Resize    == {"resizeDisplay"}
Picture   == {"screenshot"}

Commands == UNION {Keys, Panels, Clipboard, Files, Inputs, Camera, Resize, Picture}

\* The observers hear of these; of a screenshot, a camera's command or a
\* display's own size they do not.
Broadcast == UNION {Keys, Panels, Clipboard, Files, Inputs}

\* The early returns of Device's methods.
Accepts(s, c) ==
  /\ phase[s] = "connected"
  /\ kind[s] # "record"
  /\ kind[s] = "camera" => c \notin Broadcast
  /\ kind[s] # "camera" => c \notin Camera
  /\ kind[s] # "flex" => c \notin Resize

-----------------------------------------------------------------------------
(* GroupController                                                         *)

\* VideoForm::isHost(), of the window that is the Device's user data.
IsHost(s) == tool[s] /\ host[s]

GroupInputs    == {"mouseEvent", "wheelEvent", "keyEvent"}
GroupKeys      == {"postGoBack", "postGoHome", "postGoMenu", "postAppSwitch", "postPower",
                   "postVolumeUp", "postVolumeDown", "postCopy", "postCut"}
\* Mutant: one method is not overridden.
GroupPanelsFew == {"setDisplayPower", "expandNotificationPanel", "expandSettingsPanel",
                   "collapsePanel", "startApp"}
GroupPanels    == {"setDisplayPower", "expandNotificationPanel", "expandSettingsPanel",
                   "collapsePanel", "rotateDevice", "startApp"}
GroupClipboard == {"postBackOrScreenOn", "postTextInput", "requestDeviceClipboard",
                   "setDeviceClipboard", "clipboardPaste"}
GroupFiles     == {"pushFileRequest", "installApkRequest"}

Overridden == UNION {GroupInputs, GroupKeys, GroupPanels, GroupClipboard, GroupFiles}

\* The devices a call of the group goes to, in whichever method.
Followers == {t \in group : ~IsHost(t) /\ phase[t] = "connected"}

\* A command given to the Device of s goes to its controller and, through its
\* observers, to the group, which gives it to the Device of each follower.
Relays(s, c) ==
  IF "group" \in observers[s] /\ Accepts(s, c) /\ c \in Broadcast /\ c \in Overridden
  THEN Followers ELSE {}

\* How often the controller of t gets it: directly, from s, or from a
\* follower of s that would repeat it in turn.
Times(s, c, t) ==
  IF Accepts(t, c)
  THEN (IF t = s THEN 1 ELSE 0) + (IF t \in Relays(s, c) THEN 1 ELSE 0)
       + Cardinality({r \in Relays(s, c) : t \in Relays(r, c)})
  ELSE 0

Reached(s, c) == {t \in Serials : Times(s, c, t) > 0}

\* updateDeviceState(), after the host button
UpdateDeviceState(s, isHost) ==
  observers' = IF s \in group /\ phase[s] = "connected"
               THEN [observers EXCEPT ![s] = IF isHost THEN @ \cup {"group"} ELSE @ \ {"group"}]
               ELSE observers

-----------------------------------------------------------------------------
(* DeviceManage and the Dialog's slots                                     *)

\* The Dialog asks for a device; deviceConnected() answers.
Connect(s, k) ==
  /\ phase[s] = "free" /\ form[s] = "none"
  /\ phase' = [phase EXCEPT ![s] = "connecting"]
  /\ kind' = [kind EXCEPT ![s] = k]
  /\ observers' = [observers EXCEPT ![s] = {}]
  /\ UNCHANGED <<form, tool, host, group>>

\* The stop button before the answer: the entry stays behind.
Abandon(s) ==
  /\ phase[s] = "connecting"
  /\ phase' = [phase EXCEPT ![s] = "stuck"]
  /\ kind' = [kind EXCEPT ![s] = "display"]
  /\ UNCHANGED <<observers, form, tool, host, group>>

AddDevice(s) == group' = group \cup {s}

\* Mutant: the device stays in the group's list.
KeepDevice(s) == group' = group

\* removeDevice(), while DeviceManage still knows the Device.
RemoveDevice(s) == group' = group \ {s}

\* Mutant: a host's registration is forgotten with its place in the list.
RemainingOfHost(s) == observers[s] \ {"form"}

\* What is left of a Device's observers after Dialog::onDeviceDisconnected():
\* the group deregisters from a host's, the window is always deregistered.
RemainingObservers(s) ==
  observers[s] \ ({"form"} \cup (IF s \in group /\ IsHost(s) THEN {"group"} ELSE {}))

\* Dialog::onDeviceConnected()
Answer(s, success) ==
  /\ phase[s] = "connecting"
  /\ \/ /\ success
        /\ phase' = [phase EXCEPT ![s] = "connected"]
        /\ UNCHANGED kind
        /\ form' = [form EXCEPT ![s] = "shown"]
        /\ observers' = [observers EXCEPT ![s] = @ \cup {"form"}]
        /\ AddDevice(s)
        /\ UNCHANGED <<tool, host>>
     \/ /\ ~success
        /\ phase' = [phase EXCEPT ![s] = "free"]
        /\ kind' = [kind EXCEPT ![s] = "display"]
        /\ UNCHANGED <<form, observers, tool, host, group>>

\* Dialog::onDeviceDisconnected(), emitted by DeviceManage before it drops the
\* entry, however the connection ended: the closeEvent() of the window finds a
\* Device without a server and does nothing more.
End(s) ==
  /\ phase[s] = "connected"
  /\ phase' = [phase EXCEPT ![s] = "free"]
  /\ RemoveDevice(s)
  /\ observers' = [observers EXCEPT ![s] = RemainingObservers(s)]
  /\ form' = [form EXCEPT ![s] = "closing"]
  /\ UNCHANGED <<kind, tool, host>>

\* The deferred deletion of the window and, with it, of its toolbar.
DeleteForm(s) ==
  /\ form[s] = "closing"
  /\ form' = [form EXCEPT ![s] = "none"]
  /\ tool' = [tool EXCEPT ![s] = FALSE]
  /\ host' = [host EXCEPT ![s] = FALSE]
  /\ kind' = [kind EXCEPT ![s] = "display"]
  /\ UNCHANGED <<phase, observers, group>>

-----------------------------------------------------------------------------
(* ToolForm                                                                *)

\* showToolForm() creates it; its constructor's updateGroupControl() has no
\* serial yet and registers nothing.
MakeTool(s) == tool' = [tool EXCEPT ![s] = TRUE]

\* on_groupControlBtn_clicked(): a camera's toolbar hides the button.
ToggleHost(s) ==
  /\ form[s] = "shown" /\ tool[s] /\ kind[s] # "camera"
  /\ host' = [host EXCEPT ![s] = ~@]
  /\ UpdateDeviceState(s, ~host[s])
  /\ UNCHANGED <<phase, kind, form, tool, group>>

\* The commands of the toolbar's buttons ...
ToolButtons(s) ==
  {"screenshot"} \cup
  (IF kind[s] = "camera"
   THEN Camera
   ELSE {"postGoBack", "postGoHome", "postGoMenu", "postAppSwitch", "postPower",
         "postVolumeUp", "postVolumeDown", "setDisplayPower", "expandNotificationPanel",
         "expandSettingsPanel", "rotateDevice", "requestDeviceClipboard"})

\* ... and of the window's shortcuts.
Shortcuts ==
  {"postGoHome", "postGoBack", "postAppSwitch", "postGoMenu", "postVolumeUp",
   "postVolumeDown", "postPower", "setDisplayPower", "expandNotificationPanel",
   "expandSettingsPanel", "rotateDevice", "collapsePanel", "postCopy", "postCut",
   "setDeviceClipboard", "clipboardPaste"}

\* What its mouse, wheel and keys ask for, and the files dropped on it.
WindowEvents == {"mouseEvent", "wheelEvent", "keyEvent", "postGoHome", "postGoBack",
                 "postBackOrScreenOn"}
Drops == {"installApkRequest", "pushFileRequest"}

Offered(s) ==
  IF form[s] = "shown"
  THEN UNION {Shortcuts, WindowEvents, Drops, IF tool[s] THEN ToolButtons(s) ELSE {}}
  ELSE {}

-----------------------------------------------------------------------------
GroupTypeOK ==
  /\ phase \in [Serials -> {"free", "connecting", "connected", "stuck"}]
  /\ kind \in [Serials -> {"display", "flex", "camera", "record"}]
  /\ observers \in [Serials -> SUBSET {"form", "group"}]
  /\ form \in [Serials -> {"none", "shown", "closing"}]
  /\ tool \in [Serials -> BOOLEAN] /\ host \in [Serials -> BOOLEAN]
  /\ group \subseteq Serials

\* isHost() and getFrameSize() use the Device of every serial in the group, and
\* the window behind its user data, without a check (groupcontroller.cpp:13, 23):
\* each has both, whichever way and in whichever order connections end.
GroupIsReachable == \A s \in group : phase[s] = "connected" /\ form[s] = "shown"

\* A Device calls the windows and the group it has registered until it is
\* deleted: no window of a closed connection is among them, and the group
\* listens to exactly the hosts it lists.
ObserversAreLive ==
  \A s \in Serials :
    /\ "form" \in observers[s] <=> form[s] = "shown"
    /\ "group" \in observers[s] <=> s \in group /\ IsHost(s)

\* What the user does at a window reaches its phone once; what is done at a
\* host's reaches every other phone of the group that is not a host's once, and
\* never a second host, whatever was connected, unplugged and toggled before.
ReachesOnce ==
  \A s \in Serials : \A c \in Offered(s) : \A t \in Serials :
    Times(s, c, t) =
      IF /\ Accepts(s, c) /\ Accepts(t, c)
         /\ t = s \/ (IsHost(s) /\ ~IsHost(t) /\ c \in Broadcast)
      THEN 1 ELSE 0
=============================================================================
