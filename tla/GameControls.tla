---------------------------- MODULE GameControls ----------------------------
(***************************************************************************)
(* The game controls of one mirrored phone: the panel, which keeps the     *)
(* scheme of the phone's foreground app in force, the editor, a page of    *)
(* the panel, which changes the app's schemes, the store they share, and   *)
(* the monitor that notices another app.  All of it runs on the UI thread, *)
(* one handler at a time; but a dialog the editor opens runs an event loop *)
(* of its own, in which the monitor's timer fires, the window loses the    *)
(* focus and the phone is unplugged before the user answers.               *)
(*                                                                         *)
(* This is the life of one panel, on one connection of its phone.  A       *)
(* panel outlives its connection: nobody deletes it (toolform.cpp:43), and *)
(* when the same phone connects again it goes on polling, and setting its  *)
(* scheme on the phone, beside the new connection's own panel; two panels  *)
(* that show the same app also write the same files.  Nothing here is said *)
(* of two panels.                                                          *)
(***************************************************************************)
EXTENDS KeymapFiles, FiniteSetsExt

CONSTANTS
  Apps,         \* package ids (one may be _unknown)
  NumSchemes,   \* a bound: scheme names of an app, in the order of its directory
  Stored,       \* the schemes there are at first, of the first name
  Controls,     \* the controls the user makes, a tap also without a key
  ModeChoices,  \* what the user captures as switch and lock keys
  Speeds,       \* what the panel's sliders are set to
  MaxControls,  \* a bound: controls of a scheme
  MaxChanges    \* a bound: how often the user changes controls or the store

ASSUME SchemesAssumption == NumSchemes \in Nat \ {0}

\* What the dialogs can return, and what the program itself has written before:
\* the store is internal, not a folder to browse by hand
\* (keymapprofilestore.cpp:66), and an empty one satisfies it.
ASSUME ControlsAssumption == \A n \in Controls : ControlOK(n)
ASSUME StoredAssumption == \A f \in Stored : FileOK(f)

Names   == 1..NumSchemes
NoName  == 0
NoFile  == [shoot |-> "no file"]
NoScript == [shoot |-> "no script"]
DefaultModes == [switch |-> DefaultSwitch, lock |-> DefaultLock]

VARIABLES
  store,     \* the files, by app and name
  live,      \* the Device's converter: its script, and m_gameMap; or no Device
  panel,     \* m_interfaceId, m_currentProfileName, m_nodes and the mode keys
  master,    \* m_masterEnabled
  active,    \* m_windowActive
  page,      \* the page shown: none (no editor yet), panel, editor
  editor,    \* the combo's entry, m_currentProfileName, the markers, mode keys, m_dirty
  dialog,    \* the modal dialog that is open
  toggled,   \* history: the user has pressed the switch key since
  unsaved,   \* history: a slider's save failed
  changes,
  keyless    \* history: a scheme was written with a tap without a key on its look anchor

vars == <<store, live, panel, master, active, page, editor, dialog,
          toggled, unsaved, changes, keyless>>

NoDevice == [script |-> [shoot |-> "no device"], gameMap |-> FALSE]
Normal   == [script |-> NoScript, gameMap |-> FALSE]
NoDialog == [kind |-> "none"]

Blank == [pick |-> NoName, name |-> NoName, nodes |-> <<>>, modes |-> DefaultModes,
          dirty |-> FALSE]

-----------------------------------------------------------------------------
(* KeyMapProfileStore                                                      *)

ListProfiles(st, a) == {n \in Names : st[a][n] # NoFile}
ProfileExists(a, n) == store[a][n] # NoFile
Saved(a, n, modes, nodes) == [store EXCEPT ![a][n] = ToJson(modes, nodes)]
Deleted(st, a, n) == IF n = NoName THEN st ELSE [st EXCEPT ![a][n] = NoFile]

Files == {store[a][n] : a \in Apps, n \in Names} \ {NoFile}

\* One of the user's changes, of the controls or of the store
Change ==
  /\ changes < MaxChanges
  /\ changes' = changes + 1
  /\ keyless' = (keyless \/ \E f \in Files' : KeylessFire(f))

-----------------------------------------------------------------------------
(* GameControlsPanel                                                       *)

\* loadActiveScheme()
PanelWith(st, a, n) ==
  IF n = NoName
  THEN [app |-> a, scheme |-> NoName, nodes |-> <<>>, modes |-> DefaultModes]
  ELSE LET read == FromJson(st[a][n])
       IN [app |-> a, scheme |-> n, nodes |-> read.nodes, modes |-> read.modes]

\* reloadSchemeList(): the scheme with the name of the one before, else the first.
ReloadSchemeList(st, a, before) ==
  LET names == ListProfiles(st, a)
  IN PanelWith(st, a, IF names = {} THEN NoName
                      ELSE IF before \in names THEN before ELSE Min(names))

ForcedOn(p, m, act) == m /\ p.scheme # NoName /\ act

\* Mutant: the keymap is not forced on again.
ConverterOff(p, m, act) ==
  IF ~m \/ p.scheme = NoName THEN Normal
  ELSE [script |-> ToJson(p.modes, p.nodes), gameMap |-> FALSE]

\* The converter updateScript() builds, which starts outside the keymap, after
\* the engageForFocus() that follows.
Converter(p, m, act) ==
  IF ~m \/ p.scheme = NoName THEN Normal
  ELSE [script |-> ToJson(p.modes, p.nodes), gameMap |-> ForcedOn(p, m, act)]

\* applyLiveScript()
ApplyLiveScript(p, m, act) ==
  /\ live' = IF live = NoDevice THEN NoDevice ELSE Converter(p, m, act)
  /\ toggled' = FALSE

\* setCustomKeymapForced(); the plain converter has no keymap to force.
EngageForFocus(act) ==
  /\ live' = IF live = NoDevice \/ live.script = NoScript THEN live
             ELSE [live EXCEPT !.gameMap = ForcedOn(panel, master, act)]
  /\ toggled' = FALSE

ShowScheme(st, a, before) ==
  /\ panel' = ReloadSchemeList(st, a, before)
  /\ ApplyLiveScript(panel', master, active)
  /\ unsaved' = FALSE

\* Mutant: only a new or vanished name makes the panel reload.
OnEditorProfilesChangedNames(st) ==
  IF ListProfiles(st, panel.app) = ListProfiles(store, panel.app)
  THEN UNCHANGED <<panel, live, toggled, unsaved>>
  ELSE ShowScheme(st, panel.app, panel.scheme)

\* The editor's app is the panel's, which follows every change of the store.
\* (A save's applyLive() is undone by it in the same call.)
OnEditorProfilesChanged(st) == ShowScheme(st, panel.app, panel.scheme)

OnMasterToggled ==
  /\ page # "editor" /\ dialog = NoDialog
  /\ master' = ~master
  /\ ApplyLiveScript(panel, master', active)
  /\ UNCHANGED <<store, panel, active, page, editor, dialog, unsaved, changes, keyless>>

OnSchemeChanged(n) ==
  /\ page # "editor" /\ dialog = NoDialog
  /\ n \in ListProfiles(store, panel.app) /\ n # panel.scheme
  /\ panel' = PanelWith(store, panel.app, n)
  /\ ApplyLiveScript(panel', master, active)
  /\ unsaved' = FALSE
  /\ UNCHANGED <<store, master, active, page, editor, dialog, changes, keyless>>

\* A slider changes the look control and saves the scheme; a failure of the
\* save is not looked at.
OnSensitivityChanged(v, ok) ==
  /\ page # "editor" /\ dialog = NoDialog /\ master
  /\ HasLook(panel.nodes) /\ panel.nodes[LookIndex(panel.nodes)].speed # v
  /\ panel' = [panel EXCEPT !.nodes[LookIndex(panel.nodes)].speed = v]
  /\ ApplyLiveScript(panel', master, active)
  /\ store' = IF ok THEN Saved(panel.app, panel.scheme, panel.modes, panel'.nodes) ELSE store
  /\ Change
  /\ unsaved' = ~ok
  /\ UNCHANGED <<master, active, page, editor, dialog>>

OnWindowActiveChanged ==
  /\ live # NoDevice
  /\ active' = ~active
  /\ EngageForFocus(active')
  /\ UNCHANGED <<store, panel, master, page, editor, dialog, unsaved, changes, keyless>>

\* The user's switch key, in the engine (InputConvertGame::switchGameMap()).
SwitchKey ==
  /\ live # NoDevice /\ live.script # NoScript /\ active /\ dialog = NoDialog
  /\ live' = [live EXCEPT !.gameMap = ~@]
  /\ toggled' = TRUE
  /\ UNCHANGED <<store, panel, master, active, page, editor, dialog, unsaved, changes, keyless>>

-----------------------------------------------------------------------------
(* GameControlsEditor                                                      *)

\* addMarkerForNode() needs the window, which the phone's end takes away.
Markers(nodes) == IF live = NoDevice THEN <<>> ELSE nodes

\* onProfileChanged(), from the combo or from a reload of its list
ProfileChanged(st, n) ==
  IF n = NoName THEN Blank
  ELSE LET read == FromJson(st[panel.app][n])
       IN [pick |-> n, name |-> n, nodes |-> Markers(read.nodes), modes |-> read.modes,
           dirty |-> FALSE]

\* The list is filled again with its first, empty entry current already: going
\* back to that one is no change, and the mode keys and m_dirty stay.
BackToBlank(e) == [Blank EXCEPT !.modes = e.modes, !.dirty = e.dirty]

\* setInterface() of another app
SetInterface == editor' = BackToBlank(editor)

\* Every marker is deleted, also one whose dialog is open.
Orphaned(d) == IF d.kind = "edit" THEN [d EXCEPT !.at = 0] ELSE d

\* onOpenEditorClicked(): an editor that has the scheme selected is shown as it was.
OnOpenEditorClicked ==
  /\ page # "editor" /\ dialog = NoDialog
  /\ page' = "editor"
  /\ editor' = IF panel.scheme \in {NoName, editor.pick} THEN editor
               ELSE ProfileChanged(store, panel.scheme)
  /\ UNCHANGED <<store, live, panel, master, active, dialog, toggled, unsaved, changes, keyless>>

\* Its close button, and the panel being hidden
OnEditorClosed ==
  /\ page = "editor" /\ dialog = NoDialog
  /\ page' = "panel"
  /\ UNCHANGED <<store, live, panel, master, active, editor, dialog, toggled, unsaved, changes, keyless>>

Editing == page = "editor" /\ dialog = NoDialog

NotEditor == <<store, live, panel, master, active, page, toggled, unsaved>>
OnlyEditor == UNCHANGED NotEditor /\ UNCHANGED <<changes, keyless>>
Edited == UNCHANGED NotEditor /\ Change

OnProfileChanged(n) ==
  /\ Editing /\ n # editor.pick
  /\ n \in {NoName} \cup ListProfiles(store, panel.app)
  /\ editor' = ProfileChanged(store, n)
  /\ UNCHANGED dialog /\ OnlyEditor

\* A capture button of the mode keys; nothing compares them with the controls.
CaptureModes(m) ==
  /\ Editing /\ m # editor.modes
  /\ editor' = [editor EXCEPT !.modes = m, !.dirty = TRUE]
  /\ UNCHANGED dialog /\ Edited

\* The keys of every marker but one
CollectOtherKeys(i) == [KeysOf(editor.nodes) EXCEPT ![i] = <<>>]

KeysFit(keys) ==
  /\ \A s, t \in DOMAIN keys : keys[s] # None /\ keys[s] = keys[t] => s = t
  /\ (Range(keys) \ {None}) \cap {editor.modes.switch, editor.modes.lock} = {}

\* Mutant: only the control's own buttons are counted.
ValidateNodeKeysAlone(n, others) == KeysFit(n.keys) /\ ButtonsOnce(<<n.keys>>)

\* validateNodeKeys(): no key twice in the control, none that is a mode key, no
\* mouse button twice in the scheme.  Keyboard keys may repeat.
ValidateNodeKeys(n, others) == KeysFit(n.keys) /\ ButtonsOnce(Append(others, n.keys))

\* A palette entry is dropped on the window; its dialog asks for the keys.
HandleControlDropped(act) ==
  /\ Editing /\ live # NoDevice /\ Len(editor.nodes) < MaxControls
  /\ ~(act \in {"freeLook", "aimPanShoot"} /\ HasLook(editor.nodes))
  /\ dialog' = [kind |-> "add", act |-> act, others |-> KeysOf(editor.nodes)]
  /\ UNCHANGED editor /\ OnlyEditor

\* The markers stay on the window when the panel's other page is shown.
OnMarkers == dialog = NoDialog /\ live # NoDevice

EditMarker(i) ==
  /\ OnMarkers /\ i \in DOMAIN editor.nodes
  /\ dialog' = [kind |-> "edit", at |-> i, act |-> editor.nodes[i].act,
                keys |-> editor.nodes[i].keys, others |-> CollectOtherKeys(i)]
  /\ UNCHANGED editor /\ OnlyEditor

\* captureValidNode(): the dialog comes back until the keys are valid.
AddAnswered(n) ==
  /\ dialog.kind = "add" /\ n.act = dialog.act /\ ValidateNodeKeys(n, dialog.others)
  /\ editor' = [editor EXCEPT !.nodes = @ \o Markers(<<n>>), !.dirty = TRUE]
  /\ dialog' = NoDialog
  /\ Edited

\* A slot that has a key is bound to another one, never unbound.  Of a marker
\* deleted meanwhile nothing is left to change.
EditAnswered(n) ==
  /\ dialog.kind = "edit" /\ n.act = dialog.act /\ ValidateNodeKeys(n, dialog.others)
  /\ \A s \in DOMAIN n.keys : n.keys[s] = None => dialog.keys[s] = None
  /\ editor' = IF dialog.at = 0 THEN [editor EXCEPT !.dirty = TRUE]
               ELSE [editor EXCEPT !.dirty = TRUE, !.nodes[dialog.at] =
                                     Node(@.act, n.keys, @.at, @.to, n.speed)]
  /\ dialog' = NoDialog
  /\ Edited

RemoveMarker(i) ==
  /\ OnMarkers /\ i \in DOMAIN editor.nodes
  /\ editor' = [editor EXCEPT !.nodes = RemoveAt(@, i), !.dirty = TRUE]
  /\ UNCHANGED dialog /\ Edited

\* A marker is dragged onto the spot of another.
MoveMarker(i, j) ==
  /\ OnMarkers /\ {i, j} \subseteq DOMAIN editor.nodes
  /\ editor.nodes[i].at # editor.nodes[j].at
  /\ editor' = [editor EXCEPT !.nodes[i].at = editor.nodes[j].at, !.dirty = TRUE]
  /\ UNCHANGED dialog /\ Edited

\* The buttons that ask for a name, or whether the user is sure
Ask(kind) ==
  /\ Editing
  /\ kind \in {"rename", "duplicate", "delete"} => editor.name # NoName
  /\ kind = "save" => editor.name = NoName
  /\ kind = "reset" => editor.dirty
  /\ dialog' = [kind |-> kind]
  /\ UNCHANGED editor /\ OnlyEditor

Cancel ==
  /\ dialog # NoDialog
  /\ dialog' = NoDialog
  /\ UNCHANGED editor /\ OnlyEditor

SamePhone == UNCHANGED <<master, active, page>>

\* The end of every button that has changed the store
Changed(st) ==
  /\ store' = st
  /\ Change
  /\ dialog' = NoDialog
  /\ OnEditorProfilesChanged(st)
  /\ SamePhone

\* What a button does whose save failed: it says so.
Failed(e) ==
  /\ editor' = e
  /\ dialog' = NoDialog
  /\ UNCHANGED <<store, live, panel, master, active, page, toggled, unsaved, changes, keyless>>

\* onNewProfile(), answered: the new name stays also when its file cannot be made.
NewProfile(n, ok) ==
  /\ dialog.kind = "new" /\ ~ProfileExists(panel.app, n)
  /\ IF ok
     THEN LET st == Saved(panel.app, n, DefaultModes, <<>>)
          IN editor' = ProfileChanged(st, n) /\ Changed(st)
     ELSE Failed([Blank EXCEPT !.pick = editor.pick, !.name = n, !.dirty = editor.dirty])

OnRenameProfile(n, ok) ==
  /\ dialog.kind = "rename" /\ n # editor.name /\ ~ProfileExists(panel.app, n)
  /\ IF ok
     THEN LET st == Deleted(Saved(panel.app, n, editor.modes, editor.nodes),
                            panel.app, editor.name)
          IN editor' = ProfileChanged(st, n) /\ Changed(st)
     ELSE Failed(editor)

OnDuplicateProfile(n, ok) ==
  /\ dialog.kind = "duplicate" /\ ~ProfileExists(panel.app, n)
  /\ IF ok
     THEN LET st == Saved(panel.app, n, editor.modes, editor.nodes)
          IN editor' = ProfileChanged(st, n) /\ Changed(st)
     ELSE Failed(editor)

\* onSaveProfile(): under the scheme's name, or under the one asked for, which
\* may be another scheme's.
OnSaveProfile(n, ok) ==
  /\ \/ Editing /\ editor.name # NoName /\ n = editor.name
     \/ dialog.kind = "save"
  /\ IF ok
     THEN LET st == Saved(panel.app, n, editor.modes, editor.nodes)
          IN editor' = ProfileChanged(st, n) /\ Changed(st)
     ELSE Failed(editor)

OnDeleteProfile ==
  /\ dialog.kind = "delete"
  /\ editor' = BackToBlank(editor)
  /\ Changed(Deleted(store, panel.app, editor.name))

\* onCancelEdits(), at once when nothing is to be lost
OnCancelEdits ==
  /\ (Editing /\ ~editor.dirty) \/ dialog.kind = "reset"
  /\ editor' = ProfileChanged(store, editor.pick)
  /\ dialog' = NoDialog
  /\ OnlyEditor

-----------------------------------------------------------------------------
(* The phone and the monitor                                               *)

\* poll() finds another app in the foreground: onInterfaceChanged(), whatever
\* dialog is open
Poll(a) ==
  /\ a # panel.app
  /\ IF page = "none" THEN UNCHANGED editor ELSE SetInterface
  /\ dialog' = Orphaned(dialog)
  /\ ShowScheme(store, a, panel.scheme)
  /\ UNCHANGED <<store, master, active, page, changes, keyless>>

\* The phone is unplugged: its window goes with the markers on it; the panel,
\* a window of its own that nobody deletes, does not.
Disconnect ==
  /\ live # NoDevice
  /\ live' = NoDevice
  /\ editor' = [editor EXCEPT !.nodes = <<>>]
  /\ dialog' = Orphaned(dialog)
  /\ toggled' = FALSE
  /\ UNCHANGED <<store, panel, master, active, page, unsaved, changes, keyless>>

\* A panel's constructor: the scheme of the foreground app, or of _unknown, is
\* in force before the window has the focus.
NewPanel(st, a) == ReloadSchemeList(st, a, NoName)

Init ==
  /\ master \in BOOLEAN
  /\ \E old \in [Apps -> Stored \cup {NoFile}] :
       store = [a \in Apps |-> [n \in Names |-> IF n = 1 THEN old[a] ELSE NoFile]]
  /\ \E a \in Apps : panel = NewPanel(store, a)
  /\ active = FALSE /\ page = "none" /\ editor = Blank /\ dialog = NoDialog
  /\ live = Converter(panel, master, FALSE)
  /\ toggled = FALSE /\ unsaved = FALSE
  /\ changes = 0 /\ keyless = FALSE

Next ==
  \/ OnMasterToggled
  \/ \E n \in Names : OnSchemeChanged(n) \/ OnProfileChanged(n)
  \/ OnProfileChanged(NoName)
  \/ \E v \in Speeds, ok \in BOOLEAN : OnSensitivityChanged(v, ok)
  \/ OnWindowActiveChanged
  \/ SwitchKey
  \/ OnOpenEditorClicked
  \/ OnEditorClosed
  \/ \E m \in ModeChoices : CaptureModes(m)
  \/ \E n \in Controls : HandleControlDropped(n.act) \/ AddAnswered(n) \/ EditAnswered(n)
  \/ \E i \in 1..MaxControls : EditMarker(i) \/ RemoveMarker(i)
  \/ \E i, j \in 1..MaxControls : MoveMarker(i, j)
  \/ \E k \in {"new", "rename", "duplicate", "save", "delete", "reset"} : Ask(k)
  \/ Cancel
  \/ \E n \in Names, ok \in BOOLEAN :
       \/ NewProfile(n, ok)
       \/ OnRenameProfile(n, ok)
       \/ OnDuplicateProfile(n, ok)
       \/ OnSaveProfile(n, ok)
  \/ OnDeleteProfile
  \/ OnCancelEdits
  \/ \E a \in Apps : Poll(a)
  \/ Disconnect

Spec == Init /\ [][Next]_vars

-----------------------------------------------------------------------------
\* On the connection of the panel, the phone has in force what it shows: the
\* script of its scheme, or none, whatever was saved, renamed or failed, in
\* whichever app; and the keymap is engaged exactly while the window has the focus
\* and the game control is on (gamecontrolspanel.h:31), unless the user has pressed
\* the switch key since.  (Of a phone that comes back, and then has two panels,
\* nothing is said.)
DeviceFollowsPanel ==
  live # NoDevice =>
    /\ live.script = IF master /\ panel.scheme # NoName
                     THEN ToJson(panel.modes, panel.nodes) ELSE NoScript
    /\ ~toggled => live.gameMap = ForcedOn(panel, master, active)

\* The panel's copy of a scheme, which its sliders write back whole, is the one
\* in the store, unless that very write failed, or a scheme was ever written with a
\* tap without a key right on its look anchor, which does not read back as it was
\* written; it shows none only when the app has none.
PanelShowsStored ==
  /\ panel.scheme = NoName <=> ListProfiles(store, panel.app) = {}
  /\ panel.scheme # NoName /\ ~unsaved /\ ~keyless =>
       panel = PanelWith(store, panel.app, panel.scheme)

\* No scheme, on the screen or read of the store, has two look controls, and none
\* of these nor a file itself has a mouse button bound twice: the engine has one
\* place for each, and would take one of them in silence
\* (gamecontrolseditor.cpp:850).  The code breaks it after one case, which is
\* named here: a scheme was written with a tap without a key right on its look
\* anchor (controlinspectordialog.cpp:144 takes such a tap).
Unambiguous(nodes) ==
  /\ \A i, j \in DOMAIN nodes : IsLook(nodes[i]) /\ IsLook(nodes[j]) => i = j
  /\ ButtonsOnce(KeysOf(nodes))

SchemesUnambiguous ==
  ~keyless =>
    /\ Unambiguous(editor.nodes)
    /\ \A f \in Files : ButtonsOnce(KeysOf(f.nodes)) /\ Unambiguous(FromJson(f).nodes)

\* Opening a scheme and saving it again changes nothing for the engine: the
\* click of the fire icon is known again wherever it was put, and the order of
\* the controls, which decides between equal keys, is kept.  Not so for a
\* scheme with a tap spot right on the look anchor, nor after one of these
\* without a key was written.
OnAnchor(f) == \E i \in DOMAIN f.nodes :
                 f.nodes[i].act = "tapSpot" /\ f.look # NoLook /\ f.nodes[i].at = f.look.at

Reopened(f) == LET s == FromJson(f) IN ToJson(s.modes, s.nodes)

ReopeningKeepsMeaning ==
  ~keyless =>
    \A f \in Files :
      LET again == Reopened(f)
      IN again # f => OnAnchor(f) \/ Meaning(again) = Meaning(f)
=============================================================================
