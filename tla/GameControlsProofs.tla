------------------------- MODULE GameControlsProofs -------------------------
(***************************************************************************)
(* Proofs about the game controls of a mirrored phone, for any apps,       *)
(* schemes and controls.  First the state machine alone, which knows of a  *)
(* file only that it is one: what is in force on the phone is what the     *)
(* panel shows (FollowInv), and the panel shows what is stored (ShownInv), *)
(* if what a slider writes reads back.  Then the data: what Those keeps of *)
(* a sequence, what makes a list of controls a scheme and a record a file, *)
(* and that the writer makes files, the reader schemes, and one undoes the *)
(* other.  With these the last part shows that every scheme the handlers   *)
(* leave behind is one (SchemesInv), and the hypothesis on the sliders     *)
(* goes away.                                                              *)
(***************************************************************************)
EXTENDS GameControls, SequenceTheorems, WellFoundedInduction, TLAPS

\* A written file is neither "no file" nor "no script".
LEMMA Written == \A modes, nodes : ToJson(modes, nodes) # NoFile /\ ToJson(modes, nodes) # NoScript
<1> TAKE modes, nodes
<1>1. "switch" \in DOMAIN ToJson(modes, nodes)
  BY DEF ToJson
<1>2. "switch" \notin DOMAIN NoFile /\ "switch" \notin DOMAIN NoScript
  BY DEF NoFile, NoScript
<1> QED BY <1>1, <1>2

\* The script of the panel's scheme, when the game control is on
ScriptOf(p, m) == IF m /\ p.scheme # NoName THEN ToJson(p.modes, p.nodes) ELSE NoScript

\* DeviceFollowsPanel, and what the focus and the switch key rely on: the plain
\* converter has no keymap to engage.
InForce(l, p, m, a, tog) ==
  l # NoDevice =>
    /\ l = [script |-> l.script, gameMap |-> l.gameMap]
    /\ l.script = ScriptOf(p, m)
    /\ ~tog => l.gameMap = ForcedOn(p, m, a)
    /\ l.script = NoScript => l.gameMap = FALSE

FollowInv ==
  /\ master \in BOOLEAN /\ active \in BOOLEAN
  /\ InForce(live, panel, master, active, toggled)

LEMMA ForcedOnIs ==
  ASSUME NEW p, NEW m \in BOOLEAN, NEW a \in BOOLEAN
  PROVE  /\ ForcedOn(p, m, a) \in BOOLEAN
         /\ ScriptOf(p, m) = NoScript => ForcedOn(p, m, a) = FALSE
BY Written DEF ForcedOn, ScriptOf

\* updateScript() and the engageForFocus() that follows it
LEMMA ConverterFollows ==
  ASSUME NEW p, NEW m \in BOOLEAN, NEW a \in BOOLEAN, NEW tog
  PROVE  InForce(Converter(p, m, a), p, m, a, tog)
<1> DEFINE c == Converter(p, m, a)
<1>1. CASE m /\ p.scheme # NoName
  <2>1. c = [script |-> ToJson(p.modes, p.nodes), gameMap |-> ForcedOn(p, m, a)]
    BY <1>1 DEF Converter
  <2> HIDE DEF c
  <2>2. c.script = ToJson(p.modes, p.nodes) /\ c.gameMap = ForcedOn(p, m, a)
    BY <2>1
  <2>3. c.script = ScriptOf(p, m) /\ c.script # NoScript
    BY <1>1, <2>2, Written DEF ScriptOf
  <2>4. InForce(c, p, m, a, tog)
    BY <2>1, <2>2, <2>3 DEF InForce
  <2> QED BY <2>4 DEF c
<1>2. CASE ~(m /\ p.scheme # NoName)
  <2>1. c = [script |-> NoScript, gameMap |-> FALSE]
    BY <1>2 DEF Converter, Normal
  <2> HIDE DEF c
  <2>2. c.script = NoScript /\ c.gameMap = FALSE
    BY <2>1
  <2>3. ScriptOf(p, m) = NoScript /\ ForcedOn(p, m, a) = FALSE
    BY <1>2 DEF ScriptOf, ForcedOn
  <2>4. InForce(c, p, m, a, tog)
    BY <2>1, <2>2, <2>3 DEF InForce
  <2> QED BY <2>4 DEF c
<1> QED BY <1>1, <1>2

LEMMA NoDeviceFollows ==
  ASSUME NEW p, NEW m, NEW a, NEW tog PROVE InForce(NoDevice, p, m, a, tog)
BY DEF InForce

\* applyLiveScript(), whatever panel and master have become
LEMMA ApplyFollows ==
  ASSUME master' \in BOOLEAN, active' \in BOOLEAN,
         NEW p, p = panel', NEW m, m = master', NEW a, a = active',
         ApplyLiveScript(p, m, a)
  PROVE  FollowInv'
<1>1. live' = NoDevice \/ live' = Converter(panel', master', active')
  BY DEF ApplyLiveScript
<1>2. InForce(live', panel', master', active', toggled')
  BY <1>1, ConverterFollows, NoDeviceFollows
<1> QED BY <1>2 DEF FollowInv

\* engageForFocus(), when the focus changes
LEMMA EngageFollows ==
  ASSUME FollowInv, NEW a \in BOOLEAN, EngageForFocus(a), active' = a,
         UNCHANGED <<panel, master>>
  PROVE  FollowInv'
<1>1. master \in BOOLEAN /\ InForce(live, panel, master, active, toggled)
  BY DEF FollowInv
<1>2. CASE live = NoDevice
  <2>1. live' = NoDevice
    BY <1>2 DEF EngageForFocus
  <2> QED BY <1>1, <2>1, NoDeviceFollows DEF FollowInv
<1>3. CASE live # NoDevice /\ live.script = NoScript
  <2>1. live' = live /\ live.gameMap = FALSE /\ ScriptOf(panel, master) = NoScript
    BY <1>1, <1>3 DEF EngageForFocus, InForce
  <2>2. ForcedOn(panel, master, a) = FALSE
    BY <1>1, <2>1, ForcedOnIs
  <2>3. InForce(live, panel, master, a, toggled')
    BY <1>1, <2>1, <2>2 DEF InForce
  <2> QED BY <1>1, <2>1, <2>3 DEF FollowInv
<1>4. CASE live # NoDevice /\ live.script # NoScript
  <2>1. live = [script |-> live.script, gameMap |-> live.gameMap] /\ live.script = ScriptOf(panel, master)
    BY <1>1, <1>4 DEF InForce
  <2>2. live' = [live EXCEPT !.gameMap = ForcedOn(panel, master, a)]
    BY <1>4 DEF EngageForFocus
  <2>3. live' = [script |-> live.script, gameMap |-> ForcedOn(panel, master, a)]
    BY <2>1, <2>2
  <2>4. live'.script = live.script /\ live'.gameMap = ForcedOn(panel, master, a)
    BY <2>3
  <2>5. InForce(live', panel, master, a, toggled')
    BY <1>4, <2>1, <2>3, <2>4 DEF InForce
  <2> QED BY <1>1, <2>5 DEF FollowInv
<1> QED BY <1>2, <1>3, <1>4

LEMMA FollowKept ==
  ASSUME FollowInv, UNCHANGED <<live, panel, master, active, toggled>> PROVE FollowInv'
BY DEF FollowInv

\* The reload that ends every change of the store and every change of app
LEMMA ShowFollows ==
  ASSUME FollowInv, NEW st, NEW a, NEW before, ShowScheme(st, a, before),
         UNCHANGED <<master, active>>
  PROVE  FollowInv'
<1>1. ApplyLiveScript(panel', master, active)
  BY DEF ShowScheme
<1>2. master' \in BOOLEAN /\ active' \in BOOLEAN
  BY DEF FollowInv
<1> QED BY <1>1, <1>2, ApplyFollows

LEMMA ChangedFollows ==
  ASSUME FollowInv, NEW st, Changed(st) PROVE FollowInv'
BY ShowFollows DEF Changed, OnEditorProfilesChanged, SamePhone

LEMMA FollowInit == Init => FollowInv
<1> SUFFICES ASSUME Init PROVE FollowInv
  OBVIOUS
<1>1. live = Converter(panel, master, FALSE)
  BY DEF Init
<1>2. master \in BOOLEAN /\ active = FALSE
  BY DEF Init
<1>3. InForce(live, panel, master, FALSE, toggled)
  BY <1>1, <1>2, ConverterFollows
<1> QED BY <1>2, <1>3 DEF FollowInv

\* Every handler leaves in force what the panel shows.
LEMMA FollowStep == FollowInv /\ [Next]_vars => FollowInv'
<1> SUFFICES ASSUME FollowInv, [Next]_vars PROVE FollowInv'
  OBVIOUS
<1>0. master \in BOOLEAN /\ active \in BOOLEAN
  BY DEF FollowInv
<1> USE DEF OnlyEditor, Edited, NotEditor
<1>1. CASE OnMasterToggled
  <2>1. master' \in BOOLEAN /\ active' \in BOOLEAN
    BY <1>0, <1>1 DEF OnMasterToggled
  <2>2. ApplyLiveScript(panel', master', active')
    BY <1>1 DEF OnMasterToggled
  <2> QED BY <2>1, <2>2, ApplyFollows
<1>2. ASSUME NEW n \in Names, OnSchemeChanged(n) PROVE FollowInv'
  <2>1. ApplyLiveScript(panel', master', active')
    BY <1>2 DEF OnSchemeChanged
  <2>2. master' \in BOOLEAN /\ active' \in BOOLEAN
    BY <1>0, <1>2 DEF OnSchemeChanged
  <2> QED BY <2>1, <2>2, ApplyFollows
<1>3. ASSUME NEW n, OnProfileChanged(n) PROVE FollowInv'
  BY <1>3, FollowKept DEF OnProfileChanged
<1>4. ASSUME NEW v \in Speeds, NEW ok \in BOOLEAN, OnSensitivityChanged(v, ok) PROVE FollowInv'
  <2>1. ApplyLiveScript(panel', master', active')
    BY <1>4 DEF OnSensitivityChanged
  <2>2. master' \in BOOLEAN /\ active' \in BOOLEAN
    BY <1>0, <1>4 DEF OnSensitivityChanged
  <2> QED BY <2>1, <2>2, ApplyFollows
<1>5. CASE OnWindowActiveChanged
  <2>1. (~active) \in BOOLEAN
    OBVIOUS
  <2>2. active' = (~active) /\ EngageForFocus(~active) /\ UNCHANGED <<panel, master>>
    BY <1>5 DEF OnWindowActiveChanged
  <2> QED BY <2>1, <2>2, EngageFollows
<1>6. CASE SwitchKey
  <2>1. /\ live # NoDevice /\ live.script # NoScript
        /\ live = [script |-> live.script, gameMap |-> live.gameMap]
        /\ live.script = ScriptOf(panel, master)
    BY <1>6 DEF SwitchKey, FollowInv, InForce
  <2>2. live' = [live EXCEPT !.gameMap = ~live.gameMap] /\ toggled' = TRUE
    BY <1>6 DEF SwitchKey
  <2>3. live' = [script |-> live.script, gameMap |-> ~live.gameMap]
    BY <2>1, <2>2
  <2>4. live'.script = live.script /\ live'.gameMap = ~live.gameMap
    BY <2>3
  <2>5. InForce(live', panel, master, active, toggled')
    BY <2>1, <2>2, <2>3, <2>4 DEF InForce
  <2>6. UNCHANGED <<panel, master, active>>
    BY <1>6 DEF SwitchKey
  <2> QED BY <1>0, <2>5, <2>6 DEF FollowInv
<1>7. CASE OnOpenEditorClicked \/ OnEditorClosed
  BY <1>7, FollowKept DEF OnOpenEditorClicked, OnEditorClosed
<1>8. ASSUME NEW m \in ModeChoices, CaptureModes(m) PROVE FollowInv'
  BY <1>8, FollowKept DEF CaptureModes
<1>9. ASSUME NEW n \in Controls, HandleControlDropped(n.act) \/ AddAnswered(n) \/ EditAnswered(n)
      PROVE FollowInv'
  BY <1>9, FollowKept DEF HandleControlDropped, AddAnswered, EditAnswered
<1>10. ASSUME NEW i \in 1..MaxControls, EditMarker(i) \/ RemoveMarker(i) PROVE FollowInv'
  BY <1>10, FollowKept DEF EditMarker, RemoveMarker
<1>11. ASSUME NEW i \in 1..MaxControls, NEW j \in 1..MaxControls, MoveMarker(i, j) PROVE FollowInv'
  BY <1>11, FollowKept DEF MoveMarker
<1>12. ASSUME NEW k, Ask(k) PROVE FollowInv'
  BY <1>12, FollowKept DEF Ask
<1>13. CASE Cancel \/ OnCancelEdits
  BY <1>13, FollowKept DEF Cancel, OnCancelEdits
<1>14. ASSUME NEW n \in Names, NEW ok \in BOOLEAN,
              \/ NewProfile(n, ok) \/ OnRenameProfile(n, ok)
              \/ OnDuplicateProfile(n, ok) \/ OnSaveProfile(n, ok)
       PROVE FollowInv'
  <2>1. (\E st : Changed(st)) \/ (\E e : Failed(e))
    BY <1>14 DEF NewProfile, OnRenameProfile, OnDuplicateProfile, OnSaveProfile
  <2>2. (\E e : Failed(e)) => FollowInv'
    BY FollowKept DEF Failed
  <2> QED BY <2>1, <2>2, ChangedFollows
<1>15. CASE OnDeleteProfile
  BY <1>15, ChangedFollows DEF OnDeleteProfile
<1>16. ASSUME NEW a \in Apps, Poll(a) PROVE FollowInv'
  BY <1>16, ShowFollows DEF Poll
<1>17. CASE Disconnect
  <2>1. live' = NoDevice /\ UNCHANGED <<panel, master, active>>
    BY <1>17 DEF Disconnect
  <2> QED BY <1>0, <2>1, NoDeviceFollows DEF FollowInv
<1>18. CASE UNCHANGED vars
  BY <1>18, FollowKept DEF vars
<1> QED BY <1>1, <1>2, <1>3, <1>4, <1>5, <1>6, <1>7, <1>8, <1>9, <1>10, <1>11, <1>12, <1>13, <1>14,
           <1>15, <1>16, <1>17, <1>18 DEF Next

\* On the panel's connection the phone has in force what it shows: the script of
\* its scheme or none, and the keymap engaged exactly while the window has the focus and the
\* game control is on, unless the user pressed the switch key since
\* (applyLiveScript, engageForFocus, updateScript).
THEOREM DeviceInForce == Spec => []DeviceFollowsPanel
<1>1. FollowInv => DeviceFollowsPanel
  BY DEF FollowInv, InForce, ScriptOf, DeviceFollowsPanel
<1> QED BY <1>1, FollowInit, FollowStep, PTL DEF Spec

-----------------------------------------------------------------------------
(***************************************************************************)
(* The panel and the store.  Every handler that changes the store makes    *)
(* the panel read it again, but for the sliders, which write the panel's   *)
(* own copy: that it reads back as it was written (SlidersReadBack) is a   *)
(* matter of the data, and shown last.                                     *)
(***************************************************************************)
SlidersReadBack ==
  (\E v \in Speeds : OnSensitivityChanged(v, TRUE)) /\ ~keyless' =>
    FromJson(ToJson(panel'.modes, panel'.nodes)) = [modes |-> panel'.modes, nodes |-> panel'.nodes]

StoreOf(st) == [a \in Apps |-> [n \in Names |-> st[a][n]]]

\* PanelShowsStored, and the types its handlers rely on: without a scheme there
\* is no control a slider could change.
Shown(p, st, un) ==
  /\ st = StoreOf(st) /\ p.app \in Apps
  /\ p = [app |-> p.app, scheme |-> p.scheme, nodes |-> p.nodes, modes |-> p.modes]
  /\ p.scheme = NoName <=> ListProfiles(st, p.app) = {}
  /\ p.scheme = NoName => p.nodes = <<>>
  /\ p.scheme # NoName => p.scheme \in ListProfiles(st, p.app)
  /\ ~un => p = PanelWith(st, p.app, p.scheme)

ShownInv == Shown(panel, store, unsaved \/ keyless)

\* The first name of the list is one of the list.
LEMMA MinIsMember ==
  ASSUME NEW S \in SUBSET Nat, S # {} PROVE Min(S) \in S
<1> DEFINE Less == OpToRel(<, Nat)
<1>1. \A i, j \in Nat : <<j, i>> \in Less <=> j < i
  BY DEF OpToRel
<1>2. IsWellFoundedOn(Less, Nat)
  BY NatLessThanWellFounded
<1> HIDE DEF Less
<1>3. PICK i \in S : \A j \in S : ~(<<j, i>> \in Less)
  BY <1>2, WFMin
<1>4. \A j \in S : i =< j
  <2> TAKE j \in S
  <2>1. i \in Nat /\ j \in Nat /\ ~(<<j, i>> \in Less)
    BY <1>3
  <2>2. ~(j < i)
    BY <1>1, <2>1
  <2> QED BY <2>1, <2>2
<1> QED BY <1>4 DEF Min

LEMMA NameOfProfile ==
  ASSUME NEW st, NEW a, NEW n \in ListProfiles(st, a) PROVE n # NoName /\ n \in Names
BY SchemesAssumption DEF ListProfiles, Names, NoName

\* loadActiveScheme() of a name that is in the list
LEMMA PanelWithShown ==
  ASSUME NEW st, NEW a \in Apps, st = StoreOf(st), NEW n, NEW un,
         \/ n = NoName /\ ListProfiles(st, a) = {}
         \/ n \in ListProfiles(st, a)
  PROVE  Shown(PanelWith(st, a, n), st, un)
<1> DEFINE p == PanelWith(st, a, n)
<1>1. CASE n = NoName /\ ListProfiles(st, a) = {}
  <2>1. p = [app |-> a, scheme |-> NoName, nodes |-> <<>>, modes |-> DefaultModes]
    BY <1>1 DEF PanelWith
  <2>2. p.app = a /\ p.scheme = NoName /\ p.nodes = <<>> /\ p.modes = DefaultModes
    BY <2>1
  <2>3. p = PanelWith(st, p.app, p.scheme)
    BY <1>1, <2>2
  <2> HIDE DEF p
  <2>4. Shown(p, st, un)
    BY <1>1, <2>1, <2>2, <2>3 DEF Shown
  <2> QED BY <2>4 DEF p
<1>2. CASE n \in ListProfiles(st, a)
  <2>0. n # NoName /\ ListProfiles(st, a) # {}
    BY <1>2, NameOfProfile
  <2> DEFINE r == FromJson(st[a][n])
  <2>1. p = [app |-> a, scheme |-> n, nodes |-> r.nodes, modes |-> r.modes]
    BY <2>0 DEF PanelWith
  <2> HIDE DEF r
  <2>2. p.app = a /\ p.scheme = n /\ p.nodes = r.nodes /\ p.modes = r.modes
    BY <2>1
  <2>3. p = PanelWith(st, p.app, p.scheme)
    BY <2>2
  <2> HIDE DEF p
  <2>4. Shown(p, st, un)
    BY <1>2, <2>0, <2>1, <2>2, <2>3 DEF Shown
  <2> QED BY <2>4 DEF p
<1> QED BY <1>1, <1>2

\* reloadSchemeList()
LEMMA ReloadShown ==
  ASSUME NEW st, NEW a \in Apps, st = StoreOf(st), NEW before, NEW un
  PROVE  Shown(ReloadSchemeList(st, a, before), st, un)
<1> DEFINE names == ListProfiles(st, a)
<1>1. names \in SUBSET Nat
  BY SchemesAssumption DEF ListProfiles, Names
<1>2. CASE names = {}
  BY <1>2, PanelWithShown DEF ReloadSchemeList
<1>3. CASE names # {} /\ before \in names
  BY <1>3, PanelWithShown DEF ReloadSchemeList
<1>4. CASE names # {} /\ before \notin names
  <2>1. Min(names) \in names
    BY <1>1, <1>4, MinIsMember
  <2>2. ReloadSchemeList(st, a, before) = PanelWith(st, a, Min(names))
    BY <1>4 DEF ReloadSchemeList
  <2> QED BY <2>1, <2>2, PanelWithShown
<1> QED BY <1>2, <1>3, <1>4

\* A store with a file written or deleted is a store.
LEMMA StoreChanges ==
  ASSUME NEW st, st = StoreOf(st), NEW a \in Apps, NEW n, NEW f
  PROVE  [st EXCEPT ![a][n] = f] = StoreOf([st EXCEPT ![a][n] = f])
BY DEF StoreOf

LEMMA DeletedIsStore ==
  ASSUME NEW st, st = StoreOf(st), NEW a \in Apps, NEW n
  PROVE  Deleted(st, a, n) = StoreOf(Deleted(st, a, n))
<1>1. CASE n = NoName
  BY <1>1 DEF Deleted
<1>2. CASE n # NoName
  <2>1. Deleted(st, a, n) = [st EXCEPT ![a][n] = NoFile]
    BY <1>2 DEF Deleted
  <2>2. [st EXCEPT ![a][n] = NoFile] = StoreOf([st EXCEPT ![a][n] = NoFile])
    BY StoreChanges
  <2> QED BY <2>1, <2>2
<1> QED BY <1>1, <1>2

LEMMA ShownKept ==
  ASSUME ShownInv, UNCHANGED <<panel, store, unsaved>>, keyless => keyless' PROVE ShownInv'
BY DEF ShownInv, Shown

LEMMA ShowShown ==
  ASSUME NEW st, st = StoreOf(st), store' = st, NEW a \in Apps, NEW before, ShowScheme(st, a, before)
  PROVE  ShownInv'
<1>1. panel' = ReloadSchemeList(st, a, before)
  BY DEF ShowScheme
<1>2. Shown(ReloadSchemeList(st, a, before), st, unsaved' \/ keyless')
  BY ReloadShown
<1> QED BY <1>1, <1>2 DEF ShownInv

LEMMA ChangedShown ==
  ASSUME ShownInv, NEW st, st = StoreOf(st), Changed(st) PROVE ShownInv'
<1>1. panel.app \in Apps
  BY DEF ShownInv, Shown
<1>2. store' = st /\ ShowScheme(st, panel.app, panel.scheme)
  BY DEF Changed, OnEditorProfilesChanged
<1> QED BY <1>1, <1>2, ShowShown

\* A slider leaves the app's list of schemes as it was, and the file it wrote
\* reads back as the panel's copy.
LEMMA SliderShown ==
  ASSUME ShownInv, NEW v \in Speeds, NEW ok \in BOOLEAN, OnSensitivityChanged(v, ok), SlidersReadBack
  PROVE  ShownInv'
<1> DEFINE a == panel.app
           n == panel.scheme
           f == ToJson(panel.modes, panel'.nodes)
<1>1. /\ store = StoreOf(store) /\ a \in Apps
      /\ panel = [app |-> a, scheme |-> n, nodes |-> panel.nodes, modes |-> panel.modes]
      /\ n = NoName => panel.nodes = <<>>
      /\ n # NoName => n \in ListProfiles(store, a)
  BY DEF ShownInv, Shown
<1>2. /\ HasLook(panel.nodes)
      /\ panel' = [panel EXCEPT !.nodes[LookIndex(panel.nodes)].speed = v]
      /\ store' = IF ok THEN Saved(a, n, panel.modes, panel'.nodes) ELSE store
      /\ unsaved' = ~ok
  BY DEF OnSensitivityChanged
<1>3. n \in ListProfiles(store, a) /\ n # NoName /\ n \in Names
  <2>1. panel.nodes # <<>>
    BY <1>2 DEF HasLook
  <2> QED BY <1>1, <2>1, NameOfProfile
<1>4. panel' = [app |-> a, scheme |-> n, nodes |-> panel'.nodes, modes |-> panel.modes]
  <2> DEFINE new == [panel.nodes EXCEPT ![LookIndex(panel.nodes)].speed = v]
  <2>1. panel' = [panel EXCEPT !.nodes = new]
    BY <1>2
  <2> HIDE DEF new
  <2>2. panel' = [app |-> a, scheme |-> n, nodes |-> new, modes |-> panel.modes]
    BY <1>1, <2>1
  <2> QED BY <2>2
<1>5. panel'.app = a /\ panel'.scheme = n /\ panel'.modes = panel.modes
  BY <1>4
<1>6. CASE ok
  <2>1. store' = [store EXCEPT ![a][n] = f] /\ store' = StoreOf(store')
    <3>1. store' = [store EXCEPT ![a][n] = f]
      BY <1>2, <1>6 DEF Saved
    <3> HIDE DEF a, n, f
    <3>2. [store EXCEPT ![a][n] = f] = StoreOf([store EXCEPT ![a][n] = f])
      BY <1>1, StoreChanges
    <3> QED BY <3>1, <3>2
  <2>2. store'[a][n] = f
    BY <1>1, <1>3, <2>1 DEF StoreOf
  <2>3. n \in ListProfiles(store', a)
    BY <1>3, <2>2, Written DEF ListProfiles
  <2> SUFFICES ASSUME ~keyless' PROVE ShownInv'
    <3>1. CASE keyless'
      <4>1. ListProfiles(store', a) # {}
        BY <2>3
      <4> HIDE DEF a, n, f
      <4>2. Shown(panel', store', TRUE)
        BY <1>1, <1>3, <1>4, <1>5, <2>1, <2>3, <4>1 DEF Shown
      <4> QED BY <3>1, <4>2 DEF ShownInv
    <3> QED BY <3>1
  <2>4. FromJson(f) = [modes |-> panel.modes, nodes |-> panel'.nodes]
    BY <1>5, <1>6 DEF SlidersReadBack
  <2>5. PanelWith(store', a, n) = [app |-> a, scheme |-> n, nodes |-> FromJson(f).nodes, modes |-> FromJson(f).modes]
    BY <1>3, <2>2 DEF PanelWith
  <2> HIDE DEF f, a, n
  <2>6. PanelWith(store', a, n) = panel'
    BY <1>4, <2>4, <2>5
  <2>7. Shown(PanelWith(store', a, n), store', unsaved' \/ keyless')
    BY <1>1, <2>1, <2>3, PanelWithShown
  <2> QED BY <2>6, <2>7 DEF ShownInv
<1>7. CASE ~ok
  <2>1. store' = store /\ unsaved' = TRUE
    BY <1>2, <1>7
  <2>2. ListProfiles(store, a) # {}
    BY <1>3
  <2> HIDE DEF a, n
  <2>3. Shown(panel', store, TRUE)
    BY <1>1, <1>3, <1>4, <1>5, <2>2 DEF Shown
  <2> QED BY <2>1, <2>3 DEF ShownInv
<1> QED BY <1>6, <1>7

LEMMA ShownInit == Init => ShownInv
<1> SUFFICES ASSUME Init PROVE ShownInv
  OBVIOUS
<1>1. store = StoreOf(store)
  BY DEF Init, StoreOf
<1>2. PICK a \in Apps : panel = ReloadSchemeList(store, a, NoName)
  BY DEF Init, NewPanel
<1> QED BY <1>1, <1>2, ReloadShown DEF ShownInv

\* What was written stays written: no handler forgets it.
LEMMA KeylessStays == [Next]_vars /\ keyless => keyless'
<1> SUFFICES ASSUME [Next]_vars, keyless PROVE keyless'
  OBVIOUS
<1> USE DEF Change, OnlyEditor, Edited
<1>1. CASE OnMasterToggled \/ OnWindowActiveChanged \/ SwitchKey \/ Disconnect
  BY <1>1 DEF OnMasterToggled, OnWindowActiveChanged, SwitchKey, Disconnect
<1>2. ASSUME NEW n, OnSchemeChanged(n) \/ OnProfileChanged(n) PROVE keyless'
  BY <1>2 DEF OnSchemeChanged, OnProfileChanged
<1>3. ASSUME NEW v \in Speeds, NEW ok \in BOOLEAN, OnSensitivityChanged(v, ok) PROVE keyless'
  BY <1>3 DEF OnSensitivityChanged
<1>4. CASE OnOpenEditorClicked \/ OnEditorClosed
  BY <1>4 DEF OnOpenEditorClicked, OnEditorClosed
<1>5. ASSUME NEW m \in ModeChoices, CaptureModes(m) PROVE keyless'
  BY <1>5 DEF CaptureModes
<1>6. ASSUME NEW n \in Controls, HandleControlDropped(n.act) \/ AddAnswered(n) \/ EditAnswered(n)
      PROVE keyless'
  BY <1>6 DEF HandleControlDropped, AddAnswered, EditAnswered
<1>7. ASSUME NEW i, NEW j, EditMarker(i) \/ RemoveMarker(i) \/ MoveMarker(i, j) PROVE keyless'
  BY <1>7 DEF EditMarker, RemoveMarker, MoveMarker
<1>8. ASSUME NEW k, Ask(k) PROVE keyless'
  BY <1>8 DEF Ask
<1>9. CASE Cancel \/ OnCancelEdits
  BY <1>9 DEF Cancel, OnCancelEdits
<1>10. ASSUME NEW n \in Names, NEW ok \in BOOLEAN,
              \/ NewProfile(n, ok) \/ OnRenameProfile(n, ok)
              \/ OnDuplicateProfile(n, ok) \/ OnSaveProfile(n, ok)
       PROVE keyless'
  BY <1>10 DEF NewProfile, OnRenameProfile, OnDuplicateProfile, OnSaveProfile, Changed, Failed
<1>11. CASE OnDeleteProfile
  BY <1>11 DEF OnDeleteProfile, Changed
<1>12. ASSUME NEW a \in Apps, Poll(a) PROVE keyless'
  BY <1>12 DEF Poll
<1>13. CASE UNCHANGED vars
  BY <1>13 DEF vars
<1> QED BY <1>1, <1>2, <1>3, <1>4, <1>5, <1>6, <1>7, <1>8, <1>9, <1>10, <1>11, <1>12, <1>13 DEF Next

\* Every handler leaves the panel showing what is stored.
LEMMA ShownStep == ShownInv /\ SlidersReadBack /\ [Next]_vars => ShownInv'
<1> SUFFICES ASSUME ShownInv, SlidersReadBack, [Next]_vars PROVE ShownInv'
  OBVIOUS
<1>0. store = StoreOf(store) /\ panel.app \in Apps /\ (keyless => keyless')
  BY KeylessStays DEF ShownInv, Shown
<1> USE DEF OnlyEditor, Edited, NotEditor
<1>1. CASE OnMasterToggled \/ OnWindowActiveChanged \/ SwitchKey \/ Disconnect
  BY <1>0, <1>1, ShownKept DEF OnMasterToggled, OnWindowActiveChanged, SwitchKey, Disconnect
<1>2. ASSUME NEW n \in Names, OnSchemeChanged(n) PROVE ShownInv'
  <2>1. /\ n \in ListProfiles(store, panel.app) /\ store' = store
        /\ panel' = PanelWith(store, panel.app, n)
    BY <1>2 DEF OnSchemeChanged
  <2>2. Shown(PanelWith(store, panel.app, n), store, unsaved' \/ keyless')
    BY <1>0, <2>1, PanelWithShown
  <2> QED BY <2>1, <2>2 DEF ShownInv
<1>3. ASSUME NEW n, OnProfileChanged(n) PROVE ShownInv'
  BY <1>0, <1>3, ShownKept DEF OnProfileChanged
<1>4. ASSUME NEW v \in Speeds, NEW ok \in BOOLEAN, OnSensitivityChanged(v, ok) PROVE ShownInv'
  BY <1>4, SliderShown
<1>5. CASE OnOpenEditorClicked \/ OnEditorClosed
  BY <1>0, <1>5, ShownKept DEF OnOpenEditorClicked, OnEditorClosed
<1>6. ASSUME NEW m \in ModeChoices, CaptureModes(m) PROVE ShownInv'
  BY <1>0, <1>6, ShownKept DEF CaptureModes
<1>7. ASSUME NEW n \in Controls, HandleControlDropped(n.act) \/ AddAnswered(n) \/ EditAnswered(n)
      PROVE ShownInv'
  BY <1>0, <1>7, ShownKept DEF HandleControlDropped, AddAnswered, EditAnswered
<1>8. ASSUME NEW i \in 1..MaxControls, EditMarker(i) \/ RemoveMarker(i) PROVE ShownInv'
  BY <1>0, <1>8, ShownKept DEF EditMarker, RemoveMarker
<1>9. ASSUME NEW i \in 1..MaxControls, NEW j \in 1..MaxControls, MoveMarker(i, j) PROVE ShownInv'
  BY <1>0, <1>9, ShownKept DEF MoveMarker
<1>10. ASSUME NEW k, Ask(k) PROVE ShownInv'
  BY <1>0, <1>10, ShownKept DEF Ask
<1>11. CASE Cancel \/ OnCancelEdits
  BY <1>0, <1>11, ShownKept DEF Cancel, OnCancelEdits
<1>12. ASSUME NEW n \in Names, NEW ok \in BOOLEAN,
              \/ NewProfile(n, ok) \/ OnRenameProfile(n, ok)
              \/ OnDuplicateProfile(n, ok) \/ OnSaveProfile(n, ok)
       PROVE ShownInv'
  <2>1. \A modes, nodes : Saved(panel.app, n, modes, nodes) = StoreOf(Saved(panel.app, n, modes, nodes))
    BY <1>0, StoreChanges DEF Saved
  <2>2. \A modes, nodes, m :
          Deleted(Saved(panel.app, n, modes, nodes), panel.app, m)
            = StoreOf(Deleted(Saved(panel.app, n, modes, nodes), panel.app, m))
    BY <1>0, <2>1, DeletedIsStore
  <2>3. (\E st : Changed(st) /\ st = StoreOf(st)) \/ (\E e : Failed(e))
    BY <1>12, <2>1, <2>2 DEF NewProfile, OnRenameProfile, OnDuplicateProfile, OnSaveProfile
  <2>4. (\E e : Failed(e)) => ShownInv'
    BY <1>0, ShownKept DEF Failed
  <2> QED BY <2>3, <2>4, ChangedShown
<1>13. CASE OnDeleteProfile
  <2>1. Changed(Deleted(store, panel.app, editor.name))
    BY <1>13 DEF OnDeleteProfile
  <2>2. Deleted(store, panel.app, editor.name) = StoreOf(Deleted(store, panel.app, editor.name))
    BY <1>0, DeletedIsStore
  <2> QED BY <2>1, <2>2, ChangedShown
<1>14. ASSUME NEW a \in Apps, Poll(a) PROVE ShownInv'
  <2>1. ShowScheme(store, a, panel.scheme) /\ store' = store
    BY <1>14 DEF Poll
  <2> QED BY <1>0, <2>1, ShowShown
<1>15. CASE UNCHANGED vars
  BY <1>0, <1>15, ShownKept DEF vars
<1> QED BY <1>1, <1>2, <1>3, <1>4, <1>5, <1>6, <1>7, <1>8, <1>9, <1>10, <1>11, <1>12, <1>13, <1>14,
           <1>15 DEF Next


-----------------------------------------------------------------------------
(***************************************************************************)
(* Those.  Its recursion is unfolded one step at a time, and a statement   *)
(* about every sequence is the statement that the sequences with the       *)
(* property are all there are (SeqSet).                                    *)
(***************************************************************************)
\* Induction over the numbers, for a set instead of a predicate.
LEMMA NatSet ==
  ASSUME NEW G, 0 \in G, \A n \in Nat : n \in G => n + 1 \in G PROVE Nat \subseteq G
<1> DEFINE Less == OpToRel(<, Nat)
           Bad == Nat \ G
<1>1. \A i, j \in Nat : <<j, i>> \in Less <=> j < i
  BY DEF OpToRel
<1>2. IsWellFoundedOn(Less, Nat)
  BY NatLessThanWellFounded
<1> HIDE DEF Less
<1>3. SUFFICES ASSUME Bad # {} PROVE FALSE
  OBVIOUS
<1>4. PICK m \in Bad : \A j \in Bad : ~(<<j, m>> \in Less)
  BY <1>2, <1>3, WFMin
<1>5. m # 0 /\ m \in Nat /\ m \notin G
  OBVIOUS
<1>6. m - 1 \in Nat /\ m - 1 < m /\ (m - 1) + 1 = m
  BY <1>5
<1>7. m - 1 \notin Bad
  BY <1>1, <1>4, <1>5, <1>6
<1> QED BY <1>5, <1>6, <1>7

\* Induction over sequences
LEMMA SeqSet ==
  ASSUME NEW X, NEW G, <<>> \in G, \A s \in Seq(X), e \in X : s \in G => Append(s, e) \in G
  PROVE  Seq(X) \subseteq G
<1> DEFINE N == {n \in Nat : \A s \in Seq(X) : Len(s) = n => s \in G}
<1>1. 0 \in N
  BY EmptySeq
<1>2. ASSUME NEW n \in Nat, n \in N PROVE n + 1 \in N
  <2> SUFFICES ASSUME NEW s \in Seq(X), Len(s) = n + 1 PROVE s \in G
    OBVIOUS
  <2>1. s # <<>>
    BY EmptySeq
  <2>2. PICK t \in Seq(X), e \in X : s = Append(t, e)
    BY <2>1, SequenceEmptyOrAppend
  <2>3. Len(t) = n
    BY <2>2, AppendProperties, LenProperties
  <2> QED BY <1>2, <2>2, <2>3
<1>3. Nat \subseteq N
  <2> HIDE DEF N
  <2> QED BY <1>1, <1>2, NatSet
<1> QED BY <1>3, LenProperties

\* The recursion of Those
Steps(f, s, S, n) ==
  f = [i \in 0..n |->
        IF i = 0 THEN <<>>
        ELSE IF s[i] \in S THEN Append(f[i - 1], s[i]) ELSE f[i - 1]]

\* There is such a function for every length,
LEMMA StepsExist ==
  ASSUME NEW s, NEW S, NEW n \in Nat PROVE \E f : Steps(f, s, S, n)
<1> DEFINE G == {m \in Nat : \E f : Steps(f, s, S, m)}
<1>1. 0 \in G
  <2>1. Steps([i \in 0..0 |-> <<>>], s, S, 0)
    BY DEF Steps
  <2> QED BY <2>1
<1>2. ASSUME NEW m \in Nat, m \in G PROVE m + 1 \in G
  <2>1. PICK f : Steps(f, s, S, m)
    BY <1>2
  <2> DEFINE last == IF s[m + 1] \in S THEN Append(f[m], s[m + 1]) ELSE f[m]
             g == [i \in 0..(m + 1) |-> IF i = m + 1 THEN last ELSE f[i]]
  <2>2. \A i \in 0..m : f[i] = IF i = 0 THEN <<>> ELSE IF s[i] \in S THEN Append(f[i - 1], s[i]) ELSE f[i - 1]
    BY <2>1 DEF Steps
  <2>3. \A i \in 0..m : g[i] = f[i]
    OBVIOUS
  <2>4. g[m + 1] = last
    OBVIOUS
  <2> HIDE DEF g
  <2>5. \A i \in 0..(m + 1) : g[i] = IF i = 0 THEN <<>>
                                     ELSE IF s[i] \in S THEN Append(g[i - 1], s[i]) ELSE g[i - 1]
    <3> TAKE i \in 0..(m + 1)
    <3>1. CASE i = m + 1
      BY <2>3, <2>4, <3>1
    <3>2. CASE i # m + 1
      BY <2>2, <2>3, <3>2
    <3> QED BY <3>1, <3>2
  <2>6. g = [i \in 0..(m + 1) |-> g[i]]
    BY DEF g
  <2>7. Steps(g, s, S, m + 1)
    BY <2>5, <2>6 DEF Steps
  <2> QED BY <2>7
<1> HIDE DEF G
<1>3. Nat \subseteq G
  BY <1>1, <1>2, NatSet
<1> QED BY <1>3 DEF G

\* and it depends only on the elements so far.
LEMMA StepsAgree ==
  ASSUME NEW s, NEW t, NEW S, NEW n \in Nat, NEW m \in Nat, n =< m, NEW f, NEW g,
         \A i \in 1..n : s[i] = t[i],
         Steps(f, s, S, n), Steps(g, t, S, m)
  PROVE  \A i \in 0..n : f[i] = g[i]
<1> DEFINE G == {k \in Nat : k =< n => f[k] = g[k]}
<1>1. \A i \in 0..n : f[i] = IF i = 0 THEN <<>> ELSE IF s[i] \in S THEN Append(f[i - 1], s[i]) ELSE f[i - 1]
  BY DEF Steps
<1>2. \A i \in 0..m : g[i] = IF i = 0 THEN <<>> ELSE IF t[i] \in S THEN Append(g[i - 1], t[i]) ELSE g[i - 1]
  BY DEF Steps
<1>3. 0 \in G
  BY <1>1, <1>2
<1>4. ASSUME NEW k \in Nat, k \in G PROVE k + 1 \in G
  <2> SUFFICES ASSUME k + 1 =< n PROVE f[k + 1] = g[k + 1]
    OBVIOUS
  <2>1. f[k] = g[k] /\ k + 1 \in 1..n /\ k + 1 \in 0..n /\ k + 1 \in 0..m /\ k + 1 # 0 /\ (k + 1) - 1 = k
    BY <1>4
  <2>2. f[k + 1] = IF s[k + 1] \in S THEN Append(f[k], s[k + 1]) ELSE f[k]
    BY <1>1, <2>1
  <2>3. g[k + 1] = IF t[k + 1] \in S THEN Append(g[k], t[k + 1]) ELSE g[k]
    BY <1>2, <2>1
  <2> QED BY <2>1, <2>2, <2>3
<1> HIDE DEF G
<1>5. Nat \subseteq G
  BY <1>3, <1>4, NatSet
<1> QED BY <1>5 DEF G

\* Those is its last value.
LEMMA ThoseSteps ==
  ASSUME NEW X, NEW s \in Seq(X), NEW S
  PROVE  \E f : Steps(f, s, S, Len(s)) /\ Those(s, S) = f[Len(s)]
<1> DEFINE f == CHOOSE f : Steps(f, s, S, Len(s))
<1>1. Len(s) \in Nat
  BY LenProperties
<1>2. Steps(f, s, S, Len(s))
  BY <1>1, StepsExist
<1>3. Those(s, S) = f[Len(s)]
  BY Zenon DEF Those, Steps
<1> QED BY <1>2, <1>3

\* Only membership of the sequence's own elements counts.
LEMMA ThoseSame ==
  ASSUME NEW X, NEW s \in Seq(X), NEW S, NEW T, \A i \in 1..Len(s) : s[i] \in S <=> s[i] \in T
  PROVE  Those(s, S) = Those(s, T)
<1> DEFINE n == Len(s)
<1>1. n \in Nat
  BY LenProperties
<1>2. PICK f : Steps(f, s, S, n) /\ Those(s, S) = f[n]
  BY ThoseSteps
<1>3. PICK g : Steps(g, s, T, n) /\ Those(s, T) = g[n]
  BY ThoseSteps
<1>4. \A i \in 1..n : s[i] \in S <=> s[i] \in T
  OBVIOUS
<1> HIDE DEF n
<1>5. Steps(g, s, S, n)
  <2>1. \A i \in 0..n : i # 0 => i \in 1..n
    BY <1>1
  <2> QED BY <1>3, <1>4, <2>1 DEF Steps
<1>6. \A i \in 0..n : f[i] = g[i]
  BY <1>1, <1>2, <1>5, StepsAgree
<1> QED BY <1>1, <1>2, <1>3, <1>6

\* Those of the empty sequence, and of one with an element more
LEMMA ThoseEmpty == ASSUME NEW S PROVE Those(<<>>, S) = <<>>
<1>1. <<>> \in Seq({}) /\ Len(<<>>) = 0
  BY EmptySeq
<1>2. PICK f : Steps(f, <<>>, S, 0) /\ Those(<<>>, S) = f[0]
  BY <1>1, ThoseSteps
<1> QED BY <1>2 DEF Steps

LEMMA ThoseAppend ==
  ASSUME NEW X, NEW s \in Seq(X), NEW e \in X, NEW S
  PROVE  Those(Append(s, e), S) = IF e \in S THEN Append(Those(s, S), e) ELSE Those(s, S)
<1> DEFINE t == Append(s, e)
<1>1. /\ t \in Seq(X) /\ Len(t) = Len(s) + 1 /\ Len(s) \in Nat
      /\ \A i \in 1..Len(s) : t[i] = s[i]
      /\ t[Len(s) + 1] = e
  BY AppendProperties, LenProperties
<1> HIDE DEF t
<1>2. PICK f : Steps(f, s, S, Len(s)) /\ Those(s, S) = f[Len(s)]
  BY ThoseSteps
<1>3. PICK g : Steps(g, t, S, Len(t)) /\ Those(t, S) = g[Len(t)]
  BY <1>1, ThoseSteps
<1>4. f[Len(s)] = g[Len(s)]
  <2> DEFINE n == Len(s)
             m == Len(t)
  <2>1. /\ n \in Nat /\ m \in Nat /\ n =< m /\ Steps(f, s, S, n) /\ Steps(g, t, S, m)
        /\ \A i \in 1..n : s[i] = t[i]
    BY <1>1, <1>2, <1>3
  <2> HIDE DEF n, m
  <2>2. \A i \in 0..n : f[i] = g[i]
    BY <2>1, StepsAgree
  <2>3. n \in 0..n
    BY <2>1
  <2> QED BY <2>2, <2>3 DEF n
<1>5. g[Len(t)] = IF t[Len(t)] \in S THEN Append(g[Len(t) - 1], t[Len(t)]) ELSE g[Len(t) - 1]
  <2>1. Len(t) \in 0..Len(t) /\ Len(t) # 0
    BY <1>1
  <2>2. \A i \in 0..Len(t) : g[i] = IF i = 0 THEN <<>>
                                    ELSE IF t[i] \in S THEN Append(g[i - 1], t[i]) ELSE g[i - 1]
    BY <1>3 DEF Steps
  <2> QED BY <2>1, <2>2
<1>6. Len(t) - 1 = Len(s)
  BY <1>1
<1>7. Those(t, S) = IF e \in S THEN Append(Those(s, S), e) ELSE Those(s, S)
  BY <1>1, <1>2, <1>3, <1>4, <1>5, <1>6
<1> QED BY <1>7 DEF t

\* What is kept comes from the sequence and from the set.
LEMMA ThoseType ==
  ASSUME NEW X, NEW s \in Seq(X), NEW S PROVE Those(s, S) \in Seq(X \cap S)
<1> DEFINE G == {t \in Seq(X) : Those(t, S) \in Seq(X \cap S)}
<1>1. <<>> \in G
  BY EmptySeq, ThoseEmpty
<1>2. ASSUME NEW t \in Seq(X), NEW e \in X, t \in G PROVE Append(t, e) \in G
  <2>1. Append(t, e) \in Seq(X)
    BY AppendProperties
  <2>2. CASE e \in S
    <3>1. Those(Append(t, e), S) = Append(Those(t, S), e)
      BY <2>2, ThoseAppend
    <3>2. Append(Those(t, S), e) \in Seq(X \cap S)
      BY <1>2, <2>2, AppendProperties
    <3> QED BY <2>1, <3>1, <3>2
  <2>3. CASE e \notin S
    BY <1>2, <2>1, <2>3, ThoseAppend
  <2> QED BY <2>2, <2>3
<1> HIDE DEF G
<1>3. Seq(X) \subseteq G
  BY <1>1, <1>2, SeqSet
<1> QED BY <1>3 DEF G

\* In particular it is a sequence over the same elements.
LEMMA ThoseSeq ==
  ASSUME NEW X, NEW s \in Seq(X), NEW S PROVE Those(s, S) \in Seq(X)
<1>1. Those(s, S) \in Seq(X \cap S) /\ X \cap S \subseteq X
  BY ThoseType
<1> QED BY <1>1, SeqMonotonic

\* All are kept, or none.
LEMMA ThoseAll ==
  ASSUME NEW X, NEW s \in Seq(X), NEW S, X \subseteq S PROVE Those(s, S) = s
<1> DEFINE G == {t \in Seq(X) : Those(t, S) = t}
<1>1. <<>> \in G
  BY EmptySeq, ThoseEmpty
<1>2. ASSUME NEW t \in Seq(X), NEW e \in X, t \in G PROVE Append(t, e) \in G
  BY <1>2, AppendProperties, ThoseAppend
<1> HIDE DEF G
<1>3. Seq(X) \subseteq G
  BY <1>1, <1>2, SeqSet
<1> QED BY <1>3 DEF G

LEMMA ThoseNone ==
  ASSUME NEW X, NEW s \in Seq(X), NEW S, X \cap S = {} PROVE Those(s, S) = <<>>
<1>1. Those(s, S) \in Seq({})
  BY ThoseType
<1>2. Len(Those(s, S)) \in Nat /\ \A i \in 1..Len(Those(s, S)) : Those(s, S)[i] \in {}
  BY <1>1, LenProperties, ElementOfSeq
<1>3. Len(Those(s, S)) = 0
  BY <1>2
<1> QED BY <1>1, <1>3, EmptySeq

\* An element put at the end with a concatenation
LEMMA ThoseConcat ==
  ASSUME NEW X, NEW s \in Seq(X), NEW e \in X, NEW S
  PROVE  Those(s \o <<e>>, S) = IF e \in S THEN Those(s, S) \o <<e>> ELSE Those(s, S)
<1>1. s \o <<e>> = Append(s, e)
  BY AppendIsConcat
<1>2. Those(s, S) \in Seq(X)
  BY ThoseSeq
<1>3. Append(Those(s, S), e) = Those(s, S) \o <<e>>
  BY <1>2, AppendIsConcat
<1> QED BY <1>1, <1>3, ThoseAppend

\* Two filters are one.
LEMMA ThoseTwice ==
  ASSUME NEW X, NEW s \in Seq(X), NEW A, NEW B PROVE Those(Those(s, A), B) = Those(s, A \cap B)
<1> DEFINE G == {t \in Seq(X) : Those(Those(t, A), B) = Those(t, A \cap B)}
<1>1. <<>> \in G
  BY EmptySeq, ThoseEmpty
<1>2. ASSUME NEW t \in Seq(X), NEW e \in X, t \in G PROVE Append(t, e) \in G
  <2>1. Append(t, e) \in Seq(X) /\ Those(t, A) \in Seq(X)
    BY AppendProperties, ThoseSeq
  <2>2. CASE e \in A
    <3>1. Those(Append(t, e), A) = Append(Those(t, A), e)
      BY <2>2, ThoseAppend
    <3>2. Those(Append(Those(t, A), e), B)
            = IF e \in B THEN Append(Those(Those(t, A), B), e) ELSE Those(Those(t, A), B)
      BY <2>1, ThoseAppend
    <3>3. Those(Append(t, e), A \cap B)
            = IF e \in B THEN Append(Those(t, A \cap B), e) ELSE Those(t, A \cap B)
      BY <2>2, ThoseAppend
    <3>4. Those(Those(t, A), B) = Those(t, A \cap B)
      BY <1>2
    <3>5. Those(Those(Append(t, e), A), B) = Those(Append(t, e), A \cap B)
      BY <3>1, <3>2, <3>3, <3>4
    <3> QED BY <2>1, <3>5
  <2>3. CASE e \notin A
    <3>1. Those(Append(t, e), A) = Those(t, A)
      BY <2>3, ThoseAppend
    <3>2. Those(Append(t, e), A \cap B) = Those(t, A \cap B)
      BY <2>3, ThoseAppend
    <3> QED BY <1>2, <2>1, <3>1, <3>2
  <2> QED BY <2>2, <2>3
<1> HIDE DEF G
<1>3. Seq(X) \subseteq G
  BY <1>1, <1>2, SeqSet
<1> QED BY <1>3 DEF G

\* Where the elements of r are in s, each at a place of its own
Places(g, r, s) ==
  /\ g \in [1..Len(r) -> 1..Len(s)]
  /\ \A i \in 1..Len(r) : r[i] = s[g[i]]
  /\ \A i, j \in 1..Len(r) : i # j => g[i] # g[j]

\* What is kept stands in the order, and as often, as before.
LEMMA ThosePlaces ==
  ASSUME NEW X, NEW s \in Seq(X), NEW S PROVE \E g : Places(g, Those(s, S), s)
<1> DEFINE G == {t \in Seq(X) : \E g : Places(g, Those(t, S), t)}
<1>1. <<>> \in G
  <2>1. Places([i \in 1..0 |-> 0], <<>>, <<>>)
    BY DEF Places
  <2> QED BY <2>1, EmptySeq, ThoseEmpty
<1>2. ASSUME NEW t \in Seq(X), NEW e \in X, t \in G PROVE Append(t, e) \in G
  <2> DEFINE r == Those(t, S)
             n == Len(r)
             u == Append(t, e)
             q == Append(r, e)
  <2>1. PICK g : Places(g, r, t)
    BY <1>2
  <2>2. u \in Seq(X) /\ Len(u) = Len(t) + 1 /\ Len(t) \in Nat /\ u[Len(t) + 1] = e
        /\ \A i \in 1..Len(t) : u[i] = t[i]
    BY AppendProperties, LenProperties
  <2>3. r \in Seq(X) /\ n \in Nat
    BY ThoseSeq, LenProperties
  <2>4. q \in Seq(X) /\ Len(q) = n + 1 /\ q[n + 1] = e /\ \A i \in 1..n : q[i] = r[i]
    BY <2>3, AppendProperties
  <2> HIDE DEF u, q, n, r
  <2>5. CASE e \in S
    <3> DEFINE h == [i \in 1..(n + 1) |-> IF i = n + 1 THEN Len(t) + 1 ELSE g[i]]
    <3>1. \A i \in 1..n : g[i] \in 1..Len(t) /\ r[i] = t[g[i]]
      BY <2>1 DEF Places, n
    <3>2. \A i \in 1..(n + 1) : i = n + 1 \/ i \in 1..n
      BY <2>3
    <3>3. h \in [1..Len(q) -> 1..Len(u)]
      BY <2>2, <2>4, <3>1, <3>2
    <3>4. \A i \in 1..Len(q) : q[i] = u[h[i]]
      BY <2>2, <2>4, <3>1, <3>2
    <3>5. \A i, j \in 1..n : i # j => g[i] # g[j]
      BY <2>1 DEF Places, n
    <3>6. \A i, j \in 1..Len(q) : i # j => h[i] # h[j]
      BY <2>2, <2>4, <3>1, <3>2, <3>5
    <3>7. Places(h, q, u)
      BY <3>3, <3>4, <3>6 DEF Places
    <3>8. Those(u, S) = q
      BY <2>5, ThoseAppend DEF u, q, r
    <3> QED BY <2>2, <3>7, <3>8 DEF u
  <2>6. CASE e \notin S
    <3>1. Those(u, S) = r
      BY <2>6, ThoseAppend DEF u, r
    <3>2. \A i \in 1..Len(r) : g[i] \in 1..Len(t) /\ r[i] = t[g[i]]
      BY <2>1 DEF Places
    <3>3. g \in [1..Len(r) -> 1..Len(u)] /\ \A i \in 1..Len(r) : r[i] = u[g[i]]
      <4>1. 1..Len(t) \subseteq 1..Len(u)
        BY <2>2
      <4>2. g \in [1..Len(r) -> 1..Len(t)]
        BY <2>1 DEF Places
      <4> QED BY <2>2, <3>2, <4>1, <4>2
    <3>4. Places(g, r, u)
      BY <2>1, <3>3 DEF Places
    <3> QED BY <2>2, <3>1, <3>4 DEF u
  <2> QED BY <2>5, <2>6
<1> HIDE DEF G
<1>3. Seq(X) \subseteq G
  BY <1>1, <1>2, SeqSet
<1> QED BY <1>3 DEF G

\* An element of the set is kept.
LEMMA ThoseHas ==
  ASSUME NEW X, NEW s \in Seq(X), NEW S, NEW i \in 1..Len(s), s[i] \in S
  PROVE  \E j \in 1..Len(Those(s, S)) : Those(s, S)[j] = s[i]
<1> DEFINE Has(t) == \A k \in 1..Len(t) : t[k] \in S => \E j \in 1..Len(Those(t, S)) : Those(t, S)[j] = t[k]
           G == {t \in Seq(X) : Has(t)}
<1>1. <<>> \in G
  BY EmptySeq
<1>2. ASSUME NEW t \in Seq(X), NEW e \in X, t \in G PROVE Append(t, e) \in G
  <2> DEFINE r == Those(t, S)
             u == Append(t, e)
             q == Append(r, e)
  <2>1. u \in Seq(X) /\ Len(u) = Len(t) + 1 /\ Len(t) \in Nat /\ u[Len(t) + 1] = e
        /\ \A k \in 1..Len(t) : u[k] = t[k]
    BY AppendProperties, LenProperties
  <2>2. r \in Seq(X) /\ Len(r) \in Nat
    BY ThoseSeq, LenProperties
  <2>3. Len(q) = Len(r) + 1 /\ q[Len(r) + 1] = e /\ \A k \in 1..Len(r) : q[k] = r[k]
    BY <2>2, AppendProperties
  <2>4. Those(u, S) = IF e \in S THEN q ELSE r
    BY ThoseAppend
  <2>5. \A k \in 1..Len(t) : t[k] \in S => \E j \in 1..Len(r) : r[j] = t[k]
    BY <1>2
  <2> HIDE DEF u, q, r, G
  <2>6. ASSUME NEW k \in 1..Len(u), u[k] \in S PROVE \E j \in 1..Len(Those(u, S)) : Those(u, S)[j] = u[k]
    <3>1. CASE k = Len(t) + 1
      <4>1. e \in S /\ Those(u, S) = q /\ Len(r) + 1 \in 1..Len(q) /\ u[k] = e
        BY <2>1, <2>2, <2>3, <2>4, <2>6, <3>1
      <4> QED BY <2>3, <4>1
    <3>2. CASE k # Len(t) + 1
      <4>1. k \in 1..Len(t) /\ u[k] = t[k]
        BY <2>1, <3>2
      <4>2. PICK j \in 1..Len(r) : r[j] = u[k]
        BY <2>5, <2>6, <4>1
      <4>3. j \in 1..Len(q) /\ q[j] = r[j]
        BY <2>2, <2>3
      <4> QED BY <2>4, <4>2, <4>3
    <3> QED BY <3>1, <3>2
  <2> QED BY <2>1, <2>6 DEF u, G
<1> HIDE DEF G
<1>3. Seq(X) \subseteq G
  BY <1>1, <1>2, SeqSet
<1>4. Has(s)
  BY <1>3 DEF G
<1> QED BY <1>4

\* The only element of s in S
LEMMA ThoseOnly ==
  ASSUME NEW X, NEW s \in Seq(X), NEW S, NEW i \in 1..Len(s), s[i] \in S,
         \A j \in 1..Len(s) : s[j] \in S => j = i
  PROVE  Those(s, S) = <<s[i]>>
<1> DEFINE r == Those(s, S)
<1>1. r \in Seq(X \cap S) /\ Len(r) \in Nat /\ \A j \in 1..Len(r) : r[j] \in S
  BY ThoseType, LenProperties, ElementOfSeq
<1>2. PICK g : Places(g, r, s)
  BY ThosePlaces
<1>3. PICK j \in 1..Len(r) : r[j] = s[i]
  BY ThoseHas
<1>4. \A k \in 1..Len(r) : g[k] = i
  BY <1>1, <1>2 DEF Places
<1>5. \A k \in 1..Len(r) : k = j
  BY <1>2, <1>4 DEF Places
<1> HIDE DEF r
<1>6. Len(r) = 1 /\ j = 1
  <2>1. 1 \in 1..Len(r) /\ Len(r) \in 1..Len(r)
    BY <1>1
  <2>2. 1 = j /\ Len(r) = j
    BY <1>5, <2>1
  <2> QED BY <2>2
<1>7. s[i] \in X /\ <<s[i]>> \in Seq(X) /\ Len(<<s[i]>>) = 1 /\ <<s[i]>>[1] = s[i]
  BY ElementOfSeq
<1>8. r \in Seq(X)
  BY <1>1, SeqMonotonic
<1>9. \A k \in 1..Len(r) : r[k] = <<s[i]>>[k]
  BY <1>3, <1>5, <1>6, <1>7
<1>10. r = <<s[i]>>
  BY <1>6, <1>7, <1>8, <1>9, SeqEqual
<1> QED BY <1>10 DEF r

-----------------------------------------------------------------------------
(***************************************************************************)
(* Schemes and files.  NodesOK says what the editor's checks keep true of  *)
(* the controls of a scheme, FileOK (KeymapFiles) what is true of a file   *)
(* written of it if it has no KeylessFire, ReadForm what is true, besides, *)
(* of a scheme read of a file.                                             *)
(***************************************************************************)
NodesOK(nodes) ==
  /\ IsSeq(nodes)
  /\ \A i \in DOMAIN nodes : ControlOK(nodes[i])
  /\ Unambiguous(nodes)

\* What reading gives: the look control last, no tap on its anchor, and a shoot
\* button that a file tells from a tap.
ReadForm(nodes) ==
  \A i \in DOMAIN nodes : IsLook(nodes[i]) =>
    /\ i = Len(nodes)
    /\ nodes[i].act = "aimPanShoot" => nodes[i].keys[1] \in Mouse \/ nodes[i].to = nodes[i].at
    /\ \A j \in DOMAIN nodes : nodes[j].act = "tapSpot" => nodes[j].at # nodes[i].at

\* The library's facts about sequences, for IsSeq
LEMMA SeqIs ==
  ASSUME NEW s, IsSeq(s)
  PROVE  /\ s \in Seq(Range(s)) /\ Len(s) \in Nat /\ DOMAIN s = 1..Len(s)
         /\ \A i \in 1..Len(s) : s[i] \in Range(s)
         /\ \A x \in Range(s) : \E i \in 1..Len(s) : x = s[i]
BY LenProperties DEF IsSeq, Range

LEMMA IsSeqOf == ASSUME NEW X, NEW s \in Seq(X) PROVE IsSeq(s) /\ Range(s) \subseteq X
BY SeqOfRange, RangeOfSeq DEF IsSeq

\* The nodes of a scheme with a control at the end
LEMMA AtEnd ==
  ASSUME NEW s, IsSeq(s), NEW e
  PROVE  /\ IsSeq(s \o <<e>>) /\ Len(s \o <<e>>) = Len(s) + 1 /\ Len(s) \in Nat
         /\ DOMAIN (s \o <<e>>) = 1..(Len(s) + 1)
         /\ \A i \in 1..Len(s) : (s \o <<e>>)[i] = s[i]
         /\ (s \o <<e>>)[Len(s) + 1] = e
         /\ s \o <<e>> = Append(s, e)
         /\ Range(s \o <<e>>) = Range(s) \cup {e}
<1> DEFINE X == Range(s) \cup {e}
<1>1. s \in Seq(X) /\ e \in X /\ <<e>> \in Seq(X)
  <2>1. s \in Seq(Range(s)) /\ Range(s) \subseteq X
    BY DEF IsSeq
  <2> QED BY <2>1, SeqMonotonic
<1> HIDE DEF X
<1>2. s \o <<e>> = Append(s, e)
  BY <1>1, AppendIsConcat
<1>3. /\ Append(s, e) \in Seq(X) /\ Len(Append(s, e)) = Len(s) + 1
      /\ \A i \in 1..Len(s) : Append(s, e)[i] = s[i]
      /\ Append(s, e)[Len(s) + 1] = e
  BY <1>1, AppendProperties
<1>4. DOMAIN Append(s, e) = 1..(Len(s) + 1) /\ Len(s) \in Nat
  BY <1>1, <1>3, LenProperties
<1>5. DOMAIN s = 1..Len(s)
  BY SeqIs
<1>6. Range(Append(s, e)) = Range(s) \cup {e}
  <2> DEFINE t == Append(s, e)
  <2>1. \A i \in 1..Len(s) : i \in 1..(Len(s) + 1)
    BY <1>4
  <2>2. \A i \in 1..(Len(s) + 1) : i \in 1..Len(s) \/ i = Len(s) + 1
    BY <1>4
  <2>3. Len(s) + 1 \in 1..(Len(s) + 1)
    BY <1>4
  <2> HIDE DEF t
  <2>4. Range(t) = Range(s) \cup {e}
    BY <1>3, <1>4, <1>5, <2>1, <2>2, <2>3 DEF Range, t
  <2> QED BY <2>4 DEF t
<1> QED BY <1>2, <1>3, <1>4, <1>6, IsSeqOf

\* The empty scheme
LEMMA EmptyIs == IsSeq(<<>>) /\ Len(<<>>) = 0 /\ DOMAIN <<>> = {} /\ Range(<<>>) = {}
BY EmptySeq DEF IsSeq, Range

LEMMA WithoutNothing == ASSUME NEW s, IsSeq(s) PROVE s \o <<>> = s
BY ConcatEmptySeq DEF IsSeq

\* Writing a scheme without a look control, or with the look control last
LEMMA NodesWritten ==
  ASSUME NEW s, IsSeq(s), \A i \in DOMAIN s : ~IsLook(s[i])
  PROVE  NodesToJson(s) = s
<1> DEFINE S == {n \in Range(s) : n.act # "freeLook"}
<1>1. Those(s, S) = s
  <2>1. Range(s) \subseteq S
    BY SeqIs DEF IsLook
  <2> HIDE DEF S
  <2> QED BY <2>1, ThoseAll, SeqIs
<1>2. \A i \in DOMAIN s : NodeToJson(s[i]) = s[i]
  BY DEF NodeToJson, IsLook
<1>3. NodesToJson(s) = [i \in DOMAIN s |-> s[i]]
  BY <1>1, <1>2 DEF NodesToJson
<1>4. s = [i \in DOMAIN s |-> s[i]]
  BY SeqIs, SeqDef
<1> QED BY <1>3, <1>4

\* A sequence is the function of its elements.
LEMMA AsFunction == ASSUME NEW s, IsSeq(s) PROVE s = [i \in 1..Len(s) |-> s[i]]
BY SeqIs, SeqDef

\* What is written of a scheme whose look control is last
LEMMA NodesWrittenLast ==
  ASSUME NEW s, IsSeq(s), \A i \in DOMAIN s : ~IsLook(s[i]), NEW l, IsLook(l)
  PROVE  NodesToJson(s \o <<l>>) = IF l.act = "freeLook" THEN s ELSE s \o <<NodeToJson(l)>>
<1> DEFINE t == s \o <<l>>
           S == {n \in Range(t) : n.act # "freeLook"}
           w == Those(t, S)
           c == NodeToJson(l)
<1>1. /\ IsSeq(t) /\ Range(t) = Range(s) \cup {l} /\ Len(t) = Len(s) + 1 /\ Len(s) \in Nat
      /\ DOMAIN t = 1..(Len(s) + 1)
      /\ \A i \in 1..Len(s) : t[i] = s[i]
      /\ t[Len(s) + 1] = l
  BY AtEnd
<1>2. Those(s, S) = s
  <2>0. \A x \in Range(s) : x.act # "freeLook"
    BY SeqIs DEF IsLook
  <2>1. Range(s) \subseteq S
    BY <1>1, <2>0
  <2> HIDE DEF S
  <2> QED BY <2>1, ThoseAll, SeqIs
<1>3. w = IF l \in S THEN s \o <<l>> ELSE s
  <2>1. s \in Seq(Range(t)) /\ l \in Range(t)
    BY <1>1, SeqMonotonic DEF IsSeq
  <2> HIDE DEF S
  <2>2. Those(s \o <<l>>, S) = IF l \in S THEN Those(s, S) \o <<l>> ELSE Those(s, S)
    BY <2>1, ThoseConcat
  <2> QED BY <1>2, <2>2
<1>4. \A i \in 1..Len(s) : NodeToJson(s[i]) = s[i]
  BY SeqIs DEF NodeToJson, IsLook
<1>5. NodesToJson(t) = [i \in DOMAIN w |-> NodeToJson(w[i])]
  BY DEF NodesToJson
<1>6. CASE l.act = "freeLook"
  <2>1. w = s
    BY <1>3, <1>6
  <2>2. NodesToJson(t) = [i \in 1..Len(s) |-> s[i]]
    BY <1>4, <1>5, <2>1, SeqIs
  <2> QED BY <1>6, <2>2, AsFunction
<1>7. CASE l.act # "freeLook"
  <2>1. w = t
    BY <1>1, <1>3, <1>7
  <2> DEFINE u == s \o <<c>>
  <2>2. /\ IsSeq(u) /\ Len(u) = Len(s) + 1
        /\ \A i \in 1..Len(s) : u[i] = s[i]
        /\ u[Len(s) + 1] = c
    BY AtEnd
  <2> HIDE DEF u, w, c
  <2>3. NodesToJson(t) = [i \in 1..(Len(s) + 1) |-> NodeToJson(t[i])]
    BY <1>1, <1>5, <2>1
  <2>4. \A i \in 1..(Len(s) + 1) : NodeToJson(t[i]) = u[i]
    <3> TAKE i \in 1..(Len(s) + 1)
    <3>1. CASE i = Len(s) + 1
      BY <1>1, <2>2, <3>1 DEF c
    <3>2. CASE i # Len(s) + 1
      <4>1. i \in 1..Len(s)
        BY <1>1, <3>2
      <4> QED BY <1>1, <1>4, <2>2, <4>1
    <3> QED BY <3>1, <3>2
  <2>5. u = [i \in 1..(Len(s) + 1) |-> u[i]]
    BY <2>2, AsFunction
  <2>6. NodesToJson(t) = u
    BY <2>3, <2>4, <2>5
  <2> QED BY <1>7, <2>6 DEF u, c
<1> QED BY <1>6, <1>7

\* The look control of a scheme without one, and of one where it is last
LEMMA NoLookIn ==
  ASSUME NEW s, \A i \in DOMAIN s : ~IsLook(s[i])
  PROVE  ~HasLook(s) /\ LookToJson(s) = NoLook /\ ShootButton(s) = None
BY DEF HasLook, LookToJson, ShootButton

LEMMA LookLast ==
  ASSUME NEW s, IsSeq(s), \A i \in DOMAIN s : ~IsLook(s[i]), NEW l, IsLook(l)
  PROVE  LET t == s \o <<l>>
         IN HasLook(t) /\ LookIndex(t) = Len(s) + 1 /\ t[LookIndex(t)] = l
<1> DEFINE t == s \o <<l>>
           n == Len(s) + 1
<1>1. /\ DOMAIN t = 1..n /\ Len(s) \in Nat
      /\ \A i \in 1..Len(s) : t[i] = s[i]
      /\ t[n] = l
  BY AtEnd
<1>2. DOMAIN s = 1..Len(s)
  BY SeqIs
<1> HIDE DEF t
<1>3. \A i \in DOMAIN t : IsLook(t[i]) => i = n
  <2> TAKE i \in DOMAIN t
  <2>1. i # n => i \in 1..Len(s)
    BY <1>1
  <2> QED BY <1>1, <1>2, <2>1
<1>4. n \in DOMAIN t /\ IsLook(t[n]) /\ \A j \in 1..(n - 1) : ~IsLook(t[j])
  BY <1>1, <1>2
<1>5. LookIndex(t) = n
  <2> DEFINE P(i) == IsLook(t[i]) /\ \A j \in 1..(i - 1) : ~IsLook(t[j])
  <2>1. n \in DOMAIN t /\ P(n) /\ \A i \in DOMAIN t : P(i) => i = n
    BY <1>3, <1>4
  <2>2. LookIndex(t) = CHOOSE i \in DOMAIN t : P(i)
    BY DEF LookIndex
  <2> HIDE DEF P
  <2> QED BY <2>1, <2>2
<1> QED BY <1>1, <1>4, <1>5 DEF HasLook, t

\* The slots of a look control that is read: the shoot key before the others
LEMMA OneAndTwo == ASSUME NEW a, NEW b, NEW c PROVE <<a>> \o <<b, c>> = <<a, b, c>>
<1> DEFINE X == {a, b, c}
           s == <<a>>
           t == <<b, c>>
           u == <<a, b, c>>
<1>1. /\ s \in Seq(X) /\ t \in Seq(X) /\ u \in Seq(X)
      /\ Len(s) = 1 /\ Len(t) = 2 /\ Len(u) = 3
      /\ s[1] = a /\ t[1] = b /\ t[2] = c /\ u[1] = a /\ u[2] = b /\ u[3] = c
  OBVIOUS
<1> HIDE DEF s, t, u, X
<1>2. /\ s \o t \in Seq(X) /\ Len(s \o t) = 3
      /\ \A i \in 1..3 : (s \o t)[i] = IF i <= 1 THEN s[i] ELSE t[i - 1]
  <2>1. /\ s \o t \in Seq(X) /\ Len(s \o t) = Len(s) + Len(t)
        /\ \A i \in 1..Len(s) + Len(t) : (s \o t)[i] = IF i <= Len(s) THEN s[i] ELSE t[i - Len(s)]
    BY <1>1, ConcatProperties
  <2>2. Len(s) + Len(t) = 3
    BY <1>1
  <2> QED BY <1>1, <2>1, <2>2
<1>3. \A i \in 1..3 : (s \o t)[i] = u[i]
  BY <1>1, <1>2
<1>4. s \o t = u
  BY <1>1, <1>2, <1>3, SeqEqual
<1> QED BY <1>4 DEF s, t, u

\* The fields of a written file
LEMMA ToJsonIs ==
  ASSUME NEW modes, NEW nodes
  PROVE  LET f == ToJson(modes, nodes)
         IN /\ f = [switch |-> f.switch, lock |-> f.lock, shoot |-> f.shoot, look |-> f.look, nodes |-> f.nodes]
            /\ f.switch = IF modes.switch = None THEN DefaultSwitch ELSE modes.switch
            /\ f.lock = IF modes.lock = None THEN DefaultLock ELSE modes.lock
            /\ f.shoot = ShootButton(nodes)
            /\ f.look = LookToJson(nodes)
            /\ f.nodes = NodesToJson(nodes)
BY DEF ToJson

\* A scheme with a look control that comes last
LookEnd(nodes, s, l) ==
  /\ IsSeq(s) /\ nodes = s \o <<l>> /\ IsLook(l) /\ ControlOK(l)
  /\ \A j \in DOMAIN s : ControlOK(s[j]) /\ ~IsLook(s[j])
  /\ l.act = "aimPanShoot" => l.keys[1] \in Mouse \/ l.to = l.at
  /\ \A j \in DOMAIN s : s[j].act = "tapSpot" =>
       s[j].at # l.at /\ ~(s[j].keys[1] \in Mouse /\ s[j].keys[1] = l.keys[1])

\* A scheme as a file gives it ends with its look control.
LEMMA LookIsLast ==
  ASSUME NEW nodes, NodesOK(nodes), ReadForm(nodes), NEW i \in DOMAIN nodes, IsLook(nodes[i])
  PROVE  \E s, l : LookEnd(nodes, s, l)
<1> DEFINE n == Len(nodes)
<1>1. n \in Nat /\ DOMAIN nodes = 1..n /\ nodes \in Seq(Range(nodes)) /\ i = n
  BY SeqIs DEF NodesOK, ReadForm
<1>2. nodes # <<>>
  BY <1>1, EmptyIs
<1>3. PICK s \in Seq(Range(nodes)), l \in Range(nodes) : nodes = Append(s, l)
  BY <1>1, <1>2, SequenceEmptyOrAppend
<1>4. IsSeq(s)
  BY IsSeqOf
<1>5. /\ nodes = s \o <<l>> /\ n = Len(s) + 1 /\ Len(s) \in Nat
      /\ DOMAIN s = 1..Len(s)
      /\ \A j \in 1..Len(s) : nodes[j] = s[j]
      /\ nodes[n] = l
  <2>1. nodes = s \o <<l>>
    BY <1>3, <1>4, AtEnd
  <2> QED BY <1>4, <2>1, AtEnd, SeqIs
<1>6. IsLook(l) /\ ControlOK(l)
  BY <1>1, <1>5 DEF NodesOK
<1> HIDE DEF n
<1>7. \A j \in DOMAIN s : j \in DOMAIN nodes /\ nodes[j] = s[j] /\ j # n
  BY <1>1, <1>5
<1>8. \A j \in DOMAIN s : ControlOK(s[j])
  BY <1>7 DEF NodesOK
<1>9. \A j \in DOMAIN s : ~IsLook(s[j])
  <2>1. \A j \in DOMAIN nodes : IsLook(nodes[j]) => j = n
    BY DEF ReadForm, n
  <2> QED BY <1>7, <2>1
<1>10. l.act = "aimPanShoot" => l.keys[1] \in Mouse \/ l.to = l.at
  BY <1>1, <1>5, <1>6 DEF ReadForm
<1>11. ASSUME NEW j \in DOMAIN s, s[j].act = "tapSpot"
       PROVE  s[j].at # l.at /\ ~(s[j].keys[1] \in Mouse /\ s[j].keys[1] = l.keys[1])
  <2>1. s[j].at # l.at
    BY <1>1, <1>5, <1>6, <1>7, <1>11 DEF ReadForm
  <2>2. 1 \in DOMAIN s[j].keys
    <3>1. s[j].keys = <<s[j].keys[1]>>
      BY <1>8, <1>11 DEF ControlOK
    <3>2. 1 \in DOMAIN <<s[j].keys[1]>>
      OBVIOUS
    <3> QED BY <3>1, <3>2
  <2>3. 1 \in DOMAIN l.keys
    <3>1. l.keys = <<l.keys[1], l.keys[2], l.keys[3]>>
      BY <1>6 DEF ControlOK
    <3>2. 1 \in DOMAIN <<l.keys[1], l.keys[2], l.keys[3]>>
      OBVIOUS
    <3> QED BY <3>1, <3>2
  <2>4. ButtonsOnce(KeysOf(nodes))
    BY DEF NodesOK, Unambiguous
  <2>5. /\ j \in DOMAIN KeysOf(nodes) /\ KeysOf(nodes)[j] = s[j].keys
        /\ n \in DOMAIN KeysOf(nodes) /\ KeysOf(nodes)[n] = l.keys
    BY <1>1, <1>5, <1>7 DEF KeysOf
  <2>6. s[j].keys[1] \in Mouse /\ s[j].keys[1] = l.keys[1] => j = n
    BY <2>2, <2>3, <2>4, <2>5 DEF ButtonsOnce
  <2> QED BY <1>7, <2>1, <2>6
<1> QED BY <1>4, <1>5, <1>6, <1>8, <1>9, <1>10, <1>11 DEF LookEnd

\* A scheme as it was read, written and read again is the same.
LEMMA ReadBack ==
  ASSUME NEW modes, modes = [switch |-> modes.switch, lock |-> modes.lock],
         modes.switch # None, modes.lock # None,
         NEW nodes, NodesOK(nodes), ReadForm(nodes)
  PROVE  FromJson(ToJson(modes, nodes)) = [modes |-> modes, nodes |-> nodes]
<1> DEFINE f == ToJson(modes, nodes)
<1>1. /\ f.switch = modes.switch /\ f.lock = modes.lock /\ f.shoot = ShootButton(nodes)
      /\ f.look = LookToJson(nodes) /\ f.nodes = NodesToJson(nodes)
  BY ToJsonIs
<1> HIDE DEF f
<1>2. SUFFICES Those(f.nodes, Range(f.nodes) \ Shoots(f)) \o LookFromJson(f) = nodes
  BY <1>1 DEF FromJson, f
<1>3. CASE \A i \in DOMAIN nodes : ~IsLook(nodes[i])
  <2>1. IsSeq(nodes) /\ f.nodes = nodes /\ f.look = NoLook
    BY <1>1, <1>3, NodesWritten, NoLookIn DEF NodesOK
  <2>2. Shoots(f) = {}
    BY <2>1 DEF Shoots, IsShoot
  <2>3. Those(nodes, Range(nodes) \ {}) = nodes
    BY <2>1, ThoseAll DEF IsSeq
  <2>4. LookFromJson(f) = <<>>
    BY <2>1 DEF LookFromJson
  <2> QED BY <2>1, <2>2, <2>3, <2>4, WithoutNothing
<1>4. CASE \E i \in DOMAIN nodes : IsLook(nodes[i])
  <2>at. PICK i \in DOMAIN nodes : IsLook(nodes[i])
    BY <1>4
  <2>last. PICK s, l : LookEnd(nodes, s, l)
    BY <2>at, LookIsLast
  <2>1. /\ IsSeq(s) /\ nodes = s \o <<l>> /\ IsLook(l) /\ ControlOK(l)
        /\ \A j \in DOMAIN s : ControlOK(s[j]) /\ ~IsLook(s[j])
        /\ l.act = "aimPanShoot" => l.keys[1] \in Mouse \/ l.to = l.at
        /\ \A j \in DOMAIN s : s[j].act = "tapSpot" =>
             s[j].at # l.at /\ ~(s[j].keys[1] \in Mouse /\ s[j].keys[1] = l.keys[1])
    BY <2>last DEF LookEnd
  <2>2. HasLook(nodes) /\ nodes[LookIndex(nodes)] = l
    BY <2>1, LookLast
  <2>3. /\ l = [act |-> l.act, keys |-> l.keys, at |-> l.at, to |-> l.to, speed |-> l.speed]
        /\ l.keys = <<l.keys[1], l.keys[2], l.keys[3]>> /\ l.at # None
        /\ l.act \in {"freeLook", "aimPanShoot"}
        /\ l.act = "aimPanShoot" => l.keys[1] # None
        /\ l.act = "freeLook" => l.keys[1] = None /\ l.to = FireSpot
    BY <2>1 DEF ControlOK, Node, IsLook
  <2>4. f.look = [at |-> l.at, speed |-> l.speed, eyes |-> l.keys[2], suspend |-> l.keys[3]]
    BY <1>1, <2>2 DEF LookToJson
  <2>5. /\ f.look.at = l.at /\ f.look.speed = l.speed /\ f.look.eyes = l.keys[2]
        /\ f.look.suspend = l.keys[3] /\ f.look # NoLook
    BY <2>3, <2>4 DEF NoLook
  <2>6. f.shoot = IF l.act = "aimPanShoot" /\ l.keys[1] \in Mouse THEN l.keys[1] ELSE None
    BY <1>1, <2>2, <2>3 DEF ShootButton, ShootKey
  <2>7. \A e \in Range(s) : ~IsShoot(f, e)
    <3> SUFFICES ASSUME NEW j \in DOMAIN s PROVE ~IsShoot(f, s[j])
      BY DEF Range
    <3>1. s[j].act = "tapSpot" => s[j].at # l.at /\ ~(s[j].keys[1] \in Mouse /\ s[j].keys[1] = l.keys[1])
      BY <2>1
    <3> QED BY <2>5, <2>6, <3>1 DEF IsShoot
  <2>8. CASE l.act = "freeLook"
    <3>1. f.nodes = s
      BY <1>1, <2>1, <2>8, NodesWrittenLast
    <3>2. Shoots(f) = {}
      BY <2>7, <3>1 DEF Shoots
    <3>3. Those(s, Range(s) \ {}) = s
      BY <2>1, ThoseAll DEF IsSeq
    <3>4. Those(s, {}) = <<>>
      BY <2>1, ThoseNone DEF IsSeq
    <3>5. LookFromJson(f) = <<Node("freeLook", <<None>> \o <<f.look.eyes, f.look.suspend>>,
                                   f.look.at, FireSpot, f.look.speed)>>
      BY <2>5, <3>1, <3>2, <3>4 DEF LookFromJson
    <3>6. <<None>> \o <<f.look.eyes, f.look.suspend>> = <<None, f.look.eyes, f.look.suspend>>
      BY OneAndTwo
    <3>7. Node("freeLook", <<None, f.look.eyes, f.look.suspend>>, f.look.at, FireSpot, f.look.speed) = l
      BY <2>3, <2>5, <2>8 DEF Node
    <3> QED BY <2>1, <3>1, <3>2, <3>3, <3>5, <3>6, <3>7
  <2>9. CASE l.act = "aimPanShoot"
    <3> DEFINE c == Node("tapSpot", <<l.keys[1]>>, l.to, FireSpot, 0)
    <3>1. NodeToJson(l) = c
      BY <2>3, <2>9 DEF NodeToJson, ShootKey
    <3>2. f.nodes = s \o <<c>>
      BY <1>1, <2>1, <2>9, <3>1, NodesWrittenLast
    <3>3. c.act = "tapSpot" /\ c.keys = <<l.keys[1]>> /\ c.keys[1] = l.keys[1] /\ c.at = l.to
      BY DEF Node
    <3> HIDE DEF c
    <3>4. IsShoot(f, c)
      <4>1. l.keys[1] \in Mouse \/ l.to = l.at
        BY <2>1, <2>9
      <4>2. l.keys[1] # None
        BY <2>3, <2>9
      <4> QED BY <2>5, <2>6, <2>9, <3>3, <4>1, <4>2 DEF IsShoot
    <3>5. Range(f.nodes) = Range(s) \cup {c}
      <4>1. Range(s \o <<c>>) = Range(s) \cup {c}
        BY <2>1, AtEnd
      <4> QED BY <3>2, <4>1
    <3>6. Shoots(f) = {c} /\ c \notin Range(s)
      BY <2>7, <3>4, <3>5 DEF Shoots
    <3>7. s \in Seq(Range(f.nodes)) /\ c \in Range(f.nodes)
      BY <2>1, <3>5, SeqMonotonic DEF IsSeq
    <3>8. Those(f.nodes, Shoots(f)) = <<c>>
      <4>1. Those(s, {c}) = <<>>
        <5>1. Range(s) \cap {c} = {} /\ s \in Seq(Range(s))
          BY <2>1, <3>6 DEF IsSeq
        <5> QED BY <5>1, ThoseNone
      <4>2. Those(s \o <<c>>, {c}) = Those(s, {c}) \o <<c>>
        BY <3>7, ThoseConcat
      <4>3. <<>> \o <<c>> = <<c>>
        OBVIOUS
      <4> QED BY <3>2, <3>6, <4>1, <4>2, <4>3
    <3>9. Those(f.nodes, Range(f.nodes) \ Shoots(f)) = s
      <4> DEFINE R == Range(f.nodes) \ Shoots(f)
      <4>1. R = Range(s) /\ c \notin R
        BY <3>5, <3>6
      <4> HIDE DEF R
      <4>2. Those(s, R) = s
        BY <2>1, <4>1, ThoseAll DEF IsSeq
      <4>3. Those(s \o <<c>>, R) = Those(s, R)
        BY <3>7, <4>1, ThoseConcat
      <4> QED BY <3>2, <4>2, <4>3 DEF R
    <3>10. Last(<<c>>) = c
      BY DEF Last
    <3>11. <<c>> # <<>>
      OBVIOUS
    <3>12. LookFromJson(f) = <<Node("aimPanShoot", c.keys \o <<f.look.eyes, f.look.suspend>>,
                                    f.look.at, c.at, f.look.speed)>>
      BY <2>5, <3>8, <3>10, <3>11 DEF LookFromJson
    <3>13. c.keys \o <<f.look.eyes, f.look.suspend>> = l.keys
      <4>1. <<l.keys[1]>> \o <<l.keys[2], l.keys[3]>> = <<l.keys[1], l.keys[2], l.keys[3]>>
        BY OneAndTwo
      <4> QED BY <2>3, <2>5, <3>3, <4>1
    <3>14. Node("aimPanShoot", l.keys, f.look.at, c.at, f.look.speed) = l
      BY <2>3, <2>5, <2>9, <3>3 DEF Node
    <3> QED BY <2>1, <3>9, <3>12, <3>13, <3>14
  <2> QED BY <2>3, <2>8, <2>9
<1> QED BY <1>3, <1>4

-----------------------------------------------------------------------------
(***************************************************************************)
(* Writing makes files, and reading makes schemes.                         *)
(***************************************************************************)
\* The lists of keys of a scheme
LEMMA KeysOfIs ==
  ASSUME NEW s, IsSeq(s)
  PROVE  /\ IsSeq(KeysOf(s)) /\ DOMAIN KeysOf(s) = 1..Len(s) /\ Len(KeysOf(s)) = Len(s)
         /\ \A i \in 1..Len(s) : KeysOf(s)[i] = s[i].keys
<1>1. DOMAIN s = 1..Len(s) /\ Len(s) \in Nat
  BY SeqIs
<1>2. KeysOf(s) = [i \in 1..Len(s) |-> s[i].keys]
  BY <1>1 DEF KeysOf
<1> DEFINE X == {s[i].keys : i \in 1..Len(s)}
<1>3. KeysOf(s) \in [1..Len(s) -> X]
  BY <1>2
<1> HIDE DEF X
<1>4. KeysOf(s) \in Seq(X)
  BY <1>1, <1>3, SeqDef
<1>5. DOMAIN KeysOf(s) = 1..Len(KeysOf(s)) /\ Len(KeysOf(s)) \in Nat
  BY <1>4, LenProperties
<1>6. Len(KeysOf(s)) = Len(s)
  BY <1>1, <1>2, <1>5
<1> QED BY <1>2, <1>4, <1>6, IsSeqOf

\* One more element, and one more control
LEMMA AppendIs ==
  ASSUME NEW s, IsSeq(s), NEW e
  PROVE  /\ IsSeq(Append(s, e)) /\ Len(Append(s, e)) = Len(s) + 1
         /\ \A i \in 1..Len(s) : Append(s, e)[i] = s[i]
         /\ Append(s, e)[Len(s) + 1] = e
<1> DEFINE X == Range(s) \cup {e}
<1>1. s \in Seq(X) /\ e \in X
  <2>1. s \in Seq(Range(s)) /\ Range(s) \subseteq X
    BY DEF IsSeq
  <2> QED BY <2>1, SeqMonotonic
<1> HIDE DEF X
<1>2. /\ Append(s, e) \in Seq(X) /\ Len(Append(s, e)) = Len(s) + 1
      /\ \A i \in 1..Len(s) : Append(s, e)[i] = s[i]
      /\ Append(s, e)[Len(s) + 1] = e
  BY <1>1, AppendProperties
<1> QED BY <1>2, IsSeqOf

LEMMA KeysOfAppend ==
  ASSUME NEW s, IsSeq(s), NEW l
  PROVE  KeysOf(s \o <<l>>) = Append(KeysOf(s), l.keys)
<1> DEFINE t == s \o <<l>>
           u == Append(KeysOf(s), l.keys)
<1>1. /\ IsSeq(t) /\ Len(t) = Len(s) + 1 /\ Len(s) \in Nat
      /\ \A i \in 1..Len(s) : t[i] = s[i]
      /\ t[Len(s) + 1] = l
  BY AtEnd
<1>2. /\ IsSeq(KeysOf(s)) /\ Len(KeysOf(s)) = Len(s) /\ \A i \in 1..Len(s) : KeysOf(s)[i] = s[i].keys
  BY KeysOfIs
<1>3. /\ IsSeq(u) /\ Len(u) = Len(s) + 1
      /\ \A i \in 1..Len(s) : u[i] = s[i].keys
      /\ u[Len(s) + 1] = l.keys
  BY <1>2, AppendIs
<1> HIDE DEF t, u
<1>4. IsSeq(KeysOf(t)) /\ Len(KeysOf(t)) = Len(s) + 1
      /\ \A i \in 1..(Len(s) + 1) : KeysOf(t)[i] = t[i].keys
  BY <1>1, KeysOfIs
<1>5. \A i \in 1..(Len(s) + 1) : KeysOf(t)[i] = u[i]
  <2> TAKE i \in 1..(Len(s) + 1)
  <2>1. i = Len(s) + 1 \/ i \in 1..Len(s)
    BY <1>1
  <2> QED BY <1>1, <1>3, <1>4, <2>1
<1>6. KeysOf(t) = u
  <2>1. KeysOf(t) = [i \in 1..(Len(s) + 1) |-> KeysOf(t)[i]]
    BY <1>4, AsFunction
  <2>2. u = [i \in 1..(Len(s) + 1) |-> u[i]]
    BY <1>3, AsFunction
  <2> QED BY <1>5, <2>1, <2>2
<1> QED BY <1>6 DEF t, u

\* No mouse button twice in a list of keys with one more at its end
LEMMA ButtonsLast ==
  ASSUME NEW B, IsSeq(B), NEW ks
  PROVE  ButtonsOnce(Append(B, ks)) <=>
           /\ ButtonsOnce(B)
           /\ \A i \in DOMAIN B : \A s \in DOMAIN B[i], t \in DOMAIN ks :
                B[i][s] \in Mouse => B[i][s] # ks[t]
           /\ \A s, t \in DOMAIN ks : ks[s] \in Mouse /\ ks[s] = ks[t] => s = t
<1> DEFINE A == Append(B, ks)
           n == Len(B)
<1>1. /\ DOMAIN A = 1..(n + 1) /\ DOMAIN B = 1..n /\ n \in Nat
      /\ \A i \in 1..n : A[i] = B[i]
      /\ A[n + 1] = ks
  BY AtEnd, SeqIs
<1> HIDE DEF A, n
<1>2. /\ \A i \in DOMAIN B : i \in DOMAIN A /\ A[i] = B[i] /\ i # n + 1
      /\ \A i \in DOMAIN A : i \in DOMAIN B \/ i = n + 1
      /\ n + 1 \in DOMAIN A /\ A[n + 1] = ks
  BY <1>1
<1>3. ButtonsOnce(A) <=>
        /\ ButtonsOnce(B)
        /\ \A i \in DOMAIN B : \A s \in DOMAIN B[i], t \in DOMAIN ks : B[i][s] \in Mouse => B[i][s] # ks[t]
        /\ \A s, t \in DOMAIN ks : ks[s] \in Mouse /\ ks[s] = ks[t] => s = t
  <2>1. ASSUME ButtonsOnce(A)
        PROVE  /\ ButtonsOnce(B)
               /\ \A i \in DOMAIN B : \A s \in DOMAIN B[i], t \in DOMAIN ks : B[i][s] \in Mouse => B[i][s] # ks[t]
               /\ \A s, t \in DOMAIN ks : ks[s] \in Mouse /\ ks[s] = ks[t] => s = t
    BY <1>2, <2>1 DEF ButtonsOnce
  <2>2. ASSUME /\ ButtonsOnce(B)
               /\ \A i \in DOMAIN B : \A s \in DOMAIN B[i], t \in DOMAIN ks : B[i][s] \in Mouse => B[i][s] # ks[t]
               /\ \A s, t \in DOMAIN ks : ks[s] \in Mouse /\ ks[s] = ks[t] => s = t
        PROVE  ButtonsOnce(A)
    BY <1>2, <2>2 DEF ButtonsOnce
  <2> QED BY <2>1, <2>2
<1> QED BY <1>3 DEF A

\* Of controls with no button twice some still have none.
LEMMA ButtonsPlaces ==
  ASSUME NEW r, IsSeq(r), NEW s, IsSeq(s), NEW g, Places(g, r, s), ButtonsOnce(KeysOf(s))
  PROVE  ButtonsOnce(KeysOf(r))
<1>1. /\ DOMAIN KeysOf(r) = 1..Len(r) /\ \A i \in 1..Len(r) : KeysOf(r)[i] = r[i].keys
      /\ DOMAIN KeysOf(s) = 1..Len(s) /\ \A i \in 1..Len(s) : KeysOf(s)[i] = s[i].keys
  BY KeysOfIs
<1>2. \A i \in 1..Len(r) : g[i] \in 1..Len(s) /\ KeysOf(r)[i] = KeysOf(s)[g[i]]
  BY <1>1 DEF Places
<1>3. \A i, j \in 1..Len(r) : g[i] = g[j] => i = j
  BY DEF Places
<1> QED BY <1>1, <1>2, <1>3 DEF ButtonsOnce

\* A scheme with no look control, and one with a look control at the end
LEMMA UnambiguousWithout ==
  ASSUME NEW s, IsSeq(s), \A i \in DOMAIN s : ~IsLook(s[i]), ButtonsOnce(KeysOf(s))
  PROVE  Unambiguous(s)
BY DEF Unambiguous

LEMMA UnambiguousLast ==
  ASSUME NEW s, IsSeq(s), NEW l, \/ \A i \in DOMAIN s : ~IsLook(s[i])
                                 \/ ~IsLook(l) /\ \A i, j \in DOMAIN s : IsLook(s[i]) /\ IsLook(s[j]) => i = j,
         ButtonsOnce(Append(KeysOf(s), l.keys))
  PROVE  Unambiguous(s \o <<l>>)
<1> DEFINE t == s \o <<l>>
           n == Len(s) + 1
<1>1. /\ DOMAIN t = 1..n /\ Len(s) \in Nat
      /\ \A i \in 1..Len(s) : t[i] = s[i]
      /\ t[n] = l
      /\ DOMAIN s = 1..Len(s)
  BY AtEnd, SeqIs
<1>2. ButtonsOnce(KeysOf(t))
  BY KeysOfAppend
<1> HIDE DEF t
<1>3. \A i \in DOMAIN t : i = n \/ (i \in DOMAIN s /\ t[i] = s[i])
  BY <1>1
<1>4. \A i, j \in DOMAIN t : IsLook(t[i]) /\ IsLook(t[j]) => i = j
  BY <1>1, <1>3
<1>5. Unambiguous(t)
  BY <1>2, <1>4 DEF Unambiguous
<1> QED BY <1>5 DEF t

\* The look control of a scheme
LEMMA LookIs ==
  ASSUME NEW nodes, NodesOK(nodes), HasLook(nodes)
  PROVE  LookIndex(nodes) \in DOMAIN nodes /\ IsLook(nodes[LookIndex(nodes)])
<1>1. PICK i \in DOMAIN nodes : IsLook(nodes[i])
  BY DEF HasLook
<1>2. DOMAIN nodes = 1..Len(nodes) /\ Len(nodes) \in Nat
  BY SeqIs DEF NodesOK
<1>3. \A j \in 1..(i - 1) : j \in DOMAIN nodes /\ j # i
  BY <1>1, <1>2
<1>4. \A j \in 1..(i - 1) : ~IsLook(nodes[j])
  BY <1>1, <1>3 DEF NodesOK, Unambiguous
<1> QED BY <1>1, <1>4 DEF LookIndex

\* What is written of a scheme is a file.
LEMMA WriteFile ==
  ASSUME NEW modes, NEW nodes, NodesOK(nodes), ~KeylessFire(ToJson(modes, nodes))
  PROVE  FileOK(ToJson(modes, nodes))
<1> DEFINE f == ToJson(modes, nodes)
           S == {n \in Range(nodes) : n.act # "freeLook"}
           w == Those(nodes, S)
           m == Len(w)
<1>1. /\ f = [switch |-> f.switch, lock |-> f.lock, shoot |-> f.shoot, look |-> f.look, nodes |-> f.nodes]
      /\ f.switch = IF modes.switch = None THEN DefaultSwitch ELSE modes.switch
      /\ f.lock = IF modes.lock = None THEN DefaultLock ELSE modes.lock
      /\ f.shoot = ShootButton(nodes) /\ f.look = LookToJson(nodes) /\ f.nodes = NodesToJson(nodes)
  BY ToJsonIs
<1>0. ~KeylessFire(f)
  OBVIOUS
<1> HIDE DEF f
<1>2. f.switch # None /\ f.lock # None
  BY <1>1, KeysAssumption
<1>3. IsSeq(nodes) /\ nodes \in Seq(Range(nodes)) /\ \A i \in DOMAIN nodes : ControlOK(nodes[i])
  BY DEF NodesOK, IsSeq
<1>4. DOMAIN nodes = 1..Len(nodes)
  BY <1>3, SeqIs
<1>5. PICK g : Places(g, w, nodes)
  <2> HIDE DEF S
  <2> QED BY <1>3, ThosePlaces
<1>6. DOMAIN w = 1..m /\ m \in Nat /\ \A i \in 1..m : w[i] \in S
  <2> HIDE DEF S
  <2>1. w \in Seq(Range(nodes) \cap S)
    BY <1>3, ThoseType
  <2> QED BY <2>1, LenProperties, ElementOfSeq
<1>7. f.nodes = [i \in 1..m |-> NodeToJson(w[i])]
  BY <1>1, <1>6 DEF NodesToJson
<1>8. \A i \in 1..m : /\ g[i] \in DOMAIN nodes /\ w[i] = nodes[g[i]]
                      /\ ControlOK(w[i]) /\ w[i].act # "freeLook"
                      /\ f.nodes[i] = NodeToJson(w[i])
  BY <1>3, <1>4, <1>5, <1>6, <1>7 DEF Places
<1>9. IsSeq(f.nodes) /\ Len(f.nodes) = m /\ DOMAIN f.nodes = 1..m
  <2> DEFINE X == {NodeToJson(w[i]) : i \in 1..m}
  <2>1. f.nodes \in [1..m -> X]
    BY <1>7
  <2> HIDE DEF X, m
  <2>2. f.nodes \in Seq(X)
    BY <1>6, <2>1, SeqDef
  <2>3. DOMAIN f.nodes = 1..Len(f.nodes) /\ Len(f.nodes) \in Nat /\ DOMAIN f.nodes = 1..m
    BY <2>1, <2>2, LenProperties
  <2>4. Len(f.nodes) = m
    BY <1>6, <2>3
  <2> QED BY <2>2, <2>3, <2>4, IsSeqOf
<1> HIDE DEF w, m
\* A written entry has the keys of its control, of a look control the first.
<1>10. ASSUME NEW i \in 1..m
       PROVE  /\ ControlOK(f.nodes[i]) /\ ~IsLook(f.nodes[i])
              /\ \A s \in DOMAIN f.nodes[i].keys :
                   /\ s \in DOMAIN nodes[g[i]].keys /\ f.nodes[i].keys[s] = nodes[g[i]].keys[s]
                   /\ IsLook(nodes[g[i]]) => s = 1
  <2>1. CASE w[i].act = "aimPanShoot"
    <3>1. w[i].keys = <<w[i].keys[1], w[i].keys[2], w[i].keys[3]>> /\ w[i].keys[1] # None
      BY <1>8, <2>1 DEF ControlOK, IsLook
    <3> DEFINE k == w[i].keys[1]
    <3>2. f.nodes[i] = Node("tapSpot", <<k>>, w[i].to, FireSpot, 0)
      BY <1>8, <2>1, <3>1 DEF NodeToJson, ShootKey
    <3> HIDE DEF k
    <3>3. /\ f.nodes[i].act = "tapSpot" /\ f.nodes[i].keys = <<k>> /\ f.nodes[i].to = FireSpot
          /\ f.nodes[i].speed = 0 /\ f.nodes[i].at = w[i].to
      BY <3>2 DEF Node
    <3>4. <<k>>[1] = k /\ DOMAIN <<k>> = {1}
      OBVIOUS
    <3>5. ControlOK(f.nodes[i]) /\ ~IsLook(f.nodes[i])
      BY <1>8, <3>1, <3>2, <3>3, <3>4, KeysAssumption DEF ControlOK, IsLook, k
    <3>6. 1 \in DOMAIN w[i].keys
      <4>1. 1 \in DOMAIN <<w[i].keys[1], w[i].keys[2], w[i].keys[3]>>
        OBVIOUS
      <4> QED BY <3>1, <4>1
    <3> QED BY <1>8, <3>3, <3>4, <3>5, <3>6 DEF k
  <2>2. CASE w[i].act # "aimPanShoot"
    BY <1>8, <2>2 DEF NodeToJson, IsLook
  <2> QED BY <2>1, <2>2
<1>11. \A i, j \in 1..m : g[i] = g[j] => i = j
  BY <1>5 DEF Places, m
<1>12. ButtonsOnce(KeysOf(nodes)) /\ DOMAIN KeysOf(nodes) = DOMAIN nodes
       /\ \A i \in DOMAIN nodes : KeysOf(nodes)[i] = nodes[i].keys
  BY DEF NodesOK, Unambiguous, KeysOf
<1>13. \A i, j \in DOMAIN nodes : \A s \in DOMAIN nodes[i].keys, t \in DOMAIN nodes[j].keys :
         nodes[i].keys[s] \in Mouse /\ nodes[i].keys[s] = nodes[j].keys[t] => i = j /\ s = t
  BY <1>12 DEF ButtonsOnce
<1>14. ButtonsOnce(KeysOf(f.nodes))
  <2>1. DOMAIN KeysOf(f.nodes) = 1..m /\ \A i \in 1..m : KeysOf(f.nodes)[i] = f.nodes[i].keys
    BY <1>9, KeysOfIs
  <2> SUFFICES ASSUME NEW i \in 1..m, NEW j \in 1..m, NEW s \in DOMAIN f.nodes[i].keys, NEW t \in DOMAIN f.nodes[j].keys,
                      f.nodes[i].keys[s] \in Mouse, f.nodes[i].keys[s] = f.nodes[j].keys[t]
               PROVE  i = j /\ s = t
    BY <2>1 DEF ButtonsOnce
  <2>2. g[i] = g[j] /\ s = t
    BY <1>8, <1>10, <1>13
  <2> QED BY <1>11, <2>2
<1>15. /\ \/ f.look = NoLook
          \/ /\ f.look = [at |-> f.look.at, speed |-> f.look.speed, eyes |-> f.look.eyes, suspend |-> f.look.suspend]
             /\ f.look.at # None
       /\ f.shoot # None =>
            /\ f.shoot \in Mouse /\ f.look # NoLook
            /\ \E i \in DOMAIN f.nodes : f.nodes[i].act = "tapSpot" /\ f.nodes[i].keys[1] = f.shoot
       /\ ButtonsOnce(Append(KeysOf(f.nodes), <<f.look.eyes, f.look.suspend>>))
  <2> DEFINE ks == <<f.look.eyes, f.look.suspend>>
  <2>1. DOMAIN ks = {1, 2} /\ ks[1] = f.look.eyes /\ ks[2] = f.look.suspend
    OBVIOUS
  <2>2. /\ IsSeq(KeysOf(f.nodes)) /\ DOMAIN KeysOf(f.nodes) = 1..m
        /\ \A i \in 1..m : KeysOf(f.nodes)[i] = f.nodes[i].keys
    BY <1>9, KeysOfIs
  <2> HIDE DEF ks
  <2>3. CASE ~HasLook(nodes)
    <3>1. f.look = NoLook /\ f.shoot = None
      BY <1>1, <2>3 DEF LookToJson, ShootButton
    <3>2. f.look.eyes = None /\ f.look.suspend = None /\ None \notin Mouse
      BY <3>1, KeysAssumption DEF NoLook
    <3>3. \A s \in DOMAIN ks : ks[s] \notin Mouse
      BY <2>1, <3>2
    <3>4. ButtonsOnce(Append(KeysOf(f.nodes), ks))
      BY <1>14, <2>2, <3>3, ButtonsLast
    <3> QED BY <3>1, <3>4 DEF ks
  <2>4. CASE HasLook(nodes)
    <3> DEFINE L == LookIndex(nodes)
               n == nodes[L]
    <3>1. L \in DOMAIN nodes /\ IsLook(n) /\ ControlOK(n)
      BY <1>3, <2>4, LookIs
    <3>2. n.keys = <<n.keys[1], n.keys[2], n.keys[3]>> /\ n.at # None /\ (n.act = "aimPanShoot" => n.keys[1] # None)
      BY <3>1 DEF ControlOK
    <3>3. DOMAIN n.keys = {1, 2, 3}
      <4>1. DOMAIN <<n.keys[1], n.keys[2], n.keys[3]>> = {1, 2, 3}
        OBVIOUS
      <4> QED BY <3>2, <4>1
    <3>4. f.look = [at |-> n.at, speed |-> n.speed, eyes |-> n.keys[2], suspend |-> n.keys[3]]
      BY <1>1, <2>4 DEF LookToJson
    <3>5. f.shoot = IF n.act = "aimPanShoot" /\ ShootKey(n) \in Mouse THEN ShootKey(n) ELSE None
      BY <1>1, <2>4 DEF ShootButton
    <3> HIDE DEF n, L
    <3>6. /\ f.look = [at |-> f.look.at, speed |-> f.look.speed, eyes |-> f.look.eyes, suspend |-> f.look.suspend]
          /\ f.look.at # None /\ f.look # NoLook
          /\ f.look.eyes = n.keys[2] /\ f.look.suspend = n.keys[3]
      BY <3>2, <3>4 DEF NoLook
    <3>7. ASSUME f.shoot # None
          PROVE  f.shoot \in Mouse /\ \E i \in DOMAIN f.nodes : f.nodes[i].act = "tapSpot" /\ f.nodes[i].keys[1] = f.shoot
      <4>1. n.act = "aimPanShoot" /\ f.shoot = n.keys[1] /\ f.shoot \in Mouse
        BY <3>2, <3>5, <3>7 DEF ShootKey
      <4>2. n \in S
        BY <3>1, <4>1 DEF n, Range
      <4>3. PICK i \in 1..m : w[i] = n
        <5>1. L \in 1..Len(nodes) /\ nodes[L] \in S
          BY <1>4, <3>1, <4>2 DEF n
        <5> HIDE DEF S
        <5>2. \E i \in 1..Len(Those(nodes, S)) : Those(nodes, S)[i] = nodes[L]
          BY <1>3, <5>1, ThoseHas
        <5> QED BY <5>2 DEF w, m, n
      <4>4. f.nodes[i] = Node("tapSpot", <<n.keys[1]>>, n.to, FireSpot, 0)
        BY <1>8, <3>2, <4>1, <4>3 DEF NodeToJson, ShootKey
      <4>5. f.nodes[i].act = "tapSpot" /\ f.nodes[i].keys[1] = n.keys[1]
        BY <4>4 DEF Node
      <4> QED BY <1>9, <4>1, <4>5
    <3>8. ASSUME NEW i \in 1..m, NEW s \in DOMAIN f.nodes[i].keys, NEW t \in DOMAIN ks, f.nodes[i].keys[s] \in Mouse
          PROVE  f.nodes[i].keys[s] # ks[t]
      <4>1. t \in {1, 2} /\ ks[t] = n.keys[t + 1] /\ t + 1 \in DOMAIN n.keys
        BY <2>1, <3>3, <3>6
      <4>2. s \in DOMAIN nodes[g[i]].keys /\ f.nodes[i].keys[s] = nodes[g[i]].keys[s] /\ (IsLook(nodes[g[i]]) => s = 1)
            /\ g[i] \in DOMAIN nodes
        BY <1>8, <1>10
      <4>3. SUFFICES ASSUME f.nodes[i].keys[s] = ks[t] PROVE FALSE
        OBVIOUS
      <4>4. g[i] = L /\ s = t + 1
        <5>1. nodes[L].keys[t + 1] = ks[t] /\ t + 1 \in DOMAIN nodes[L].keys
          BY <4>1 DEF n
        <5>2. nodes[g[i]].keys[s] \in Mouse /\ nodes[g[i]].keys[s] = nodes[L].keys[t + 1]
          BY <3>8, <4>2, <4>3, <5>1
        <5> QED BY <1>13, <3>1, <4>2, <5>1, <5>2
      <4>5. s = 1
        BY <3>1, <4>2, <4>4 DEF n
      <4> QED BY <4>1, <4>4, <4>5
    <3>9. ASSUME NEW s \in DOMAIN ks, NEW t \in DOMAIN ks, ks[s] \in Mouse, ks[s] = ks[t] PROVE s = t
      <4>1. /\ s \in {1, 2} /\ ks[s] = n.keys[s + 1] /\ s + 1 \in DOMAIN n.keys
            /\ t \in {1, 2} /\ ks[t] = n.keys[t + 1] /\ t + 1 \in DOMAIN n.keys
        BY <2>1, <3>3, <3>6
      <4>2. s + 1 = t + 1
        BY <1>13, <3>1, <3>9, <4>1 DEF n
      <4> QED BY <4>1, <4>2
    <3>10. ButtonsOnce(Append(KeysOf(f.nodes), ks))
      <4>1. \A i \in DOMAIN KeysOf(f.nodes) : \A s \in DOMAIN KeysOf(f.nodes)[i], t \in DOMAIN ks :
              KeysOf(f.nodes)[i][s] \in Mouse => KeysOf(f.nodes)[i][s] # ks[t]
        BY <2>2, <3>8
      <4>2. \A s, t \in DOMAIN ks : ks[s] \in Mouse /\ ks[s] = ks[t] => s = t
        BY <3>9
      <4> QED BY <1>14, <2>2, <4>1, <4>2, ButtonsLast
    <3> QED BY <3>6, <3>7, <3>10 DEF ks
  <2> QED BY <2>3, <2>4
<1>16. FileOK(f)
  BY <1>0, <1>1, <1>2, <1>9, <1>10, <1>15 DEF FileOK
<1> QED BY <1>16 DEF f

\* The keys of a file: the entries', then the look control's own.
LEMMA FileKeys ==
  ASSUME NEW f, FileOK(f)
  PROVE  /\ ButtonsOnce(KeysOf(f.nodes))
         /\ \A i \in DOMAIN f.nodes : \A s \in DOMAIN f.nodes[i].keys :
              f.nodes[i].keys[s] \in Mouse => f.nodes[i].keys[s] \notin {f.look.eyes, f.look.suspend}
         /\ f.look.eyes \in Mouse => f.look.eyes # f.look.suspend
<1> DEFINE ks == <<f.look.eyes, f.look.suspend>>
<1>1. 1 \in DOMAIN ks /\ 2 \in DOMAIN ks /\ ks[1] = f.look.eyes /\ ks[2] = f.look.suspend
  OBVIOUS
<1>2. /\ IsSeq(KeysOf(f.nodes)) /\ DOMAIN KeysOf(f.nodes) = DOMAIN f.nodes
      /\ \A i \in DOMAIN f.nodes : KeysOf(f.nodes)[i] = f.nodes[i].keys
  BY KeysOfIs, SeqIs DEF FileOK
<1>3. ButtonsOnce(Append(KeysOf(f.nodes), ks))
  BY DEF FileOK
<1> HIDE DEF ks
<1>4. /\ ButtonsOnce(KeysOf(f.nodes))
      /\ \A i \in DOMAIN KeysOf(f.nodes) : \A s \in DOMAIN KeysOf(f.nodes)[i], t \in DOMAIN ks :
           KeysOf(f.nodes)[i][s] \in Mouse => KeysOf(f.nodes)[i][s] # ks[t]
      /\ \A s, t \in DOMAIN ks : ks[s] \in Mouse /\ ks[s] = ks[t] => s = t
  BY <1>2, <1>3, ButtonsLast
<1>5. ks[1] \in Mouse => ks[1] # ks[2]
  BY <1>1, <1>4
<1> QED BY <1>1, <1>2, <1>4, <1>5

\* The entries of a file that stay taps, swipes and wheels
LEMMA Others ==
  ASSUME NEW f, FileOK(f)
  PROVE  LET s == Those(f.nodes, Range(f.nodes) \ Shoots(f))
         IN /\ IsSeq(s) /\ Range(s) \subseteq Range(f.nodes) \ Shoots(f)
            /\ \E g : Places(g, s, f.nodes)
            /\ \A i \in DOMAIN s : ControlOK(s[i]) /\ ~IsLook(s[i]) /\ ~IsShoot(f, s[i])
            /\ ButtonsOnce(KeysOf(s))
<1> DEFINE R == Range(f.nodes) \ Shoots(f)
           s == Those(f.nodes, R)
<1>1. /\ IsSeq(f.nodes) /\ f.nodes \in Seq(Range(f.nodes))
      /\ \A i \in DOMAIN f.nodes : ControlOK(f.nodes[i]) /\ ~IsLook(f.nodes[i])
  BY DEF FileOK, IsSeq
<1>2. \A x \in R : ControlOK(x) /\ ~IsLook(x) /\ ~IsShoot(f, x)
  BY <1>1 DEF Shoots, Range
<1> HIDE DEF R
<1>3. s \in Seq(Range(f.nodes) \cap R)
  BY <1>1, ThoseType
<1>4. IsSeq(s) /\ Range(s) \subseteq Range(f.nodes) \cap R
  BY <1>3, IsSeqOf
<1>5. \E g : Places(g, s, f.nodes)
  BY <1>1, ThosePlaces
<1> HIDE DEF s
<1>6. \A i \in DOMAIN s : ControlOK(s[i]) /\ ~IsLook(s[i]) /\ ~IsShoot(f, s[i])
  BY <1>2, <1>4 DEF Range
<1>7. ButtonsOnce(KeysOf(f.nodes))
  BY FileKeys
<1>8. ButtonsOnce(KeysOf(s))
  BY <1>1, <1>4, <1>5, <1>7, ButtonsPlaces
<1> QED BY <1>4, <1>5, <1>6, <1>8 DEF s, R

\* The click that becomes the fire icon
LEMMA LastShoot ==
  ASSUME NEW f, FileOK(f), Those(f.nodes, Shoots(f)) # <<>>
  PROVE  LET e == Last(Those(f.nodes, Shoots(f)))
         IN e \in Shoots(f) /\ e \in Range(f.nodes) /\ ControlOK(e) /\ IsShoot(f, e)
<1> DEFINE w == Those(f.nodes, Shoots(f))
<1>1. IsSeq(f.nodes) /\ f.nodes \in Seq(Range(f.nodes)) /\ \A x \in Range(f.nodes) : ControlOK(x)
  BY DEF FileOK, IsSeq, Range
<1>2. w \in Seq(Range(f.nodes) \cap Shoots(f))
  BY <1>1, ThoseType
<1>3. Len(w) \in Nat \ {0}
  BY <1>2, EmptySeq
<1>4. w[Len(w)] \in Range(f.nodes) \cap Shoots(f)
  <2>1. Len(w) \in 1..Len(w)
    BY <1>3
  <2> QED BY <1>2, <2>1, ElementOfSeq
<1>5. Last(w) = w[Len(w)]
  BY DEF Last
<1> QED BY <1>1, <1>4, <1>5 DEF Shoots

\* What is read of a file is a scheme.
LEMMA ReadNodes ==
  ASSUME NEW f, FileOK(f) PROVE NodesOK(FromJson(f).nodes) /\ ReadForm(FromJson(f).nodes)
<1> DEFINE s == Those(f.nodes, Range(f.nodes) \ Shoots(f))
           w == Those(f.nodes, Shoots(f))
<1>1. FromJson(f).nodes = s \o LookFromJson(f)
  BY DEF FromJson
<1>2. /\ IsSeq(s) /\ Range(s) \subseteq Range(f.nodes) \ Shoots(f)
      /\ \A i \in DOMAIN s : ControlOK(s[i]) /\ ~IsLook(s[i]) /\ ~IsShoot(f, s[i])
      /\ ButtonsOnce(KeysOf(s))
  BY Others
<1>3. PICK g : Places(g, s, f.nodes)
  BY Others
<1>4. LookFromJson(f) =
        IF f.look = NoLook THEN <<>>
        ELSE IF w = <<>>
        THEN <<Node("freeLook", <<None>> \o <<f.look.eyes, f.look.suspend>>,
                    f.look.at, FireSpot, f.look.speed)>>
        ELSE <<Node("aimPanShoot", Last(w).keys \o <<f.look.eyes, f.look.suspend>>,
                    f.look.at, Last(w).at, f.look.speed)>>
  BY DEF LookFromJson
<1>5. w # <<>> => Last(w) \in Shoots(f) /\ Last(w) \in Range(f.nodes) /\ ControlOK(Last(w)) /\ IsShoot(f, Last(w))
  BY LastShoot
<1> HIDE DEF s, w
<1>6. CASE f.look = NoLook
  <2>1. FromJson(f).nodes = s
    BY <1>1, <1>2, <1>4, <1>6, WithoutNothing
  <2>2. Unambiguous(s)
    BY <1>2, UnambiguousWithout
  <2> QED BY <1>2, <2>1, <2>2 DEF NodesOK, ReadForm
<1>7. ASSUME f.look # NoLook,
             NEW k, NEW l,
             FromJson(f).nodes = s \o <<l>>,
             IsLook(l), l.to # None,
             l = Node(l.act, <<k, f.look.eyes, f.look.suspend>>, f.look.at, l.to, f.look.speed),
             l.act = "aimPanShoot" => k # None /\ (k \in Mouse \/ l.to = l.at),
             l.act = "freeLook" => k = None /\ l.to = FireSpot,
             k \in Mouse => \A i \in DOMAIN s : \A t \in DOMAIN s[i].keys : s[i].keys[t] # k,
             k \in Mouse => k \notin {f.look.eyes, f.look.suspend}
      PROVE  NodesOK(FromJson(f).nodes) /\ ReadForm(FromJson(f).nodes)
  <2>1. /\ l.keys = <<k, f.look.eyes, f.look.suspend>> /\ l.at = f.look.at
        /\ l = Node(l.act, l.keys, l.at, l.to, l.speed)
    BY <1>7 DEF Node
  <2>2. /\ DOMAIN l.keys = {1, 2, 3} /\ l.keys[1] = k /\ l.keys[2] = f.look.eyes /\ l.keys[3] = f.look.suspend
        /\ l.keys = <<l.keys[1], l.keys[2], l.keys[3]>>
    <3> DEFINE ks == <<k, f.look.eyes, f.look.suspend>>
    <3>1. DOMAIN ks = {1, 2, 3} /\ ks[1] = k /\ ks[2] = f.look.eyes /\ ks[3] = f.look.suspend
      OBVIOUS
    <3> QED BY <2>1, <3>1
  <2>3. f.look.at # None
    BY <1>7 DEF FileOK
  <2>4. ControlOK(l)
    BY <1>7, <2>1, <2>2, <2>3 DEF ControlOK, IsLook
  <2>5. \A i \in DOMAIN s : /\ i \in 1..Len(s) /\ g[i] \in DOMAIN f.nodes /\ s[i] = f.nodes[g[i]]
    <3>1. DOMAIN s = 1..Len(s) /\ DOMAIN f.nodes = 1..Len(f.nodes)
      BY <1>2, SeqIs DEF FileOK
    <3> QED BY <1>3, <3>1 DEF Places
  <2>6. \A i \in DOMAIN s : \A t \in DOMAIN s[i].keys :
          s[i].keys[t] \in Mouse => s[i].keys[t] \notin {f.look.eyes, f.look.suspend}
    BY <2>5, FileKeys
  <2>7. f.look.eyes \in Mouse => f.look.eyes # f.look.suspend
    BY FileKeys
  <2>8. ButtonsOnce(Append(KeysOf(s), l.keys))
    <3>1. /\ IsSeq(KeysOf(s)) /\ DOMAIN KeysOf(s) = DOMAIN s /\ \A i \in DOMAIN s : KeysOf(s)[i] = s[i].keys
      BY <1>2, KeysOfIs, SeqIs
    <3>2. \A i \in DOMAIN KeysOf(s) : \A t \in DOMAIN KeysOf(s)[i], u \in DOMAIN l.keys :
            KeysOf(s)[i][t] \in Mouse => KeysOf(s)[i][t] # l.keys[u]
      BY <1>7, <2>2, <2>6, <3>1
    <3>3. \A t, u \in DOMAIN l.keys : l.keys[t] \in Mouse /\ l.keys[t] = l.keys[u] => t = u
      BY <1>7, <2>2, <2>7
    <3> QED BY <1>2, <3>1, <3>2, <3>3, ButtonsLast
  <2> DEFINE r == s \o <<l>>
             n == Len(s) + 1
  <2>9. Unambiguous(r)
    BY <1>2, <2>8, UnambiguousLast
  <2>10. /\ IsSeq(r) /\ Len(r) = n /\ Len(s) \in Nat /\ DOMAIN r = 1..n
         /\ \A i \in 1..Len(s) : r[i] = s[i]
         /\ r[n] = l
         /\ DOMAIN s = 1..Len(s)
    BY <1>2, AtEnd, SeqIs
  <2> HIDE DEF r
  <2>11. \A i \in DOMAIN r : i = n \/ (i \in DOMAIN s /\ r[i] = s[i])
    BY <2>10
  <2>12. NodesOK(r)
    BY <1>2, <2>4, <2>9, <2>10, <2>11 DEF NodesOK
  <2>13. \A i \in DOMAIN r : r[i].act = "tapSpot" => r[i].at # l.at
    <3>1. \A i \in DOMAIN s : s[i].act = "tapSpot" => s[i].at # f.look.at
      BY <1>2, <1>7 DEF IsShoot
    <3>2. l.act # "tapSpot"
      BY <1>7 DEF IsLook
    <3> QED BY <2>1, <2>10, <2>11, <3>1, <3>2
  <2>14. ReadForm(r)
    BY <1>2, <1>7, <2>2, <2>10, <2>11, <2>13 DEF ReadForm
  <2> QED BY <1>7, <2>12, <2>14 DEF r
<1>8. CASE f.look # NoLook /\ w = <<>>
  <2> DEFINE l == Node("freeLook", <<None, f.look.eyes, f.look.suspend>>, f.look.at, FireSpot, f.look.speed)
  <2>1. FromJson(f).nodes = s \o <<l>>
    BY <1>1, <1>4, <1>8, OneAndTwo
  <2>2. l.act = "freeLook" /\ l.to = FireSpot /\ l.to # None
    BY KeysAssumption DEF Node
  <2>3. l = Node(l.act, <<None, f.look.eyes, f.look.suspend>>, f.look.at, l.to, f.look.speed)
    BY <2>2
  <2>4. IsLook(l) /\ None \notin Mouse
    BY <2>2, KeysAssumption DEF IsLook
  <2> HIDE DEF l
  <2> QED BY <1>7, <1>8, <2>1, <2>2, <2>3, <2>4
<1>9. CASE f.look # NoLook /\ w # <<>>
  <2> DEFINE e == Last(w)
             k == e.keys[1]
             l == Node("aimPanShoot", <<k, f.look.eyes, f.look.suspend>>, f.look.at, e.at, f.look.speed)
  <2>1. e \in Shoots(f) /\ e \in Range(f.nodes) /\ ControlOK(e) /\ IsShoot(f, e) /\ e.act = "tapSpot"
    BY <1>5, <1>9 DEF IsShoot
  <2>2. e.keys = <<k>> /\ k # None
    <3>1. e.keys = <<k>>
      BY <2>1 DEF ControlOK
    <3>2. e.at = f.look.at => k # None
      BY <1>9, <2>1 DEF FileOK, KeylessFire, Range
    <3>3. e.at # f.look.at => k # None
      BY <2>1 DEF IsShoot
    <3> QED BY <3>1, <3>2, <3>3
  <2>3. FromJson(f).nodes = s \o <<l>>
    <3> HIDE DEF k, e
    <3>1. LookFromJson(f) = <<Node("aimPanShoot", e.keys \o <<f.look.eyes, f.look.suspend>>,
                                   f.look.at, e.at, f.look.speed)>>
      BY <1>4, <1>9 DEF e
    <3>2. e.keys \o <<f.look.eyes, f.look.suspend>> = <<k, f.look.eyes, f.look.suspend>>
      BY <2>2, OneAndTwo
    <3> QED BY <1>1, <3>1, <3>2
  <2> HIDE DEF e
  <2>4. l.act = "aimPanShoot" /\ l.to = e.at /\ l.at = f.look.at /\ e.at # None
    BY <2>1 DEF Node, ControlOK
  <2>5. l = Node(l.act, <<k, f.look.eyes, f.look.suspend>>, f.look.at, l.to, f.look.speed) /\ IsLook(l)
    BY <2>4 DEF IsLook
  <2>6. k \in Mouse \/ l.to = l.at
    BY <2>1, <2>4 DEF IsShoot, FileOK
  <2>7. PICK p \in DOMAIN f.nodes : e = f.nodes[p]
    BY <2>1 DEF Range
  <2>8. 1 \in DOMAIN f.nodes[p].keys /\ f.nodes[p].keys[1] = k
    <3>1. 1 \in DOMAIN <<k>>
      OBVIOUS
    <3> QED BY <2>2, <2>7, <3>1
  <2>9. k \in Mouse => k \notin {f.look.eyes, f.look.suspend}
    BY <2>7, <2>8, FileKeys
  <2>10. ASSUME k \in Mouse, NEW i \in DOMAIN s, NEW t \in DOMAIN s[i].keys PROVE s[i].keys[t] # k
    <3>1. /\ DOMAIN s = 1..Len(s) /\ DOMAIN f.nodes = 1..Len(f.nodes)
          /\ DOMAIN KeysOf(f.nodes) = DOMAIN f.nodes
          /\ \A j \in DOMAIN f.nodes : KeysOf(f.nodes)[j] = f.nodes[j].keys
      BY <1>2, SeqIs, KeysOfIs DEF FileOK
    <3>2. g[i] \in DOMAIN f.nodes /\ s[i] = f.nodes[g[i]]
      BY <1>3, <3>1 DEF Places
    <3>3. ButtonsOnce(KeysOf(f.nodes))
      BY FileKeys
    <3>4. SUFFICES ASSUME s[i].keys[t] = k PROVE FALSE
      OBVIOUS
    <3>5. g[i] = p
      BY <2>8, <2>10, <3>1, <3>2, <3>3, <3>4 DEF ButtonsOnce
    <3>6. s[i] = e
      BY <2>7, <3>2, <3>5
    <3> QED BY <1>2, <2>1, <3>6
  <2> HIDE DEF l, k
  <2>11. l.act = "aimPanShoot" => k # None /\ (k \in Mouse \/ l.to = l.at)
    BY <2>2, <2>6
  <2>12. l.act = "freeLook" => k = None /\ l.to = FireSpot
    BY <2>4
  <2>13. k \in Mouse => \A i \in DOMAIN s : \A t \in DOMAIN s[i].keys : s[i].keys[t] # k
    BY <2>10
  <2> QED BY <1>7, <1>9, <2>3, <2>4, <2>5, <2>9, <2>11, <2>12, <2>13
<1> QED BY <1>6, <1>8, <1>9

-----------------------------------------------------------------------------
(***************************************************************************)
(* Opening a scheme and saving it again.                                   *)
(***************************************************************************)
\* A file read and written again, unless a tap is right on its look anchor, is
\* the same but for the place of the fire icon's click, which goes last.
LEMMA ReopenedIs ==
  ASSUME NEW f, FileOK(f), ~OnAnchor(f)
  PROVE  \/ Reopened(f) = f
         \/ \E p \in DOMAIN f.nodes :
              /\ Reopened(f) = [f EXCEPT !.nodes = Those(f.nodes, Range(f.nodes) \ Shoots(f)) \o <<f.nodes[p]>>]
              /\ Shoots(f) = {f.nodes[p]}
              /\ f.nodes[p].keys = <<f.shoot>> /\ f.shoot \in Mouse
<1> DEFINE s == Those(f.nodes, Range(f.nodes) \ Shoots(f))
           w == Those(f.nodes, Shoots(f))
           again == Reopened(f)
           r == FromJson(f)
<1>1. /\ IsSeq(s) /\ \A i \in DOMAIN s : ControlOK(s[i]) /\ ~IsLook(s[i]) /\ ~IsShoot(f, s[i])
  BY Others
<1>2. /\ f = [switch |-> f.switch, lock |-> f.lock, shoot |-> f.shoot, look |-> f.look, nodes |-> f.nodes]
      /\ f.switch # None /\ f.lock # None
      /\ IsSeq(f.nodes) /\ f.nodes \in Seq(Range(f.nodes))
      /\ \A i \in DOMAIN f.nodes : ControlOK(f.nodes[i]) /\ ~IsLook(f.nodes[i])
  BY DEF FileOK, IsSeq
<1>3. r.modes.switch = f.switch /\ r.modes.lock = f.lock /\ r.nodes = s \o LookFromJson(f)
  BY DEF FromJson
<1> HIDE DEF r
<1>4. again = ToJson(r.modes, r.nodes)
  BY DEF Reopened, r
<1> HIDE DEF again
<1>5. /\ again = [switch |-> again.switch, lock |-> again.lock, shoot |-> again.shoot,
                  look |-> again.look, nodes |-> again.nodes]
      /\ again.switch = f.switch /\ again.lock = f.lock
      /\ again.shoot = ShootButton(r.nodes) /\ again.look = LookToJson(r.nodes)
      /\ again.nodes = NodesToJson(r.nodes)
  <2>1. r.modes.switch # None /\ r.modes.lock # None
    BY <1>2, <1>3
  <2>2. LET g == ToJson(r.modes, r.nodes)
        IN g = [switch |-> r.modes.switch, lock |-> r.modes.lock, shoot |-> ShootButton(r.nodes),
                look |-> LookToJson(r.nodes), nodes |-> NodesToJson(r.nodes)]
    BY <2>1 DEF ToJson
  <2>3. again = [switch |-> f.switch, lock |-> f.lock, shoot |-> ShootButton(r.nodes),
                 look |-> LookToJson(r.nodes), nodes |-> NodesToJson(r.nodes)]
    BY <1>3, <1>4, <2>2
  <2> QED BY <2>3
<1>6. CASE f.look = NoLook
  <2>1. Shoots(f) = {} /\ f.shoot = None
    BY <1>6 DEF Shoots, IsShoot, FileOK
  <2>2. s = f.nodes
    BY <1>2, <2>1, ThoseAll
  <2> HIDE DEF s
  <2>3. r.nodes = f.nodes
    BY <1>1, <1>3, <1>6, <2>2, WithoutNothing DEF LookFromJson
  <2>4. again.nodes = f.nodes /\ again.look = NoLook /\ again.shoot = None
    BY <1>2, <1>5, <2>3, NodesWritten, NoLookIn
  <2>5. again = f
    BY <1>2, <1>5, <1>6, <2>1, <2>4
  <2> QED BY <2>5 DEF again
<1>7. CASE f.look # NoLook /\ Shoots(f) = {}
  <2>1. w = <<>>
    BY <1>2, <1>7, ThoseNone
  <2>2. s = f.nodes
    BY <1>2, <1>7, ThoseAll
  <2>3. f.shoot = None
    <3>1. ASSUME f.shoot # None PROVE FALSE
      <4>1. PICK i \in DOMAIN f.nodes : f.nodes[i].act = "tapSpot" /\ f.nodes[i].keys[1] = f.shoot
        BY <3>1 DEF FileOK
      <4>2. f.nodes[i] \in Shoots(f)
        BY <1>7, <3>1, <4>1 DEF Shoots, IsShoot, Range
      <4> QED BY <1>7, <4>2
    <3> QED BY <3>1
  <2> DEFINE l == Node("freeLook", <<None, f.look.eyes, f.look.suspend>>, f.look.at, FireSpot, f.look.speed)
  <2>4. LookFromJson(f) = <<l>>
    BY <1>7, <2>1, OneAndTwo DEF LookFromJson
  <2>5. l.act = "freeLook" /\ IsLook(l) /\ l.at = f.look.at /\ l.speed = f.look.speed
        /\ l.keys[2] = f.look.eyes /\ l.keys[3] = f.look.suspend
    BY DEF Node, IsLook
  <2> HIDE DEF l, s, w
  <2>6. r.nodes = s \o <<l>>
    BY <1>3, <2>4
  <2>7. HasLook(r.nodes) /\ r.nodes[LookIndex(r.nodes)] = l
    BY <1>1, <2>5, <2>6, LookLast
  <2>8. again.nodes = f.nodes
    BY <1>1, <1>5, <2>2, <2>5, <2>6, NodesWrittenLast
  <2>9. again.shoot = None
    BY <1>5, <2>5, <2>7 DEF ShootButton
  <2>10. again.look = f.look
    BY <1>5, <1>7, <2>5, <2>7 DEF LookToJson, FileOK
  <2>11. again = f
    BY <1>2, <1>5, <2>3, <2>8, <2>9, <2>10
  <2> QED BY <2>11 DEF again
<1>8. CASE f.look # NoLook /\ Shoots(f) # {}
  <2>1. \A x \in Shoots(f) : x.act = "tapSpot" /\ x.keys[1] = f.shoot /\ f.shoot # None
    BY DEF Shoots, IsShoot, OnAnchor, Range
  <2>2. f.shoot \in Mouse
    BY <1>8, <2>1 DEF FileOK
  <2>3. PICK p \in DOMAIN f.nodes : f.nodes[p] \in Shoots(f)
    BY <1>8 DEF Shoots, Range
  <2>4. ASSUME NEW q \in DOMAIN f.nodes, f.nodes[q] \in Shoots(f) PROVE q = p
    <3>1. /\ DOMAIN KeysOf(f.nodes) = DOMAIN f.nodes
          /\ \A j \in DOMAIN f.nodes : KeysOf(f.nodes)[j] = f.nodes[j].keys
      BY <1>2, SeqIs, KeysOfIs
    <3>2. \A j \in DOMAIN f.nodes : f.nodes[j] \in Shoots(f) => 1 \in DOMAIN f.nodes[j].keys
      <4> SUFFICES ASSUME NEW j \in DOMAIN f.nodes, f.nodes[j] \in Shoots(f) PROVE 1 \in DOMAIN f.nodes[j].keys
        OBVIOUS
      <4>1. f.nodes[j].keys = <<f.nodes[j].keys[1]>>
        BY <1>2, <2>1 DEF ControlOK
      <4>2. 1 \in DOMAIN <<f.nodes[j].keys[1]>>
        OBVIOUS
      <4> QED BY <4>1, <4>2
    <3>3. ButtonsOnce(KeysOf(f.nodes))
      BY FileKeys
    <3> QED BY <2>1, <2>2, <2>3, <2>4, <3>1, <3>2, <3>3 DEF ButtonsOnce
  <2> DEFINE e == f.nodes[p]
  <2>5. Shoots(f) = {e}
    <3>1. \A x \in Shoots(f) : x = e
      BY <2>4 DEF Shoots, Range
    <3> QED BY <2>3, <3>1
  <2>6. e.keys = <<f.shoot>> /\ e.keys[1] = f.shoot /\ e = Node("tapSpot", <<f.shoot>>, e.at, FireSpot, 0)
    BY <1>2, <2>1, <2>3 DEF ControlOK
  <2>7. w = <<e>>
    <3>1. DOMAIN f.nodes = 1..Len(f.nodes)
      BY <1>2, SeqIs
    <3>2. /\ p \in 1..Len(f.nodes) /\ f.nodes[p] \in Shoots(f)
          /\ \A q \in 1..Len(f.nodes) : f.nodes[q] \in Shoots(f) => q = p
      BY <2>3, <2>4, <3>1
    <3> QED BY <1>2, <3>2, ThoseOnly
  <2> DEFINE l == Node("aimPanShoot", <<f.shoot, f.look.eyes, f.look.suspend>>, f.look.at, e.at, f.look.speed)
  <2> HIDE DEF e
  <2>8. LookFromJson(f) = <<l>>
    <3>1. Last(<<e>>) = e /\ <<e>> # <<>>
      BY DEF Last
    <3>2. e.keys \o <<f.look.eyes, f.look.suspend>> = <<f.shoot, f.look.eyes, f.look.suspend>>
      BY <2>6, OneAndTwo
    <3> QED BY <1>8, <2>7, <3>1, <3>2 DEF LookFromJson
  <2>9. l.act = "aimPanShoot" /\ IsLook(l) /\ l.at = f.look.at /\ l.speed = f.look.speed /\ l.to = e.at
        /\ l.keys[1] = f.shoot /\ l.keys[2] = f.look.eyes /\ l.keys[3] = f.look.suspend
    BY DEF Node, IsLook
  <2> HIDE DEF l, s, w
  <2>10. r.nodes = s \o <<l>>
    BY <1>3, <2>8
  <2>11. HasLook(r.nodes) /\ r.nodes[LookIndex(r.nodes)] = l
    BY <1>1, <2>9, <2>10, LookLast
  <2>12. ShootKey(l) = f.shoot
    BY <2>2, <2>9, KeysAssumption DEF ShootKey
  <2>13. NodeToJson(l) = e
    BY <2>6, <2>9, <2>12 DEF NodeToJson
  <2>14. again.nodes = s \o <<e>>
    BY <1>1, <1>5, <2>9, <2>10, <2>13, NodesWrittenLast
  <2>15. again.shoot = f.shoot
    BY <1>5, <2>2, <2>9, <2>11, <2>12 DEF ShootButton
  <2>16. again.look = f.look
    BY <1>5, <1>8, <2>9, <2>11 DEF LookToJson, FileOK
  <2>17. again = [f EXCEPT !.nodes = s \o <<e>>]
    BY <1>2, <1>5, <2>14, <2>15, <2>16
  <2> QED BY <2>2, <2>5, <2>6, <2>17 DEF again, e, s
<1> QED BY <1>6, <1>7, <1>8

\* What a key does in the engine, of the entries of a file
Drives(nodes, k) == GetKeyMapNode(Those(nodes, {e \in Range(nodes) : Usable(e)}), k)

\* It is the last usable entry with the key.
LEMMA DrivesIs ==
  ASSUME NEW nodes, IsSeq(nodes), NEW k
  PROVE  LET uses == Those(nodes, {e \in Range(nodes) : Usable(e) /\ k \in Range(e.keys)})
         IN Drives(nodes, k) = IF uses = <<>> THEN NoEntry ELSE Last(uses)
<1> DEFINE U == {e \in Range(nodes) : Usable(e)}
           km == Those(nodes, U)
           K == {e \in Range(km) : k \in Range(e.keys)}
           A == {e \in Range(nodes) : Usable(e) /\ k \in Range(e.keys)}
<1>1. nodes \in Seq(Range(nodes)) /\ \A i \in 1..Len(nodes) : nodes[i] \in Range(nodes)
  BY SeqIs
<1>2. km \in Seq(Range(nodes) \cap U) /\ IsSeq(km) /\ Range(km) \subseteq Range(nodes) \cap U
  <2> HIDE DEF U
  <2>1. km \in Seq(Range(nodes) \cap U)
    BY <1>1, ThoseType
  <2> QED BY <2>1, IsSeqOf
<1>3. Those(km, K) = Those(km, A)
  <2>1. \A i \in 1..Len(km) : km[i] \in Range(km) /\ km[i] \in Range(nodes) /\ km[i] \in U
    BY <1>2, SeqIs
  <2>2. \A i \in 1..Len(km) : km[i] \in K <=> km[i] \in A
    BY <2>1
  <2> HIDE DEF K, A, km
  <2> QED BY <1>2, <2>2, ThoseSame
<1>4. Those(km, A) = Those(nodes, U \cap A)
  <2> HIDE DEF U, A
  <2> QED BY <1>1, ThoseTwice
<1>5. U \cap A = A
  OBVIOUS
<1>6. Drives(nodes, k) = IF Those(km, K) = <<>> THEN NoEntry ELSE Last(Those(km, K))
  BY DEF Drives, GetKeyMapNode
<1> QED BY <1>3, <1>4, <1>5, <1>6

\* Moving the click of the fire icon to the end changes no key.
LEMMA DrivesSame ==
  ASSUME NEW f, FileOK(f), NEW p \in DOMAIN f.nodes, Shoots(f) = {f.nodes[p]},
         f.nodes[p].keys = <<f.shoot>>, f.shoot \in Mouse, NEW k
  PROVE  Drives(Those(f.nodes, Range(f.nodes) \ Shoots(f)) \o <<f.nodes[p]>>, k) = Drives(f.nodes, k)
<1> DEFINE N == f.nodes
           e == f.nodes[p]
           s == Those(N, Range(N) \ Shoots(f))
           t == s \o <<e>>
           A == {x \in Range(N) : Usable(x) /\ k \in Range(x.keys)}
           B == {x \in Range(t) : Usable(x) /\ k \in Range(x.keys)}
<1>1. IsSeq(N) /\ N \in Seq(Range(N)) /\ DOMAIN N = 1..Len(N) /\ e \in Range(N)
      /\ \A i \in 1..Len(N) : N[i] \in Range(N)
  BY SeqIs DEF FileOK, IsSeq
<1>2. IsSeq(s) /\ Range(s) \subseteq Range(N) \ {e}
  BY Others
<1>3. IsSeq(t) /\ Range(t) = Range(s) \cup {e}
  BY <1>2, AtEnd
<1>4. Those(t, B) = Those(t, A)
  <2>1. Range(t) \subseteq Range(N)
    BY <1>1, <1>2, <1>3
  <2>2. \A i \in 1..Len(t) : t[i] \in Range(t)
    BY <1>3, SeqIs
  <2>3. \A i \in 1..Len(t) : t[i] \in B <=> t[i] \in A
    BY <2>1, <2>2
  <2> HIDE DEF A, B, t
  <2> QED BY <1>3, <2>3, ThoseSame DEF IsSeq
<1>5. Those(s, A) = Those(N, (Range(N) \ {e}) \cap A)
  <2> HIDE DEF A
  <2> QED BY <1>1, ThoseTwice
<1>6. Those(t, A) = IF e \in A THEN Those(s, A) \o <<e>> ELSE Those(s, A)
  <2> HIDE DEF A, s
  <2>1. s \in Seq(Range(N))
    BY <1>2, SeqMonotonic DEF IsSeq
  <2> QED BY <1>1, <2>1, ThoseConcat
<1>7. CASE e \notin A
  <2>1. (Range(N) \ {e}) \cap A = A
    BY <1>7
  <2>2. Those(t, B) = Those(N, A)
    BY <1>4, <1>5, <1>6, <1>7, <2>1
  <2> HIDE DEF t, N
  <2> QED BY <1>1, <1>3, <2>2, DrivesIs DEF t, N
<1>8. CASE e \in A
  <2>1. Range(e.keys) = {f.shoot} /\ 1 \in DOMAIN e.keys /\ e.keys[1] = f.shoot
    <3>1. Range(<<f.shoot>>) = {f.shoot} /\ 1 \in DOMAIN <<f.shoot>> /\ <<f.shoot>>[1] = f.shoot
      BY DEF Range
    <3> QED BY <3>1
  <2>2. k = f.shoot
    BY <1>8, <2>1
  <2>3. ASSUME NEW q \in DOMAIN N, N[q] \in A PROVE q = p
    <3>1. PICK u \in DOMAIN N[q].keys : N[q].keys[u] = f.shoot
      BY <2>2, <2>3 DEF Range
    <3>2. ButtonsOnce(KeysOf(N)) /\ DOMAIN KeysOf(N) = DOMAIN N /\ \A j \in DOMAIN N : KeysOf(N)[j] = N[j].keys
      BY <1>1, FileKeys, KeysOfIs
    <3> QED BY <2>1, <3>1, <3>2 DEF ButtonsOnce
  <2>4. Those(N, A) = <<e>>
    <3>1. p \in 1..Len(N) /\ N[p] \in A /\ \A q \in 1..Len(N) : N[q] \in A => q = p
      BY <1>1, <1>8, <2>3
    <3> HIDE DEF A
    <3> QED BY <1>1, <3>1, ThoseOnly
  <2>5. (Range(N) \ {e}) \cap A = {}
    <3>1. \A x \in Range(N) : x \in A => x = e
      BY <2>3 DEF Range
    <3> QED BY <3>1
  <2>6. Those(N, {}) = <<>>
    BY <1>1, ThoseNone
  <2>7. <<>> \o <<e>> = <<e>>
    OBVIOUS
  <2>8. Those(t, B) = <<e>>
    BY <1>4, <1>5, <1>6, <1>8, <2>5, <2>6, <2>7
  <2>9. Those(t, B) = Those(N, A)
    BY <2>4, <2>8
  <2> HIDE DEF t, N
  <2> QED BY <1>1, <1>3, <2>9, DrivesIs DEF t, N
<1> QED BY <1>7, <1>8

\* A file read and written again means the same to the engine.
LEMMA SameMeaning ==
  ASSUME NEW f, FileOK(f), ~OnAnchor(f) PROVE Meaning(Reopened(f)) = Meaning(f)
<1>1. CASE Reopened(f) = f
  BY <1>1
<1>2. CASE Reopened(f) # f
  <2>1. PICK p \in DOMAIN f.nodes :
              /\ Reopened(f) = [f EXCEPT !.nodes = Those(f.nodes, Range(f.nodes) \ Shoots(f)) \o <<f.nodes[p]>>]
              /\ Shoots(f) = {f.nodes[p]}
              /\ f.nodes[p].keys = <<f.shoot>> /\ f.shoot \in Mouse
    BY <1>2, ReopenedIs
  <2> DEFINE t == Those(f.nodes, Range(f.nodes) \ Shoots(f)) \o <<f.nodes[p]>>
             g == Reopened(f)
  <2>2. \A k : Drives(t, k) = Drives(f.nodes, k)
    BY <2>1, DrivesSame
  <2>3. f = [switch |-> f.switch, lock |-> f.lock, shoot |-> f.shoot, look |-> f.look, nodes |-> f.nodes]
    BY DEF FileOK
  <2> HIDE DEF t
  <2>4. g = [switch |-> f.switch, lock |-> f.lock, shoot |-> f.shoot, look |-> f.look, nodes |-> t]
    BY <2>1, <2>3 DEF t
  <2> HIDE DEF g
  <2>5. g.switch = f.switch /\ g.lock = f.lock /\ g.shoot = f.shoot /\ g.look = f.look /\ g.nodes = t
    BY <2>4
  <2>6. ModeKeys(g) = ModeKeys(f) /\ (LookRefused(g) <=> LookRefused(f))
    BY <2>5 DEF ModeKeys, LookRefused
  <2>7. LoadKeyMap(g).look = LoadKeyMap(f).look
    BY <2>5, <2>6 DEF LoadKeyMap
  <2>8. \A k : GetKeyMapNode(LoadKeyMap(g).nodes, k) = GetKeyMapNode(LoadKeyMap(f).nodes, k)
    BY <2>2, <2>5, <2>6 DEF LoadKeyMap, Drives
  <2>9. Meaning(g) = Meaning(f)
    BY <2>5, <2>6, <2>7, <2>8 DEF Meaning
  <2> QED BY <2>9 DEF g
<1> QED BY <1>1, <1>2

-----------------------------------------------------------------------------
(***************************************************************************)
(* The editor's changes of a scheme.                                       *)
(***************************************************************************)
\* No controls at all
LEMMA EmptyScheme == NodesOK(<<>>) /\ ReadForm(<<>>)
<1>1. IsSeq(<<>>) /\ DOMAIN <<>> = {} /\ KeysOf(<<>>) = <<>>
  BY EmptyIs DEF KeysOf
<1>2. ButtonsOnce(KeysOf(<<>>))
  BY <1>1 DEF ButtonsOnce
<1> QED BY <1>1, <1>2 DEF NodesOK, ReadForm, Unambiguous

\* One control of a scheme changed, its action kept
LEMMA Replaced ==
  ASSUME NEW nodes, NodesOK(nodes), NEW i \in DOMAIN nodes, NEW m, ControlOK(m), m.act = nodes[i].act,
         NEW new, new = [nodes EXCEPT ![i] = m], ButtonsOnce(KeysOf(new))
  PROVE  /\ NodesOK(new) /\ Len(new) = Len(nodes) /\ DOMAIN new = DOMAIN nodes
         /\ \A j \in DOMAIN nodes : new[j] = IF j = i THEN m ELSE nodes[j]
<1> DEFINE X == Range(nodes) \cup {m}
<1>1. nodes \in Seq(X) /\ m \in X /\ DOMAIN nodes = 1..Len(nodes) /\ Len(nodes) \in Nat
  <2>1. nodes \in Seq(Range(nodes)) /\ Range(nodes) \subseteq X /\ DOMAIN nodes = 1..Len(nodes) /\ Len(nodes) \in Nat
    BY SeqIs DEF NodesOK
  <2> QED BY <2>1, SeqMonotonic
<1> HIDE DEF X
<1>2. new \in Seq(X) /\ Len(new) = Len(nodes)
  BY <1>1, ExceptSeq
<1>3. IsSeq(new) /\ DOMAIN new = DOMAIN nodes
  BY <1>2, IsSeqOf
<1>4. \A j \in DOMAIN nodes : new[j] = IF j = i THEN m ELSE nodes[j]
  OBVIOUS
<1>5. \A j \in DOMAIN nodes : IsLook(new[j]) <=> IsLook(nodes[j])
  BY <1>4 DEF IsLook
<1>6. Unambiguous(new)
  BY <1>3, <1>5 DEF NodesOK, Unambiguous
<1> QED BY <1>2, <1>3, <1>4, <1>6 DEF NodesOK

\* One control of a scheme changed, its keys kept
LEMMA SameKeys ==
  ASSUME NEW nodes, NodesOK(nodes), NEW i \in DOMAIN nodes, NEW m, ControlOK(m), m.act = nodes[i].act,
         m.keys = nodes[i].keys
  PROVE  LET new == [nodes EXCEPT ![i] = m]
         IN /\ NodesOK(new) /\ Len(new) = Len(nodes) /\ DOMAIN new = DOMAIN nodes
            /\ \A j \in DOMAIN nodes : new[j] = IF j = i THEN m ELSE nodes[j]
<1> DEFINE new == [nodes EXCEPT ![i] = m]
<1>1. KeysOf(new) = KeysOf(nodes)
  BY DEF KeysOf
<1>2. ButtonsOnce(KeysOf(new))
  BY <1>1 DEF NodesOK, Unambiguous
<1>3. \E n : n = new
  OBVIOUS
<1> HIDE DEF new
<1>4. new = [nodes EXCEPT ![i] = m]
  BY DEF new
<1> QED BY <1>2, <1>4, Replaced DEF new

\* MoveMarker: only the anchor changes.
LEMMA Moved ==
  ASSUME NEW nodes, NodesOK(nodes), NEW i \in DOMAIN nodes, NEW j \in DOMAIN nodes
  PROVE  NodesOK([nodes EXCEPT ![i].at = nodes[j].at])
<1> DEFINE m == [nodes[i] EXCEPT !.at = nodes[j].at]
<1>1. ControlOK(nodes[i]) /\ ControlOK(nodes[j])
  BY DEF NodesOK
<1>2. m = Node(nodes[i].act, nodes[i].keys, nodes[j].at, nodes[i].to, nodes[i].speed)
  BY <1>1 DEF ControlOK, Node
<1>3. [nodes EXCEPT ![i].at = nodes[j].at] = [nodes EXCEPT ![i] = m]
  OBVIOUS
<1> HIDE DEF m
<1>4. m.act = nodes[i].act /\ m.keys = nodes[i].keys /\ m.at = nodes[j].at /\ m.to = nodes[i].to /\ m.speed = nodes[i].speed
  BY <1>2 DEF Node
<1>5. ControlOK(m)
  BY <1>1, <1>2, <1>4 DEF ControlOK, IsLook
<1> QED BY <1>3, <1>4, <1>5, SameKeys

\* A slider: only the speed of the look control changes.
LEMMA Slid ==
  ASSUME NEW nodes, NodesOK(nodes), ReadForm(nodes), HasLook(nodes), NEW v
  PROVE  LET new == [nodes EXCEPT ![LookIndex(nodes)].speed = v] IN NodesOK(new) /\ ReadForm(new)
<1> DEFINE i == LookIndex(nodes)
           m == [nodes[i] EXCEPT !.speed = v]
           new == [nodes EXCEPT ![i].speed = v]
<1>1. i \in DOMAIN nodes /\ IsLook(nodes[i]) /\ ControlOK(nodes[i])
  BY LookIs DEF NodesOK
<1> HIDE DEF i
<1>2. m = Node(nodes[i].act, nodes[i].keys, nodes[i].at, nodes[i].to, v)
  BY <1>1 DEF ControlOK, Node
<1>3. new = [nodes EXCEPT ![i] = m]
  OBVIOUS
<1> HIDE DEF m, new
<1>4. m.act = nodes[i].act /\ m.keys = nodes[i].keys /\ m.at = nodes[i].at /\ m.to = nodes[i].to /\ m.speed = v
  BY <1>2 DEF Node
<1>5. ControlOK(m)
  BY <1>1, <1>2, <1>4 DEF ControlOK, IsLook
<1>6. /\ NodesOK(new) /\ Len(new) = Len(nodes) /\ DOMAIN new = DOMAIN nodes
      /\ \A j \in DOMAIN nodes : new[j] = IF j = i THEN m ELSE nodes[j]
  BY <1>1, <1>3, <1>4, <1>5, SameKeys
<1>7. \A j \in DOMAIN nodes : /\ new[j].act = nodes[j].act /\ new[j].keys = nodes[j].keys
                              /\ new[j].at = nodes[j].at /\ new[j].to = nodes[j].to
                              /\ IsLook(new[j]) <=> IsLook(nodes[j])
  BY <1>4, <1>6 DEF IsLook
<1>8. ReadForm(new)
  BY <1>6, <1>7 DEF ReadForm
<1> QED BY <1>6, <1>8 DEF new, i

\* EditAnswered: the keys are compared with those of every other control.
LEMMA Rekeyed ==
  ASSUME NEW nodes, NodesOK(nodes), NEW i \in DOMAIN nodes, NEW n, ControlOK(n), n.act = nodes[i].act,
         ButtonsOnce(Append([KeysOf(nodes) EXCEPT ![i] = <<>>], n.keys))
  PROVE  NodesOK([nodes EXCEPT ![i] = Node(nodes[i].act, n.keys, nodes[i].at, nodes[i].to, n.speed)])
<1> DEFINE m == Node(nodes[i].act, n.keys, nodes[i].at, nodes[i].to, n.speed)
           new == [nodes EXCEPT ![i] = m]
           B == [KeysOf(nodes) EXCEPT ![i] = <<>>]
<1>1. ControlOK(nodes[i]) /\ IsSeq(nodes) /\ DOMAIN nodes = 1..Len(nodes) /\ Len(nodes) \in Nat
  BY SeqIs DEF NodesOK
<1>2. m = Node(nodes[i].act, n.keys, nodes[i].at, nodes[i].to, n.speed)
  OBVIOUS
<1> HIDE DEF m
<1>3. m.act = nodes[i].act /\ m.keys = n.keys /\ m.at = nodes[i].at /\ m.to = nodes[i].to /\ m.speed = n.speed
  BY <1>2 DEF Node
<1>4. ControlOK(m)
  BY <1>1, <1>2, <1>3 DEF ControlOK, IsLook
<1>5. /\ IsSeq(B) /\ DOMAIN B = DOMAIN nodes /\ B[i] = <<>>
      /\ \A j \in DOMAIN nodes : j # i => B[j] = nodes[j].keys
  <2>1. /\ IsSeq(KeysOf(nodes)) /\ DOMAIN KeysOf(nodes) = DOMAIN nodes
        /\ \A j \in DOMAIN nodes : KeysOf(nodes)[j] = nodes[j].keys
        /\ Len(KeysOf(nodes)) = Len(nodes)
    BY <1>1, KeysOfIs
  <2>2. DOMAIN B = DOMAIN nodes /\ B[i] = <<>> /\ \A j \in DOMAIN nodes : j # i => B[j] = nodes[j].keys
    BY <2>1
  <2> DEFINE X == Range(KeysOf(nodes)) \cup {<<>>}
  <2>3. KeysOf(nodes) \in Seq(X) /\ <<>> \in X
    <3>1. KeysOf(nodes) \in Seq(Range(KeysOf(nodes))) /\ Range(KeysOf(nodes)) \subseteq X
      BY <2>1 DEF IsSeq
    <3> QED BY <3>1, SeqMonotonic
  <2> HIDE DEF X
  <2>4. B \in Seq(X)
    BY <1>1, <2>1, <2>3, ExceptSeq
  <2> QED BY <2>2, <2>4, IsSeqOf
<1> HIDE DEF B
<1>6. /\ ButtonsOnce(B)
      /\ \A j \in DOMAIN B : \A s \in DOMAIN B[j], t \in DOMAIN n.keys : B[j][s] \in Mouse => B[j][s] # n.keys[t]
      /\ \A s, t \in DOMAIN n.keys : n.keys[s] \in Mouse /\ n.keys[s] = n.keys[t] => s = t
  <2>1. ButtonsOnce(Append(B, n.keys))
    BY DEF B
  <2> QED BY <1>5, <2>1, ButtonsLast
<1>7. DOMAIN KeysOf(new) = DOMAIN nodes /\ \A j \in DOMAIN nodes : KeysOf(new)[j] = IF j = i THEN n.keys ELSE B[j]
  BY <1>3, <1>5 DEF KeysOf
<1> HIDE DEF new
<1>8. ButtonsOnce(KeysOf(new))
  <2> SUFFICES ASSUME NEW j \in DOMAIN nodes, NEW k \in DOMAIN nodes,
                      NEW s \in DOMAIN KeysOf(new)[j], NEW t \in DOMAIN KeysOf(new)[k],
                      KeysOf(new)[j][s] \in Mouse, KeysOf(new)[j][s] = KeysOf(new)[k][t]
               PROVE  j = k /\ s = t
    BY <1>7 DEF ButtonsOnce
  <2>1. CASE j = i /\ k = i
    BY <1>6, <1>7, <2>1
  <2>2. CASE j = i /\ k # i
    <3>1. /\ s \in DOMAIN n.keys /\ KeysOf(new)[j][s] = n.keys[s]
          /\ t \in DOMAIN B[k] /\ KeysOf(new)[k][t] = B[k][t] /\ k \in DOMAIN B
      BY <1>5, <1>7, <2>2
    <3> QED BY <1>6, <3>1
  <2>3. CASE j # i /\ k = i
    <3>1. /\ t \in DOMAIN n.keys /\ KeysOf(new)[k][t] = n.keys[t]
          /\ s \in DOMAIN B[j] /\ KeysOf(new)[j][s] = B[j][s] /\ j \in DOMAIN B
      BY <1>5, <1>7, <2>3
    <3> QED BY <1>6, <3>1
  <2>4. CASE j # i /\ k # i
    <3>1. /\ t \in DOMAIN B[k] /\ KeysOf(new)[k][t] = B[k][t] /\ k \in DOMAIN B
          /\ s \in DOMAIN B[j] /\ KeysOf(new)[j][s] = B[j][s] /\ j \in DOMAIN B
      BY <1>5, <1>7, <2>4
    <3> QED BY <1>6, <3>1 DEF ButtonsOnce
  <2> QED BY <2>1, <2>2, <2>3, <2>4
<1>9. new = [nodes EXCEPT ![i] = m]
  BY DEF new
<1>10. NodesOK(new)
  BY <1>3, <1>4, <1>8, <1>9, Replaced
<1> QED BY <1>10 DEF new, m

\* RemoveMarker
LEMMA Removed ==
  ASSUME NEW nodes, NodesOK(nodes), NEW i \in DOMAIN nodes PROVE NodesOK(RemoveAt(nodes, i))
<1> DEFINE X == Range(nodes)
           n == Len(nodes)
           a == SubSeq(nodes, 1, i - 1)
           b == SubSeq(nodes, i + 1, n)
           r == RemoveAt(nodes, i)
           g == [j \in 1..(n - 1) |-> IF j < i THEN j ELSE j + 1]
<1>1. nodes \in Seq(X) /\ n \in Nat /\ DOMAIN nodes = 1..n /\ i \in 1..n
      /\ \A j \in 1..n : nodes[j] \in X
  BY SeqIs DEF NodesOK
<1>2. r = a \o b
  BY DEF RemoveAt
<1> HIDE DEF X, n
<1>3. a \in Seq(X) /\ Len(a) = i - 1 /\ \A j \in 1..(i - 1) : a[j] = nodes[j]
  <2>1. \A j \in 1..(i - 1) : nodes[j] \in X
    BY <1>1
  <2>2. 1 \in Int /\ i - 1 \in Int /\ i \in Int
    BY <1>1
  <2>3. /\ a \in Seq(X) /\ Len(a) = IF 1 =< i - 1 THEN (i - 1) - 1 + 1 ELSE 0
        /\ \A j \in 1..((i - 1) - 1 + 1) : a[j] = nodes[1 + j - 1]
    BY <2>1, <2>2, SubSeqProperties
  <2>4. (i - 1) - 1 + 1 = i - 1 /\ \A j \in 1..(i - 1) : 1 + j - 1 = j
    BY <2>2
  <2>5. Len(a) = i - 1
    BY <1>1, <2>3
  <2> HIDE DEF a
  <2>6. \A j \in 1..(i - 1) : a[j] = nodes[j]
    BY <2>3, <2>4
  <2> QED BY <2>3, <2>5, <2>6
<1>4. b \in Seq(X) /\ Len(b) = n - i /\ \A j \in 1..(n - i) : b[j] = nodes[j + i]
  <2>1. \A j \in (i + 1)..n : nodes[j] \in X
    BY <1>1
  <2>2. i + 1 \in Int /\ n \in Int /\ i \in Int
    BY <1>1
  <2>3. /\ b \in Seq(X) /\ Len(b) = IF i + 1 =< n THEN n - (i + 1) + 1 ELSE 0
        /\ \A j \in 1..(n - (i + 1) + 1) : b[j] = nodes[(i + 1) + j - 1]
    BY <2>1, <2>2, SubSeqProperties
  <2>4. n - (i + 1) + 1 = n - i /\ \A j \in 1..(n - i) : (i + 1) + j - 1 = j + i
    BY <2>2
  <2>5. Len(b) = n - i
    BY <1>1, <2>3
  <2> HIDE DEF b
  <2>6. \A j \in 1..(n - i) : b[j] = nodes[j + i]
    BY <2>3, <2>4
  <2> QED BY <2>3, <2>5, <2>6
<1> HIDE DEF a, b, r
<1>5. /\ r \in Seq(X) /\ Len(r) = n - 1
      /\ \A j \in 1..(n - 1) : r[j] = IF j =< i - 1 THEN a[j] ELSE b[j - (i - 1)]
  <2>1. /\ r \in Seq(X) /\ Len(r) = Len(a) + Len(b)
        /\ \A j \in 1..(Len(a) + Len(b)) : r[j] = IF j =< Len(a) THEN a[j] ELSE b[j - Len(a)]
    BY <1>2, <1>3, <1>4, ConcatProperties
  <2>2. Len(a) + Len(b) = n - 1
    BY <1>1, <1>3, <1>4
  <2> QED BY <1>3, <2>1, <2>2
<1>6. ASSUME NEW j \in 1..(n - 1) PROVE g[j] \in 1..n /\ r[j] = nodes[g[j]]
  <2>1. CASE j < i
    <3>1. g[j] = j /\ j =< i - 1 /\ j \in 1..(i - 1) /\ j \in 1..n
      BY <1>1, <2>1
    <3> QED BY <1>3, <1>5, <3>1
  <2>2. CASE ~(j < i)
    <3>1. g[j] = j + 1 /\ ~(j =< i - 1) /\ j - (i - 1) \in 1..(n - i) /\ (j - (i - 1)) + i = j + 1 /\ j + 1 \in 1..n
      BY <1>1, <2>2
    <3> QED BY <1>4, <1>5, <3>1
  <2> QED BY <2>1, <2>2
<1>7. \A j, k \in 1..(n - 1) : j # k => g[j] # g[k]
  BY <1>1
<1>8. g \in [1..(n - 1) -> 1..n]
  BY <1>1
<1> HIDE DEF g
<1>9. Places(g, r, nodes) /\ IsSeq(r) /\ DOMAIN r = 1..(n - 1)
  BY <1>5, <1>6, <1>7, <1>8, IsSeqOf, LenProperties DEF Places, n
<1>10. ButtonsOnce(KeysOf(r))
  BY <1>9, ButtonsPlaces DEF NodesOK, Unambiguous
<1>11. \A j \in DOMAIN r : g[j] \in DOMAIN nodes /\ r[j] = nodes[g[j]]
  BY <1>1, <1>6, <1>9
<1>12. \A j, k \in DOMAIN r : IsLook(r[j]) /\ IsLook(r[k]) => j = k
  BY <1>7, <1>9, <1>11 DEF NodesOK, Unambiguous
<1>13. NodesOK(r)
  BY <1>9, <1>10, <1>11, <1>12 DEF NodesOK, Unambiguous
<1> QED BY <1>13 DEF r

\* AddAnswered
LEMMA Added ==
  ASSUME NEW nodes, NodesOK(nodes), NEW n, ControlOK(n), IsLook(n) => ~HasLook(nodes),
         ButtonsOnce(Append(KeysOf(nodes), n.keys))
  PROVE  NodesOK(nodes \o <<n>>)
<1> DEFINE r == nodes \o <<n>>
<1>1. IsSeq(nodes) /\ DOMAIN nodes = 1..Len(nodes)
  BY SeqIs DEF NodesOK
<1>2. /\ IsSeq(r) /\ Len(nodes) \in Nat /\ DOMAIN r = 1..(Len(nodes) + 1)
      /\ \A i \in 1..Len(nodes) : r[i] = nodes[i]
      /\ r[Len(nodes) + 1] = n
  BY <1>1, AtEnd
<1>3. Unambiguous(r)
  BY <1>1, UnambiguousLast DEF NodesOK, Unambiguous, HasLook
<1> HIDE DEF r
<1>4. \A i \in DOMAIN r : r[i] = n \/ (i \in DOMAIN nodes /\ r[i] = nodes[i])
  BY <1>1, <1>2
<1>5. NodesOK(r)
  BY <1>2, <1>3, <1>4 DEF NodesOK
<1> QED BY <1>5 DEF r

-----------------------------------------------------------------------------
(***************************************************************************)
(* The schemes of the state machine.                                       *)
(***************************************************************************)
\* The invariant: the store holds files, the panel and the editor hold schemes.
\* The panel's is, besides, as a file gives it, for a slider changes only its
\* speed; a dialog that waits compares with the controls there still are.
StoreOK(st) == \A a \in Apps, n \in Names : st[a][n] # NoFile => FileOK(st[a][n])

PanelOK(p) ==
  /\ NodesOK(p.nodes) /\ ReadForm(p.nodes)
  /\ p.modes = [switch |-> p.modes.switch, lock |-> p.modes.lock]
  /\ p.modes.switch # None /\ p.modes.lock # None

\* A control is compared with the others when its dialog opens.
DialogOK(d, nodes) ==
  /\ d.kind = "add" =>
       \/ nodes = <<>>
       \/ /\ d.others = KeysOf(nodes)
          /\ d.act \in {"freeLook", "aimPanShoot"} => ~HasLook(nodes)
  /\ d.kind = "edit" =>
       /\ "at" \in DOMAIN d
       /\ \/ d.at = 0
          \/ /\ d.at \in DOMAIN nodes /\ d.act = nodes[d.at].act
             /\ d.others = [KeysOf(nodes) EXCEPT ![d.at] = <<>>]

\* The dialogs that may be open on another page than the editor's.
Answering(d) == d.kind \in {"none", "edit"}

\* The scheme the combo shows is one there is.
EditorOK(e, d, pg, names) ==
  /\ {"pick", "nodes"} \subseteq DOMAIN e
  /\ NodesOK(e.nodes)
  /\ e.pick = NoName \/ e.pick \in names
  /\ pg = "none" => e.pick = NoName
  /\ Answering(d) \/ pg = "editor"
  /\ DialogOK(d, e.nodes)

SchemesInv ==
  /\ StoreOK(store)
  /\ PanelOK(panel)
  /\ EditorOK(editor, dialog, page, ListProfiles(store, panel.app))

\* No dialog asks for the keys of a control.
LEMMA NoDialogIs == NoDialog.kind = "none" /\ Answering(NoDialog) /\ \A nodes : DialogOK(NoDialog, nodes)
BY DEF NoDialog, Answering, DialogOK

\* Any other dialog does not look at the controls.
LEMMA OtherDialog ==
  ASSUME NEW d, d.kind \notin {"add", "edit"} PROVE \A nodes : DialogOK(d, nodes)
BY DEF DialogOK

\* What is read of a stored scheme
LEMMA StoredIs ==
  ASSUME NEW st, StoreOK(st), NEW a \in Apps, NEW n \in ListProfiles(st, a)
  PROVE  /\ FileOK(st[a][n]) /\ n \in Names /\ n # NoName
         /\ NodesOK(FromJson(st[a][n]).nodes) /\ ReadForm(FromJson(st[a][n]).nodes)
         /\ FromJson(st[a][n]).modes = [switch |-> st[a][n].switch, lock |-> st[a][n].lock]
         /\ st[a][n].switch # None /\ st[a][n].lock # None
<1>1. n \in Names /\ st[a][n] # NoFile /\ n # NoName
  BY NameOfProfile DEF ListProfiles
<1>2. FileOK(st[a][n])
  BY <1>1 DEF StoreOK
<1>3. FromJson(st[a][n]).modes = [switch |-> st[a][n].switch, lock |-> st[a][n].lock]
  BY DEF FromJson
<1>4. st[a][n].switch # None /\ st[a][n].lock # None
  BY <1>2 DEF FileOK
<1> QED BY <1>1, <1>2, <1>3, <1>4, ReadNodes

\* loadActiveScheme() and reloadSchemeList()
LEMMA PanelIs ==
  ASSUME NEW st, StoreOK(st), NEW a \in Apps, NEW n, n = NoName \/ n \in ListProfiles(st, a)
  PROVE  PanelOK(PanelWith(st, a, n))
<1> DEFINE p == PanelWith(st, a, n)
<1>1. CASE n = NoName
  <2>1. p.nodes = <<>> /\ p.modes = DefaultModes
    BY <1>1 DEF PanelWith
  <2>2. /\ DefaultModes = [switch |-> DefaultModes.switch, lock |-> DefaultModes.lock]
        /\ DefaultModes.switch # None /\ DefaultModes.lock # None
    BY KeysAssumption DEF DefaultModes
  <2> QED BY <2>1, <2>2, EmptyScheme DEF PanelOK
<1>2. CASE n # NoName
  <2> DEFINE r == FromJson(st[a][n])
             f == st[a][n]
  <2>1. p.nodes = r.nodes /\ p.modes = r.modes
    BY <1>2 DEF PanelWith
  <2>2. NodesOK(r.nodes) /\ ReadForm(r.nodes) /\ r.modes = [switch |-> f.switch, lock |-> f.lock]
        /\ f.switch # None /\ f.lock # None
    BY <1>2, StoredIs
  <2> HIDE DEF r, p, f
  <2>3. p.modes.switch = f.switch /\ p.modes.lock = f.lock
    BY <2>1, <2>2
  <2>4. PanelOK(p)
    BY <2>1, <2>2, <2>3 DEF PanelOK
  <2> QED BY <2>4 DEF p
<1> QED BY <1>1, <1>2

\* reloadSchemeList()
LEMMA ReloadIs ==
  ASSUME NEW st, StoreOK(st), NEW a \in Apps, NEW before
  PROVE  PanelOK(ReloadSchemeList(st, a, before)) /\ ReloadSchemeList(st, a, before).app = a
<1> DEFINE names == ListProfiles(st, a)
           n == IF names = {} THEN NoName ELSE IF before \in names THEN before ELSE Min(names)
<1>1. names \in SUBSET Nat
  BY SchemesAssumption DEF ListProfiles, Names
<1>2. n = NoName \/ n \in names
  BY <1>1, MinIsMember
<1>3. ReloadSchemeList(st, a, before) = PanelWith(st, a, n)
  BY DEF ReloadSchemeList
<1> HIDE DEF n
<1>4. PanelWith(st, a, n).app = a
  BY DEF PanelWith
<1> QED BY <1>2, <1>3, <1>4, PanelIs

\* A file written, and a file deleted
LEMMA SavedIs ==
  ASSUME store = StoreOf(store), StoreOK(store), NEW a \in Apps, NEW n \in Names,
         NEW modes, NEW nodes, NodesOK(nodes), ~KeylessFire(ToJson(modes, nodes))
  PROVE  LET new == Saved(a, n, modes, nodes)
         IN /\ new = StoreOf(new) /\ StoreOK(new)
            /\ ListProfiles(new, a) = ListProfiles(store, a) \cup {n}
<1> DEFINE new == Saved(a, n, modes, nodes)
           f == ToJson(modes, nodes)
<1>1. FileOK(f) /\ f # NoFile
  BY WriteFile, Written
<1> HIDE DEF f
<1>2. new = StoreOf(new)
  BY DEF StoreOf, Saved
<1>3. \A b \in Apps, m \in Names : new[b][m] = IF b = a /\ m = n THEN f ELSE store[b][m]
  BY DEF StoreOf, Saved, f
<1> HIDE DEF new
<1>4. StoreOK(new)
  BY <1>1, <1>3 DEF StoreOK
<1>5. ListProfiles(new, a) = ListProfiles(store, a) \cup {n}
  BY <1>1, <1>3 DEF ListProfiles
<1> QED BY <1>2, <1>4, <1>5 DEF new

LEMMA DeletedIs ==
  ASSUME NEW st, st = StoreOf(st), StoreOK(st), NEW a \in Apps, NEW m
  PROVE  /\ Deleted(st, a, m) = StoreOf(Deleted(st, a, m)) /\ StoreOK(Deleted(st, a, m))
         /\ \A n \in Names : n # m => Deleted(st, a, m)[a][n] = st[a][n]
<1>1. CASE m = NoName
  BY <1>1 DEF Deleted
<1>2. CASE m # NoName
  <2> DEFINE new == [st EXCEPT ![a][m] = NoFile]
  <2>1. Deleted(st, a, m) = new
    BY <1>2 DEF Deleted
  <2>2. new = StoreOf(new)
    BY StoreChanges
  <2>3. \A b \in Apps, n \in Names : new[b][n] = IF b = a /\ n = m THEN NoFile ELSE st[b][n]
    BY DEF StoreOf
  <2> HIDE DEF new
  <2>4. StoreOK(new)
    BY <2>3 DEF StoreOK
  <2> QED BY <2>1, <2>2, <2>3, <2>4
<1> QED BY <1>1, <1>2

\* onProfileChanged()
LEMMA ProfileIs ==
  ASSUME NEW st, StoreOK(st), panel.app \in Apps, NEW n, n = NoName \/ n \in ListProfiles(st, panel.app)
  PROVE  LET e == ProfileChanged(st, n)
         IN {"pick", "nodes"} \subseteq DOMAIN e /\ NodesOK(e.nodes) /\ e.pick = n
<1>1. CASE n = NoName
  BY <1>1, EmptyScheme DEF ProfileChanged, Blank
<1>2. CASE n # NoName
  <2> DEFINE r == FromJson(st[panel.app][n])
             e == ProfileChanged(st, n)
  <2>1. NodesOK(r.nodes)
    BY <1>2, StoredIs
  <2>2. e = [pick |-> n, name |-> n, nodes |-> Markers(r.nodes), modes |-> r.modes, dirty |-> FALSE]
    BY <1>2 DEF ProfileChanged
  <2>3. NodesOK(Markers(r.nodes))
    BY <2>1, EmptyScheme DEF Markers
  <2> HIDE DEF r, e
  <2>4. {"pick", "nodes"} \subseteq DOMAIN e /\ NodesOK(e.nodes) /\ e.pick = n
    BY <2>2, <2>3
  <2> QED BY <2>4 DEF e
<1> QED BY <1>1, <1>2

\* The reload that ends every change of the store and every change of app
LEMMA ShowKeeps ==
  ASSUME NEW st, StoreOK(st), NEW a \in Apps, NEW before, ShowScheme(st, a, before)
  PROVE  PanelOK(panel') /\ panel'.app = a
BY ReloadIs DEF ShowScheme

\* A button that changed the store: the editor shows the scheme n, or none.
LEMMA ChangedKeeps ==
  ASSUME ShownInv, NEW st, StoreOK(st), Changed(st), page = "editor",
         NEW n, n = NoName \/ n \in ListProfiles(st, panel.app),
         editor' = ProfileChanged(st, n) \/ (n = NoName /\ editor' = BackToBlank(editor))
  PROVE  SchemesInv'
<1>1. panel.app \in Apps
  BY DEF ShownInv, Shown
<1>2. store' = st /\ ShowScheme(st, panel.app, panel.scheme) /\ page' = "editor" /\ dialog' = NoDialog
  BY DEF Changed, OnEditorProfilesChanged, SamePhone
<1>3. PanelOK(panel') /\ panel'.app = panel.app
  BY <1>1, <1>2, ShowKeeps
<1>4. {"pick", "nodes"} \subseteq DOMAIN editor' /\ NodesOK(editor'.nodes) /\ editor'.pick = n
  <2>1. CASE editor' = ProfileChanged(st, n)
    BY <1>1, <2>1, ProfileIs
  <2>2. CASE n = NoName /\ editor' = BackToBlank(editor)
    <3>1. /\ {"pick", "nodes"} \subseteq DOMAIN BackToBlank(editor)
          /\ BackToBlank(editor).pick = NoName /\ BackToBlank(editor).nodes = <<>>
      BY DEF BackToBlank, Blank
    <3> QED BY <2>2, <3>1, EmptyScheme
  <2> QED BY <2>1, <2>2
<1>5. EditorOK(editor', dialog', page', ListProfiles(store', panel'.app))
  BY <1>2, <1>3, <1>4, NoDialogIs DEF EditorOK
<1> QED BY <1>2, <1>3, <1>5 DEF SchemesInv

\* A handler of neither the store, nor the panel's scheme, nor the editor
LEMMA SchemesKept ==
  ASSUME SchemesInv, UNCHANGED <<store, panel, editor, dialog, page>> PROVE SchemesInv'
BY DEF SchemesInv

\* A handler of the editor that leaves the store alone
LEMMA EditorKeeps ==
  ASSUME SchemesInv, UNCHANGED <<store, panel>>,
         EditorOK(editor', dialog', page', ListProfiles(store, panel.app))
  PROVE  SchemesInv'
BY DEF SchemesInv

\* The fields of the editor a handler leaves alone
LEMMA EditorIs ==
  ASSUME SchemesInv
  PROVE  /\ {"pick", "nodes"} \subseteq DOMAIN editor /\ NodesOK(editor.nodes)
         /\ editor.pick = NoName \/ editor.pick \in ListProfiles(store, panel.app)
         /\ page = "none" => editor.pick = NoName
         /\ Answering(dialog) \/ page = "editor"
         /\ DialogOK(dialog, editor.nodes)
BY DEF SchemesInv, EditorOK

\* The controls are changed when no dialog is open, or by the answer to one.
LEMMA NodesChanged ==
  ASSUME SchemesInv, UNCHANGED <<store, panel, page>>, dialog' = NoDialog,
         {"pick", "nodes"} \subseteq DOMAIN editor', editor'.pick = editor.pick, NodesOK(editor'.nodes)
  PROVE  SchemesInv'
<1>1. EditorOK(editor', dialog', page', ListProfiles(store, panel.app))
  BY EditorIs, NoDialogIs DEF EditorOK
<1> QED BY <1>1, EditorKeeps

\* captureValidNode() of a new control, and of a changed one
LEMMA AddSchemes ==
  ASSUME SchemesInv, NEW n, ControlOK(n), AddAnswered(n) PROVE SchemesInv'
<1> DEFINE nodes == editor.nodes
<1>1. /\ dialog.kind = "add" /\ n.act = dialog.act /\ ValidateNodeKeys(n, dialog.others)
      /\ editor' = [editor EXCEPT !.nodes = nodes \o Markers(<<n>>), !.dirty = TRUE]
      /\ dialog' = NoDialog /\ UNCHANGED <<store, panel, page>>
  BY DEF AddAnswered, Edited, NotEditor
<1>2. NodesOK(nodes) /\ {"pick", "nodes"} \subseteq DOMAIN editor /\ DialogOK(dialog, nodes)
  BY EditorIs
<1>3. /\ editor'.nodes = nodes \o Markers(<<n>>) /\ editor'.pick = editor.pick
      /\ {"pick", "nodes"} \subseteq DOMAIN editor'
  BY <1>1, <1>2
<1>4. /\ ButtonsOnce(Append(dialog.others, n.keys))
      /\ \A s, t \in DOMAIN n.keys : n.keys[s] \in Mouse /\ n.keys[s] = n.keys[t] => s = t
  BY <1>1, KeysAssumption DEF ValidateNodeKeys, KeysFit
<1> HIDE DEF nodes
<1>5. ButtonsOnce(Append(KeysOf(nodes), n.keys)) /\ (IsLook(n) => ~HasLook(nodes))
  <2>1. CASE nodes = <<>>
    <3>1. KeysOf(<<>>) = <<>> /\ ~HasLook(<<>>) /\ ButtonsOnce(<<>>) /\ IsSeq(<<>>) /\ DOMAIN <<>> = {}
      BY EmptyIs DEF KeysOf, HasLook, ButtonsOnce
    <3>2. ButtonsOnce(Append(<<>>, n.keys))
      BY <1>4, <3>1, ButtonsLast
    <3> QED BY <2>1, <3>1, <3>2
  <2>2. CASE nodes # <<>>
    BY <1>1, <1>2, <1>4, <2>2 DEF DialogOK, IsLook
  <2> QED BY <2>1, <2>2
<1>6. NodesOK(nodes \o Markers(<<n>>))
  <2>1. CASE Markers(<<n>>) = <<n>>
    BY <1>2, <1>5, <2>1, Added
  <2>2. CASE Markers(<<n>>) = <<>>
    BY <1>2, <2>2, WithoutNothing DEF NodesOK
  <2> QED BY <2>1, <2>2 DEF Markers
<1> QED BY <1>1, <1>3, <1>6, NodesChanged

LEMMA EditSchemes ==
  ASSUME SchemesInv, NEW n, ControlOK(n), EditAnswered(n) PROVE SchemesInv'
<1> DEFINE nodes == editor.nodes
           i == dialog.at
           m == Node(nodes[i].act, n.keys, nodes[i].at, nodes[i].to, n.speed)
<1>1. /\ dialog.kind = "edit" /\ n.act = dialog.act /\ ValidateNodeKeys(n, dialog.others)
      /\ editor' = IF i = 0 THEN [editor EXCEPT !.dirty = TRUE]
                   ELSE [editor EXCEPT !.dirty = TRUE, !.nodes[i] = m]
      /\ dialog' = NoDialog /\ UNCHANGED <<store, panel, page>>
  BY DEF EditAnswered, Edited, NotEditor
<1>2. NodesOK(nodes) /\ {"pick", "nodes"} \subseteq DOMAIN editor /\ DialogOK(dialog, nodes)
  BY EditorIs
<1>3. ButtonsOnce(Append(dialog.others, n.keys))
  BY <1>1 DEF ValidateNodeKeys
<1> HIDE DEF i, m
<1>4. CASE i = 0
  <2>1. editor'.nodes = nodes /\ editor'.pick = editor.pick /\ {"pick", "nodes"} \subseteq DOMAIN editor'
    BY <1>1, <1>2, <1>4
  <2> QED BY <1>1, <1>2, <2>1, NodesChanged
<1>5. CASE i # 0
  <2>1. /\ editor'.nodes = [nodes EXCEPT ![i] = m] /\ editor'.pick = editor.pick
        /\ {"pick", "nodes"} \subseteq DOMAIN editor'
    BY <1>1, <1>2, <1>5
  <2>2. i \in DOMAIN nodes /\ n.act = nodes[i].act /\ dialog.others = [KeysOf(nodes) EXCEPT ![i] = <<>>]
    BY <1>1, <1>2, <1>5 DEF DialogOK, i
  <2> HIDE DEF nodes
  <2>3. NodesOK([nodes EXCEPT ![i] = m])
    BY <1>2, <1>3, <2>2, Rekeyed DEF m
  <2> QED BY <1>1, <2>1, <2>3, NodesChanged
<1> QED BY <1>4, <1>5

\* A marker removed or moved
LEMMA MarkerSchemes ==
  ASSUME SchemesInv, NEW i, NEW j, RemoveMarker(i) \/ MoveMarker(i, j) PROVE SchemesInv'
<1> DEFINE nodes == editor.nodes
<1>1. NodesOK(nodes) /\ {"pick", "nodes"} \subseteq DOMAIN editor
  BY EditorIs
<1>2. CASE RemoveMarker(i)
  <2>1. /\ i \in DOMAIN nodes /\ dialog' = NoDialog /\ UNCHANGED <<store, panel, page>>
        /\ editor' = [editor EXCEPT !.nodes = RemoveAt(nodes, i), !.dirty = TRUE]
    BY <1>2 DEF RemoveMarker, OnMarkers, Edited, NotEditor
  <2>2. editor'.nodes = RemoveAt(nodes, i) /\ editor'.pick = editor.pick /\ {"pick", "nodes"} \subseteq DOMAIN editor'
    BY <1>1, <2>1
  <2> HIDE DEF nodes
  <2>3. NodesOK(RemoveAt(nodes, i))
    BY <1>1, <2>1, Removed
  <2> QED BY <2>1, <2>2, <2>3, NodesChanged
<1>3. CASE MoveMarker(i, j)
  <2>1. /\ i \in DOMAIN nodes /\ j \in DOMAIN nodes /\ dialog' = NoDialog /\ UNCHANGED <<store, panel, page>>
        /\ editor' = [editor EXCEPT !.nodes[i].at = nodes[j].at, !.dirty = TRUE]
    BY <1>3 DEF MoveMarker, OnMarkers, Edited, NotEditor
  <2>2. /\ editor'.nodes = [nodes EXCEPT ![i].at = nodes[j].at] /\ editor'.pick = editor.pick
        /\ {"pick", "nodes"} \subseteq DOMAIN editor'
    BY <1>1, <2>1
  <2> HIDE DEF nodes
  <2>3. NodesOK([nodes EXCEPT ![i].at = nodes[j].at])
    BY <1>1, <2>1, Moved
  <2> QED BY <2>1, <2>2, <2>3, NodesChanged
<1> QED BY <1>2, <1>3

\* The dialogs
LEMMA DialogSchemes ==
  ASSUME SchemesInv,
         \/ \E act : HandleControlDropped(act)
         \/ \E i : EditMarker(i)
         \/ \E k \in {"new", "rename", "duplicate", "save", "delete", "reset"} : Ask(k)
         \/ Cancel
  PROVE  SchemesInv'
<1>1. UNCHANGED <<store, panel, editor, page>>
  BY DEF HandleControlDropped, EditMarker, Ask, Cancel, OnlyEditor, NotEditor
<1>2. (Answering(dialog') \/ page = "editor") /\ DialogOK(dialog', editor.nodes)
  <2>1. CASE \E act : HandleControlDropped(act)
    <3>1. PICK act : HandleControlDropped(act)
      BY <2>1
    <3>2. /\ page = "editor" /\ dialog' = [kind |-> "add", act |-> act, others |-> KeysOf(editor.nodes)]
          /\ act \in {"freeLook", "aimPanShoot"} => ~HasLook(editor.nodes)
      BY <3>1 DEF HandleControlDropped, Editing
    <3>3. dialog'.kind = "add" /\ dialog'.act = act /\ dialog'.others = KeysOf(editor.nodes)
      BY <3>2
    <3> QED BY <3>2, <3>3 DEF DialogOK
  <2>2. CASE \E i : EditMarker(i)
    <3>1. PICK i : EditMarker(i)
      BY <2>2
    <3>2. /\ i \in DOMAIN editor.nodes
          /\ dialog' = [kind |-> "edit", at |-> i, act |-> editor.nodes[i].act,
                        keys |-> editor.nodes[i].keys,
                        others |-> [KeysOf(editor.nodes) EXCEPT ![i] = <<>>]]
      BY <3>1 DEF EditMarker, CollectOtherKeys
    <3>3. /\ dialog'.kind = "edit" /\ dialog'.at = i /\ dialog'.act = editor.nodes[i].act
          /\ dialog'.others = [KeysOf(editor.nodes) EXCEPT ![i] = <<>>] /\ "at" \in DOMAIN dialog'
      BY <3>2
    <3> QED BY <3>2, <3>3 DEF DialogOK, Answering
  <2>3. CASE \E k \in {"new", "rename", "duplicate", "save", "delete", "reset"} : Ask(k)
    <3>1. PICK k \in {"new", "rename", "duplicate", "save", "delete", "reset"} : Ask(k)
      BY <2>3
    <3>2. page = "editor" /\ dialog'.kind \notin {"add", "edit"}
      BY <3>1 DEF Ask, Editing
    <3> QED BY <3>2, OtherDialog
  <2>4. CASE Cancel
    BY <2>4, NoDialogIs DEF Cancel
  <2> QED BY <2>1, <2>2, <2>3, <2>4
<1>3. EditorOK(editor', dialog', page', ListProfiles(store, panel.app))
  BY <1>1, <1>2, EditorIs DEF EditorOK
<1> QED BY <1>1, <1>3, EditorKeeps

\* The file a change has left in the store is among those it looks at.
LEMMA NotKeyless ==
  ASSUME store = StoreOf(store), NEW a \in Apps, NEW n \in Names, NEW modes, NEW nodes, NEW m, m # n,
         store' \in {Saved(a, n, modes, nodes), Deleted(Saved(a, n, modes, nodes), a, m)},
         Change, ~keyless'
  PROVE  ~KeylessFire(ToJson(modes, nodes))
<1> DEFINE f == ToJson(modes, nodes)
           new == Saved(a, n, modes, nodes)
<1>1. new = StoreOf(new) /\ new[a][n] = f /\ store' \in {new, Deleted(new, a, m)}
  BY DEF StoreOf, Saved
<1> HIDE DEF new, f
<1>2. store'[a][n] = f
  <2>1. Deleted(new, a, m)[a][n] = f
    BY <1>1 DEF Deleted, StoreOf
  <2> QED BY <1>1, <2>1
<1>3. f \in Files'
  BY <1>2, Written DEF Files, f
<1> QED BY <1>3 DEF Change, f

\* A slider writes a file, and leaves the app's list of schemes as it was.
LEMMA SliderSchemes ==
  ASSUME ShownInv, SchemesInv, NEW v, NEW ok \in BOOLEAN, OnSensitivityChanged(v, ok), ~keyless'
  PROVE  /\ SchemesInv'
         /\ FromJson(ToJson(panel'.modes, panel'.nodes)) = [modes |-> panel'.modes, nodes |-> panel'.nodes]
<1> DEFINE a == panel.app
           n == panel.scheme
           nodes == panel.nodes
           new == [nodes EXCEPT ![LookIndex(nodes)].speed = v]
<1>1. /\ store = StoreOf(store) /\ a \in Apps
      /\ panel = [app |-> a, scheme |-> n, nodes |-> nodes, modes |-> panel.modes]
      /\ n = NoName => nodes = <<>>
      /\ n # NoName => n \in ListProfiles(store, a)
  BY DEF ShownInv, Shown
<1>2. /\ HasLook(nodes) /\ panel' = [panel EXCEPT !.nodes = new]
      /\ store' = IF ok THEN Saved(a, n, panel.modes, panel'.nodes) ELSE store
      /\ UNCHANGED <<editor, dialog, page>> /\ Change
  BY DEF OnSensitivityChanged
<1>3. n \in ListProfiles(store, a) /\ n # NoName /\ n \in Names
  <2>1. nodes # <<>>
    BY <1>2 DEF HasLook
  <2> QED BY <1>1, <2>1, NameOfProfile
<1>4. panel'.app = a /\ panel'.nodes = new /\ panel'.modes = panel.modes
  <2> HIDE DEF new
  <2>1. panel' = [app |-> a, scheme |-> n, nodes |-> new, modes |-> panel.modes]
    BY <1>1, <1>2
  <2> QED BY <2>1
<1>5. PanelOK(panel) /\ StoreOK(store) /\ EditorOK(editor, dialog, page, ListProfiles(store, a))
  BY DEF SchemesInv
<1> HIDE DEF nodes
<1>6. NodesOK(new) /\ ReadForm(new)
  BY <1>2, <1>5, Slid DEF PanelOK, nodes
<1> HIDE DEF new
<1>7. PanelOK(panel')
  BY <1>4, <1>5, <1>6 DEF PanelOK
<1>8. StoreOK(store') /\ ListProfiles(store', a) = ListProfiles(store, a)
  <2>1. CASE ok
    <3>1. store' = Saved(a, n, panel.modes, new)
      BY <1>2, <1>4, <2>1
    <3> HIDE DEF a, n
    <3>2. ~KeylessFire(ToJson(panel.modes, new))
      BY <1>1, <1>2, <1>3, <3>1, NotKeyless
    <3>3. LET st == Saved(a, n, panel.modes, new)
          IN StoreOK(st) /\ ListProfiles(st, a) = ListProfiles(store, a) \cup {n}
      BY <1>1, <1>3, <1>5, <1>6, <3>2, SavedIs
    <3> QED BY <1>3, <3>1, <3>3
  <2>2. CASE ~ok
    BY <1>2, <1>5, <2>2
  <2> QED BY <2>1, <2>2
<1>9. SchemesInv'
  <2>1. EditorOK(editor', dialog', page', ListProfiles(store', panel'.app))
    BY <1>2, <1>4, <1>5, <1>8
  <2> QED BY <1>7, <1>8, <2>1 DEF SchemesInv
<1>10. FromJson(ToJson(panel'.modes, panel'.nodes)) = [modes |-> panel'.modes, nodes |-> panel'.nodes]
  BY <1>7, ReadBack DEF PanelOK
<1> QED BY <1>9, <1>10

\* The buttons that write a file, and what is left of those that could not
LEMMA ButtonSchemes ==
  ASSUME ShownInv, SchemesInv, ~keyless', NEW n \in Names, NEW ok \in BOOLEAN,
         \/ NewProfile(n, ok) \/ OnRenameProfile(n, ok)
         \/ OnDuplicateProfile(n, ok) \/ OnSaveProfile(n, ok)
  PROVE  SchemesInv'
<1> DEFINE a == panel.app
<1>1. store = StoreOf(store) /\ a \in Apps /\ StoreOK(store)
  BY DEF ShownInv, Shown, SchemesInv
<1>2. page = "editor"
  <2>1. \/ dialog.kind \in {"new", "rename", "duplicate", "save"}
        \/ page = "editor"
    BY DEF NewProfile, OnRenameProfile, OnDuplicateProfile, OnSaveProfile, Editing
  <2> QED BY <2>1, EditorIs DEF Answering
<1>3. NodesOK(<<>>) /\ NodesOK(editor.nodes)
  BY EmptyScheme, EditorIs
<1>4. CASE ~ok
  <2>1. Failed(editor) \/ Failed([Blank EXCEPT !.pick = editor.pick, !.name = n, !.dirty = editor.dirty])
    BY <1>4 DEF NewProfile, OnRenameProfile, OnDuplicateProfile, OnSaveProfile
  <2>2. UNCHANGED <<store, panel, page>> /\ dialog' = NoDialog
    BY <2>1 DEF Failed
  <2>3. {"pick", "nodes"} \subseteq DOMAIN editor' /\ editor'.pick = editor.pick /\ NodesOK(editor'.nodes)
    <3>1. CASE Failed(editor)
      BY <3>1, EditorIs DEF Failed
    <3>2. CASE Failed([Blank EXCEPT !.pick = editor.pick, !.name = n, !.dirty = editor.dirty])
      <4>1. editor' = [Blank EXCEPT !.pick = editor.pick, !.name = n, !.dirty = editor.dirty]
        BY <3>2 DEF Failed
      <4>2. {"pick", "nodes"} \subseteq DOMAIN editor' /\ editor'.pick = editor.pick /\ editor'.nodes = <<>>
        BY <4>1 DEF Blank
      <4> QED BY <1>3, <4>2
    <3> QED BY <2>1, <3>1, <3>2
  <2> QED BY <2>2, <2>3, NodesChanged
<1>6. n # NoName
  BY SchemesAssumption DEF Names, NoName
<1>5. CASE ok
  <2>1. ASSUME NEW modes, NEW nodes, NodesOK(nodes), NEW m, m # n, NEW st, Changed(st),
               st \in {Saved(a, n, modes, nodes), Deleted(Saved(a, n, modes, nodes), a, m)}
        PROVE  /\ StoreOK(Saved(a, n, modes, nodes)) /\ n \in ListProfiles(Saved(a, n, modes, nodes), a)
               /\ Saved(a, n, modes, nodes) = StoreOf(Saved(a, n, modes, nodes))
    <3> HIDE DEF a
    <3>1. ~KeylessFire(ToJson(modes, nodes))
      BY <1>1, <2>1, NotKeyless DEF Changed
    <3> QED BY <1>1, <2>1, <3>1, SavedIs
  <2>2. CASE NewProfile(n, ok)
    <3>1. LET st == Saved(a, n, DefaultModes, <<>>) IN editor' = ProfileChanged(st, n) /\ Changed(st)
      BY <1>5, <2>2 DEF NewProfile
    <3>2. LET st == Saved(a, n, DefaultModes, <<>>) IN StoreOK(st) /\ n \in ListProfiles(st, a)
      BY <1>3, <1>6, <2>1, <3>1
    <3> QED BY <1>2, <3>1, <3>2, ChangedKeeps
  <2>3. CASE OnDuplicateProfile(n, ok) \/ OnSaveProfile(n, ok)
    <3> DEFINE st == Saved(a, n, editor.modes, editor.nodes)
    <3>1. editor' = ProfileChanged(st, n) /\ Changed(st)
      BY <1>5, <2>3 DEF OnDuplicateProfile, OnSaveProfile
    <3>2. st \in {Saved(a, n, editor.modes, editor.nodes),
                 Deleted(Saved(a, n, editor.modes, editor.nodes), a, NoName)}
      OBVIOUS
    <3> HIDE DEF st
    <3>3. StoreOK(Saved(a, n, editor.modes, editor.nodes))
          /\ n \in ListProfiles(Saved(a, n, editor.modes, editor.nodes), a)
      BY <1>3, <1>6, <2>1, <3>1, <3>2
    <3>4. StoreOK(st) /\ n \in ListProfiles(st, a)
      BY <3>3 DEF st
    <3> QED BY <1>2, <3>1, <3>4, ChangedKeeps
  <2>4. CASE OnRenameProfile(n, ok)
    <3> DEFINE new == Saved(a, n, editor.modes, editor.nodes)
               st == Deleted(new, a, editor.name)
    <3>1. editor' = ProfileChanged(st, n) /\ Changed(st) /\ n # editor.name
      BY <1>5, <2>4 DEF OnRenameProfile
    <3>2. StoreOK(new) /\ n \in ListProfiles(new, a) /\ new = StoreOf(new)
      BY <1>3, <2>1, <3>1
    <3> HIDE DEF new
    <3>3. StoreOK(st) /\ st[a][n] = new[a][n]
      BY <1>1, <3>1, <3>2, DeletedIs
    <3> HIDE DEF st
    <3>4. n \in ListProfiles(st, a)
      BY <3>2, <3>3 DEF ListProfiles
    <3> QED BY <1>2, <3>1, <3>3, <3>4, ChangedKeeps
  <2> QED BY <2>2, <2>3, <2>4
<1> QED BY <1>4, <1>5

\* The stored schemes are files, and the panel shows one of them or none.
LEMMA SchemesInit == Init => SchemesInv
<1> SUFFICES ASSUME Init PROVE SchemesInv
  OBVIOUS
<1>1. StoreOK(store)
  <2>1. PICK old \in [Apps -> Stored \cup {NoFile}] :
          store = [a \in Apps |-> [n \in Names |-> IF n = 1 THEN old[a] ELSE NoFile]]
    BY DEF Init
  <2> SUFFICES ASSUME NEW a \in Apps, NEW n \in Names, store[a][n] # NoFile PROVE FileOK(store[a][n])
    BY DEF StoreOK
  <2>2. store[a][n] \in Stored
    BY <2>1
  <2> QED BY <2>2, StoredAssumption
<1>2. PICK a \in Apps : panel = ReloadSchemeList(store, a, NoName)
  BY DEF Init, NewPanel
<1>3. PanelOK(panel)
  BY <1>1, <1>2, ReloadIs
<1>4. editor = Blank /\ dialog = NoDialog
  BY DEF Init
<1>5. {"pick", "nodes"} \subseteq DOMAIN Blank /\ Blank.pick = NoName /\ Blank.nodes = <<>>
  BY DEF Blank
<1>6. EditorOK(editor, dialog, page, ListProfiles(store, panel.app))
  BY <1>4, <1>5, EmptyScheme, NoDialogIs DEF EditorOK
<1> QED BY <1>1, <1>3, <1>6 DEF SchemesInv

\* Every handler leaves schemes on the screen, in the panel and in the store, until
\* a tap without a key is written on a look anchor.
LEMMA SchemesStep == ShownInv /\ SchemesInv /\ ~keyless' /\ [Next]_vars => SchemesInv'
<1> SUFFICES ASSUME ShownInv, SchemesInv, ~keyless', [Next]_vars PROVE SchemesInv'
  OBVIOUS
<1>0. /\ store = StoreOf(store) /\ panel.app \in Apps /\ StoreOK(store)
      /\ panel.scheme # NoName => panel.scheme \in ListProfiles(store, panel.app)
  BY DEF ShownInv, Shown, SchemesInv
<1> USE DEF OnlyEditor, Edited, NotEditor
<1>1. CASE OnMasterToggled \/ OnWindowActiveChanged \/ SwitchKey
  BY <1>1, SchemesKept DEF OnMasterToggled, OnWindowActiveChanged, SwitchKey
<1>2. ASSUME NEW n \in Names, OnSchemeChanged(n) PROVE SchemesInv'
  <2>1. /\ n \in ListProfiles(store, panel.app) /\ UNCHANGED <<store, editor, dialog, page>>
        /\ panel' = PanelWith(store, panel.app, n)
    BY <1>2 DEF OnSchemeChanged
  <2>2. panel'.app = panel.app
    BY <2>1 DEF PanelWith
  <2>3. PanelOK(panel')
    BY <1>0, <2>1, PanelIs
  <2> QED BY <2>1, <2>2, <2>3 DEF SchemesInv
<1>3. ASSUME NEW n, OnProfileChanged(n) PROVE SchemesInv'
  <2>1. /\ page = "editor" /\ dialog = NoDialog /\ UNCHANGED <<store, panel, page, dialog>>
        /\ n = NoName \/ n \in ListProfiles(store, panel.app)
        /\ editor' = ProfileChanged(store, n)
    BY <1>3 DEF OnProfileChanged, Editing
  <2>2. {"pick", "nodes"} \subseteq DOMAIN editor' /\ NodesOK(editor'.nodes) /\ editor'.pick = n
    BY <1>0, <2>1, ProfileIs
  <2>3. EditorOK(editor', dialog', page', ListProfiles(store, panel.app))
    BY <2>1, <2>2, NoDialogIs DEF EditorOK
  <2> QED BY <2>1, <2>3, EditorKeeps
<1>4. ASSUME NEW v \in Speeds, NEW ok \in BOOLEAN, OnSensitivityChanged(v, ok) PROVE SchemesInv'
  BY <1>4, SliderSchemes
<1>5. CASE OnOpenEditorClicked
  <2>1. /\ page' = "editor" /\ dialog' = NoDialog /\ UNCHANGED <<store, panel>>
        /\ \/ editor' = editor
           \/ panel.scheme # NoName /\ editor' = ProfileChanged(store, panel.scheme)
    BY <1>5 DEF OnOpenEditorClicked
  <2>2. /\ {"pick", "nodes"} \subseteq DOMAIN editor' /\ NodesOK(editor'.nodes)
        /\ editor'.pick = NoName \/ editor'.pick \in ListProfiles(store, panel.app)
    BY <1>0, <2>1, ProfileIs, EditorIs
  <2>3. EditorOK(editor', dialog', page', ListProfiles(store, panel.app))
    BY <2>1, <2>2, NoDialogIs DEF EditorOK
  <2> QED BY <2>1, <2>3, EditorKeeps
<1>6. CASE OnEditorClosed
  <2>1. page' = "panel" /\ dialog' = NoDialog /\ UNCHANGED <<store, panel, editor>>
    BY <1>6 DEF OnEditorClosed
  <2>2. EditorOK(editor', dialog', page', ListProfiles(store, panel.app))
    BY <2>1, EditorIs, NoDialogIs DEF EditorOK
  <2> QED BY <2>1, <2>2, EditorKeeps
<1>7. ASSUME NEW m \in ModeChoices, CaptureModes(m) PROVE SchemesInv'
  <2>1. /\ dialog' = NoDialog /\ UNCHANGED <<store, panel, page>>
        /\ editor' = [editor EXCEPT !.modes = m, !.dirty = TRUE]
    BY <1>7 DEF CaptureModes, Editing
  <2>2. {"pick", "nodes"} \subseteq DOMAIN editor' /\ editor'.pick = editor.pick /\ editor'.nodes = editor.nodes
    BY <2>1, EditorIs
  <2> QED BY <2>1, <2>2, EditorIs, NodesChanged
<1>8. ASSUME NEW n \in Controls, AddAnswered(n) \/ EditAnswered(n) PROVE SchemesInv'
  BY <1>8, AddSchemes, EditSchemes, ControlsAssumption
<1>9. ASSUME NEW n \in Controls, HandleControlDropped(n.act) PROVE SchemesInv'
  BY <1>9, DialogSchemes
<1>10. ASSUME NEW i \in 1..MaxControls, EditMarker(i) \/ RemoveMarker(i) PROVE SchemesInv'
  BY <1>10, DialogSchemes, MarkerSchemes
<1>11. ASSUME NEW i \in 1..MaxControls, NEW j \in 1..MaxControls, MoveMarker(i, j) PROVE SchemesInv'
  BY <1>11, MarkerSchemes
<1>12. ASSUME NEW k \in {"new", "rename", "duplicate", "save", "delete", "reset"}, Ask(k) PROVE SchemesInv'
  BY <1>12, DialogSchemes
<1>13. CASE Cancel
  BY <1>13, DialogSchemes
<1>14. CASE OnCancelEdits
  <2>1. /\ dialog' = NoDialog /\ UNCHANGED <<store, panel, page>> /\ editor' = ProfileChanged(store, editor.pick)
    BY <1>14 DEF OnCancelEdits
  <2>2. {"pick", "nodes"} \subseteq DOMAIN editor' /\ NodesOK(editor'.nodes) /\ editor'.pick = editor.pick
    BY <1>0, <2>1, ProfileIs, EditorIs
  <2> QED BY <2>1, <2>2, NodesChanged
<1>15. ASSUME NEW n \in Names, NEW ok \in BOOLEAN,
              \/ NewProfile(n, ok) \/ OnRenameProfile(n, ok)
              \/ OnDuplicateProfile(n, ok) \/ OnSaveProfile(n, ok)
       PROVE SchemesInv'
  BY <1>15, ButtonSchemes
<1>16. CASE OnDeleteProfile
  <2>1. /\ dialog.kind = "delete" /\ editor' = BackToBlank(editor)
        /\ Changed(Deleted(store, panel.app, editor.name))
    BY <1>16 DEF OnDeleteProfile
  <2>2. StoreOK(Deleted(store, panel.app, editor.name))
    BY <1>0, DeletedIs
  <2>3. page = "editor"
    BY <2>1, EditorIs DEF Answering
  <2> QED BY <2>1, <2>2, <2>3, ChangedKeeps
<1>17. ASSUME NEW a \in Apps, Poll(a) PROVE SchemesInv'
  <2>1. /\ ShowScheme(store, a, panel.scheme) /\ UNCHANGED <<store, page>> /\ dialog' = Orphaned(dialog)
        /\ IF page = "none" THEN editor' = editor ELSE editor' = BackToBlank(editor)
    BY <1>17 DEF Poll, SetInterface
  <2>2. PanelOK(panel') /\ panel'.app = a
    BY <1>0, <2>1, ShowKeeps
  <2>3. /\ {"pick", "nodes"} \subseteq DOMAIN BackToBlank(editor)
        /\ BackToBlank(editor).pick = NoName /\ BackToBlank(editor).nodes = <<>>
    BY DEF BackToBlank, Blank
  <2>4. /\ {"pick", "nodes"} \subseteq DOMAIN editor' /\ editor'.pick = NoName /\ NodesOK(editor'.nodes)
        /\ editor'.nodes \in {<<>>, editor.nodes}
    BY <2>1, <2>3, EditorIs, EmptyScheme
  <2>5. /\ dialog'.kind = dialog.kind
        /\ dialog.kind = "edit" => dialog'.at = 0 /\ "at" \in DOMAIN dialog'
        /\ dialog.kind # "edit" => dialog' = dialog
    BY <2>1, EditorIs DEF Orphaned, DialogOK
  <2>6. (Answering(dialog') \/ page' = "editor") /\ DialogOK(dialog', editor'.nodes)
    BY <2>1, <2>4, <2>5, EditorIs DEF DialogOK, Answering
  <2>7. EditorOK(editor', dialog', page', ListProfiles(store', panel'.app))
    BY <2>4, <2>6 DEF EditorOK
  <2> QED BY <1>0, <2>1, <2>2, <2>7 DEF SchemesInv
<1>18. CASE Disconnect
  <2>1. /\ UNCHANGED <<store, panel, page>> /\ dialog' = Orphaned(dialog)
        /\ editor' = [editor EXCEPT !.nodes = <<>>]
    BY <1>18 DEF Disconnect
  <2>2. {"pick", "nodes"} \subseteq DOMAIN editor' /\ editor'.pick = editor.pick /\ editor'.nodes = <<>>
    BY <2>1, EditorIs
  <2>3. /\ dialog'.kind = dialog.kind
        /\ dialog.kind = "edit" => dialog'.at = 0 /\ "at" \in DOMAIN dialog'
        /\ dialog.kind # "edit" => dialog' = dialog
    BY <2>1, EditorIs DEF Orphaned, DialogOK
  <2>4. (Answering(dialog') \/ page' = "editor") /\ DialogOK(dialog', <<>>)
    BY <2>1, <2>3, EditorIs DEF DialogOK, Answering
  <2>5. EditorOK(editor', dialog', page', ListProfiles(store, panel.app))
    BY <2>1, <2>2, <2>4, EditorIs, EmptyScheme DEF EditorOK
  <2> QED BY <2>1, <2>5, EditorKeeps
<1>19. CASE UNCHANGED vars
  BY <1>19, SchemesKept DEF vars
<1> QED BY <1>1, <1>2, <1>3, <1>4, <1>5, <1>6, <1>7, <1>8, <1>9, <1>10, <1>11, <1>12, <1>13, <1>14,
           <1>15, <1>16, <1>17, <1>18, <1>19 DEF Next

GameInv == ShownInv /\ (keyless \/ SchemesInv)

\* What a slider writes reads back.
LEMMA SlidersRead == GameInv => SlidersReadBack
<1> SUFFICES ASSUME GameInv, NEW v \in Speeds, OnSensitivityChanged(v, TRUE), ~keyless'
             PROVE  FromJson(ToJson(panel'.modes, panel'.nodes)) = [modes |-> panel'.modes, nodes |-> panel'.nodes]
  BY DEF SlidersReadBack
<1>1. ~keyless
  BY DEF OnSensitivityChanged, Change
<1> QED BY <1>1, SliderSchemes DEF GameInv

LEMMA GameStep == GameInv /\ [Next]_vars => GameInv'
<1> SUFFICES ASSUME GameInv, [Next]_vars PROVE GameInv'
  OBVIOUS
<1>1. ShownInv'
  BY ShownStep, SlidersRead DEF GameInv
<1>2. keyless' \/ SchemesInv'
  BY SchemesStep, KeylessStays DEF GameInv
<1> QED BY <1>1, <1>2 DEF GameInv

\* GameInv in every state
LEMMA GameAlways == Spec => []GameInv
<1>1. Init => GameInv
  BY ShownInit, SchemesInit DEF GameInv
<1> QED BY <1>1, GameStep, PTL DEF Spec

\* The panel's copy of a scheme is the one in the store, unless a slider's own
\* write failed or a tap without a key was ever written on a look anchor, and it
\* shows none only when the app has none: through every slider, every save, rename,
\* duplicate and delete of the editor and every change of app (reloadSchemeList,
\* onEditorProfilesChanged, onInterfaceChanged, onSensitivityXChanged).
THEOREM PanelStored == Spec => []PanelShowsStored
<1>1. GameInv => PanelShowsStored
  BY DEF GameInv, ShownInv, Shown, PanelShowsStored
<1> QED BY <1>1, GameAlways, PTL

\* Until a tap without a key is written right on a look anchor, no scheme, on the
\* screen or in the store, has two look controls or a mouse button twice, although
\* keys are compared only when a control is added or edited, and never across a
\* file (validateNodeKeys, toJson, fromJson).
THEOREM NoButtonTwice == Spec => []SchemesUnambiguous
<1>1. SchemesInv => SchemesUnambiguous
  <2> SUFFICES ASSUME SchemesInv PROVE SchemesUnambiguous
    OBVIOUS
  <2>1. Unambiguous(editor.nodes)
    BY EditorIs DEF NodesOK
  <2>2. ASSUME NEW f \in Files
        PROVE  ButtonsOnce(KeysOf(f.nodes)) /\ Unambiguous(FromJson(f).nodes)
    <3>1. FileOK(f)
      BY DEF SchemesInv, StoreOK, Files
    <3>2. ButtonsOnce(KeysOf(f.nodes))
      BY <3>1, FileKeys
    <3>3. Unambiguous(FromJson(f).nodes)
      BY <3>1, ReadNodes DEF NodesOK
    <3> QED BY <3>2, <3>3
  <2> QED BY <2>1, <2>2 DEF SchemesUnambiguous
<1>2. GameInv => SchemesUnambiguous
  BY <1>1 DEF GameInv, SchemesUnambiguous
<1> QED BY <1>2, GameAlways, PTL

\* A stored scheme read and written again means the same to the engine, key by
\* key, unless a tap spot is right on its look anchor, and until one without a key
\* is written there (toJson, fromJson, loadKeyMap, makeReverseMap).
THEOREM ReopeningIsHarmless == Spec => []ReopeningKeepsMeaning
<1>1. SchemesInv => ReopeningKeepsMeaning
  <2> SUFFICES ASSUME SchemesInv, NEW f \in Files, ~OnAnchor(f) PROVE Meaning(Reopened(f)) = Meaning(f)
    BY DEF ReopeningKeepsMeaning
  <2>1. FileOK(f)
    BY DEF SchemesInv, StoreOK, Files
  <2> QED BY <2>1, SameMeaning
<1>2. GameInv => ReopeningKeepsMeaning
  BY <1>1 DEF GameInv, ReopeningKeepsMeaning
<1> QED BY <1>2, GameAlways, PTL

\* Until then every file is one the program could have written, which is what is
\* assumed of those there are at first (StoredAssumption): a session hands on to
\* the next what it assumed itself, and an empty store begins it.
THEOREM StoreHandedOn == Spec => [](~keyless => \A f \in Files : FileOK(f))
<1>1. GameInv => (~keyless => \A f \in Files : FileOK(f))
  BY DEF GameInv, SchemesInv, StoreOK, Files
<1> QED BY <1>1, GameAlways, PTL

\* Without the state machine: of a file as the program writes it, without a look
\* anchor under a tap that has no key (FileOK), a scheme is read that is the same
\* when it is written and read again (toJson, fromJson).
THEOREM WrittenReadsBack ==
  ASSUME NEW f, FileOK(f)
  PROVE  LET s == FromJson(f) IN FromJson(ToJson(s.modes, s.nodes)) = s
<1> DEFINE s == FromJson(f)
<1>1. s = [modes |-> [switch |-> f.switch, lock |-> f.lock], nodes |-> s.nodes]
  BY DEF FromJson
<1>2. NodesOK(s.nodes) /\ ReadForm(s.nodes) /\ f.switch # None /\ f.lock # None
  BY ReadNodes DEF FileOK
<1> HIDE DEF s
<1> DEFINE modes == [switch |-> f.switch, lock |-> f.lock]
<1>3. modes = [switch |-> modes.switch, lock |-> modes.lock] /\ modes.switch = f.switch /\ modes.lock = f.lock
  OBVIOUS
<1>4. s.modes = modes
  BY <1>1
<1> HIDE DEF modes
<1>5. FromJson(ToJson(modes, s.nodes)) = [modes |-> modes, nodes |-> s.nodes]
  BY <1>2, <1>3, ReadBack
<1>6. s = [modes |-> modes, nodes |-> s.nodes]
  BY <1>1 DEF modes
<1> QED BY <1>4, <1>5, <1>6 DEF s
=============================================================================
