----------------------------- MODULE GameKeymap -----------------------------
(***************************************************************************)
(* InputConvertGame: keys and mouse buttons turned into fingers on the     *)
(* phone.  Everything runs on the UI thread; what makes it hard is that a  *)
(* gesture spans events and timers (the steering wheel's and the drag's    *)
(* paths, the multi-click's singleShots, the re-plant of the pan finger),  *)
(* while the keymap, the cursor lock and the suspend key change what the   *)
(* next event means.  Positions are left out: a path is its length.        *)
(***************************************************************************)
EXTENDS Naturals, FiniteSets

CONSTANTS MaxTouch,    \* MULTI_TOUCH_MAX_NUM
          WheelKeys, ClickKeys, SwitchKeys, TwiceKeys, MultiKeys, DragKeys,
          EyesKeys,    \* keys by the type of node they are bound to
          ShootButtons, TapButtons,
          HasPan,      \* isValidMouseMoveMap()
          NoKey, PanKey, UnknownKey,  \* 0, Qt::ExtraButton24, Qt::Key_unknown
          PathLens,    \* lengths of the queue getDelayQueue() may build
          Clicks,      \* clicks of a multi-click node
          MaxBursts, MaxReplants,  \* bounds: multi-clicks and re-plants in flight
          Habits       \* a bound: the users, those who are steady and those who are not

Keys    == WheelKeys \cup ClickKeys \cup SwitchKeys \cup TwiceKeys
             \cup MultiKeys \cup DragKeys \cup EyesKeys
Buttons == ShootButtons \cup TapButtons
Owners  == Keys \cup Buttons \cup {PanKey}
Ids     == 0..(MaxTouch - 1)

ASSUME KeymapAssumption ==
  /\ MaxTouch \in Nat \ {0} /\ Clicks \in Nat \ {0} /\ MaxReplants \in Nat
  /\ MaxBursts \in Nat /\ PathLens \subseteq Nat
  /\ NoKey \notin Owners /\ PanKey \notin Keys \cup Buttons
  /\ UnknownKey \notin Owners \cup {NoKey}
  /\ HasPan \in BOOLEAN /\ Habits \subseteq BOOLEAN /\ (EyesKeys # {} => HasPan)

\* makeReverseMap(): a key drives one node, of a file that has finitely many.
\* (The table files keys and buttons by their Qt codes: left out is the extra
\* button whose code is the space key's.)
ASSUME OneNodePerKey ==
  /\ IsFiniteSet(Keys \cup Buttons)
  /\ Keys \cap Buttons = {} /\ ShootButtons \cap TapButtons = {}
  /\ WheelKeys \cap (ClickKeys \cup SwitchKeys \cup TwiceKeys \cup MultiKeys
                       \cup DragKeys \cup EyesKeys) = {}
  /\ ClickKeys \cap (SwitchKeys \cup TwiceKeys \cup MultiKeys \cup DragKeys \cup EyesKeys) = {}
  /\ SwitchKeys \cap (TwiceKeys \cup MultiKeys \cup DragKeys \cup EyesKeys) = {}
  /\ TwiceKeys \cap (MultiKeys \cup DragKeys \cup EyesKeys) = {}
  /\ MultiKeys \cap (DragKeys \cup EyesKeys) = {}
  /\ DragKeys \cap EyesKeys = {}

VARIABLES
  ids,          \* m_multiTouchID
  down,         \* the contacts the phone has been told of, by slot
  misused,      \* sendTouchEvent() was called with an id out of range
  mouseDown,    \* the contact of slot kMouseTouchSlot, by the plain mouse
  held,         \* keys and buttons the user holds
  gameMap,      \* m_gameMap
  locked, lockedBefore,    \* m_cursorLocked, m_cursorLockedBeforeSuspend
  suspended,    \* the user holds the suspend key
  needBack,     \* m_needBackMouseMove
  grabbed,      \* the last grabCursor() signal
  hides,        \* depth of the application's override-cursor stack
  sized,        \* m_showSize is the widget's size
  touching, eyes,          \* m_ctrlMouseMove.touching, .smallEyes
  panMoves,     \* m_processMouseMove
  stops, starts,           \* singleShots of 30 and 60 ms still to fire
  pressed, touchKey, wheelPath,      \* m_ctrlSteerWheel
  dragKey, dragPath, dragTimer,      \* m_dragDelayData
  stranded,     \* history: the keys of drags that ended before a step
  bursts,       \* per multi-click in flight: its key and events to fire
  steady        \* the user changes modes only between gestures

touchVars  == <<ids, down, misused>>
lockVars   == <<locked, lockedBefore, suspended>>
cursorVars == <<grabbed, hides>>
panVars    == <<touching, eyes, panMoves, stops, starts>>
wheelVars  == <<pressed, touchKey, wheelPath>>
dragVars   == <<dragKey, dragPath, dragTimer, stranded>>
vars == <<touchVars, mouseDown, held, gameMap, lockVars, needBack, cursorVars,
          sized, panVars, wheelVars, dragVars, bursts, steady>>

Idle == [key |-> NoKey, left |-> 0]

KeymapInit ==
  /\ ids = [i \in Ids |-> NoKey] /\ down = {} /\ misused = FALSE
  /\ mouseDown = FALSE /\ held = {}
  /\ gameMap = FALSE
  /\ locked = FALSE /\ lockedBefore = FALSE /\ suspended = FALSE
  /\ needBack = FALSE /\ grabbed = FALSE /\ hides = 0 /\ sized = FALSE
  /\ touching = FALSE /\ eyes = FALSE /\ panMoves = TRUE
  /\ stops = 0 /\ starts = 0
  /\ pressed = {} /\ touchKey = UnknownKey /\ wheelPath = 0
  /\ dragKey = NoKey /\ dragPath = 0 /\ dragTimer = "none" /\ stranded = {}
  /\ bursts = [b \in 1..MaxBursts |-> Idle]
  /\ steady \in Habits

-----------------------------------------------------------------------------
(* Touches.  A handler may send several, so they act on a record.          *)

Touch == [ids |-> ids, down |-> down, misused |-> misused]

SetTouch(t) == ids' = t.ids /\ down' = t.down /\ misused' = t.misused

FirstOf(S) == CHOOSE i \in S : \A j \in S : i <= j

IdsOf(t, k) == {i \in Ids : t.ids[i] = k}

\* attachTouchID() and DOWN.
TouchDown(t, k) ==
  IF IdsOf(t, NoKey) = {} THEN [t EXCEPT !.misused = TRUE]
  ELSE LET i == FirstOf(IdsOf(t, NoKey))
       IN [t EXCEPT !.ids[i] = k, !.down = @ \cup {i}]

\* UP of getTouchID() and detachTouchID().
TouchUp(t, k) ==
  IF IdsOf(t, k) = {} THEN [t EXCEPT !.misused = TRUE]
  ELSE LET i == FirstOf(IdsOf(t, k))
       IN [t EXCEPT !.ids[i] = NoKey, !.down = @ \ {i}]

TouchMove(t, k) == IF IdsOf(t, k) = {} THEN [t EXCEPT !.misused = TRUE] ELSE t

-----------------------------------------------------------------------------
(* The pan finger and the cursor.                                          *)

StartTouch(t) == IF touching THEN t ELSE TouchDown(t, PanKey)
StopTouch(t)  == IF touching THEN TouchUp(t, PanKey) ELSE t

Hide(h) == hides' = IF h THEN hides + 1 ELSE IF hides = 0 THEN 0 ELSE hides - 1

\* updateSize(): a size not seen before grabs the cursor.
UpdateSize ==
  /\ sized' = TRUE
  /\ grabbed' = (grabbed \/ (~sized /\ gameMap /\ HasPan))

\* Mutant: engaging waits for the first movement to plant the finger.
ToggleWithoutFinger(lock) ==
  IF locked = lock \/ (lock /\ ~HasPan)
  THEN UNCHANGED <<locked, cursorVars, touchVars, touching>>
  ELSE /\ locked' = lock /\ grabbed' = lock /\ Hide(lock)
       /\ SetTouch(IF lock THEN Touch ELSE StopTouch(Touch))
       /\ touching' = (lock /\ touching)

ToggleCursorLock(lock) ==
  IF locked = lock \/ (lock /\ ~HasPan)
  THEN UNCHANGED <<locked, cursorVars, touchVars, touching>>
  ELSE /\ locked' = lock
       /\ grabbed' = lock
       /\ Hide(lock)
       /\ SetTouch(IF lock THEN StartTouch(Touch) ELSE StopTouch(Touch))
       /\ touching' = lock

\* Lift in 30 ms, plant again in 60: the pan goes on from its anchor.
Replant == /\ starts < MaxReplants
           /\ panMoves' = FALSE
           /\ stops' = stops + 1 /\ starts' = starts + 1

LiftForReplant ==
  /\ stops > 0
  /\ stops' = stops - 1
  /\ SetTouch(StopTouch(Touch))
  /\ touching' = FALSE
  /\ UNCHANGED <<starts, eyes, panMoves, mouseDown, held, gameMap, lockVars,
                 needBack, cursorVars, sized, wheelVars, dragVars, bursts, steady>>

\* Of two pairs in flight the earlier plants before the later, and after its
\* own lift.
PlantAgain ==
  /\ starts > stops
  /\ starts' = starts - 1
  /\ SetTouch(StartTouch(Touch))
  /\ touching' = TRUE
  /\ panMoves' = TRUE
  /\ UNCHANGED <<stops, eyes, mouseDown, held, gameMap, lockVars, needBack,
                 cursorVars, sized, wheelVars, dragVars, bursts, steady>>

\* processMouseMove(): a movement of the locked cursor, which may drag the
\* finger to the edge.  The idle timer is armed only when the cursor is not
\* locked, and this code runs only when it is, so that timer never runs.
PanMove(edge) ==
  /\ gameMap /\ locked /\ ~needBack
  /\ UpdateSize
  /\ IF panMoves
     THEN LET t == StartTouch(Touch)
          IN /\ touching' = TRUE
             /\ SetTouch(IF edge /\ ~eyes THEN t ELSE TouchMove(t, PanKey))
             /\ IF edge THEN Replant ELSE UNCHANGED <<panMoves, stops, starts>>
     ELSE UNCHANGED <<touchVars, touching, panMoves, stops, starts>>
  /\ UNCHANGED <<mouseDown, held, gameMap, lockVars, needBack, hides, eyes,
                 wheelVars, dragVars, bursts, steady>>

\* A movement that moves no finger: of the free cursor, or one that only
\* recentres the locked one or is swallowed after it.
FreeMove ==
  /\ gameMap /\ ~needBack
  /\ UpdateSize
  /\ UNCHANGED <<touchVars, mouseDown, held, gameMap, lockVars, needBack, hides,
                 panVars, wheelVars, dragVars, bursts, steady>>

ResizeWindow ==
  /\ sized' = FALSE
  /\ UNCHANGED <<touchVars, mouseDown, held, gameMap, lockVars, needBack,
                 cursorVars, panVars, wheelVars, dragVars, bursts, steady>>

-----------------------------------------------------------------------------
(* Modes.                                                                  *)

LockKey ==
  /\ gameMap
  /\ steady => held \cap ShootButtons = {}
  /\ ToggleCursorLock(~locked)
  /\ UNCHANGED <<mouseDown, held, gameMap, lockedBefore, suspended, needBack, sized,
                 eyes, panMoves, stops, starts, wheelVars, dragVars, bursts, steady>>

\* handleSuspendKey(); outside the keymap the key is an ordinary one.
SuspendKey ==
  /\ gameMap \/ suspended
  /\ steady => held \cap ShootButtons = {}
  /\ suspended' = ~suspended
  /\ IF ~gameMap THEN UNCHANGED <<locked, lockedBefore, cursorVars, touchVars, touching>>
     ELSE IF ~suspended
     THEN lockedBefore' = locked /\ ToggleCursorLock(FALSE)
     ELSE IF lockedBefore
     THEN lockedBefore' = FALSE /\ ToggleCursorLock(TRUE)
     ELSE UNCHANGED <<locked, lockedBefore, cursorVars, touchVars, touching>>
  /\ UNCHANGED <<mouseDown, held, gameMap, needBack, sized, eyes, panMoves, stops,
                 starts, wheelVars, dragVars, bursts, steady>>

\* setForceCustomKeymap(on), for on # m_gameMap.
ForceCustomKeymap(on) ==
  /\ gameMap' = on
  /\ IF on THEN UNCHANGED <<locked, lockedBefore, cursorVars, touchVars, touching>>
     ELSE /\ lockedBefore' = FALSE
          /\ touching' = FALSE /\ SetTouch(StopTouch(Touch))
          /\ locked' = FALSE
          /\ IF locked THEN grabbed' = FALSE /\ Hide(FALSE) ELSE UNCHANGED cursorVars

Settled == steady => held = {} /\ ~suspended /\ starts = 0

\* The switch key, on keyboard or mouse.
SwitchGameMap ==
  /\ Settled
  /\ ForceCustomKeymap(~gameMap)
  /\ needBack' = (needBack /\ ~gameMap)
  /\ UNCHANGED <<mouseDown, held, suspended, sized, eyes, panMoves, stops, starts,
                 wheelVars, dragVars, bursts, steady>>

\* engageForFocus(): the window gains or loses the focus, and with it the
\* releases of the keys held then.
FocusChange ==
  /\ Settled
  /\ ForceCustomKeymap(~gameMap)
  /\ IF gameMap THEN held' = held \ Keys /\ suspended' = FALSE ELSE UNCHANGED <<held, suspended>>
  /\ UNCHANGED <<mouseDown, needBack, sized, eyes, panMoves, stops, starts,
                 wheelVars, dragVars, bursts, steady>>

-----------------------------------------------------------------------------
(* Keys.  Auto-repeated events stop at the top of the switch in keyEvent().*)

\* Mutant: the finger is lifted when the key that put it down is.
WheelLiftsWithFirstKey(k, press) ==
  /\ pressed' = IF press THEN pressed \cup {k} ELSE pressed \ {k}
  /\ wheelPath' = 0
  /\ IF press /\ Cardinality(pressed') = 1
     THEN touchKey' = k /\ SetTouch(TouchDown(Touch, k))
     ELSE /\ UNCHANGED touchKey
          /\ SetTouch(IF ~press /\ k = touchKey THEN TouchUp(Touch, k) ELSE Touch)

\* processSteerWheel(): one finger for the four keys, under the key that was
\* pressed first.
WheelKey(k, press) ==
  /\ pressed' = IF press THEN pressed \cup {k} ELSE pressed \ {k}
  /\ IF pressed' = {}
     THEN SetTouch(TouchUp(Touch, touchKey)) /\ wheelPath' = 0 /\ UNCHANGED touchKey
     ELSE /\ wheelPath' \in PathLens
          /\ IF press /\ Cardinality(pressed') = 1
             THEN touchKey' = k /\ SetTouch(TouchDown(Touch, k))
             ELSE UNCHANGED <<touchKey, touchVars>>

\* Mutant: the release of a click is ignored like a repeated press.
ClickKeyNoUp(k, press) == SetTouch(IF press THEN TouchDown(Touch, k) ELSE Touch)

\* processKeyClick() of a node that does not switch the map.
ClickKey(k, press) ==
  SetTouch(IF press THEN TouchDown(Touch, k) ELSE TouchUp(Touch, k))

TwiceKey(k, press) == SetTouch(TouchUp(TouchDown(Touch, k), k))

\* Mutant: the drag that is still running is left to itself.
DragKeyForgets(k, press) ==
  IF ~press THEN UNCHANGED <<touchVars, dragVars>>
  ELSE /\ SetTouch(TouchDown(Touch, k))
       /\ dragKey' = k /\ dragTimer' = "armed" /\ dragPath' \in PathLens
       /\ UNCHANGED stranded

\* processKeyDrag(): a press ends the drag still running, then starts its own.
DragKey(k, press) ==
  IF ~press THEN UNCHANGED <<touchVars, dragVars>>
  ELSE /\ SetTouch(TouchDown(IF dragTimer = "armed" THEN TouchUp(Touch, dragKey)
                             ELSE Touch, k))
       /\ dragKey' = k /\ dragTimer' = "armed" /\ dragPath' \in PathLens
       /\ UNCHANGED stranded

MultiKey(k, press) ==
  IF ~press THEN UNCHANGED bursts
  ELSE \E b \in 1..MaxBursts :
         /\ bursts[b] = Idle
         /\ bursts' = [bursts EXCEPT ![b] = [key |-> k, left |-> 2 * Clicks]]

\* Mutant: the finger at the old anchor is not lifted first.
EyesKeyPlantsBeside(press) ==
  /\ eyes' = press
  /\ IF press THEN Replant /\ UNCHANGED <<touchVars, touching>>
     ELSE /\ SetTouch(TouchDown(Touch, PanKey))
          /\ touching' = TRUE
          /\ UNCHANGED <<panMoves, stops, starts>>

\* Small eyes: re-plant at the other anchor now, and back at once on release.
EyesKey(press) ==
  /\ eyes' = press
  /\ IF press THEN Replant /\ UNCHANGED <<touchVars, touching>>
     ELSE /\ SetTouch(TouchDown(StopTouch(Touch), PanKey))
          /\ touching' = TRUE
          /\ UNCHANGED <<panMoves, stops, starts>>

GameKey(k, press) ==
  \/ /\ k \in WheelKeys /\ WheelKey(k, press)
     /\ UNCHANGED <<panVars, dragVars, bursts>>
  \/ /\ k \in ClickKeys \cup SwitchKeys /\ ClickKey(k, press)
     /\ UNCHANGED <<panVars, wheelVars, dragVars, bursts>>
  \/ /\ k \in TwiceKeys /\ TwiceKey(k, press)
     /\ UNCHANGED <<panVars, wheelVars, dragVars, bursts>>
  \/ /\ k \in MultiKeys /\ MultiKey(k, press)
     /\ UNCHANGED <<touchVars, panVars, wheelVars, dragVars>>
  \/ /\ k \in DragKeys /\ DragKey(k, press)
     /\ UNCHANGED <<panVars, wheelVars, bursts>>
  \/ /\ k \in EyesKeys /\ EyesKey(press)
     /\ UNCHANGED <<wheelVars, dragVars, bursts>>

Hold(k, press) == IF press THEN k \notin held /\ held' = held \cup {k}
                           ELSE k \in held /\ held' = held \ {k}

\* keyEvent(): in the keymap, or for a switch-map click while the mouse is
\* free; everything else goes to the plain path and touches nothing.
KeyEvent(k, press) ==
  /\ Hold(k, press)
  /\ IF gameMap \/ (needBack /\ k \in SwitchKeys)
     THEN /\ UpdateSize /\ GameKey(k, press)
          /\ IF k \in SwitchKeys /\ ~press
             THEN /\ steady => held \cap (Buttons \cup SwitchKeys) \subseteq {k}
                  /\ needBack' = ~needBack /\ Hide(needBack)
             ELSE UNCHANGED <<needBack, hides>>
     ELSE UNCHANGED <<touchVars, needBack, cursorVars, sized, panVars, wheelVars,
                      dragVars, bursts>>
  /\ UNCHANGED <<mouseDown, gameMap, lockVars, steady>>

\* A held key repeats: a press, after a release on some platforms.  Only the
\* switch-map path does not look at isAutoRepeat().
RepeatKey(k, release) ==
  /\ k \in held \cap SwitchKeys /\ needBack /\ ~steady
  /\ UpdateSize
  /\ needBack' = ~release
  /\ IF release THEN Hide(TRUE) /\ SetTouch(TouchUp(Touch, k))
                ELSE UNCHANGED hides /\ SetTouch(TouchDown(Touch, k))
  /\ UNCHANGED <<mouseDown, held, gameMap, lockVars, panVars, wheelVars, dragVars, bursts, steady>>

\* mouseEvent(), press and release (a double click is a press).
ByKeymap(b) == gameMap /\ ~needBack /\ (b \in ShootButtons => locked)

MouseButton(b, press) ==
  /\ Hold(b, press)
  /\ IF gameMap /\ ~needBack THEN UpdateSize ELSE UNCHANGED <<sized, grabbed>>
  /\ IF ByKeymap(b) THEN ClickKey(b, press) /\ UNCHANGED mouseDown
                    ELSE mouseDown' = press /\ UNCHANGED touchVars
  /\ UNCHANGED <<gameMap, lockVars, needBack, hides, panVars, wheelVars, dragVars, bursts, steady>>

-----------------------------------------------------------------------------
(* Timers.                                                                 *)

\* onSteerWheelTimer(); with no key pressed the path is empty already.
WheelTimer ==
  /\ wheelPath > 0
  /\ wheelPath' = wheelPath - 1
  /\ SetTouch(IF wheelPath' = 0 /\ pressed = {}
              THEN TouchUp(TouchMove(Touch, touchKey), touchKey)
              ELSE TouchMove(Touch, touchKey))
  /\ UNCHANGED <<mouseDown, held, gameMap, lockVars, needBack, cursorVars, sized,
                 panVars, pressed, touchKey, dragVars, bursts, steady>>

\* Mutant: the end of the path is the end of the timer, and of nothing else.
DragTimerNoUp ==
  /\ dragTimer = "armed" /\ dragPath > 0
  /\ dragPath' = dragPath - 1
  /\ SetTouch(TouchMove(Touch, dragKey))
  /\ dragTimer' = IF dragPath' = 0 THEN "none" ELSE "armed"
  /\ UNCHANGED <<mouseDown, held, gameMap, lockVars, needBack, cursorVars, sized,
                 panVars, dragKey, stranded, wheelVars, bursts, steady>>

\* onDragTimer(); an empty path ends the timer and nothing else.
DragTimer ==
  /\ dragTimer = "armed"
  /\ IF dragPath = 0
     THEN /\ dragTimer' = "spent" /\ stranded' = stranded \cup {dragKey}
          /\ UNCHANGED <<touchVars, dragKey, dragPath>>
     ELSE LET t == TouchMove(Touch, dragKey)
          IN /\ dragPath' = dragPath - 1
             /\ IF dragPath' = 0
                THEN SetTouch(TouchUp(t, dragKey)) /\ dragTimer' = "none" /\ dragKey' = NoKey
                ELSE SetTouch(t) /\ UNCHANGED <<dragTimer, dragKey>>
             /\ UNCHANGED stranded
  /\ UNCHANGED <<mouseDown, held, gameMap, lockVars, needBack, cursorVars, sized,
                 panVars, wheelVars, bursts, steady>>

\* processKeyClickMulti()'s singleShots: DOWN, 20 ms later UP, click by click.
BurstTimer(b) ==
  /\ bursts[b].left > 0
  /\ SetTouch(IF bursts[b].left % 2 = 0 THEN TouchDown(Touch, bursts[b].key)
                                        ELSE TouchUp(Touch, bursts[b].key))
  /\ bursts' = [bursts EXCEPT ![b] = IF @.left = 1 THEN Idle
                                     ELSE [key |-> @.key, left |-> @.left - 1]]
  /\ UNCHANGED <<mouseDown, held, gameMap, lockVars, needBack, cursorVars, sized,
                 panVars, wheelVars, dragVars, steady>>

-----------------------------------------------------------------------------
Timers == \/ WheelTimer \/ DragTimer \/ LiftForReplant \/ PlantAgain
          \/ \E b \in 1..MaxBursts : BurstTimer(b)

KeymapNext ==
  \/ \E k \in Keys, press \in BOOLEAN : KeyEvent(k, press)
  \/ \E k \in SwitchKeys, release \in BOOLEAN : RepeatKey(k, release)
  \/ \E b \in Buttons, press \in BOOLEAN : MouseButton(b, press)
  \/ \E edge \in BOOLEAN : PanMove(edge)
  \/ FreeMove \/ ResizeWindow
  \/ LockKey \/ SuspendKey \/ SwitchGameMap \/ FocusChange
  \/ Timers

KeymapSpec == KeymapInit /\ [][KeymapNext]_vars

\* A started QTimer fires.
FairKeymapSpec ==
  /\ KeymapSpec
  /\ WF_vars(WheelTimer) /\ WF_vars(DragTimer)
  /\ WF_vars(LiftForReplant) /\ WF_vars(PlantAgain)
  /\ \A b \in 1..MaxBursts : WF_vars(BurstTimer(b))

-----------------------------------------------------------------------------
\* The owners that have a finger coming: the click keys, switch keys and buttons
\* held where the keymap decides, the first wheel key while any is pressed, the
\* drag under way, the pan finger; and the multi-clicks between DOWN and UP.
Asked(k) ==
  \/ k \in ClickKeys \cap held /\ gameMap
  \/ k \in SwitchKeys \cap held /\ (gameMap \/ needBack)
  \/ k \in Buttons \cap held /\ ByKeymap(k)
  \/ k \in WheelKeys /\ k = touchKey /\ pressed # {}
  \/ k \in DragKeys /\ k = dragKey /\ dragTimer = "armed"
  \/ k = PanKey /\ touching

Singles == Owners \ MultiKeys
Odd(bs) == {b \in 1..MaxBursts : bs[b].left % 2 = 1}

\* The wheel's finger is down only while a key of the wheel is pressed, whichever
\* is released first, and then it is, under the key that put it down, as long
\* as no touch has been refused for want of an id.
WheelFingerWhilePressed ==
  /\ touchKey \in WheelKeys /\ IdsOf(Touch, touchKey) # {} => pressed # {}
  /\ pressed # {} /\ ~misused => touchKey \in WheelKeys /\ IdsOf(Touch, touchKey) # {}

\* A key has one finger at most, also when ids have run out: of two,
\* getTouchID() would lift one for ever.  Not so the key of a drag whose path
\* was empty, which onDragTimer() ends with the finger down
\* (inputconvertgame.cpp:566).
OneFingerPerKey ==
  \A i, j \in Ids : ids[i] = ids[j] /\ ids[i] \in Singles \ stranded => i = j

\* inputconvertgame.cpp:729 "once shoot-mode is engaged ... the finger is
\* supposed to stay planted for as long as the mode is on": when no re-plant is
\* under way it is planted, and movements move it.
ShootModeKeepsFinger == (starts = 0 => panMoves) /\ (locked /\ starts = 0 => touching)

\* A user who changes modes between gestures leaves nothing on the phone: with
\* nothing held and no timer left, only the pan finger may be down, and those of
\* the drags that ended before a step.  Touches refused for want of an id do not
\* change that: an UP never lifts the finger of another gesture for good.
Resting == held = {} /\ dragTimer # "armed" /\ \A b \in 1..MaxBursts : bursts[b] = Idle

NothingLeftDown ==
  steady /\ Resting => ~mouseDown /\ \A i \in down : ids[i] \in {PanKey} \cup stranded

\* Drags and multi-clicks end without the user's help.
GesturesEnd ==
  (<>[](held = {})) => <>[](\A i \in Ids : ids[i] \in {NoKey, PanKey} \cup stranded)

\* inputconvertgame.cpp:299-300 Q_ASSERT(0): for a user who changes modes between
\* gestures a touch is without a slot, for the first time, only if the gestures
\* under way ask for as many fingers as there are ids: no id leaks, and no UP or
\* MOVE is sent for a finger that is not there.
EveryTouchHasASlot ==
  [][steady /\ stranded = {} /\ ~misused /\ misused' =>
       Cardinality({k \in Singles : Asked(k)}) + Cardinality(Odd(bursts)) >= MaxTouch]_vars

\* inputconvertgame.cpp:929-930 "Releasing on disengage keeps the finger's
\* lifetime exactly equal to shoot-mode's".
PanFingerIsShootMode == touching => locked
=============================================================================
