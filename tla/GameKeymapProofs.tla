-------------------------- MODULE GameKeymapProofs --------------------------
(***************************************************************************)
(* Proofs about the game keymap, for every keymap and every size of the     *)
(* table of fingers: shoot-mode keeps its finger planted, whatever the user *)
(* does; and for a user who changes modes between gestures, the fingers on  *)
(* the phone are those that the keys held and the gestures under way ask    *)
(* for, but for the touches refused while no id was free.                   *)
(***************************************************************************)
EXTENDS GameKeymap, FiniteSetTheorems, TLAPS

\* attachTouchID() and getTouchID() return the first slot of a non-empty set.
LEMMA FirstIsMember ==
  ASSUME NEW S \in SUBSET Nat, S # {} PROVE FirstOf(S) \in S
<1> DEFINE Less == OpToRel(<, Nat)
<1>1. \A i, j \in Nat : <<j, i>> \in Less <=> j < i
  BY DEF OpToRel
<1>2. IsWellFoundedOn(Less, Nat)
  BY NatLessThanWellFounded
<1> HIDE DEF Less
<1>3. PICK i \in S : \A j \in S : ~(<<j, i>> \in Less)
  BY <1>2, WFMin
<1>4. \A j \in S : i <= j
  <2> TAKE j \in S
  <2>1. i \in Nat /\ j \in Nat /\ ~(<<j, i>> \in Less)
    BY <1>3
  <2>2. ~(j < i)
    BY <1>1, <2>1
  <2> QED BY <2>1, <2>2
<1> QED BY <1>4 DEF FirstOf

-----------------------------------------------------------------------------
(***************************************************************************)
(* The id table mirrors the phone, and the keys of the multi-clicks in     *)
(* flight are owners: what every count of fingers below starts from.       *)
(***************************************************************************)
TouchOK(t) ==
  /\ t \in [ids : [Ids -> Owners \cup {NoKey}], down : SUBSET Ids, misused : BOOLEAN]
  /\ t.down = {i \in Ids : t.ids[i] # NoKey}

BurstsOK == \A b \in 1..MaxBursts : bursts[b].left > 0 => bursts[b].key \in MultiKeys

BurstsType == bursts \in [1..MaxBursts -> [key : MultiKeys \cup {NoKey}, left : Nat]]

BooksInv == TouchOK(Touch) /\ BurstsType /\ BurstsOK

Slot(t, i, k, D) == [t EXCEPT !.ids[i] = k, !.down = D]

\* One slot of the table changes hands and the phone is told.
LEMMA SlotKeeps ==
  ASSUME NEW t, TouchOK(t), NEW i \in Ids, NEW k \in Owners \cup {NoKey},
         NEW D \in SUBSET Ids, \A j \in Ids \ {i} : j \in D <=> j \in t.down,
         i \in D <=> k # NoKey
  PROVE  TouchOK(Slot(t, i, k, D))
<1> DEFINE u == Slot(t, i, k, D)
<1>1. /\ u.ids = [t.ids EXCEPT ![i] = k] /\ u.down = D
      /\ u \in [ids : [Ids -> Owners \cup {NoKey}], down : SUBSET Ids, misused : BOOLEAN]
  BY DEF TouchOK, Slot
<1> HIDE DEF u
<1>2. \A j \in Ids : j \in u.down <=> u.ids[j] # NoKey
  BY <1>1 DEF TouchOK
<1>3. u.down = {j \in Ids : u.ids[j] # NoKey}
  BY <1>1, <1>2
<1>4. TouchOK(u)
  BY <1>1, <1>3 DEF TouchOK
<1> QED BY <1>4 DEF u

\* A DOWN keeps table and phone in step, or finds no slot and changes neither.
LEMMA DownKeeps ==
  ASSUME NEW t, TouchOK(t), NEW k \in Owners PROVE TouchOK(TouchDown(t, k))
<1>1. CASE IdsOf(t, NoKey) = {}
  BY <1>1 DEF TouchOK, TouchDown
<1>2. CASE IdsOf(t, NoKey) # {}
  <2> DEFINE i == FirstOf(IdsOf(t, NoKey))
  <2>1. IdsOf(t, NoKey) \in SUBSET Nat
    BY KeymapAssumption DEF IdsOf, Ids
  <2>2. i \in IdsOf(t, NoKey)
    BY <2>1, <1>2, FirstIsMember
  <2>3. i \in Ids
    BY <2>2 DEF IdsOf
  <2>4. k # NoKey
    BY KeymapAssumption
  <2>5. TouchDown(t, k) = Slot(t, i, k, t.down \cup {i})
    BY <1>2 DEF TouchDown, Slot
  <2> HIDE DEF i
  <2>6. t.down \in SUBSET Ids
    BY DEF TouchOK
  <2> QED BY <2>3, <2>4, <2>5, <2>6, SlotKeeps
<1> QED BY <1>1, <1>2

\* An UP keeps table and phone in step, whoever asks for it.
LEMMA UpKeeps ==
  ASSUME NEW t, TouchOK(t), NEW k PROVE TouchOK(TouchUp(t, k))
<1>1. CASE IdsOf(t, k) = {}
  BY <1>1 DEF TouchOK, TouchUp
<1>2. CASE IdsOf(t, k) # {}
  <2> DEFINE i == FirstOf(IdsOf(t, k))
  <2>1. IdsOf(t, k) \in SUBSET Nat
    BY KeymapAssumption DEF IdsOf, Ids
  <2>2. i \in Ids
    BY <2>1, <1>2, FirstIsMember DEF IdsOf
  <2>3. TouchUp(t, k) = Slot(t, i, NoKey, t.down \ {i})
    BY <1>2 DEF TouchUp, Slot
  <2> HIDE DEF i
  <2>4. t.down \in SUBSET Ids
    BY DEF TouchOK
  <2> QED BY <2>2, <2>3, <2>4, SlotKeeps
<1> QED BY <1>1, <1>2

LEMMA MoveKeeps ==
  ASSUME NEW t, TouchOK(t), NEW k PROVE TouchOK(TouchMove(t, k))
BY DEF TouchOK, TouchMove

LEMMA PanKeeps ==
  ASSUME NEW t, TouchOK(t)
  PROVE  TouchOK(StartTouch(t)) /\ TouchOK(StopTouch(t))
BY DownKeeps, UpKeeps DEF StartTouch, StopTouch, Owners

\* What SetTouch stores is what the next step reads.
LEMMA TouchSet ==
  ASSUME NEW t, TouchOK(t), SetTouch(t) PROVE TouchOK(Touch)'
<1>1. Touch' = t
  BY DEF TouchOK, SetTouch, Touch
<1> QED BY <1>1 DEF TouchOK

LEMMA TouchKept ==
  ASSUME TouchOK(Touch), UNCHANGED touchVars PROVE TouchOK(Touch)'
<1>1. Touch' = Touch
  BY DEF touchVars, Touch
<1> QED BY <1>1 DEF TouchOK

LEMMA LockKeeps ==
  ASSUME TouchOK(Touch), NEW on, ToggleCursorLock(on) PROVE TouchOK(Touch)'
BY TouchSet, TouchKept, PanKeeps DEF ToggleCursorLock

LEMMA ForceKeeps ==
  ASSUME TouchOK(Touch), NEW on, ForceCustomKeymap(on) PROVE TouchOK(Touch)'
BY TouchSet, TouchKept, PanKeeps DEF ForceCustomKeymap

LEMMA BurstsKept ==
  ASSUME BurstsType, BurstsOK, UNCHANGED bursts PROVE (BurstsType /\ BurstsOK)'
BY DEF BurstsType, BurstsOK

\* Initially the table is empty and no burst runs.
LEMMA BooksInit == KeymapInit => BooksInv
<1> SUFFICES ASSUME KeymapInit PROVE BooksInv
  OBVIOUS
<1>1. ids = [i \in Ids |-> NoKey] /\ down = {} /\ misused = FALSE
  BY DEF KeymapInit
<1>2. TouchOK(Touch)
  BY <1>1 DEF TouchOK, Touch
<1>3. bursts = [b \in 1..MaxBursts |-> Idle]
  BY DEF KeymapInit
<1>4. BurstsType /\ BurstsOK
  BY <1>3 DEF BurstsType, BurstsOK, Idle
<1> QED BY <1>2, <1>4 DEF BooksInv

\* The branches of keyEvent() act on the table through the lemmas above.
LEMMA GameKeyKeeps ==
  ASSUME BooksInv, NEW k \in Keys, NEW press \in BOOLEAN, GameKey(k, press)
  PROVE  BooksInv'
<1> USE DEF BooksInv
<1>0. k \in Owners /\ PanKey \in Owners
  BY DEF Owners
<1>1. CASE k \in WheelKeys /\ WheelKey(k, press) /\ UNCHANGED <<panVars, dragVars, bursts>>
  <2>1. TouchOK(Touch)'
    BY <1>0, <1>1, TouchSet, TouchKept, DownKeeps, UpKeeps DEF WheelKey
  <2> QED BY <1>1, <2>1, BurstsKept
<1>2. CASE k \in ClickKeys \cup SwitchKeys /\ ClickKey(k, press) /\ UNCHANGED <<panVars, wheelVars, dragVars, bursts>>
  <2>1. TouchOK(Touch)'
    BY <1>0, <1>2, TouchSet, DownKeeps, UpKeeps DEF ClickKey
  <2> QED BY <1>2, <2>1, BurstsKept
<1>3. CASE k \in TwiceKeys /\ TwiceKey(k, press) /\ UNCHANGED <<panVars, wheelVars, dragVars, bursts>>
  <2>1. TouchOK(Touch)'
    BY <1>0, <1>3, TouchSet, DownKeeps, UpKeeps DEF TwiceKey
  <2> QED BY <1>3, <2>1, BurstsKept
<1>4. CASE k \in MultiKeys /\ MultiKey(k, press) /\ UNCHANGED <<touchVars, panVars, wheelVars, dragVars>>
  <2>1. TouchOK(Touch)'
    BY <1>4, TouchKept
  <2>2. 2 * Clicks \in Nat
    BY KeymapAssumption
  <2>3. CASE ~press
    BY <1>4, <2>1, <2>3, BurstsKept DEF MultiKey
  <2>4. CASE press
    <3>1. PICK b \in 1..MaxBursts : bursts' = [bursts EXCEPT ![b] = [key |-> k, left |-> 2 * Clicks]]
      BY <1>4, <2>4 DEF MultiKey
    <3>2. BurstsType'
      BY <1>4, <2>2, <3>1 DEF BurstsType
    <3>3. BurstsOK'
      BY <1>4, <3>1 DEF BurstsOK, BurstsType
    <3> QED BY <2>1, <3>2, <3>3
  <2> QED BY <2>3, <2>4
<1>5. CASE k \in DragKeys /\ DragKey(k, press) /\ UNCHANGED <<panVars, wheelVars, bursts>>
  <2>1. TouchOK(IF dragTimer = "armed" THEN TouchUp(Touch, dragKey) ELSE Touch)
    BY UpKeeps
  <2>2. TouchOK(Touch)'
    BY <1>0, <1>5, <2>1, TouchSet, TouchKept, DownKeeps DEF DragKey
  <2> QED BY <1>5, <2>2, BurstsKept
<1>6. CASE k \in EyesKeys /\ EyesKey(press) /\ UNCHANGED <<wheelVars, dragVars, bursts>>
  <2>1. TouchOK(Touch)'
    BY <1>0, <1>6, TouchSet, TouchKept, DownKeeps, PanKeeps DEF EyesKey
  <2> QED BY <1>6, <2>1, BurstsKept
<1> QED BY <1>1, <1>2, <1>3, <1>4, <1>5, <1>6 DEF GameKey

\* Every event and every timer keeps the table and the phone in step.
LEMMA BooksStep == BooksInv /\ [KeymapNext]_vars => BooksInv'
<1> SUFFICES ASSUME BooksInv, [KeymapNext]_vars PROVE BooksInv'
  OBVIOUS
<1>0. TouchOK(Touch) /\ BurstsType /\ BurstsOK
  BY DEF BooksInv
<1>1. ASSUME NEW k \in Keys, NEW press \in BOOLEAN, KeyEvent(k, press) PROVE BooksInv'
  <2>1. CASE GameKey(k, press)
    BY <2>1, GameKeyKeeps
  <2>2. CASE UNCHANGED <<touchVars, needBack, cursorVars, sized, panVars, wheelVars, dragVars, bursts>>
    BY <1>0, <2>2, TouchKept, BurstsKept DEF BooksInv
  <2> QED BY <1>1, <2>1, <2>2 DEF KeyEvent
<1>2. ASSUME NEW k \in SwitchKeys, NEW release \in BOOLEAN, RepeatKey(k, release) PROVE BooksInv'
  <2>1. k \in Owners
    BY DEF Owners, Keys
  <2>2. TouchOK(Touch)'
    BY <1>0, <1>2, <2>1, TouchSet, DownKeeps, UpKeeps DEF RepeatKey
  <2> QED BY <1>0, <1>2, <2>2, BurstsKept DEF RepeatKey, BooksInv
<1>3. ASSUME NEW b \in Buttons, NEW press \in BOOLEAN, MouseButton(b, press) PROVE BooksInv'
  <2>1. b \in Owners
    BY DEF Owners
  <2>2. TouchOK(Touch)'
    BY <1>0, <1>3, <2>1, TouchSet, TouchKept, DownKeeps, UpKeeps DEF MouseButton, ClickKey
  <2> QED BY <1>0, <1>3, <2>2, BurstsKept DEF MouseButton, BooksInv
<1>4. ASSUME NEW edge \in BOOLEAN, PanMove(edge) PROVE BooksInv'
  <2>1. TouchOK(StartTouch(Touch)) /\ TouchOK(TouchMove(StartTouch(Touch), PanKey))
    BY <1>0, PanKeeps, MoveKeeps
  <2>2. TouchOK(Touch)'
    BY <1>0, <1>4, <2>1, TouchSet, TouchKept DEF PanMove
  <2> QED BY <1>0, <1>4, <2>2, BurstsKept DEF PanMove, BooksInv
<1>5. CASE FreeMove \/ ResizeWindow
  BY <1>0, <1>5, TouchKept, BurstsKept DEF FreeMove, ResizeWindow, BooksInv
<1>6. CASE LockKey
  BY <1>0, <1>6, LockKeeps, BurstsKept DEF LockKey, BooksInv
<1>7. CASE SuspendKey
  <2>1. TouchOK(Touch)'
    BY <1>0, <1>7, LockKeeps, TouchKept DEF SuspendKey
  <2> QED BY <1>0, <1>7, <2>1, BurstsKept DEF SuspendKey, BooksInv
<1>8. CASE SwitchGameMap \/ FocusChange
  BY <1>0, <1>8, ForceKeeps, BurstsKept DEF SwitchGameMap, FocusChange, BooksInv
<1>9. CASE WheelTimer
  <2>1. TouchOK(TouchMove(Touch, touchKey)) /\ TouchOK(TouchUp(TouchMove(Touch, touchKey), touchKey))
    BY <1>0, MoveKeeps, UpKeeps
  <2>2. TouchOK(Touch)'
    BY <1>9, <2>1, TouchSet DEF WheelTimer
  <2> QED BY <1>0, <1>9, <2>2, BurstsKept DEF WheelTimer, BooksInv
<1>10. CASE DragTimer
  <2>1. TouchOK(TouchMove(Touch, dragKey)) /\ TouchOK(TouchUp(TouchMove(Touch, dragKey), dragKey))
    BY <1>0, MoveKeeps, UpKeeps
  <2>2. TouchOK(Touch)'
    BY <1>0, <1>10, <2>1, TouchSet, TouchKept DEF DragTimer
  <2> QED BY <1>0, <1>10, <2>2, BurstsKept DEF DragTimer, BooksInv
<1>11. CASE LiftForReplant
  BY <1>0, <1>11, TouchSet, PanKeeps, BurstsKept DEF LiftForReplant, BooksInv
<1>12. CASE PlantAgain
  BY <1>0, <1>12, TouchSet, PanKeeps, BurstsKept DEF PlantAgain, BooksInv
<1>13. ASSUME NEW b \in 1..MaxBursts, BurstTimer(b) PROVE BooksInv'
  <2>1. bursts[b].key \in Owners
    BY <1>0, <1>13 DEF BurstTimer, BurstsOK, Owners, Keys
  <2>2. TouchOK(Touch)'
    BY <1>0, <1>13, <2>1, TouchSet, DownKeeps, UpKeeps DEF BurstTimer
  <2>3. bursts' = [bursts EXCEPT ![b] = IF bursts[b].left = 1 THEN Idle
                                        ELSE [key |-> bursts[b].key, left |-> bursts[b].left - 1]]
    BY <1>13 DEF BurstTimer
  <2>4. bursts[b].left \in Nat /\ bursts[b].left > 0 /\ bursts[b].key \in MultiKeys
    BY <1>0, <1>13 DEF BurstTimer, BurstsType, BurstsOK
  <2>5. bursts'[b] = Idle \/ bursts'[b] = [key |-> bursts[b].key, left |-> bursts[b].left - 1]
    BY <1>0, <2>3 DEF BurstsType
  <2>6. BurstsType'
    BY <1>0, <2>3, <2>4 DEF BurstsType, Idle
  <2>7. BurstsOK'
    BY <1>0, <2>3, <2>4, <2>5 DEF BurstsOK, BurstsType, Idle
  <2> QED BY <2>2, <2>6, <2>7 DEF BooksInv
<1>14. CASE UNCHANGED vars
  BY <1>0, <1>14, TouchKept, BurstsKept DEF vars, BooksInv
<1> QED BY <1>1, <1>2, <1>3, <1>4, <1>5, <1>6, <1>7, <1>8, <1>9, <1>10, <1>11, <1>12, <1>13, <1>14
        DEF KeymapNext, Timers

-----------------------------------------------------------------------------
(***************************************************************************)
(* Shoot-mode.  The property speaks of moments without a re-plant under    *)
(* way; what makes it inductive is that a pending lift is always followed  *)
(* by a pending plant.                                                     *)
(***************************************************************************)
ShootInv ==
  /\ locked \in BOOLEAN /\ touching \in BOOLEAN /\ panMoves \in BOOLEAN
  /\ lockedBefore \in BOOLEAN
  /\ stops \in Nat /\ starts \in Nat /\ stops <= starts
  /\ ShootModeKeepsFinger

LEMMA ShootKept ==
  ASSUME ShootInv, UNCHANGED <<locked, touching, panMoves, lockedBefore, stops, starts>>
  PROVE  ShootInv'
BY DEF ShootInv, ShootModeKeepsFinger

\* Locking plants the finger, unlocking frees it.
LEMMA ToggleKeeps ==
  ASSUME ShootInv, NEW on \in BOOLEAN, ToggleCursorLock(on), lockedBefore' \in BOOLEAN,
         UNCHANGED <<panMoves, stops, starts>>
  PROVE  ShootInv'
BY DEF ToggleCursorLock, ShootInv, ShootModeKeepsFinger

LEMMA ForceUnlocks ==
  ASSUME ShootInv, NEW on \in BOOLEAN, ForceCustomKeymap(on), UNCHANGED <<panMoves, stops, starts>>
  PROVE  ShootInv'
BY DEF ForceCustomKeymap, ShootInv, ShootModeKeepsFinger

\* A re-plant takes both flags of the property out of the way.
LEMMA ReplantKeeps ==
  ASSUME ShootInv, Replant, touching' \in BOOLEAN, UNCHANGED <<locked, lockedBefore>>
  PROVE  ShootInv'
<1>1. /\ stops' \in Nat /\ starts' \in Nat /\ stops' <= starts' /\ starts' # 0
  BY DEF ShootInv, Replant
<1>2. panMoves' \in BOOLEAN /\ locked' \in BOOLEAN /\ lockedBefore' \in BOOLEAN
  BY Zenon DEF ShootInv, Replant
<1> QED BY <1>1, <1>2, Zenon DEF ShootInv, ShootModeKeepsFinger

LEMMA PlantedKeeps ==
  ASSUME ShootInv, touching' = TRUE, UNCHANGED <<locked, lockedBefore, panMoves, stops, starts>>
  PROVE  ShootInv'
BY Zenon DEF ShootInv, ShootModeKeepsFinger

LEMMA ShootInit == KeymapInit => ShootInv
<1>1. KeymapInit => /\ locked = FALSE /\ touching = FALSE /\ panMoves = TRUE
                    /\ lockedBefore = FALSE /\ stops = 0 /\ starts = 0
  BY Zenon DEF KeymapInit
<1>2. stops = 0 /\ starts = 0 => stops \in Nat /\ starts \in Nat /\ stops <= starts
  OBVIOUS
<1> QED BY <1>1, <1>2, Zenon DEF ShootInv, ShootModeKeepsFinger

LEMMA ShootStep == ShootInv /\ [KeymapNext]_vars => ShootInv'
<1> SUFFICES ASSUME ShootInv, [KeymapNext]_vars PROVE ShootInv'
  OBVIOUS
<1> USE DEF panVars, lockVars
<1>1. ASSUME NEW k \in Keys, NEW press \in BOOLEAN, KeyEvent(k, press) PROVE ShootInv'
  <2>1. CASE UNCHANGED panVars
    BY <1>1, <2>1, ShootKept DEF KeyEvent
  <2>2. CASE GameKey(k, press) /\ EyesKey(press)
    <3>1. UNCHANGED <<locked, lockedBefore>>
      BY <1>1 DEF KeyEvent
    <3>2. \/ Replant /\ UNCHANGED touching
          \/ touching' = TRUE /\ UNCHANGED <<panMoves, stops, starts>>
      BY <2>2 DEF EyesKey
    <3>3. touching \in BOOLEAN
      BY DEF ShootInv
    <3> QED BY <3>1, <3>2, <3>3, ReplantKeeps, PlantedKeeps
  <2> QED BY <1>1, <2>1, <2>2 DEF KeyEvent, GameKey
<1>2. ASSUME NEW k \in SwitchKeys, NEW release \in BOOLEAN, RepeatKey(k, release) PROVE ShootInv'
  BY <1>2, ShootKept DEF RepeatKey
<1>3. ASSUME NEW b \in Buttons, NEW press \in BOOLEAN, MouseButton(b, press) PROVE ShootInv'
  BY <1>3, ShootKept DEF MouseButton
<1>4. ASSUME NEW edge \in BOOLEAN, PanMove(edge) PROVE ShootInv'
  <2>1. UNCHANGED <<locked, lockedBefore>>
    BY <1>4 DEF PanMove
  <2>2. \/ touching' = TRUE /\ Replant
        \/ touching' = TRUE /\ UNCHANGED <<panMoves, stops, starts>>
        \/ UNCHANGED <<touching, panMoves, stops, starts>>
    BY <1>4, Zenon DEF PanMove
  <2> QED BY <2>1, <2>2, ReplantKeeps, PlantedKeeps, ShootKept
<1>5. CASE FreeMove \/ ResizeWindow
  BY <1>5, ShootKept DEF FreeMove, ResizeWindow
<1>6. CASE LockKey
  <2>1. (~locked) \in BOOLEAN
    OBVIOUS
  <2>2. lockedBefore' \in BOOLEAN
    BY <1>6, Zenon DEF LockKey, ShootInv
  <2> QED BY <1>6, <2>1, <2>2, ToggleKeeps DEF LockKey
<1>7. CASE SuspendKey
  <2>1. lockedBefore' \in BOOLEAN /\ UNCHANGED <<panMoves, stops, starts>>
    BY <1>7 DEF SuspendKey, ShootInv
  <2>2. \/ ToggleCursorLock(FALSE) \/ ToggleCursorLock(TRUE)
        \/ UNCHANGED <<locked, lockedBefore, touching>>
    BY <1>7 DEF SuspendKey
  <2> QED BY <2>1, <2>2, ToggleKeeps, ShootKept
<1>8. CASE SwitchGameMap \/ FocusChange
  <2>1. ForceCustomKeymap(~gameMap) /\ UNCHANGED <<panMoves, stops, starts>>
    BY <1>8 DEF SwitchGameMap, FocusChange
  <2> QED BY <2>1, ForceUnlocks
<1>9. CASE WheelTimer \/ DragTimer
  BY <1>9, ShootKept DEF WheelTimer, DragTimer
<1>10. CASE LiftForReplant
  <2>1. /\ stops' \in Nat /\ starts' \in Nat /\ stops' <= starts' /\ starts' # 0
    BY <1>10 DEF LiftForReplant, ShootInv
  <2>2. /\ panMoves' \in BOOLEAN /\ locked' \in BOOLEAN /\ lockedBefore' \in BOOLEAN
        /\ touching' \in BOOLEAN
    BY <1>10, Zenon DEF LiftForReplant, ShootInv
  <2> QED BY <2>1, <2>2, Zenon DEF ShootInv, ShootModeKeepsFinger
<1>11. CASE PlantAgain
  <2>1. stops' \in Nat /\ starts' \in Nat /\ stops' <= starts'
    BY <1>11 DEF PlantAgain, ShootInv
  <2>2. /\ panMoves' = TRUE /\ touching' = TRUE
        /\ locked' \in BOOLEAN /\ lockedBefore' \in BOOLEAN
    BY <1>11, Zenon DEF PlantAgain, ShootInv
  <2> QED BY <2>1, <2>2, Zenon DEF ShootInv, ShootModeKeepsFinger
<1>12. ASSUME NEW b \in 1..MaxBursts, BurstTimer(b) PROVE ShootInv'
  BY <1>12, ShootKept DEF BurstTimer
<1>13. CASE UNCHANGED vars
  BY <1>13, ShootKept DEF vars
<1> QED BY <1>1, <1>2, <1>3, <1>4, <1>5, <1>6, <1>7, <1>8, <1>9, <1>10, <1>11, <1>12, <1>13
        DEF KeymapNext, Timers

\* While shoot-mode is on and no re-plant is under way its finger is planted
\* and movements move it, whatever the user does (toggleCursorLock,
\* processMouseMove and its timers, the small-eyes key, the suspend key).
THEOREM FingerKept == KeymapSpec => []ShootModeKeepsFinger
<1>1. ShootInv => ShootModeKeepsFinger
  BY DEF ShootInv
<1> QED BY <1>1, ShootInit, ShootStep, PTL DEF KeymapSpec

-----------------------------------------------------------------------------
(***************************************************************************)
(* Gestures.  For a steady user the fingers on the phone are at any time   *)
(* the ones asked for: one per click key, switch key and button that is    *)
(* held where the keymap decides, one for the wheel, one for the drag, the *)
(* pan finger, and one per multi-click between a DOWN and its UP.  Nothing *)
(* bounds them by the size of the table: while ids last the two are equal, *)
(* which is why ids last as long as fewer fingers are asked for than there *)
(* are; once a touch has been refused, fingers may be missing, and still   *)
(* none is there that nobody asks for.  The keys of the drags whose path   *)
(* was empty are let out.                                                  *)
(***************************************************************************)

OddOf(bs, k) == {b \in Odd(bs) : bs[b].key = k}
MultiIds(t) == {i \in Ids : t.ids[i] \in MultiKeys}

\* The fingers of t, but for those of the owners in X, are of owners in W, one
\* each, and of multi-clicks of bs that are down.
AtMost(t, X, W, bs) ==
  /\ TouchOK(t)
  /\ \A i, j \in Ids : t.ids[i] = t.ids[j] /\ t.ids[i] \in Singles \ X => i = j
  /\ \A k \in Singles \ X : IdsOf(t, k) # {} => k \in W
  /\ \A k \in MultiKeys : Cardinality(IdsOf(t, k)) <= Cardinality(OddOf(bs, k))

\* And none of them is missing.
AtLeast(t, X, W, bs) ==
  /\ \A k \in Singles \ X : k \in W => IdsOf(t, k) # {}
  /\ \A k \in MultiKeys : Cardinality(IdsOf(t, k)) = Cardinality(OddOf(bs, k))
  /\ Cardinality(MultiIds(t)) = Cardinality(Odd(bs))

Clean(t, X, W, bs) ==
  AtMost(t, X, W, bs) /\ (t.misused = FALSE => AtLeast(t, X, W, bs))

LEMMA IdsFinite == IsFiniteSet(Ids) /\ Cardinality(Ids) = MaxTouch
<1>1. 0 \in Int /\ MaxTouch - 1 \in Int /\ ~(0 > MaxTouch - 1) /\ (MaxTouch - 1) - 0 + 1 = MaxTouch
  BY KeymapAssumption
<1> QED BY <1>1, FS_Interval DEF Ids

\* Its part of the phone's slots
LEMMA IdsOfFinite ==
  ASSUME NEW t, NEW k PROVE IsFiniteSet(IdsOf(t, k)) /\ IsFiniteSet(MultiIds(t))
<1>1. IdsOf(t, k) \in SUBSET Ids /\ MultiIds(t) \in SUBSET Ids
  BY DEF IdsOf, MultiIds
<1> QED BY <1>1, IdsFinite, FS_Subset

LEMMA OddFinite ==
  ASSUME NEW bs, NEW k
  PROVE  /\ IsFiniteSet(Odd(bs)) /\ Cardinality(Odd(bs)) \in Nat /\ Cardinality(Odd(bs)) <= MaxBursts
         /\ IsFiniteSet(OddOf(bs, k))
<1>1. IsFiniteSet(1..MaxBursts) /\ Cardinality(1..MaxBursts) = MaxBursts
  <2>1. 1 \in Int /\ MaxBursts \in Int /\ MaxBursts \in Nat
    BY KeymapAssumption
  <2>2. Cardinality(1..MaxBursts) = IF 1 > MaxBursts THEN 0 ELSE MaxBursts - 1 + 1
    BY <2>1, FS_Interval
  <2>3. Cardinality(1..MaxBursts) = MaxBursts
    BY <2>1, <2>2
  <2> QED BY <2>1, <2>3, FS_Interval
<1>2. Odd(bs) \in SUBSET (1..MaxBursts) /\ OddOf(bs, k) \in SUBSET (1..MaxBursts)
  BY DEF Odd, OddOf
<1> QED BY <1>1, <1>2, FS_Subset, FS_CardinalityType

LEMMA UnionBound ==
  ASSUME NEW S, NEW T, IsFiniteSet(S), IsFiniteSet(T)
  PROVE  /\ IsFiniteSet(S \cup T)
         /\ Cardinality(S \cup T) \in Nat /\ Cardinality(S) \in Nat /\ Cardinality(T) \in Nat
         /\ Cardinality(S \cup T) <= Cardinality(S) + Cardinality(T)
<1>1. IsFiniteSet(S \cup T) /\ IsFiniteSet(S \cap T)
  BY FS_Union, FS_Intersection
<1>2. Cardinality(S \cup T) = Cardinality(S) + Cardinality(T) - Cardinality(S \cap T)
  BY FS_Union
<1>3. /\ Cardinality(S \cup T) \in Nat /\ Cardinality(S \cap T) \in Nat
      /\ Cardinality(S) \in Nat /\ Cardinality(T) \in Nat
  BY <1>1, FS_CardinalityType
<1> QED BY <1>1, <1>2, <1>3

\* While fewer fingers are asked for than there are ids, attachTouchID() finds one.
LEMMA FreeSlot ==
  ASSUME NEW t, NEW W \in SUBSET Singles, NEW bs, Clean(t, {}, W, bs), t.misused = FALSE,
         IsFiniteSet(W), Cardinality(W) + Cardinality(Odd(bs)) < MaxTouch
  PROVE  IdsOf(t, NoKey) # {}
<1> SUFFICES ASSUME IdsOf(t, NoKey) = {} PROVE FALSE
  OBVIOUS
<1> DEFINE A == {i \in Ids : t.ids[i] \in Singles}
<1>0. /\ \A i, j \in Ids : t.ids[i] = t.ids[j] /\ t.ids[i] \in Singles => i = j
      /\ \A k \in Singles : IdsOf(t, k) # {} => k \in W
      /\ Cardinality(MultiIds(t)) = Cardinality(Odd(bs))
  BY DEF Clean, AtMost, AtLeast
<1>1. t.ids \in [Ids -> Owners \cup {NoKey}]
  BY DEF Clean, AtMost, TouchOK
<1>2. \A i \in Ids : t.ids[i] \in Owners
  BY <1>1 DEF IdsOf
<1>3. Ids = A \cup MultiIds(t)
  BY <1>2 DEF Singles, MultiIds
<1>4. IsFiniteSet(A)
  <2>1. A \in SUBSET Ids
    OBVIOUS
  <2> QED BY <2>1, IdsFinite, FS_Subset
<1>5. [i \in A |-> t.ids[i]] \in Injection(A, W)
  <2>1. ASSUME NEW i \in A PROVE t.ids[i] \in W
    <3>1. i \in IdsOf(t, t.ids[i]) /\ t.ids[i] \in Singles
      BY DEF IdsOf
    <3> QED BY <1>0, <3>1
  <2>2. ASSUME NEW i \in A, NEW j \in A, t.ids[i] = t.ids[j] PROVE i = j
    BY <1>0, <2>2
  <2> QED BY <2>1, <2>2 DEF Injection, IsInjective
<1>6. Cardinality(A) <= Cardinality(W)
  BY <1>5, FS_Injection
<1>7. Cardinality(Ids) <= Cardinality(A) + Cardinality(MultiIds(t))
  BY <1>3, <1>4, IdsOfFinite, UnionBound
<1>8. /\ Cardinality(A) \in Nat /\ Cardinality(W) \in Nat /\ Cardinality(Odd(bs)) \in Nat
      /\ MaxTouch \in Nat
  BY <1>4, OddFinite, FS_CardinalityType, KeymapAssumption
<1> HIDE DEF A
<1> QED BY <1>0, <1>6, <1>7, <1>8, IdsFinite

\* What a DOWN does to the table when an id is free ...
LEMMA DownSlot ==
  ASSUME NEW t, TouchOK(t), NEW k \in Owners, IdsOf(t, NoKey) # {}
  PROVE  \E i \in Ids : /\ t.ids[i] = NoKey
                        /\ TouchDown(t, k).ids = [t.ids EXCEPT ![i] = k]
                        /\ TouchDown(t, k).misused = t.misused
<1> DEFINE i == FirstOf(IdsOf(t, NoKey))
<1>1. IdsOf(t, NoKey) \in SUBSET Nat
  BY KeymapAssumption DEF IdsOf, Ids
<1>2. i \in IdsOf(t, NoKey)
  BY <1>1, FirstIsMember
<1>3. TouchDown(t, k) = [t EXCEPT !.ids[i] = k, !.down = t.down \cup {i}]
  BY DEF TouchDown
<1> HIDE DEF i
<1>4. TouchDown(t, k).ids = [t.ids EXCEPT ![i] = k] /\ TouchDown(t, k).misused = t.misused
  BY <1>3 DEF TouchOK
<1> QED BY <1>2, <1>4 DEF IdsOf

\* ... and an UP when the owner has one.
LEMMA UpSlot ==
  ASSUME NEW t, TouchOK(t), NEW k, IdsOf(t, k) # {}
  PROVE  \E i \in Ids : /\ t.ids[i] = k
                        /\ TouchUp(t, k).ids = [t.ids EXCEPT ![i] = NoKey]
                        /\ TouchUp(t, k).misused = t.misused
<1> DEFINE i == FirstOf(IdsOf(t, k))
<1>1. IdsOf(t, k) \in SUBSET Nat
  BY KeymapAssumption DEF IdsOf, Ids
<1>2. i \in IdsOf(t, k)
  BY <1>1, FirstIsMember
<1>3. TouchUp(t, k) = [t EXCEPT !.ids[i] = NoKey, !.down = t.down \ {i}]
  BY DEF TouchUp
<1> HIDE DEF i
<1>4. TouchUp(t, k).ids = [t.ids EXCEPT ![i] = NoKey] /\ TouchUp(t, k).misused = t.misused
  BY <1>3 DEF TouchOK
<1> QED BY <1>2, <1>4 DEF IdsOf

LEMMA OwnersApart == NoKey \notin Owners /\ NoKey \notin Singles /\ NoKey \notin MultiKeys
BY KeymapAssumption DEF Singles, Owners, Keys

\* A finger for an owner that has none, if an id is free
LEMMA DownSingle ==
  ASSUME NEW t, NEW X, NEW W, NEW bs, Clean(t, X, W, bs), NEW k \in Singles, k \notin W
  PROVE  Clean(TouchDown(t, k), X, W \cup {k}, bs)
<1> DEFINE u == TouchDown(t, k)
<1>1. TouchOK(t) /\ t.ids \in [Ids -> Owners \cup {NoKey}] /\ k \in Owners
  BY DEF Clean, AtMost, TouchOK, Singles
<1>2. TouchOK(u)
  BY <1>1, DownKeeps
<1>3. CASE IdsOf(t, NoKey) = {}
  <2>1. u.ids = t.ids /\ u.misused = TRUE
    BY <1>1, <1>3 DEF TouchDown, TouchOK
  <2> HIDE DEF u
  <2>2. \A m : IdsOf(u, m) = IdsOf(t, m)
    BY <2>1 DEF IdsOf
  <2>3. AtMost(u, X, W \cup {k}, bs)
    BY <1>2, <2>1, <2>2 DEF Clean, AtMost
  <2> QED BY <2>1, <2>3 DEF Clean, u
<1>4. CASE IdsOf(t, NoKey) # {}
  <2>1. PICK i \in Ids : /\ t.ids[i] = NoKey /\ u.ids = [t.ids EXCEPT ![i] = k]
                         /\ u.misused = t.misused
    BY <1>1, <1>4, DownSlot
  <2> HIDE DEF u
  <2>2. u.ids[i] = k /\ \A j \in Ids \ {i} : u.ids[j] = t.ids[j]
    BY <1>1, <2>1
  <2>3. k \notin X => \A j \in Ids : t.ids[j] # k
    BY DEF Clean, AtMost, IdsOf
  <2>4. k \notin MultiKeys /\ k # NoKey
    BY OwnersApart DEF Singles
  <2>5. \A h, j \in Ids : u.ids[h] = u.ids[j] /\ u.ids[h] \in Singles \ X => h = j
    BY <2>2, <2>3 DEF Clean, AtMost
  <2>6. \A m \in Owners \ {k} : IdsOf(u, m) = IdsOf(t, m)
    BY <2>1, <2>2, OwnersApart DEF IdsOf
  <2>7. IdsOf(u, k) # {}
    BY <2>2 DEF IdsOf
  <2>8. MultiKeys \subseteq Owners \ {k} /\ Singles \subseteq Owners
    BY <2>4 DEF Owners, Keys, Singles
  <2>9. MultiIds(u) = MultiIds(t)
    BY <2>1, <2>2, <2>4, OwnersApart DEF MultiIds
  <2>10. AtMost(u, X, W \cup {k}, bs)
    BY <1>2, <2>5, <2>6, <2>8 DEF Clean, AtMost
  <2>11. t.misused = FALSE => AtLeast(u, X, W \cup {k}, bs)
    BY <2>6, <2>7, <2>8, <2>9 DEF Clean, AtLeast
  <2> QED BY <2>1, <2>10, <2>11 DEF Clean, u
<1> QED BY <1>3, <1>4

\* The finger of an owner is lifted, if it has one.
LEMMA UpSingle ==
  ASSUME NEW t, NEW X, NEW W, NEW bs, Clean(t, X, W, bs), NEW k \in Singles
  PROVE  Clean(TouchUp(t, k), X, W \ {k}, bs)
<1> DEFINE u == TouchUp(t, k)
<1>1. TouchOK(t) /\ t.ids \in [Ids -> Owners \cup {NoKey}]
  BY DEF Clean, AtMost, TouchOK
<1>2. TouchOK(u)
  BY <1>1, UpKeeps
<1>3. CASE IdsOf(t, k) = {}
  <2>1. u.ids = t.ids /\ u.misused = TRUE
    BY <1>1, <1>3 DEF TouchUp, TouchOK
  <2> HIDE DEF u
  <2>2. \A m : IdsOf(u, m) = IdsOf(t, m)
    BY <2>1 DEF IdsOf
  <2>3. AtMost(u, X, W \ {k}, bs)
    BY <1>2, <1>3, <2>1, <2>2 DEF Clean, AtMost
  <2> QED BY <2>1, <2>3 DEF Clean, u
<1>4. CASE IdsOf(t, k) # {}
  <2>1. PICK i \in Ids : /\ t.ids[i] = k /\ u.ids = [t.ids EXCEPT ![i] = NoKey]
                         /\ u.misused = t.misused
    BY <1>1, <1>4, UpSlot
  <2> HIDE DEF u
  <2>2. u.ids[i] = NoKey /\ \A j \in Ids \ {i} : u.ids[j] = t.ids[j]
    BY <1>1, <2>1
  <2>3. k \notin X => \A j \in Ids : t.ids[j] = k => j = i
    BY <2>1 DEF Clean, AtMost
  <2>4. k \notin MultiKeys
    BY DEF Singles
  <2>5. \A h, j \in Ids : u.ids[h] = u.ids[j] /\ u.ids[h] \in Singles \ X => h = j
    BY <2>2, OwnersApart DEF Clean, AtMost
  <2>6. \A m \in Owners \ {k} : IdsOf(u, m) = IdsOf(t, m)
    BY <2>1, <2>2, OwnersApart DEF IdsOf
  <2>7. k \notin X => IdsOf(u, k) = {}
    BY <2>2, <2>3, OwnersApart DEF IdsOf
  <2>8. MultiKeys \subseteq Owners \ {k} /\ Singles \subseteq Owners
    BY <2>4 DEF Owners, Keys, Singles
  <2>9. MultiIds(u) = MultiIds(t)
    BY <2>1, <2>2, <2>4, OwnersApart DEF MultiIds
  <2>10. AtMost(u, X, W \ {k}, bs)
    BY <1>2, <2>5, <2>6, <2>7, <2>8 DEF Clean, AtMost
  <2>11. t.misused = FALSE => AtLeast(u, X, W \ {k}, bs)
    BY <2>6, <2>8, <2>9 DEF Clean, AtLeast
  <2> QED BY <2>1, <2>10, <2>11 DEF Clean, u
<1> QED BY <1>3, <1>4

LEMMA MoveClean ==
  ASSUME NEW t, NEW X, NEW W, NEW bs, Clean(t, X, W, bs), NEW k
  PROVE  Clean(TouchMove(t, k), X, W, bs)
<1> DEFINE u == TouchMove(t, k)
<1>1. TouchOK(t)
  BY DEF Clean, AtMost
<1>2. TouchOK(u)
  BY <1>1, MoveKeeps
<1>3. u = t \/ (u.ids = t.ids /\ u.misused = TRUE)
  BY <1>1 DEF TouchMove, TouchOK
<1> HIDE DEF u
<1>4. CASE u = t
  BY <1>4 DEF u
<1>5. CASE u.ids = t.ids /\ u.misused = TRUE
  <2>1. \A m : IdsOf(u, m) = IdsOf(t, m)
    BY <1>5 DEF IdsOf
  <2>2. AtMost(u, X, W, bs)
    BY <1>2, <1>5, <2>1 DEF Clean, AtMost
  <2> QED BY <1>5, <2>2 DEF Clean, u
<1> QED BY <1>3, <1>4, <1>5

\* A drag ends with its finger down: from now on its key is let out.
LEMMA StrandClean ==
  ASSUME NEW t, NEW X, NEW W, NEW bs, Clean(t, X, W, bs), NEW k
  PROVE  Clean(t, X \cup {k}, W \ {k}, bs)
BY DEF Clean, AtMost, AtLeast

\* The numbers a multi-click's steps change by one
LEMMA MultiCounts ==
  ASSUME NEW t, NEW bs, NEW k
  PROVE  /\ Cardinality(IdsOf(t, k)) \in Nat /\ Cardinality(OddOf(bs, k)) \in Nat
         /\ Cardinality(MultiIds(t)) \in Nat /\ Cardinality(Odd(bs)) \in Nat
BY IdsOfFinite, OddFinite, FS_CardinalityType

\* The click of multi-click b goes down, if an id is free.
LEMMA DownBurst ==
  ASSUME NEW t, NEW X, NEW W, NEW bs, NEW cs, Clean(t, X, W, bs), NEW k \in MultiKeys,
         NEW b, b \notin Odd(bs), Odd(cs) = Odd(bs) \cup {b},
         OddOf(cs, k) = OddOf(bs, k) \cup {b},
         \A m \in MultiKeys \ {k} : OddOf(cs, m) = OddOf(bs, m)
  PROVE  Clean(TouchDown(t, k), X, W, cs)
<1> DEFINE u == TouchDown(t, k)
<1>1. TouchOK(t) /\ t.ids \in [Ids -> Owners \cup {NoKey}] /\ k \in Owners
  BY DEF Clean, AtMost, TouchOK, Owners, Keys
<1>2. TouchOK(u)
  BY <1>1, DownKeeps
<1>3. Cardinality(OddOf(cs, k)) = Cardinality(OddOf(bs, k)) + 1
  <2>1. b \notin OddOf(bs, k)
    BY DEF OddOf
  <2>2. Cardinality(OddOf(bs, k) \cup {b}) = Cardinality(OddOf(bs, k)) + 1
    BY <2>1, OddFinite, FS_AddElement
  <2> QED BY <2>2
<1>4. CASE IdsOf(t, NoKey) = {}
  <2>1. u.ids = t.ids /\ u.misused = TRUE
    BY <1>1, <1>4 DEF TouchDown, TouchOK
  <2> HIDE DEF u
  <2>2. \A m : IdsOf(u, m) = IdsOf(t, m)
    BY <2>1 DEF IdsOf
  <2>3. ASSUME NEW m \in MultiKeys PROVE Cardinality(IdsOf(u, m)) <= Cardinality(OddOf(cs, m))
    <3>1. Cardinality(IdsOf(t, m)) <= Cardinality(OddOf(bs, m))
      BY DEF Clean, AtMost
    <3>2. CASE m = k
      BY <1>3, <2>2, <3>1, <3>2, MultiCounts
    <3>3. CASE m # k
      BY <2>2, <3>1, <3>3
    <3> QED BY <3>2, <3>3
  <2>4. AtMost(u, X, W, cs)
    BY <1>2, <2>1, <2>2, <2>3 DEF Clean, AtMost
  <2> QED BY <2>1, <2>4 DEF Clean, u
<1>5. CASE IdsOf(t, NoKey) # {}
  <2>1. PICK i \in Ids : /\ t.ids[i] = NoKey /\ u.ids = [t.ids EXCEPT ![i] = k]
                         /\ u.misused = t.misused
    BY <1>1, <1>5, DownSlot
  <2> HIDE DEF u
  <2>2. u.ids[i] = k /\ \A j \in Ids \ {i} : u.ids[j] = t.ids[j]
    BY <1>1, <2>1
  <2>3. k \notin Singles
    BY DEF Singles
  <2>4. \A h, j \in Ids : u.ids[h] = u.ids[j] /\ u.ids[h] \in Singles \ X => h = j
    BY <2>2, <2>3 DEF Clean, AtMost
  <2>5. \A m \in Owners \ {k} : IdsOf(u, m) = IdsOf(t, m)
    BY <2>1, <2>2, OwnersApart DEF IdsOf
  <2>6. Singles \subseteq Owners \ {k} /\ MultiKeys \subseteq Owners
    BY <2>3 DEF Owners, Keys, Singles
  <2>7. Cardinality(IdsOf(u, k)) = Cardinality(IdsOf(t, k)) + 1
    <3>1. IdsOf(u, k) = IdsOf(t, k) \cup {i} /\ i \notin IdsOf(t, k)
      BY <2>1, <2>2, OwnersApart DEF IdsOf
    <3> QED BY <3>1, IdsOfFinite, FS_AddElement
  <2>8. Cardinality(MultiIds(u)) = Cardinality(MultiIds(t)) + 1
    <3>1. MultiIds(u) = MultiIds(t) \cup {i} /\ i \notin MultiIds(t)
      BY <2>1, <2>2, OwnersApart DEF MultiIds
    <3> QED BY <3>1, IdsOfFinite, FS_AddElement
  <2>9. Cardinality(Odd(cs)) = Cardinality(Odd(bs)) + 1
    BY OddFinite, FS_AddElement
  <2>10. ASSUME NEW m \in MultiKeys
         PROVE  /\ Cardinality(IdsOf(u, m)) <= Cardinality(OddOf(cs, m))
                /\ Cardinality(IdsOf(t, m)) = Cardinality(OddOf(bs, m))
                     => Cardinality(IdsOf(u, m)) = Cardinality(OddOf(cs, m))
    <3>1. Cardinality(IdsOf(t, m)) <= Cardinality(OddOf(bs, m))
      BY DEF Clean, AtMost
    <3>2. CASE m = k
      <4>1. Cardinality(IdsOf(t, k)) \in Nat /\ Cardinality(OddOf(bs, k)) \in Nat
        BY MultiCounts
      <4>2. Cardinality(IdsOf(t, k)) <= Cardinality(OddOf(bs, k))
        BY <3>1, <3>2
      <4>3. /\ Cardinality(IdsOf(u, k)) <= Cardinality(OddOf(cs, k))
            /\ Cardinality(IdsOf(t, k)) = Cardinality(OddOf(bs, k))
                 => Cardinality(IdsOf(u, k)) = Cardinality(OddOf(cs, k))
        BY <1>3, <2>7, <4>1, <4>2
      <4> QED BY <3>2, <4>3, Zenon
    <3>3. CASE m # k
      BY <2>5, <2>6, <3>1, <3>3
    <3> QED BY <3>2, <3>3
  <2>11. AtMost(u, X, W, cs)
    BY <1>2, <2>4, <2>5, <2>6, <2>10 DEF Clean, AtMost
  <2>12. t.misused = FALSE => AtLeast(u, X, W, cs)
    BY <2>5, <2>6, <2>8, <2>9, <2>10 DEF Clean, AtLeast
  <2> QED BY <2>1, <2>11, <2>12 DEF Clean, u
<1> QED BY <1>4, <1>5

\* It goes up again, if it was down.
LEMMA UpBurst ==
  ASSUME NEW t, NEW X, NEW W, NEW bs, NEW cs, Clean(t, X, W, bs), NEW k \in MultiKeys,
         NEW b, b \in OddOf(bs, k), Odd(cs) = Odd(bs) \ {b},
         OddOf(cs, k) = OddOf(bs, k) \ {b},
         \A m \in MultiKeys \ {k} : OddOf(cs, m) = OddOf(bs, m)
  PROVE  Clean(TouchUp(t, k), X, W, cs)
<1> DEFINE u == TouchUp(t, k)
<1>1. TouchOK(t) /\ t.ids \in [Ids -> Owners \cup {NoKey}]
  BY DEF Clean, AtMost, TouchOK
<1>2. TouchOK(u)
  BY <1>1, UpKeeps
<1>3. Cardinality(OddOf(cs, k)) = Cardinality(OddOf(bs, k)) - 1
  BY OddFinite, FS_RemoveElement
<1>4. CASE IdsOf(t, k) = {}
  <2>1. u.ids = t.ids /\ u.misused = TRUE
    BY <1>1, <1>4 DEF TouchUp, TouchOK
  <2> HIDE DEF u
  <2>2. \A m : IdsOf(u, m) = IdsOf(t, m)
    BY <2>1 DEF IdsOf
  <2>3. ASSUME NEW m \in MultiKeys PROVE Cardinality(IdsOf(u, m)) <= Cardinality(OddOf(cs, m))
    <3>1. CASE m = k
      <4>1. Cardinality(IdsOf(u, m)) = 0
        BY <1>4, <2>2, <3>1, FS_EmptySet
      <4> QED BY <4>1, MultiCounts
    <3>2. CASE m # k
      BY <2>2, <3>2 DEF Clean, AtMost
    <3> QED BY <3>1, <3>2
  <2>4. AtMost(u, X, W, cs)
    BY <1>2, <2>1, <2>2, <2>3 DEF Clean, AtMost
  <2> QED BY <2>1, <2>4 DEF Clean, u
<1>5. CASE IdsOf(t, k) # {}
  <2>1. PICK i \in Ids : /\ t.ids[i] = k /\ u.ids = [t.ids EXCEPT ![i] = NoKey]
                         /\ u.misused = t.misused
    BY <1>1, <1>5, UpSlot
  <2> HIDE DEF u
  <2>2. u.ids[i] = NoKey /\ \A j \in Ids \ {i} : u.ids[j] = t.ids[j]
    BY <1>1, <2>1
  <2>3. k \notin Singles
    BY DEF Singles
  <2>4. \A h, j \in Ids : u.ids[h] = u.ids[j] /\ u.ids[h] \in Singles \ X => h = j
    BY <2>2, OwnersApart DEF Clean, AtMost
  <2>5. \A m \in Owners \ {k} : IdsOf(u, m) = IdsOf(t, m)
    BY <2>1, <2>2, OwnersApart DEF IdsOf
  <2>6. Singles \subseteq Owners \ {k} /\ MultiKeys \subseteq Owners
    BY <2>3 DEF Owners, Keys, Singles
  <2>7. Cardinality(IdsOf(u, k)) = Cardinality(IdsOf(t, k)) - 1
    <3>1. IdsOf(u, k) = IdsOf(t, k) \ {i} /\ i \in IdsOf(t, k)
      BY <2>1, <2>2, OwnersApart DEF IdsOf
    <3> QED BY <3>1, IdsOfFinite, FS_RemoveElement
  <2>8. Cardinality(MultiIds(u)) = Cardinality(MultiIds(t)) - 1
    <3>1. MultiIds(u) = MultiIds(t) \ {i} /\ i \in MultiIds(t)
      BY <2>1, <2>2, OwnersApart DEF MultiIds
    <3> QED BY <3>1, IdsOfFinite, FS_RemoveElement
  <2>9. Cardinality(Odd(cs)) = Cardinality(Odd(bs)) - 1
    <3>1. b \in Odd(bs)
      BY DEF OddOf
    <3> QED BY <3>1, OddFinite, FS_RemoveElement
  <2>10. ASSUME NEW m \in MultiKeys
         PROVE  /\ Cardinality(IdsOf(u, m)) <= Cardinality(OddOf(cs, m))
                /\ Cardinality(IdsOf(t, m)) = Cardinality(OddOf(bs, m))
                     => Cardinality(IdsOf(u, m)) = Cardinality(OddOf(cs, m))
    <3>1. Cardinality(IdsOf(t, m)) <= Cardinality(OddOf(bs, m))
      BY DEF Clean, AtMost
    <3>2. CASE m = k
      <4>1. Cardinality(IdsOf(t, k)) \in Nat /\ Cardinality(OddOf(bs, k)) \in Nat
        BY MultiCounts
      <4>2. Cardinality(IdsOf(t, k)) <= Cardinality(OddOf(bs, k))
        BY <3>1, <3>2
      <4>3. /\ Cardinality(IdsOf(u, k)) <= Cardinality(OddOf(cs, k))
            /\ Cardinality(IdsOf(t, k)) = Cardinality(OddOf(bs, k))
                 => Cardinality(IdsOf(u, k)) = Cardinality(OddOf(cs, k))
        BY <1>3, <2>7, <4>1, <4>2
      <4> QED BY <3>2, <4>3, Zenon
    <3>3. CASE m # k
      BY <2>5, <2>6, <3>1, <3>3
    <3> QED BY <3>2, <3>3
  <2>11. AtMost(u, X, W, cs)
    BY <1>2, <2>4, <2>5, <2>6, <2>10 DEF Clean, AtMost
  <2>12. t.misused = FALSE => AtLeast(u, X, W, cs)
    BY <2>5, <2>6, <2>8, <2>9, <2>10 DEF Clean, AtLeast
  <2> QED BY <2>1, <2>11, <2>12 DEF Clean, u
<1> QED BY <1>4, <1>5

-----------------------------------------------------------------------------
Wanted == {k \in Singles : Asked(k)}

FingersAsked == Clean(Touch, stranded, Wanted, bursts)

HeldOK == held \subseteq Keys \cup Buttons

WheelOK ==
  /\ pressed = IF gameMap THEN held \cap WheelKeys ELSE {}
  /\ pressed # {} => touchKey \in WheelKeys
  /\ wheelPath \in Nat /\ (wheelPath > 0 => pressed # {})

DragOK ==
  /\ stranded \subseteq DragKeys
  /\ dragTimer = "armed" => dragKey \in DragKeys /\ dragPath \in Nat

\* A press the plain mouse took is still held, by a button it still takes.
MouseOK == mouseDown => \E b \in held \cap Buttons : ~ByKeymap(b)

GesturesOK == FingersAsked /\ HeldOK /\ WheelOK /\ DragOK /\ MouseOK

\* What SetTouch stores is what is asked for next.
LEMMA SetAsked ==
  ASSUME NEW t, NEW W, Clean(t, stranded', W, bursts'), SetTouch(t), Wanted' = W
  PROVE  FingersAsked'
<1>1. TouchOK(t)
  BY DEF Clean, AtMost
<1>2. Touch' = t
  BY <1>1 DEF TouchOK, SetTouch, Touch
<1>3. Clean(Touch', stranded', Wanted', bursts')
  BY <1>2
<1> QED BY <1>3 DEF FingersAsked

LEMMA KeepAsked ==
  ASSUME FingersAsked, UNCHANGED <<touchVars, stranded, bursts>>, Wanted' = Wanted
  PROVE  FingersAsked'
<1>1. Touch' = Touch
  BY DEF touchVars, Touch
<1>2. Clean(Touch', stranded', Wanted', bursts')
  BY <1>1 DEF FingersAsked
<1> QED BY <1>2 DEF FingersAsked

\* A finger more, a finger less
LEMMA DownAsked ==
  ASSUME FingersAsked, NEW k \in Singles, k \notin Wanted,
         SetTouch(TouchDown(Touch, k)), Wanted' = Wanted \cup {k}, UNCHANGED <<stranded, bursts>>
  PROVE  FingersAsked'
<1>1. Clean(TouchDown(Touch, k), stranded, Wanted \cup {k}, bursts)
  BY DownSingle DEF FingersAsked
<1> QED BY <1>1, SetAsked

LEMMA UpAsked ==
  ASSUME FingersAsked, NEW k \in Singles,
         SetTouch(TouchUp(Touch, k)), Wanted' = Wanted \ {k}, UNCHANGED <<stranded, bursts>>
  PROVE  FingersAsked'
<1>1. Clean(TouchUp(Touch, k), stranded, Wanted \ {k}, bursts)
  BY UpSingle DEF FingersAsked
<1> QED BY <1>1, SetAsked

LEMMA PanSingle == PanKey \in Singles /\ (PanKey \in Wanted <=> touching)
<1>1. PanKey \notin Keys /\ PanKey \notin Buttons /\ PanKey \in Singles
  BY KeymapAssumption DEF Singles, Owners, Keys
<1> QED BY <1>1 DEF Wanted, Asked, Keys

\* The pan finger is planted, or was already; it is lifted, or was not down.
LEMMA StartClean ==
  ASSUME FingersAsked
  PROVE  Clean(StartTouch(Touch), stranded, Wanted \cup {PanKey}, bursts)
<1>1. CASE touching
  <2>1. Wanted \cup {PanKey} = Wanted /\ StartTouch(Touch) = Touch
    BY <1>1, PanSingle DEF StartTouch
  <2> QED BY <2>1 DEF FingersAsked
<1>2. CASE ~touching
  <2>1. PanKey \notin Wanted /\ PanKey \in Singles /\ StartTouch(Touch) = TouchDown(Touch, PanKey)
    BY <1>2, PanSingle DEF StartTouch
  <2> QED BY <2>1, DownSingle DEF FingersAsked
<1> QED BY <1>1, <1>2

LEMMA StopClean ==
  ASSUME FingersAsked
  PROVE  Clean(StopTouch(Touch), stranded, Wanted \ {PanKey}, bursts)
<1>1. CASE touching
  <2>1. PanKey \in Singles /\ StopTouch(Touch) = TouchUp(Touch, PanKey)
    BY <1>1, PanSingle DEF StopTouch
  <2> QED BY <2>1, UpSingle DEF FingersAsked
<1>2. CASE ~touching
  <2>1. Wanted \ {PanKey} = Wanted /\ StopTouch(Touch) = Touch
    BY <1>2, PanSingle DEF StopTouch
  <2> QED BY <2>1 DEF FingersAsked
<1> QED BY <1>1, <1>2

LEMMA PanStarts ==
  ASSUME FingersAsked, SetTouch(StartTouch(Touch)), touching' = TRUE,
         \A k \in Singles \ {PanKey} : Asked(k)' <=> Asked(k), UNCHANGED <<stranded, bursts>>
  PROVE  FingersAsked'
<1>1. PanKey \in Wanted'
  BY PanSingle DEF Wanted, Asked
<1>2. Wanted' = Wanted \cup {PanKey}
  BY <1>1, PanSingle DEF Wanted
<1> QED BY <1>2, StartClean, SetAsked

LEMMA PanStops ==
  ASSUME FingersAsked, SetTouch(StopTouch(Touch)), touching' = FALSE,
         \A k \in Singles \ {PanKey} : Asked(k)' <=> Asked(k), UNCHANGED <<stranded, bursts>>
  PROVE  FingersAsked'
<1>1. PanKey \notin Wanted'
  <2>1. PanKey \notin Keys /\ PanKey \notin Buttons
    BY KeymapAssumption
  <2> QED BY <2>1 DEF Wanted, Asked, Keys
<1>2. Wanted' = Wanted \ {PanKey}
  BY <1>1, PanSingle DEF Wanted
<1> QED BY <1>2, StopClean, SetAsked

\* Locking and unlocking the cursor, with no shoot button held
LEMMA ToggleGestures ==
  ASSUME GesturesOK, NEW on \in BOOLEAN, ToggleCursorLock(on),
         held \cap ShootButtons = {},
         UNCHANGED <<mouseDown, held, gameMap, needBack, starts, wheelVars, dragVars, bursts>>
  PROVE  GesturesOK'
<1>0. FingersAsked /\ HeldOK /\ WheelOK /\ DragOK /\ MouseOK
  BY DEF GesturesOK
<1>1. \A k \in Singles \ {PanKey} : Asked(k)' <=> Asked(k)
  BY DEF Asked, ByKeymap, wheelVars, dragVars
<1>2. HeldOK' /\ WheelOK' /\ DragOK'
  BY <1>0 DEF HeldOK, WheelOK, DragOK, wheelVars, dragVars
<1>3. MouseOK'
  <2>1. \A b \in held : ByKeymap(b)' <=> ByKeymap(b)
    BY DEF ByKeymap
  <2> QED BY <1>0, <2>1 DEF MouseOK
<1>4. CASE UNCHANGED <<locked, cursorVars, touchVars, touching>>
  <2>1. Wanted' = Wanted
    <3>1. \A k \in Singles : Asked(k)' <=> Asked(k)
      BY <1>4 DEF Asked, ByKeymap, wheelVars, dragVars
    <3> QED BY <3>1 DEF Wanted
  <2>2. FingersAsked'
    BY <1>0, <1>4, <2>1, KeepAsked DEF dragVars
  <2> QED BY <1>2, <1>3, <2>2 DEF GesturesOK
<1>5. CASE on /\ SetTouch(StartTouch(Touch)) /\ touching' = TRUE
  <2>1. FingersAsked'
    BY <1>0, <1>1, <1>5, PanStarts DEF dragVars
  <2> QED BY <1>2, <1>3, <2>1 DEF GesturesOK
<1>6. CASE ~on /\ locked' = FALSE /\ SetTouch(StopTouch(Touch)) /\ touching' = FALSE
  <2>1. FingersAsked'
    BY <1>0, <1>1, <1>6, PanStops DEF dragVars
  <2> QED BY <1>2, <1>3, <2>1 DEF GesturesOK
<1>7. \/ UNCHANGED <<locked, cursorVars, touchVars, touching>>
      \/ on /\ SetTouch(StartTouch(Touch)) /\ touching' = TRUE
      \/ ~on /\ locked' = FALSE /\ SetTouch(StopTouch(Touch)) /\ touching' = FALSE
  BY Zenon DEF ToggleCursorLock
<1> QED BY <1>4, <1>5, <1>6, <1>7

\* Turning the keymap on and off, with nothing held
LEMMA ForceGestures ==
  ASSUME GesturesOK, NEW on \in BOOLEAN, ForceCustomKeymap(on), held = {}, held' = {},
         UNCHANGED <<mouseDown, starts, wheelVars, dragVars, bursts>>
  PROVE  GesturesOK'
<1>0. FingersAsked /\ HeldOK /\ WheelOK /\ DragOK /\ MouseOK
  BY DEF GesturesOK
<1>1. \A k \in Singles \ {PanKey} : Asked(k)' <=> Asked(k)
  BY DEF Asked, wheelVars, dragVars
<1>2. HeldOK' /\ WheelOK' /\ DragOK' /\ MouseOK'
  BY <1>0 DEF HeldOK, WheelOK, DragOK, MouseOK, wheelVars, dragVars
<1>3. CASE on
  <2>1. UNCHANGED <<locked, touchVars, touching>>
    BY <1>3 DEF ForceCustomKeymap
  <2>2. Wanted' = Wanted
    <3>1. \A k \in Singles : Asked(k)' <=> Asked(k)
      BY <2>1 DEF Asked, wheelVars, dragVars
    <3> QED BY <3>1 DEF Wanted
  <2>3. FingersAsked'
    BY <1>0, <2>1, <2>2, KeepAsked DEF dragVars
  <2> QED BY <1>2, <2>3 DEF GesturesOK
<1>4. CASE ~on
  <2>1. locked' = FALSE /\ SetTouch(StopTouch(Touch)) /\ touching' = FALSE
    BY <1>4, Zenon DEF ForceCustomKeymap
  <2>2. FingersAsked'
    BY <1>0, <1>1, <2>1, PanStops DEF dragVars
  <2> QED BY <1>2, <2>2 DEF GesturesOK
<1> QED BY <1>3, <1>4

\* What a key event leaves alone but for its key
Other(k) == \A m \in Singles \ {k} : Asked(m)' <=> Asked(m)

LEMMA OneMore ==
  ASSUME NEW k \in Singles, Other(k), Asked(k)' PROVE Wanted' = Wanted \cup {k}
BY DEF Other, Wanted

LEMMA OneLess ==
  ASSUME NEW k \in Singles, Other(k), ~Asked(k)' PROVE Wanted' = Wanted \ {k}
BY DEF Other, Wanted

LEMMA SameAsked ==
  ASSUME NEW k, Other(k), k \in Singles => (Asked(k)' <=> Asked(k)) PROVE Wanted' = Wanted
BY DEF Other, Wanted

\* A steady user's button and switch key change nothing but their own finger.
LEMMA HeldOther ==
  ASSUME NEW k \in Keys \cup Buttons, NEW press \in BOOLEAN, Hold(k, press),
         needBack' = needBack \/ held \cap (Buttons \cup SwitchKeys) \subseteq {k},
         UNCHANGED <<gameMap, locked, touching, wheelVars, dragVars>>
  PROVE  Other(k)
<1>1. \A m : m # k => (m \in held' <=> m \in held)
  BY DEF Hold
<1>2. ASSUME NEW m \in Singles \ {k} PROVE Asked(m)' <=> Asked(m)
  <2>1. m \in held' <=> m \in held
    BY <1>1
  <2>2. m \in held /\ m \in Buttons \cup SwitchKeys => needBack' = needBack
    OBVIOUS
  <2> QED BY <2>1, <2>2 DEF Asked, ByKeymap, wheelVars, dragVars
<1> QED BY <1>2 DEF Other

\* The invariants that are not about fingers, when wheel and drag are left alone
LEMMA HeldKeeps ==
  ASSUME GesturesOK, NEW k \in Keys \cup Buttons, k \notin WheelKeys, NEW press \in BOOLEAN,
         Hold(k, press), UNCHANGED <<gameMap, wheelVars>>
  PROVE  HeldOK' /\ WheelOK'
<1>1. HeldOK /\ WheelOK
  BY DEF GesturesOK
<1>2. held' \subseteq held \cup {k} /\ held' \cap WheelKeys = held \cap WheelKeys
  BY DEF Hold
<1> QED BY <1>1, <1>2 DEF HeldOK, WheelOK, wheelVars

LEMMA MouseKeeps ==
  ASSUME GesturesOK, NEW k \in Keys, NEW press \in BOOLEAN, Hold(k, press),
         needBack' = needBack \/ held \cap (Buttons \cup SwitchKeys) \subseteq {k},
         UNCHANGED <<gameMap, locked, mouseDown>>
  PROVE  MouseOK'
<1>1. MouseOK
  BY DEF GesturesOK
<1>2. held' \cap Buttons = held \cap Buttons /\ k \notin Buttons
  BY OneNodePerKey DEF Hold
<1>3. CASE needBack' = needBack
  BY <1>1, <1>2, <1>3 DEF MouseOK, ByKeymap
<1>4. CASE held \cap Buttons = {}
  BY <1>1, <1>2, <1>4 DEF MouseOK
<1> QED BY <1>2, <1>3, <1>4

-----------------------------------------------------------------------------
\* The branches of keyEvent(), for a key the keymap decides about
LEMMA ClickGestures ==
  ASSUME GesturesOK, NEW k \in ClickKeys \cup SwitchKeys, NEW press \in BOOLEAN,
         Hold(k, press), ClickKey(k, press), gameMap \/ (needBack /\ k \in SwitchKeys),
         needBack' = needBack \/ (~press /\ held \cap (Buttons \cup SwitchKeys) \subseteq {k}),
         UNCHANGED <<mouseDown, gameMap, locked, panVars, wheelVars, dragVars, bursts>>
  PROVE  GesturesOK'
<1>0. FingersAsked /\ HeldOK /\ WheelOK /\ DragOK /\ MouseOK
  BY DEF GesturesOK
<1>1. /\ k \in Keys /\ k \in Singles /\ k # PanKey /\ k \notin Buttons
      /\ k \notin WheelKeys /\ k \notin DragKeys
  BY OneNodePerKey, KeymapAssumption DEF Keys, Singles, Owners
<1>2. UNCHANGED <<touching, starts>>
  BY DEF panVars
<1>3. HeldOK' /\ WheelOK' /\ DragOK' /\ MouseOK'
  BY <1>0, <1>1, <1>2, HeldKeeps, MouseKeeps DEF DragOK, dragVars
<1>4. Other(k)
  BY <1>1, <1>2, HeldOther
<1>5. CASE press
  <2>1. k \notin held /\ k \in held' /\ needBack' = needBack
    BY <1>5 DEF Hold
  <2>2. ~Asked(k) /\ Asked(k)'
    BY <1>1, <2>1 DEF Asked
  <2>3. k \notin Wanted /\ Wanted' = Wanted \cup {k}
    BY <1>1, <1>4, <2>2, OneMore DEF Wanted
  <2>4. SetTouch(TouchDown(Touch, k))
    BY <1>5 DEF ClickKey
  <2>5. FingersAsked'
    BY <1>0, <1>1, <1>3, <2>3, <2>4, DownAsked DEF dragVars
  <2> QED BY <1>3, <2>5 DEF GesturesOK
<1>6. CASE ~press
  <2>1. k \in held /\ k \notin held'
    BY <1>6 DEF Hold
  <2>2. Asked(k) /\ ~Asked(k)'
    BY <1>1, <2>1 DEF Asked, wheelVars, dragVars
  <2>3. k \in Wanted /\ Wanted' = Wanted \ {k}
    BY <1>1, <1>4, <2>2, OneLess DEF Wanted
  <2>4. SetTouch(TouchUp(Touch, k))
    BY <1>6 DEF ClickKey
  <2>5. FingersAsked'
    BY <1>0, <1>1, <2>3, <2>4, UpAsked DEF dragVars
  <2> QED BY <1>3, <2>5 DEF GesturesOK
<1> QED BY <1>5, <1>6

\* A key with no finger of its own
LEMMA NoFinger ==
  ASSUME NEW k \in TwiceKeys \cup MultiKeys \cup EyesKeys PROVE ~Asked(k) /\ ~Asked(k)'
<1>1. /\ k # PanKey /\ k \notin Buttons /\ k \notin ClickKeys /\ k \notin SwitchKeys
      /\ k \notin WheelKeys /\ k \notin DragKeys
  BY OneNodePerKey, KeymapAssumption DEF Keys
<1> QED BY <1>1 DEF Asked

LEMMA TwiceGestures ==
  ASSUME GesturesOK, NEW k \in TwiceKeys, NEW press \in BOOLEAN,
         Hold(k, press), TwiceKey(k, press),
         UNCHANGED <<mouseDown, gameMap, needBack, locked, panVars, wheelVars, dragVars, bursts>>
  PROVE  GesturesOK'
<1>0. FingersAsked /\ HeldOK /\ WheelOK /\ DragOK /\ MouseOK
  BY DEF GesturesOK
<1>1. k \in Keys /\ k \in Singles /\ k \notin WheelKeys /\ k \notin DragKeys /\ k \notin EyesKeys
  BY OneNodePerKey, KeymapAssumption DEF Keys, Singles, Owners
<1>2. UNCHANGED <<touching, starts>>
  BY DEF panVars
<1>3. HeldOK' /\ WheelOK' /\ DragOK' /\ MouseOK'
  BY <1>0, <1>1, <1>2, HeldKeeps, MouseKeeps DEF DragOK, dragVars
<1>4. Wanted' = Wanted
  BY <1>1, <1>2, HeldOther, NoFinger, SameAsked
<1>5. k \notin Wanted
  BY NoFinger DEF Wanted
<1>6. Clean(TouchDown(Touch, k), stranded, Wanted \cup {k}, bursts)
  BY <1>0, <1>1, <1>5, DownSingle DEF FingersAsked
<1>7. Clean(TouchUp(TouchDown(Touch, k), k), stranded, (Wanted \cup {k}) \ {k}, bursts)
  BY <1>1, <1>6, UpSingle
<1>8. (Wanted \cup {k}) \ {k} = Wanted
  BY <1>5
<1>9. FingersAsked'
  BY <1>4, <1>7, <1>8, SetAsked DEF TwiceKey, dragVars
<1> QED BY <1>3, <1>9 DEF GesturesOK

\* Multi-clicks that have the same clicks down are the same to the table.
LEMMA SameClicks ==
  ASSUME NEW t, NEW X, NEW W, NEW bs, NEW cs, Clean(t, X, W, bs), Odd(cs) = Odd(bs),
         \A m \in MultiKeys : OddOf(cs, m) = OddOf(bs, m)
  PROVE  Clean(t, X, W, cs)
BY DEF Clean, AtMost, AtLeast

LEMMA MultiGestures ==
  ASSUME GesturesOK, BurstsType, NEW k \in MultiKeys, NEW press \in BOOLEAN,
         Hold(k, press), MultiKey(k, press),
         UNCHANGED <<touchVars, mouseDown, gameMap, needBack, locked, panVars, wheelVars, dragVars>>
  PROVE  GesturesOK'
<1>0. FingersAsked /\ HeldOK /\ WheelOK /\ DragOK /\ MouseOK
  BY DEF GesturesOK
<1>1. k \in Keys /\ k \notin Singles /\ k \notin WheelKeys
  BY OneNodePerKey DEF Keys, Singles
<1>2. UNCHANGED <<touching, starts>>
  BY DEF panVars
<1>3. HeldOK' /\ WheelOK' /\ DragOK' /\ MouseOK'
  BY <1>0, <1>1, <1>2, HeldKeeps, MouseKeeps DEF DragOK, dragVars
<1>4. Wanted' = Wanted
  BY <1>1, <1>2, HeldOther, SameAsked
<1>5. Odd(bursts') = Odd(bursts) /\ \A m \in MultiKeys : OddOf(bursts', m) = OddOf(bursts, m)
  <2>1. CASE ~press
    BY <2>1 DEF MultiKey
  <2>2. CASE press
    <3>1. PICK b \in 1..MaxBursts :
            /\ bursts[b] = Idle
            /\ bursts' = [bursts EXCEPT ![b] = [key |-> k, left |-> 2 * Clicks]]
      BY <2>2 DEF MultiKey
    <3>2. bursts[b].left = 0 /\ bursts'[b].left = 2 * Clicks
      BY <3>1 DEF BurstsType, Idle
    <3>3. bursts[b].left % 2 = 0 /\ bursts'[b].left % 2 = 0
      BY <3>2, KeymapAssumption
    <3>4. \A c \in 1..MaxBursts : c # b => bursts'[c] = bursts[c]
      BY <3>1 DEF BurstsType
    <3>5. \A c \in 1..MaxBursts :
            bursts'[c].left % 2 = 1 <=> bursts[c].left % 2 = 1
      BY <3>3, <3>4
    <3>6. \A c \in 1..MaxBursts : bursts[c].left % 2 = 1 => bursts'[c] = bursts[c]
      BY <3>3, <3>4
    <3>7. Odd(bursts') = Odd(bursts)
      BY <3>5 DEF Odd
    <3> QED BY <3>6, <3>7 DEF OddOf, Odd
  <2> QED BY <2>1, <2>2
<1>6. Clean(Touch, stranded, Wanted, bursts')
  BY <1>0, <1>5, SameClicks DEF FingersAsked
<1>7. Touch' = Touch
  BY DEF touchVars, Touch
<1>8. Clean(Touch', stranded', Wanted', bursts')
  BY <1>4, <1>6, <1>7 DEF dragVars
<1> QED BY <1>3, <1>8 DEF GesturesOK, FingersAsked

LEMMA DragGestures ==
  ASSUME GesturesOK, NEW k \in DragKeys, NEW press \in BOOLEAN,
         Hold(k, press), DragKey(k, press),
         UNCHANGED <<mouseDown, gameMap, needBack, locked, panVars, wheelVars, bursts>>
  PROVE  GesturesOK'
<1>0. FingersAsked /\ HeldOK /\ WheelOK /\ DragOK /\ MouseOK
  BY DEF GesturesOK
<1>1. /\ k \in Keys /\ DragKeys \subseteq Singles /\ k \notin WheelKeys /\ PanKey \notin DragKeys
      /\ k \notin Buttons /\ k \notin ClickKeys /\ k \notin SwitchKeys
      /\ \A m \in DragKeys : m \notin Buttons \cup ClickKeys \cup SwitchKeys \cup WheelKeys
  BY OneNodePerKey, KeymapAssumption DEF Keys, Singles, Owners
<1>2. UNCHANGED <<touching, starts>>
  BY DEF panVars
<1>3. HeldOK' /\ WheelOK' /\ MouseOK'
  BY <1>0, <1>1, <1>2, HeldKeeps, MouseKeeps
<1>4. \A m \in Singles \ DragKeys : Asked(m)' <=> Asked(m)
  <2>1. \A m \in Singles \ DragKeys : m \in held' <=> m \in held
    BY DEF Hold
  <2> QED BY <2>1, <1>2 DEF Asked, ByKeymap, wheelVars
<1>5. \A m \in DragKeys : Asked(m) <=> m = dragKey /\ dragTimer = "armed"
  BY <1>1 DEF Asked
<1>6. \A m \in DragKeys : Asked(m)' <=> m = dragKey' /\ dragTimer' = "armed"
  BY <1>1 DEF Asked
<1>7. CASE ~press
  <2>1. UNCHANGED <<touchVars, dragKey, dragPath, dragTimer, stranded>>
    BY <1>7 DEF DragKey, dragVars
  <2>2. DragOK'
    BY <1>0, <2>1 DEF DragOK
  <2>3. Wanted' = Wanted
    BY <1>4, <1>5, <1>6, <2>1 DEF Wanted
  <2> QED BY <1>0, <1>3, <2>1, <2>2, <2>3, KeepAsked DEF GesturesOK
<1>8. CASE press
  <2> DEFINE t == IF dragTimer = "armed" THEN TouchUp(Touch, dragKey) ELSE Touch
             W == Wanted \ DragKeys
  <2>1. SetTouch(TouchDown(t, k)) /\ dragKey' = k /\ dragTimer' = "armed" /\ dragPath' \in PathLens
         /\ stranded' = stranded
    BY <1>8 DEF DragKey
  <2>2. Clean(t, stranded, W, bursts)
    <3>1. CASE dragTimer = "armed"
      <4>1. dragKey \in DragKeys
        BY <1>0, <3>1 DEF DragOK
      <4>2. W = Wanted \ {dragKey}
        BY <1>5, <4>1 DEF Wanted
      <4> HIDE DEF W
      <4>3. t = TouchUp(Touch, dragKey)
        BY <3>1
      <4> QED BY <1>0, <1>1, <4>1, <4>2, <4>3, UpSingle DEF FingersAsked
    <3>2. CASE dragTimer # "armed"
      <4>1. W = Wanted
        BY <1>5, <3>2 DEF Wanted
      <4> QED BY <1>0, <3>2, <4>1 DEF FingersAsked
    <3> QED BY <3>1, <3>2
  <2>3. Wanted' = W \cup {k}
    BY <1>1, <1>4, <1>6, <2>1 DEF Wanted
  <2>4. k \notin W /\ k \in Singles
    BY <1>1
  <2> HIDE DEF t, W
  <2>5. Clean(TouchDown(t, k), stranded, W \cup {k}, bursts)
    BY <2>2, <2>4, DownSingle
  <2>6. FingersAsked'
    BY <2>1, <2>3, <2>5, SetAsked
  <2>7. DragOK'
    BY <1>0, <2>1, KeymapAssumption DEF DragOK
  <2> QED BY <1>3, <2>6, <2>7 DEF GesturesOK
<1> QED BY <1>7, <1>8

LEMMA EyesGestures ==
  ASSUME GesturesOK, NEW k \in EyesKeys, NEW press \in BOOLEAN,
         Hold(k, press), EyesKey(press),
         UNCHANGED <<mouseDown, gameMap, needBack, locked, wheelVars, dragVars, bursts>>
  PROVE  GesturesOK'
<1>0. FingersAsked /\ HeldOK /\ WheelOK /\ DragOK /\ MouseOK
  BY DEF GesturesOK
<1>1. k \in Keys /\ k \notin WheelKeys
  BY OneNodePerKey DEF Keys
<1>2. HeldOK' /\ WheelOK' /\ DragOK' /\ MouseOK'
  BY <1>0, <1>1, HeldKeeps, MouseKeeps DEF DragOK, dragVars
<1>3. \A m \in Singles \ {PanKey} : Asked(m)' <=> Asked(m)
  <2>1. \A m : m # k => (m \in held' <=> m \in held)
    BY DEF Hold
  <2>2. \A m \in Singles \ {PanKey, k} : Asked(m)' <=> Asked(m)
    BY <2>1 DEF Asked, ByKeymap, wheelVars, dragVars
  <2>3. ~Asked(k) /\ ~Asked(k)'
    BY NoFinger
  <2> QED BY <2>2, <2>3
<1>4. CASE press
  <2>1. UNCHANGED <<touchVars, touching>>
    BY <1>4 DEF EyesKey
  <2>2. PanKey \in Wanted' <=> PanKey \in Wanted
    <3>1. PanKey \notin Keys /\ PanKey \notin Buttons
      BY KeymapAssumption
    <3>2. Asked(PanKey)' <=> Asked(PanKey)
      BY <2>1, <3>1 DEF Asked, Keys
    <3> QED BY <3>2 DEF Wanted
  <2>3. Wanted' = Wanted
    BY <1>3, <2>2 DEF Wanted
  <2> QED BY <1>0, <1>2, <2>1, <2>3, KeepAsked DEF GesturesOK, dragVars
<1>5. CASE ~press
  <2>1. SetTouch(TouchDown(StopTouch(Touch), PanKey)) /\ touching' = TRUE
    BY <1>5 DEF EyesKey
  <2> DEFINE W == Wanted \ {PanKey}
  <2>2. PanKey \in Wanted'
    BY <2>1, PanSingle DEF Wanted, Asked
  <2>3. Wanted' = W \cup {PanKey}
    BY <1>3, <2>2, PanSingle DEF Wanted
  <2>4. Clean(StopTouch(Touch), stranded, W, bursts)
    BY <1>0, StopClean
  <2>5. PanKey \notin W /\ PanKey \in Singles
    BY PanSingle
  <2> HIDE DEF W
  <2>6. Clean(TouchDown(StopTouch(Touch), PanKey), stranded, W \cup {PanKey}, bursts)
    BY <2>4, <2>5, DownSingle
  <2>7. FingersAsked'
    BY <2>1, <2>3, <2>6, SetAsked DEF dragVars
  <2> QED BY <1>2, <2>7 DEF GesturesOK
<1> QED BY <1>4, <1>5

\* A press is the wheel's first exactly when no wheel key was pressed.
LEMMA FirstPress ==
  ASSUME NEW S, S \subseteq WheelKeys, NEW k, k \notin S
  PROVE  Cardinality(S \cup {k}) = 1 <=> S = {}
<1>1. IsFiniteSet(S)
  <2>1. S \in SUBSET (Keys \cup Buttons)
    BY DEF Keys
  <2> QED BY <2>1, OneNodePerKey, FS_Subset
<1>2. Cardinality(S \cup {k}) = Cardinality(S) + 1 /\ Cardinality(S) \in Nat
  BY <1>1, FS_AddElement, FS_CardinalityType
<1>3. Cardinality(S) = 0 <=> S = {}
  BY <1>1, FS_EmptySet
<1> QED BY <1>2, <1>3

LEMMA WheelGestures ==
  ASSUME GesturesOK, NEW k \in WheelKeys, NEW press \in BOOLEAN, gameMap,
         Hold(k, press), WheelKey(k, press),
         UNCHANGED <<mouseDown, gameMap, needBack, locked, panVars, dragVars, bursts>>
  PROVE  GesturesOK'
<1>0. FingersAsked /\ HeldOK /\ WheelOK /\ DragOK /\ MouseOK
  BY DEF GesturesOK
<1>1. /\ k \in Keys /\ WheelKeys \subseteq Singles /\ PanKey \notin WheelKeys
      /\ \A m \in WheelKeys : m \notin Buttons \cup ClickKeys \cup SwitchKeys \cup DragKeys
  BY OneNodePerKey, KeymapAssumption DEF Keys, Singles, Owners
<1>2. UNCHANGED <<touching, starts>>
  BY DEF panVars
<1>3. DragOK' /\ MouseOK'
  BY <1>0, <1>1, <1>2, MouseKeeps DEF DragOK, dragVars
<1>4. HeldOK'
  BY <1>0, <1>1 DEF HeldOK, Hold
<1>5. pressed = held \cap WheelKeys
  BY <1>0 DEF WheelOK
<1>6. pressed' = IF press THEN pressed \cup {k} ELSE pressed \ {k}
  BY DEF WheelKey
<1>7. pressed' = held' \cap WheelKeys
  BY <1>5, <1>6 DEF Hold
<1>8. \A m \in Singles \ WheelKeys : Asked(m)' <=> Asked(m)
  <2>1. \A m \in Singles \ WheelKeys : m \in held' <=> m \in held
    BY DEF Hold
  <2> QED BY <2>1, <1>2 DEF Asked, ByKeymap, dragVars
<1>9. \A m \in WheelKeys : Asked(m) <=> m = touchKey /\ pressed # {}
  BY <1>1 DEF Asked
<1>10. \A m \in WheelKeys : Asked(m)' <=> m = touchKey' /\ pressed' # {}
  BY <1>1 DEF Asked
<1>11. CASE pressed' = {}
  <2>1. SetTouch(TouchUp(Touch, touchKey)) /\ wheelPath' = 0 /\ touchKey' = touchKey
    BY <1>11 DEF WheelKey
  <2>2. ~press /\ k \in pressed
    BY <1>5, <1>6, <1>11 DEF Hold
  <2>3. touchKey \in WheelKeys
    BY <1>0, <2>2 DEF WheelOK
  <2>4. touchKey \in Wanted /\ touchKey \in Singles
    BY <1>1, <1>9, <2>2, <2>3 DEF Wanted
  <2>5. Wanted' = Wanted \ {touchKey}
    <3>1. \A m \in Singles : Asked(m)' <=> Asked(m) /\ m # touchKey
      BY <1>8, <1>9, <1>10, <1>11, <2>3
    <3> QED BY <3>1 DEF Wanted
  <2>6. FingersAsked'
    BY <1>0, <2>1, <2>4, <2>5, UpAsked DEF dragVars
  <2>7. WheelOK'
    BY <1>7, <1>11, <2>1 DEF WheelOK
  <2> QED BY <1>3, <1>4, <2>6, <2>7 DEF GesturesOK
<1>12. CASE pressed' # {} /\ press /\ pressed = {}
  <2>1. k \notin pressed /\ pressed \subseteq WheelKeys /\ pressed' = pressed \cup {k}
    BY <1>5, <1>6, <1>12
  <2>2. Cardinality(pressed') = 1
    BY <1>12, <2>1, FirstPress
  <2>3. touchKey' = k /\ SetTouch(TouchDown(Touch, k)) /\ wheelPath' \in PathLens
    BY <1>12, <2>2 DEF WheelKey
  <2>4. k \notin Wanted /\ k \in Singles /\ Wanted' = Wanted \cup {k}
    BY <1>1, <1>8, <1>9, <1>10, <1>12, <2>3 DEF Wanted
  <2>5. FingersAsked'
    BY <1>0, <1>3, <2>3, <2>4, DownAsked DEF dragVars
  <2>6. WheelOK'
    BY <1>7, <1>12, <2>3, KeymapAssumption DEF WheelOK
  <2> QED BY <1>3, <1>4, <2>5, <2>6 DEF GesturesOK
<1>13. CASE pressed' # {} /\ ~(press /\ pressed = {})
  <2>1. pressed # {} /\ wheelPath' \in PathLens
    BY <1>6, <1>13 DEF WheelKey
  <2>2. UNCHANGED <<touchKey, touchVars>>
    <3>1. CASE press
      <4>1. k \notin pressed /\ pressed \subseteq WheelKeys /\ pressed' = pressed \cup {k}
        BY <1>5, <1>6, <3>1 DEF Hold
      <4>2. ~(Cardinality(pressed') = 1)
        BY <2>1, <4>1, FirstPress
      <4> QED BY <1>13, <4>2 DEF WheelKey
    <3>2. CASE ~press
      BY <1>13, <3>2 DEF WheelKey
    <3> QED BY <3>1, <3>2
  <2>3. Wanted' = Wanted
    BY <1>8, <1>9, <1>10, <1>13, <2>1, <2>2 DEF Wanted
  <2>4. FingersAsked'
    BY <1>0, <2>2, <2>3, KeepAsked DEF dragVars
  <2>5. WheelOK'
    BY <1>0, <1>7, <1>13, <2>1, <2>2, KeymapAssumption DEF WheelOK
  <2> QED BY <1>3, <1>4, <2>4, <2>5 DEF GesturesOK
<1> QED BY <1>11, <1>12, <1>13

-----------------------------------------------------------------------------
LEMMA KeyGestures ==
  ASSUME steady, GesturesOK, BurstsType,
         NEW k \in Keys, NEW press \in BOOLEAN, KeyEvent(k, press)
  PROVE  GesturesOK'
<1>0. FingersAsked /\ HeldOK /\ WheelOK /\ DragOK /\ MouseOK
  BY DEF GesturesOK
<1>1. Hold(k, press) /\ UNCHANGED <<mouseDown, gameMap, locked>>
  BY DEF KeyEvent, lockVars
<1>2. CASE gameMap \/ (needBack /\ k \in SwitchKeys)
  <2>1. GameKey(k, press)
    BY <1>2 DEF KeyEvent
  <2>2. k \notin SwitchKeys \/ press => needBack' = needBack
    BY <1>2 DEF KeyEvent
  <2>3. k \in SwitchKeys /\ ~press => held \cap (Buttons \cup SwitchKeys) \subseteq {k}
    BY <1>2 DEF KeyEvent
  <2>4. CASE k \in WheelKeys /\ WheelKey(k, press) /\ UNCHANGED <<panVars, dragVars, bursts>>
    <3>1. k \notin SwitchKeys
      BY <2>4, OneNodePerKey
    <3> QED BY <1>1, <1>2, <2>2, <2>4, <3>1, WheelGestures
  <2>5. CASE /\ k \in ClickKeys \cup SwitchKeys /\ ClickKey(k, press)
             /\ UNCHANGED <<panVars, wheelVars, dragVars, bursts>>
    BY <1>1, <1>2, <2>2, <2>3, <2>5, ClickGestures
  <2>6. CASE k \in TwiceKeys /\ TwiceKey(k, press) /\ UNCHANGED <<panVars, wheelVars, dragVars, bursts>>
    <3>1. k \notin SwitchKeys
      BY <2>6, OneNodePerKey
    <3> QED BY <1>1, <2>2, <2>6, <3>1, TwiceGestures
  <2>7. CASE k \in MultiKeys /\ MultiKey(k, press) /\ UNCHANGED <<touchVars, panVars, wheelVars, dragVars>>
    <3>1. k \notin SwitchKeys
      BY <2>7, OneNodePerKey
    <3> QED BY <1>1, <2>2, <2>7, <3>1, MultiGestures
  <2>8. CASE k \in DragKeys /\ DragKey(k, press) /\ UNCHANGED <<panVars, wheelVars, bursts>>
    <3>1. k \notin SwitchKeys
      BY <2>8, OneNodePerKey
    <3> QED BY <1>1, <2>2, <2>8, <3>1, DragGestures
  <2>9. CASE k \in EyesKeys /\ EyesKey(press) /\ UNCHANGED <<wheelVars, dragVars, bursts>>
    <3>1. k \notin SwitchKeys
      BY <2>9, OneNodePerKey
    <3> QED BY <1>1, <2>2, <2>9, <3>1, EyesGestures
  <2> QED BY <2>1, <2>4, <2>5, <2>6, <2>7, <2>8, <2>9 DEF GameKey
<1>3. CASE ~(gameMap \/ (needBack /\ k \in SwitchKeys))
  <2>1. UNCHANGED <<touchVars, needBack, panVars, wheelVars, dragVars, bursts>>
    BY <1>3 DEF KeyEvent
  <2>2. UNCHANGED <<touching, starts>>
    BY <2>1 DEF panVars
  <2>3. HeldOK' /\ WheelOK'
    BY <1>0, <1>1, <1>3, <2>1 DEF HeldOK, WheelOK, Hold, wheelVars
  <2>4. DragOK' /\ MouseOK'
    BY <1>0, <1>1, <2>1, <2>2, MouseKeeps DEF DragOK, dragVars
  <2>5. Asked(k)' <=> Asked(k)
    <3>1. k \notin Buttons /\ k # PanKey
      BY OneNodePerKey, KeymapAssumption
    <3> QED BY <1>1, <1>3, <2>1, <3>1 DEF Asked, wheelVars, dragVars
  <2>6. Wanted' = Wanted
    BY <1>1, <2>1, <2>2, <2>5, HeldOther, SameAsked
  <2>7. FingersAsked'
    BY <1>0, <2>1, <2>6, KeepAsked DEF dragVars
  <2> QED BY <2>3, <2>4, <2>7 DEF GesturesOK
<1> QED BY <1>2, <1>3

\* A button is the keymap's from its press to its release, or the plain mouse's.
LEMMA ButtonGestures ==
  ASSUME GesturesOK, NEW b \in Buttons, NEW press \in BOOLEAN, MouseButton(b, press)
  PROVE  GesturesOK'
<1>0. FingersAsked /\ HeldOK /\ WheelOK /\ DragOK /\ MouseOK
  BY DEF GesturesOK
<1>1. /\ b \in Singles /\ b # PanKey /\ b \notin WheelKeys /\ b \notin DragKeys
      /\ b \notin ClickKeys /\ b \notin SwitchKeys
  BY OneNodePerKey, KeymapAssumption DEF Keys, Singles, Owners
<1>2. /\ Hold(b, press)
      /\ UNCHANGED <<gameMap, locked, needBack, panVars, wheelVars, dragVars, bursts>>
  BY DEF MouseButton, lockVars
<1>3. UNCHANGED <<touching, starts>>
  BY <1>2 DEF panVars
<1>4. HeldOK' /\ WheelOK' /\ DragOK'
  BY <1>0, <1>1, <1>2, <1>3, HeldKeeps DEF DragOK, dragVars
<1>5. Other(b)
  BY <1>2, <1>3, HeldOther
<1>6. /\ ByKeymap(b)' <=> ByKeymap(b)
      /\ Asked(b) <=> b \in held /\ ByKeymap(b)
      /\ Asked(b)' <=> b \in held' /\ ByKeymap(b)
  <2>1. ByKeymap(b)' <=> ByKeymap(b)
    BY <1>2 DEF ByKeymap
  <2>2. Asked(b) <=> b \in held /\ ByKeymap(b)
    BY <1>1 DEF Asked
  <2>3. Asked(b)' <=> b \in held' /\ ByKeymap(b)'
    BY <1>1 DEF Asked
  <2> QED BY <2>1, <2>2, <2>3
<1>7. CASE ByKeymap(b)
  <2>1. ClickKey(b, press) /\ mouseDown' = mouseDown
    BY <1>7 DEF MouseButton
  <2>2. MouseOK'
    <3>1. \A c \in Buttons \ {b} : c \in held' <=> c \in held
      BY <1>2 DEF Hold
    <3>2. \A c \in Buttons : ByKeymap(c)' <=> ByKeymap(c)
      BY <1>2 DEF ByKeymap
    <3> QED BY <1>0, <1>7, <2>1, <3>1, <3>2 DEF MouseOK
  <2>3. CASE press
    <3>1. b \notin held /\ b \in held'
      BY <1>2, <2>3 DEF Hold
    <3>2. b \notin Wanted /\ Wanted' = Wanted \cup {b}
      BY <1>1, <1>5, <1>6, <1>7, <3>1, OneMore DEF Wanted
    <3>3. SetTouch(TouchDown(Touch, b))
      BY <2>1, <2>3 DEF ClickKey
    <3>4. FingersAsked'
      BY <1>0, <1>1, <1>2, <1>4, <3>2, <3>3, DownAsked DEF dragVars
    <3> QED BY <1>4, <2>2, <3>4 DEF GesturesOK
  <2>4. CASE ~press
    <3>1. b \in held /\ b \notin held'
      BY <1>2, <2>4 DEF Hold
    <3>2. b \in Wanted /\ Wanted' = Wanted \ {b}
      BY <1>1, <1>5, <1>6, <1>7, <3>1, OneLess DEF Wanted
    <3>3. SetTouch(TouchUp(Touch, b))
      BY <2>1, <2>4 DEF ClickKey
    <3>4. FingersAsked'
      BY <1>0, <1>1, <1>2, <3>2, <3>3, UpAsked DEF dragVars
    <3> QED BY <1>4, <2>2, <3>4 DEF GesturesOK
  <2> QED BY <2>3, <2>4
<1>8. CASE ~ByKeymap(b)
  <2>1. UNCHANGED touchVars /\ mouseDown' = press
    BY <1>8 DEF MouseButton
  <2>2. MouseOK'
    BY <1>2, <1>6, <1>8, <2>1 DEF MouseOK, Hold
  <2>3. Wanted' = Wanted
    BY <1>5, <1>6, <1>8, SameAsked
  <2>4. FingersAsked'
    BY <1>0, <1>2, <2>1, <2>3, KeepAsked DEF dragVars
  <2> QED BY <1>4, <2>2, <2>4 DEF GesturesOK
<1> QED BY <1>7, <1>8

\* Steps that leave keys, modes and gestures alone
LEMMA IdleGestures ==
  ASSUME GesturesOK,
         UNCHANGED <<mouseDown, held, gameMap, locked, needBack, touching, starts,
                     wheelVars, dragVars>>
  PROVE  /\ Wanted' = Wanted
         /\ HeldOK' /\ WheelOK' /\ DragOK' /\ MouseOK'
         /\ UNCHANGED <<touchVars, bursts>> => GesturesOK'
<1>0. FingersAsked /\ HeldOK /\ WheelOK /\ DragOK /\ MouseOK
  BY DEF GesturesOK
<1>1. Wanted' = Wanted
  <2>1. \A k \in Singles : Asked(k)' <=> Asked(k)
    BY DEF Asked, ByKeymap, wheelVars, dragVars
  <2> QED BY <2>1 DEF Wanted
<1>2. HeldOK' /\ WheelOK' /\ DragOK'
  BY <1>0 DEF HeldOK, WheelOK, DragOK, wheelVars, dragVars
<1>3. MouseOK'
  BY <1>0 DEF MouseOK, ByKeymap
<1>4. UNCHANGED <<touchVars, bursts>> => FingersAsked'
  BY <1>0, <1>1, KeepAsked DEF dragVars
<1> QED BY <1>1, <1>2, <1>3, <1>4 DEF GesturesOK

\* The moments the pan finger is planted or lifted on its own
LEMMA PanGestures ==
  ASSUME GesturesOK,
         \/ SetTouch(StartTouch(Touch)) /\ touching' = TRUE
         \/ SetTouch(StopTouch(Touch)) /\ touching' = FALSE,
         UNCHANGED <<mouseDown, held, gameMap, locked, needBack, wheelVars, dragVars, bursts>>
  PROVE  GesturesOK'
<1>0. FingersAsked /\ HeldOK /\ WheelOK /\ DragOK /\ MouseOK
  BY DEF GesturesOK
<1>1. \A k \in Singles \ {PanKey} : Asked(k)' <=> Asked(k)
  BY DEF Asked, ByKeymap, wheelVars, dragVars
<1>2. HeldOK' /\ WheelOK' /\ DragOK'
  BY <1>0 DEF HeldOK, WheelOK, DragOK, wheelVars, dragVars
<1>3. MouseOK'
  BY <1>0 DEF MouseOK, ByKeymap
<1>4. FingersAsked'
  BY <1>0, <1>1, PanStarts, PanStops DEF dragVars
<1> QED BY <1>2, <1>3, <1>4 DEF GesturesOK

LEMMA PanMoveGestures ==
  ASSUME GesturesOK, NEW edge \in BOOLEAN, PanMove(edge) PROVE GesturesOK'
<1>0. FingersAsked /\ HeldOK /\ WheelOK /\ DragOK /\ MouseOK
  BY DEF GesturesOK
<1>1. UNCHANGED <<mouseDown, held, gameMap, locked, needBack, wheelVars, dragVars, bursts>>
  BY DEF PanMove, lockVars
<1>2. CASE panMoves
  <2> DEFINE t == StartTouch(Touch)
             u == IF edge /\ ~eyes THEN t ELSE TouchMove(t, PanKey)
  <2>1. touching' = TRUE /\ SetTouch(u)
    BY <1>2 DEF PanMove
  <2>2. Clean(u, stranded, Wanted \cup {PanKey}, bursts)
    BY <1>0, StartClean, MoveClean
  <2> HIDE DEF u
  <2>3. \A k \in Singles \ {PanKey} : Asked(k)' <=> Asked(k)
    BY <1>1 DEF Asked, ByKeymap, wheelVars, dragVars
  <2>4. PanKey \in Wanted'
    BY <2>1, PanSingle DEF Wanted, Asked
  <2>5. Wanted' = Wanted \cup {PanKey}
    BY <2>3, <2>4, PanSingle DEF Wanted
  <2>6. FingersAsked'
    BY <1>1, <2>1, <2>2, <2>5, SetAsked DEF dragVars
  <2>7. HeldOK' /\ WheelOK' /\ DragOK'
    BY <1>0, <1>1 DEF HeldOK, WheelOK, DragOK, wheelVars, dragVars
  <2>8. MouseOK'
    BY <1>0, <1>1 DEF MouseOK, ByKeymap
  <2> QED BY <2>6, <2>7, <2>8 DEF GesturesOK
<1>3. CASE ~panMoves
  <2>1. UNCHANGED <<touchVars, touching, starts>>
    BY <1>3 DEF PanMove
  <2> QED BY <1>1, <2>1, IdleGestures
<1> QED BY <1>2, <1>3

LEMMA WheelTimerGestures == ASSUME GesturesOK, WheelTimer PROVE GesturesOK'
<1>0. FingersAsked /\ HeldOK /\ WheelOK /\ DragOK /\ MouseOK
  BY DEF GesturesOK
<1>1. /\ UNCHANGED <<mouseDown, held, gameMap, locked, needBack, touching, starts,
                     pressed, touchKey, dragVars, bursts>>
      /\ wheelPath > 0 /\ wheelPath' = wheelPath - 1
  BY DEF WheelTimer, lockVars, panVars
<1>2. pressed # {} /\ touchKey \in WheelKeys
  BY <1>0, <1>1 DEF WheelOK
<1>5. SetTouch(TouchMove(Touch, touchKey))
  BY <1>1, <1>2 DEF WheelTimer
<1>6. Wanted' = Wanted
  <2>1. \A k \in Singles : Asked(k)' <=> Asked(k)
    BY <1>1 DEF Asked, ByKeymap, dragVars
  <2> QED BY <2>1 DEF Wanted
<1>7. Clean(TouchMove(Touch, touchKey), stranded', Wanted, bursts')
  BY <1>0, <1>1, MoveClean DEF FingersAsked, dragVars
<1>8. FingersAsked'
  BY <1>5, <1>6, <1>7, SetAsked
<1>9. HeldOK' /\ WheelOK' /\ DragOK'
  BY <1>0, <1>1 DEF HeldOK, WheelOK, DragOK, dragVars
<1>10. MouseOK'
  BY <1>0, <1>1 DEF MouseOK, ByKeymap
<1> QED BY <1>8, <1>9, <1>10 DEF GesturesOK

LEMMA DragTimerGestures == ASSUME GesturesOK, DragTimer PROVE GesturesOK'
<1>0. FingersAsked /\ HeldOK /\ WheelOK /\ DragOK /\ MouseOK
  BY DEF GesturesOK
<1>1. /\ UNCHANGED <<mouseDown, held, gameMap, locked, needBack, touching, starts,
                     wheelVars, bursts>>
      /\ dragTimer = "armed"
  BY DEF DragTimer, lockVars, panVars
<1>2. dragKey \in DragKeys /\ dragPath \in Nat
  BY <1>0, <1>1 DEF DragOK
<1>3. dragKey \in Singles
  BY <1>2, OneNodePerKey, KeymapAssumption DEF Singles, Owners, Keys
<1>5. HeldOK' /\ WheelOK' /\ MouseOK'
  BY <1>0, <1>1 DEF HeldOK, WheelOK, MouseOK, ByKeymap, wheelVars
<1>6. \A k \in Singles \ DragKeys : Asked(k)' <=> Asked(k)
  BY <1>1 DEF Asked, ByKeymap, wheelVars
<1>7. \A k \in DragKeys : /\ Asked(k) <=> k = dragKey
                          /\ Asked(k)' <=> k = dragKey' /\ dragTimer' = "armed"
  <2>1. \A k \in DragKeys : k \notin Buttons \cup ClickKeys \cup SwitchKeys \cup WheelKeys \cup {PanKey}
    BY OneNodePerKey, KeymapAssumption DEF Keys
  <2> QED BY <1>1, <2>1 DEF Asked
<1>8. ASSUME dragTimer' # "armed" PROVE Wanted' = Wanted \ {dragKey}
  <2>1. \A k \in Singles : Asked(k)' <=> Asked(k) /\ k # dragKey
    BY <1>2, <1>6, <1>7, <1>8
  <2> QED BY <2>1 DEF Wanted
<1>9. CASE dragPath = 0
  <2>1. /\ dragTimer' = "spent" /\ stranded' = stranded \cup {dragKey}
        /\ UNCHANGED <<touchVars, dragKey, dragPath>>
    BY <1>1, <1>9 DEF DragTimer
  <2>2. Clean(Touch, stranded \cup {dragKey}, Wanted \ {dragKey}, bursts)
    BY <1>0, StrandClean DEF FingersAsked
  <2>3. Touch' = Touch
    BY <2>1 DEF touchVars, Touch
  <2>4. FingersAsked'
    BY <1>1, <1>8, <2>1, <2>2, <2>3 DEF FingersAsked
  <2>5. DragOK'
    BY <1>0, <1>2, <2>1 DEF DragOK
  <2> QED BY <1>5, <2>4, <2>5 DEF GesturesOK
<1>10. CASE dragPath # 0 /\ dragPath' = 0
  <2> DEFINE t == TouchMove(Touch, dragKey)
  <2>1. SetTouch(TouchUp(t, dragKey)) /\ dragTimer' = "none" /\ stranded' = stranded
    BY <1>1, <1>10 DEF DragTimer
  <2>2. Clean(t, stranded, Wanted, bursts)
    BY <1>0, MoveClean DEF FingersAsked
  <2> HIDE DEF t
  <2>3. Clean(TouchUp(t, dragKey), stranded, Wanted \ {dragKey}, bursts)
    BY <1>3, <2>2, UpSingle
  <2>4. FingersAsked'
    BY <1>1, <1>8, <2>1, <2>3, SetAsked
  <2>5. DragOK'
    BY <1>0, <2>1 DEF DragOK
  <2> QED BY <1>5, <2>4, <2>5 DEF GesturesOK
<1>11. CASE dragPath # 0 /\ dragPath' # 0
  <2>1. /\ SetTouch(TouchMove(Touch, dragKey)) /\ dragPath' = dragPath - 1
        /\ UNCHANGED <<dragTimer, dragKey, stranded>>
    BY <1>1, <1>11 DEF DragTimer
  <2>2. Wanted' = Wanted
    BY <1>1, <1>6, <1>7, <2>1 DEF Wanted
  <2>3. Clean(TouchMove(Touch, dragKey), stranded, Wanted, bursts)
    BY <1>0, MoveClean DEF FingersAsked
  <2>4. FingersAsked'
    BY <1>1, <2>1, <2>2, <2>3, SetAsked
  <2>5. DragOK'
    BY <1>0, <1>2, <1>11, <2>1 DEF DragOK
  <2> QED BY <1>5, <2>4, <2>5 DEF GesturesOK
<1> QED BY <1>9, <1>10, <1>11

LEMMA BurstGestures ==
  ASSUME GesturesOK, BurstsType, BurstsOK, NEW b \in 1..MaxBursts, BurstTimer(b)
  PROVE  GesturesOK'
<1>0. FingersAsked
  BY DEF GesturesOK
<1> DEFINE k == bursts[b].key
           n == bursts[b].left
<1>1. k \in MultiKeys /\ n \in Nat /\ n > 0
  BY DEF BurstTimer, BurstsOK, BurstsType
<1>2. /\ \A c \in 1..MaxBursts : c # b => bursts'[c] = bursts[c]
      /\ bursts'[b] = IF n = 1 THEN Idle ELSE [key |-> k, left |-> n - 1]
      /\ SetTouch(IF n % 2 = 0 THEN TouchDown(Touch, k) ELSE TouchUp(Touch, k))
  BY DEF BurstTimer, BurstsType
<1>3. UNCHANGED <<mouseDown, held, gameMap, locked, needBack, touching, starts, wheelVars, dragVars>>
  BY DEF BurstTimer, lockVars, panVars
<1>4. Wanted' = Wanted /\ HeldOK' /\ WheelOK' /\ DragOK' /\ MouseOK'
  BY <1>3, IdleGestures
<1>5. \A c \in 1..MaxBursts : c \in Odd(bursts) <=> bursts[c].left % 2 = 1
  BY DEF Odd
<1>6. \A c \in 1..MaxBursts : c \in Odd(bursts') <=> bursts'[c].left % 2 = 1
  BY DEF Odd
<1>7. CASE n % 2 = 0
  <2>1. bursts'[b] = [key |-> k, left |-> n - 1] /\ (n - 1) % 2 = 1
    BY <1>1, <1>2, <1>7
  <2>2. bursts'[b].key = k /\ bursts'[b].left % 2 = 1
    BY <2>1
  <2>3. b \notin Odd(bursts) /\ Odd(bursts') = Odd(bursts) \cup {b}
    <3>1. b \notin Odd(bursts) /\ b \in Odd(bursts')
      BY <1>1, <1>5, <1>6, <1>7, <2>2
    <3>2. \A c \in 1..MaxBursts : c # b => (c \in Odd(bursts') <=> c \in Odd(bursts))
      BY <1>2, <1>5, <1>6
    <3>3. Odd(bursts) \subseteq 1..MaxBursts /\ Odd(bursts') \subseteq 1..MaxBursts
      BY DEF Odd
    <3> QED BY <3>1, <3>2, <3>3
  <2>4. OddOf(bursts', k) = OddOf(bursts, k) \cup {b}
    BY <1>2, <2>2, <2>3 DEF OddOf, Odd
  <2>5. \A m \in MultiKeys \ {k} : OddOf(bursts', m) = OddOf(bursts, m)
    BY <1>2, <2>2, <2>3 DEF OddOf, Odd
  <2>6. SetTouch(TouchDown(Touch, k))
    BY <1>2, <1>7
  <2> HIDE DEF k, n
  <2>7. Clean(TouchDown(Touch, k), stranded, Wanted, bursts')
    BY <1>0, <1>1, <2>3, <2>4, <2>5, DownBurst DEF FingersAsked
  <2> QED BY <1>3, <1>4, <2>6, <2>7, SetAsked DEF GesturesOK, dragVars
<1>8. CASE n % 2 = 1
  <2>1. bursts'[b].left % 2 = 0
    <3>1. n = 1 => bursts'[b].left = 0
      BY <1>2 DEF Idle
    <3>2. n # 1 => bursts'[b].left = n - 1
      BY <1>2
    <3>3. (n - 1) % 2 = 0 /\ 0 % 2 = 0
      BY <1>1, <1>8
    <3> QED BY <3>1, <3>2, <3>3
  <2>2. b \in Odd(bursts) /\ b \in OddOf(bursts, k)
    BY <1>5, <1>8 DEF OddOf
  <2>3. Odd(bursts') = Odd(bursts) \ {b}
    <3>1. b \notin Odd(bursts')
      BY <1>6, <2>1
    <3>2. \A c \in 1..MaxBursts : c # b => (c \in Odd(bursts') <=> c \in Odd(bursts))
      BY <1>2, <1>5, <1>6
    <3>3. Odd(bursts) \subseteq 1..MaxBursts /\ Odd(bursts') \subseteq 1..MaxBursts
      BY DEF Odd
    <3> QED BY <3>1, <3>2, <3>3
  <2>4. OddOf(bursts', k) = OddOf(bursts, k) \ {b}
    BY <1>2, <2>3 DEF OddOf, Odd
  <2>5. \A m \in MultiKeys \ {k} : OddOf(bursts', m) = OddOf(bursts, m)
    BY <1>2, <2>3 DEF OddOf, Odd
  <2>6. SetTouch(TouchUp(Touch, k))
    BY <1>2, <1>8
  <2> HIDE DEF k, n
  <2>7. Clean(TouchUp(Touch, k), stranded, Wanted, bursts')
    BY <1>0, <1>1, <2>2, <2>3, <2>4, <2>5, UpBurst DEF FingersAsked
  <2> QED BY <1>3, <1>4, <2>6, <2>7, SetAsked DEF GesturesOK, dragVars
<1>9. n % 2 = 0 \/ n % 2 = 1
  BY <1>1
<1> QED BY <1>7, <1>8, <1>9

-----------------------------------------------------------------------------
\* Every event of a steady user and every timer keeps the fingers on the phone
\* those that are asked for.
LEMMA GesturesStep ==
  ASSUME steady, BooksInv, ShootInv, GesturesOK, [KeymapNext]_vars
  PROVE  GesturesOK'
<1>0. BurstsType /\ BurstsOK /\ stops \in Nat /\ starts \in Nat /\ locked \in BOOLEAN
  BY DEF BooksInv, ShootInv, GesturesOK
<1> USE DEF lockVars, panVars
<1>1. ASSUME NEW k \in Keys, NEW press \in BOOLEAN, KeyEvent(k, press) PROVE GesturesOK'
  BY <1>0, <1>1, KeyGestures
<1>2. ASSUME NEW k \in SwitchKeys, NEW release \in BOOLEAN, RepeatKey(k, release) PROVE GesturesOK'
  BY <1>2 DEF RepeatKey
<1>3. ASSUME NEW b \in Buttons, NEW press \in BOOLEAN, MouseButton(b, press) PROVE GesturesOK'
  BY <1>3, ButtonGestures
<1>4. ASSUME NEW edge \in BOOLEAN, PanMove(edge) PROVE GesturesOK'
  BY <1>4, PanMoveGestures
<1>5. CASE FreeMove \/ ResizeWindow
  BY <1>5, IdleGestures DEF FreeMove, ResizeWindow
<1>6. CASE LockKey
  <2>1. (~locked) \in BOOLEAN
    OBVIOUS
  <2> QED BY <1>6, <2>1, ToggleGestures DEF LockKey
<1>7. CASE SuspendKey
  <2>1. held \cap ShootButtons = {}
    BY <1>7 DEF SuspendKey
  <2>2. UNCHANGED <<mouseDown, held, gameMap, needBack, starts, wheelVars, dragVars, bursts>>
    BY <1>7 DEF SuspendKey
  <2>3. \/ ToggleCursorLock(FALSE) \/ ToggleCursorLock(TRUE)
        \/ UNCHANGED <<locked, cursorVars, touchVars, touching>>
    BY <1>7 DEF SuspendKey
  <2> QED BY <2>1, <2>2, <2>3, ToggleGestures, IdleGestures
<1>8. CASE SwitchGameMap \/ FocusChange
  <2>1. held = {} /\ held' = {} /\ ForceCustomKeymap(~gameMap)
    BY <1>8 DEF SwitchGameMap, FocusChange, Settled
  <2>2. UNCHANGED <<mouseDown, starts, wheelVars, dragVars, bursts>>
    BY <1>8 DEF SwitchGameMap, FocusChange
  <2>3. (~gameMap) \in BOOLEAN
    OBVIOUS
  <2> QED BY <2>1, <2>2, <2>3, ForceGestures
<1>9. CASE WheelTimer
  BY <1>9, WheelTimerGestures
<1>10. CASE DragTimer
  BY <1>10, DragTimerGestures
<1>11. CASE LiftForReplant
  <2>1. /\ SetTouch(StopTouch(Touch)) /\ touching' = FALSE /\ starts' = starts
        /\ UNCHANGED <<mouseDown, held, gameMap, locked, needBack, wheelVars, dragVars, bursts>>
    BY <1>11 DEF LiftForReplant
  <2> QED BY <2>1, PanGestures
<1>12. CASE PlantAgain
  <2>1. /\ SetTouch(StartTouch(Touch)) /\ touching' = TRUE
        /\ UNCHANGED <<mouseDown, held, gameMap, locked, needBack, wheelVars, dragVars, bursts>>
    BY <1>12 DEF PlantAgain
  <2> QED BY <2>1, PanGestures
<1>13. ASSUME NEW b \in 1..MaxBursts, BurstTimer(b) PROVE GesturesOK'
  BY <1>0, <1>13, BurstGestures
<1>14. CASE UNCHANGED vars
  BY <1>14, IdleGestures DEF vars
<1> QED BY <1>1, <1>2, <1>3, <1>4, <1>5, <1>6, <1>7, <1>8, <1>9, <1>10, <1>11, <1>12, <1>13, <1>14
        DEF KeymapNext, Timers

\* Nobody changes their habits.
LEMMA SteadyKept == ASSUME [KeymapNext]_vars PROVE steady' = steady
BY DEF KeymapNext, Timers, KeyEvent, RepeatKey, MouseButton, PanMove, FreeMove, ResizeWindow,
       LockKey, SuspendKey, SwitchGameMap, FocusChange, WheelTimer, DragTimer, LiftForReplant,
       PlantAgain, BurstTimer, vars

\* At first nothing is asked for and no finger is down.
LEMMA GesturesInit == ASSUME KeymapInit PROVE GesturesOK
<1>1. BooksInv
  BY BooksInit
<1>2. /\ ids = [i \in Ids |-> NoKey] /\ misused = FALSE /\ mouseDown = FALSE /\ held = {}
      /\ pressed = {} /\ wheelPath = 0 /\ dragTimer = "none" /\ stranded = {}
      /\ bursts = [b \in 1..MaxBursts |-> Idle]
  BY DEF KeymapInit
<1>3. touching = FALSE /\ locked = FALSE /\ starts = 0
  BY Zenon DEF KeymapInit
<1>4. Wanted = {}
  <2>1. \A k \in Singles : ~Asked(k)
    BY <1>2, <1>3 DEF Asked
  <2> QED BY <2>1 DEF Wanted
<1>5. Odd(bursts) = {}
  <2>1. \A b \in 1..MaxBursts : bursts[b].left = 0
    BY <1>2 DEF Idle
  <2>2. \A b \in 1..MaxBursts : bursts[b].left % 2 = 0
    BY <2>1
  <2> QED BY <2>2 DEF Odd
<1>6. \A i \in Ids : Touch.ids[i] = NoKey
  BY <1>2 DEF Touch
<1>7. MultiIds(Touch) = {} /\ \A k \in Owners : IdsOf(Touch, k) = {}
  BY <1>6, OwnersApart DEF MultiIds, IdsOf
<1>8. FingersAsked
  <2>1. MultiKeys \subseteq Owners /\ Singles \subseteq Owners
    BY DEF Owners, Keys, Singles
  <2>2. \A k \in MultiKeys : IdsOf(Touch, k) = {} /\ OddOf(bursts, k) = {}
    BY <1>5, <1>7, <2>1 DEF OddOf
  <2>3. Touch.misused = FALSE /\ TouchOK(Touch)
    BY <1>1, <1>2 DEF Touch, BooksInv
  <2>4. AtMost(Touch, stranded, Wanted, bursts)
    <3>1. \A k \in MultiKeys : Cardinality(IdsOf(Touch, k)) <= Cardinality(OddOf(bursts, k))
      BY <2>2, FS_EmptySet
    <3> QED BY <1>6, <1>7, <2>1, <2>3, <3>1, OwnersApart DEF AtMost
  <2>5. AtLeast(Touch, stranded, Wanted, bursts)
    BY <1>4, <1>5, <1>7, <2>2 DEF AtLeast
  <2> QED BY <2>4, <2>5 DEF FingersAsked, Clean
<1>9. HeldOK /\ WheelOK /\ DragOK /\ MouseOK
  BY <1>2 DEF HeldOK, WheelOK, DragOK, MouseOK
<1> QED BY <1>8, <1>9 DEF GesturesOK

-----------------------------------------------------------------------------
(***************************************************************************)
(* Refusals.  While every finger asked for is there and fewer are asked    *)
(* for than there are ids, a DOWN finds an id, and an UP or a MOVE finds   *)
(* its finger, in every step of a steady user and of the timers.           *)
(***************************************************************************)
LEMMA DownGoes ==
  ASSUME NEW t, TouchOK(t), NEW k \in Owners, IdsOf(t, NoKey) # {}
  PROVE  TouchDown(t, k).misused = t.misused /\ IdsOf(TouchDown(t, k), k) # {}
<1> DEFINE u == TouchDown(t, k)
<1>1. PICK i \in Ids : u.ids = [t.ids EXCEPT ![i] = k] /\ u.misused = t.misused
  BY DownSlot
<1> HIDE DEF u
<1>2. u.ids[i] = k
  BY <1>1 DEF TouchOK
<1>3. IdsOf(u, k) # {}
  BY <1>2 DEF IdsOf
<1> QED BY <1>1, <1>3 DEF u

LEMMA UpGoes ==
  ASSUME NEW t, TouchOK(t), NEW k, IdsOf(t, k) # {}
  PROVE  TouchUp(t, k).misused = t.misused /\ IdsOf(TouchUp(t, k), NoKey) # {}
<1> DEFINE u == TouchUp(t, k)
<1>1. PICK i \in Ids : /\ t.ids[i] = k /\ u.ids = [t.ids EXCEPT ![i] = NoKey]
                       /\ u.misused = t.misused
  BY UpSlot
<1> HIDE DEF u
<1>2. u.ids[i] = NoKey
  BY <1>1 DEF TouchOK
<1>3. IdsOf(u, NoKey) # {}
  BY <1>2 DEF IdsOf
<1> QED BY <1>1, <1>3 DEF u

LEMMA MoveGoes ==
  ASSUME NEW t, NEW k, IdsOf(t, k) # {} PROVE TouchMove(t, k) = t
BY DEF TouchMove

\* No touch has been refused, no drag has left its finger, and ids are left.
Roomy ==
  /\ stranded = {} /\ misused = FALSE
  /\ Cardinality(Wanted) + Cardinality(Odd(bursts)) < MaxTouch

\* What a step may rely on then
Ready(t) ==
  /\ TouchOK(t) /\ t.misused = FALSE /\ IdsOf(t, NoKey) # {}
  /\ \A k \in Wanted : IdsOf(t, k) # {}
  /\ touching => IdsOf(t, PanKey) # {}

LEMMA RoomyReady == ASSUME Roomy, GesturesOK PROVE Ready(Touch)
<1>1. Clean(Touch, {}, Wanted, bursts) /\ Touch.misused = FALSE
  BY DEF Roomy, GesturesOK, FingersAsked, Touch
<1>2. Wanted \in SUBSET Singles
  BY DEF Wanted
<1>3. IsFiniteSet(Wanted)
  <2>1. IsFiniteSet((Keys \cup Buttons) \cup {PanKey})
    BY OneNodePerKey, FS_AddElement
  <2>2. Wanted \in SUBSET ((Keys \cup Buttons) \cup {PanKey})
    BY <1>2 DEF Singles, Owners
  <2> QED BY <2>1, <2>2, FS_Subset
<1>4. IdsOf(Touch, NoKey) # {}
  BY <1>1, <1>2, <1>3, FreeSlot DEF Roomy
<1>5. TouchOK(Touch)
  BY <1>1 DEF Clean, AtMost
<1>6. \A k \in Singles : k \in Wanted => IdsOf(Touch, k) # {}
  BY <1>1 DEF Clean, AtLeast
<1> QED BY <1>1, <1>2, <1>4, <1>5, <1>6, PanSingle DEF Ready

LEMMA PanGoes ==
  ASSUME NEW t, Ready(t)
  PROVE  /\ StartTouch(t).misused = FALSE /\ IdsOf(StartTouch(t), PanKey) # {}
         /\ StopTouch(t).misused = FALSE /\ IdsOf(StopTouch(t), NoKey) # {}
         /\ TouchOK(StopTouch(t))
<1>1. PanKey \in Owners
  BY DEF Owners
<1> QED BY <1>1, DownGoes, UpGoes, PanKeeps DEF StartTouch, StopTouch, Ready

\* The branches of keyEvent()
LEMMA KeyGoes ==
  ASSUME GesturesOK, Ready(Touch), NEW k \in Keys, NEW press \in BOOLEAN,
         Hold(k, press), gameMap \/ (needBack /\ k \in SwitchKeys), GameKey(k, press)
  PROVE  misused' = FALSE
<1>0. HeldOK /\ WheelOK /\ DragOK
  BY DEF GesturesOK
<1>1. k \in Owners /\ TouchOK(Touch) /\ misused = FALSE
  BY DEF Owners, Ready, Touch
<1>2. CASE UNCHANGED touchVars
  BY <1>1, <1>2 DEF touchVars
<1>3. CASE k \in WheelKeys /\ WheelKey(k, press)
  <2>1. CASE pressed' = {}
    <3>1. pressed # {}
      <4>1. ~press /\ k \in held /\ gameMap
        BY <1>3, <2>1, OneNodePerKey DEF WheelKey, Hold
      <4> QED BY <1>0, <1>3, <4>1 DEF WheelOK
    <3>2. touchKey \in Wanted
      <4>1. touchKey \in WheelKeys
        BY <1>0, <3>1 DEF WheelOK
      <4> QED BY <3>1, <4>1, OneNodePerKey DEF Wanted, Asked, Singles, Owners, Keys
    <3>3. SetTouch(TouchUp(Touch, touchKey)) /\ TouchUp(Touch, touchKey).misused = FALSE
      BY <1>1, <1>3, <2>1, <3>2, UpGoes DEF WheelKey, Ready
    <3> QED BY <3>3 DEF SetTouch
  <2>2. CASE pressed' # {} /\ UNCHANGED touchVars
    BY <1>2, <2>2
  <2>3. CASE pressed' # {} /\ SetTouch(TouchDown(Touch, k))
    BY <1>1, <2>3, DownGoes DEF SetTouch, Ready
  <2> QED BY <1>3, <2>1, <2>2, <2>3 DEF WheelKey
<1>4. CASE k \in ClickKeys \cup SwitchKeys /\ ClickKey(k, press)
  <2>1. CASE press
    BY <1>1, <1>4, <2>1, DownGoes DEF ClickKey, SetTouch, Ready
  <2>2. CASE ~press
    <3>1. k \in held /\ Asked(k)
      BY <1>4, <2>2 DEF Hold, Asked
    <3>2. k \in Singles
      BY <1>1, <1>4, OneNodePerKey DEF Singles
    <3>3. IdsOf(Touch, k) # {}
      BY <3>1, <3>2 DEF Ready, Wanted
    <3> QED BY <1>1, <1>4, <2>2, <3>3, UpGoes DEF ClickKey, SetTouch, Ready
  <2> QED BY <2>1, <2>2
<1>5. CASE k \in TwiceKeys /\ TwiceKey(k, press)
  <2>1. /\ TouchDown(Touch, k).misused = FALSE /\ IdsOf(TouchDown(Touch, k), k) # {}
        /\ TouchOK(TouchDown(Touch, k))
    BY <1>1, DownGoes, DownKeeps DEF Ready
  <2>2. TouchUp(TouchDown(Touch, k), k).misused = FALSE
    BY <2>1, UpGoes
  <2> QED BY <1>5, <2>2 DEF TwiceKey, SetTouch
<1>6. CASE k \in DragKeys /\ DragKey(k, press) /\ press
  <2> DEFINE t == IF dragTimer = "armed" THEN TouchUp(Touch, dragKey) ELSE Touch
  <2>1. TouchOK(t) /\ t.misused = FALSE /\ IdsOf(t, NoKey) # {}
    <3>1. CASE dragTimer = "armed"
      <4>1. dragKey \in DragKeys
        BY <1>0, <3>1 DEF DragOK
      <4>2. dragKey \in Wanted
        BY <3>1, <4>1, OneNodePerKey DEF Wanted, Asked, Singles, Owners, Keys
      <4> QED BY <1>1, <3>1, <4>2, UpGoes, UpKeeps DEF Ready
    <3>2. CASE dragTimer # "armed"
      BY <3>2 DEF Ready
    <3> QED BY <3>1, <3>2
  <2>2. SetTouch(TouchDown(t, k))
    BY <1>6 DEF DragKey
  <2> HIDE DEF t
  <2> QED BY <1>1, <2>1, <2>2, DownGoes DEF SetTouch
<1>7. CASE k \in EyesKeys /\ EyesKey(press) /\ ~press
  <2>1. SetTouch(TouchDown(StopTouch(Touch), PanKey))
    BY <1>7 DEF EyesKey
  <2>2. TouchDown(StopTouch(Touch), PanKey).misused = FALSE
    <3>1. PanKey \in Owners
      BY DEF Owners
    <3> QED BY <3>1, PanGoes, DownGoes
  <2> QED BY <2>1, <2>2 DEF SetTouch
<1>8. \/ UNCHANGED touchVars
      \/ k \in WheelKeys /\ WheelKey(k, press)
      \/ k \in ClickKeys \cup SwitchKeys /\ ClickKey(k, press)
      \/ k \in TwiceKeys /\ TwiceKey(k, press)
      \/ k \in DragKeys /\ DragKey(k, press) /\ press
      \/ k \in EyesKeys /\ EyesKey(press) /\ ~press
  BY Zenon DEF GameKey, DragKey, EyesKey
<1> QED BY <1>2, <1>3, <1>4, <1>5, <1>6, <1>7, <1>8

LEMMA ToggleGoes ==
  ASSUME Ready(Touch), NEW on, ToggleCursorLock(on) PROVE misused' = FALSE
<1>1. misused = FALSE
  BY DEF Ready, Touch
<1>2. CASE ~(locked = on \/ (on /\ ~HasPan)) /\ on
  <2>1. SetTouch(StartTouch(Touch)) /\ StartTouch(Touch).misused = FALSE
    BY <1>2, PanGoes DEF ToggleCursorLock
  <2> QED BY <2>1 DEF SetTouch
<1>3. CASE ~(locked = on \/ (on /\ ~HasPan)) /\ ~on
  <2>1. SetTouch(StopTouch(Touch)) /\ StopTouch(Touch).misused = FALSE
    BY <1>3, PanGoes DEF ToggleCursorLock
  <2> QED BY <2>1 DEF SetTouch
<1>4. CASE locked = on \/ (on /\ ~HasPan)
  BY <1>1, <1>4 DEF ToggleCursorLock, touchVars
<1> QED BY <1>2, <1>3, <1>4

\* No step of a steady user, and no timer, meets a refusal while there is room.
LEMMA NoneRefused ==
  ASSUME steady, BooksInv, GesturesOK, Roomy, [KeymapNext]_vars PROVE misused' = FALSE
<1>0. /\ Ready(Touch) /\ misused = FALSE /\ TouchOK(Touch)
      /\ HeldOK /\ WheelOK /\ DragOK /\ BurstsType /\ BurstsOK
  BY RoomyReady DEF GesturesOK, Ready, Touch, BooksInv
<1>1. ASSUME NEW k \in Keys, NEW press \in BOOLEAN, KeyEvent(k, press) PROVE misused' = FALSE
  <2>1. CASE gameMap \/ (needBack /\ k \in SwitchKeys)
    <3>1. GameKey(k, press) /\ Hold(k, press)
      BY <1>1, <2>1 DEF KeyEvent
    <3> QED BY <1>0, <2>1, <3>1, KeyGoes
  <2>2. CASE ~(gameMap \/ (needBack /\ k \in SwitchKeys))
    BY <1>0, <1>1, <2>2 DEF KeyEvent, touchVars
  <2> QED BY <2>1, <2>2
<1>2. ASSUME NEW k \in SwitchKeys, NEW release \in BOOLEAN, RepeatKey(k, release) PROVE misused' = FALSE
  BY <1>2 DEF RepeatKey
<1>3. ASSUME NEW b \in Buttons, NEW press \in BOOLEAN, MouseButton(b, press) PROVE misused' = FALSE
  <2>1. b \in Owners /\ b \in Singles
    BY OneNodePerKey, KeymapAssumption DEF Owners, Singles, Keys
  <2>2. CASE ~ByKeymap(b)
    BY <1>0, <1>3, <2>2 DEF MouseButton, touchVars
  <2>3. CASE ByKeymap(b) /\ press
    BY <1>0, <1>3, <2>1, <2>3, DownGoes DEF MouseButton, ClickKey, SetTouch, Ready
  <2>4. CASE ByKeymap(b) /\ ~press
    <3>1. Asked(b)
      BY <1>3, <2>4 DEF MouseButton, Hold, Asked
    <3>2. IdsOf(Touch, b) # {}
      BY <1>0, <2>1, <3>1 DEF Ready, Wanted
    <3> QED BY <1>0, <1>3, <2>4, <3>2, UpGoes DEF MouseButton, ClickKey, SetTouch, Ready
  <2> QED BY <2>2, <2>3, <2>4
<1>4. ASSUME NEW edge \in BOOLEAN, PanMove(edge) PROVE misused' = FALSE
  <2>1. /\ StartTouch(Touch).misused = FALSE
        /\ TouchMove(StartTouch(Touch), PanKey) = StartTouch(Touch)
    BY <1>0, PanGoes, MoveGoes
  <2>2. UNCHANGED touchVars \/ SetTouch(StartTouch(Touch))
    BY <1>4, <2>1, Zenon DEF PanMove
  <2> QED BY <1>0, <2>1, <2>2 DEF SetTouch, touchVars
<1>5. CASE FreeMove \/ ResizeWindow
  BY <1>0, <1>5 DEF FreeMove, ResizeWindow, touchVars
<1>6. CASE LockKey \/ SuspendKey
  <2>1. \/ ToggleCursorLock(~locked) \/ ToggleCursorLock(FALSE) \/ ToggleCursorLock(TRUE)
        \/ UNCHANGED touchVars
    BY <1>6, Zenon DEF LockKey, SuspendKey
  <2> QED BY <1>0, <2>1, ToggleGoes DEF touchVars
<1>7. CASE SwitchGameMap \/ FocusChange
  <2>1. UNCHANGED touchVars \/ SetTouch(StopTouch(Touch))
    BY <1>7, Zenon DEF SwitchGameMap, FocusChange, ForceCustomKeymap
  <2> QED BY <1>0, <2>1, PanGoes DEF SetTouch, touchVars
<1>8. CASE WheelTimer
  <2>1. pressed # {} /\ touchKey \in WheelKeys /\ pressed' = pressed
    BY <1>0, <1>8 DEF WheelTimer, WheelOK
  <2>2. touchKey \in Wanted
    BY <2>1, OneNodePerKey DEF Wanted, Asked, Singles, Owners, Keys
  <2>3. TouchMove(Touch, touchKey) = Touch
    BY <1>0, <2>2, MoveGoes DEF Ready
  <2>4. SetTouch(Touch)
    BY <1>8, <2>1, <2>3 DEF WheelTimer
  <2> QED BY <1>0, <2>4 DEF SetTouch, Touch
<1>9. CASE DragTimer
  <2>1. dragKey \in DragKeys /\ dragTimer = "armed"
    BY <1>0, <1>9 DEF DragTimer, DragOK
  <2>2. dragKey \in Wanted
    BY <2>1, OneNodePerKey DEF Wanted, Asked, Singles, Owners, Keys
  <2>3. /\ TouchMove(Touch, dragKey) = Touch
        /\ TouchUp(Touch, dragKey).misused = FALSE
    BY <1>0, <2>2, MoveGoes, UpGoes DEF Ready
  <2>4. UNCHANGED touchVars \/ SetTouch(Touch) \/ SetTouch(TouchUp(Touch, dragKey))
    BY <1>9, <2>3, Zenon DEF DragTimer
  <2> QED BY <1>0, <2>3, <2>4 DEF SetTouch, Touch, touchVars
<1>10. CASE LiftForReplant \/ PlantAgain
  <2>1. SetTouch(StartTouch(Touch)) \/ SetTouch(StopTouch(Touch))
    BY <1>10 DEF LiftForReplant, PlantAgain
  <2>2. StartTouch(Touch).misused = FALSE /\ StopTouch(Touch).misused = FALSE
    BY <1>0, PanGoes
  <2> QED BY <2>1, <2>2 DEF SetTouch
<1>11. ASSUME NEW b \in 1..MaxBursts, BurstTimer(b) PROVE misused' = FALSE
  <2> DEFINE k == bursts[b].key
  <2>1. /\ k \in MultiKeys /\ bursts[b].left \in Nat
        /\ SetTouch(IF bursts[b].left % 2 = 0 THEN TouchDown(Touch, k) ELSE TouchUp(Touch, k))
    BY <1>0, <1>11 DEF BurstTimer, BurstsOK, BurstsType
  <2>2. k \in Owners
    BY <2>1 DEF Owners, Keys
  <2>3. CASE bursts[b].left % 2 = 0
    <3>1. SetTouch(TouchDown(Touch, k))
      BY <2>1, <2>3
    <3> HIDE DEF k
    <3> QED BY <1>0, <2>2, <3>1, DownGoes DEF SetTouch, Ready
  <2>4. CASE bursts[b].left % 2 # 0
    <3>1. SetTouch(TouchUp(Touch, k)) /\ bursts[b].left % 2 = 1
      BY <2>1, <2>4
    <3>2. b \in OddOf(bursts, k)
      BY <3>1 DEF OddOf, Odd
    <3> HIDE DEF k
    <3>3. Cardinality(IdsOf(Touch, k)) = Cardinality(OddOf(bursts, k))
      BY <2>1 DEF Roomy, GesturesOK, FingersAsked, Clean, AtLeast, Touch
    <3>4. Cardinality(OddOf(bursts, k)) # 0
      BY <3>2, OddFinite, FS_EmptySet
    <3>5. IdsOf(Touch, k) # {}
      BY <3>3, <3>4, FS_EmptySet
    <3> QED BY <1>0, <3>1, <3>5, UpGoes DEF SetTouch, Ready
  <2> QED BY <2>3, <2>4
<1>12. CASE UNCHANGED vars
  BY <1>0, <1>12 DEF vars, touchVars
<1> QED BY <1>1, <1>2, <1>3, <1>4, <1>5, <1>6, <1>7, <1>8, <1>9, <1>10, <1>11, <1>12
        DEF KeymapNext, Timers

-----------------------------------------------------------------------------
GesturesInv == steady => GesturesOK

\* For a user who changes modes between gestures the fingers on the phone are at
\* any time of the clicks, wheel, drag and pan in force and of the multi-clicks
\* that are down, one each, and none is missing that was not refused (keyEvent,
\* mouseEvent and the timers' slots); for every keymap and every size of the
\* table of fingers.
THEOREM GesturesInvariant == KeymapSpec => [](BooksInv /\ GesturesInv)
<1>1. KeymapInit => BooksInv /\ ShootInv /\ GesturesInv
  BY BooksInit, GesturesInit, ShootInit DEF GesturesInv
<1>2. BooksInv /\ ShootInv /\ GesturesInv /\ [KeymapNext]_vars => (BooksInv /\ ShootInv /\ GesturesInv)'
  <2> SUFFICES ASSUME BooksInv, ShootInv, GesturesInv, [KeymapNext]_vars
               PROVE  BooksInv' /\ ShootInv' /\ GesturesInv'
    OBVIOUS
  <2>1. BooksInv' /\ ShootInv'
    BY BooksStep, ShootStep
  <2>2. steady' = steady
    BY SteadyKept
  <2>3. steady => GesturesOK'
    BY GesturesStep DEF GesturesInv
  <2> QED BY <2>1, <2>2, <2>3 DEF GesturesInv
<1> QED BY <1>1, <1>2, PTL DEF KeymapSpec

\* A touch of such a user is refused for the first time, and the Q_ASSERT(0) of
\* sendTouchEvent() reached, only in a step that finds as many fingers asked for
\* as there are ids, MULTI_TOUCH_MAX_NUM of them: no gesture leaks an id, and no
\* UP or MOVE is sent for a finger that is not there.
THEOREM SlotForEveryTouch == KeymapSpec => EveryTouchHasASlot
<1> DEFINE Slots == steady /\ stranded = {} /\ ~misused /\ misused' =>
             Cardinality({k \in Singles : Asked(k)}) + Cardinality(Odd(bursts)) >= MaxTouch
<1>1. BooksInv /\ GesturesInv /\ [KeymapNext]_vars => Slots
  <2> SUFFICES ASSUME BooksInv, GesturesInv, [KeymapNext]_vars,
                      steady, stranded = {}, ~misused, misused'
               PROVE  Cardinality(Wanted) + Cardinality(Odd(bursts)) >= MaxTouch
    BY DEF Wanted
  <2>1. GesturesOK
    BY DEF GesturesInv
  <2>2. misused = FALSE
    BY DEF BooksInv, TouchOK, Touch
  <2>3. ~Roomy
    BY <2>1, NoneRefused
  <2>4. Cardinality(Wanted) \in Nat /\ Cardinality(Odd(bursts)) \in Nat /\ MaxTouch \in Nat
    <3>1. IsFiniteSet((Keys \cup Buttons) \cup {PanKey})
      BY OneNodePerKey, FS_AddElement
    <3>2. Wanted \in SUBSET ((Keys \cup Buttons) \cup {PanKey})
      BY DEF Wanted, Singles, Owners
    <3>3. IsFiniteSet(Wanted)
      BY <3>1, <3>2, FS_Subset
    <3> QED BY <3>3, OddFinite, FS_CardinalityType, KeymapAssumption
  <2> QED BY <2>2, <2>3, <2>4 DEF Roomy
<1> QED BY <1>1, GesturesInvariant, PTL DEF KeymapSpec, EveryTouchHasASlot

\* A key other than a multi-click's has one finger at most, in whatever order
\* gestures, timers and mode keys come and whichever touches are refused
\* (attachTouchID, processKeyDrag), but for the key of a drag whose path was
\* empty.
THEOREM OneFingerEach == KeymapSpec => [](steady => OneFingerPerKey)
<1>1. BooksInv /\ GesturesInv => (steady => OneFingerPerKey)
  BY DEF GesturesInv, GesturesOK, FingersAsked, Touch, OneFingerPerKey, Clean, AtMost
<1> QED BY <1>1, GesturesInvariant, PTL

\* The wheel's finger is down only while one of its keys is pressed, in whatever
\* order they are released, and while no touch has been refused it is down then
\* (processSteerWheel, onSteerWheelTimer).
THEOREM WheelFinger == KeymapSpec => [](steady => WheelFingerWhilePressed)
<1>1. BooksInv /\ GesturesInv => (steady => WheelFingerWhilePressed)
  <2> SUFFICES ASSUME BooksInv, GesturesInv, steady PROVE WheelFingerWhilePressed
    OBVIOUS
  <2>1. Clean(Touch, stranded, Wanted, bursts) /\ WheelOK /\ stranded \subseteq DragKeys
    BY DEF GesturesInv, GesturesOK, FingersAsked, DragOK
  <2>2. misused \in BOOLEAN /\ Touch.misused = misused
    BY DEF BooksInv, TouchOK, Touch
  <2>3. ASSUME touchKey \in WheelKeys
        PROVE  /\ IdsOf(Touch, touchKey) # {} => pressed # {}
               /\ pressed # {} /\ ~misused => IdsOf(Touch, touchKey) # {}
    <3>1. /\ touchKey \in Singles \ stranded /\ touchKey # PanKey
          /\ touchKey \notin Buttons \cup ClickKeys \cup SwitchKeys \cup DragKeys
      BY <2>1, <2>3, OneNodePerKey, KeymapAssumption DEF Singles, Owners, Keys
    <3>2. touchKey \in Wanted <=> pressed # {}
      BY <2>3, <3>1 DEF Asked, Wanted
    <3> QED BY <2>1, <2>2, <3>1, <3>2 DEF Clean, AtMost, AtLeast
  <2> QED BY <2>1, <2>3 DEF WheelFingerWhilePressed, WheelOK
<1> QED BY <1>1, GesturesInvariant, PTL

\* When such a user holds nothing and no gesture is under way, no finger is on
\* the phone but the pan's and those of the drags whose path was empty, and the
\* plain mouse is up; also when ids ran out on the way.
THEOREM NothingLeft == KeymapSpec => []NothingLeftDown
<1>1. BooksInv /\ GesturesInv => NothingLeftDown
  <2> SUFFICES ASSUME GesturesInv, steady, Resting
               PROVE  ~mouseDown /\ \A i \in down : ids[i] \in {PanKey} \cup stranded
    BY DEF NothingLeftDown
  <2>1. AtMost(Touch, stranded, Wanted, bursts) /\ WheelOK /\ MouseOK
    BY DEF GesturesInv, GesturesOK, FingersAsked, Clean
  <2>2. held = {} /\ dragTimer # "armed" /\ \A b \in 1..MaxBursts : bursts[b] = Idle
    BY DEF Resting
  <2>3. ~mouseDown
    BY <2>1, <2>2 DEF MouseOK
  <2>4. pressed = {}
    BY <2>1, <2>2 DEF WheelOK
  <2>5. \A k \in Wanted : k = PanKey
    BY <2>2, <2>4 DEF Wanted, Asked
  <2>6. Odd(bursts) = {}
    <3>1. \A b \in 1..MaxBursts : bursts[b].left = 0
      BY <2>2 DEF Idle
    <3>2. \A b \in 1..MaxBursts : bursts[b].left % 2 = 0
      BY <3>1
    <3> QED BY <3>2 DEF Odd
  <2>7. ASSUME NEW k \in MultiKeys PROVE IdsOf(Touch, k) = {}
    <3>1. Cardinality(OddOf(bursts, k)) = 0
      BY <2>6, FS_EmptySet DEF OddOf
    <3>2. Cardinality(IdsOf(Touch, k)) = 0
      BY <2>1, <3>1, MultiCounts DEF AtMost
    <3> QED BY <3>2, IdsOfFinite, FS_EmptySet
  <2>8. ASSUME NEW i \in down PROVE ids[i] \in {PanKey} \cup stranded
    <3>1. i \in Ids /\ ids[i] # NoKey /\ ids[i] \in Owners /\ Touch.ids = ids
      BY <2>1 DEF AtMost, TouchOK, Touch
    <3>2. i \in IdsOf(Touch, ids[i])
      BY <3>1 DEF IdsOf
    <3>3. ids[i] \in Singles
      BY <2>7, <3>1, <3>2 DEF Singles
    <3>4. ids[i] \notin stranded => ids[i] \in Wanted
      BY <2>1, <3>2, <3>3 DEF AtMost
    <3> QED BY <2>5, <3>4
  <2> QED BY <2>3, <2>8
<1> QED BY <1>1, GesturesInvariant, PTL
=============================================================================
