------------------------ MODULE RawInputDaemonProofs ------------------------
(***************************************************************************)
(* What the daemon guarantees for every number of slots, every panel size, *)
(* and every client.                                                       *)
(***************************************************************************)
EXTENDS RawInputDaemon, FiniteSetTheorems, TLAPS

\* Clamp is what keeps a coordinate on its axis.
LEMMA ClampInRange ==
  ASSUME NEW v \in Int, NEW max \in Nat
  PROVE  Clamp(v, max) \in 0..max
BY DEF Clamp

LEMMA RoundedInt ==
  ASSUME NEW num \in Int, NEW den \in Int, den > 0
  PROVE  Rounded(num, den) \in Int
BY DEF Rounded

\* The three orientations of a frame that is not empty.
LEMMA Orientations ==
  ASSUME NEW f \in [w : Int, h : Int], f.w > 0, f.h > 0, NEW r, NEW x \in Int, NEW y \in Int
  PROVE  /\ ~IsLandscape(f) =>
              MapFrameToPanel(f, r, x, y) =
                [x |-> Clamp(Rounded(x * TouchXMax, f.w), TouchXMax),
                 y |-> Clamp(Rounded(y * TouchYMax, f.h), TouchYMax)]
         /\ IsLandscape(f) /\ r = "90" =>
              MapFrameToPanel(f, r, x, y) =
                [x |-> Clamp(Rounded((f.h - y) * TouchXMax, f.h), TouchXMax),
                 y |-> Clamp(Rounded(x * TouchYMax, f.w), TouchYMax)]
         /\ IsLandscape(f) /\ r # "90" =>
              MapFrameToPanel(f, r, x, y) =
                [x |-> Clamp(Rounded(y * TouchXMax, f.h), TouchXMax),
                 y |-> Clamp(Rounded((f.w - x) * TouchYMax, f.w), TouchYMax)]
<1> DEFINE w == f.w
           h == f.h
           xx == y * TouchXMax
           yy == TouchYMax * w - x * TouchYMax
<1>1. w \in Int /\ h \in Int /\ ~(w <= 0 \/ h <= 0)
  OBVIOUS
<1>2. /\ TouchXMax * h - xx = (h - y) * TouchXMax
      /\ yy = (w - x) * TouchYMax
      /\ TouchYMax * w - yy = x * TouchYMax
  BY <1>1, PanelAssumption
<1> HIDE DEF w, h, xx, yy
<1>3. CASE ~IsLandscape(f)
  BY <1>1, <1>3 DEF MapFrameToPanel, w, h
<1>4. CASE IsLandscape(f) /\ r = "90"
  <2>1. MapFrameToPanel(f, r, x, y) =
          [x |-> Clamp(Rounded(TouchXMax * h - xx, h), TouchXMax),
           y |-> Clamp(Rounded(TouchYMax * w - yy, w), TouchYMax)]
    BY <1>1, <1>4 DEF MapFrameToPanel, w, h, xx, yy
  <2>2. MapFrameToPanel(f, r, x, y) =
          [x |-> Clamp(Rounded((h - y) * TouchXMax, h), TouchXMax),
           y |-> Clamp(Rounded(x * TouchYMax, w), TouchYMax)]
    BY <1>2, <2>1, Zenon
  <2> QED BY <1>4, <2>2, Zenon DEF w, h
<1>5. CASE IsLandscape(f) /\ r # "90"
  <2>1. MapFrameToPanel(f, r, x, y) =
          [x |-> Clamp(Rounded(xx, h), TouchXMax),
           y |-> Clamp(Rounded(yy, w), TouchYMax)]
    BY <1>1, <1>5 DEF MapFrameToPanel, w, h, xx, yy
  <2>2. MapFrameToPanel(f, r, x, y) =
          [x |-> Clamp(Rounded(xx, h), TouchXMax),
           y |-> Clamp(Rounded((w - x) * TouchYMax, w), TouchYMax)]
    BY <1>2, <2>1, Zenon
  <2> QED BY <1>5, <2>2, Zenon DEF w, h, xx
<1> QED BY <1>3, <1>4, <1>5, Zenon

\* Whatever frame and coordinates a client sends, the injected point lies on
\* the panel's declared axes (map_frame_to_panel).
THEOREM MappedOnPanel ==
  ASSUME NEW f \in [w : Int, h : Int], NEW r, NEW x \in Int, NEW y \in Int
  PROVE  MapFrameToPanel(f, r, x, y) \in PanelPoint
<1>1. CASE f.w <= 0 \/ f.h <= 0
  BY <1>1, PanelAssumption DEF MapFrameToPanel, PanelPoint
<1>2. CASE f.w > 0 /\ f.h > 0
  <2> DEFINE w == f.w
             h == f.h
             left == w - x
             up == h - y
             p == MapFrameToPanel(f, r, x, y)
  <2>1. /\ w \in Int /\ h \in Int /\ left \in Int /\ up \in Int
        /\ w > 0 /\ h > 0 /\ TouchXMax \in Nat /\ TouchYMax \in Nat
    BY <1>2, PanelAssumption
  <2>2. \/ p = [x |-> Clamp(Rounded(x * TouchXMax, w), TouchXMax),
                y |-> Clamp(Rounded(y * TouchYMax, h), TouchYMax)]
        \/ p = [x |-> Clamp(Rounded(up * TouchXMax, h), TouchXMax),
                y |-> Clamp(Rounded(x * TouchYMax, w), TouchYMax)]
        \/ p = [x |-> Clamp(Rounded(y * TouchXMax, h), TouchXMax),
                y |-> Clamp(Rounded(left * TouchYMax, w), TouchYMax)]
    BY <1>2, Orientations
  <2> HIDE DEF w, h, left, up, p
  <2>3. \A k, d, max \in Int : d > 0 /\ max \in Nat => Clamp(Rounded(k * max, d), max) \in 0..max
    BY ClampInRange, RoundedInt
  <2>4. p \in PanelPoint
    BY <2>1, <2>2, <2>3 DEF PanelPoint
  <2> QED BY <2>4 DEF p
<1>3. QED BY <1>1, <1>2

-----------------------------------------------------------------------------
(***************************************************************************)
(* The inductive invariant.  ButtonFollowsContacts alone is not inductive: *)
(* the handlers consult active_slot_count, never the panel, so the count   *)
(* must be tied to slot_active and slot_active to the panel.  The bound of *)
(* the count in DaemonTypeOK follows from CountAgrees.                     *)
(***************************************************************************)
PreType ==
  /\ running \in BOOLEAN
  /\ client \in BOOLEAN
  /\ slotActive \in [Slots -> BOOLEAN]
  /\ activeSlotCount \in Nat
  /\ frame \in Frames \cup {NoFrame}
  /\ rotation \in Rotations
  /\ track \in [Slots -> TrackIds \cup {NoTrack}]
  /\ pos \in [Slots -> PanelPoint]
  /\ btnTouch \in {0, 1}

ButtonFollowsCount == btnTouch = 1 <=> activeSlotCount > 0

CleanWithoutClient == /\ ~client => activeSlotCount = 0
                      /\ ~running => ~client

DaemonInv == /\ PreType
             /\ ContactsAgree
             /\ CountAgrees
             /\ ButtonFollowsCount
             /\ CleanWithoutClient

\* The set of active slots is finite, and empty exactly when its count is 0.
LEMMA ActiveFinite ==
  ASSUME NEW A \in SUBSET Slots
  PROVE  /\ IsFiniteSet(A)
         /\ Cardinality(A) \in 0..MaxSlots
         /\ Cardinality(A) = 0 <=> A = {}
<1>1. IsFiniteSet(Slots) /\ Cardinality(Slots) = MaxSlots
  BY FS_Interval, DaemonAssumption DEF Slots
<1>2. IsFiniteSet(A) /\ Cardinality(A) <= MaxSlots
  BY <1>1, FS_Subset
<1>3. QED BY <1>2, FS_EmptySet, FS_CardinalityType, DaemonAssumption

\* slot_active and its count, when one slot is set or cleared.
LEMMA ActiveUpdate ==
  ASSUME slotActive \in [Slots -> BOOLEAN], NEW slot \in Slots, NEW b \in BOOLEAN,
         slotActive' = [slotActive EXCEPT ![slot] = b]
  PROVE  /\ slotActive' \in [Slots -> BOOLEAN]
         /\ Active' = IF b THEN Active \cup {slot} ELSE Active \ {slot}
         /\ Cardinality(Active') =
              IF b THEN IF slotActive[slot] THEN Cardinality(Active)
                                            ELSE Cardinality(Active) + 1
                   ELSE IF slotActive[slot] THEN Cardinality(Active) - 1
                                            ELSE Cardinality(Active)
<1>1. slotActive' \in [Slots -> BOOLEAN]
  OBVIOUS
<1>2. Active' = IF b THEN Active \cup {slot} ELSE Active \ {slot}
  BY DEF Active
<1>3. IsFiniteSet(Active)
  BY ActiveFinite DEF Active
<1>4. slot \in Active <=> slotActive[slot]
  BY DEF Active
<1>5. QED BY <1>1, <1>2, <1>3, <1>4, FS_AddElement, FS_RemoveElement

LEMMA InitInv == DaemonInit => DaemonInv
<1> SUFFICES ASSUME DaemonInit PROVE DaemonInv
  OBVIOUS
<1>1. PreType
  <2>1. [x |-> 0, y |-> 0] \in PanelPoint
    BY PanelAssumption DEF PanelPoint
  <2>2. pos \in [Slots -> PanelPoint]
    BY <2>1 DEF DaemonInit
  <2>3. QED BY <2>2 DEF DaemonInit, PreType, Rotations
<1>2. Active = {} /\ CountAgrees
  BY FS_EmptySet DEF DaemonInit, Active, CountAgrees
<1>3. QED
  BY <1>1, <1>2 DEF DaemonInit, DaemonInv, ContactsAgree, Down, NoTrack,
                    ButtonFollowsCount, CleanWithoutClient

\* A step that leaves the contacts, their count and the button alone.
LEMMA SameContacts ==
  ASSUME DaemonInv, PreType', UNCHANGED <<slotActive, activeSlotCount, track, btnTouch>>,
         client' \/ activeSlotCount = 0, client' => running'
  PROVE  DaemonInv'
BY DEF DaemonInv, ContactsAgree, Down, CountAgrees, Active, ButtonFollowsCount,
       CleanWithoutClient

LEMMA DownInv ==
  ASSUME DaemonInv, NEW slot \in 0..MaxSlots, NEW id \in TrackIds,
         NEW x \in Coords, NEW y \in Coords, HandleDown(slot, id, x, y)
  PROVE  DaemonInv'
<1> USE DEF DaemonInv
<1>0. x \in Int /\ y \in Int /\ frame \in [w : Int, h : Int]
  BY DaemonAssumption DEF PreType, NoFrame
<1>1. CASE slot \notin Slots
  <2>1. PreType'
    BY <1>1 DEF HandleDown, PreType, state, panel
  <2>2. QED BY <2>1, <1>1, SameContacts DEF HandleDown, state, panel, CleanWithoutClient
<1>2. CASE slot \in Slots
  <2>1. /\ slotActive' = [slotActive EXCEPT ![slot] = TRUE]
        /\ activeSlotCount' = IF slotActive[slot] THEN activeSlotCount
                                                  ELSE activeSlotCount + 1
        /\ track' = [track EXCEPT ![slot] = id]
        /\ pos' = [pos EXCEPT ![slot] = MapFrameToPanel(frame, rotation, x, y)]
        /\ btnTouch' = IF activeSlotCount = 0 THEN 1 ELSE btnTouch
        /\ UNCHANGED <<frame, running, client, rotation>> /\ client
    BY <1>2 DEF HandleDown, WriteBtn
  <2>2. MapFrameToPanel(frame, rotation, x, y) \in PanelPoint
    BY <1>0, MappedOnPanel
  <2>3. PreType'
    <3>1. pos' \in [Slots -> PanelPoint]
      BY <2>1, <2>2 DEF PreType
    <3>2. track' \in [Slots -> TrackIds \cup {NoTrack}]
      BY <2>1 DEF PreType
    <3>3. slotActive' \in [Slots -> BOOLEAN]
      BY <2>1 DEF PreType
    <3>3a. activeSlotCount' \in Nat
      <4>1. activeSlotCount \in Nat
        BY DEF PreType
      <4>2. QED BY <2>1, <4>1
    <3>4. btnTouch' \in {0, 1}
      BY <2>1 DEF PreType
    <3>5. QED BY <2>1, <3>1, <3>2, <3>3, <3>3a, <3>4 DEF PreType
  <2>4. ContactsAgree'
    BY <1>2, <2>1 DEF ContactsAgree, Down, PreType, NoTrack, TrackIds
  <2>5. CountAgrees'
    BY <1>2, <2>1, ActiveUpdate DEF PreType, CountAgrees
  <2>6. activeSlotCount' > 0
    <3>1. slotActive[slot] => activeSlotCount # 0
      BY <1>2, ActiveFinite DEF CountAgrees, Active
    <3>2. QED BY <2>1, <3>1 DEF PreType
  <2>7. ButtonFollowsCount' /\ CleanWithoutClient'
    BY <2>1, <2>6 DEF ButtonFollowsCount, CleanWithoutClient, PreType
  <2>8. QED BY <2>3, <2>4, <2>5, <2>7
<1>3. QED BY <1>1, <1>2

LEMMA MoveInv ==
  ASSUME DaemonInv, NEW slot \in 0..MaxSlots,
         NEW x \in Coords, NEW y \in Coords, HandleMove(slot, x, y)
  PROVE  DaemonInv'
<1>1. x \in Int /\ y \in Int /\ frame \in [w : Int, h : Int]
  BY DaemonAssumption DEF PreType, NoFrame, DaemonInv
<1>2. MapFrameToPanel(frame, rotation, x, y) \in PanelPoint
  BY <1>1, MappedOnPanel
<1>3. PreType'
  BY <1>2 DEF DaemonInv, HandleMove, PreType, state
<1>4. QED BY <1>3, SameContacts DEF HandleMove, state, DaemonInv, CleanWithoutClient

LEMMA UpInv ==
  ASSUME DaemonInv, NEW slot \in 0..MaxSlots, HandleUp(slot)
  PROVE  DaemonInv'
<1> USE DEF DaemonInv
<1>1. CASE slot \notin Slots
  <2>1. PreType'
    BY <1>1 DEF HandleUp, PreType, state, panel
  <2>2. QED BY <2>1, <1>1, SameContacts DEF HandleUp, state, panel, CleanWithoutClient
<1>2. CASE slot \in Slots
  <2>1. /\ slotActive' = [slotActive EXCEPT ![slot] = FALSE]
        /\ activeSlotCount' = IF slotActive[slot] /\ activeSlotCount > 0
                              THEN activeSlotCount - 1 ELSE activeSlotCount
        /\ track' = [track EXCEPT ![slot] = NoTrack]
        /\ btnTouch' = IF activeSlotCount' = 0 THEN 0 ELSE btnTouch
        /\ UNCHANGED <<frame, pos, running, client, rotation>> /\ client
    BY <1>2 DEF HandleUp, WriteBtn
  <2>2. slotActive[slot] => activeSlotCount > 0
    BY <1>2, ActiveFinite DEF CountAgrees, Active, PreType
  <2>3. PreType'
    <3>1. track' \in [Slots -> TrackIds \cup {NoTrack}]
      BY <2>1 DEF PreType
    <3>2. slotActive' \in [Slots -> BOOLEAN]
      BY <2>1 DEF PreType
    <3>2a. activeSlotCount' \in Nat
      <4>1. activeSlotCount \in Nat
        BY DEF PreType
      <4>2. QED BY <2>1, <4>1
    <3>3. btnTouch' \in {0, 1}
      BY <2>1 DEF PreType
    <3>4. QED BY <2>1, <3>1, <3>2, <3>2a, <3>3 DEF PreType
  <2>4. ContactsAgree'
    BY <1>2, <2>1 DEF ContactsAgree, Down, PreType
  <2>5. CountAgrees'
    BY <1>2, <2>1, <2>2, ActiveUpdate DEF PreType, CountAgrees
  <2>6. ButtonFollowsCount' /\ CleanWithoutClient'
    BY <2>1, <2>3 DEF ButtonFollowsCount, CleanWithoutClient, PreType
  <2>7. QED BY <2>3, <2>4, <2>5, <2>6
<1>3. QED BY <1>1, <1>2

LEMMA ResetInv ==
  ASSUME DaemonInv, ResetTouchState, client' = FALSE, running' \in BOOLEAN
  PROVE  DaemonInv'
<1> USE DEF DaemonInv
<1>1. PreType'
  BY DEF ResetTouchState, WriteBtn, PreType
<1>2. Active' = {} /\ ContactsAgree'
  BY DEF ResetTouchState, ContactsAgree, Down, Active, PreType
<1>3. CountAgrees'
  BY <1>2, FS_EmptySet DEF CountAgrees, ResetTouchState
<1>4. ButtonFollowsCount' /\ CleanWithoutClient'
  BY DEF ButtonFollowsCount, CleanWithoutClient, ResetTouchState, WriteBtn, PreType
<1>5. QED BY <1>1, <1>2, <1>3, <1>4

LEMMA NextInv == DaemonInv /\ [DaemonNext]_daemonVars => DaemonInv'
<1> SUFFICES ASSUME DaemonInv, [DaemonNext]_daemonVars PROVE DaemonInv'
  OBVIOUS
<1> USE DEF DaemonInv
<1>1. CASE Launch
  <2>1. PreType'
    BY <1>1 DEF Launch, PreType, panel, Rotations
  <2>2. \A s \in Slots : ~slotActive[s]
    BY ActiveFinite, <1>1 DEF Launch, CleanWithoutClient, CountAgrees, Active, PreType
  <2>3. QED
    <3>1. Active' = {} /\ CountAgrees'
      BY <1>1, FS_EmptySet DEF Launch, Active, CountAgrees
    <3>2. QED
      BY <1>1, <2>1, <2>2, <3>1 DEF Launch, panel, ContactsAgree, Down,
         ButtonFollowsCount, CleanWithoutClient, PreType
<1>2. CASE Accept
  <2>1. PreType'
    BY <1>2 DEF Accept, PreType, state, panel
  <2>2. QED BY <1>2, <2>1, SameContacts DEF Accept, state, panel
<1>3. CASE \E slot \in 0..MaxSlots : \E id \in TrackIds : \E x, y \in Coords :
             HandleDown(slot, id, x, y)
  BY <1>3, DownInv
<1>4. CASE \E slot \in 0..MaxSlots : \E x, y \in Coords : HandleMove(slot, x, y)
  BY <1>4, MoveInv
<1>5. CASE \E slot \in 0..MaxSlots : HandleUp(slot)
  BY <1>5, UpInv
<1>6. CASE \E f \in Frames : HandleFrame(f)
  <2>1. PreType'
    BY <1>6 DEF HandleFrame, PreType, panel
  <2>2. QED BY <1>6, <2>1, SameContacts DEF HandleFrame, panel, CleanWithoutClient
<1>7. CASE ClientGone
  BY <1>7, ResetInv DEF ClientGone, PreType
<1>8. CASE HandleQuit
  BY <1>8, ResetInv DEF HandleQuit
<1>9. CASE \E r \in Polled : RotationPoll(r)
  <2>1. PreType'
    BY <1>9, DaemonAssumption DEF RotationPoll, PreType, state, panel
  <2>2. QED
    BY <1>9, <2>1, SameContacts DEF RotationPoll, state, panel, CleanWithoutClient
<1>10. CASE UNCHANGED daemonVars
  <2>1. PreType'
    BY <1>10 DEF daemonVars, PreType, state, panel
  <2>2. QED
    BY <1>10, <2>1, SameContacts DEF daemonVars, state, panel, CleanWithoutClient
<1>11. QED
  BY <1>1, <1>2, <1>3, <1>4, <1>5, <1>6, <1>7, <1>8, <1>9, <1>10 DEF DaemonNext

LEMMA InvImplies ==
  DaemonInv => /\ DaemonTypeOK
               /\ ButtonFollowsContacts
               /\ NothingStuckWithoutClient
<1> SUFFICES ASSUME DaemonInv PROVE /\ DaemonTypeOK
                                    /\ ButtonFollowsContacts
                                    /\ NothingStuckWithoutClient
  OBVIOUS
<1> USE DEF DaemonInv
<1>1. activeSlotCount \in 0..MaxSlots
  BY ActiveFinite DEF CountAgrees, Active
<1>2. activeSlotCount > 0 <=> \E s \in Slots : Down(s)
  BY <1>1, ActiveFinite DEF CountAgrees, Active, ContactsAgree
<1>3. DaemonTypeOK
  BY <1>1 DEF DaemonTypeOK, PreType
<1>4. ButtonFollowsContacts
  BY <1>2 DEF ButtonFollowsContacts, ButtonFollowsCount
<1>5. NothingStuckWithoutClient
  BY <1>2 DEF NothingStuckWithoutClient, CleanWithoutClient, ButtonFollowsCount, PreType
<1>6. QED BY <1>3, <1>4, <1>5

THEOREM DaemonInvariant == DaemonSpec => []DaemonInv
BY InitInv, NextInv, PTL DEF DaemonSpec

\* The daemon's variables keep their types: the count never exceeds the slots.
THEOREM TypeCorrect == DaemonSpec => []DaemonTypeOK
BY DaemonInvariant, InvImplies, PTL

\* Two books of what is down, one truth (handle_down, handle_up, reset).
THEOREM BooksAgree == DaemonSpec => [](ContactsAgree /\ CountAgrees)
<1>1. DaemonInv => ContactsAgree /\ CountAgrees
  BY DEF DaemonInv
<1>2. QED BY DaemonInvariant, <1>1, PTL

\* BTN_TOUCH is down exactly while a contact is, for every number of slots.
THEOREM ButtonCorrect == DaemonSpec => []ButtonFollowsContacts
BY DaemonInvariant, InvImplies, PTL

\* No client, no contact: whatever the departed client left down is lifted.
THEOREM NothingStuck == DaemonSpec => []NothingStuckWithoutClient
BY DaemonInvariant, InvImplies, PTL

-----------------------------------------------------------------------------
(* The transform against its geometric meaning.                            *)

\* What the solvers do not find in a product of two variables.
LEMMA ProductLess ==
  ASSUME NEW d \in Nat, NEW a \in Int, NEW b \in Int, a < b
  PROVE  a * d + d <= b * d
<1>1. PICK k \in Nat : b = a + 1 + k
  <2>1. b - a - 1 \in Nat /\ b = a + 1 + (b - a - 1)
    OBVIOUS
  <2> QED BY <2>1
<1>2. b * d = a * d + d + k * d
  BY <1>1
<1>3. k * d \in Nat
  OBVIOUS
<1>4. a * d \in Int /\ b * d \in Int
  OBVIOUS
<1> QED BY <1>2, <1>3, <1>4

LEMMA ProductAtMost ==
  ASSUME NEW d \in Nat, NEW a \in Int, NEW b \in Int, a <= b
  PROVE  a * d <= b * d
<1>1. a * d \in Int /\ b * d \in Int
  OBVIOUS
<1>2. CASE a < b
  BY <1>1, <1>2, ProductLess
<1>3. CASE a = b
  BY <1>1, <1>3
<1> QED BY <1>2, <1>3

LEMMA DivisionBounds ==
  ASSUME NEW n \in Int, NEW m \in Nat \ {0}
  PROVE  /\ n \div m \in Int
         /\ (n \div m) * m <= n
         /\ n < (n \div m) * m + m
OBVIOUS

\* Rounding to the nearest point of an axis and clamping to it lose no more
\* than half a point of a place that is on the axis.
LEMMA NearestOnAxis ==
  ASSUME NEW d \in Nat \ {0}, NEW max \in Nat, NEW k \in 0..d
  PROVE  2 * Distance(Clamp(Rounded(k * max, d), max) * d, k * max) <= d
<1> DEFINE n == k * max
           q == Rounded(n, d)
<1>1. n \in Nat /\ n <= d * max
  BY ProductAtMost
<1>2. q \in Int /\ q * (2 * d) <= 2 * n + d /\ 2 * n + d < q * (2 * d) + 2 * d
  <2>1. 2 * n + d \in Int /\ 2 * d \in Nat \ {0}
    BY <1>1
  <2> HIDE DEF n
  <2> QED BY <2>1, DivisionBounds DEF Rounded
<1> HIDE DEF n, q
<1>3. q * (2 * d) = 2 * (q * d) /\ q * d \in Int
  BY <1>2
<1>4. 0 <= q
  <2> SUFFICES ASSUME q < 0 PROVE FALSE
    BY <1>2
  <2>1. q * d + d <= 0 * d
    BY <1>2, ProductLess
  <2> QED BY <1>1, <1>2, <1>3, <2>1
<1>5. q <= max
  <2> SUFFICES ASSUME max < q PROVE FALSE
    BY <1>2
  <2>1. max * d + d <= q * d
    BY <1>2, ProductLess
  <2>2. max * d = d * max /\ d * max \in Nat
    OBVIOUS
  <2> QED BY <1>1, <1>2, <1>3, <2>1, <2>2
<1>6. Clamp(q, max) = q
  BY <1>2, <1>4, <1>5 DEF Clamp
<1>7. 2 * Distance(q * d, n) <= d
  BY <1>1, <1>2, <1>3 DEF Distance
<1> QED BY <1>6, <1>7 DEF q, n

LEMMA NearestInFrame == ASSUME frame \in [w : Int, h : Int] PROVE NearestPanelPoint
<1> SUFFICES ASSUME frame.w > 0, frame.h > 0, NEW x \in 0..frame.w, NEW y \in 0..frame.h
             PROVE  LET t == Turned(x, y)
                        p == MapFrameToPanel(frame, rotation, x, y)
                    IN /\ 2 * Distance(p.x * t.du, t.u * TouchXMax) <= t.du
                       /\ 2 * Distance(p.y * t.dv, t.v * TouchYMax) <= t.dv
  BY DEF NearestPanelPoint
<1> DEFINE w == frame.w
           h == frame.h
           left == w - x
           up == h - y
           p == MapFrameToPanel(frame, rotation, x, y)
<1>1. /\ w \in Nat \ {0} /\ h \in Nat \ {0} /\ TouchXMax \in Nat /\ TouchYMax \in Nat
      /\ x \in 0..w /\ y \in 0..h /\ left \in 0..w /\ up \in 0..h
      /\ IsLandscape(frame) <=> ~(w <= h)
  BY PanelAssumption DEF IsLandscape
<1>2. /\ ~IsLandscape(frame) =>
           p = [x |-> Clamp(Rounded(x * TouchXMax, w), TouchXMax),
                y |-> Clamp(Rounded(y * TouchYMax, h), TouchYMax)]
      /\ IsLandscape(frame) /\ rotation = "90" =>
           p = [x |-> Clamp(Rounded(up * TouchXMax, h), TouchXMax),
                y |-> Clamp(Rounded(x * TouchYMax, w), TouchYMax)]
      /\ IsLandscape(frame) /\ rotation # "90" =>
           p = [x |-> Clamp(Rounded(y * TouchXMax, h), TouchXMax),
                y |-> Clamp(Rounded(left * TouchYMax, w), TouchYMax)]
  <2>1. x \in Int /\ y \in Int
    BY <1>1
  <2> QED BY <2>1, Orientations
<1>3. Turned(x, y) = IF w <= h THEN [u |-> x, du |-> w, v |-> y, dv |-> h]
                     ELSE IF rotation = "90" THEN [u |-> up, du |-> h, v |-> x, dv |-> w]
                     ELSE [u |-> y, du |-> h, v |-> left, dv |-> w]
  BY DEF Turned
<1>4. \A d \in Nat \ {0}, max \in Nat : \A k \in 0..d :
        2 * Distance(Clamp(Rounded(k * max, d), max) * d, k * max) <= d
  BY NearestOnAxis
<1> HIDE DEF w, h, left, up, p
<1>5. CASE w <= h
  BY <1>1, <1>2, <1>3, <1>4, <1>5 DEF p
<1>6. CASE ~(w <= h) /\ rotation = "90"
  BY <1>1, <1>2, <1>3, <1>4, <1>6 DEF p
<1>7. CASE ~(w <= h) /\ rotation # "90"
  BY <1>1, <1>2, <1>3, <1>4, <1>7 DEF p
<1> QED BY <1>5, <1>6, <1>7

\* In every state, a finger anywhere in the frame in force is injected at the
\* panel point nearest to it, for every size of frame and panel
\* (map_frame_to_panel).
THEOREM NearestPoint == DaemonSpec => []NearestPanelPoint
<1>1. DaemonInv => NearestPanelPoint
  <2> SUFFICES ASSUME DaemonInv PROVE NearestPanelPoint
    OBVIOUS
  <2>1. NoFrame \in [w : Int, h : Int]
    BY DEF NoFrame
  <2>2. frame \in [w : Int, h : Int]
    BY <2>1, DaemonAssumption DEF DaemonInv, PreType
  <2> QED BY <2>2, NearestInFrame
<1>2. QED BY <1>1, DaemonInvariant, PTL

-----------------------------------------------------------------------------
Contacts == {s \in Slots : Down(s)}

ScreenAgrees == /\ (btnTouch = 1) = (Contacts # {})
                /\ ~client => Contacts = {}

LEMMA TouchButton == DaemonInv => ScreenAgrees
BY InvImplies DEF ButtonFollowsContacts, NothingStuckWithoutClient, Contacts, ScreenAgrees

\* The same two facts about the state a step leads to.
LEMMA TouchNextState == DaemonInv' => ScreenAgrees'
BY TouchButton, PTL

\* A step that moves no contact in or out is a stutter of the multitouch screen.
LEMMA TouchStutter ==
  ASSUME DaemonInv, DaemonInv', UNCHANGED <<client, track>>
  PROVE  UNCHANGED Touch!touchVars
<1>1. Contacts' = Contacts
  BY DEF Contacts, Down
<1>2. (btnTouch = 1)' = (btnTouch = 1)
  BY <1>1, TouchButton, TouchNextState DEF ScreenAgrees
<1>3. QED BY <1>1, <1>2 DEF Touch!touchVars, Contacts

\* The daemon implements the multitouch screen: every packet presses or lifts
\* one contact or stutters, and a client's end lifts them all at once.
THEOREM ImplementsScreen == DaemonSpec => ImplementsMultiTouch
<1>1. DaemonInit => Touch!TouchInit
  BY DEF DaemonInit, Touch!TouchInit, Down
<1>2. DaemonInv /\ DaemonInv' /\ [DaemonNext]_daemonVars
        => [Touch!TouchNext]_Touch!touchVars
  <2> SUFFICES ASSUME DaemonInv, DaemonInv', [DaemonNext]_daemonVars
               PROVE  [Touch!TouchNext]_Touch!touchVars
    OBVIOUS
  <2> USE DEF DaemonInv
  <2>0. /\ (btnTouch = 1) = (Contacts # {})
        /\ (btnTouch = 1)' = (Contacts' # {})
    BY TouchButton, TouchNextState DEF ScreenAgrees
  <2>1. CASE Launch
    BY <2>1, TouchStutter DEF Launch, panel, CleanWithoutClient, PreType
  <2>2. CASE Accept
    <3>1. Contacts' = Contacts
      BY <2>2 DEF Accept, panel, Contacts, Down
    <3>2. Touch!Serve
      BY <2>2, <2>0, <3>1 DEF Accept, panel, Touch!Serve, Contacts
    <3>3. QED BY <3>2 DEF Touch!TouchNext
  <2>3. ASSUME NEW slot \in 0..MaxSlots, NEW id \in TrackIds,
               NEW x \in Coords, NEW y \in Coords, HandleDown(slot, id, x, y)
        PROVE  [Touch!TouchNext]_Touch!touchVars
    <3>1. CASE slot \notin Slots
      BY <2>3, <3>1, TouchStutter DEF HandleDown, panel
    <3>2. CASE slot \in Slots
      <4>1. track' = [track EXCEPT ![slot] = id] /\ id # NoTrack
        BY <2>3, <3>2 DEF HandleDown, TrackIds, NoTrack
      <4>2. Contacts' = Contacts \cup {slot}
        BY <4>1, <3>2 DEF Contacts, Down, PreType
      <4>3. client /\ client' = client
        BY <2>3 DEF HandleDown
      <4>4. Touch!Press(slot)
        BY <2>0, <4>2, <4>3 DEF Touch!Press, Touch!SetContacts, Contacts
      <4>5. QED BY <4>4, <3>2 DEF Touch!TouchNext
    <3>3. QED BY <3>1, <3>2
  <2>4. CASE \E slot \in 0..MaxSlots : \E x, y \in Coords : HandleMove(slot, x, y)
    BY <2>4, TouchStutter DEF HandleMove
  <2>5. ASSUME NEW slot \in 0..MaxSlots, HandleUp(slot)
        PROVE  [Touch!TouchNext]_Touch!touchVars
    <3>1. CASE slot \notin Slots
      BY <2>5, <3>1, TouchStutter DEF HandleUp, panel
    <3>2. CASE slot \in Slots
      <4>1. track' = [track EXCEPT ![slot] = NoTrack] /\ client /\ client' = client
        BY <2>5, <3>2 DEF HandleUp
      <4>2. Contacts' = Contacts \ {slot}
        BY <4>1, <3>2 DEF Contacts, Down, PreType
      <4>3. Touch!Lift(slot)
        BY <2>0, <4>1, <4>2 DEF Touch!Lift, Touch!SetContacts, Contacts
      <4>4. QED BY <4>3, <3>2 DEF Touch!TouchNext
    <3>3. QED BY <3>1, <3>2
  <2>6. CASE \E f \in Frames : HandleFrame(f)
    BY <2>6, TouchStutter DEF HandleFrame, panel
  <2>7. CASE ClientGone \/ HandleQuit
    <3>1. client /\ client' = FALSE
      BY <2>7 DEF ClientGone, HandleQuit
    <3>2. Contacts' = {}
      BY <3>1, TouchNextState DEF ScreenAgrees
    <3>3. Touch!Leave
      BY <2>0, <3>1, <3>2 DEF Touch!Leave, Touch!SetContacts, Contacts
    <3>4. QED BY <3>3 DEF Touch!TouchNext
  <2>8. CASE \E r \in Polled : RotationPoll(r)
    BY <2>8, TouchStutter DEF RotationPoll, panel
  <2>9. CASE UNCHANGED daemonVars
    BY <2>9, TouchStutter DEF daemonVars, panel
  <2>10. QED
    BY <2>1, <2>2, <2>3, <2>4, <2>5, <2>6, <2>7, <2>8, <2>9 DEF DaemonNext
<1>3. QED
  BY <1>1, <1>2, DaemonInvariant, PTL DEF DaemonSpec, Touch!TouchSpec, ImplementsMultiTouch
=============================================================================
