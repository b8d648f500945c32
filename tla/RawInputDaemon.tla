--------------------------- MODULE RawInputDaemon ---------------------------
(***************************************************************************)
(* The on-device injection daemon (rawinputdaemon/raw_input_daemon.c): one *)
(* process, one client at a time, fixed-size packets, and the state of the *)
(* touch node it writes to.  The main thread handles one packet at a time  *)
(* and nothing else writes the node, so each handler is one action; the    *)
(* rotation thread shares only g_rotation, read once per handler under its *)
(* mutex, and is an action of its own.                                     *)
(***************************************************************************)
EXTENDS PanelMapping, FiniteSets

CONSTANTS MaxSlots,    \* MAX_SLOTS, 10
          Frames,      \* frame sizes a client may announce
          Coords,      \* frame coordinates a client may send (may lie outside)
          Polled       \* rotations `dumpsys window` may report

ASSUME DaemonAssumption == /\ MaxSlots \in Nat \ {0}
                           /\ Frames \subseteq [w : Int, h : Int]
                           /\ Coords \subseteq Int
                           /\ Polled \subseteq Rotations

Slots    == 0..(MaxSlots - 1)
TrackIds == 1..MaxSlots
NoFrame  == [w |-> 0, h |-> 0]   \* memset(&st, 0, sizeof(st))
NoTrack  == -1                   \* ABS_MT_TRACKING_ID -1: no contact

VARIABLES
  running,          \* the process is up and its listening socket is bound
  client,           \* inside the read loop of an accepted connection
  slotActive,       \* st.slot_active
  activeSlotCount,  \* st.active_slot_count
  frame,            \* st.frame_width, st.frame_height
  rotation,         \* g_rotation
  track,            \* kernel: ABS_MT_TRACKING_ID of each slot of the node
  pos,              \* kernel: ABS_MT_POSITION_X/Y of each slot
  btnTouch          \* kernel: BTN_TOUCH

panel == <<track, pos, btnTouch>>
state == <<slotActive, activeSlotCount, frame>>
daemonVars == <<running, client, state, rotation, panel>>

DaemonTypeOK ==
  /\ running \in BOOLEAN
  /\ client \in BOOLEAN
  /\ slotActive \in [Slots -> BOOLEAN]
  /\ activeSlotCount \in 0..MaxSlots
  /\ frame \in Frames \cup {NoFrame}
  /\ rotation \in Rotations
  /\ track \in [Slots -> TrackIds \cup {NoTrack}]
  /\ pos \in [Slots -> PanelPoint]
  /\ btnTouch \in {0, 1}

DaemonInit ==
  /\ running = FALSE
  /\ client = FALSE
  /\ slotActive = [s \in Slots |-> FALSE]
  /\ activeSlotCount = 0
  /\ frame = NoFrame
  /\ rotation = "unknown"
  /\ track = [s \in Slots |-> NoTrack]
  /\ pos = [s \in Slots |-> [x |-> 0, y |-> 0]]
  /\ btnTouch = 0

-----------------------------------------------------------------------------
\* emit(EV_KEY, BTN_TOUCH, v) when `write` holds, nothing otherwise.
WriteBtn(write, v) == btnTouch' = IF write THEN v ELSE btnTouch

\* main(): a new process starts from zeroed state; a second instance cannot
\* bind the port and exits without a trace, so it is no step at all.
Launch ==
  /\ ~running
  /\ running' = TRUE
  /\ client' = FALSE
  /\ slotActive' = [s \in Slots |-> FALSE]
  /\ activeSlotCount' = 0
  /\ frame' = NoFrame
  /\ rotation' = "unknown"
  /\ UNCHANGED panel

Accept ==
  /\ running /\ ~client
  /\ client' = TRUE
  /\ UNCHANGED <<running, state, rotation, panel>>

HandleDown(slot, id, x, y) ==
  /\ client
  /\ IF slot \notin Slots
     THEN UNCHANGED <<state, panel>>
     ELSE /\ WriteBtn(activeSlotCount = 0, 1)
          /\ slotActive' = [slotActive EXCEPT ![slot] = TRUE]
          /\ activeSlotCount' = IF slotActive[slot] THEN activeSlotCount
                                                    ELSE activeSlotCount + 1
          /\ track' = [track EXCEPT ![slot] = id]
          /\ pos' = [pos EXCEPT ![slot] = MapFrameToPanel(frame, rotation, x, y)]
          /\ UNCHANGED frame
  /\ UNCHANGED <<running, client, rotation>>

\* A MOVE of a slot that is not down still moves the slot's position.
HandleMove(slot, x, y) ==
  /\ client
  /\ pos' = IF slot \notin Slots THEN pos
            ELSE [pos EXCEPT ![slot] = MapFrameToPanel(frame, rotation, x, y)]
  /\ UNCHANGED <<running, client, state, rotation, track, btnTouch>>

HandleUp(slot) ==
  /\ client
  /\ IF slot \notin Slots
     THEN UNCHANGED <<state, panel>>
     ELSE /\ track' = [track EXCEPT ![slot] = NoTrack]
          /\ slotActive' = [slotActive EXCEPT ![slot] = FALSE]
          /\ activeSlotCount' = IF slotActive[slot] /\ activeSlotCount > 0
                                THEN activeSlotCount - 1 ELSE activeSlotCount
          /\ WriteBtn(activeSlotCount' = 0, 0)
          /\ UNCHANGED <<frame, pos>>
  /\ UNCHANGED <<running, client, rotation>>

HandleFrame(f) ==
  /\ client
  /\ frame' = f
  /\ UNCHANGED <<running, client, slotActive, activeSlotCount, rotation, panel>>

\* Mutant: the bookkeeping is cleared and the contacts forgotten.
ResetForgetsContacts ==
  /\ slotActive' = [s \in Slots |-> FALSE]
  /\ WriteBtn(activeSlotCount > 0, 0)
  /\ activeSlotCount' = 0
  /\ UNCHANGED <<frame, track, pos, rotation>>

\* reset_touch_state(): lift what is active, then the button; the frame size
\* stays as the departed client left it.
ResetTouchState ==
  /\ track' = [s \in Slots |-> IF slotActive[s] THEN NoTrack ELSE track[s]]
  /\ slotActive' = [s \in Slots |-> FALSE]
  /\ WriteBtn(activeSlotCount > 0, 0)
  /\ activeSlotCount' = 0
  /\ UNCHANGED <<frame, pos, rotation>>

\* Mutant: the next client is awaited with the last one's touches down.
ClientGoneKeepsTouches ==
  client /\ client' = FALSE /\ UNCHANGED <<running, state, rotation, panel>>

\* read_exact() failed: the client is gone.
ClientGone ==
  /\ client
  /\ client' = FALSE
  /\ ResetTouchState
  /\ UNCHANGED running

\* Mutant: the process exits from inside the read loop.
QuitKeepsTouches == /\ client /\ client' = FALSE /\ running' = FALSE
                    /\ UNCHANGED <<state, rotation, panel>>

\* CMD_QUIT ends the client, then the process.
HandleQuit ==
  /\ client
  /\ client' = FALSE
  /\ running' = FALSE
  /\ ResetTouchState

\* rotation_poll_thread(): an unknown answer never overwrites a known one.
RotationPoll(r) ==
  /\ running
  /\ r # "unknown"
  /\ rotation' = r
  /\ UNCHANGED <<running, client, state, panel>>

-----------------------------------------------------------------------------
\* A client may send any packet in any order, with a slot byte out of range.
DaemonNext ==
  \/ Launch
  \/ Accept
  \/ \E slot \in 0..MaxSlots : \E id \in TrackIds : \E x, y \in Coords :
       HandleDown(slot, id, x, y)
  \/ \E slot \in 0..MaxSlots : \E x, y \in Coords : HandleMove(slot, x, y)
  \/ \E slot \in 0..MaxSlots : HandleUp(slot)
  \/ \E f \in Frames : HandleFrame(f)
  \/ ClientGone
  \/ HandleQuit
  \/ \E r \in Polled : RotationPoll(r)

DaemonSpec == DaemonInit /\ [][DaemonNext]_daemonVars

-----------------------------------------------------------------------------
Down(s) == track[s] # NoTrack

Active == {s \in Slots : slotActive[s]}

\* Two books are kept of what is down, the daemon's and the kernel's: the
\* daemon's slot_active agrees with the tracking ids it has written, so the
\* reset that walks slot_active lifts everything the kernel still holds.
ContactsAgree == \A s \in Slots : slotActive[s] <=> Down(s)

\* active_slot_count, kept by separate increments and decrements, counts the
\* active slots whatever order DOWNs and UPs of one slot arrive in.
CountAgrees == activeSlotCount = Cardinality(Active)

\* Android sees BTN_TOUCH down exactly while some contact is down.
ButtonFollowsContacts == btnTouch = 1 <=> \E s \in Slots : Down(s)

\* reset_touch_state: "a dropped/reconnected PC session never leaves a stuck
\* slot or a stuck BTN_TOUCH down".
NothingStuckWithoutClient ==
  ~client => btnTouch = 0 /\ \A s \in Slots : ~Down(s)

-----------------------------------------------------------------------------
(* A reference for map_frame_to_panel: the finger's place as a fraction of  *)
(* the frame, turned into the panel's axes by quarter turns of the unit     *)
(* square.  u/du and v/dv are the fractions of the panel's X and Y axes.    *)

Turned(x, y) ==
  IF frame.w <= frame.h
  THEN [u |-> x, du |-> frame.w, v |-> y, dv |-> frame.h]
  ELSE IF rotation = "90"
  THEN [u |-> frame.h - y, du |-> frame.h, v |-> x, dv |-> frame.w]
  ELSE [u |-> y, du |-> frame.h, v |-> frame.w - x, dv |-> frame.w]

Distance(a, b) == IF a < b THEN b - a ELSE a - b

\* Whatever has gone before, the next finger inside the announced frame is
\* injected at the panel point nearest to the same fraction of the screen, in
\* all of the frame's orientations (the integer model of the transform's
\* floating-point arithmetic against its geometric meaning); a frame without
\* an area has no fractions.
NearestPanelPoint ==
  frame.w > 0 /\ frame.h > 0 =>
    \A x \in 0..frame.w, y \in 0..frame.h :
      LET t == Turned(x, y)
          p == MapFrameToPanel(frame, rotation, x, y)
      IN /\ 2 * Distance(p.x * t.du, t.u * TouchXMax) <= t.du
         /\ 2 * Distance(p.y * t.dv, t.v * TouchYMax) <= t.dv

-----------------------------------------------------------------------------
\* The daemon implements the multitouch screen.
Touch == INSTANCE MultiTouch WITH served <- client,
                                  contacts <- {s \in Slots : Down(s)},
                                  button <- (btnTouch = 1)
ImplementsMultiTouch == Touch!TouchSpec
=============================================================================
