------------------------- MODULE GroupControlProofs -------------------------
(***************************************************************************)
(* The group and the windows for any set of serials.  GroupInv ties the    *)
(* phase of a connection to its place in the group and to its window, and  *)
(* says what a connection that is asked for finds left of the one before   *)
(* it: no window, no toolbar, no observer.  On it rest RatioInv, of a      *)
(* window's view, and MouseInv, of the buttons the phones see pressed.     *)
(***************************************************************************)
EXTENDS VideoForm, FiniteSetTheorems, TLAPS

\* A connection is listed in the group, and has its window, until it ends.
Linked ==
  \A s \in Serials : /\ s \in group <=> phase[s] = "connected"
                     /\ form[s] = "shown" <=> phase[s] = "connected"

\* What a new connection finds.
Fresh ==
  \A s \in Serials :
    /\ phase[s] = "connecting" => form[s] = "none" /\ observers[s] = {}
    /\ form[s] = "none" => ~tool[s]
    /\ host[s] => tool[s]

GroupInv == GroupTypeOK /\ Linked /\ Fresh /\ ObserversAreLive

\* The window's step as the group sees it: at most the toolbar is made.
Toolbar(s) ==
  /\ UNCHANGED <<phase, kind, observers, form, host, group>>
  /\ form[s] # "none" /\ MakeTool(s)

-----------------------------------------------------------------------------
LEMMA InitGroup == Init => GroupInv
<1>. SUFFICES ASSUME GroupInit PROVE GroupInv
  BY DEF Init
<1>. USE DEF GroupInit
<1>1. GroupTypeOK
  BY SMT DEF GroupTypeOK
<1>2. Linked /\ Fresh
  BY SMT DEF Linked, Fresh
<1>3. ObserversAreLive
  BY SMT DEF ObserversAreLive
<1>. QED BY <1>1, <1>2, <1>3 DEF GroupInv

LEMMA ToolbarInv == ASSUME GroupInv, NEW s \in Serials, Toolbar(s) PROVE GroupInv'
<1>. USE DEF GroupInv, Toolbar, MakeTool
<1>1. GroupTypeOK'
  BY SMT DEF GroupTypeOK
<1>2. Linked'
  BY SMT DEF Linked
<1>3. Fresh'
  BY SMT DEF GroupTypeOK, Fresh
<1>4. \A t \in Serials : IsHost(t)' <=> IsHost(t)
  BY SMT DEF GroupTypeOK, Fresh, IsHost
<1>5. ObserversAreLive'
  BY <1>4, Zenon DEF ObserversAreLive, Linked
<1>. QED BY <1>1, <1>2, <1>3, <1>5

\* The parts of the invariant speak of one serial each: what an action leaves
\* alone of another serial, it need not look at.
LEMMA ConnectInv ==
  ASSUME GroupInv, NEW s \in Serials, NEW k \in {"display", "flex", "camera", "record"},
         Connect(s, k)
  PROVE  GroupInv'
<1>. USE DEF GroupInv, Connect
<1>1. GroupTypeOK'
  BY SMT DEF GroupTypeOK
<1>2. Linked'
  BY SMT DEF GroupTypeOK, Linked
<1>3. Fresh'
  BY SMT DEF GroupTypeOK, Fresh
<1>4. ObserversAreLive'
  BY SMT DEF GroupTypeOK, Linked, ObserversAreLive, IsHost
<1>. QED BY <1>1, <1>2, <1>3, <1>4

LEMMA AbandonInv == ASSUME GroupInv, NEW s \in Serials, Abandon(s) PROVE GroupInv'
<1>. USE DEF GroupInv, Abandon
<1>1. GroupTypeOK'
  BY SMT DEF GroupTypeOK
<1>2. Linked'
  BY SMT DEF GroupTypeOK, Linked
<1>3. Fresh'
  BY SMT DEF GroupTypeOK, Fresh
<1>4. ObserversAreLive'
  BY SMT DEF GroupTypeOK, Linked, ObserversAreLive, IsHost
<1>. QED BY <1>1, <1>2, <1>3, <1>4

LEMMA FailureInv == ASSUME GroupInv, NEW s \in Serials, Answer(s, FALSE) PROVE GroupInv'
<1>. USE DEF GroupInv, Answer
<1>1. GroupTypeOK'
  BY SMT DEF GroupTypeOK
<1>2. Linked'
  BY SMT DEF GroupTypeOK, Linked
<1>3. Fresh'
  BY SMT DEF GroupTypeOK, Fresh
<1>4. ObserversAreLive'
  BY SMT DEF GroupTypeOK, Linked, ObserversAreLive, IsHost
<1>. QED BY <1>1, <1>2, <1>3, <1>4

\* The new window has no toolbar yet, so it is no host and the group not there.
LEMMA SuccessInv == ASSUME GroupInv, NEW s \in Serials, Answer(s, TRUE) PROVE GroupInv'
<1>. USE DEF GroupInv, Answer, AddDevice
<1>1. GroupTypeOK'
  BY SMT DEF GroupTypeOK
<1>2. Linked'
  BY SMT DEF GroupTypeOK, Linked
<1>3. Fresh'
  BY SMT DEF GroupTypeOK, Fresh
<1>4. ObserversAreLive'
  BY SMT DEF GroupTypeOK, Linked, Fresh, ObserversAreLive, IsHost
<1>. QED BY <1>1, <1>2, <1>3, <1>4

\* removeDevice() finds the host's window: nothing of the group stays behind.
LEMMA EndInv == ASSUME GroupInv, NEW s \in Serials, End(s) PROVE GroupInv'
<1>. USE DEF GroupInv, End, RemoveDevice, RemainingObservers
<1>1. GroupTypeOK'
  BY SMT DEF GroupTypeOK
<1>2. Linked'
  BY SMT DEF GroupTypeOK, Linked
<1>3. Fresh'
  BY SMT DEF GroupTypeOK, Fresh
<1>4. ObserversAreLive'
  BY SMT DEF GroupTypeOK, Linked, ObserversAreLive, IsHost
<1>. QED BY <1>1, <1>2, <1>3, <1>4

LEMMA DeleteFormInv == ASSUME GroupInv, NEW s \in Serials, DeleteForm(s) PROVE GroupInv'
<1>. USE DEF GroupInv, DeleteForm
<1>1. GroupTypeOK'
  BY SMT DEF GroupTypeOK
<1>2. Linked'
  BY SMT DEF GroupTypeOK, Linked
<1>3. Fresh'
  BY SMT DEF GroupTypeOK, Fresh
<1>4. ObserversAreLive'
  BY SMT DEF GroupTypeOK, Linked, ObserversAreLive, IsHost
<1>. QED BY <1>1, <1>2, <1>3, <1>4

\* The host button registers and deregisters as it turns.
LEMMA ToggleHostInv == ASSUME GroupInv, NEW s \in Serials, ToggleHost(s) PROVE GroupInv'
<1>. USE DEF GroupInv, ToggleHost, UpdateDeviceState
<1>1. GroupTypeOK'
  BY SMT DEF GroupTypeOK
<1>2. Linked'
  BY SMT DEF GroupTypeOK, Linked
<1>3. Fresh'
  BY SMT DEF GroupTypeOK, Fresh
<1>4. ObserversAreLive'
  <2>1. s \in group /\ phase[s] = "connected"
    BY SMT DEF Linked
  <2>2. IsHost(s)' <=> ~IsHost(s)
    <3>1. host'[s] = ~host[s] /\ host[s] \in BOOLEAN
      BY Zenon DEF GroupTypeOK
    <3>2. tool[s] /\ tool' = tool
      OBVIOUS
    <3>. QED BY <3>1, <3>2, Zenon DEF IsHost
  <2>3. \A t \in Serials \ {s} : observers'[t] = observers[t] /\ (IsHost(t)' <=> IsHost(t))
    BY SMT DEF IsHost, GroupTypeOK
  <2>4. observers'[s] = IF ~host[s] THEN observers[s] \cup {"group"} ELSE observers[s] \ {"group"}
    BY <2>1, SMT DEF GroupTypeOK
  <2>5. IsHost(s) <=> host[s]
    BY SMT DEF IsHost
  <2>6. \A t \in Serials :
          /\ "form" \in observers'[t] <=> form'[t] = "shown"
          /\ "group" \in observers'[t] <=> t \in group' /\ IsHost(t)'
    <3>1. CASE host[s]
      BY <3>1, <2>1, <2>2, <2>3, <2>4, <2>5, SMT DEF ObserversAreLive
    <3>2. CASE ~host[s]
      BY <3>2, <2>1, <2>2, <2>3, <2>4, <2>5, SMT DEF ObserversAreLive
    <3>. QED BY <3>1, <3>2
  <2>. QED BY <2>6 DEF ObserversAreLive
<1>. QED BY <1>1, <1>2, <1>3, <1>4

-----------------------------------------------------------------------------
\* In a window everything but the toolbar is left as the group sees it.
LEMMA WindowStep ==
  ASSUME NEW s \in Serials, WindowNext(s)
  PROVE  Toolbar(s) \/ UNCHANGED groupVars
<1>1. CASE SwitchFullScreen(s)
  BY <1>1, SMT DEF SwitchFullScreen, EnterFullScreen, LeaveFullScreen, Toolbar, groupVars
<1>2. CASE ShowToolForm(s)
  BY <1>2, SMT DEF ShowToolForm, Toolbar
<1>3. ASSUME NEW o \in Orientations, UpdateRender(s, o) \/ OnVideoSessionChanged(s, o)
      PROVE  Toolbar(s) \/ UNCHANGED groupVars
  BY <1>3, SMT DEF UpdateRender, OnVideoSessionChanged, UpdateShowSize, LeaveFullScreen,
                   Toolbar, groupVars
<1>4. CASE Escape(s)
  BY <1>4, SMT DEF Escape, LeaveFullScreen, Toolbar
<1>5. CASE ResizeWindow(s) \/ FlexTimeout(s) \/ SendPendingResize(s)
  BY <1>5, SMT DEF ResizeWindow, FlexTimeout, SendPendingResize, groupVars
<1>6. ASSUME NEW b \in Buttons,
             Release(s, b) \/ \E v, d \in BOOLEAN : Press(s, b, v, d)
      PROVE  UNCHANGED groupVars
  BY <1>6, SMT DEF Release, Press, groupVars
<1>7. CASE SwitchKeymap(s)
  BY <1>7, SMT DEF SwitchKeymap, groupVars
<1>. QED BY <1>1, <1>2, <1>3, <1>4, <1>5, <1>6, <1>7 DEF WindowNext

LEMMA StutterInv == ASSUME GroupInv, UNCHANGED groupVars PROVE GroupInv'
BY Zenon DEF groupVars, GroupInv, GroupTypeOK, Linked, Fresh, ObserversAreLive, IsHost

LEMMA StepInv == GroupInv /\ [Next]_vars => GroupInv'
<1>. SUFFICES ASSUME GroupInv, [Next]_vars PROVE GroupInv'
  OBVIOUS
<1>1. ASSUME NEW s \in Serials, WindowNext(s) PROVE GroupInv'
  BY <1>1, WindowStep, ToolbarInv, StutterInv
<1>2. ASSUME NEW s \in Serials, DeviceNext(s) PROVE GroupInv'
  <2>1. ASSUME NEW k \in {"display", "flex", "camera", "record"}, FormConnect(s, k)
        PROVE  GroupInv'
    BY <2>1, ConnectInv DEF FormConnect
  <2>2. CASE FormAbandon(s)
    BY <2>2, AbandonInv DEF FormAbandon
  <2>3. CASE FormFails(s)
    BY <2>3, FailureInv DEF FormFails
  <2>4. ASSUME NEW o \in Orientations, FormOpens(s, o) PROVE GroupInv'
    BY <2>4, SuccessInv DEF FormOpens
  <2>5. CASE FormEnds(s)
    BY <2>5, EndInv DEF FormEnds
  <2>6. CASE FormDeleted(s)
    BY <2>6, DeleteFormInv DEF FormDeleted
  <2>7. CASE FormToggleHost(s)
    BY <2>7, ToggleHostInv DEF FormToggleHost
  <2>. QED BY <1>2, <2>1, <2>2, <2>3, <2>4, <2>5, <2>6, <2>7 DEF DeviceNext
<1>3. CASE UNCHANGED vars
  BY <1>3, StutterInv DEF vars
<1>. QED BY <1>1, <1>2, <1>3 DEF Next

\* What the group, the windows and the connections know of each other.
THEOREM GroupInvariance == Spec => []GroupInv
BY InitGroup, StepInv, PTL DEF Spec

\* Every serial the group goes through has a Device, and that Device a window.
THEOREM Reachable == Spec => []GroupIsReachable
<1>1. GroupInv => GroupIsReachable
  BY Zenon DEF GroupInv, GroupTypeOK, Linked, GroupIsReachable
<1>. QED BY <1>1, GroupInvariance, PTL

\* A Device calls its window and, if it is a host's, the group; nobody else.
THEOREM ObserversLive == Spec => []ObserversAreLive
<1>1. GroupInv => ObserversAreLive
  BY DEF GroupInv
<1>. QED BY <1>1, GroupInvariance, PTL

-----------------------------------------------------------------------------
(* Who hears of a command                                                  *)

\* t hears of what the user does at s.
Hears(s, c, t) ==
  /\ Accepts(s, c) /\ Accepts(t, c)
  /\ t = s \/ (c \in Broadcast /\ IsHost(s) /\ ~IsHost(t))

LEMMA AllOverridden == Broadcast \subseteq Overridden
BY SMT DEF Broadcast, Overridden, Keys, Panels, Clipboard, Files, Inputs,
           GroupKeys, GroupPanels, GroupClipboard, GroupFiles, GroupInputs

LEMMA RelaysOfHost ==
  ASSUME GroupInv, NEW s \in Serials, NEW c
  PROVE  Relays(s, c) = IF Accepts(s, c) /\ c \in Broadcast /\ IsHost(s) THEN Followers ELSE {}
<1>1. Accepts(s, c) => s \in group
  BY Zenon DEF Accepts, GroupInv, Linked
<1>2. "group" \in observers[s] <=> s \in group /\ IsHost(s)
  BY Zenon DEF GroupInv, ObserversAreLive
<1>. QED BY <1>1, <1>2, AllOverridden, Zenon DEF Relays

\* A follower is no host, so it repeats nothing.
LEMMA FollowersAreSilent ==
  ASSUME GroupInv, NEW s \in Serials, NEW c, NEW t
  PROVE  {r \in Relays(s, c) : t \in Relays(r, c)} = {}
<1>1. Relays(s, c) \subseteq Followers
  BY RelaysOfHost, Zenon
<1>2. ASSUME NEW r \in Followers PROVE Relays(r, c) = {}
  <2>1. r \in Serials /\ ~IsHost(r)
    BY Zenon DEF Followers, GroupInv, GroupTypeOK
  <2>. QED BY <2>1, RelaysOfHost, Zenon
<1>. QED BY <1>1, <1>2, Zenon

LEMMA TimesOnce ==
  ASSUME GroupInv, NEW s \in Serials, NEW c, NEW t \in Serials
  PROVE  Times(s, c, t) = IF Hears(s, c, t) THEN 1 ELSE 0
<1>1. Cardinality({r \in Relays(s, c) : t \in Relays(r, c)}) = 0
  BY FollowersAreSilent, FS_EmptySet, Zenon
<1>2. Accepts(t, c) => (t \in Followers <=> ~IsHost(t))
  BY Zenon DEF Accepts, Followers, GroupInv, Linked
<1>3. CASE Hears(s, c, t) /\ t = s
  <2>1. s \notin Relays(s, c)
    BY RelaysOfHost, <1>2, Zenon DEF Followers
  <2>. QED BY <1>1, <1>3, <2>1, SMT DEF Times, Hears
<1>4. CASE Hears(s, c, t) /\ t # s
  <2>1. t \in Relays(s, c)
    BY <1>4, RelaysOfHost, <1>2, Zenon DEF Hears
  <2>. QED BY <1>1, <1>4, <2>1, SMT DEF Times, Hears
<1>5. CASE ~Hears(s, c, t)
  <2>1. Accepts(t, c) => t # s /\ t \notin Relays(s, c)
    BY <1>5, RelaysOfHost, <1>2, Zenon DEF Hears
  <2>. QED BY <1>1, <1>5, <2>1, SMT DEF Times
<1>. QED BY <1>3, <1>4, <1>5

\* What is done at a host reaches each follower once, and no other host.
THEOREM FanOut == Spec => []ReachesOnce
<1>1. GroupInv => ReachesOnce
  BY TimesOnce, Zenon DEF ReachesOnce, Hears
<1>. QED BY <1>1, GroupInvariance, PTL

-----------------------------------------------------------------------------
(* Full screen and rotation                                                *)

ViewTypeOK ==
  /\ full \in [Serials -> BOOLEAN]
  /\ frame \in [Serials -> Orientations]
  /\ ratio \in [Serials -> {"ver", "hor", "free"}]

\* A window opens out of full screen.
RatioInv ==
  /\ ViewTypeOK
  /\ \A s \in Serials : form[s] = "none" => ~full[s]
  /\ RatioFollowsVideo

LEMMA InitRatio == Init => RatioInv
<1>. SUFFICES ASSUME Init PROVE RatioInv
  OBVIOUS
<1>. USE DEF Init, GroupInit
<1>1. ViewTypeOK
  BY SMT DEF ViewTypeOK, Orientations
<1>2. \A s \in Serials : form[s] = "none" /\ ~full[s]
  BY SMT
<1>. QED BY <1>1, <1>2, SMT DEF RatioInv, RatioFollowsVideo

\* The three ways a window's view changes.
LEMMA LeaveRatio ==
  ASSUME RatioInv, NEW s \in Serials, NEW o \in Orientations, full[s], UNCHANGED <<form, kind>>,
         LeaveFullScreen(s, o), frame' = [frame EXCEPT ![s] = o],
         kind[s] # "flex" /\ frame[s] = "ver" /\ o = "ver" => ratio[s] = "ver"
  PROVE  RatioInv'
<1>. USE DEF RatioInv, LeaveFullScreen, Orientations
<1>1. ViewTypeOK'
  BY SMT DEF ViewTypeOK
<1>2. \A t \in Serials : form'[t] = "none" => ~full'[t]
  BY SMT DEF ViewTypeOK
<1>3. (kind[s] # "flex" => ratio'[s] = o) /\ frame'[s] = o /\ ~full'[s]
  BY SMT DEF ViewTypeOK
<1>4. \A t \in Serials \ {s} :
        ratio'[t] = ratio[t] /\ frame'[t] = frame[t] /\ full'[t] = full[t]
  BY SMT DEF ViewTypeOK
<1>5. RatioFollowsVideo'
  <2>1. ASSUME NEW t \in Serials, form'[t] = "shown", kind'[t] # "flex"
        PROVE  ratio'[t] = IF full'[t] /\ frame'[t] = "hor" THEN "free" ELSE frame'[t]
    <3>1. CASE t = s
      BY <3>1, <2>1, <1>3, Zenon
    <3>2. CASE t # s
      BY <3>2, <2>1, <1>4, Zenon DEF RatioFollowsVideo
    <3>. QED BY <3>1, <3>2
  <2>. QED BY <2>1 DEF RatioFollowsVideo
<1>. QED BY <1>1, <1>2, <1>5

LEMMA EnterRatio ==
  ASSUME RatioInv, NEW s \in Serials, ~full[s], form[s] = "shown", UNCHANGED <<form, kind, frame>>,
         EnterFullScreen(s)
  PROVE  RatioInv'
<1>. USE DEF RatioInv, EnterFullScreen, Orientations
<1>1. ViewTypeOK'
  BY SMT DEF ViewTypeOK
<1>2. \A t \in Serials : form'[t] = "none" => ~full'[t]
  BY SMT DEF ViewTypeOK
<1>3. /\ full'[s] = TRUE
      /\ ratio'[s] = IF frame[s] = "hor" THEN "free" ELSE ratio[s]
  BY SMT DEF ViewTypeOK
<1>4. \A t \in Serials \ {s} : ratio'[t] = ratio[t] /\ full'[t] = full[t]
  BY SMT DEF ViewTypeOK
<1>5. RatioFollowsVideo'
  BY <1>3, <1>4, Zenon DEF RatioFollowsVideo
<1>. QED BY <1>1, <1>2, <1>5

LEMMA SizeRatio ==
  ASSUME RatioInv, NEW s \in Serials, NEW o \in Orientations, form[s] = "shown",
         kind[s] # "flex", UNCHANGED <<form, kind>>, UpdateShowSize(s, o)
  PROVE  RatioInv'
<1>1. CASE full[s]
  <2>1. o # frame[s] /\ frame' = [frame EXCEPT ![s] = o] /\ LeaveFullScreen(s, o)
    BY <1>1 DEF UpdateShowSize
  <2>. QED BY <1>1, <2>1, LeaveRatio, Zenon
<1>2. CASE ~full[s]
  <2>. USE <1>2 DEF RatioInv, UpdateShowSize, Orientations
  <2>1. ViewTypeOK'
    BY SMT DEF ViewTypeOK
  <2>2. ratio'[s] = o /\ frame'[s] = o /\ full' = full
    BY SMT DEF ViewTypeOK
  <2>3. \A t \in Serials \ {s} : ratio'[t] = ratio[t] /\ frame'[t] = frame[t]
    BY SMT DEF ViewTypeOK
  <2>4. RatioFollowsVideo'
    BY <2>2, <2>3, Zenon DEF RatioFollowsVideo
  <2>. QED BY <2>1, <2>2, <2>4, Zenon
<1>. QED BY <1>1, <1>2

LEMMA UnseenRatio ==
  ASSUME RatioInv, UNCHANGED viewVars,
         \A t \in Serials : /\ form'[t] = "none" => form[t] = "none"
                            /\ form'[t] = "shown" => form[t] = "shown" /\ kind'[t] = kind[t]
  PROVE  RatioInv'
<1>. USE DEF RatioInv, viewVars
<1>1. ViewTypeOK'
  BY Zenon DEF ViewTypeOK
<1>2. \A t \in Serials : form'[t] = "none" => ~full'[t]
  BY Zenon
<1>3. RatioFollowsVideo'
  BY Zenon DEF RatioFollowsVideo
<1>. QED BY <1>1, <1>2, <1>3

LEMMA WindowRatio == ASSUME RatioInv, NEW s \in Serials, WindowNext(s) PROVE RatioInv'
<1>1. CASE SwitchFullScreen(s)
  <2>1. form[s] = "shown" /\ UNCHANGED <<form, kind, frame>>
    BY <1>1 DEF SwitchFullScreen
  <2>2. CASE full[s]
    <3>1. LeaveFullScreen(s, frame[s])
      BY <1>1, <2>2 DEF SwitchFullScreen
    <3>2. frame[s] \in Orientations /\ frame' = [frame EXCEPT ![s] = frame[s]]
      BY <2>1, Zenon DEF RatioInv, ViewTypeOK
    <3>3. kind[s] # "flex" /\ frame[s] = "ver" => ratio[s] = "ver"
      BY <2>1, SMT DEF RatioInv, RatioFollowsVideo
    <3>. QED BY <2>1, <2>2, <3>1, <3>2, <3>3, LeaveRatio, Zenon
  <2>3. CASE ~full[s]
    <3>1. EnterFullScreen(s)
      BY <1>1, <2>3 DEF SwitchFullScreen
    <3>. QED BY <2>1, <2>3, <3>1, EnterRatio, Zenon
  <2>. QED BY <2>2, <2>3
<1>2. CASE Escape(s)
  <2>1. form[s] = "shown" /\ full[s] /\ UNCHANGED <<form, kind, frame>> /\ LeaveFullScreen(s, frame[s])
    BY <1>2 DEF Escape
  <2>2. frame[s] \in Orientations /\ frame' = [frame EXCEPT ![s] = frame[s]]
    BY <2>1, Zenon DEF RatioInv, ViewTypeOK
  <2>3. kind[s] # "flex" /\ frame[s] = "ver" => ratio[s] = "ver"
    BY <2>1, SMT DEF RatioInv, RatioFollowsVideo
  <2>. QED BY <2>1, <2>2, <2>3, LeaveRatio, Zenon
<1>3. ASSUME NEW o \in Orientations, UpdateRender(s, o) PROVE RatioInv'
  BY <1>3, SizeRatio, Zenon DEF UpdateRender
<1>4. ASSUME NEW o \in Orientations, OnVideoSessionChanged(s, o) PROVE RatioInv'
  <2>1. CASE kind[s] = "flex"
    <3>1. /\ UNCHANGED <<form, kind, full, frame>>
          /\ ratio' = [ratio EXCEPT ![s] = "free"]
      BY <1>4, <2>1 DEF OnVideoSessionChanged
    <3>2. ViewTypeOK'
      BY <3>1, SMT DEF RatioInv, ViewTypeOK
    <3>3. \A t \in Serials \ {s} : ratio'[t] = ratio[t]
      BY <3>1, Zenon DEF RatioInv, ViewTypeOK
    <3>4. RatioFollowsVideo'
      BY <2>1, <3>1, <3>3, Zenon DEF RatioInv, RatioFollowsVideo
    <3>. QED BY <3>1, <3>2, <3>4, Zenon DEF RatioInv
  <2>2. CASE kind[s] # "flex"
    BY <1>4, <2>2, SizeRatio, Zenon DEF OnVideoSessionChanged
  <2>. QED BY <2>1, <2>2
<1>5. CASE ShowToolForm(s) \/ ResizeWindow(s) \/ FlexTimeout(s) \/ SendPendingResize(s) \/ SwitchKeymap(s)
  <2>1. UNCHANGED <<form, kind, viewVars>>
    BY <1>5, Zenon DEF ShowToolForm, ResizeWindow, FlexTimeout, SendPendingResize, SwitchKeymap
  <2>. QED BY <2>1, UnseenRatio, Zenon
<1>6. ASSUME NEW b \in Buttons,
             Release(s, b) \/ \E v, d \in BOOLEAN : Press(s, b, v, d)
      PROVE  RatioInv'
  <2>1. UNCHANGED <<form, kind, viewVars>>
    BY <1>6, Zenon DEF Release, Press
  <2>. QED BY <2>1, UnseenRatio, Zenon
<1>. QED BY <1>1, <1>2, <1>3, <1>4, <1>5, <1>6 DEF WindowNext

LEMMA DeviceRatio == ASSUME GroupInv, RatioInv, NEW s \in Serials, DeviceNext(s) PROVE RatioInv'
<1>1. ASSUME NEW k \in {"display", "flex", "camera", "record"}, FormConnect(s, k) PROVE RatioInv'
  <2>1. /\ form[s] = "none" /\ UNCHANGED <<form, viewVars>>
        /\ \A t \in Serials \ {s} : kind'[t] = kind[t]
    BY <1>1, Zenon DEF FormConnect, Connect, GroupInv, GroupTypeOK
  <2>. QED BY <2>1, UnseenRatio, SMT
<1>2. CASE FormAbandon(s) \/ FormFails(s)
  <2>1. /\ phase[s] = "connecting" /\ UNCHANGED <<form, viewVars>>
        /\ \A t \in Serials \ {s} : kind'[t] = kind[t]
    BY <1>2, Zenon DEF FormAbandon, FormFails, Abandon, Answer, GroupInv, GroupTypeOK
  <2>2. form[s] = "none"
    BY <2>1, Zenon DEF GroupInv, Fresh
  <2>. QED BY <2>1, <2>2, UnseenRatio, SMT
<1>3. ASSUME NEW o \in Orientations, FormOpens(s, o) PROVE RatioInv'
  <2>1. form[s] = "none" /\ UNCHANGED <<kind, full>>
    BY <1>3, SMT DEF FormOpens, Answer, GroupInv, Fresh
  <2>2. /\ frame' = [frame EXCEPT ![s] = o] /\ ratio' = [ratio EXCEPT ![s] = o]
        /\ form' = [form EXCEPT ![s] = "shown"]
    BY <1>3, SMT DEF FormOpens, Answer
  <2>3. ViewTypeOK'
    BY <2>1, <2>2, SMT DEF RatioInv, ViewTypeOK, Orientations
  <2>4. /\ frame'[s] = o /\ ratio'[s] = o /\ ~full'[s] /\ form'[s] = "shown"
        /\ \A t \in Serials \ {s} : frame'[t] = frame[t] /\ ratio'[t] = ratio[t] /\ form'[t] = form[t]
    BY <2>1, <2>2, SMT DEF RatioInv, ViewTypeOK, GroupInv, GroupTypeOK
  <2>5. \A t \in Serials : form'[t] = "none" => ~full'[t]
    BY <2>1, <2>4, SMT DEF RatioInv
  <2>6. ASSUME NEW t \in Serials, form'[t] = "shown", kind'[t] # "flex"
        PROVE  ratio'[t] = IF full'[t] /\ frame'[t] = "hor" THEN "free" ELSE frame'[t]
    <3>1. CASE t = s
      BY <3>1, <2>4, Zenon
    <3>2. CASE t # s
      BY <3>2, <2>6, <2>1, <2>4, Zenon DEF RatioInv, RatioFollowsVideo
    <3>. QED BY <3>1, <3>2
  <2>. QED BY <2>3, <2>5, <2>6 DEF RatioInv, RatioFollowsVideo
<1>4. CASE FormEnds(s)
  <2>1. UNCHANGED <<kind, viewVars>> /\ form' = [form EXCEPT ![s] = "closing"]
    BY <1>4, Zenon DEF FormEnds, End
  <2>. QED BY <2>1, UnseenRatio, SMT DEF GroupInv, GroupTypeOK
<1>5. CASE FormDeleted(s)
  <2>1. /\ full' = [full EXCEPT ![s] = FALSE]
        /\ frame' = [frame EXCEPT ![s] = "ver"] /\ ratio' = [ratio EXCEPT ![s] = "ver"]
        /\ form' = [form EXCEPT ![s] = "none"] /\ kind' = [kind EXCEPT ![s] = "display"]
    BY <1>5 DEF FormDeleted, DeleteForm
  <2>2. ViewTypeOK'
    BY <2>1, SMT DEF RatioInv, ViewTypeOK, Orientations
  <2>3. ~full'[s] /\ form'[s] = "none"
    BY <2>1, SMT DEF RatioInv, ViewTypeOK, GroupInv, GroupTypeOK
  <2>4. ASSUME NEW t \in Serials \ {s}
        PROVE  /\ form'[t] = form[t] /\ kind'[t] = kind[t]
               /\ full'[t] = full[t] /\ frame'[t] = frame[t] /\ ratio'[t] = ratio[t]
    BY <2>1, Zenon DEF RatioInv, ViewTypeOK, GroupInv, GroupTypeOK
  <2>. QED BY <2>2, <2>3, <2>4, SMT DEF RatioInv, RatioFollowsVideo
<1>6. CASE FormToggleHost(s)
  <2>1. UNCHANGED <<form, kind, viewVars>>
    BY <1>6 DEF FormToggleHost, ToggleHost
  <2>. QED BY <2>1, UnseenRatio, Zenon
<1>. QED BY <1>1, <1>2, <1>3, <1>4, <1>5, <1>6 DEF DeviceNext

LEMMA StepRatio == GroupInv /\ RatioInv /\ [Next]_vars => RatioInv'
<1>. SUFFICES ASSUME GroupInv, RatioInv, [Next]_vars PROVE RatioInv'
  OBVIOUS
<1>1. CASE UNCHANGED vars
  BY <1>1, UnseenRatio, Zenon DEF vars, groupVars
<1>. QED BY <1>1, WindowRatio, DeviceRatio DEF Next

\* However rotation and full screen come in turn, a window shows the video in
\* its ratio, or stretched if it is full screen and landscape.
THEOREM RatioSafety == Spec => []RatioFollowsVideo
<1>1. RatioInv => RatioFollowsVideo
  BY DEF RatioInv
<1>. QED BY <1>1, InitRatio, StepRatio, GroupInvariance, PTL DEF Spec

-----------------------------------------------------------------------------
(* The mouse.  A button that a phone has seen pressed, and whose release is *)
(* not lost, is held in a window whose events that phone still hears.      *)

Unanswered(t) == seen[t] \ lost[t]

MouseTypeOK ==
  /\ mouse.held \subseteq Buttons
  /\ seen \in [Serials -> SUBSET Buttons] /\ lost \in [Serials -> SUBSET Buttons]

MouseInv ==
  /\ MouseTypeOK
  /\ mouse.held # {} => mouse.at \in Serials
  /\ \A t \in Serials : \A b \in Unanswered(t) :
       b \in mouse.held /\ Hears(mouse.at, "mouseEvent", t)

LEMMA InitMouse == Init => MouseInv
<1>. SUFFICES ASSUME Init PROVE MouseInv
  OBVIOUS
<1>1. mouse.held = {}
  BY SMT DEF Init, NoMouse
<1>2. seen = [t \in Serials |-> {}] /\ lost = [t \in Serials |-> {}]
  BY DEF Init
<1>. QED BY <1>1, <1>2, SMT DEF MouseInv, MouseTypeOK, Unanswered

\* A step that leaves the connected phones and the hosts among them alone
LEMMA MouseKept ==
  ASSUME MouseInv, UNCHANGED <<mouse, seen, lost>>,
         \A t \in Serials : phase[t] = "connected" =>
           phase'[t] = "connected" /\ kind'[t] = kind[t] /\ (IsHost(t)' <=> IsHost(t))
  PROVE  MouseInv'
<1>1. ASSUME mouse.at \in Serials, NEW t \in Serials, Hears(mouse.at, "mouseEvent", t)
      PROVE  Hears(mouse.at, "mouseEvent", t)'
  BY <1>1, Zenon DEF Hears, Accepts
<1>2. ASSUME NEW t \in Serials, NEW b \in Unanswered(t)'
      PROVE  b \in mouse'.held /\ Hears(mouse.at, "mouseEvent", t)'
  BY <1>1, Zenon DEF MouseInv, Unanswered
<1>. QED BY <1>2, Zenon DEF MouseInv, MouseTypeOK

LEMMA ReachedHears ==
  ASSUME GroupInv, NEW s \in Serials, NEW t \in Serials
  PROVE  t \in Reached(s, "mouseEvent") <=> Hears(s, "mouseEvent", t)
BY TimesOnce, SMT DEF Reached

LEMMA DeliveredPress ==
  ASSUME GroupInv, MouseInv, NEW s \in Serials, NEW b \in Buttons, Deliver(s, TRUE, b)
  PROVE  /\ seen' \in [Serials -> SUBSET Buttons] /\ lost' \in [Serials -> SUBSET Buttons]
         /\ \A t \in Serials :
              IF Hears(s, "mouseEvent", t)
              THEN seen'[t] = seen[t] \cup {b} /\ lost'[t] = lost[t] \ {b}
              ELSE seen'[t] = seen[t] /\ lost'[t] = lost[t]
BY ReachedHears, SMT DEF Deliver, MouseInv, MouseTypeOK

LEMMA DeliveredRelease ==
  ASSUME GroupInv, MouseInv, NEW s \in Serials, NEW b \in Buttons, Deliver(s, FALSE, b)
  PROVE  /\ seen' \in [Serials -> SUBSET Buttons] /\ lost' \in [Serials -> SUBSET Buttons]
         /\ \A t \in Serials :
              IF Hears(s, "mouseEvent", t)
              THEN seen'[t] = seen[t] \ {b} /\ lost'[t] = lost[t] \ {b}
              ELSE seen'[t] = seen[t] /\ lost'[t] = lost[t]
BY ReachedHears, SMT DEF Deliver, MouseInv, MouseTypeOK

LEMMA PressInv ==
  ASSUME GroupInv, MouseInv, NEW s \in Serials, NEW b \in Buttons,
         NEW v \in BOOLEAN, NEW d \in BOOLEAN, Press(s, b, v, d)
  PROVE  MouseInv'
<1>1. /\ mouse.at \in {"nowhere", s}
      /\ mouse'.at = s /\ mouse'.held = mouse.held \cup {b}
      /\ UNCHANGED <<phase, kind, observers, form, tool, host, group>>
  BY SMT DEF Press
<1>2. \A t \in Serials : \A c \in Unanswered(t) : mouse.at = s
  BY <1>1, WindowsAssumption, Zenon DEF MouseInv
<1>3. \A t \in Serials : Hears(s, "mouseEvent", t)' <=> Hears(s, "mouseEvent", t)
  BY <1>1, Zenon DEF Hears, Accepts, IsHost
<1>4. CASE UNCHANGED <<seen, lost>>
  BY <1>1, <1>2, <1>3, <1>4, SMT DEF MouseInv, MouseTypeOK, Unanswered
<1>5. CASE Deliver(s, TRUE, b)
  <2>1. seen' \in [Serials -> SUBSET Buttons] /\ lost' \in [Serials -> SUBSET Buttons]
    BY <1>5, DeliveredPress, Zenon
  <2>2. ASSUME NEW t \in Serials, NEW c \in Unanswered(t)'
        PROVE  c \in mouse'.held /\ Hears(s, "mouseEvent", t)
    <3>1. CASE Hears(s, "mouseEvent", t)
      <4>1. seen'[t] = seen[t] \cup {b} /\ lost'[t] = lost[t] \ {b}
        BY <1>5, <3>1, DeliveredPress, Zenon
      <4>2. c = b \/ c \in Unanswered(t)
        BY <2>2, <4>1, SMT DEF Unanswered
      <4>. QED BY <3>1, <4>2, <1>1, SMT DEF MouseInv
    <3>2. CASE ~Hears(s, "mouseEvent", t)
      <4>1. c \in Unanswered(t)
        BY <1>5, <2>2, <3>2, DeliveredPress, Zenon DEF Unanswered
      <4>. QED BY <4>1, <1>2, <1>1, Zenon DEF MouseInv
    <3>. QED BY <3>1, <3>2
  <2>. QED BY <1>1, <1>3, <2>1, <2>2, SMT DEF MouseInv, MouseTypeOK
<1>. QED BY <1>4, <1>5, Zenon DEF Press, MousePress, MouseDoubleClick

LEMMA ReleaseInv ==
  ASSUME GroupInv, MouseInv, NEW s \in Serials, NEW b \in Buttons, Release(s, b)
  PROVE  MouseInv'
<1>1. mouse.at = s /\ UNCHANGED <<phase, kind, observers, form, tool, host, group>>
  BY DEF Release
<1>2. mouse'.held = mouse.held \ {b} /\ (mouse'.held # {} => mouse'.at = s)
  BY SMT DEF Release, NoMouse
<1>3. \A t \in Serials : Hears(s, "mouseEvent", t)' <=> Hears(s, "mouseEvent", t)
  BY <1>1, Zenon DEF Hears, Accepts, IsHost
<1>4. /\ seen' \in [Serials -> SUBSET Buttons] /\ lost' \in [Serials -> SUBSET Buttons]
      /\ \A t \in Serials : Unanswered(t)' \subseteq Unanswered(t) \ {b}
  <2>1. CASE drag[s]
    <3>1. seen' = seen /\ lost' = [t \in Serials |-> lost[t] \cup (seen[t] \cap {b})]
      BY <2>1 DEF Release, MouseRelease
    <3>. QED BY <3>1, SMT DEF MouseInv, MouseTypeOK, Unanswered
  <2>2. CASE ~drag[s]
    <3>1. Deliver(s, FALSE, b)
      BY <2>2 DEF Release, MouseRelease
    <3>2. ASSUME NEW t \in Serials PROVE Unanswered(t)' \subseteq Unanswered(t) \ {b}
      <4>1. CASE Hears(s, "mouseEvent", t)
        <5>1. seen'[t] = seen[t] \ {b} /\ lost'[t] = lost[t] \ {b}
          BY <3>1, <4>1, DeliveredRelease, Zenon
        <5>. QED BY <5>1, SMT DEF Unanswered
      <4>2. CASE ~Hears(s, "mouseEvent", t)
        <5>1. Unanswered(t)' = Unanswered(t) /\ Unanswered(t) = {}
          BY <3>1, <4>2, <1>1, DeliveredRelease, Zenon DEF Unanswered, MouseInv
        <5>. QED BY <5>1
      <4>. QED BY <4>1, <4>2
    <3>3. seen' \in [Serials -> SUBSET Buttons] /\ lost' \in [Serials -> SUBSET Buttons]
      BY <3>1, DeliveredRelease, Zenon
    <3>. QED BY <3>2, <3>3
  <2>. QED BY <2>1, <2>2
<1>5. ASSUME NEW t \in Serials, NEW c \in Unanswered(t)'
      PROVE  (c \in mouse.held /\ Hears(mouse.at, "mouseEvent", t))'
  <2>1. c \in Unanswered(t) /\ c # b
    BY <1>4
  <2>2. c \in mouse.held /\ Hears(s, "mouseEvent", t)
    BY <1>1, <2>1, Zenon DEF MouseInv
  <2>3. c \in mouse'.held
    BY <2>1, <2>2, <1>2, Zenon
  <2>4. mouse'.at = s
    BY <2>3, <1>2, Zenon
  <2>. QED BY <2>2, <2>3, <2>4, <1>3, Zenon DEF Hears, Accepts, IsHost
<1>6. MouseTypeOK'
  BY <1>2, <1>4, SMT DEF MouseInv, MouseTypeOK
<1>. QED BY <1>1, <1>2, <1>5, <1>6, Zenon DEF MouseInv

\* The phone that goes takes what it saw with it; if the mouse is in its window,
\* the releases that are due are lost.
LEMMA EndMouse == ASSUME GroupInv, MouseInv, NEW s \in Serials, FormEnds(s) PROVE MouseInv'
<1>1. /\ phase' = [phase EXCEPT ![s] = "free"] /\ UNCHANGED <<kind, tool, host>>
      /\ seen' = [seen EXCEPT ![s] = {}]
      /\ lost' = [t \in Serials |-> IF t = s THEN {}
                                    ELSE IF mouse.at = s THEN lost[t] \cup seen[t] ELSE lost[t]]
      /\ mouse' = IF mouse.at = s THEN NoMouse ELSE mouse
  BY DEF FormEnds, End
<1>2. MouseTypeOK' /\ (mouse'.held # {} => mouse' = mouse /\ mouse.at # s)
  BY <1>1, SMT DEF MouseInv, MouseTypeOK, NoMouse
<1>3. ASSUME NEW t \in Serials, NEW b \in Unanswered(t)'
      PROVE  (b \in mouse.held /\ Hears(mouse.at, "mouseEvent", t))'
  <2>1. t # s /\ mouse.at # s /\ b \in Unanswered(t)
    BY <1>1, SMT DEF MouseInv, MouseTypeOK, Unanswered
  <2>2. mouse' = mouse /\ b \in mouse.held /\ Hears(mouse.at, "mouseEvent", t) /\ mouse.at \in Serials
    BY <1>1, <2>1, Zenon DEF MouseInv
  <2>3. phase'[t] = phase[t] /\ phase'[mouse.at] = phase[mouse.at]
    BY <1>1, <2>1, <2>2, SMT DEF GroupInv, GroupTypeOK
  <2>. QED BY <1>1, <2>2, <2>3, Zenon DEF Hears, Accepts, IsHost
<1>. QED BY <1>2, <1>3, Zenon DEF MouseInv

LEMMA WindowMouse == ASSUME GroupInv, MouseInv, NEW s \in Serials, WindowNext(s) PROVE MouseInv'
<1>1. ASSUME UNCHANGED <<mouse, seen, lost>> PROVE MouseInv'
  <2>1. CASE Toolbar(s)
    <3>1. \A t \in Serials : IsHost(t)' <=> IsHost(t)
      BY <2>1, SMT DEF GroupInv, GroupTypeOK, Fresh, IsHost, Toolbar, MakeTool
    <3>. QED BY <1>1, <2>1, <3>1, MouseKept, Zenon DEF Toolbar
  <2>2. CASE UNCHANGED groupVars
    BY <1>1, <2>2, MouseKept, Zenon DEF groupVars, IsHost
  <2>. QED BY <2>1, <2>2, WindowStep
<1>2. CASE \E b \in Buttons : Release(s, b)
  BY <1>2, ReleaseInv
<1>3. CASE \E b \in Buttons, v, d \in BOOLEAN : Press(s, b, v, d)
  BY <1>3, PressInv
<1>4. CASE SwitchFullScreen(s) \/ ShowToolForm(s) \/ Escape(s)
  BY <1>1, <1>4 DEF SwitchFullScreen, ShowToolForm, Escape, mouseVars
<1>5. CASE \E o \in Orientations : UpdateRender(s, o) \/ OnVideoSessionChanged(s, o)
  BY <1>1, <1>5, Zenon DEF UpdateRender, OnVideoSessionChanged, mouseVars
<1>6. CASE ResizeWindow(s) \/ FlexTimeout(s) \/ SendPendingResize(s) \/ SwitchKeymap(s)
  BY <1>1, <1>6, Zenon DEF ResizeWindow, FlexTimeout, SendPendingResize, SwitchKeymap, mouseVars
<1>. QED BY <1>2, <1>3, <1>4, <1>5, <1>6, Zenon DEF WindowNext

LEMMA DeviceMouse == ASSUME GroupInv, MouseInv, NEW s \in Serials, DeviceNext(s) PROVE MouseInv'
<1>. USE DEF mouseVars
<1>1. ASSUME NEW k \in {"display", "flex", "camera", "record"}, FormConnect(s, k) PROVE MouseInv'
  BY <1>1, MouseKept, SMT DEF FormConnect, Connect, GroupInv, GroupTypeOK, IsHost
<1>2. CASE FormAbandon(s)
  BY <1>2, MouseKept, SMT DEF FormAbandon, Abandon, GroupInv, GroupTypeOK, IsHost
<1>3. CASE FormFails(s)
  BY <1>3, MouseKept, SMT DEF FormFails, Answer, GroupInv, GroupTypeOK, IsHost
<1>4. ASSUME NEW o \in Orientations, FormOpens(s, o) PROVE MouseInv'
  BY <1>4, MouseKept, SMT DEF FormOpens, Answer, GroupInv, GroupTypeOK, IsHost
<1>5. CASE FormEnds(s)
  BY <1>5, EndMouse
<1>6. CASE FormDeleted(s)
  <2>1. phase[s] # "connected" /\ UNCHANGED <<phase, mouse, seen, lost>>
    BY <1>6, SMT DEF FormDeleted, DeleteForm, GroupInv, Linked
  <2>2. \A t \in Serials \ {s} : kind'[t] = kind[t] /\ tool'[t] = tool[t] /\ host'[t] = host[t]
    BY <1>6, Zenon DEF FormDeleted, DeleteForm, GroupInv, GroupTypeOK
  <2>. QED BY <2>1, <2>2, MouseKept, Zenon DEF IsHost
<1>7. CASE FormToggleHost(s)
  <2>1. mouse = NoMouse /\ UNCHANGED <<mouse, seen, lost>>
    BY <1>7 DEF FormToggleHost
  <2>2. \A t \in Serials : Unanswered(t) = {} /\ Unanswered(t)' = {}
    BY <2>1, SMT DEF MouseInv, Unanswered, NoMouse
  <2>. QED BY <2>1, <2>2, Zenon DEF MouseInv, MouseTypeOK
<1>. QED BY <1>1, <1>2, <1>3, <1>4, <1>5, <1>6, <1>7 DEF DeviceNext

LEMMA StepMouse == GroupInv /\ MouseInv /\ [Next]_vars => MouseInv'
<1>. SUFFICES ASSUME GroupInv, MouseInv, [Next]_vars PROVE MouseInv'
  OBVIOUS
<1>1. CASE UNCHANGED vars
  BY <1>1, MouseKept, Zenon DEF vars, groupVars, mouseVars, IsHost
<1>. QED BY <1>1, WindowMouse, DeviceMouse DEF Next

\* No release of a button is lost but those the code is known to lose.
THEOREM ReleasesArrive == Spec => []NoOtherReleaseIsLost
<1>1. MouseInv => NoOtherReleaseIsLost
  BY Zenon DEF MouseInv, MouseTypeOK, Unanswered, NoOtherReleaseIsLost
<1>. QED BY <1>1, InitMouse, StepMouse, GroupInvariance, PTL DEF Spec
=============================================================================
