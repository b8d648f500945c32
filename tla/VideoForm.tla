------------------------------ MODULE VideoForm ------------------------------
(***************************************************************************)
(* VideoForm: the window of each mirrored device, on top of GroupControl:  *)
(* full screen and back, the rotation of the video, the debounced size of  *)
(* a flexible display, and the mouse, whose presses and releases go to the *)
(* phone, to a shortcut or to the dragging of the window, and through the  *)
(* group to other phones.                                                  *)
(***************************************************************************)
EXTENDS GroupControl

CONSTANTS
  Sized,      \* a bound: the windows that are resized, rotated and made full screen
  Clicked,    \* a bound: the windows the mouse is used in
  MaxResizes  \* a bound: how often the user resizes one window

ASSUME WindowsAssumption ==
  Sized \subseteq Serials /\ Clicked \subseteq Serials /\ "nowhere" \notin Serials

VARIABLES
  full,      \* isFullScreen()
  frame,     \* the orientation m_widthHeightRatio stands for
  ratio,     \* keepRatioWidget's ratio: ver, hor, or free (stretched)
  settle,    \* m_flexResizeTimer is running
  pending,   \* Controller::m_pendingResize, none or a size, with m_resizeQueued
  size,      \* a flexible display's video widget: the user's n-th size
  asked,     \* the last size sent to the phone
  mouse,     \* the window the mouse is pressed in and the buttons held
  drag,      \* m_dragPosition is not null
  custom,    \* Device::isCurrentCustomKeymap()
  seen,      \* the buttons each controller has seen pressed and not released
  lost       \* those whose release will never come

viewVars == <<full, frame, ratio>>
flexVars == <<settle, pending, size, asked>>
mouseVars == <<mouse, drag, custom, seen, lost>>
vars == <<groupVars, viewVars, flexVars, mouseVars>>

Buttons == {"left", "right"}  \* right stands for the middle button too
NoMouse == [at |-> "nowhere", held |-> {}]

Init ==
  /\ GroupInit
  /\ full = [s \in Serials |-> FALSE]
  /\ frame = [s \in Serials |-> "ver"] /\ ratio = [s \in Serials |-> "ver"]
  /\ settle = [s \in Serials |-> FALSE]
  /\ pending = [s \in Serials |-> 0]
  /\ size = [s \in Serials |-> 0] /\ asked = [s \in Serials |-> 0]
  /\ mouse = NoMouse
  /\ drag = [s \in Serials |-> FALSE] /\ custom = [s \in Serials |-> FALSE]
  /\ seen = [s \in Serials |-> {}] /\ lost = [s \in Serials |-> {}]

-----------------------------------------------------------------------------
(* Full screen.  A landscape video fills the screen, a portrait one keeps  *)
(* its ratio.                                                              *)

\* Mutant: the ratio is restored of a portrait video only.
LeaveFullScreenStretched(s, o) ==
  /\ full' = [full EXCEPT ![s] = FALSE]
  /\ ratio' = [ratio EXCEPT ![s] = IF o = "ver" THEN o ELSE @]
  /\ MakeTool(s)

\* switchFullScreen() of a full-screen window whose video has orientation o,
\* which updateShowSize() has just given to the widget if it is new
LeaveFullScreen(s, o) ==
  /\ full' = [full EXCEPT ![s] = FALSE]
  /\ ratio' = [ratio EXCEPT ![s] = IF o = "hor" \/ o # frame[s] THEN o ELSE @]
  /\ MakeTool(s)

EnterFullScreen(s) ==
  /\ full' = [full EXCEPT ![s] = TRUE]
  /\ ratio' = [ratio EXCEPT ![s] = IF frame[s] = "hor" THEN "free" ELSE @]
  /\ MakeTool(s)

\* Ctrl+F and the toolbar's button
SwitchFullScreen(s) ==
  /\ form[s] = "shown" /\ s \in Sized
  /\ IF full[s] THEN LeaveFullScreen(s, frame[s]) ELSE EnterFullScreen(s)
  /\ UNCHANGED <<phase, kind, observers, form, host, group, frame, flexVars, mouseVars>>

\* keyPressEvent(): Escape leaves full screen, and goes to the phone like any key.
Escape(s) ==
  /\ form[s] = "shown" /\ full[s]
  /\ LeaveFullScreen(s, frame[s])
  /\ UNCHANGED <<phase, kind, observers, form, host, group, frame, flexVars, mouseVars>>

\* updateShowSize(): with another size full screen ends.
UpdateShowSize(s, o) ==
  /\ o # frame[s]
  /\ frame' = [frame EXCEPT ![s] = o]
  /\ IF full[s] THEN LeaveFullScreen(s, o)
     ELSE ratio' = [ratio EXCEPT ![s] = o] /\ UNCHANGED <<full, tool>>

\* updateRender(), of a decoded frame
UpdateRender(s, o) ==
  /\ form[s] = "shown" /\ s \in Sized /\ kind[s] \notin {"flex", "record"}
  /\ UpdateShowSize(s, o)
  /\ UNCHANGED <<phase, kind, observers, form, host, group, flexVars, mouseVars>>

\* A session of another size: a flexible display's window stretches it.
OnVideoSessionChanged(s, o) ==
  /\ form[s] = "shown" /\ s \in Sized
  /\ IF kind[s] = "flex"
     THEN ratio' = [ratio EXCEPT ![s] = "free"] /\ UNCHANGED <<full, frame, tool>>
     ELSE UpdateShowSize(s, o)
  /\ UNCHANGED <<phase, kind, observers, form, host, group, flexVars, mouseVars>>

\* showEvent()'s timer: the toolbar is made half a second later, even for a
\* window that is full screen or closed by then.
ShowToolForm(s) ==
  /\ form[s] # "none" /\ ~tool[s]
  /\ MakeTool(s)
  /\ UNCHANGED <<phase, kind, observers, form, host, group, viewVars, flexVars, mouseVars>>

-----------------------------------------------------------------------------
(* A flexible display takes the size of its window.                        *)

\* resizeEvent() starts the timer again.
ResizeWindow(s) ==
  /\ form[s] = "shown" /\ kind[s] = "flex" /\ s \in Sized /\ size[s] < MaxResizes
  /\ size' = [size EXCEPT ![s] = @ + 1]
  /\ settle' = [settle EXCEPT ![s] = TRUE]
  /\ UNCHANGED <<phase, kind, observers, form, tool, host, group, viewVars, pending, asked,
                 mouseVars>>

\* Mutant: a size that comes while one is queued is dropped.
QueueFirstResize(s) == pending' = [pending EXCEPT ![s] = IF @ = 0 THEN size[s] ELSE @]

\* Controller::resizeDisplay(): only the newest size is kept.
QueueResize(s) == pending' = [pending EXCEPT ![s] = size[s]]

FlexTimeout(s) ==
  /\ settle[s]
  /\ settle' = [settle EXCEPT ![s] = FALSE]
  /\ IF Accepts(s, "resizeDisplay")
     THEN QueueResize(s) ELSE UNCHANGED pending
  /\ UNCHANGED <<phase, kind, observers, form, tool, host, group, viewVars, size, asked,
                 mouseVars>>

SendPendingResize(s) ==
  /\ pending[s] # 0
  /\ asked' = [asked EXCEPT ![s] = pending[s]]
  /\ pending' = [pending EXCEPT ![s] = 0]
  /\ UNCHANGED <<phase, kind, observers, form, tool, host, group, viewVars, size, settle,
                 mouseVars>>

-----------------------------------------------------------------------------
(* The mouse.  While a button is held every event goes to one window.      *)

Deliver(s, press, b) ==
  LET to == Reached(s, "mouseEvent")
  IN  /\ seen' = [t \in Serials |-> IF t \notin to THEN seen[t]
                                    ELSE IF press THEN seen[t] \cup {b} ELSE seen[t] \ {b}]
      /\ lost' = [t \in Serials |-> IF t \in to THEN lost[t] \ {b} ELSE lost[t]]

\* mousePressEvent(): outside a custom keymap the right button is Back (and the
\* middle one Home); on the video the press goes to the phone, on the frame
\* the left button drags the window.
MousePress(s, b, onVideo) ==
  LET shortcut == b = "right" /\ ~custom[s]
  IN  /\ IF onVideo /\ ~shortcut THEN Deliver(s, TRUE, b) ELSE UNCHANGED <<seen, lost>>
      /\ drag' = [drag EXCEPT ![s] = @ \/ (b = "left" /\ ~onVideo)]

\* mouseDoubleClickEvent(): the second press of a button.  No drag is on, for the
\* release before it ended it.
MouseDoubleClick(s, b, onVideo) ==
  /\ ~drag[s]
  /\ IF onVideo THEN Deliver(s, TRUE, b) ELSE UNCHANGED <<seen, lost>>
  /\ UNCHANGED drag

Press(s, b, onVideo, double) ==
  /\ form[s] = "shown" /\ s \in Clicked /\ mouse.at \in {"nowhere", s} /\ b \notin mouse.held
  /\ mouse' = [at |-> s, held |-> mouse.held \cup {b}]
  /\ IF double THEN MouseDoubleClick(s, b, onVideo) ELSE MousePress(s, b, onVideo)
  /\ UNCHANGED <<phase, kind, observers, form, tool, host, group, viewVars, flexVars, custom>>

\* Mutant: a release outside the video is not delivered, as a press is not.
MouseReleaseInside(s, b) ==
  IF drag[s]
  THEN /\ drag' = [drag EXCEPT ![s] = FALSE]
       /\ lost' = [t \in Serials |-> lost[t] \cup (seen[t] \cap {b})]
       /\ UNCHANGED seen
  ELSE \/ Deliver(s, FALSE, b) /\ UNCHANGED drag
       \/ UNCHANGED <<drag, seen, lost>>

\* mouseReleaseEvent(): any release ends a drag and is swallowed with it; without
\* one the release goes to the phone, wherever the mouse is by then.
MouseRelease(s, b) ==
  IF drag[s]
  THEN /\ drag' = [drag EXCEPT ![s] = FALSE]
       /\ lost' = [t \in Serials |-> lost[t] \cup (seen[t] \cap {b})]
       /\ UNCHANGED seen
  ELSE Deliver(s, FALSE, b) /\ UNCHANGED drag

Release(s, b) ==
  /\ mouse.at = s /\ b \in mouse.held
  /\ mouse' = IF mouse.held = {b} THEN NoMouse ELSE [at |-> s, held |-> mouse.held \ {b}]
  /\ MouseRelease(s, b)
  /\ UNCHANGED <<phase, kind, observers, form, tool, host, group, viewVars, flexVars, custom>>

\* The switch key of a game keymap
SwitchKeymap(s) ==
  /\ form[s] = "shown" /\ s \in Clicked /\ kind[s] \notin {"camera", "record"}
  /\ custom' = [custom EXCEPT ![s] = ~@]
  /\ UNCHANGED <<phase, kind, observers, form, tool, host, group, viewVars, flexVars,
                 mouse, drag, seen, lost>>

-----------------------------------------------------------------------------
(* The life of a window                                                    *)

FormConnect(s, k) == Connect(s, k) /\ UNCHANGED <<viewVars, flexVars, mouseVars>>

FormAbandon(s) == Abandon(s) /\ UNCHANGED <<viewVars, flexVars, mouseVars>>

FormFails(s) == Answer(s, FALSE) /\ UNCHANGED <<viewVars, flexVars, mouseVars>>

\* The constructor, and the Dialog's updateShowSize() with the size of the video,
\* which gives a flexible display's window a ratio too.
FormOpens(s, o) ==
  /\ Answer(s, TRUE)
  /\ frame' = [frame EXCEPT ![s] = o]
  /\ ratio' = [ratio EXCEPT ![s] = o]
  /\ UNCHANGED <<full, flexVars, mouseVars>>

\* The device goes, and its controller with it: if a button is held in its
\* window, the followers that saw the press will see no release.
FormEnds(s) ==
  /\ End(s)
  /\ pending' = [pending EXCEPT ![s] = 0]
  /\ custom' = [custom EXCEPT ![s] = FALSE]
  /\ seen' = [seen EXCEPT ![s] = {}]
  /\ lost' = [t \in Serials |-> IF t = s THEN {}
                                ELSE IF mouse.at = s THEN lost[t] \cup seen[t] ELSE lost[t]]
  /\ mouse' = IF mouse.at = s THEN NoMouse ELSE mouse
  /\ UNCHANGED <<viewVars, settle, size, asked, drag>>

\* The window's timers die with it; the next one starts as in Init.
FormDeleted(s) ==
  /\ DeleteForm(s)
  /\ full' = [full EXCEPT ![s] = FALSE]
  /\ frame' = [frame EXCEPT ![s] = "ver"] /\ ratio' = [ratio EXCEPT ![s] = "ver"]
  /\ settle' = [settle EXCEPT ![s] = FALSE]
  /\ size' = [size EXCEPT ![s] = 0] /\ asked' = [asked EXCEPT ![s] = 0]
  /\ drag' = [drag EXCEPT ![s] = FALSE]
  /\ UNCHANGED <<pending, mouse, custom, seen, lost>>

\* The host button cannot be clicked while the mouse is held elsewhere.
FormToggleHost(s) ==
  /\ mouse = NoMouse
  /\ ToggleHost(s)
  /\ UNCHANGED <<viewVars, flexVars, mouseVars>>

-----------------------------------------------------------------------------
Orientations == {"ver", "hor"}

WindowNext(s) ==
  \/ SwitchFullScreen(s) \/ ShowToolForm(s)
  \/ \E o \in Orientations : UpdateRender(s, o) \/ OnVideoSessionChanged(s, o)
  \/ Escape(s)
  \/ ResizeWindow(s)
  \/ FlexTimeout(s) \/ SendPendingResize(s)
  \/ \E b \in Buttons : Release(s, b) \/ \E v, d \in BOOLEAN : Press(s, b, v, d)
  \/ SwitchKeymap(s)

DeviceNext(s) ==
  \/ \E k \in {"display", "flex", "camera", "record"} : FormConnect(s, k)
  \/ FormAbandon(s) \/ FormFails(s)
  \/ \E o \in Orientations : (s \in Sized \/ o = "ver") /\ FormOpens(s, o)
  \/ FormEnds(s) \/ FormDeleted(s)
  \/ FormToggleHost(s)

Next == \E s \in Serials : WindowNext(s) \/ DeviceNext(s)

Spec == Init /\ [][Next]_vars

\* The two timers of a resize run on the UI thread's event loop.
Timers(s) == WF_vars(FlexTimeout(s)) /\ WF_vars(SendPendingResize(s))
FairSpec == Spec /\ \A s \in Serials : Timers(s)

-----------------------------------------------------------------------------
\* A window that keeps its video's ratio shows it as the phone is held, and a
\* full-screen one is stretched if and only if the video is landscape
\* (videoform.cpp:588, 611), however rotation and full screen come in turn.
RatioFollowsVideo ==
  \A s \in Serials :
    form[s] = "shown" /\ kind[s] # "flex"
      => ratio[s] = IF full[s] /\ frame[s] = "hor" THEN "free" ELSE frame[s]

\* A button that a phone has seen pressed is still held, or its release is one
\* of those the code loses: swallowed with the drag of a window's frame, or due
\* in the window of a device that went meanwhile.
NoOtherReleaseIsLost == \A t \in Serials : seen[t] \subseteq mouse.held \cup lost[t]

\* The last size of a flexible display's window reaches the phone, through the
\* window's timer and the controller's, or the device goes.
SizeReachesPhone ==
  \A s \in Serials : settle[s] ~> (asked[s] = size[s] \/ phase[s] # "connected")
=============================================================================
