# 12ProScrcpy: a TLA+ verification project

12ProScrcpy mirrors an Android phone on a PC and turns the PC's keys and mouse
into touches on the phone. This directory holds TLA+ models of the parts of the
program that are hard to get right by testing, TLC configurations that check them
on small instances, and TLAPS proofs that hold for every value of the constants.
Paths below are relative to `src/12ProScrcpy/12ProScrcpyCore/src` unless they
start otherwise.

## 1. Inventory

| Component | State it keeps | Operations | Status |
|---|---|---|---|
| Raw input daemon, `rawinputdaemon/raw_input_daemon.c` (on the phone) | active slots and their count, frame size of the client, polled rotation; the touch node in the kernel | launch, accept, DOWN / MOVE / UP / FRAME / QUIT, end of client, rotation poll | modelled |
| Touch injection: `device/controller/controller.cpp`, `adb/rawinputdaemonsession.cpp` | tried-once latch, availability, socket, last announced frame size, coalesced resize | touch, drag, wheel, resize, start, stop, sends that may be dropped | partly |
| Game keymap: `device/controller/inputconvert/inputconvertgame.cpp`, `inputconvertnormal.cpp` | table of touch ids, wheel, drag, pan finger, cursor lock, suspend, forced keymap, timers | keys, buttons, movements, timers, mode keys | partly |
| Server start-up: `device/server/server.cpp`, `tcpserver.cpp` | step, tunnel kind and state, two timers, two counters, two sockets, two adb processes | push, reverse, forward, execute, connect, stop, every failure | modelled |
| Device and device manager: `device/device.cpp`, `devicemanage/devicemanage.cpp` | table of devices, the server pointer, success flag, parts of a device | connect, disconnect (five causes), slots of the server's signals, deletion | partly |
| Video pipeline: `device/demuxer/demuxer.cpp`, `device/decoder/*.cpp`, `device/server/videosocket.cpp` | two frames, consumed / interrupted flags, a mutex, a condition variable, queued events | receive, decode, offer, wait, render, screenshot, interrupt, close | partly |
| Recorder: `device/recorder/recorder.cpp` | packet queue, packet kept back, stopped / failed, header written | push, one round of the thread, write, last write, stop | partly |
| Group control, `src/12ProScrcpy/groupcontroller` | the mirrored serials, which of them are hosts, who observes which Device | connect, end, host button, repeat a command on the others | modelled |
| Mirror window, `src/12ProScrcpy/ui/videoform.cpp`, `toolform.cpp` | full screen, ratio, resize timers, dragging of the frame, keymap in force | full screen, rotation, resize, press and release, show and hide of the toolbar | partly |
| Keymap files: `keymap.cpp`, `src/12ProScrcpy/ui/keymapprofilestore.cpp` | a scheme as controls, as JSON, as the engine's tables | read, write, look up a key | modelled |
| Game-control panel and editor, `src/12ProScrcpy/ui/gamecontrols*.cpp` | schemes by app, the one in force, the editor's copy, the open dialog | every command of both, the foreground app's monitor, the phone's end | partly |
| Main window, `src/12ProScrcpy/ui/dialog.cpp` | list of phones, one-click sequences, version checks, refresh buttons | adb commands, start and stop of sessions, one-click buttons, refreshes | partly |
| adb commands, `adb/adbprocess*.cpp` | one process and how it ended | execute, end, failure | partly |
| Audio output, `src/12ProScrcpy/audio` | running flag, sound device, worker thread | start, stop, read, write | modelled |
| Hardware decoder `device/decoder/vtdecoder.mm` | as the video buffer, on macOS | | not modelled |
| Control messages and receiver, `device/controller/receiver`, `device/controlmsg` | bytes not yet a whole message | encode, decode | not modelled |
| File transfer, sendevent session: `device/filehandler`, `adb/adbsendeventsession.cpp` | one adb process for each | push, install, write a key | not modelled |
| Rendering, configuration, encoder presets, translation, mouse tap, `fbstream`, `ubwc_decoder_v2` | | | not modelled |

How they interact. A window's events go to the Controller; with a keymap the
InputConvertGame turns them into touches, without one InputConvertNormal does.
Touches go over a TCP connection (USB tethering) to the daemon, which writes the
kernel's touch node. A Device owns a Server, which runs adb commands, opens a
tunnel and two connections to the scrcpy server on the phone; the video socket
goes to the demuxer's thread, which decodes by a direct connection into the
VideoBuffer and pushes packets to the Recorder's thread; the UI thread renders
on a queued `newFrame()`. The DeviceManage owns the Devices by serial number. The
Dialog starts sessions, gives every connected Device a VideoForm, and tells the
GroupController, which observes the hosts' Devices and repeats what is done there
on the others. A VideoForm holds a game-control panel, whose scheme it hands to its
Device as a script; the panel's editor writes the files the panel reads.

What is hard here: three threads and two frames with only part of the exchange
under the mutex; a daemon that outlives its client and a client that outlives its
daemon; sends that may be dropped without anybody being told; gestures that are
cut in two by timers or by a change of mode; one `stop()` called from six places
in any step of the start-up; signals whose slots destroy the sender's owner;
three threads torn down in a certain order; dialogs and delays that run an event
loop within a handler, in which timers fire and phones leave; one scheme kept in
four places (file, panel, editor, converter); observers that must be unregistered
while both ends still exist. `PROJECT.json` lists each such place
as a hazard at its line, with the property that covers it.

## 2. Modules

```
PanelMapping <- RawInputDaemon <- TouchInjection <- MCTouchInjection, TouchInjectionProofs
                     |   ^
     INSTANCE MultiTouch  MCRawInputDaemon, RawInputDaemonProofs <- TouchInjectionProofs
GameKeymap <- GameKeymapProofs
Server <- DeviceSession (INSTANCE Session) <- DeviceSessionProofs
VideoBuffer, Recorder <- VideoPipeline <- VideoPipelineProofs
GroupControl <- VideoForm <- GroupControlProofs
KeymapFiles <- GameControls <- MCGameControls, GameControlsProofs
AudioOutput <- Launcher <- MCLauncher, LauncherProofs
```

**PanelMapping** is `map_frame_to_panel()` in integers: which axes are swapped and
reflected, rounding to the nearest point, clamping to the panel.

**MultiTouch** is the abstract specification of a touch screen: contacts appear
and go one at a time while somebody is served, all at once when nobody is any
more, and the button is down exactly while there is a contact.

**RawInputDaemon** is the daemon. An action is one handler: the main thread
handles one packet to its end and is the only writer of the node. The rotation
thread shares one variable, read once per handler under its mutex, so it is an
action of its own. A client may send any packet in any order. The kernel's node
(`track`, `pos`, `btnTouch`) is kept apart from the daemon's books (`slotActive`,
`activeSlotCount`), since what can go wrong is that they differ.

**TouchInjection** extends it with the PC side and the network. The UI thread
runs one call at a time; a call that blocks (pushing and launching the daemon,
connecting, a reliable send) is several steps, and the daemon, the network and a
crash of the PC may come between them. A connection is a bounded queue of
packets: `SendDrops` is a full buffer or a reset connection. A daemon that ends
resets what its kernel had queued in the backlog. Eight-byte packets are sent
whole or not at all; `f` in a touch packet is the frame its coordinates refer to,
which the real packet does not carry: it is what `TouchMappedInItsFrame` compares
with the daemon's frame size. The wheel's four steps are one call. A size without an
area is announced to nobody and makes a wheel call do nothing (`EmptySize`).

**GameKeymap** is InputConvertGame, with the contact of the plain mouse. All
handlers run on the UI thread and are one action each; the timers (wheel, drag,
multi-click, the two singleShots of the re-plant) interleave with them. Positions
are left out: a path is its length, chosen from `PathLens`, where 0 is a path the code
can build, too. `down` is what the phone has been told. `misused` says that a touch has
found no id, which is where the code stands before a Q_ASSERT that a release build does
not evaluate; it goes on without the touch, and so does the model. `stranded` are the
keys of drags whose path was empty: `onDragTimer()` ends them with the finger down.
`steady` says whether the user changes modes only between gestures, a switch-map key
that is held being a gesture too; the code gives no promise
about slots and fingers left down for one who does not, and the properties that
need it say so. `Habits` is the set of users of a run.

**Server** and **DeviceSession** are one serial number's start-up and life. All
of it runs on the UI thread; an action is the handler of one event. Signals are
direct connections: the variable `signal` holds one between the statement that
emits it and the Device's slot, and no other event is handled meanwhile. `stop()`
and `disconnectDevice()` are operators that every handler which calls them
conjoins. Modelling decisions: the phone connects only after the server's process
was started; a deferred deletion is carried out before the user's next command;
tunnels and the processes that remove them outlive the Device, as adb's server
does; such a process may fail, which nobody looks at (`leaked`); waiting for the demuxer's thread is one step here and is taken apart in
VideoPipeline; retrying with `QProcess::start()` on a process that has not died
yet does nothing, as Qt does.

**Session** is what DeviceManage's observers may rely on: free, connecting,
connected, or *stuck* (an entry nobody will remove, reached only by an attempt
that was stopped before its answer).

**VideoBuffer**, **Recorder** and **VideoPipeline** are the three threads. A step
is what a thread does between two moments at which another may look: the decoder
is given its frame in one step and has written it in another, since both happen
without the mutex; the critical section of `offerDecodedFrame()` is one step, and
the wait on its condition variable gives the mutex up. `onNewFrame()` keeps the
mutex while it renders. `disconnectDevice()` is three steps, one per wait.
Packets carry the number of their frame; a config packet is 0. A session packet queues
`sessionChanged()` for the UI thread, in one queue with `newFrame()` (`ahead` and
`behind` count those before and after it). Its slot flushes the codec, which is the
decoder's and has no lock: the flush is a step with a beginning (`OnSessionChanged`) and an
end (`Flushed`), the demuxer's thread may decode between them, and any outcome may
come of that. What a flush in the middle of a decode does to the codec's memory is beyond
the model. A recorder whose file could not be opened is not modelled, nor are durations.

**GroupControl** is what the Dialog, the windows and the GroupController know of
each other: a serial's connection goes through the phases of Session, and one
user's event, with everything it calls directly, is one step. The some sixty
methods that repeat a command follow one rule but for a few; they are sets of
commands (`GroupKeys`, `GroupPanels` and so on); `Relays` says to which Devices the group
gives a command, and `Times` how often a phone gets it. A closing window (`deleteLater()`) and its Device
are two steps.

**VideoForm** puts the windows on top: full screen and back, rotations, the two
debouncing timers of a flexible display's size, and the mouse. `seen` is what each
phone has been sent of the buttons, through the group or not, `lost` the releases
that go elsewhere. Sizes are numbered, so that the last one can be told from an
older one. Not every window is used for everything (`Sized`, `Clicked`): the two
parts share nothing but the window's life.

**KeymapFiles** is a scheme's three forms as pure operators: the controls the editor
shows, the file, and what the engine takes of it (`Meaning`). What a reader has to
guess, such as which click was the fire icon, is modelled by how it guesses.

**GameControls** is the panel and the editor of one phone, on one connection of it: what
happens when the phone comes back, and has two panels, is not modelled (section 5). A dialog the editor opens
runs an event loop: `dialog` remembers which, and the monitor's timer, the focus and
the phone's end come before the answer. The panel's, the editor's and the
converter's copies of a scheme are three variables, the files a fourth. Taps may be
without a key, as the inspector takes them; `keyless` says that a scheme was written with
such a tap right on its look anchor, where reading takes it for the fire icon and the next
save gives it the left button.

**Launcher** is the main window. adb commands end in events of their own, one
console runs one command, and `delayMs()` of the one-click buttons is a stack
(`flows`) of event loops of which only the innermost may go on. Version checks and
refreshes are processes of their own; each keeps the parameters of its click.
**AudioOutput** is the sound, with its worker thread; `call` is the call the UI
thread is blocked in, during which no other event of the Launcher is handled.

The map in `PROJECT.json` names the lines each definition stands for. Definitions
whose comment begins with "Mutant" are not part of a model: each is a plausible
bug of the definition below it and shows that a property can fail.

## 3. What is checked

| Run | Specification | Properties | Bounds |
|---|---|---|---|
| `daemon` | DaemonSpec | `ContactsAgree` (books and kernel), `NothingStuckWithoutClient`, `NearestPanelPoint`, refinement of MultiTouch | 2 slots, 2 frame sizes (portrait, landscape), coordinates in and out of the frame, panel 6 x 8 |
| `injection` | FairInjectionSpec | `TouchMappedInItsFrame`, `PanelFollowsCalls`; a released contact is lifted (`LiftReaches`); the end of a session lifts all (`SessionEndLifts`) | 1 slot, buffers of 1 packet, 2 sessions, 1 rotation |
| `available_usable` | InjectionSpec | *violated*: available means usable | as `injection`, buffers of 2 |
| `keymap_gestures` | FairKeymapSpec | `WheelFingerWhilePressed`, `OneFingerPerKey`, `GesturesEnd` | 2 wheel keys, multi-click, drag; 3 ids; paths of 0 or 2; a steady user |
| `keymap_modes` | KeymapSpec | `ShootModeKeepsFinger`; for a steady user `EveryTouchHasASlot`, `NothingLeftDown` | switch-map key, click-twice key, eyes key, shoot button, pan with 2 re-plants in flight; 2 ids; both users |
| `keymap_pan_finger` | KeymapSpec | *violated*: the pan finger lives as long as shoot-mode | pan alone |
| `session` | FairSpec | `SlotHasItsServer`, `StartUpIsOver`, `TunnelReleased`, refinement of Session, `ConnectEnds` | 2 attempts to connect, 1 restart; every adb command may fail, the removal of a tunnel too |
| `video` | FairSpec | `NoTornFrame`, `PictureAfterItsSession`, `FramesInFile`, `FramesInOrder`, `NoFrameStranded`, `DropsThenCloses` | 4 packets of any kind |
| `video_stop` | FairSpec | *violated*: disconnect returns also with expired frames rendered | 4 packets |
| `windows` | FairSpec of VideoForm | `GroupIsReachable`, `ObserversAreLive`, `ReachesOnce`, `RatioFollowsVideo`, `NoOtherReleaseIsLost`, `SizeReachesPhone` | 2 phones of every kind, 2 resizes |
| `schemes` | Spec of GameControls | `DeviceFollowsPanel`, `PanelShowsStored`, `SchemesUnambiguous`, `ReopeningKeepsMeaning` | one panel on one connection; 2 apps, 2 scheme names, up to 3 controls whose keys meet, taps without a key among them, 3 changes |
| `launcher` | Spec of Launcher | `StartsWhatWasChecked`, `RefreshReturns`, `AudioStopsCleanly` | 2 phones, one also on the network, one too old; 4 commands |

Type invariants are stated where something is proved, and proved for every instance
(section 4); no run repeats them.

Why the bounds are enough. Slots are independent but for the count, so two (one
where the connections matter) show every relation between a slot and the count;
two sizes let a size be stale; a buffer of one packet holds one and drops the next
in the middle of a three-packet call; a frame size without an area is left to the
proofs, since it doubles the calls and adds no packet; two sessions are what it takes for one to meet
the other's daemon. A gesture never looks at more than one other gesture, and the ids
are fewer than the fingers that can be asked for, so that touches are refused, too. Two
attempts to connect and one more restart reach each comparison from both sides.
Four packets let a frame be in the decoder, one in each buffer and one in the
recorder, and the fifth would find the same state with other numbers. With two
phones there are a host and a follower, two hosts, and a phone that comes back
while the other's window is still closing; the proofs of the group take any number.
A scheme's controls matter by the keys and the place they share: two apps and two
names are what it takes to be in the wrong file, and three changes let one be
saved, reloaded and changed again. Four commands are what a start takes whose answer
meets another selection, and a refresh whose button meets two changes of source.

Deadlock is checked in the injection, daemon and keymap runs, where something can
always happen. The other runs say CHECK_DEADLOCK FALSE: a serial whose attempt was
abandoned is refused for ever (`session`, `windows`), a closed device is the end of
the pipeline's model, and in `schemes` and `launcher` the bounded user has nothing
more to do.

**Fairness.** Weak fairness of the daemon's accept and read (its loop blocks on
nothing else) and of the UI thread's own steps (each wait in it has a timeout);
none for the user, the network's losses or a crash. Started QTimers fire, among
them the two of a window's resize. adb commands end, queued slots run, a killed
process dies; the phone's process need not ever die or connect. In the pipeline
threads run, a stream whose server was stopped ends, and the UI thread serves the
events of its queue in turn, which is strong fairness of `OnNewFrame`: a screenshot
holds the mutex again and again, but cannot pass an event that is queued before it.

**Findings.** Each is a run whose property quotes the repository:

* `available_usable`: `controller.h:171` says of `m_rawInputDaemonAvailable` "true
  only if the daemon is up and usable for touch". A new session can be taken by
  the backlog of a daemon whose QUIT is still unread; it is reset a moment later,
  stays marked available, and its touches are dropped for the whole connection.
* `keymap_pan_finger`: `inputconvertgame.cpp:929-930` says that releasing on
  disengage keeps the finger's lifetime equal to shoot-mode's. A re-plant
  scheduled just before the disengagement plants a finger after it.
* `video_stop`: `videobuffer.h:41` says that `interrupt()` wakes up and avoids any
  blocking call; `disconnectDevice()` calls it only after it has waited for the
  thread that would have to be woken, so with RenderExpiredFrames the UI thread
  and the demuxer's may wait for each other.

Also met while modelling, with no run of its own: leaving the keymap after
two switch-map clicks leaves an override cursor (`inputconvertgame.cpp:195-197`);
`updateSize()` grabs the cursor without shoot-mode, against
`src/12ProScrcpy/ui/videoform.cpp:1160-1162`; the lock key works while the
suspend key is held, against `inputconvertgame.h:82-84`; a drag whose path is empty
leaves its finger down, and a second one of the same key then asks for another
(`stranded`; `inputconvertgame.cpp:566`); a refused packet does not
stop the stream, against `recorder.cpp:335`, and the recorder's last packet is written
even when it is a config packet, against `recorder.cpp:287` (`FramesInFile` speaks of
accepted frames and says nothing of these two: it does not show that the comments hold);
the tunnel of an `adb --remove` that fails stays (`leaked`; `server.cpp:80-84`); a start-up of which
adb itself cannot be started at the last step is never answered (`Hung`); a
screenshot before the first picture leaves the mutex locked (`Locked`). In
`src/12ProScrcpy`: any release while a window's frame is dragged is swallowed with
the drag, and a button held in a window that ends is never released at the
followers (`lost`; `videoform.cpp:770-808`); stopping a session does not call off
its version check, which starts it all the same (`dialog.cpp:694`); the apps'
refresh button comes back disabled when the camera is the source at that moment,
and choosing the display again does not enable it (`dialog.cpp:812`); the steps of
the wifi button are dropped in silence while another adb command runs
(`dialog.cpp:1177-1202`); a tap spot put exactly on the look control's anchor is
read back as its fire icon (`OnAnchor`); when it was left without a key
(`controlinspectordialog.cpp:144`) the next save writes it with the default left button
(`keymapprofilestore.cpp:333`), also when another tap has that, against "capped at one
binding for the whole scheme" (`gamecontrolseditor.cpp:850`), and the next reading loses
one of the two.

This last one is a disagreement of code and comment which the model reaches: in the run
`schemes`, whose stored scheme has a free look and a tap without a key, a user who moves that tap
onto the anchor, saves, and moves a slider comes to a scheme with the left button twice.
`SchemesUnambiguous`, `PanelShowsStored` and `ReopeningKeepsMeaning` except it, by
`~keyless`, and so do not show that the comment holds; without the exception TLC refutes
the first two within a few thousand states. No run of this project states the comment
as it stands, and none those of the recorder.

## 4. What is proved

All proofs are checked by TLAPS for every value of the constants, from the
assumptions named in the modules and nothing else.

**RawInputDaemonProofs** (`DaemonAssumption`, `PanelAssumption`). The button's
handlers look at the count, never at the panel, so "the button follows the
contacts" is not inductive; `DaemonInv` adds that the count is the number of
active slots, that the active slots are those the kernel holds, and that nothing
is active without a client. From it follow `TypeCorrect`, `BooksAgree`,
`ButtonCorrect`, `NothingStuck`, and `ImplementsScreen`: every step of the daemon is
a step of MultiTouch or a stutter. `MappedOnPanel` is the range of the transform, and
`NearestPoint` its meaning: rounding and clamping lose at most half a point of the
panel, in the orientation in force (lemma `NearestOnAxis`).

**TouchInjectionProofs** (`InjectionAssumption`, `DaemonAssumption`,
`PanelAssumption`) is the composition, for any number of slots and sessions and any
buffers. Every step of it is a step of the daemon or a stutter. That is how the composition is
built, and so it is a lemma (`ImplementsDaemon`) and no result; it carries what is proved of
the daemon over to the composition (`DaemonStaysCorrect`). The two properties of the path need to know what
the packets under way will do. `NetFits` says that one connection at most is served,
that none waits for a process that is gone, and that the connections are opened in
turn; `NoEndYet` that a live session's connection holds no end; `FrameInv` that each
touch on the wire is preceded by its own frame, or is for the frame the daemon has, with
the session's `lastFrame` the last one of all; `HeldInv` that the last DOWN or UP of a
slot under way says what the PC holds of it, or, with none under way, that the panel
does. From `InjectionInvariant` follow `FrameSafety` and `PanelSafety`.

**GameKeymapProofs** (`KeymapAssumption`, `OneNodePerKey`), for any number of ids, be they
fewer than the fingers, and paths of any length, 0 included. `FingerKept`: for every user,
while shoot-mode is on and no re-plant is under way the finger is planted; inductive with
the fact that the singleShots of the re-plants come in pairs, a lift before each plant. The
gestures of a steady user rest on one statement, `GesturesInv`, about what each key has on
the phone and what it asks for (`Wanted`): no key has more than it asks for (`AtMost`: one for a
click, switch key or button that is held where the keymap decides, for the wheel, the
drag and the pan finger, and for a multi-click as many as have a DOWN without its UP), save
the drags of empty paths (`stranded`), and as long as no touch was refused, none has less
(`AtLeast`). The first half holds with a full table as well: an UP for a finger that was refused
finds no id, and lifts no other key's. From it `OneFingerEach`, `WheelFinger` and
`NothingLeft`, with no further hypothesis on the keymap. `SlotForEveryTouch` says when the
Q_ASSERT of `sendTouchEvent()` can be reached: a touch is refused for the first time only in a
step that finds as many fingers asked for as there are ids (`Roomy` is the contrary, under
which no handler's touch is refused, one lemma for each). So it is the number of fingers
asked for at once that counts, never the number of keys, and no sequence of gestures uses
ids up. `OneNodePerKey` says that a key has one node, since of those `makeReverseMap()` files
under it the lookup finds the last; it leaves out the one exception, the button whose code is that of the
space key.

**DeviceSessionProofs** (`ServerAssumption`). The safety properties speak of a
connected or an abandoned device; what makes them true is what may be armed at each
step of the start-up. `IInv` says what a running command, a waiting process, each
timer, the listening socket and each emitted signal imply, among it that the
timer that runs fits the tunnel flag `stop()` consults, so that `Stop` disarms
everything (lemma `StopFacts`). From it `TypeCorrect`, `SlotSafety`, `StartUpSafety`
(with its halves `SettledSafety` and `QuietSafety`), `TunnelSafety`, and
`Refinement`: DeviceSession implements Session. `TunnelSafety` says that each tunnel of a
connected device is being removed or was left by a removal that failed: the code forgets none.
That all are gone in the end is not so, and is not claimed.

**VideoPipelineProofs** (`PipelineAssumption`). From the moment the decoder is given
its frame until the swap, that frame is the back one (`TargetInv`); the front one
holds the last picture offered (`ContentInv`); a consumed frame is the one shown and
one that is not consumed has its event (`ShownInv`, `EventInv`); the flag that would
end the wait early is set only when the thread has ended (`StopInv`). From these
`TypeCorrect`, `EventSafety`, `FrameSafety`, and `OrderSafety`, an
action property. `SessionsAreTold` counts the video's sessions: each received is told,
being told or queued, in front of `newFrame()` or behind it, and those the queued or offered
frame belongs to are in front. `SessionSafety` follows: with RenderExpiredFrames the windows
know of a session before they draw a picture of it. `FileSafety` is the recorder's file: a packet waits in one of three
places, the one being written, the one kept back or the queue, in this order;
`FileInv` says that the frames among them are exactly those accepted and not yet in the
file, so that the next one written is the next one due. It is about frames that were
accepted; what push() refuses after a failed write, and a config packet kept back at the end,
are outside it (section 3).

**GroupControlProofs** (`WindowsAssumption`). What the properties say of the group's
list and of observers is not inductive; `GroupInv` says in which phase and of which
kind a serial is when it has a window, a toolbar, observers or a place in the list,
and that the group observes exactly the hosts. From it `Reachable`, `ObserversLive` and
`FanOut` for any number of phones: a follower is no host, so that it repeats nothing
in turn. `RatioSafety` needs besides that a window opens out of full screen
(`RatioInv`). `ReleasesArrive` needs that whoever has seen a press and is still due its
release hears the window the mouse is held in (`MouseInv`).

**LauncherProofs** (`LauncherAssumption`). `StartSafety`: each way to `Connected` has
parameters the phone allows, either because they ask for nothing (`StartServerStart`)
or because the phone that was asked is the one that is started (`NewEnoughStart`).
`RefreshSafety`: `RefreshInv` follows one button's counters, of which only the last
process to end may say that it is idle. `AudioSafety`: the worker is told to quit
only by a call that waits for it, so that a device is never closed before
(`AudioInv`).

**GameControlsProofs** (`SchemesAssumption`, `KeysAssumption`, `ControlsAssumption`,
`StoredAssumption`: the controls are such as the dialogs can return, taps without a key
among them, and the files there are at first such as the editor writes).
`DeviceInForce`: after every handler the converter is the one of the panel's scheme and of the
window's focus, whatever dialogs, other apps and deletions came in between, on the panel's
own connection. `PanelStored`: the panel's copy of its scheme is the store's; inductive with
the fact that the panel's scheme is one of its app's files, and that it has none only when
there is no file (`Shown`). A slider writes the panel's copy and does not read it again, so
the proof must know that what a slider writes reads back, which is a matter of the
data: `NodesOK` says what the editor's checks keep true of the controls of a scheme,
`FileOK` what is true of a file, and `ReadForm` what is true, besides, of a scheme read
of one. The writer makes files of schemes (`WriteFile`), the reader schemes of files
(`ReadNodes`), and reading undoes writing for what was read (`ReadBack`, and for a file by
itself `WrittenReadsBack`). With every change the editor and the sliders make (`Added`,
`Rekeyed`, `Moved`, `Removed`, `Slid`) they give the invariant `SchemesInv` of all schemes
there are: in the store, in the panel, in the editor, and in a dialog, whose answer is
compared with keys it collected before. It holds up to the first write of a tap without a
key on its look's anchor: `FileOK` is the only one of these conditions a handler can break,
and this is the only way to (`StoreHandedOn`). The history variable `keyless` remembers it,
so that what is inductive is `ShownInv /\ (keyless \/ SchemesInv)`. From it
`NoButtonTwice` and `ReopeningIsHarmless`, for any number of apps, schemes, controls and
changes, with that case excepted in the properties themselves. After it they are false
(section 3), and of `PanelStored` only the half about the panel without a scheme is left.

What a file means is a recursion over its controls. `Those`, which keeps the elements of
a sequence that are in a set, is a recursive function for that reason; its facts are
proved by induction as a statement about a set of numbers or of sequences (lemmas
`NatSet`, `SeqSet`), since a theorem with an operator for its parameter cannot be used.

**Only model-checked.** The liveness properties (the prover does not do fairness or
ENABLED): `LiftReaches`, `SessionEndLifts`, `GesturesEnd`, `ConnectEnds`,
`NoFrameStranded`, `DropsThenCloses`, `SizeReachesPhone`. Every other property of a
passing run is stated by a theorem.

## 5. Not modelled

* **Hardware decoder**: macOS only; its two frames are the VideoBuffer's again.
* **Control messages, receiver**: each is one layout of bytes; the receiver takes
  whole messages and leaves the rest in the socket. No order, state or failure of
  theirs is seen elsewhere.
* **File transfer, sendevent session**: a process for each file, started and
  forgotten but for a message; a shell that is there or not.
* **Rendering, configuration, encoder presets, settings of the main window,
  translation, mouse tap**: drawing, tables and platform calls.
* **fbstream, ubwc_decoder_v2**: separate experiments the program does not use.
* Within modelled components: a send that accepts part of a packet
  (`rawinputdaemonsession.cpp:376`), after which everything is misread, since the code
  has no resynchronisation that a property could be about;
  a game-control panel whose phone has gone: nobody deletes it (`toolform.cpp:43`), its
  monitor goes on asking for the app in front, and when the phone comes back it sets its own
  scheme and its own idea of the focus on the new connection's Device, beside the new panel,
  and both write the same files; the properties of `schemes` are those of one panel, and say
  nothing of two;
  `updateScript()` with fingers down (`controller.cpp:69`), of which nothing says what
  should become of the fingers; an answer to a dialog whose marker was deleted
  meanwhile (`gamecontrolseditor.cpp:927`), which is undefined; that a sndcpy
  started while the last one is being killed is not waited for
  (`audiooutput.cpp:82`).

## 6. Plan

1. Done: the touch path (daemon, abstract screen, session, composition), the
   game keymap, the start-up and life of a device, the video pipeline with the
   recorder, the group and its windows, the schemes with the panel and the editor,
   the main window with the sound, and the proofs of section 4.
2. Next proofs: which fingers a user leaves who changes modes in the middle of a gesture,
   by the mode key that left them.
3. Next modules: two panels of one phone, the old one and the new, on one store and one
   Device; `updateScript()` rebuilding the converter in the middle of a gesture; the
   composition of GroupControl with DeviceSession in place of its phases.
4. Next runs: the comments at `recorder.cpp:287` and `:335` and at
   `gamecontrolseditor.cpp:850` as they stand, which the code contradicts.
