------------------------------- MODULE Session -------------------------------
(***************************************************************************)
(* What DeviceManage promises of one serial number, whatever the phone,    *)
(* adb and the user do: a serial is free, being connected, connected, or   *)
(* stuck: it has an entry whose device neither works nor will be removed,  *)
(* so that connectDevice() refuses it from then on.                        *)
(***************************************************************************)
VARIABLE phase

Phases == {"free", "connecting", "connected", "stuck"}

Init == phase = "free"

Connect == phase = "free" /\ phase' = "connecting"

\* deviceConnected(true) and deviceConnected(false): one of them, once.
Succeed == phase = "connecting" /\ phase' = "connected"
Fail    == phase = "connecting" /\ phase' = "free"

\* Stopped before the answer: nobody hears of it and the entry stays.
Abandon == phase = "connecting" /\ phase' = "stuck"

\* deviceDisconnected(): only a connected device ends, and it leaves no entry.
End == phase = "connected" /\ phase' = "free"

Next == Connect \/ Succeed \/ Fail \/ Abandon \/ End

Spec == Init /\ [][Next]_phase
=============================================================================
