----------------------------- MODULE MCLauncher -----------------------------
(***************************************************************************)
(* Two phones, one of them on the network as well, one too old for the     *)
(* camera.                                                                 *)
(***************************************************************************)
EXTENDS Launcher

MCPhones == <<"air", "old", "new">>
MCWireless == {"air"}
MCAddressOf == [s \in {"air", "old", "new"} |-> IF s = "new" THEN "air" ELSE NoSerial]
MCSdk == [s \in {"air", "old", "new"} |-> IF s = "old" THEN 28 ELSE 31]
=============================================================================
