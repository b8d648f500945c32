-------------------------- MODULE MCRawInputDaemon --------------------------
(***************************************************************************)
(* The daemon with two slots, a portrait and a landscape frame.            *)
(***************************************************************************)
EXTENDS RawInputDaemon

MCFrames == {[w |-> 2, h |-> 3], [w |-> 3, h |-> 2]}
MCCoords == {0, 4}
MCPolled == {"90", "270", "unknown"}
=============================================================================
