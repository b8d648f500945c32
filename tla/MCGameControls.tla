--------------------------- MODULE MCGameControls ---------------------------
(***************************************************************************)
(* Two apps with up to two schemes each, and controls whose keys meet.     *)
(***************************************************************************)
EXTENDS GameControls

\* Reading a scheme back gives free looks, too.
MCControls ==
  { Node("tapSpot", <<"Left">>, "here", FireSpot, 0),
    Node("tapSpot", <<None>>, "here", FireSpot, 0),
    Node("aimPanShoot", <<"K", None, None>>, "there", FireSpot, 1),
    Node("aimPanShoot", <<"Left", None, "Right">>, "there", FireSpot, 1) }

\* A scheme with a tap without a key, which may be moved onto the look anchor.
MCStored ==
  { ToJson(DefaultModes,
           << Node("freeLook", <<None, None, None>>, "there", FireSpot, 1),
              Node("tapSpot", <<None>>, "here", FireSpot, 0),
              Node("tapSpot", <<"Left">>, "over", FireSpot, 0) >>) }

MCModes == { [switch |-> "K", lock |-> DefaultLock] }

AppSymmetry == Permutations(Apps)
=============================================================================
