---------------------------- MODULE PanelMapping ----------------------------
(***************************************************************************)
(* The pure coordinate transform of the on-device daemon: frame space (the *)
(* pixels of the mirrored window on the PC) to panel space (the ABS_MT     *)
(* axes of the real touch node).  map_frame_to_panel computes in doubles   *)
(* and truncates value + 0.5; every intermediate value is a quotient of    *)
(* integers, so rounding half up is exact in integer arithmetic.           *)
(***************************************************************************)
EXTENDS Integers

CONSTANTS TouchXMax,   \* TOUCH_X_MAX, 14399 on the real panel
          TouchYMax    \* TOUCH_Y_MAX, 31999 on the real panel

ASSUME PanelAssumption == TouchXMax \in Nat /\ TouchYMax \in Nat

\* device_rotation_t
Rotations == {"0", "90", "180", "270", "unknown"}

\* (int)(num / den + 0.5) for den > 0; truncation and floor differ only below
\* zero, where the clamp that follows yields 0 for both.
Rounded(num, den) == (2 * num + den) \div (2 * den)

Clamp(v, max) == IF v < 0 THEN 0 ELSE IF v > max THEN max ELSE v

IsLandscape(frame) == frame.w > frame.h

\* Mutant: both landscape rotations are taken for ROTATION_270.
MapLandscapeOneWay(frame, rotation, x, y) ==
  IF frame.w <= 0 \/ frame.h <= 0 THEN [x |-> 0, y |-> 0]
  ELSE IF ~IsLandscape(frame)
  THEN [x |-> Clamp(Rounded(x * TouchXMax, frame.w), TouchXMax),
        y |-> Clamp(Rounded(y * TouchYMax, frame.h), TouchYMax)]
  ELSE [x |-> Clamp(Rounded(y * TouchXMax, frame.h), TouchXMax),
        y |-> Clamp(Rounded(TouchYMax * frame.w - x * TouchYMax, frame.w), TouchYMax)]

(***************************************************************************)
(* Scaled numerators: each axis is num/den before rounding.  In landscape  *)
(* the panel's X runs along the frame's Y, and its Y against the frame's X *)
(* (ROTATION_270); ROTATION_90 is the point reflection of that.            *)
(***************************************************************************)
MapFrameToPanel(frame, rotation, x, y) ==
  LET w == frame.w
      h == frame.h
      rx270 == y * TouchXMax
      ry270 == TouchYMax * w - x * TouchYMax
  IN  IF w <= 0 \/ h <= 0 THEN [x |-> 0, y |-> 0]
      ELSE IF ~IsLandscape(frame)
      THEN [x |-> Clamp(Rounded(x * TouchXMax, w), TouchXMax),
            y |-> Clamp(Rounded(y * TouchYMax, h), TouchYMax)]
      ELSE IF rotation = "90"
      THEN [x |-> Clamp(Rounded(TouchXMax * h - rx270, h), TouchXMax),
            y |-> Clamp(Rounded(TouchYMax * w - ry270, w), TouchYMax)]
      ELSE [x |-> Clamp(Rounded(rx270, h), TouchXMax),
            y |-> Clamp(Rounded(ry270, w), TouchYMax)]

PanelPoint == [x : 0..TouchXMax, y : 0..TouchYMax]
=============================================================================
