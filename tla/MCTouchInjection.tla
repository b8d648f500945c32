-------------------------- MODULE MCTouchInjection --------------------------
EXTENDS TouchInjection

MCFrames == {[w |-> 1, h |-> 2], [w |-> 2, h |-> 1]}
MCOneFrame == {[w |-> 1, h |-> 2]}
MCCoords == {0}
MCPolled == {}
MCOnePolled == {"90"}
=============================================================================
