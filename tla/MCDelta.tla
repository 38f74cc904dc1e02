------------------------------ MODULE MCDelta ------------------------------
EXTENDS DeltaPlane, TLC
CONSTANTS f, g, absent, x, y, c1
MCStarts == {[k \in {f, g} |-> IF k = f THEN x ELSE absent]}
MCKinds == DoorKind
=============================================================================
