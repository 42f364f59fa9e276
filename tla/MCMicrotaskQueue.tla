-------------------------- MODULE MCMicrotaskQueue --------------------------
EXTENDS MicrotaskQueue, Bitwise
CONSTANTS m1, m2, c1, c2

\* WordAnd is what the community modules call &.
ASSUME WordAndIsBitwise == \A x, y \in 0..33 : WordAnd[x][y] = x & y

\* m1 is a callback, m2 belongs to c2, the others to c1.
Mixed == [m \in Microtasks |->
            IF m = m1 THEN None ELSE IF m = m2 THEN c2 ELSE c1]
=============================================================================
