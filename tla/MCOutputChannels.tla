--------------------------- MODULE MCOutputChannels ---------------------------
(* Small instances of OutputChannels for TLC.                              *)
EXTENDS OutputChannels, TLC

CONSTANTS a, b, t1, p1

\* a is the narrow output, b the wide one.
MCCapacity == (a :> 1) @@ (b :> 2)

\* one buffer to each output, and two to the wide one only.
MCShapes == {(a :> 1) @@ (b :> 1), (a :> 0) @@ (b :> 2)}

\* both outputs narrow, and one buffer to each.
MCSmallCapacity == (a :> 1) @@ (b :> 1)
MCOneShape == {(a :> 1) @@ (b :> 1)}
=============================================================================
