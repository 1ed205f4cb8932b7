------------------------------ MODULE MCGarble ------------------------------
EXTENDS GarbleVm
MCBounds == <<0, 2, 3, 4>>
MCOwner == <<"g", "e", "public">>
MCHandles == {{0}, {0, 1}, {2}, {3}}
MCCallInputs == <<{0, 2}, {4, 3}>>
MCValues == {(0 :> 1) @@ (1 :> 0) @@ (2 :> 0) @@ (3 :> 1)}
=============================================================================
