-------------------------------- MODULE MCZk --------------------------------
EXTENDS ZkVm
MCInputSizes == <<2, 1>>
MCOwner == <<"p", "public">>
MCHandles == {{0}, {0, 1}, {2}}
MCValue == (0 :> 1) @@ (1 :> 0) @@ (2 :> 1)
G(op, x, y) == [op |-> op, x |-> x, y |-> y]
MCCircuits ==
  << [inputs |-> <<0, 2>>, gates |-> <<G("and", 1, 2), G("xor", 3, 2),
                                       G("and", 4, 1)>>],
     [inputs |-> <<2, 1>>, gates |-> <<G("inv", 2, 2), G("and", 1, 3)>>],
     [inputs |-> <<3, 1>>, gates |-> <<G("xor", 1, 2), G("id", 3, 3)>>] >>
=============================================================================
