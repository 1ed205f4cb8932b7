----------------------------- MODULE MCOtStack -----------------------------
EXTENDS OtStack

S(t, m, b, f) == [top |-> t, mid |-> m, base |-> b, maps |-> f]

MCDelta == <<TRUE, FALSE>>
MCStacks == { S("ot", "none", "ideal", <<>>), S("ot", "none", "co", <<>>),
              S("cot", "none", "none", <<>>), S("cot", "rcot", "none", <<>>), S("cot", "kos", "co", <<>>),
              S("mid", "emp", "none", <<>>), S("mid", "rcot", "none", <<"rand">>),
              S("mid", "kos", "ideal", <<"rand", "any">>),
              S("mid", "rot", "none", <<"any">>),
              S("mid", "ferret", "rcot", <<>>), S("mid", "ferret_emp", "rcot", <<>>),
              S("cot", "ferret", "rcot", <<>>), S("coin", "none", "none", <<>>) }
Lpn(n, k, t) == [n |-> n, k |-> k, t |-> t]
MCFerret == [ferret     |-> [emp |-> FALSE, reserve |-> TRUE,  params |-> <<Lpn(8, 2, 2), Lpn(16, 2, 2)>>],
             ferret_emp |-> [emp |-> TRUE,  reserve |-> FALSE, params |-> <<Lpn(16, 2, 4)>>]]
=============================================================================
