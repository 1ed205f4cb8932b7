----------------------------- MODULE MCOleStack -----------------------------
EXTENDS OleStack

MCTape  == <<3, 1, 4, 1, 0, 2, 4, 3, 1, 2, 0, 4, 3, 3, 2, 1, 4>>
MCDelta == <<TRUE>>
S(t, b) == [top |-> t, by |-> b]
MCStacks == {S("role", "rot"), S("role", "ideal"), S("conv", "rot"), S("conv", "role"), S("conv", "ideal")}
=============================================================================
