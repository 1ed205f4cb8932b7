----------------------------- MODULE MCContext -----------------------------
(* Sessions for model checking: programs of both parties, one per context. *)
EXTENDS Context

T == [k |-> "talk", subs |-> <<>>]
X == [k |-> "bad", subs |-> <<>>]
Op(k, subs) == [k |-> k, subs |-> subs]
Map(subs) == Op("map", subs)
Join(subs) == Op("join", subs)
Try(subs) == Op("try", subs)
S(mode, limit, roots) == [mode |-> mode, limit |-> limit, roots |-> roots]

MCSessions ==
    { \* more items than lanes, an empty map, an operation after them
      S("multi", 2, << <<Map(<<T, T, T>>), Map(<<>>), Join(<<T, T>>)>> >>),
      S("multi", 2, << <<Map(<<T, T, T, T, T>>)>> >>),
      \* two contexts of one session; a limit below one
      S("multi", 0, << <<Map(<<T, T>>)>>, <<Try(<<T, X>>)>> >>),
      \* operations inside items that share a lane
      S("multi", 1, << <<Map(<<Join(<<T, T>>), Try(<<X, T>>), Join(<<T, T>>)>>)>> >>),
      S("multi", 2, << <<Map(<<Join(<<T, T>>), T, Map(<<T>>)>>)>> >>),
      \* branches that fail, alone, nested, and with work after them
      S("multi", 2, << <<Try(<<X, T>>), Join(<<T, T>>)>> >>),
      S("multi", 2, << <<Try(<<T, X, T>>)>> >>),
      S("multi", 2, << <<Try(<<T, X, T, T>>)>> >>),
      S("multi", 2, << <<Try(<<X, Join(<<T, T>>)>>)>> >>),
      S("multi", 2, << <<Join(<<Try(<<T, X>>), T>>)>> >>),
      \* a single channel
      S("single", 1, << <<Map(<<T, T>>), Join(<<T, Join(<<T, T>>)>>), Map(<<>>), T>> >>),
      S("single", 1, << <<Map(<<T, Try(<<X, T>>), T>>)>> >>) }

\* All the work in them: at most three levels of operations.
Subs(W) == W \cup UNION {ToSet(w.subs) : w \in W}
MCWork == Subs(Subs(Subs(UNION {ToSet(r) : r \in UNION {ToSet(s.roots) : s \in MCSessions}})))
=============================================================================
