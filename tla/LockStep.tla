------------------------------ MODULE LockStep ------------------------------
(***************************************************************************)
(* Two parties that run one program against each other: the environment of *)
(* the protocol modules.  The library's protocols have no negotiation, so  *)
(* both applications must make the same calls in the same order; how far   *)
(* the one is ahead of the other is not bounded by anything but the        *)
(* messages it waits for.  The program is chosen as it runs: the party     *)
(* that is ahead picks the next call.  Channels are reliable and ordered;  *)
(* the link may go down once, after which nothing is delivered that is not *)
(* already there, and sending fails.                                       *)
(***************************************************************************)
EXTENDS Naturals, Sequences

CONSTANTS
  MaxOps,   \* length of the program
  Faults    \* whether the link may go down

VARIABLES
  script,   \* the program, as far as it is chosen: a sequence of calls
  pos,      \* the next call of each party
  chan,     \* messages on their way to each party
  up        \* the link is up

linkVars == <<script, pos, chan, up>>

Party == {"A", "B"}
Other(p) == IF p = "A" THEN "B" ELSE "A"

LinkInit == /\ script = <<>>
            /\ pos  = [p \in Party |-> 1]
            /\ chan = [p \in Party |-> <<>>]
            /\ up   = TRUE

\* Party p makes call c: the one the program has here, or a new one.
Calls(p, c) == /\ \/ pos[p] <= Len(script) /\ script[pos[p]] = c /\ UNCHANGED script
                  \/ pos[p] > Len(script) /\ Len(script) < MaxOps /\ script' = Append(script, c)
               /\ pos' = [pos EXCEPT ![p] = @ + 1]

\* Messages m leave p, if the link is up.
Sends(p, m)      == chan' = IF up THEN [chan EXCEPT ![Other(p)] = @ \o m] ELSE chan
\* p takes the first message and sends m.
Exchanges(p, m)  == chan' = IF up THEN [chan EXCEPT ![p] = Tail(@), ![Other(p)] = @ \o m]
                                  ELSE [chan EXCEPT ![p] = Tail(@)]

\* The link goes down and takes some of what is under way with it.
LinkDown ==
  /\ up /\ Faults /\ up' = FALSE
  /\ \E a \in 0..Len(chan["A"]), b \in 0..Len(chan["B"]) :
       chan' = [chan EXCEPT !["A"] = SubSeq(@, 1, a), !["B"] = SubSeq(@, 1, b)]
  /\ UNCHANGED <<script, pos>>

ProgramOver(p) == pos[p] > MaxOps

=============================================================================
