---------------------------- MODULE OutputFuture ----------------------------
(***************************************************************************)
(* Futures that hand a result from the protocol that computes it to the    *)
(* caller that queued the request (crates/common/src/future.rs and the     *)
(* decode futures of memory-core): a oneshot channel, read directly,       *)
(* through maps, or with a conversion.  The reader may await the output or *)
(* ask for it now and then with try_recv.                                  *)
(***************************************************************************)
EXTENDS Naturals, Sequences

CONSTANTS
  Values,       \* what can be sent
  MaxMaps,      \* maps around one output
  MaxTries      \* calls of try_recv

VARIABLES
  chan,     \* the channel: open, dropped or the value in it
  sender,   \* held, used or dropped
  kind,     \* output (with maps around it) or decode
  maps,     \* maps[i]: incomplete or done; the last is the outermost
  tries,    \* calls of try_recv so far
  result    \* what the reader saw last

vars == <<chan, sender, kind, maps, tries, result>>

Open == [at |-> "open"]
Holding(v) == [at |-> "full", value |-> v]
Closed == [at |-> "closed"]

None == [is |-> "none"]
Some(v, n) == [is |-> "some", value |-> v, mapped |-> n]
Canceled == [is |-> "canceled"]

\* new_output and OutputExt::map; DecodeFuture::new and the typed future.
Init ==
  /\ chan = Open /\ sender = "held"
  /\ \E n \in 0 .. MaxMaps : maps = [i \in 1 .. n |-> "incomplete"]
  /\ kind \in {"output", "decode"}
  /\ kind = "decode" => maps = <<>>
  /\ tries = 0 /\ result = None

-----------------------------------------------------------------------------
\* Sender::send, DecodeOp::send: at most once; a reader that is gone is fine.
Send ==
  /\ sender = "held" /\ sender' = "used"
  /\ \E v \in Values : chan' = IF chan = Open THEN Holding(v) ELSE chan
  /\ UNCHANGED <<kind, maps, tries, result>>

\* The protocol fails and drops its end.
DropSender ==
  /\ sender = "held" /\ sender' = "dropped"
  /\ chan' = IF chan = Open THEN Closed ELSE chan
  /\ UNCHANGED <<kind, maps, tries, result>>

\* try_recv of the channel itself.
ChanTry ==
  CASE chan.at = "full" -> Some(chan.value, Len(maps))
    [] chan.at = "open" -> None
    [] OTHER -> Canceled

\* try_recv of a map takes the map out before it asks inside: whatever it
\* finds there, it is done, and what was inside is dropped.
MapTry ==
  /\ maps # <<>>
  /\ result' = IF maps[Len(maps)] = "done" THEN Canceled ELSE ChanTry
  /\ maps' = [i \in DOMAIN maps |-> "done"]
  /\ chan' = Closed

\* try_recv of an output without maps, or of a decode future.
PlainTry ==
  /\ maps = <<>>
  /\ result' = ChanTry
  /\ chan' = IF chan.at = "full" THEN Closed ELSE chan
  /\ UNCHANGED maps

TryRecv ==
  /\ result.is # "some" /\ tries < MaxTries
  /\ tries' = tries + 1
  /\ MapTry \/ PlainTry
  /\ UNCHANGED <<sender, kind>>

\* An await that returns: a map is done only now.
Poll ==
  /\ result = None
  /\ maps # <<>> => maps[Len(maps)] = "incomplete"
  /\ chan # Open
  /\ result' = ChanTry
  /\ maps' = [i \in DOMAIN maps |-> "done"]
  /\ chan' = Closed
  /\ UNCHANGED <<sender, kind, tries>>

Next == Send \/ DropSender \/ TryRecv \/ Poll

Spec == Init /\ [][Next]_vars

-----------------------------------------------------------------------------
\* Once the protocol has sent the value, a reader that has not got it yet is
\* never told "canceled": one that asked too early and was told "not yet" can
\* ask again and gets it.
SentIsNotCanceled ==
  [][sender = "used" /\ result.is # "some" => result' # Canceled]_vars
=============================================================================
