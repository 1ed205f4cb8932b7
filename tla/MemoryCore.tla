----------------------------- MODULE MemoryCore -----------------------------
(***************************************************************************)
(* The memory every virtual machine of the repository is built on          *)
(* (crates/memory-core): slices of a linear address space, stores that     *)
(* know which addresses are set, the visibility of each address, and the   *)
(* MACs and keys that authenticate bits.                                   *)
(*                                                                         *)
(* A RangeSet is a set of addresses.  A store is the function from its set *)
(* addresses to their contents: its domain is the field `set` of the code. *)
(***************************************************************************)
EXTENDS Integers, FiniteSets, Sequences, TLC

\* The addresses a slice of `size` addresses starting at `ptr` covers.
Slice(ptr, size) == ptr .. (ptr + size - 1)

(***************************************************************************)
(* The code walks a RangeSet range by range: the maximal runs of           *)
(* consecutive addresses, and inside them the addresses in order.  What is *)
(* collected that way is a sequence; the peer spreads it over its own      *)
(* RangeSet.                                                               *)
(***************************************************************************)
Runs(S) == {{b \in S : (a .. b) \cup (b .. a) \subseteq S} : a \in S}

Rank(S, a) == Cardinality({b \in S : b <= a})

Collect(S, f) ==
  [i \in 1 .. Cardinality(S) |-> f[CHOOSE a \in S : Rank(S, a) = i]]

Spread(S, seq) == [a \in S |-> seq[Rank(S, a)]]

-----------------------------------------------------------------------------
(***************************************************************************)
(* Store and BitStore.  try_set refuses a slice that is set as a whole and *)
(* overwrites one that is set in part.                                     *)
(***************************************************************************)
EmptyStore == [a \in {} |-> 0]

StoreIsSet(store, S) == S \subseteq DOMAIN store

CanSet(store, S) == ~StoreIsSet(store, S)

\* A store with new contents written over it.
Overlay(new, store) ==
  [a \in DOMAIN new \cup DOMAIN store |->
     IF a \in DOMAIN new THEN new[a] ELSE store[a]]

TrySet(store, S, contents) == Overlay([a \in S |-> contents[a]], store)

\* try_set for every range of S.
CanSetRuns(store, S) == \A R \in Runs(S) : CanSet(store, R)

-----------------------------------------------------------------------------
(***************************************************************************)
(* VisibilityView: the addresses whose visibility is not set yet, and the  *)
(* public, private and blind ones as this party sees them.                 *)
(***************************************************************************)
NewVisibility ==
  [uninit |-> {}, public |-> {}, private |-> {}, blind |-> {}, visible |-> {}]

VisAlloc(vis, S) == [vis EXCEPT !.uninit = @ \cup S]

VisIsSet(vis, len, S) == (\A a \in S : a < len) /\ S \cap vis.uninit = {}

VisIsSetAny(vis, len, S) == {a \in S : a < len} \ vis.uninit # {}

SetPublic(vis, S) ==
  [uninit |-> vis.uninit \ S, public |-> vis.public \cup S,
   private |-> vis.private \ S, blind |-> vis.blind \ S,
   visible |-> vis.visible \cup S]

SetPrivate(vis, S) ==
  [uninit |-> vis.uninit \ S, public |-> vis.public \ S,
   private |-> vis.private \cup S, blind |-> vis.blind \ S,
   visible |-> vis.visible \cup S]

SetBlind(vis, S) ==
  [uninit |-> vis.uninit \ S, public |-> vis.public \ S,
   private |-> vis.private \ S, blind |-> vis.blind \cup S,
   visible |-> vis.visible \ S]

-----------------------------------------------------------------------------
(***************************************************************************)
(* Keys and MACs.  The key of an address is known by the address; the MAC  *)
(* of a bit under it is the pair of both.  The pointer bit of a key is any *)
(* fixed bit; adding Delta, whose pointer bit is 1, flips it.              *)
(***************************************************************************)
Xor(a, b) == (a + b) % 2

KeyPointer(key) == key % 2

Mac(key, bit) == [key |-> key, bit |-> bit]

MacPointer(mac) == Xor(KeyPointer(mac.key), mac.bit)

\* MacStore::prove: the pointer bits and the hash, which binds the MACs.
Prove(macs, S) ==
  [bits |-> Collect(S, [a \in S |-> MacPointer(macs[a])]),
   hash |-> Collect(S, macs)]

\* KeyStore::verify: the bits the pointer bits stand for, and whether the
\* MACs of exactly these bits hash to the proof.
Authenticated(S, bits) ==
  [a \in S |-> Xor(KeyPointer(a), Spread(S, bits)[a])]

Verify(S, proof) ==
  /\ Len(proof.bits) = Cardinality(S)
  /\ proof.hash
       = Collect(S, [a \in S |-> Mac(a, Authenticated(S, proof.bits)[a])])

\* Wrong on purpose: the pointer bits are taken for the data.
VerifiedBitsRaw(S, bits) == Spread(S, bits)

\* What verify writes back over the pointer bits.
VerifiedBits(S, bits) == Authenticated(S, bits)
=============================================================================
