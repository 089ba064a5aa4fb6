-------------------------------- MODULE Arena --------------------------------
(***************************************************************************)
(* core::Arena (arena.hpp): a bump pointer over one buffer, reset as a     *)
(* whole.  Offsets are std::size_t: sums are taken modulo SizeRange.       *)
(***************************************************************************)
EXTENDS Integers, FiniteSets

CONSTANTS
  Capacity, Alignment,
  Requests,      \* sizes asked for
  SizeRange      \* one more than the largest std::size_t

ASSUME ArenaAssumption ==
  /\ Capacity \in Nat /\ Alignment \in Nat \ {0} /\ SizeRange \in Nat
  /\ Capacity + Alignment <= SizeRange
  /\ Requests \subseteq 0..(SizeRange - 1)

VARIABLES
  offset,   \* offset_
  blocks    \* blocks handed out since the last reset
arenaVars == <<offset, blocks>>

(* Mutant: the offset is aligned downwards. *)
AlignedDown == (offset \div Alignment) * Alignment
AlignedOffset == ((offset + Alignment - 1) \div Alignment) * Alignment
End(bytes) == (AlignedOffset + bytes) % SizeRange

ArenaInit == offset = 0 /\ blocks = {}

Allocate(bytes) ==
  \/ End(bytes) > Capacity /\ UNCHANGED arenaVars    \* returns nullptr
  \/ /\ End(bytes) <= Capacity
     /\ offset' = End(bytes)
     /\ blocks' = blocks \cup {[start |-> AlignedOffset, bytes |-> bytes]}

Reset == offset' = 0 /\ blocks' = {}

ArenaNext == Reset \/ \E bytes \in Requests : Allocate(bytes)
ArenaSpec == ArenaInit /\ [][ArenaNext]_arenaVars

-----------------------------------------------------------------------------
(* The bump pointer never leaves the buffer. *)
ArenaTypeOK ==
  /\ offset \in 0..Capacity
  /\ blocks \subseteq [start : 0..(Capacity + Alignment), bytes : Requests]

(* A block lies in the buffer below the bump pointer, starts aligned, and  *)
(* shares no byte with another.                                            *)
Fits(b) == b.start % Alignment = 0 /\ b.start + b.bytes <= offset
Disjoint(b, c) == b.start + b.bytes <= c.start \/ c.start + c.bytes <= b.start
NoWrap == \A bytes \in Requests : Capacity + Alignment + bytes < SizeRange
BlocksApart ==
  NoWrap => \A b, c \in blocks : Fits(b) /\ (b # c => Disjoint(b, c))
=============================================================================
