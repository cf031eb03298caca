------------------------------ MODULE ShaPair -------------------------------
(***************************************************************************)
(* The two-way SHA-256 (internal/astrobwt/sha256mb.go): which blocks each  *)
(* of two messages is fed through the compression function in. A message   *)
(* is its lane and its length; a byte of a block is <<lane, position>> or  *)
(* part of the padding. A state is the sequence of blocks it has taken in. *)
(***************************************************************************)
EXTENDS Integers, Sequences

CONSTANTS BlockSize, LengthSize       \* 64 and 8 bytes

ASSUME BlockAssumption == /\ BlockSize \in Nat /\ LengthSize \in Nat \ {0}
                          /\ LengthSize < BlockSize

\* Blocks first, first + 1, ... of the message itself.
Blocks(lane, first, n) ==
    [b \in 1..n |-> [i \in 0..(BlockSize - 1) |-> <<lane, (first + b - 1) * BlockSize + i>>]]

\* A variant of TailBlocks (below) that leaves the end mark no room.
TailBlocksTight(rem) == IF rem > BlockSize - LengthSize THEN 2 ELSE 1

\* Blocks that rem bytes, the end mark and the length take.
TailBlocks(rem) == IF rem >= BlockSize - LengthSize THEN 2 ELSE 1

\* The rest of the message after full bytes, the end mark and the length.
sha256Finish(state, lane, length, full) ==
    LET rem  == length - full
        tlen == TailBlocks(rem) * BlockSize
        tail == [i \in 0..(tlen - 1) |->
                    CASE i < rem               -> <<lane, full + i>>
                      [] i = rem               -> <<"end", 0>>
                      [] i >= tlen - LengthSize -> <<"length", length>>
                      [] OTHER                 -> <<"zero", 0>>]
    IN  state \o [b \in 1..TailBlocks(rem) |->
                     [i \in 0..(BlockSize - 1) |-> tail[(b - 1) * BlockSize + i]]]

sha256Sum256Pair(la, lb) ==
    LET na     == la \div BlockSize
        nb     == lb \div BlockSize
        shared == IF na < nb THEN na ELSE nb
        st0    == Blocks("a", 0, shared) \o Blocks("a", shared, na - shared)
        st1    == Blocks("b", 0, shared) \o Blocks("b", shared, nb - shared)
    IN  <<sha256Finish(st0, "a", la, na * BlockSize), sha256Finish(st1, "b", lb, nb * BlockSize)>>

-----------------------------------------------------------------------------
\* SHA-256's own padding: an end mark, zeros, and the length in the last bytes of
\* the first block boundary that leaves room for both.
Standard(lane, length) ==
    LET n == CHOOSE k \in 1..(length + 2) :
                 /\ k * BlockSize >= length + 1 + LengthSize
                 /\ (k - 1) * BlockSize < length + 1 + LengthSize
        byte(p) == CASE p < length                         -> <<lane, p>>
                     [] p = length                         -> <<"end", 0>>
                     [] p >= n * BlockSize - LengthSize    -> <<"length", length>>
                     [] OTHER                              -> <<"zero", 0>>
    IN  [b \in 1..n |-> [i \in 0..(BlockSize - 1) |-> byte((b - 1) * BlockSize + i)]]

=============================================================================
