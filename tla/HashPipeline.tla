---------------------------- MODULE HashPipeline ----------------------------
(***************************************************************************)
(* A hash through the stages of AstroBWTv3 (internal/astrobwt/hasher.go,   *)
(* pow.go), in buffers that earlier hashes have used: the branchy loop     *)
(* streams data and markers, the suffix array of the data is built, and    *)
(* its bytes are digested, for two nonces at once in pair mode.            *)
(***************************************************************************)
EXTENDS DescriptorSort, ShaPair

CONSTANT PairLengths      \* the lengths of the other lane's data

ASSUME PairAssumption == PairLengths \subseteq Nat

VARIABLE digests          \* the blocks digested, per lane

vars == <<stage, loopVars, len, flags, sortVars, digests>>

Init == LoopStart /\ SortStart /\ digests = <<>>

\* HashPair: lane a's suffix array waits, complete, for lane b's. Four bytes per
\* position; big-endian and single hashes use the library's digest.
HashPair ==
    /\ stage = "sorted"
    /\ \E lb \in PairLengths : digests' = sha256Sum256Pair(4 * len, 4 * lb)
    /\ stage' = "hashed"
    /\ data' = <<>> /\ sa' = <<>> /\ arena' = <<>> /\ runs' = <<>> /\ runStart' = 0
    /\ flags' = {}
    /\ UNCHANGED <<loopVars, len, useV114>>

Next == \/ (Try \/ EndLoop) /\ UNCHANGED <<sortVars, digests>>
        \/ (Prepare \/ EmitRun \/ EmitTailAndSort \/ WriteKey \/ Written \/ SortBySAIS)
             /\ UNCHANGED digests
        \/ HashPair

Spec == Init /\ [][Next]_vars

-----------------------------------------------------------------------------
\* The result is the suffix array, whatever bytes the loop made, wherever RC4
\* fired and whatever earlier hashes left in the buffers: every position, each
\* suffix before the next (sa_v114.go's promise of the exact suffix array).
ExactSuffixArray ==
    stage = "sorted" =>
        /\ Len(sa) = len /\ {sa[i] : i \in 1..len} = 0..(len - 1)
        /\ \A i \in 1..(len - 1) : suffixLess(sa[i], sa[i + 1])

\* What a key group is merged from is sorted and belongs together: in every record
\* the positions have the record's key and their suffixes ascend (sa_v114_emit.go).
RecordsAreSorted ==
    stage \in {"emit", "write"} =>
        \A i \in DOMAIN runs :
            LET ps == Positions(runs[i])
            IN  /\ \A j \in DOMAIN ps : Key(ps[j]) = runs[i].key
                /\ \A j \in 1..(Len(ps) - 1) : suffixLess(ps[j], ps[j + 1])

\* The descriptor sort never gives up on data of the loop: the arena and the runs
\* have room for every template (sa_v114.go's limits; a decline costs a second sort).
NeverDeclines == stage # "declined"

\* Each lane's digest is the SHA-256 of its own message, for every combination of
\* lengths (sha256mb.go, sha256Sum256Pair).
PairIsTwoDigests ==
    stage = "hashed" =>
        \E lb \in PairLengths :
            digests = <<Standard("a", 4 * len), Standard("b", 4 * lb)>>

=============================================================================
