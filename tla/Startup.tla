------------------------------ MODULE Startup -------------------------------
(***************************************************************************)
(* The process as a whole: package initialisation builds the tables of the *)
(* hash (Lut), and only then does main run (Launch).                       *)
(***************************************************************************)
EXTENDS Launch, Lut

\* Bytes, and pairs of bytes.
ASSUME SampleAssumption == SampleBytes \subseteq Byte /\ SampleWindows \subseteq Byte \X Byte

StartupInit == Init /\ LutInit

PackageInit == FillRow /\ UNCHANGED vars

MainRuns == LutBuilt /\ Next /\ UNCHANGED lutVars

StartupNext == PackageInit \/ MainRuns

StartupSpec == StartupInit /\ [][StartupNext]_<<vars, lutVars>>

-----------------------------------------------------------------------------
(* Said of the tables while they are built; main never writes them.        *)

\* For every operation init has been through, and every byte, the miner's switch,
\* and its row of the tables where it has one, do to a chunk what the reference
\* does: the same bytes, the same replacements of lhash and of the cipher's key
\* (pow.go, lut.go, refpow/pow.go).
MinerMatchesReference == pc = "init" /\ op > 0 => OpMatches(Seen)

\* The checked-in table kernel has exactly the operations its generator would
\* accept from today's switch: none missing, none that reads another byte or
\* touches the hash state; and init ends with every row filled, having run past
\* none (lutgen/main.go, pureop_gen.go, lut.go).
PureSetIsCurrent ==
    pc = "init" => /\ op > 0 => (isPureOp(Seen) <=> PureBody(Seen))
                   /\ ~LutPanics
                   /\ op = 256 => LutBuilt

=============================================================================
