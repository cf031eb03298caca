---------------------------- MODULE BranchyStage ----------------------------
(***************************************************************************)
(* The loop around the operations (internal/astrobwt/pow.go,               *)
(* astroBWTv3Stream) and the group flags built from what it records        *)
(* (sa_v114.go, buildStage5Flags). Each try appends a chunk of Width bytes *)
(* to the data; where RC4 fires the chunk is scrambled and a new template  *)
(* begins. Which bytes a chunk holds, and so where RC4 fires and when the  *)
(* loop may stop, is left open here.                                       *)
(***************************************************************************)
EXTENDS Integers, Sequences, FiniteSets, SequencesExt

CONSTANTS Width,               \* bytes of a chunk (256)
          MinTries, MaxTries,  \* the loop ends after more than MinTries (260) tries,
                               \* and after MaxTries + 1 (277) at the latest
          Dropped,             \* chunks that never count towards the length (4)
          CountBase            \* a marker holds its count modulo this (128)

ASSUME StageAssumption ==
    /\ Width \in Nat \ {0, 1, 2}
    /\ MinTries \in Nat /\ MaxTries \in Nat /\ Dropped \in Nat \ {0}
    /\ Dropped < MinTries /\ MinTries <= MaxTries
    /\ CountBase \in {2, 4, 8, 16, 32, 64, 128}

VARIABLES stage, tries,
          markers,                          \* of the templates that have ended
          templateIdx, firstChunk, chunkCount,
          fired,                            \* history: the tries RC4 fired in
          widest,                           \* history: the highest count of a marker
          len,                              \* data_len
          flags                             \* set of group numbers flagged

loopVars == <<tries, markers, templateIdx, firstChunk, chunkCount, fired, widest>>

LoopStart == /\ stage = "loop" /\ tries = 0
             /\ markers = <<>> /\ templateIdx = 0 /\ firstChunk = 0 /\ chunkCount = 1
             /\ fired = {} /\ widest = 0 /\ len = 0 /\ flags = {}

Widest == IF chunkCount > widest THEN chunkCount ELSE widest

\* x | y.
Or(x, y) ==
    LET or[u \in 0..x] ==
            [v \in 0..y |->
                IF u = 0 \/ v = 0 THEN u + v
                ELSE 2 * or[u \div 2][v \div 2] + (IF u % 2 = 1 \/ v % 2 = 1 THEN 1 ELSE 0)]
    IN  or[x][y]

\* first<<7 | count: a count of CountBase or more runs into first.
Mark(first, count) == Or(first, count \div CountBase) * CountBase + (count % CountBase)

\* A variant of Marked (below): the second marker does not replace the first.
MarkedAppended == Append(markers, Mark(firstChunk, chunkCount))

\* markers[templateIdx] = firstChunk<<7 | chunkCount; templateIdx counts from 0.
Marked == LET mark == Mark(firstChunk, chunkCount)
          IN  IF templateIdx = Len(markers) THEN Append(markers, mark)
              ELSE [markers EXCEPT ![templateIdx + 1] = mark]

\* When the loop may end after n tries.
MayEnd(n, lastByteHigh) == n > MaxTries \/ (lastByteHigh /\ n > MinTries)

Try ==
    /\ stage = "loop"
    /\ tries' = tries + 1
    /\ \/ /\ markers' = Marked /\ widest' = Widest
          /\ templateIdx' = IF tries' > 1 THEN templateIdx + 1 ELSE templateIdx
          /\ firstChunk' = tries' - 1 /\ chunkCount' = 1
          /\ fired' = fired \cup {tries'}
       \/ /\ chunkCount' = chunkCount + 1
          /\ UNCHANGED <<markers, templateIdx, firstChunk, fired, widest>>
    /\ \E lastByteHigh \in BOOLEAN :
         stage' = IF MayEnd(tries', lastByteHigh) THEN "ended" ELSE "loop"
    /\ UNCHANGED <<len, flags>>

\* The last marker, and a length that depends on two bytes of the last chunk.
EndLoop ==
    /\ stage = "ended"
    /\ markers' = Marked /\ widest' = Widest
    /\ \E tail \in 0..(Dropped * Width - 1) : len' = (tries - Dropped) * Width + tail
    /\ stage' = "streamed"
    /\ UNCHANGED <<tries, templateIdx, firstChunk, chunkCount, fired, flags>>

\* A group is flagged where a marker's chunks end.
buildStage5Flags(marks, logicalLen) ==
    LET Boundary(m) == (m \div CountBase) + (m % CountBase)
    IN  {0} \cup {Boundary(marks[i]) : i \in {j \in DOMAIN marks :
                     /\ marks[j] % CountBase # 0
                     /\ Boundary(marks[j]) <= logicalLen \div Width}}

-----------------------------------------------------------------------------
(* The groups at which a template starts, said of the tries RC4 fired in.  *)
(* The count of the first template starts at one and only a firing resets  *)
(* it, so unless RC4 fires in the first try the second template is taken   *)
(* to start one group late.                                                *)
TemplateStarts ==
    LET later == fired \ {1}
    IN  {IF 1 \notin fired /\ \A u \in later : t <= u THEN t ELSE t - 1 : t \in later}

\* Apart from the first, a group is flagged exactly where a template starts, as
\* long as no template has more chunks than a marker can count: the sort takes the
\* groups in between for near copies of each other (pow.go's markers with
\* buildStage5Flags in sa_v114.go).
FlagsFollowTemplates ==
    stage = "streamed" /\ widest < CountBase =>
        buildStage5Flags(markers, len) \ {0}
          = {g \in TemplateStarts : g <= len \div Width}

=============================================================================
