------------------------- MODULE HashPipelineProofs -------------------------
(***************************************************************************)
(* Theorems about HashPipeline: the markers of the branchy loop and the    *)
(* group flags read from them, the blocks of the two-way digest, and the   *)
(* suffix array that the descriptor sort ends with, for chunks, counts,    *)
(* blocks, messages and data of any size.                                  *)
(***************************************************************************)
EXTENDS HashPipeline, Induction

-----------------------------------------------------------------------------
(* Markers.                                                                *)

\* x | 0 is x.
LEMMA OrOfNothing == ASSUME NEW x \in Nat PROVE Or(x, 0) = x
<1> DEFINE Is(f) == f = [u \in 0..x |-> [v \in 0..0 |->
                           IF u = 0 \/ v = 0 THEN u + v
                           ELSE 2 * f[u \div 2][v \div 2]
                                  + (IF u % 2 = 1 \/ v % 2 = 1 THEN 1 ELSE 0)]]
           g == [u \in 0..x |-> [v \in 0..0 |-> u + v]]
<1>1. Is(g)
  <2>1. \A u \in 0..x : [v \in 0..0 |-> u + v]
          = [v \in 0..0 |-> IF u = 0 \/ v = 0 THEN u + v
                            ELSE 2 * g[u \div 2][v \div 2]
                                   + (IF u % 2 = 1 \/ v % 2 = 1 THEN 1 ELSE 0)]
    OBVIOUS
  <2> QED
    BY <2>1
<1>2. Is(CHOOSE f : Is(f))
  <2> HIDE DEF g, Is
  <2> QED
    BY <1>1
<1>3. \A f : Is(f) => f[x][0] = x
  <2> SUFFICES ASSUME NEW f, Is(f) PROVE f[x][0] = x
    OBVIOUS
  <2>1. x \in 0..x /\ 0 \in 0..0
    OBVIOUS
  <2>2. f[x] = [v \in 0..0 |-> IF x = 0 \/ v = 0 THEN x + v
                               ELSE 2 * f[x \div 2][v \div 2]
                                      + (IF x % 2 = 1 \/ v % 2 = 1 THEN 1 ELSE 0)]
    BY <2>1
  <2> QED
    BY <2>1, <2>2
<1> QED
  BY <1>2, <1>3 DEF Or

\* The end of the chunks that a marker stands for, as buildStage5Flags reads it.
Boundary(m) == (m \div CountBase) + (m % CountBase)

\* A marker whose count fits is read back as where its chunks end.
LEMMA BoundaryIs ==
    ASSUME NEW first \in Nat, NEW count \in 1..(CountBase - 1)
    PROVE  /\ Boundary(Mark(first, count)) = first + count
           /\ Mark(first, count) % CountBase # 0
<1> DEFINE b == CountBase
<1>1. b \in Nat /\ b > 0 /\ count \in 1..(b - 1) /\ count \in 0..(b - 1)
  BY StageAssumption
<1>2. count \div b = 0 /\ count % b = count
  <2> HIDE DEF b
  <2> QED
    BY <1>1
<1>3. Mark(first, count) = first * b + count
  BY <1>2, OrOfNothing DEF Mark
<1>4. (first * b + count) \div b = first /\ (first * b + count) % b = count
  <2> HIDE DEF b
  <2> QED
    BY <1>1, DivOfSum
<1> QED
  BY <1>3, <1>4 DEF Boundary

-----------------------------------------------------------------------------
(* The groups at which templates start.                                    *)

\* Where the template that RC4 began in try s starts, when it fired in the tries F.
StartOf(F, s) == IF 1 \notin F /\ \A u \in F \ {1} : s <= u THEN s ELSE s - 1

Starts(F) == {StartOf(F, s) : s \in F \ {1}}

\* A template that begins after another adds one start.
LEMMA StartsGrow ==
    ASSUME NEW t \in Nat, t > 1, NEW F, F \subseteq 1..(t - 1)
    PROVE  Starts(F \cup {t}) = Starts(F) \cup {IF F = {} THEN t ELSE t - 1}
<1> DEFINE G == F \cup {t}
<1>1. \A s \in F \ {1} : StartOf(G, s) = StartOf(F, s)
  <2> SUFFICES ASSUME NEW s \in F \ {1} PROVE StartOf(G, s) = StartOf(F, s)
    OBVIOUS
  <2>1. s <= t /\ t # 1
    OBVIOUS
  <2>2. (\A u \in G \ {1} : s <= u) <=> (\A u \in F \ {1} : s <= u)
    BY <2>1
  <2>3. 1 \in G <=> 1 \in F
    BY <2>1
  <2> QED
    BY <2>2, <2>3 DEF StartOf
<1>2. StartOf(G, t) = IF F = {} THEN t ELSE t - 1
  <2>1. CASE F = {}
    BY <2>1 DEF StartOf
  <2>2. CASE F # {}
    <3>1. PICK u : u \in F
      BY <2>2
    <3>2. u \in G /\ u \in Nat /\ u < t
      BY <3>1
    <3>3. ~(1 \notin G /\ \A v \in G \ {1} : t <= v)
      BY <3>2
    <3> QED
      BY <2>2, <3>3 DEF StartOf
  <2> QED
    BY <2>1, <2>2
<1>3. G \ {1} = (F \ {1}) \cup {t}
  OBVIOUS
<1>4. Starts(G) = {StartOf(G, s) : s \in F \ {1}} \cup {StartOf(G, t)}
  <2> HIDE DEF G
  <2> QED
    BY <1>3 DEF Starts
<1>5. {StartOf(G, s) : s \in F \ {1}} = Starts(F)
  <2> HIDE DEF G
  <2> QED
    BY <1>1 DEF Starts
<1> QED
  BY <1>2, <1>4, <1>5

\* The first template is where the data starts.
LEMMA StartsOfFirst == Starts({1}) = {}
  BY DEF Starts

\* Starts are numbers of groups.
LEMMA StartsType ==
    ASSUME NEW n \in Nat, NEW F, F \subseteq 1..n
    PROVE  Starts(F) \subseteq Nat \ {0}
<1> SUFFICES ASSUME NEW s \in F \ {1} PROVE StartOf(F, s) \in Nat \ {0}
  BY DEF Starts
<1>1. s \in Nat /\ s > 1
  OBVIOUS
<1> QED
  BY <1>1 DEF StartOf

\* Marked sets the marker of the template that ends and no earlier one.
LEMMA MarkedIs ==
    ASSUME NEW S, markers \in Seq(S), Mark(firstChunk, chunkCount) \in S,
           templateIdx \in Nat, Len(markers) \in {templateIdx, templateIdx + 1}
    PROVE  /\ Marked \in Seq(S) /\ Len(Marked) = templateIdx + 1
           /\ Marked[templateIdx + 1] = Mark(firstChunk, chunkCount)
           /\ \A i \in 1..templateIdx : Marked[i] = markers[i]
<1> DEFINE mark == Mark(firstChunk, chunkCount)
<1>1. CASE templateIdx = Len(markers)
  <2>1. Marked = Append(markers, mark)
    BY <1>1 DEF Marked
  <2> HIDE DEF mark
  <2> QED
    BY <1>1, <2>1 DEF mark
<1>2. CASE templateIdx # Len(markers)
  <2>1. Marked = [markers EXCEPT ![templateIdx + 1] = mark] /\ Len(markers) = templateIdx + 1
    BY <1>2 DEF Marked
  <2> HIDE DEF mark
  <2>2. templateIdx + 1 \in 1..Len(markers)
    BY <2>1
  <2>3. Marked \in Seq(S) /\ Len(Marked) = Len(markers)
    BY <2>1, <2>2 DEF mark
  <2>4. Marked[templateIdx + 1] = mark
    BY <2>1, <2>2
  <2>5. \A i \in 1..templateIdx : Marked[i] = markers[i]
    BY <2>1, <2>2
  <2> QED
    BY <2>1, <2>3, <2>4, <2>5 DEF mark
<1> QED
  BY <1>1, <1>2

\* A marker is a number.
LEMMA MarkType ==
    ASSUME NEW first \in Nat, NEW count \in 1..(CountBase - 1)
    PROVE  Mark(first, count) \in Nat
<1> DEFINE b == CountBase
<1>1. b \in Nat /\ b > 0 /\ count \in 1..(b - 1)
  BY StageAssumption
<1>2. count \div b = 0 /\ count % b = count
  <2> HIDE DEF b
  <2> QED
    BY <1>1
<1>3. Mark(first, count) = first * b + count
  BY <1>2, OrOfNothing DEF Mark
<1> QED
  BY <1>1, <1>3

-----------------------------------------------------------------------------
(* The loop.                                                               *)

InLoop == stage \in {"loop", "ended"}

\* The loop's counters, and the length they come to.
LoopInv ==
    /\ len \in Nat
    /\ InLoop => /\ tries \in Nat /\ fired \subseteq 1..tries
                 /\ firstChunk \in Nat /\ chunkCount \in Nat \ {0} /\ widest \in Nat
                 /\ firstChunk + chunkCount = tries + (IF fired = {} THEN 1 ELSE 0)
    /\ stage = "ended" => tries > MinTries

\* The markers of the templates that have ended bound the templates that have begun,
\* the marker of a first template that RC4 ended in the first try being written twice.
MarkInv ==
    InLoop /\ widest < CountBase =>
        /\ markers \in Seq(Nat) /\ templateIdx \in Nat
        /\ Len(markers) = templateIdx + (IF fired = {1} THEN 1 ELSE 0)
        /\ \A i \in 1..templateIdx : markers[i] % CountBase # 0
        /\ {Boundary(markers[i]) : i \in 1..templateIdx} = Starts(fired)

FlagInv == LoopInv /\ MarkInv /\ FlagsFollowTemplates

\* The loop starts with no template and no marker.
LEMMA FlagInit == Init => FlagInv
<1> SUFFICES ASSUME Init PROVE FlagInv
  OBVIOUS
<1> USE DEF Init, LoopStart
<1>1. LoopInv
  BY DEF LoopInv, InLoop
<1>2. MarkInv
  <2>1. markers \in Seq(Nat) /\ Len(markers) = 0 /\ templateIdx = 0 /\ fired = {}
    OBVIOUS
  <2>2. Starts({}) = {}
    BY DEF Starts
  <2>3. 1..0 = {}
    OBVIOUS
  <2> QED
    BY <2>1, <2>2, <2>3 DEF MarkInv
<1>3. FlagsFollowTemplates
  BY DEF FlagsFollowTemplates
<1> QED
  BY <1>1, <1>2, <1>3 DEF FlagInv

\* A step of the loop in which RC4 does not fire.
LEMMA QuietTry ==
    ASSUME LoopInv, MarkInv, stage = "loop", InLoop', tries' = tries + 1,
           chunkCount' = chunkCount + 1, len' = len,
           stage' = "ended" => tries' > MinTries,
           UNCHANGED <<markers, templateIdx, firstChunk, fired, widest>>
    PROVE  LoopInv' /\ MarkInv'
<1>1. /\ len \in Nat /\ tries \in Nat /\ fired \subseteq 1..tries
      /\ firstChunk \in Nat /\ chunkCount \in Nat \ {0} /\ widest \in Nat
      /\ firstChunk + chunkCount = tries + (IF fired = {} THEN 1 ELSE 0)
  BY DEF LoopInv, InLoop
<1>2. fired' \subseteq 1..tries'
  BY <1>1
<1>3. firstChunk' + chunkCount' = tries' + (IF fired' = {} THEN 1 ELSE 0)
  BY <1>1
<1>4. LoopInv'
  BY <1>1, <1>2, <1>3 DEF LoopInv
<1>5. MarkInv'
  BY DEF MarkInv, InLoop, Boundary
<1> QED
  BY <1>4, <1>5

\* A step in which it does.
LEMMA FiredTry ==
    ASSUME LoopInv, MarkInv, stage = "loop", InLoop', tries' = tries + 1,
           stage' = "ended" => tries' > MinTries, len' = len,
           markers' = Marked, widest' = Widest,
           templateIdx' = IF tries' > 1 THEN templateIdx + 1 ELSE templateIdx,
           firstChunk' = tries' - 1, chunkCount' = 1, fired' = fired \cup {tries'}
    PROVE  LoopInv' /\ MarkInv'
<1>1. /\ len \in Nat /\ tries \in Nat /\ fired \subseteq 1..tries
      /\ firstChunk \in Nat /\ chunkCount \in Nat \ {0} /\ widest \in Nat
      /\ firstChunk + chunkCount = tries + (IF fired = {} THEN 1 ELSE 0)
  BY DEF LoopInv, InLoop
<1>2. fired' \subseteq 1..tries' /\ fired' # {}
  BY <1>1
<1>3. widest' \in Nat /\ widest <= widest' /\ chunkCount <= widest'
  BY <1>1 DEF Widest
<1>4. firstChunk' + chunkCount' = tries' + (IF fired' = {} THEN 1 ELSE 0)
  BY <1>1, <1>2
<1>5. LoopInv'
  BY <1>1, <1>2, <1>3, <1>4 DEF LoopInv
<1>6. ASSUME widest' < CountBase PROVE MarkInv'
  <2>1. widest < CountBase /\ chunkCount \in 1..(CountBase - 1)
    BY <1>1, <1>3, <1>6, StageAssumption
  <2>2. /\ markers \in Seq(Nat) /\ templateIdx \in Nat
        /\ Len(markers) = templateIdx + (IF fired = {1} THEN 1 ELSE 0)
        /\ \A i \in 1..templateIdx : markers[i] % CountBase # 0
        /\ {Boundary(markers[i]) : i \in 1..templateIdx} = Starts(fired)
    BY <2>1 DEF MarkInv, InLoop
  <2>3. /\ Mark(firstChunk, chunkCount) \in Nat
        /\ Boundary(Mark(firstChunk, chunkCount)) = firstChunk + chunkCount
        /\ Mark(firstChunk, chunkCount) % CountBase # 0
    BY <1>1, <2>1, MarkType, BoundaryIs
  <2>4. Len(markers) \in {templateIdx, templateIdx + 1}
    BY <2>2
  <2>5. /\ markers' \in Seq(Nat) /\ Len(markers') = templateIdx + 1
        /\ markers'[templateIdx + 1] = Mark(firstChunk, chunkCount)
        /\ \A i \in 1..templateIdx : markers'[i] = markers[i]
    BY <2>2, <2>3, <2>4, MarkedIs
  <2>6. {Boundary(markers'[i]) : i \in 1..templateIdx} = Starts(fired)
    BY <2>2, <2>5
  <2>7. CASE tries = 0
    <3>0. tries' = 1 /\ 1..tries = {}
      BY <2>7
    <3>1. fired = {} /\ fired' = {1} /\ templateIdx' = templateIdx
      <4>1. fired = {}
        BY <1>1, <3>0
      <4>2. fired' = {1}
        BY <3>0, <4>1
      <4>3. templateIdx' = templateIdx
        BY <3>0
      <4> QED
        BY <4>1, <4>2, <4>3
    <3>2. Starts(fired) = {} /\ Starts(fired') = {}
      BY <3>1, StartsOfFirst DEF Starts
    <3>3. \A i \in 1..templateIdx' : markers'[i] % CountBase # 0
      BY <2>2, <2>5, <3>1
    <3>4. {Boundary(markers'[i]) : i \in 1..templateIdx'} = Starts(fired')
      BY <2>6, <3>1, <3>2
    <3>5. Len(markers') = templateIdx' + (IF fired' = {1} THEN 1 ELSE 0)
      BY <2>5, <3>1
    <3> QED
      BY <2>2, <2>5, <3>1, <3>3, <3>4, <3>5 DEF MarkInv, Boundary
  <2>8. CASE tries > 0
    <3>1. templateIdx' = templateIdx + 1 /\ tries' > 1 /\ fired' # {1} /\ tries' \in Nat
      BY <1>1, <2>8
    <3>2. Starts(fired') = Starts(fired) \cup {IF fired = {} THEN tries' ELSE tries' - 1}
      <4>1. fired \subseteq 1..(tries' - 1)
        BY <1>1
      <4> QED
        BY <3>1, <4>1, StartsGrow
    <3>3. firstChunk + chunkCount = IF fired = {} THEN tries' ELSE tries' - 1
      BY <1>1
    <3>4. \A i \in 1..templateIdx' : i \in 1..templateIdx \/ i = templateIdx + 1
      BY <2>2, <3>1
    <3>5. \A i \in 1..templateIdx' : markers'[i] % CountBase # 0
      BY <2>2, <2>3, <2>5, <3>4
    <3>6. {Boundary(markers'[i]) : i \in 1..templateIdx'}
            = {Boundary(markers'[i]) : i \in 1..templateIdx}
                \cup {Boundary(markers'[templateIdx + 1])}
      <4>1. 1..templateIdx' = 1..templateIdx \cup {templateIdx + 1}
        BY <2>2, <3>1
      <4> QED
        BY <4>1
    <3>7. {Boundary(markers'[i]) : i \in 1..templateIdx'} = Starts(fired')
      BY <2>3, <2>5, <2>6, <3>2, <3>3, <3>6
    <3>8. Len(markers') = templateIdx' + (IF fired' = {1} THEN 1 ELSE 0)
      BY <2>2, <2>5, <3>1
    <3>9. markers' \in Seq(Nat) /\ templateIdx' \in Nat
      BY <2>2, <2>5, <3>1
    <3>10. {Boundary(markers[i]) : i \in 1..templateIdx}' = Starts(fired)'
      BY <3>7 DEF Boundary, Starts, StartOf
    <3>11. (\A i \in 1..templateIdx : markers[i] % CountBase # 0)'
      BY <3>5
    <3> QED
      BY <3>8, <3>9, <3>10, <3>11 DEF MarkInv
  <2> QED
    BY <1>1, <2>7, <2>8
<1>7. MarkInv'
  BY <1>6 DEF MarkInv
<1> QED
  BY <1>5, <1>7

\* The marker written after the loop ends beyond the data, so the flags are the starts
\* that lie in it.
LEMMA EndedRight == ASSUME LoopInv, MarkInv, EndLoop PROVE LoopInv' /\ FlagsFollowTemplates'
<1>1. PICK tail \in 0..(Dropped * Width - 1) : len' = (tries - Dropped) * Width + tail
  BY DEF EndLoop
<1>2. /\ stage = "ended" /\ stage' = "streamed" /\ markers' = Marked /\ widest' = Widest
      /\ fired' = fired
  BY DEF EndLoop
<1>3. /\ tries \in Nat /\ fired \subseteq 1..tries /\ tries > MinTries
      /\ firstChunk \in Nat /\ chunkCount \in Nat \ {0} /\ widest \in Nat
      /\ firstChunk + chunkCount = tries + (IF fired = {} THEN 1 ELSE 0)
  BY <1>2 DEF LoopInv, InLoop
<1>4. Width \in Nat /\ Width > 0 /\ Dropped \in Nat /\ Dropped < tries
  BY <1>3, StageAssumption
<1>5. len' \in Nat /\ len' < tries * Width
  <2> DEFINE x == (tries - Dropped) * Width
             y == Dropped * Width
  <2>1. x \in Nat /\ y \in Nat /\ x + y = tries * Width
    BY <1>4, <1>3
  <2>2. tail \in 0..(y - 1) /\ len' = x + tail
    BY <1>1
  <2> HIDE DEF x, y
  <2> QED
    BY <2>1, <2>2
<1>6. LoopInv'
  BY <1>2, <1>5 DEF LoopInv, InLoop
<1> DEFINE room == len' \div Width
<1>7. room \in Nat /\ room < tries
  BY <1>3, <1>4, <1>5, DivLess
<1>8. ASSUME widest' < CountBase PROVE FlagsFollowTemplates'
  <2>1. widest < CountBase /\ chunkCount \in 1..(CountBase - 1)
    BY <1>2, <1>3, <1>8, StageAssumption DEF Widest
  <2>2. /\ markers \in Seq(Nat) /\ templateIdx \in Nat
        /\ Len(markers) = templateIdx + (IF fired = {1} THEN 1 ELSE 0)
        /\ \A i \in 1..templateIdx : markers[i] % CountBase # 0
        /\ {Boundary(markers[i]) : i \in 1..templateIdx} = Starts(fired)
    BY <1>2, <2>1 DEF MarkInv, InLoop
  <2>3. /\ Mark(firstChunk, chunkCount) \in Nat
        /\ Boundary(Mark(firstChunk, chunkCount)) = firstChunk + chunkCount
    BY <1>3, <2>1, MarkType, BoundaryIs
  <2>4. Len(markers) \in {templateIdx, templateIdx + 1}
    BY <2>2
  <2>5. /\ DOMAIN markers' = 1..(templateIdx + 1)
        /\ markers'[templateIdx + 1] = Mark(firstChunk, chunkCount)
        /\ \A i \in 1..templateIdx : markers'[i] = markers[i]
    BY <1>2, <2>2, <2>3, <2>4, MarkedIs
  <2>6. ~(Boundary(markers'[templateIdx + 1]) <= room)
    BY <1>3, <1>7, <2>3, <2>5
  <2>7. DOMAIN markers' = 1..templateIdx \cup {templateIdx + 1}
    BY <2>2, <2>5
  <2>8. {j \in DOMAIN markers' : markers'[j] % CountBase # 0 /\ Boundary(markers'[j]) <= room}
          = {j \in 1..templateIdx : Boundary(markers[j]) <= room}
    <3> HIDE DEF room
    <3> QED
      BY <2>2, <2>5, <2>6, <2>7
  <2>9. {Boundary(markers'[i]) : i \in {j \in 1..templateIdx : Boundary(markers[j]) <= room}}
          = {g \in Starts(fired) : g <= room}
    <3> HIDE DEF room
    <3> QED
      BY <2>2, <2>5
  <2>10. buildStage5Flags(markers', len') = {0} \cup {g \in Starts(fired) : g <= room}
    BY <2>8, <2>9 DEF buildStage5Flags, Boundary
  <2>11. 0 \notin Starts(fired)
    BY <1>3, StartsType
  <2>12. buildStage5Flags(markers', len') \ {0} = {g \in Starts(fired) : g <= room}
    BY <2>10, <2>11
  <2>13. TemplateStarts' = Starts(fired)
    BY <1>2 DEF TemplateStarts, Starts, StartOf
  <2>14. buildStage5Flags(markers, len)' = buildStage5Flags(markers', len')
    BY DEF buildStage5Flags
  <2> QED
    BY <2>12, <2>13, <2>14 DEF FlagsFollowTemplates
<1>9. FlagsFollowTemplates'
  BY <1>8 DEF FlagsFollowTemplates
<1> QED
  BY <1>6, <1>9

\* Every try, the end of the loop and what follows keep the invariant.
LEMMA FlagStep == FlagInv /\ [Next]_vars => FlagInv'
<1> SUFFICES ASSUME FlagInv, [Next]_vars PROVE FlagInv'
  OBVIOUS
<1>1. CASE Try
  <2>1. /\ stage = "loop" /\ tries' = tries + 1 /\ len' = len /\ LoopInv /\ MarkInv
    BY <1>1 DEF Try, FlagInv
  <2>2. InLoop' /\ (stage' = "ended" => tries' > MinTries) /\ stage' # "streamed"
    <3>1. PICK high \in BOOLEAN :
             stage' = IF MayEnd(tries', high) THEN "ended" ELSE "loop"
      BY <1>1 DEF Try
    <3>2. tries' \in Nat
      BY <2>1 DEF LoopInv, InLoop
    <3>3. MayEnd(tries', high) => tries' > MinTries
      BY <3>2, StageAssumption DEF MayEnd
    <3> QED
      BY <3>1, <3>3 DEF InLoop
  <2>3. LoopInv' /\ MarkInv'
    BY <1>1, <2>1, <2>2, QuietTry, FiredTry DEF Try
  <2> QED
    BY <2>2, <2>3 DEF FlagInv, FlagsFollowTemplates
<1>2. CASE EndLoop
  <2>1. LoopInv' /\ FlagsFollowTemplates' /\ ~InLoop'
    BY <1>2, EndedRight DEF FlagInv, EndLoop, InLoop
  <2> QED
    BY <2>1 DEF FlagInv, MarkInv
<1>3. CASE len' = len /\ stage' \notin {"loop", "ended", "streamed"}
  <2>1. ~InLoop'
    BY <1>3 DEF InLoop
  <2> QED
    BY <1>3, <2>1 DEF FlagInv, LoopInv, MarkInv, FlagsFollowTemplates
<1>4. CASE Prepare
  BY <1>3, <1>4 DEF Prepare
<1>5. CASE EmitRun
  BY <1>3, <1>5 DEF EmitRun
<1>6. CASE EmitTailAndSort \/ WriteKey \/ Written
  BY <1>3, <1>6 DEF EmitTailAndSort, WriteKey, Written
<1>7. CASE SortBySAIS \/ HashPair
  BY <1>3, <1>7 DEF SortBySAIS, HashPair
<1>8. CASE UNCHANGED vars
  <2>1. UNCHANGED <<stage, tries, markers, templateIdx, firstChunk, chunkCount, fired,
                    widest, len>>
    BY <1>8 DEF vars, loopVars
  <2>2. LoopInv'
    BY <2>1 DEF FlagInv, LoopInv, InLoop
  <2>3. MarkInv'
    BY <2>1 DEF FlagInv, MarkInv, InLoop, Boundary
  <2>4. FlagsFollowTemplates'
    BY <2>1 DEF FlagInv, FlagsFollowTemplates, buildStage5Flags, TemplateStarts
  <2> QED
    BY <2>2, <2>3, <2>4 DEF FlagInv
<1> QED
  BY <1>1, <1>2, <1>4, <1>5, <1>6, <1>7, <1>8 DEF Next

\* However many tries the loop takes and wherever RC4 fires, the flags the suffix sort
\* reads from the markers are the groups in which templates start.
THEOREM FlagsAreTemplates == Spec => []FlagsFollowTemplates
<1>1. FlagInv => FlagsFollowTemplates
  BY DEF FlagInv
<1> QED
  BY FlagInit, FlagStep, <1>1, PTL DEF Spec

-----------------------------------------------------------------------------
(* The two-way digest.                                                     *)

BlocksOf(length) == length \div BlockSize

\* The blocks of a message do not depend on how many the lanes shared.
LEMMA BlocksJoin ==
    ASSUME NEW lane, NEW s \in Nat, NEW k \in Nat
    PROVE  Blocks(lane, 0, s) \o Blocks(lane, s, k) = Blocks(lane, 0, s + k)
<1> DEFINE B(c) == [i \in 0..(BlockSize - 1) |-> <<lane, c * BlockSize + i>>]
           V == {B(c) : c \in Nat}
           f == [c \in Nat |-> B(c)]
<1>1. f \in [Nat -> V]
  OBVIOUS
<1> HIDE DEF B
<1>2. [b \in 1..s |-> f[b - 1]] \o [b \in 1..k |-> f[s + b - 1]]
        = [b \in 1..(s + k) |-> f[b - 1]]
  <2> HIDE DEF f, V
  <2> QED
    BY <1>1, JoinIs
<1>3. \A n \in Nat : [b \in 1..n |-> f[b - 1]] = Blocks(lane, 0, n)
  <2> SUFFICES ASSUME NEW n \in Nat PROVE [b \in 1..n |-> f[b - 1]] = Blocks(lane, 0, n)
    OBVIOUS
  <2>1. \A b \in 1..n : b - 1 \in Nat /\ 0 + b - 1 = b - 1
    OBVIOUS
  <2>2. [b \in 1..n |-> f[b - 1]] = [b \in 1..n |-> B(0 + b - 1)]
    BY <2>1
  <2> QED
    BY <2>2 DEF Blocks, B
<1>4. [b \in 1..k |-> f[s + b - 1]] = Blocks(lane, s, k)
  <2>1. \A b \in 1..k : s + b - 1 \in Nat
    OBVIOUS
  <2>2. [b \in 1..k |-> f[s + b - 1]] = [b \in 1..k |-> B(s + b - 1)]
    BY <2>1
  <2> QED
    BY <2>2 DEF Blocks, B
<1>5. s + k \in Nat
  OBVIOUS
<1> HIDE DEF f
<1> QED
  BY <1>2, <1>3, <1>4, <1>5

\* A lane's blocks with its tail are the padded message.
LEMMA LaneIs ==
    ASSUME NEW lane, NEW length \in Nat
    PROVE  sha256Finish(Blocks(lane, 0, BlocksOf(length)), lane, length,
                        BlocksOf(length) * BlockSize) = Standard(lane, length)
<1> DEFINE size == BlockSize
           q    == BlocksOf(length)
           full == q * size
           rem  == length - full
           T    == TailBlocks(rem)
           n    == q + T
           end  == length + 1 + LengthSize
<1>1. size \in Nat /\ size > 0 /\ LengthSize \in Nat /\ LengthSize > 0 /\ LengthSize < size
  BY BlockAssumption
<1>2. q \in Nat /\ full \in Nat /\ rem \in 0..(size - 1)
  <2>1. /\ q \in Nat /\ size * q \in Nat /\ length % size \in 0..(size - 1)
        /\ length % size = length - size * q
    BY <1>1, DivMod DEF BlocksOf
  <2>2. size * q = full
    BY <1>1, <2>1
  <2> HIDE DEF q, size, full
  <2> QED
    BY <2>1, <2>2
<1>3. /\ T = 1 \/ T = 2
      /\ T = 1 => rem + 1 + LengthSize <= size
      /\ T = 2 => rem + 1 + LengthSize > size /\ rem + 1 + LengthSize <= size + size
  <2> HIDE DEF rem
  <2> QED
    BY <1>1, <1>2 DEF TailBlocks
<1> HIDE DEF T, q
<1>4. n * size = full + T * size /\ (n - 1) * size = full + (T - 1) * size
  BY <1>1, <1>2, <1>3
<1>5. T * size >= rem + 1 + LengthSize /\ (T - 1) * size < rem + 1 + LengthSize
  <2> HIDE DEF rem
  <2>1. CASE T = 1
    BY <1>1, <1>2, <1>3, <2>1
  <2>2. CASE T = 2
    BY <1>1, <1>2, <1>3, <2>2
  <2> QED
    BY <1>3, <2>1, <2>2
<1>6. n * size >= end /\ (n - 1) * size < end
  <2> DEFINE a == T * size
             c == (T - 1) * size
             u == n * size
             v == (n - 1) * size
  <2>1. a \in Nat /\ c \in Nat
    BY <1>1, <1>3
  <2>2. u = full + a /\ v = full + c /\ a >= rem + 1 + LengthSize /\ c < rem + 1 + LengthSize
    BY <1>4, <1>5
  <2> HIDE DEF a, c, u, v, full
  <2>3. u >= end /\ v < end
    BY <1>1, <1>2, <2>1, <2>2
  <2> QED
    BY <2>3 DEF u, v
<1>7. n \in 1..(length + 2)
  <2>1. length < (length + 1) * size
    <3>1. (length + 1) * size >= (length + 1) * 1
      BY <1>1
    <3> DEFINE w == (length + 1) * size
    <3>2. w >= length + 1 /\ w \in Nat
      BY <1>1, <3>1
    <3> HIDE DEF w
    <3> QED
      BY <3>2 DEF w
  <2>2. q < length + 1
    BY <1>1, <2>1, DivLess DEF q, BlocksOf
  <2> QED
    BY <1>2, <1>3, <2>2
<1>8. \A k \in 1..(length + 2) : k * size >= end /\ (k - 1) * size < end => k = n
  <2> SUFFICES ASSUME NEW k \in 1..(length + 2), k * size >= end, (k - 1) * size < end
               PROVE  k = n
    OBVIOUS
  <2> HIDE DEF n, size, end
  <2>1. k \in Nat /\ n \in Nat /\ end \in Nat
    BY <1>1, <1>7 DEF end
  <2>2. k > n => (k - 1) * size >= n * size
    BY <1>1, <2>1
  <2>3. n > k => (n - 1) * size >= k * size
    BY <1>1, <2>1
  <2> DEFINE a == k * size
             c == (k - 1) * size
             u == n * size
             v == (n - 1) * size
  <2>4. a \in Int /\ c \in Int /\ u \in Int /\ v \in Int
    BY <1>1, <2>1
  <2>5. a >= end /\ c < end /\ u >= end /\ v < end /\ (k > n => c >= u) /\ (n > k => v >= a)
    BY <1>6, <2>2, <2>3
  <2> HIDE DEF a, c, u, v
  <2> QED
    BY <2>1, <2>4, <2>5
<1> DEFINE byte(k, p) == CASE p < length                 -> <<lane, p>>
                           [] p = length                 -> <<"end", 0>>
                           [] p >= k * BlockSize - LengthSize -> <<"length", length>>
                           [] OTHER                      -> <<"zero", 0>>
           padded(k) == [b \in 1..k |-> [i \in 0..(BlockSize - 1) |->
                                            byte(k, (b - 1) * BlockSize + i)]]
<1>9. Standard(lane, length) = padded(n)
  <2> DEFINE Fits(k) == /\ k * BlockSize >= length + 1 + LengthSize
                        /\ (k - 1) * BlockSize < length + 1 + LengthSize
             m == CHOOSE k \in 1..(length + 2) : Fits(k)
  <2>1. m = n
    <3>1. \A k \in 1..(length + 2) : Fits(k) <=> k = n
      BY <1>6, <1>8
    <3> HIDE DEF Fits, n
    <3> QED
      BY <1>7, <3>1
  <2>2. Standard(lane, length) = padded(m)
    BY DEF Standard
  <2> HIDE DEF m, n, padded
  <2> QED
    BY <2>1, <2>2
<1> DEFINE last == T * size
           tail(j) == CASE j < rem               -> <<lane, full + j>>
                        [] j = rem               -> <<"end", 0>>
                        [] j >= last - LengthSize -> <<"length", length>>
                        [] OTHER                 -> <<"zero", 0>>
           block(c) == [i \in 0..(size - 1) |-> byte(n, c * size + i)]
\* A byte of the tail is the byte of the padded message full places further on.
<1>10. \A j \in Nat : tail(j) = byte(n, full + j)
  <2> SUFFICES ASSUME NEW j \in Nat PROVE tail(j) = byte(n, full + j)
    OBVIOUS
  <2> DEFINE u == n * size
  <2>1. u = full + last /\ last \in Nat /\ rem < last - LengthSize
    <3>1. last \in Nat
      BY <1>1, <1>3
    <3>2. rem < last - LengthSize
      <4> HIDE DEF rem, last
      <4> QED
        BY <1>1, <1>2, <1>5, <3>1 DEF last
    <3> QED
      BY <1>4, <3>1, <3>2
  <2> HIDE DEF u, last, full
  <2>2. /\ j < rem <=> full + j < length
        /\ j = rem <=> full + j = length
        /\ j >= last - LengthSize <=> full + j >= u - LengthSize
    BY <1>1, <1>2, <2>1
  <2>3. byte(n, full + j) = CASE full + j < length          -> <<lane, full + j>>
                              [] full + j = length          -> <<"end", 0>>
                              [] full + j >= u - LengthSize -> <<"length", length>>
                              [] OTHER                      -> <<"zero", 0>>
    BY DEF u
  <2> HIDE DEF rem, byte
  <2> QED
    BY <2>2, <2>3
<1>11. \A c \in Nat, i \in 0..(size - 1) : c < q => byte(n, c * size + i) = <<lane, c * size + i>>
  <2> SUFFICES ASSUME NEW c \in Nat, NEW i \in 0..(size - 1), c < q
               PROVE  byte(n, c * size + i) = <<lane, c * size + i>>
    OBVIOUS
  <2> HIDE DEF size
  <2>1. (c + 1) * size <= full /\ (c + 1) * size = c * size + size
    BY <1>1, <1>2
  <2>2. c * size + i < length
    <3> DEFINE v == c * size
    <3>1. v \in Nat /\ v + size <= full
      BY <1>1, <2>1
    <3> HIDE DEF v, full
    <3>2. v + i < length
      BY <1>1, <1>2, <3>1
    <3> QED
      BY <3>2 DEF v
  <2> DEFINE p == c * size + i
  <2>3. p < length /\ p # length /\ ~(p >= n * BlockSize - LengthSize)
    <3> DEFINE u == n * BlockSize
    <3>1. u >= length + 1 + LengthSize /\ u \in Int
      BY <1>1, <1>2, <1>3, <1>6 DEF size
    <3>2. p \in Int /\ p < length
      BY <1>1, <2>2
    <3> HIDE DEF u, p
    <3>3. p < length /\ p # length /\ ~(p >= u - LengthSize)
      BY <1>1, <3>1, <3>2
    <3> QED
      BY <3>3 DEF u
  <2> HIDE DEF p, n
  <2>4. byte(n, p) = <<lane, p>>
    BY <2>3
  <2> QED
    BY <2>4 DEF p
<1>12. sha256Finish(Blocks(lane, 0, q), lane, length, full)
         = [b \in 1..q |-> block(b - 1)] \o [b \in 1..T |-> block(q + b - 1)]
  <2> DEFINE whole == [j \in 0..(last - 1) |-> tail(j)]
             y == [b \in 1..T |-> [i \in 0..(size - 1) |-> whole[(b - 1) * size + i]]]
  <2>1. sha256Finish(Blocks(lane, 0, q), lane, length, full) = Blocks(lane, 0, q) \o y
    BY DEF sha256Finish, T
  <2>2. Blocks(lane, 0, q) = [b \in 1..q |-> block(b - 1)]
    <3> HIDE DEF byte, n
    <3>1. \A b \in 1..q : b - 1 \in Nat /\ b - 1 < q /\ 0 + b - 1 = b - 1
      BY <1>2
    <3>2. \A b \in 1..q : block(b - 1)
                           = [i \in 0..(size - 1) |-> <<lane, (0 + b - 1) * size + i>>]
      BY <1>11, <3>1
    <3> HIDE DEF block
    <3> QED
      BY <3>2 DEF Blocks
  <2>3. y = [b \in 1..T |-> block(q + b - 1)]
    <3>1. \A b \in 1..T, i \in 0..(size - 1) :
             whole[(b - 1) * size + i] = byte(n, (q + b - 1) * size + i)
      <4> SUFFICES ASSUME NEW b \in 1..T, NEW i \in 0..(size - 1)
                   PROVE  whole[(b - 1) * size + i] = byte(n, (q + b - 1) * size + i)
        OBVIOUS
      <4> DEFINE c == b - 1
                 v == c * size
      <4>1. c \in Nat /\ c + 1 <= T
        BY <1>3
      <4>2. (c + 1) * size <= last /\ (c + 1) * size = v + size /\ v \in Nat /\ last \in Nat
        BY <1>1, <1>3, <4>1
      <4>3. (q + b - 1) * size = full + v
        BY <1>1, <1>2, <4>1
      <4>4. v + i \in 0..(last - 1) /\ (q + b - 1) * size + i = full + (v + i)
        <5> DEFINE w == (q + b - 1) * size
                   x == (c + 1) * size
        <5>1. w = full + v /\ x <= last /\ x = v + size /\ v \in Nat /\ last \in Nat
          BY <4>2, <4>3
        <5> HIDE DEF v, last, full, w, x
        <5>2. v + i \in 0..(last - 1) /\ w + i = full + (v + i)
          BY <1>1, <1>2, <5>1
        <5> QED
          BY <5>2 DEF w
      <4> HIDE DEF v, full, tail, byte, n, last
      <4>5. v + i \in Nat /\ whole[v + i] = tail(v + i)
        BY <4>4
      <4> HIDE DEF whole
      <4>6. tail(v + i) = byte(n, (q + b - 1) * size + i)
        BY <1>10, <4>4, <4>5
      <4> QED
        BY <4>5, <4>6 DEF v
    <3> HIDE DEF whole, byte, n
    <3>2. \A b \in 1..T : [i \in 0..(size - 1) |-> whole[(b - 1) * size + i]] = block(q + b - 1)
      BY <3>1
    <3> HIDE DEF block
    <3> QED
      BY <3>2
  <2> QED
    BY <2>1, <2>2, <2>3
<1>13. [b \in 1..q |-> block(b - 1)] \o [b \in 1..T |-> block(q + b - 1)]
         = [b \in 1..n |-> block(b - 1)]
  <2> DEFINE V == {block(c) : c \in Nat}
             f == [c \in Nat |-> block(c)]
  <2> HIDE DEF block
  <2>1. f \in [Nat -> V] /\ T \in Nat
    BY <1>3
  <2>2. [b \in 1..q |-> f[b - 1]] \o [b \in 1..T |-> f[q + b - 1]] = [b \in 1..n |-> f[b - 1]]
    <3> HIDE DEF f, V
    <3> QED
      BY <1>2, <2>1, JoinIs
  <2>3. /\ \A b \in 1..q : b - 1 \in Nat
        /\ \A b \in 1..T : q + b - 1 \in Nat
        /\ \A b \in 1..n : b - 1 \in Nat
    BY <1>2, <1>3
  <2>4. /\ [b \in 1..q |-> f[b - 1]] = [b \in 1..q |-> block(b - 1)]
        /\ [b \in 1..T |-> f[q + b - 1]] = [b \in 1..T |-> block(q + b - 1)]
        /\ [b \in 1..n |-> f[b - 1]] = [b \in 1..n |-> block(b - 1)]
    BY <2>3
  <2> QED
    BY <2>2, <2>4
<1>14. padded(n) = [b \in 1..n |-> block(b - 1)]
  OBVIOUS
<1> QED
  BY <1>9, <1>12, <1>13, <1>14 DEF q

\* The two-way digest takes in, for each lane, the blocks of the lane's own padded
\* message, whatever the two lengths are.
THEOREM PairDigests ==
    ASSUME NEW la \in Nat, NEW lb \in Nat
    PROVE  sha256Sum256Pair(la, lb) = <<Standard("a", la), Standard("b", lb)>>
<1> DEFINE na == la \div BlockSize
           nb == lb \div BlockSize
           shared == IF na < nb THEN na ELSE nb
<1>1. na \in Nat /\ nb \in Nat
  BY BlockAssumption, DivMod
<1>2. /\ shared \in Nat /\ na - shared \in Nat /\ nb - shared \in Nat
      /\ shared + (na - shared) = na /\ shared + (nb - shared) = nb
  <2> HIDE DEF na, nb
  <2> QED
    BY <1>1
<1> DEFINE st0 == Blocks("a", 0, shared) \o Blocks("a", shared, na - shared)
           st1 == Blocks("b", 0, shared) \o Blocks("b", shared, nb - shared)
<1>3. sha256Sum256Pair(la, lb) = <<sha256Finish(st0, "a", la, na * BlockSize),
                                   sha256Finish(st1, "b", lb, nb * BlockSize)>>
  BY DEF sha256Sum256Pair
<1>4. st0 = Blocks("a", 0, na)
  <2> HIDE DEF shared, na, nb
  <2>1. Blocks("a", 0, shared) \o Blocks("a", shared, na - shared)
          = Blocks("a", 0, shared + (na - shared))
    BY <1>2, BlocksJoin
  <2> QED
    BY <1>2, <2>1
<1>5. st1 = Blocks("b", 0, nb)
  <2> HIDE DEF shared, na, nb
  <2>1. Blocks("b", 0, shared) \o Blocks("b", shared, nb - shared)
          = Blocks("b", 0, shared + (nb - shared))
    BY <1>2, BlocksJoin
  <2> QED
    BY <1>2, <2>1
<1>6. sha256Finish(st0, "a", la, na * BlockSize) = Standard("a", la)
  BY <1>4, LaneIs DEF BlocksOf
<1>7. sha256Finish(st1, "b", lb, nb * BlockSize) = Standard("b", lb)
  BY <1>5, LaneIs DEF BlocksOf
<1> QED
  BY <1>3, <1>6, <1>7

\* Nothing is digested yet.
LEMMA PairInit == Init => PairIsTwoDigests
  BY DEF Init, LoopStart, PairIsTwoDigests

\* A pair is digested in one step, from the lengths of its two halves.
LEMMA PairStep == LoopInv /\ PairIsTwoDigests /\ [Next]_vars => PairIsTwoDigests'
<1> SUFFICES ASSUME LoopInv, PairIsTwoDigests, [Next]_vars PROVE PairIsTwoDigests'
  OBVIOUS
<1>1. CASE HashPair
  <2>1. PICK lb \in PairLengths : digests' = sha256Sum256Pair(4 * len, 4 * lb)
    BY <1>1 DEF HashPair
  <2>2. 4 * len \in Nat /\ 4 * lb \in Nat
    BY PairAssumption DEF LoopInv
  <2>3. digests' = <<Standard("a", 4 * len), Standard("b", 4 * lb)>>
    BY <2>1, <2>2, PairDigests
  <2>4. len' = len
    BY <1>1 DEF HashPair
  <2> QED
    BY <2>3, <2>4 DEF PairIsTwoDigests
<1>2. CASE stage' # "hashed"
  BY <1>2 DEF PairIsTwoDigests
<1>3. CASE Try \/ EndLoop \/ Prepare \/ EmitRun
  BY <1>2, <1>3 DEF Try, EndLoop, Prepare, EmitRun
<1>4. CASE EmitTailAndSort \/ WriteKey \/ Written \/ SortBySAIS
  BY <1>2, <1>4 DEF EmitTailAndSort, WriteKey, Written, SortBySAIS
<1>5. CASE UNCHANGED vars
  <2>1. UNCHANGED <<stage, len, digests>>
    BY <1>5 DEF vars
  <2> QED
    BY <2>1 DEF PairIsTwoDigests
<1> QED
  BY <1>1, <1>3, <1>4, <1>5 DEF Next

\* Whatever the lengths of the two lanes' data, the digests of a pair are those of the
\* two messages.
THEOREM PairsAreDigested == Spec => []PairIsTwoDigests
<1>1. FlagInv => LoopInv
  BY DEF FlagInv
<1> QED
  BY FlagInit, FlagStep, PairInit, PairStep, <1>1, PTL DEF Spec

-----------------------------------------------------------------------------
(* The order of the suffixes.                                              *)

\* The bytes, and the zeros a key can reach behind them.
DataOK ==
    /\ len \in Nat
    /\ data \in [0..(len + 3) -> Nat]
    /\ \A p \in len..(len + 3) : data[p] = 0

\* The end of the data is less than any byte.
At(p) == IF p < len THEN data[p] ELSE -1

\* At the first difference, the suffix at a has the lesser byte or the end.
Before(a, b) ==
    \E i \in Nat : /\ \A j \in 0..(i - 1) : At(a + j) = At(b + j)
                   /\ At(a + i) < At(b + i)

\* The bytes, and the end behind them.
LEMMA AtIs ==
    ASSUME DataOK
    PROVE  /\ \A p \in Nat : At(p) \in Int /\ At(p) >= -1
           /\ \A p \in Nat : p < len => At(p) = data[p] /\ At(p) >= 0
           /\ \A p \in Nat : p >= len => At(p) = -1
<1>1. \A p \in Nat : p < len => data[p] \in Nat
  BY DEF DataOK
<1> QED
  BY <1>1 DEF At, DataOK

\* What the comparison of two suffixes finds out.
LEMMA LessIs ==
    ASSUME DataOK, NEW a \in 0..len, NEW b \in 0..len
    PROVE  suffixLess(a, b) <=> Before(a, b)
<1> DEFINE m == Smaller(len - a, len - b)
           differ == {i \in 0..(m - 1) : data[a + i] # data[b + i]}
           first == CHOOSE i \in differ : \A j \in differ : i <= j
<1>0. len \in Nat /\ a \in Nat /\ b \in Nat /\ m \in Nat
  BY DEF DataOK, Smaller
<1>m. m <= len - a /\ m <= len - b /\ (m = len - a \/ m = len - b)
  BY <1>0 DEF Smaller
<1>1. suffixLess(a, b) <=> IF differ = {} THEN a > b ELSE data[a + first] < data[b + first]
  BY DEF suffixLess, LessFrom
<1>2. \A i \in 0..(m - 1) : /\ a + i \in Nat /\ b + i \in Nat
                            /\ At(a + i) = data[a + i] /\ At(b + i) = data[b + i]
  <2> HIDE DEF m
  <2>1. \A i \in 0..(m - 1) : a + i \in Nat /\ b + i \in Nat /\ a + i < len /\ b + i < len
    BY <1>0, <1>m
  <2> QED
    BY <2>1, AtIs
<1> HIDE DEF m
<1>3. CASE differ = {}
  <2>1. \A i \in 0..(m - 1) : At(a + i) = At(b + i)
    BY <1>2, <1>3
  <2>2. ASSUME a > b PROVE Before(a, b)
    <3>1. m = len - a /\ a + m = len /\ b + m < len /\ b + m \in Nat
      BY <1>0, <1>m, <2>2
    <3>2. At(a + m) = -1 /\ At(b + m) >= 0 /\ At(b + m) \in Int
      BY <1>0, <3>1, AtIs
    <3>3. At(a + m) < At(b + m)
      BY <3>2
    <3> QED
      BY <1>0, <2>1, <3>3 DEF Before
  <2>3. ASSUME ~(a > b), Before(a, b) PROVE FALSE
    <3>1. PICK i \in Nat : /\ \A j \in 0..(i - 1) : At(a + j) = At(b + j)
                           /\ At(a + i) < At(b + i)
      BY <2>3 DEF Before
    <3>2. At(a + i) \in Int /\ At(b + i) \in Int
      BY <1>0, AtIs
    <3>3. i >= m
      BY <1>0, <2>1, <3>1, <3>2
    <3>4. m = len - b /\ b + m = len /\ b + i >= len
      BY <1>0, <1>m, <2>3, <3>3
    <3>5. At(b + i) = -1 /\ At(a + i) >= -1
      BY <1>0, <3>4, AtIs
    <3> QED
      BY <3>1, <3>2, <3>5
  <2> QED
    BY <1>1, <1>3, <2>2, <2>3
<1>4. CASE differ # {}
  <2>1. PICK f \in differ : \A j \in differ : f <= j
    <3>1. differ \in SUBSET Nat
      BY <1>0
    <3> HIDE DEF differ
    <3> QED
      BY <1>4, <3>1, LeastNat
  <2>2. first = f
    <3>1. first \in differ /\ \A j \in differ : first <= j
      BY <2>1
    <3>2. differ \in SUBSET Nat
      BY <1>0
    <3> HIDE DEF differ, first
    <3> QED
      BY <2>1, <3>1, <3>2
  <2>3. /\ f \in 0..(m - 1) /\ f \in Nat
        /\ data[a + f] # data[b + f]
        /\ \A j \in 0..(f - 1) : At(a + j) = At(b + j)
    <3>1. f \in 0..(m - 1) /\ f \in Nat /\ data[a + f] # data[b + f]
      BY <1>0, <2>1
    <3>2. ASSUME NEW j \in 0..(f - 1) PROVE At(a + j) = At(b + j)
      <4>1. j \in 0..(m - 1) /\ ~(f <= j)
        BY <1>0, <3>1
      <4>2. j \notin differ
        BY <2>1, <4>1
      <4>3. data[a + j] = data[b + j]
        BY <4>1, <4>2
      <4> QED
        BY <1>2, <4>1, <4>3
    <3> QED
      BY <3>1, <3>2
  <2>4. At(a + f) = data[a + f] /\ At(b + f) = data[b + f]
    BY <1>2, <2>3
  <2>5. ASSUME data[a + f] < data[b + f] PROVE Before(a, b)
    BY <2>3, <2>4, <2>5 DEF Before
  <2>6. ASSUME Before(a, b) PROVE data[a + f] < data[b + f]
    <3>1. PICK i \in Nat : /\ \A j \in 0..(i - 1) : At(a + j) = At(b + j)
                           /\ At(a + i) < At(b + i)
      BY <2>6 DEF Before
    <3>2. At(a + i) \in Int /\ At(b + i) \in Int
      BY <1>0, AtIs
    <3>3. ~(f \in 0..(i - 1))
      BY <2>3, <2>4, <3>1
    <3>4. ~(i \in 0..(f - 1))
      BY <2>3, <3>1, <3>2
    <3>5. i = f
      BY <2>3, <3>3, <3>4
    <3> QED
      BY <2>4, <3>1, <3>5
  <2> HIDE DEF differ, first
  <2> QED
    BY <1>1, <1>4, <2>2, <2>5, <2>6
<1> QED
  BY <1>3, <1>4

\* Of two suffixes one comes first.
LEMMA SuffixesDiffer ==
    ASSUME DataOK, NEW a \in 0..len, NEW b \in 0..len, a # b
    PROVE  Before(a, b) \/ Before(b, a)
<1>0. len \in Nat /\ a \in Nat /\ b \in Nat
  BY DEF DataOK
<1> DEFINE D == {i \in Nat : At(a + i) # At(b + i)}
<1>1. D \in SUBSET Nat /\ D # {}
  <2>1. CASE a < b
    <3>1. len - b \in Nat /\ b + (len - b) = len /\ a + (len - b) < len /\ a + (len - b) \in Nat
      BY <1>0, <2>1
    <3>2. At(b + (len - b)) = -1
      BY <1>0, <3>1, AtIs
    <3>3. At(a + (len - b)) >= 0
      BY <1>0, <3>1, AtIs
    <3>4. len - b \in D
      BY <3>1, <3>2, <3>3
    <3> QED
      BY <3>4
  <2>2. CASE b < a
    <3>1. len - a \in Nat /\ a + (len - a) = len /\ b + (len - a) < len /\ b + (len - a) \in Nat
      BY <1>0, <2>2
    <3>2. At(a + (len - a)) = -1
      BY <1>0, <3>1, AtIs
    <3>3. At(b + (len - a)) >= 0
      BY <1>0, <3>1, AtIs
    <3>4. len - a \in D
      BY <3>1, <3>2, <3>3
    <3> QED
      BY <3>4
  <2> QED
    BY <1>0, <2>1, <2>2
<1>2. PICK i \in D : \A j \in D : i <= j
  <2> HIDE DEF D
  <2> QED
    BY <1>1, LeastNat
<1>3. i \in Nat /\ At(a + i) # At(b + i)
  OBVIOUS
<1>4. \A j \in 0..(i - 1) : At(a + j) = At(b + j)
  <2> TAKE j \in 0..(i - 1)
  <2>1. j \in Nat /\ ~(i <= j)
    BY <1>3
  <2> QED
    BY <1>2, <2>1
<1>5. At(a + i) \in Int /\ At(b + i) \in Int
  BY <1>0, <1>3, AtIs
<1>6. At(a + i) < At(b + i) \/ At(b + i) < At(a + i)
  BY <1>3, <1>5
<1> QED
  BY <1>3, <1>4, <1>6 DEF Before

\* The order of the suffixes is transitive.
LEMMA BeforeTwice ==
    ASSUME DataOK, NEW a \in 0..len, NEW b \in 0..len, NEW c \in 0..len,
           Before(a, b), Before(b, c)
    PROVE  Before(a, c)
<1>0. \A i \in Nat : At(a + i) \in Int /\ At(b + i) \in Int /\ At(c + i) \in Int
  <2>1. a \in Nat /\ b \in Nat /\ c \in Nat
    BY DEF DataOK
  <2>2. \A i \in Nat : a + i \in Nat /\ b + i \in Nat /\ c + i \in Nat
    BY <2>1
  <2> QED
    BY <2>2, AtIs
<1>1. PICK i \in Nat : /\ \A j \in 0..(i - 1) : At(a + j) = At(b + j)
                       /\ At(a + i) < At(b + i)
  BY DEF Before
<1>2. PICK k \in Nat : /\ \A j \in 0..(k - 1) : At(b + j) = At(c + j)
                       /\ At(b + k) < At(c + k)
  BY DEF Before
<1>3. CASE i < k
  <2>1. i \in 0..(k - 1)
    BY <1>3
  <2>2. At(a + i) < At(c + i)
    BY <1>1, <1>2, <2>1
  <2>3. \A j \in 0..(i - 1) : At(a + j) = At(c + j)
    <3> TAKE j \in 0..(i - 1)
    <3>1. j \in 0..(k - 1)
      BY <1>3
    <3> QED
      BY <1>1, <1>2, <3>1
  <2> QED
    BY <2>2, <2>3 DEF Before
<1>4. CASE k < i
  <2>1. k \in 0..(i - 1)
    BY <1>4
  <2>2. At(a + k) < At(c + k)
    BY <1>1, <1>2, <2>1
  <2>3. \A j \in 0..(k - 1) : At(a + j) = At(c + j)
    <3> TAKE j \in 0..(k - 1)
    <3>1. j \in 0..(i - 1)
      BY <1>4
    <3> QED
      BY <1>1, <1>2, <3>1
  <2> QED
    BY <2>2, <2>3 DEF Before
<1>5. CASE i = k
  <2>1. At(a + i) < At(c + i)
    BY <1>0, <1>1, <1>2, <1>5
  <2>2. \A j \in 0..(i - 1) : At(a + j) = At(c + j)
    BY <1>1, <1>2, <1>5
  <2> QED
    BY <2>1, <2>2 DEF Before
<1> QED
  BY <1>3, <1>4, <1>5

\* Of two suffixes, not both come first.
LEMMA BeforeOnce ==
    ASSUME DataOK, NEW a \in 0..len, NEW b \in 0..len, Before(a, b), Before(b, a)
    PROVE  FALSE
<1>0. \A i \in Nat : At(a + i) \in Int /\ At(b + i) \in Int
  BY SMTT(30), AtIs DEF DataOK
<1>1. PICK i \in Nat : /\ \A j \in 0..(i - 1) : At(a + j) = At(b + j)
                       /\ At(a + i) < At(b + i)
  BY DEF Before
<1>2. PICK k \in Nat : /\ \A j \in 0..(k - 1) : At(b + j) = At(a + j)
                       /\ At(b + k) < At(a + k)
  BY DEF Before
<1>3. ~(k \in 0..(i - 1)) /\ ~(i \in 0..(k - 1))
  BY <1>0, <1>1, <1>2
<1>4. i = k
  BY <1>3
<1> QED
  BY <1>0, <1>1, <1>2, <1>4

\* The suffixes are linearly ordered.
LEMMA SuffixesInOrder == ASSUME DataOK PROVE Linear(SuffixOrder, Pos)
<1>1. \A a, b \in Pos : <<a, b>> \in SuffixOrder <=> Before(a, b)
  <2>1. \A p \in Pos : p \in 0..len
    BY DEF Pos, DataOK
  <2>2. \A a, b \in Pos : suffixLess(a, b) <=> Before(a, b)
    BY <2>1, LessIs
  <2> QED
    BY <2>2 DEF SuffixOrder
<1>2. \A p \in Pos : p \in 0..len
  BY DEF Pos, DataOK
<1>3. \A a, b \in Pos : Before(a, b) => ~Before(b, a)
  BY <1>2, BeforeOnce
<1>4. \A a, b, c \in Pos : Before(a, b) /\ Before(b, c) => Before(a, c)
  BY <1>2, BeforeTwice
<1>5. \A a, b \in Pos : a # b => Before(a, b) \/ Before(b, a)
  BY <1>2, SuffixesDiffer
<1> QED
  BY <1>1, <1>3, <1>4, <1>5 DEF Linear

-----------------------------------------------------------------------------
(* Keys.                                                                   *)

\* A lesser first byte, or equal first bytes and a lesser rest.
LEMMA LessByByte ==
    ASSUME DataOK, NEW a \in Pos, NEW b \in Pos
    PROVE  suffixLess(a, b) <=>
              \/ data[a] < data[b]
              \/ data[a] = data[b] /\ suffixLess(a + 1, b + 1)
<1>0. /\ len \in Nat /\ a \in Nat /\ b \in Nat /\ a < len /\ b < len
      /\ a \in 0..len /\ b \in 0..len /\ a + 1 \in 0..len /\ b + 1 \in 0..len
  BY DEF DataOK, Pos
<1>1. At(a) = data[a] /\ At(b) = data[b] /\ At(a) \in Int /\ At(b) \in Int
  BY <1>0, AtIs
<1>2. /\ suffixLess(a, b) <=> Before(a, b)
      /\ suffixLess(a + 1, b + 1) <=> Before(a + 1, b + 1)
  BY <1>0, LessIs
<1>3. ASSUME Before(a, b) PROVE data[a] < data[b] \/ (data[a] = data[b] /\ Before(a + 1, b + 1))
  <2>1. PICK i \in Nat : /\ \A j \in 0..(i - 1) : At(a + j) = At(b + j)
                         /\ At(a + i) < At(b + i)
    BY <1>3 DEF Before
  <2>2. CASE i = 0
    <3>1. a + i = a /\ b + i = b
      BY <1>0, <2>2
    <3> QED
      BY <1>1, <2>1, <3>1
  <2>3. CASE i # 0
    <3>1. i - 1 \in Nat /\ a + i = a + 1 + (i - 1) /\ b + i = b + 1 + (i - 1)
      BY <1>0, <2>3
    <3>2. ASSUME NEW j \in 0..(i - 1 - 1) PROVE At(a + 1 + j) = At(b + 1 + j)
      <4>1. j + 1 \in 0..(i - 1) /\ a + (j + 1) = a + 1 + j /\ b + (j + 1) = b + 1 + j
        BY <1>0, <3>1
      <4> QED
        BY <2>1, <4>1
    <3>3. Before(a + 1, b + 1)
      BY <2>1, <3>1, <3>2 DEF Before
    <3>4. 0 \in 0..(i - 1) /\ a + 0 = a /\ b + 0 = b
      BY <1>0, <2>3
    <3>5. At(a) = At(b)
      BY <2>1, <3>4
    <3> QED
      BY <1>1, <3>3, <3>5
  <2> QED
    BY <2>2, <2>3
<1>4. ASSUME data[a] < data[b] PROVE Before(a, b)
  <2>1. a + 0 = a /\ b + 0 = b /\ 0 \in Nat
    BY <1>0
  <2>2. \A j \in 0..(0 - 1) : At(a + j) = At(b + j)
    OBVIOUS
  <2>3. At(a + 0) < At(b + 0)
    BY <1>1, <1>4, <2>1
  <2> QED
    BY <2>2, <2>3 DEF Before
<1>5. ASSUME data[a] = data[b], Before(a + 1, b + 1) PROVE Before(a, b)
  <2>1. PICK i \in Nat : /\ \A j \in 0..(i - 1) : At(a + 1 + j) = At(b + 1 + j)
                         /\ At(a + 1 + i) < At(b + 1 + i)
    BY <1>5 DEF Before
  <2>2. i + 1 \in Nat /\ a + (i + 1) = a + 1 + i /\ b + (i + 1) = b + 1 + i
    BY <1>0
  <2>3. ASSUME NEW j \in 0..(i + 1 - 1) PROVE At(a + j) = At(b + j)
    <3>1. CASE j = 0
      <4>1. a + j = a /\ b + j = b
        BY <1>0, <3>1
      <4> QED
        BY <1>1, <1>5, <4>1
    <3>2. CASE j # 0
      <4>1. j - 1 \in 0..(i - 1) /\ a + j = a + 1 + (j - 1) /\ b + j = b + 1 + (j - 1)
        BY <1>0, <3>2
      <4> QED
        BY <2>1, <4>1
    <3> QED
      BY <3>1, <3>2
  <2>4. At(a + (i + 1)) < At(b + (i + 1))
    BY <2>1, <2>2
  <2> QED
    BY <2>2, <2>3, <2>4 DEF Before
<1> QED
  BY <1>2, <1>3, <1>4, <1>5

\* Suffixes with the same key are compared behind it.
LEMMA AfterEqualKeys ==
    ASSUME DataOK, NEW a \in Pos, NEW b \in Pos, Key(a) = Key(b)
    PROVE  suffixLessAfterKey(a, b) <=> suffixLess(a, b)
<1> DEFINE m == Smaller(len - a, len - b)
           D(from) == {i \in from..(m - 1) : data[a + i] # data[b + i]}
           first(from) == CHOOSE i \in D(from) : \A j \in D(from) : i <= j
<1>0. len \in Nat /\ a \in Nat /\ b \in Nat /\ m \in Nat
  BY DEF DataOK, Smaller, Pos
<1>1. data[a] = data[b] /\ data[a + 1] = data[b + 1] /\ data[a + 2] = data[b + 2]
  BY DEF Key
<1>2. D(0) = D(3)
  <2> HIDE DEF m
  <2>1. ASSUME NEW i \in 0..(m - 1), data[a + i] # data[b + i] PROVE i \in 3..(m - 1)
    <3>1. i # 0 /\ i # 1 /\ i # 2
      <4>1. a + 0 = a /\ b + 0 = b
        BY <1>0
      <4> QED
        BY <1>1, <2>1, <4>1
    <3> QED
      BY <1>0, <3>1
  <2>2. \A i \in 3..(m - 1) : i \in 0..(m - 1)
    BY <1>0
  <2> QED
    BY <2>1, <2>2
<1>3. suffixLess(a, b) <=> IF D(0) = {} THEN a > b ELSE data[a + first(0)] < data[b + first(0)]
  BY DEF suffixLess, LessFrom
<1>4. suffixLessAfterKey(a, b) <=> IF D(3) = {} THEN a > b ELSE data[a + first(3)] < data[b + first(3)]
  BY DEF suffixLessAfterKey, LessFrom
<1>5. first(0) = first(3)
  <2> HIDE DEF D
  <2> QED
    BY <1>2
<1> HIDE DEF D, first
<1> QED
  BY <1>2, <1>3, <1>4, <1>5

\* Keys are compared byte by byte.
KeyLess(k, h) ==
    \/ k[1] < h[1]
    \/ k[1] = h[1] /\ k[2] < h[2]
    \/ k[1] = h[1] /\ k[2] = h[2] /\ k[3] < h[3]

Keys == Nat \X Nat \X Nat

\* A key is three bytes.
LEMMA KeyIs ==
    ASSUME DataOK, NEW a \in Pos
    PROVE  /\ Key(a) \in Keys
           /\ Key(a)[1] = data[a] /\ Key(a)[2] = data[a + 1] /\ Key(a)[3] = data[a + 2]
           /\ data[a] \in Nat /\ data[a + 1] \in Nat /\ data[a + 2] \in Nat
<1>1. data[a] \in Nat /\ data[a + 1] \in Nat /\ data[a + 2] \in Nat
  <2>1. a \in 0..(len + 3) /\ a + 1 \in 0..(len + 3) /\ a + 2 \in 0..(len + 3)
    BY DEF DataOK, Pos
  <2> QED
    BY <2>1 DEF DataOK
<1> QED
  BY <1>1 DEF Key, Keys

\* Of two different keys one is less.
LEMMA KeysDiffer ==
    ASSUME NEW k \in Keys, NEW h \in Keys
    PROVE  k = h \/ KeyLess(k, h) \/ KeyLess(h, k)
BY DEF Keys, KeyLess

\* A key is not less than one it is greater than, or than itself.
LEMMA KeyLessOnce ==
    ASSUME NEW k \in Keys, NEW h \in Keys, KeyLess(k, h)
    PROVE  k # h /\ ~KeyLess(h, k)
BY DEF Keys, KeyLess

\* The suffix with the lesser key comes first, even where its key reaches behind the data.
LEMMA LesserKeyFirst ==
    ASSUME DataOK, NEW a \in Pos, NEW b \in Pos, KeyLess(Key(a), Key(b))
    PROVE  suffixLess(a, b)
<1>0. len \in Nat /\ a \in Nat /\ b \in Nat /\ a < len /\ b < len /\ a \in 0..len /\ b \in 0..len
  BY DEF DataOK, Pos
<1>1. /\ \A j \in 0..2 : data[a + j] \in Nat /\ data[b + j] \in Nat
      /\ \A j \in 0..2 : a + j >= len => data[a + j] = 0
      /\ \A j \in 0..2 : b + j >= len => data[b + j] = 0
  <2>1. \A j \in 0..2 : a + j \in 0..(len + 3) /\ b + j \in 0..(len + 3)
    BY <1>0
  <2>2. ASSUME NEW j \in 0..2, a + j >= len PROVE data[a + j] = 0
    <3>1. a + j \in len..(len + 3)
      BY <1>0, <2>2
    <3> QED
      BY <3>1 DEF DataOK
  <2>3. ASSUME NEW j \in 0..2, b + j >= len PROVE data[b + j] = 0
    <3>1. b + j \in len..(len + 3)
      BY <1>0, <2>3
    <3> QED
      BY <3>1 DEF DataOK
  <2> QED
    BY <2>1, <2>2, <2>3 DEF DataOK
<1>2. PICK i \in 0..2 : /\ \A j \in 0..2 : j < i => data[a + j] = data[b + j]
                        /\ data[a + i] < data[b + i]
  <2>1. /\ Key(a)[1] = data[a + 0] /\ Key(a)[2] = data[a + 1] /\ Key(a)[3] = data[a + 2]
        /\ Key(b)[1] = data[b + 0] /\ Key(b)[2] = data[b + 1] /\ Key(b)[3] = data[b + 2]
    <3>1. a + 0 = a /\ b + 0 = b
      BY <1>0
    <3> QED
      BY <3>1, KeyIs
  <2>2. CASE data[a + 0] < data[b + 0]
    BY <2>2
  <2>3. CASE data[a + 0] = data[b + 0] /\ data[a + 1] < data[b + 1]
    <3>1. \A j \in 0..2 : j < 1 => j = 0
      OBVIOUS
    <3> QED
      BY <2>3, <3>1
  <2>4. CASE /\ data[a + 0] = data[b + 0] /\ data[a + 1] = data[b + 1]
             /\ data[a + 2] < data[b + 2]
    <3>1. \A j \in 0..2 : j < 2 => j = 0 \/ j = 1
      OBVIOUS
    <3> QED
      BY <2>4, <3>1
  <2> QED
    BY <2>1, <2>2, <2>3, <2>4 DEF KeyLess
<1>3. b + i < len
  <2>1. data[a + i] \in Nat /\ data[b + i] \in Nat
    BY <1>1
  <2>2. data[b + i] # 0
    BY <1>2, <2>1
  <2>3. ~(b + i >= len)
    BY <1>1, <2>2
  <2> QED
    BY <1>0, <2>3
<1>4. CASE a + i < len
  <2>1. At(a + i) = data[a + i] /\ At(b + i) = data[b + i]
    BY <1>0, <1>3, <1>4, AtIs
  <2>2. ASSUME NEW j \in 0..(i - 1) PROVE At(a + j) = At(b + j)
    <3>1. j \in 0..2 /\ j < i /\ a + j < len /\ b + j < len /\ a + j \in Nat /\ b + j \in Nat
      BY <1>0, <1>3, <1>4
    <3>2. At(a + j) = data[a + j] /\ At(b + j) = data[b + j]
      BY <3>1, AtIs
    <3> QED
      BY <1>2, <3>1, <3>2
  <2>3. Before(a, b)
    BY <1>2, <2>1, <2>2 DEF Before
  <2> QED
    BY <1>0, <2>3, LessIs
<1>5. CASE a + i >= len
  <2> DEFINE k == len - a
  <2>1. k \in 0..2 /\ k <= i /\ a + k = len /\ b + k < len /\ b + k \in Nat /\ k \in Nat
    BY <1>0, <1>3, <1>5
  <2> HIDE DEF k
  <2>2. At(a + k) = -1 /\ At(b + k) >= 0 /\ At(b + k) \in Int
    BY <1>0, <2>1, AtIs
  <2>3. ASSUME NEW j \in 0..(k - 1) PROVE At(a + j) = At(b + j)
    <3>1. j \in 0..2 /\ j < i /\ a + j < len /\ b + j < len /\ a + j \in Nat /\ b + j \in Nat
      BY <1>0, <2>1
    <3>2. At(a + j) = data[a + j] /\ At(b + j) = data[b + j]
      BY <3>1, AtIs
    <3> QED
      BY <1>2, <3>1, <3>2
  <2>4. At(a + k) < At(b + k)
    BY <2>2
  <2>5. Before(a, b)
    BY <2>1, <2>3, <2>4 DEF Before
  <2> QED
    BY <1>0, <2>5, LessIs
<1> QED
  BY <1>0, <1>4, <1>5

\* So the keys of suffixes in order ascend.
LEMMA KeysFollow ==
    ASSUME DataOK, NEW a \in Pos, NEW b \in Pos, suffixLess(a, b)
    PROVE  Key(a) = Key(b) \/ KeyLess(Key(a), Key(b))
<1>1. Key(a) \in Keys /\ Key(b) \in Keys
  BY KeyIs
<1>2. ASSUME KeyLess(Key(b), Key(a)) PROVE FALSE
  <2>1. suffixLess(b, a)
    BY <1>2, LesserKeyFirst
  <2>2. <<a, b>> \in SuffixOrder /\ <<b, a>> \in SuffixOrder
    BY <2>1 DEF SuffixOrder
  <2> QED
    BY <2>2, SuffixesInOrder DEF Linear
<1> QED
  BY <1>1, <1>2, KeysDiffer

-----------------------------------------------------------------------------
(* The records and what is stored of them.                                 *)

\* Records as the program makes them.
Record == [key : Keys, at : Nat, count : Nat]

\* The positions of a record whose run is stored in ar.
PlacesIn(r, ar) == IF r.count = 0 THEN <<r.at>> ELSE SubSeq(ar, r.at + 1, r.at + r.count)

\* They are in the order of their suffixes, and have the key of the record.
RecordOK(r, ar) ==
    /\ r.count = 0 \/ r.at + r.count <= Len(ar)
    /\ PlacesIn(r, ar) \in Seq(Pos)
    /\ Len(PlacesIn(r, ar)) > 0
    /\ SortedBy(PlacesIn(r, ar), SuffixOrder)
    /\ \A p \in Elems(PlacesIn(r, ar)) : Key(p) = r.key

\* The records hold each position of C once, and no other.
Kept(ar, rs, C) ==
    /\ ar \in Seq(Pos) /\ rs \in Seq(Record)
    /\ \A i \in 1..Len(rs) : RecordOK(rs[i], ar)
    /\ \A i, j \in 1..Len(rs) :
          i # j => Elems(PlacesIn(rs[i], ar)) \cap Elems(PlacesIn(rs[j], ar)) = {}
    /\ \A p : p \in C <=> \E i \in 1..Len(rs) : p \in Elems(PlacesIn(rs[i], ar))

\* A longer arena does not move what is stored.
LEMMA StaysInPlace ==
    ASSUME NEW S, NEW ar \in Seq(S), NEW more \in Seq(S), NEW r \in Record,
           r.count = 0 \/ r.at + r.count <= Len(ar)
    PROVE  PlacesIn(r, ar \o more) = PlacesIn(r, ar)
<1>1. r.at \in Nat /\ r.count \in Nat
  BY DEF Record
<1>2. CASE r.count = 0
  BY <1>2 DEF PlacesIn
<1>3. CASE r.count # 0
  <2> DEFINE z == ar \o more
             a == r.at
             c == r.count
             u == SubSeq(z, a + 1, a + c)
             v == SubSeq(ar, a + 1, a + c)
  <2>1. z \in Seq(S) /\ Len(z) >= Len(ar) /\ \A i \in 1..Len(ar) : z[i] = ar[i]
    OBVIOUS
  <2>2. a \in Nat /\ c \in Nat /\ a + c <= Len(ar) /\ a + c <= Len(z) /\ Len(ar) \in Nat
    BY <1>1, <1>3, <2>1
  <2> HIDE DEF z, a, c
  <2>3. u \in Seq(S) /\ Len(u) = c /\ \A i \in 1..c : u[i] = z[a + i]
    BY <2>1, <2>2, SliceIs
  <2>4. v \in Seq(S) /\ Len(v) = c /\ \A i \in 1..c : v[i] = ar[a + i]
    BY <2>2, SliceIs
  <2> HIDE DEF u, v
  <2>5. \A i \in 1..c : u[i] = v[i]
    <3> TAKE i \in 1..c
    <3>1. a + i \in 1..Len(ar)
      BY <2>2
    <3>2. z[a + i] = ar[a + i]
      BY <2>1, <3>1
    <3> QED
      BY <2>3, <2>4, <3>2
  <2>6. u = v
    BY <2>3, <2>4, <2>5
  <2> QED
    BY <1>3, <2>6 DEF PlacesIn, u, v, z, a, c
<1> QED
  BY <1>2, <1>3

\* One more record, with its run, if it has one, behind those stored.
LEMMA RecordAdded ==
    ASSUME NEW ar, NEW rs, NEW C, Kept(ar, rs, C),
           NEW more \in Seq(Pos), NEW r \in Record, RecordOK(r, ar \o more),
           Elems(PlacesIn(r, ar \o more)) \cap C = {}
    PROVE  Kept(ar \o more, Append(rs, r), C \cup Elems(PlacesIn(r, ar \o more)))
<1> DEFINE z == ar \o more
           q == Append(rs, r)
           n == Len(rs)
           new == Elems(PlacesIn(r, z))
<1>1. ar \in Seq(Pos) /\ rs \in Seq(Record) /\ \A i \in 1..n : RecordOK(rs[i], ar)
  BY DEF Kept
<1>2. /\ z \in Seq(Pos) /\ q \in Seq(Record) /\ Len(q) = n + 1 /\ n \in Nat
      /\ q[n + 1] = r /\ \A i \in 1..n : q[i] = rs[i] /\ rs[i] \in Record
  BY <1>1
<1>3. \A i \in 1..n : PlacesIn(q[i], z) = PlacesIn(rs[i], ar)
  <2> TAKE i \in 1..n
  <2>1. rs[i] \in Record /\ q[i] = rs[i]
    BY <1>2
  <2>2. rs[i].count = 0 \/ rs[i].at + rs[i].count <= Len(ar)
    BY <1>1 DEF RecordOK
  <2> QED
    BY <1>1, <2>1, <2>2, StaysInPlace
<1> HIDE DEF q, z, n
<1>4. ASSUME NEW i \in 1..n PROVE RecordOK(q[i], z)
  <2>1. RecordOK(rs[i], ar) /\ q[i] = rs[i] /\ rs[i] \in Record
    BY <1>1, <1>2
  <2>2. rs[i].at \in Nat /\ rs[i].count \in Nat
    BY <2>1 DEF Record
  <2>3. Len(ar) <= Len(z) /\ Len(ar) \in Nat /\ Len(z) \in Nat
    BY <1>1 DEF z
  <2>4. rs[i].count = 0 \/ rs[i].at + rs[i].count <= Len(z)
    BY <2>1, <2>2, <2>3 DEF RecordOK
  <2> QED
    BY <1>3, <2>1, <2>4 DEF RecordOK
<1>5. RecordOK(q[n + 1], z) /\ PlacesIn(q[n + 1], z) = PlacesIn(r, z)
  BY <1>2 DEF z
<1>6. \A i \in 1..(n + 1) : RecordOK(q[i], z)
  BY <1>2, <1>4, <1>5
<1>7. \A p : p \in C <=> \E i \in 1..n : p \in Elems(PlacesIn(q[i], z))
  <2>1. \A p : p \in C <=> \E i \in 1..n : p \in Elems(PlacesIn(rs[i], ar))
    BY DEF Kept, n
  <2> QED
    BY <1>3, <2>1
<1>8. ASSUME NEW i \in 1..(n + 1), NEW j \in 1..(n + 1), i # j
      PROVE  Elems(PlacesIn(q[i], z)) \cap Elems(PlacesIn(q[j], z)) = {}
  <2>1. CASE i = n + 1
    <3>1. j \in 1..n
      BY <1>2, <1>8, <2>1
    <3> QED
      BY <1>5, <1>7, <2>1, <3>1 DEF z
  <2>2. CASE j = n + 1
    <3>1. i \in 1..n
      BY <1>2, <1>8, <2>2
    <3> QED
      BY <1>5, <1>7, <2>2, <3>1 DEF z
  <2>3. CASE i # n + 1 /\ j # n + 1
    <3>1. i \in 1..n /\ j \in 1..n
      BY <1>2, <2>3
    <3>2. Elems(PlacesIn(rs[i], ar)) \cap Elems(PlacesIn(rs[j], ar)) = {}
      BY <1>8, <3>1 DEF Kept, n
    <3> QED
      BY <1>3, <3>1, <3>2
  <2> QED
    BY <2>1, <2>2, <2>3
<1>9. ASSUME NEW p
      PROVE  p \in C \cup new <=> \E i \in 1..(n + 1) : p \in Elems(PlacesIn(q[i], z))
  <2>1. ASSUME p \in C PROVE \E i \in 1..(n + 1) : p \in Elems(PlacesIn(q[i], z))
    <3>1. PICK i \in 1..n : p \in Elems(PlacesIn(q[i], z))
      BY <1>7, <2>1
    <3>2. i \in 1..(n + 1)
      BY <1>2
    <3> QED
      BY <3>1, <3>2
  <2>2. ASSUME p \in new PROVE \E i \in 1..(n + 1) : p \in Elems(PlacesIn(q[i], z))
    <3>1. n + 1 \in 1..(n + 1)
      BY <1>2
    <3> QED
      BY <1>5, <2>2, <3>1
  <2>3. ASSUME NEW i \in 1..(n + 1), p \in Elems(PlacesIn(q[i], z)) PROVE p \in C \cup new
    <3>1. CASE i = n + 1
      BY <1>5, <2>3, <3>1
    <3>2. CASE i # n + 1
      <4>1. i \in 1..n
        BY <1>2, <3>2
      <4> QED
        BY <1>7, <2>3, <4>1
    <3> QED
      BY <3>1, <3>2
  <2> QED
    BY <2>1, <2>2, <2>3
<1> HIDE DEF new
<1>10. Kept(z, q, C \cup new)
  BY <1>2, <1>6, <1>8, <1>9 DEF Kept
<1> QED
  BY <1>10 DEF z, q, new

-----------------------------------------------------------------------------
(* The columns of a template run.                                          *)

\* A state of the emission of one template run.
EmitStates == [order : Seq(Nat), arena : Seq(Pos), runs : Seq(Record)]

\* Consecutive places of an order, in one column, in the order of their suffixes.
Column(order, from, to, rel) == {order[k] + rel : k \in from..to}

\* The suffixes of a column ascend.
ColumnSorted(order, rel) ==
    /\ \A k \in 1..Len(order) : order[k] + rel \in Pos
    /\ \A j, k \in 1..Len(order) : j < k => suffixLess(order[j] + rel, order[k] + rel)

\* One record more, for places with the same key.
LEMMA GroupAppended ==
    ASSUME DataOK, NEW st \in EmitStates, NEW rel \in Nat, ColumnSorted(st.order, rel),
           NEW C, Kept(st.arena, st.runs, C),
           NEW from \in 1..Len(st.order), NEW to \in from..Len(st.order),
           \A k \in from..to : Key(st.order[k] + rel) = Key(st.order[from] + rel),
           Column(st.order, from, to, rel) \cap C = {}
    PROVE  /\ AppendGroup(st, from, to, rel) \in EmitStates
           /\ AppendGroup(st, from, to, rel).order = st.order
           /\ Kept(AppendGroup(st, from, to, rel).arena, AppendGroup(st, from, to, rel).runs,
                   C \cup Column(st.order, from, to, rel))
           /\ Len(AppendGroup(st, from, to, rel).arena) <= Len(st.arena) + (to - from + 1)
<1> DEFINE n == to - from + 1
           o == st.order
           ps == [i \in 1..n |-> o[from + i - 1] + rel]
           z == AppendGroup(st, from, to, rel)
           new == Column(o, from, to, rel)
<1>0. /\ n \in Nat /\ n > 0 /\ from \in Nat /\ to \in Nat /\ from <= to
      /\ o \in Seq(Nat) /\ st.arena \in Seq(Pos) /\ st.runs \in Seq(Record)
      /\ Len(o) \in Nat /\ \A k \in from..to : k \in 1..Len(o)
  BY DEF EmitStates
<1>1. \A i \in 1..n : from + i - 1 \in from..to
  BY <1>0
<1>2. ps \in Seq(Pos) /\ Len(ps) = n /\ \A i \in 1..n : ps[i] = o[from + i - 1] + rel
  <2>1. \A i \in 1..n : ps[i] \in Pos
    BY <1>0, <1>1 DEF ColumnSorted
  <2> QED
    BY <1>0, <2>1
<1> HIDE DEF ps
<1>3. Elems(ps) = new
  <2>1. ASSUME NEW i \in 1..n PROVE ps[i] \in new
    BY <1>1, <1>2 DEF Column
  <2>2. ASSUME NEW k \in from..to PROVE \E i \in 1..n : o[k] + rel = ps[i]
    <3>1. k - from + 1 \in 1..n /\ from + (k - from + 1) - 1 = k
      BY <1>0
    <3> QED
      BY <1>2, <3>1
  <2> QED
    BY ZenonT(30), <1>2, <2>1, <2>2 DEF Elems, Column
<1>4. SortedBy(ps, SuffixOrder)
  <2>1. ASSUME NEW i \in 1..n, NEW j \in 1..n, i < j PROVE <<ps[i], ps[j]>> \in SuffixOrder
    <3>1. /\ from + i - 1 \in 1..Len(o) /\ from + j - 1 \in 1..Len(o)
          /\ from + i - 1 < from + j - 1
      <4>1. from + i - 1 \in from..to /\ from + j - 1 \in from..to
        BY <1>1
      <4>2. from + i - 1 < from + j - 1
        BY <1>0, <2>1
      <4> QED
        BY <1>0, <4>1, <4>2
    <3>2. suffixLess(ps[i], ps[j])
      BY <1>2, <3>1 DEF ColumnSorted
    <3>3. ps[i] \in Pos /\ ps[j] \in Pos
      BY <1>2
    <3> QED
      BY <3>2, <3>3 DEF SuffixOrder
  <2> QED
    BY <1>2, <2>1 DEF SortedBy
<1>5. \A i \in 1..n : Key(ps[i]) = Key(ps[1])
  <2> TAKE i \in 1..n
  <2>1. Key(ps[i]) = Key(o[from] + rel)
    <3>1. from + i - 1 \in from..to
      BY <1>1
    <3>2. ps[i] = o[from + i - 1] + rel
      BY <1>2
    <3> QED
      BY <3>1, <3>2
  <2>2. ps[1] = o[from] + rel
    <3>1. 1 \in 1..n /\ from + 1 - 1 = from
      BY <1>0
    <3> QED
      BY <1>2, <3>1
  <2> QED
    BY <2>1, <2>2
<1>6. 1 \in 1..n /\ ps[1] \in Pos /\ ps[1] \in Nat /\ Key(ps[1]) \in Keys
  <2>1. 1 \in 1..n /\ ps[1] \in Pos
    BY <1>0, <1>2
  <2> QED
    BY <2>1, KeyIs DEF Pos
<1>7. CASE from = to
  <2> DEFINE r == Literal(ps[1])
  <2>1. z = [st EXCEPT !.runs = Append(@, r)]
    BY <1>7 DEF AppendGroup, ps
  <2>2. r = [key |-> Key(ps[1]), at |-> ps[1], count |-> 0]
    BY DEF Literal
  <2>3. r \in Record /\ r.count = 0 /\ r.at = ps[1] /\ r.key = Key(ps[1])
    BY <1>6, <2>2 DEF Record
  <2> HIDE DEF r
  <2>4. n = 1 /\ ps = <<ps[1]>>
    BY <1>0, <1>2, <1>7
  <2>5. PlacesIn(r, st.arena \o <<>>) = ps
    BY <2>3, <2>4 DEF PlacesIn
  <2>6. RecordOK(r, st.arena \o <<>>)
    <3>1. \A p \in Elems(ps) : Key(p) = r.key
      BY <1>2, <1>5, <2>3 DEF Elems
    <3> QED
      BY <1>0, <1>2, <1>4, <2>3, <2>5, <3>1 DEF RecordOK
  <2>7. Kept(st.arena \o <<>>, Append(st.runs, r), C \cup Elems(PlacesIn(r, st.arena \o <<>>)))
    <3>1. Elems(PlacesIn(r, st.arena \o <<>>)) \cap C = {}
      BY <1>3, <2>5
    <3>2. <<>> \in Seq(Pos)
      OBVIOUS
    <3> QED
      BY <2>3, <2>6, <3>1, <3>2, RecordAdded
  <2>8. st.arena \o <<>> = st.arena
    BY <1>0
  <2>9. z.order = o /\ z.arena = st.arena /\ z.runs = Append(st.runs, r)
    BY <2>1 DEF EmitStates
  <2>10. z \in EmitStates
    <3>1. Append(st.runs, r) \in Seq(Record)
      BY <1>0, <2>3
    <3> QED
      BY <2>1, <3>1 DEF EmitStates
  <2>11. Len(z.arena) <= Len(st.arena) + n
    <3>1. Len(st.arena) \in Nat
      BY <1>0
    <3> QED
      BY <1>0, <2>9, <3>1
  <2> HIDE DEF z, n
  <2>12. Kept(z.arena, z.runs, C \cup new)
    BY <1>3, <2>5, <2>7, <2>8, <2>9
  <2> QED
    BY <2>9, <2>10, <2>11, <2>12 DEF z, n
<1>8. CASE from # to
  <2> DEFINE r == [key |-> Key(ps[1]), at |-> Len(st.arena), count |-> Len(ps)]
             y == st.arena \o ps
  <2>1. z = [st EXCEPT !.runs = Append(@, r), !.arena = @ \o ps]
    BY <1>8 DEF AppendGroup, ps
  <2>2. Len(st.arena) \in Nat
    BY <1>0
  <2>3. r \in Record /\ r.count = n /\ r.at = Len(st.arena) /\ r.key = Key(ps[1])
    BY <1>0, <1>2, <1>6, <2>2 DEF Record
  <2> HIDE DEF r
  <2>4. y \in Seq(Pos) /\ Len(y) = Len(st.arena) + n /\ \A i \in 1..n : y[Len(st.arena) + i] = ps[i]
    <3> DEFINE ar == st.arena
    <3>1. ar \in Seq(Pos) /\ ps \in Seq(Pos) /\ Len(ps) = n /\ y = ar \o ps
      BY <1>0, <1>2
    <3> HIDE DEF ar, y, n
    <3>2. y \in Seq(Pos)
      BY <3>1, JoinedIs
    <3>3. Len(y) = Len(ar) + n
      BY <3>1, JoinedIs
    <3>4. \A i \in 1..n : y[Len(ar) + i] = ps[i]
      BY <3>1, JoinedIs
    <3> QED
      BY <3>2, <3>3, <3>4 DEF ar
  <2> HIDE DEF y
  <2>5. PlacesIn(r, y) = ps
    <3> DEFINE a == Len(st.arena)
               u == SubSeq(y, a + 1, a + n)
    <3>1. a \in Nat /\ a + n <= Len(y)
      BY <1>0, <2>2, <2>4
    <3>2. PlacesIn(r, y) = u
      <4> HIDE DEF n
      <4>1. r.count # 0 /\ r.count = n /\ r.at = a
        BY <1>0, <2>3
      <4> QED
        BY <4>1 DEF PlacesIn
    <3>3. u \in Seq(Pos) /\ Len(u) = n /\ \A i \in 1..n : u[i] = y[a + i]
      <4> HIDE DEF a, n
      <4> QED
        BY SMTT(30), <1>0, <2>4, <3>1, SliceIs
    <3> HIDE DEF u
    <3>4. \A i \in 1..n : u[i] = ps[i]
      BY <2>4, <3>3
    <3>5. u = ps
      BY <1>2, <3>3, <3>4
    <3> QED
      BY <3>2, <3>5
  <2>6. RecordOK(r, y)
    <3>1. \A p \in Elems(ps) : Key(p) = r.key
      BY <1>2, <1>5, <2>3 DEF Elems
    <3>2. r.at + r.count <= Len(y)
      BY <1>0, <2>2, <2>3, <2>4
    <3> QED
      BY <1>0, <1>2, <1>4, <2>5, <3>1, <3>2 DEF RecordOK
  <2>7. Kept(y, Append(st.runs, r), C \cup Elems(PlacesIn(r, y)))
    <3>1. Elems(PlacesIn(r, y)) \cap C = {}
      BY <1>3, <2>5
    <3> QED
      BY <1>2, <2>3, <2>6, <3>1, RecordAdded DEF y
  <2>9. z.order = o /\ z.arena = y /\ z.runs = Append(st.runs, r)
    BY <2>1 DEF EmitStates, y
  <2>10. z \in EmitStates
    <3>1. Append(st.runs, r) \in Seq(Record) /\ st.arena \o ps \in Seq(Pos)
      BY <1>0, <1>2, <2>3
    <3> QED
      BY <2>1, <3>1 DEF EmitStates
  <2>11. Len(z.arena) <= Len(st.arena) + n
    <3> HIDE DEF n, z
    <3>1. Len(z.arena) = Len(st.arena) + n
      BY <2>4, <2>9
    <3> QED
      BY <1>0, <2>2, <3>1
  <2> HIDE DEF z, n
  <2>12. Kept(z.arena, z.runs, C \cup new)
    BY <1>3, <2>5, <2>7, <2>9
  <2> QED
    BY <2>9, <2>10, <2>11, <2>12 DEF z, n
<1> QED
  BY <1>7, <1>8

\* The groups of equal keys of a column, appended one after the other.
LEMMA ColumnAppended ==
    ASSUME DataOK, NEW st \in EmitStates, NEW rel \in Nat, ColumnSorted(st.order, rel),
           NEW C, Kept(st.arena, st.runs, C),
           Column(st.order, 1, Len(st.order), rel) \cap C = {},
           NEW whole \in BOOLEAN,
           whole => \A k \in 1..Len(st.order) : Key(st.order[k] + rel) = Key(st.order[1] + rel)
    PROVE  /\ AppendColumn(st, rel, whole) \in EmitStates
           /\ AppendColumn(st, rel, whole).order = st.order
           /\ Kept(AppendColumn(st, rel, whole).arena, AppendColumn(st, rel, whole).runs,
                   C \cup Column(st.order, 1, Len(st.order), rel))
           /\ Len(AppendColumn(st, rel, whole).arena) <= Len(st.arena) + Len(st.order)
<1> DEFINE N == Len(st.order)
           o == st.order
           K(k) == Key(o[k] + rel)
           Ends(i) == i = N \/ (~whole /\ Key(st.order[i] + rel) # Key(st.order[i + 1] + rel))
           base == [from |-> 1, st |-> st]
           V(n, g) == IF ~Ends(n) THEN g
                      ELSE [from |-> n + 1, st |-> AppendGroup(g.st, g.from, n, rel)]
           G(f) == f = [n \in 0..N |-> IF n = 0 THEN base ELSE V(n, f[n - 1])]
           f == CHOOSE g : G(g)
           U == [from : Nat, st : EmitStates]
           Fine(g, n) == /\ g.from \in 1..(n + 1)
                         /\ g.st.order = o
                         /\ Kept(g.st.arena, g.st.runs, C \cup Column(o, 1, g.from - 1, rel))
                         /\ Len(g.st.arena) <= Len(st.arena) + (g.from - 1)
                         /\ n = N => g.from = N + 1
                         /\ \A k \in g.from..(n + 1) : k <= N => K(k) = K(g.from)
           T == [n \in 0..N |-> {g \in U : Fine(g, n)}]
           step == [n \in 1..N |-> [g \in T[n - 1] |-> V(n, g)]]
<1>0. N \in Nat /\ o \in Seq(Nat) /\ Len(st.arena) \in Nat
  BY DEF EmitStates
<1>1. base \in T[0]
  <2>1. base \in U /\ base.from = 1 /\ base.st = st /\ 0 \in 0..N
    BY <1>0
  <2>2. Column(o, 1, 0, rel) = {}
    BY DEF Column
  <2>3. Kept(st.arena, st.runs, C \cup Column(o, 1, 1 - 1, rel))
    <3>1. C \cup Column(o, 1, 1 - 1, rel) = C
      BY <2>2
    <3> QED
      BY <3>1
  <2>4. \A k \in 1..(0 + 1) : k = 1
    OBVIOUS
  <2> HIDE DEF base, U, N, o
  <2>5. Fine(base, 0)
    BY <1>0, <2>1, <2>3, <2>4 DEF o
  <2> HIDE DEF Fine
  <2> QED
    BY <2>1, <2>5
<1>2. ASSUME NEW n \in 1..N, NEW g \in T[n - 1] PROVE V(n, g) \in T[n]
  <2>1. n - 1 \in 0..N /\ n \in 0..N /\ n \in Nat
    BY <1>0
  <2>2. g \in U /\ Fine(g, n - 1)
    <3> HIDE DEF Fine, U, N
    <3> QED
      BY <2>1
  <2> DEFINE s == g.st
             from == g.from
  <2>3. /\ from \in 1..n /\ s \in EmitStates /\ s.order = o /\ from \in Nat
        /\ Kept(s.arena, s.runs, C \cup Column(o, 1, from - 1, rel))
        /\ Len(s.arena) <= Len(st.arena) + (from - 1)
        /\ \A k \in from..n : k <= N => K(k) = K(from)
    BY <2>1, <2>2
  <2> HIDE DEF s, from, U, N, K, o
  <2>4. CASE ~Ends(n)
    <3>1. V(n, g) = g
      BY <2>4
    <3>2. n # N /\ (whole \/ K(n) = K(n + 1))
      BY <2>4 DEF K, o
    <3>3. n + 1 <= N /\ n + 1 \in 1..N /\ from \in 1..N
      BY <1>0, <2>1, <2>3, <3>2
    <3>4. K(n + 1) = K(from)
      <4>1. CASE whole
        BY <3>3, <4>1 DEF K, N, o
      <4>2. CASE K(n) = K(n + 1)
        <5>1. n \in from..n /\ n <= N
          BY <2>1, <2>3, <3>3
        <5> QED
          BY <2>3, <4>2, <5>1
      <4> QED
        BY <3>2, <4>1, <4>2
    <3>5. \A k \in from..(n + 1) : k <= N => K(k) = K(from)
      <4> SUFFICES ASSUME NEW k \in from..(n + 1), k <= N PROVE K(k) = K(from)
        OBVIOUS
      <4>1. k = n + 1 \/ k \in from..n
        BY <2>1, <2>3
      <4> QED
        BY <2>3, <3>4, <4>1
    <3>6. from \in 1..(n + 1)
      BY <2>1, <2>3
    <3>7. Fine(g, n)
      <4> HIDE DEF Ends
      <4> QED
        BY <2>3, <3>2, <3>5, <3>6 DEF from, s
    <3> HIDE DEF Fine, V
    <3> QED
      BY <2>1, <2>2, <3>1, <3>7
  <2>5. CASE Ends(n)
    <3> DEFINE z == AppendGroup(s, from, n, rel)
               h == [from |-> n + 1, st |-> z]
    <3>1. V(n, g) = h
      BY <2>5 DEF s, from
    <3>2. from \in 1..Len(s.order) /\ n \in from..Len(s.order)
      BY <1>0, <2>1, <2>3 DEF N, o
    <3>3. \A k \in from..n : Key(s.order[k] + rel) = Key(s.order[from] + rel)
      <4> TAKE k \in from..n
      <4>1. k <= N
        BY <1>0, <2>1, <2>3
      <4> QED
        BY <2>3, <4>1 DEF K
    <3>4. Column(s.order, from, n, rel) \cap (C \cup Column(o, 1, from - 1, rel)) = {}
      <4> SUFFICES ASSUME NEW k \in from..n,
                          o[k] + rel \in C \/ o[k] + rel \in Column(o, 1, from - 1, rel)
                   PROVE  FALSE
        BY <2>3 DEF Column
      <4>1. k \in 1..N
        BY <1>0, <2>1, <2>3
      <4>2. o[k] + rel \in Column(o, 1, N, rel)
        BY <4>1 DEF Column
      <4>3. o[k] + rel \notin C
        BY <4>2 DEF o, N
      <4>4. PICK j \in 1..(from - 1) : o[k] + rel = o[j] + rel
        BY <4>3 DEF Column
      <4>5. j \in 1..N /\ j < k
        BY <1>0, <2>3, <4>1
      <4>6. suffixLess(o[j] + rel, o[k] + rel) /\ o[j] + rel \in Pos /\ o[k] + rel \in Pos
        BY <4>1, <4>5 DEF ColumnSorted, o, N
      <4>7. <<o[j] + rel, o[k] + rel>> \in SuffixOrder
        BY <4>6 DEF SuffixOrder
      <4> QED
        BY <4>4, <4>6, <4>7, SuffixesInOrder DEF Linear
    <3>5. ColumnSorted(s.order, rel)
      BY <2>3 DEF o
    <3> HIDE DEF z
    <3>6. /\ z \in EmitStates
          /\ z.order = s.order
          /\ Kept(z.arena, z.runs,
                  (C \cup Column(o, 1, from - 1, rel)) \cup Column(s.order, from, n, rel))
          /\ Len(z.arena) <= Len(s.arena) + (n - from + 1)
      BY <2>3, <3>2, <3>3, <3>4, <3>5, GroupAppended DEF z
    <3>7. (C \cup Column(o, 1, from - 1, rel)) \cup Column(s.order, from, n, rel)
            = C \cup Column(o, 1, n, rel)
      <4>1. \A k \in 1..n : k \in 1..(from - 1) \/ k \in from..n
        BY <2>1, <2>3
      <4>2. \A k \in 1..(from - 1) : k \in 1..n
        BY <2>1, <2>3
      <4>3. \A k \in from..n : k \in 1..n
        BY <2>1, <2>3
      <4> QED
        BY <2>3, <4>1, <4>2, <4>3 DEF Column
    <3>8. h.from = n + 1 /\ h.st = z /\ h \in U
      BY <2>1, <3>6 DEF U
    <3> HIDE DEF h
    <3>9. Len(z.arena) <= Len(st.arena) + n
      <4>1. s.arena \in Seq(Pos) /\ z.arena \in Seq(Pos)
        BY <2>3, <3>6 DEF EmitStates
      <4> DEFINE a == Len(s.arena)
                 b == Len(z.arena)
                 c == Len(st.arena)
      <4>2. a \in Nat /\ b \in Nat /\ c \in Nat
        BY <1>0, <4>1
      <4>3. a <= c + (from - 1) /\ b <= a + (n - from + 1)
        BY <2>3, <3>6
      <4> HIDE DEF a, b, c
      <4>4. b <= c + n
        BY SMTT(30), <2>1, <2>3, <4>2, <4>3
      <4> QED
        BY <4>4 DEF b, c
    <3>10. Fine(h, n)
      <4>1. \A k \in (n + 1)..(n + 1) : k = n + 1
        BY <2>1
      <4>2. n + 1 - 1 = n /\ n + 1 \in 1..(n + 1)
        BY <2>1
      <4> HIDE DEF Ends
      <4>3. h.st.order = o
        BY <2>3, <3>6, <3>8
      <4>4. Kept(h.st.arena, h.st.runs, C \cup Column(o, 1, h.from - 1, rel))
        <5>1. h.from - 1 = n
          BY <3>8, <4>2
        <5>2. Kept(z.arena, z.runs, C \cup Column(o, 1, n, rel))
          BY <3>6, <3>7
        <5> QED
          BY <3>8, <5>1, <5>2
      <4>5. Len(h.st.arena) <= Len(st.arena) + (h.from - 1)
        BY <3>8, <3>9, <4>2
      <4>6. \A k \in h.from..(n + 1) : k <= N => K(k) = K(h.from)
        BY <3>8, <4>1
      <4> QED
        BY <3>8, <4>2, <4>3, <4>4, <4>5, <4>6
    <3> HIDE DEF Fine, V
    <3> QED
      BY <2>1, <3>1, <3>8, <3>10
  <2> QED
    BY <2>4, <2>5
<1>3. \A n \in 1..N : \A m \in T[n - 1] : step[n][m] = V(n, m) /\ step[n][m] \in T[n]
  BY <1>2
<1>4. PICK h : Solves(h, N, T, base, step)
  <2> HIDE DEF T, V, step, base, N, U
  <2>1. \A n \in 1..N : \A m \in T[n - 1] : step[n][m] \in T[n]
    BY <1>3
  <2> QED
    BY <1>0, <1>1, <2>1, RecursionWithin
<1>5. G(h)
  <2> HIDE DEF T, V, step, base, N, U
  <2>1. ASSUME NEW n \in 0..N PROVE h[n] = IF n = 0 THEN base ELSE V(n, h[n - 1])
    <3>1. CASE n = 0
      BY <1>4, <3>1 DEF Solves
    <3>2. CASE n # 0
      <4>1. n \in 1..N /\ n - 1 \in 0..N
        BY <1>0, <3>2
      <4>2. h[n - 1] \in T[n - 1] /\ h[n] = step[n][h[n - 1]]
        BY <1>4, <4>1 DEF Solves
      <4> QED
        BY <1>3, <3>2, <4>1, <4>2
    <3> QED
      BY <3>1, <3>2
  <2>2. h = [n \in 0..N |-> h[n]]
    BY <1>4 DEF Solves
  <2> QED
    BY <2>1, <2>2
<1>6. G(f)
  BY <1>5
<1>7. AppendColumn(st, rel, whole) = f[N].st
  BY DEF AppendColumn
<1> HIDE DEF f
<1>8. f[0] = base /\ \A n \in 1..N : f[n] = V(n, f[n - 1])
  <2> HIDE DEF V, base, N, U
  <2>1. ASSUME NEW n \in 1..N PROVE f[n] = V(n, f[n - 1])
    <3>1. n \in 0..N /\ n # 0
      BY <1>0
    <3> QED
      BY <1>6, <3>1
  <2>2. f[0] = base
    BY <1>0, <1>6
  <2> QED
    BY <2>1, <2>2
<1>9. \A n \in 0..N : f[n] \in T[n]
  <2> HIDE DEF T, V, step, base, N, U
  <2>1. \A n \in 1..N : f[n - 1] \in T[n - 1] => f[n] \in T[n]
    BY <1>3, <1>8
  <2>2. f[0] \in T[0]
    BY <1>1, <1>8
  <2> QED
    BY <1>0, <2>1, <2>2, HandedOn
<1>10. f[N] \in U /\ Fine(f[N], N)
  <2> HIDE DEF Fine, U, N
  <2> QED
    BY <1>0, <1>9
<1> DEFINE z == f[N].st
<1>11. /\ z \in EmitStates /\ z.order = o
       /\ Kept(z.arena, z.runs, C \cup Column(o, 1, N, rel))
       /\ Len(z.arena) <= Len(st.arena) + N
  <2>1. f[N].from = N + 1 /\ N + 1 - 1 = N
    BY <1>0, <1>10
  <2>2. f[N].from - 1 = N
    BY <2>1
  <2>3. z \in EmitStates
    BY <1>10
  <2> HIDE DEF N, o
  <2>4. z.order = o
    BY <1>10
  <2>5. Kept(z.arena, z.runs, C \cup Column(o, 1, f[N].from - 1, rel))
    BY <1>10
  <2>6. Len(z.arena) <= Len(st.arena) + (f[N].from - 1)
    BY <1>10
  <2> QED
    BY <2>2, <2>3, <2>4, <2>5, <2>6
<1> HIDE DEF z
<1> QED
  BY <1>7, <1>11 DEF z

\* A column can be sorted from the column behind it.
LEMMA ColumnInduced ==
    ASSUME DataOK, NEW o \in Seq(Nat), NEW rel \in Nat, rel > 0, ColumnSorted(o, rel),
           \A k \in 1..Len(o) : o[k] + (rel - 1) \in Pos
    PROVE  /\ Induce(o, rel - 1) \in Seq(Nat)
           /\ Len(Induce(o, rel - 1)) = Len(o)
           /\ Elems(Induce(o, rel - 1)) = Elems(o)
           /\ ColumnSorted(Induce(o, rel - 1), rel - 1)
<1> DEFINE b == rel - 1
           less == {p \in Pos \X Pos : data[p[1] + b] < data[p[2] + b]}
           S == Elems(o)
           N == Len(o)
           z == Induce(o, b)
<1>0. N \in Nat /\ b \in Nat /\ b + 1 = rel /\ len \in Nat
  BY DEF DataOK
<1>1. \A k \in 1..N : /\ o[k] \in Nat /\ o[k] + b \in Pos /\ o[k] + rel \in Pos
                      /\ o[k] \in Pos /\ (o[k] + b) + 1 = o[k] + rel
  <2> TAKE k \in 1..N
  <2>1. o[k] \in Nat /\ o[k] + b \in Pos /\ o[k] + rel \in Pos
    BY DEF ColumnSorted
  <2>2. (o[k] + b) + 1 = o[k] + rel
    BY <2>1
  <2>3. o[k] \in Pos
    BY <1>0, <2>1 DEF Pos
  <2> QED
    BY <2>1, <2>2, <2>3
<1> HIDE DEF b
<1>2. \A x \in S : x \in Nat /\ x \in Pos /\ x + b \in Pos /\ data[x + b] \in Nat
  <2> SUFFICES ASSUME NEW k \in 1..N
               PROVE  o[k] \in Nat /\ o[k] \in Pos /\ o[k] + b \in Pos /\ data[o[k] + b] \in Nat
    BY DEF Elems
  <2>1. o[k] + b \in Pos
    BY <1>1
  <2> QED
    BY <1>1, <2>1, KeyIs
<1>3. o \in Seq(S)
  BY DEF Elems
<1>4. \A x, y \in S : <<x, y>> \in less <=> data[x + b] < data[y + b]
  BY <1>2
<1> HIDE DEF less
<1>5. Weak(less, S)
  <2>1. ASSUME NEW x \in S, NEW y \in S, <<x, y>> \in less PROVE <<y, x>> \notin less
    BY <1>2, <1>4, <2>1
  <2>2. ASSUME NEW x \in S, NEW y \in S, NEW v \in S, <<x, y>> \notin less, <<y, v>> \notin less
        PROVE  <<x, v>> \notin less
    BY <1>2, <1>4, <2>2
  <2> QED
    BY <2>1, <2>2 DEF Weak
<1>6. z = InsertionSort(o, less)
  BY DEF Induce, less
<1> HIDE DEF S
<1>7. z \in Seq(S)
  BY <1>3, <1>5, <1>6, InsertionSortIs
<1>8. Len(z) = N
  BY <1>3, <1>5, <1>6, InsertionSortIs
<1>9. PICK q : Stable(z, o, q, N, less)
  BY <1>3, <1>5, <1>6, InsertionSortIs
<1> HIDE DEF z
<1>10. \A i \in 1..N : q[i] \in 1..N /\ z[i] = o[q[i]]
  BY <1>9 DEF Stable
<1>11. \A v \in 1..N : \E i \in 1..N : q[i] = v
  BY <1>9 DEF Stable
<1>12. Elems(z) = Elems(o)
  <2>1. ASSUME NEW i \in 1..N PROVE \E v \in 1..N : z[i] = o[v]
    BY <1>10
  <2>2. ASSUME NEW v \in 1..N PROVE \E i \in 1..N : z[i] = o[v]
    <3>1. PICK i \in 1..N : q[i] = v
      BY <1>11
    <3> QED
      BY <1>10, <3>1
  <2>3. Elems(z) = {z[i] : i \in 1..N} /\ Elems(o) = {o[i] : i \in 1..N}
    BY <1>8 DEF Elems
  <2> HIDE DEF N
  <2> QED
    BY ZenonT(30), <2>1, <2>2, <2>3
<1>13. z \in Seq(Nat)
  <2>1. \A x \in S : x \in Nat
    BY <1>2
  <2>2. \A i \in 1..N : z[i] \in S
    BY <1>7, <1>8
  <2>3. z = [i \in 1..N |-> z[i]]
    BY <1>7, <1>8
  <2>4. \A i \in 1..N : z[i] \in Nat
    BY <2>1, <2>2
  <2> QED
    BY <1>0, <2>3, <2>4
<1>14. \A k \in 1..N : z[k] + b \in Pos
  BY <1>1, <1>10
<1>15. ASSUME NEW j \in 1..N, NEW k \in 1..N, j < k PROVE suffixLess(z[j] + b, z[k] + b)
  <2>1. /\ <<z[k], z[j]>> \notin less
        /\ <<z[j], z[k]>> \in less \/ q[j] < q[k]
    BY <1>9, <1>15 DEF Stable
  <2>2. z[j] \in S /\ z[k] \in S
    BY <1>7, <1>8
  <2> DEFINE x == z[j] + b
             y == z[k] + b
  <2>3. x \in Pos /\ y \in Pos /\ data[x] \in Nat /\ data[y] \in Nat
    BY <1>2, <2>2
  <2>4. ~(data[y] < data[x]) /\ (data[x] < data[y] \/ q[j] < q[k])
    BY <1>4, <2>1, <2>2
  <2>5. CASE data[x] < data[y]
    <3> HIDE DEF x, y
    <3> QED
      BY <2>3, <2>5, LessByByte DEF x, y
  <2>6. CASE ~(data[x] < data[y])
    <3>1. data[x] = data[y] /\ q[j] < q[k]
      <4> HIDE DEF x, y
      <4> QED
        BY <2>3, <2>4, <2>6
    <3>2. suffixLess(o[q[j]] + rel, o[q[k]] + rel)
      BY <1>10, <3>1 DEF ColumnSorted
    <3>3. x + 1 = o[q[j]] + rel /\ y + 1 = o[q[k]] + rel
      BY <1>1, <1>10
    <3>4. suffixLess(x + 1, y + 1)
      BY <3>2, <3>3
    <3> HIDE DEF x, y
    <3> QED
      BY <2>3, <3>1, <3>4, LessByByte DEF x, y
  <2> QED
    BY <2>5, <2>6
<1>16. ColumnSorted(z, b)
  BY <1>8, <1>14, <1>15 DEF ColumnSorted
<1> QED
  BY <1>8, <1>12, <1>13, <1>16 DEF z, b

\* It keeps the order of the column behind when its bytes are all the same.
LEMMA ColumnKept ==
    ASSUME DataOK, NEW o \in Seq(Nat), NEW rel \in Nat, rel > 0, ColumnSorted(o, rel),
           \A k \in 1..Len(o) : o[k] + (rel - 1) \in Pos,
           NEW c, \A k \in 1..Len(o) : data[o[k] + (rel - 1)] = c
    PROVE  ColumnSorted(o, rel - 1)
<1>1. ASSUME NEW j \in 1..Len(o), NEW k \in 1..Len(o), j < k
      PROVE  suffixLess(o[j] + (rel - 1), o[k] + (rel - 1))
  <2>1. o[j] \in Nat /\ o[k] \in Nat /\ o[j] + (rel - 1) + 1 = o[j] + rel /\ o[k] + (rel - 1) + 1 = o[k] + rel
    OBVIOUS
  <2>2. suffixLess(o[j] + rel, o[k] + rel)
    BY <1>1 DEF ColumnSorted
  <2> DEFINE x == o[j] + (rel - 1)
             y == o[k] + (rel - 1)
  <2>3. data[x] = data[y] /\ x \in Pos /\ y \in Pos
    OBVIOUS
  <2>4. suffixLess(x + 1, y + 1)
    BY <2>1, <2>2
  <2> HIDE DEF x, y
  <2>5. suffixLess(x, y)
    BY <2>3, <2>4, LessByByte
  <2> QED
    BY <2>5 DEF x, y
<1> QED
  BY <1>1 DEF ColumnSorted

\* Where the groups of a run start, and the positions of its columns from one on.
Group(start, g) == start + (g - 1) * Width

GroupsAt(start, count) == {Group(start, g) : g \in 1..count}

\* The positions of the columns from one on.
Columns(start, count, from) ==
    {Group(start, g) + r : g \in 1..count, r \in from..(Width - 1)}

\* The columns of a run are all of its positions.
LEMMA GroupIs ==
    ASSUME NEW start \in Nat, NEW count \in Nat, NEW g \in 1..count
    PROVE  /\ Group(start, g) \in Nat /\ Group(start, g) >= start
           /\ \A r \in 0..(Width - 1) :
                 Group(start, g) + r \in start..(start + count * Width - 1)
<1>0. Width \in Nat /\ Width > 2 /\ g \in Nat /\ g - 1 \in Nat
  BY StageAssumption
<1> DEFINE x == (g - 1) * Width
           y == count * Width
<1>1. x \in Nat /\ y \in Nat
  BY <1>0
<1>2. x + Width <= y
  <2>1. x + Width = g * Width
    BY <1>0
  <2>2. g * Width <= count * Width
    BY <1>0
  <2> QED
    BY <2>1, <2>2
<1> HIDE DEF x, y
<1>3. Group(start, g) = start + x
  BY DEF Group, x
<1> QED
  BY <1>0, <1>1, <1>2, <1>3 DEF y

\* All columns are all positions of the run.
LEMMA ColumnsAre ==
    ASSUME NEW start \in Nat, NEW count \in Nat
    PROVE  Columns(start, count, 0) = start..(start + count * Width - 1)
<1>0. Width \in Nat /\ Width > 2 /\ count * Width \in Nat
  BY StageAssumption
<1>1. ASSUME NEW p \in start..(start + count * Width - 1) PROVE p \in Columns(start, count, 0)
  <2> DEFINE d == p - start
             q == d \div Width
             r == d % Width
  <2>1. d \in Nat /\ d < count * Width
    <3> DEFINE y == count * Width
    <3>1. y \in Nat
      BY <1>0
    <3> HIDE DEF y
    <3>2. d \in Nat /\ d < y
      BY <3>1, <1>1 DEF y
    <3> QED
      BY <3>2 DEF y
  <2> HIDE DEF d
  <2>2. q \in Nat /\ Width * q \in Nat /\ r \in 0..(Width - 1) /\ r = d - Width * q
    BY <1>0, <2>1, DivMod
  <2>3. q < count
    BY <1>0, <2>1, DivLess
  <2> HIDE DEF q, r
  <2>4. q + 1 \in 1..count /\ (q + 1) - 1 = q
    BY <2>2, <2>3
  <2>5. q * Width = Width * q
    BY <1>0, <2>2
  <2>6. Group(start, q + 1) = start + q * Width
    BY <2>4 DEF Group
  <2> DEFINE x == q * Width
  <2>7. x \in Nat /\ r = d - x /\ Group(start, q + 1) = start + x
    BY <2>2, <2>5, <2>6
  <2> HIDE DEF x
  <2>8. Group(start, q + 1) + r = p
    <3>1. p \in Int
      OBVIOUS
    <3> QED
      BY <2>1, <2>2, <2>7, <3>1 DEF d
  <2> QED
    BY <2>2, <2>4, <2>8 DEF Columns
<1>2. ASSUME NEW g \in 1..count, NEW r \in 0..(Width - 1)
      PROVE  Group(start, g) + r \in start..(start + count * Width - 1)
  BY GroupIs
<1> QED
  BY <1>1, <1>2 DEF Columns

\* No position lies in two columns.
LEMMA ColumnsDiffer ==
    ASSUME NEW start \in Nat, NEW count \in Nat, NEW g \in 1..count, NEW h \in 1..count,
           NEW r \in 0..(Width - 1), NEW q \in 0..(Width - 1),
           Group(start, g) + r = Group(start, h) + q
    PROVE  r = q /\ g = h
<1>0. Width \in Nat /\ Width > 0 /\ g - 1 \in Nat /\ h - 1 \in Nat
  BY StageAssumption
<1> DEFINE x == (g - 1) * Width + r
           y == (h - 1) * Width + q
<1>1. x \div Width = g - 1 /\ x % Width = r
  BY <1>0, DivOfSum
<1>2. y \div Width = h - 1 /\ y % Width = q
  BY <1>0, DivOfSum
<1>3. x = y
  <2> DEFINE u == (g - 1) * Width
             v == (h - 1) * Width
  <2>1. u \in Nat /\ v \in Nat /\ Group(start, g) = start + u /\ Group(start, h) = start + v
    BY <1>0 DEF Group
  <2> HIDE DEF u, v
  <2>2. u + r = v + q
    BY <2>1
  <2> QED
    BY <2>2 DEF u, v
<1> HIDE DEF x, y
<1>4. g - 1 = h - 1 /\ r = q
  BY <1>1, <1>2, <1>3
<1> QED
  BY <1>4

\* The order visits every group of the run once.
OrderOf(o, start, count) ==
    /\ o \in Seq(Nat) /\ Len(o) = count
    /\ Elems(o) = GroupsAt(start, count)

\* An order has each group once.
LEMMA OrderIs ==
    ASSUME NEW start \in Nat, NEW count \in Nat, NEW o, OrderOf(o, start, count)
    PROVE  /\ \A k \in 1..count : \E g \in 1..count : o[k] = Group(start, g)
           /\ \A g \in 1..count : \E k \in 1..count : o[k] = Group(start, g)
<1>1. {o[i] : i \in 1..count} = {Group(start, g) : g \in 1..count}
  BY DEF OrderOf, Elems, GroupsAt
<1> QED
  BY <1>1

\* What it means for a column to be equal.
LEMMA ColumnEqualIs ==
    ASSUME NEW start \in Nat, NEW count \in Nat, NEW r \in Nat, ColumnEqual(start, count, r)
    PROVE  \A g \in 1..count : data[Group(start, g) + r] = data[start + r]
<1> TAKE g \in 1..count
<1> DEFINE x == (g - 1) * Width
<1>1. x \in Nat /\ (g = 1 => x = 0)
  BY StageAssumption
<1>2. Group(start, g) = start + x
  BY DEF Group
<1>3. CASE g = 1
  <2>1. Group(start, g) = start
    BY <1>1, <1>2, <1>3
  <2> QED
    BY <2>1
<1>4. CASE g # 1
  <2>1. g - 1 \in 1..(count - 1)
    BY <1>4
  <2>2. data[start + (g - 1) * Width + r] = data[start + r]
    BY <2>1 DEF ColumnEqual
  <2> QED
    BY <1>2, <2>2
<1> QED
  BY <1>3, <1>4

\* When the comparison of the first and the last key, or of the columns, says so, all
\* keys of the column are the same.
LEMMA SameKeysAre ==
    ASSUME DataOK, NEW start \in Nat, NEW count \in Nat, count > 1,
           NEW o, OrderOf(o, start, count), NEW rel \in 0..(Width - 1),
           ColumnSorted(o, rel), SameKeys(start, count, o, rel)
    PROVE  \A k \in 1..Len(o) : Key(o[k] + rel) = Key(o[1] + rel)
<1>0. Width \in Nat /\ Width > 2 /\ Len(o) = count /\ o \in Seq(Nat)
  BY StageAssumption DEF OrderOf
<1>1. CASE count = 2 \/ rel > Width - 3
  <2>1. Key(o[1] + rel) = Key(o[count] + rel)
    BY <1>1 DEF SameKeys
  <2>2. ASSUME NEW k \in 1..count, k # 1, k # count PROVE Key(o[k] + rel) = Key(o[1] + rel)
    <3> DEFINE x == o[1] + rel
               y == o[k] + rel
               v == o[count] + rel
    <3>1. 1 \in 1..count /\ count \in 1..count /\ 1 < k /\ k < count
      BY <2>2
    <3>2. x \in Pos /\ y \in Pos /\ v \in Pos /\ suffixLess(x, y) /\ suffixLess(y, v)
      BY <1>0, <3>1 DEF ColumnSorted
    <3> HIDE DEF x, y, v
    <3>3. Key(x) \in Keys /\ Key(y) \in Keys /\ Key(v) \in Keys
      BY <3>2, KeyIs
    <3>4. Key(x) = Key(y) \/ KeyLess(Key(x), Key(y))
      BY <3>2, KeysFollow
    <3>5. Key(y) = Key(v) \/ KeyLess(Key(y), Key(v))
      BY <3>2, KeysFollow
    <3>6. Key(x) = Key(v)
      BY <2>1 DEF x, v
    <3>7. Key(x) = Key(y)
      BY <3>3, <3>4, <3>5, <3>6, KeyLessOnce
    <3> QED
      BY <3>7 DEF x, y
  <2> QED
    BY <1>0, <2>1, <2>2
<1>2. CASE ~(count = 2 \/ rel > Width - 3)
  <2>1. \A i \in 0..2 : ColumnEqual(start, count, rel + i)
    BY <1>2 DEF SameKeys
  <2>2. ASSUME NEW g \in 1..count, NEW i \in 0..2
        PROVE  data[Group(start, g) + rel + i] = data[start + rel + i]
    <3>1. data[Group(start, g) + (rel + i)] = data[start + (rel + i)]
      <4>1. rel + i \in Nat /\ ColumnEqual(start, count, rel + i)
        BY <2>1
      <4> QED
        BY <4>1, ColumnEqualIs
    <3>2. Group(start, g) \in Nat
      BY GroupIs
    <3>3. Group(start, g) + (rel + i) = Group(start, g) + rel + i /\ start + (rel + i) = start + rel + i
      BY <3>2
    <3> QED
      BY <3>1, <3>3
  <2>3. ASSUME NEW k \in 1..count
        PROVE  Key(o[k] + rel) = <<data[start + rel], data[start + rel + 1], data[start + rel + 2]>>
    <3>1. PICK g \in 1..count : o[k] = Group(start, g)
      BY OrderIs
    <3>2. Group(start, g) \in Nat
      BY GroupIs
    <3> DEFINE x == Group(start, g)
    <3> HIDE DEF x
    <3>3. x + rel + 0 = x + rel /\ start + rel + 0 = start + rel
      BY <3>2 DEF x
    <3>4. data[x + rel + 0] = data[start + rel + 0] /\ data[x + rel + 1] = data[start + rel + 1] /\ data[x + rel + 2] = data[start + rel + 2]
      BY <2>2 DEF x
    <3> QED
      BY <3>1, <3>3, <3>4 DEF Key, x
  <2>4. 1 \in 1..count
    OBVIOUS
  <2> QED
    BY <1>0, <2>3, <2>4
<1> QED
  BY <1>1, <1>2

\* The sort of the last column.
LEMMA SuffixOrderSorts ==
    ASSUME DataOK, NEW s \in Seq(Pos), Distinct(s), Len(s) > 0
    PROVE  /\ sortSuffixOrder(s) \in Seq(Pos)
           /\ Len(sortSuffixOrder(s)) = Len(s)
           /\ SortedBy(sortSuffixOrder(s), SuffixOrder)
           /\ Elems(sortSuffixOrder(s)) = Elems(s)
<1>1. Linear(SuffixOrder, Pos)
  BY SuffixesInOrder
<1>2. CASE Len(s) <= ShortRunMax
  <2> DEFINE z == InsertionSort(s, SuffixOrder)
  <2>1. sortSuffixOrder(s) = z
    BY <1>2 DEF sortSuffixOrder
  <2>2. z \in Seq(Pos)
    BY <1>1, InsertionSorts
  <2>3. Len(z) = Len(s)
    BY <1>1, InsertionSorts
  <2>4. SortedBy(z, SuffixOrder)
    BY <1>1, InsertionSorts
  <2>5. Elems(z) = Elems(s)
    BY <1>1, InsertionSorts
  <2> HIDE DEF z
  <2> QED
    BY <2>1, <2>2, <2>3, <2>4, <2>5
<1>3. CASE ~(Len(s) <= ShortRunMax)
  <2> DEFINE z == HeapSort(s, SuffixOrder)
  <2>1. sortSuffixOrder(s) = z
    BY <1>3 DEF sortSuffixOrder
  <2>2. z \in Seq(Pos)
    BY <1>1, HeapSorts
  <2>3. Len(z) = Len(s)
    BY <1>1, HeapSorts
  <2>4. SortedBy(z, SuffixOrder)
    BY <1>1, HeapSorts
  <2>5. Elems(z) = Elems(s)
    BY <1>1, HeapSorts
  <2> HIDE DEF z
  <2> QED
    BY <2>1, <2>2, <2>3, <2>4, <2>5
<1> QED
  BY <1>2, <1>3

\* The order the columns start with.
LEMMA LastColumnSorted ==
    ASSUME DataOK, NEW start \in Nat, NEW count \in Nat, count > 1,
           start + count * Width <= len,
           NEW last, last = [g \in 1..count |-> start + (g - 1) * Width + Width - 1],
           NEW o, o = [g \in 1..count |-> sortSuffixOrder(last)[g] - (Width - 1)]
    PROVE  OrderOf(o, start, count) /\ ColumnSorted(o, Width - 1)
<1> DEFINE z == sortSuffixOrder(last)
           w == Width - 1
<1>0. Width \in Nat /\ Width > 2 /\ len \in Nat /\ w \in 0..(Width - 1) /\ w \in Nat
  BY StageAssumption DEF DataOK
<1>1. \A g \in 1..count : /\ last[g] = Group(start, g) + w
                          /\ last[g] \in Pos /\ Group(start, g) \in Nat
  <2> TAKE g \in 1..count
  <2> DEFINE x == (g - 1) * Width
             y == count * Width
  <2>1. x \in Nat /\ y \in Nat
    BY <1>0
  <2>2. last[g] = start + x + Width - 1 /\ Group(start, g) = start + x
    BY DEF Group
  <2>3. Group(start, g) \in Nat
    BY GroupIs
  <2>4. Group(start, g) + w \in start..(start + y - 1)
    BY <1>0, GroupIs
  <2> HIDE DEF x, y
  <2>5. last[g] = Group(start, g) + w
    BY <1>0, <2>1, <2>2
  <2>6. start + y <= len
    BY DEF y
  <2>7. last[g] \in Pos
    BY <1>0, <2>1, <2>3, <2>4, <2>5, <2>6 DEF Pos
  <2> QED
    BY <2>3, <2>5, <2>7
<1>2. last \in Seq(Pos) /\ Len(last) = count
  <2>1. last \in [1..count -> Pos]
    BY <1>1
  <2> QED
    BY <2>1
<1>3. Distinct(last)
  <2> SUFFICES ASSUME NEW g \in 1..count, NEW h \in 1..count, g # h, last[g] = last[h]
               PROVE  FALSE
    BY <1>2 DEF Distinct
  <2> QED
    BY <1>0, <1>1, ColumnsDiffer
<1>4. z \in Seq(Pos)
  BY <1>2, <1>3, SuffixOrderSorts
<1>5. Len(z) = count
  BY <1>2, <1>3, SuffixOrderSorts
<1>6. SortedBy(z, SuffixOrder)
  BY <1>2, <1>3, SuffixOrderSorts
<1>7. Elems(z) = Elems(last)
  BY <1>2, <1>3, SuffixOrderSorts
<1>8. o = [g \in 1..count |-> z[g] - w]
  OBVIOUS
<1> HIDE DEF z, w
<1>9. \A k \in 1..count : \E g \in 1..count : z[k] = last[g]
  <2>1. \A k \in 1..count : z[k] \in Elems(last)
    BY <1>5, <1>7 DEF Elems
  <2> QED
    BY <1>2, <2>1 DEF Elems
<1>10. \A g \in 1..count : \E k \in 1..count : z[k] = last[g]
  <2>1. \A g \in 1..count : last[g] \in Elems(z)
    BY <1>2, <1>7 DEF Elems
  <2> QED
    BY <1>5, <2>1 DEF Elems
<1>11. \A k \in 1..count : \E g \in 1..count : o[k] = Group(start, g)
  <2> TAKE k \in 1..count
  <2>1. PICK g \in 1..count : z[k] = last[g]
    BY <1>9
  <2>2. o[k] = Group(start, g)
    <3>1. o[k] = z[k] - w
      BY <1>8
    <3>2. last[g] = Group(start, g) + w /\ Group(start, g) \in Nat
      BY <1>1
    <3> QED
      BY <1>0, <2>1, <3>1, <3>2
  <2> QED
    BY <2>2
<1>12. \A g \in 1..count : \E k \in 1..count : o[k] = Group(start, g)
  <2> TAKE g \in 1..count
  <2>1. PICK k \in 1..count : z[k] = last[g]
    BY <1>10
  <2>2. o[k] = Group(start, g)
    <3>1. o[k] = z[k] - w
      BY <1>8
    <3>2. last[g] = Group(start, g) + w /\ Group(start, g) \in Nat
      BY <1>1
    <3> QED
      BY <1>0, <2>1, <3>1, <3>2
  <2> QED
    BY <2>2
<1>13. \A k \in 1..count : o[k] \in Nat /\ o[k] + w = z[k]
  <2> TAKE k \in 1..count
  <2>1. o[k] \in Nat
    BY <1>1, <1>11
  <2>2. z[k] \in Int
    <3>1. z[k] \in Pos
      BY <1>4, <1>5
    <3> QED
      BY <1>0, <3>1 DEF Pos
  <2> QED
    BY <1>0, <1>8, <2>1, <2>2
<1>14. o \in Seq(Nat) /\ Len(o) = count
  <2>1. o \in [1..count -> Nat]
    BY <1>8, <1>13
  <2> QED
    BY <2>1
<1>15. Elems(o) = GroupsAt(start, count)
  <2>1. Elems(o) = {o[k] : k \in 1..count}
    BY <1>14 DEF Elems
  <2>2. GroupsAt(start, count) = {Group(start, g) : g \in 1..count}
    BY DEF GroupsAt
  <2>3. ASSUME NEW x \in Elems(o) PROVE x \in GroupsAt(start, count)
    <3>1. PICK k \in 1..count : x = o[k]
      BY <2>1
    <3> QED
      BY <1>11, <2>2, <3>1
  <2>4. ASSUME NEW x \in GroupsAt(start, count) PROVE x \in Elems(o)
    <3>1. PICK g \in 1..count : x = Group(start, g)
      BY <2>2
    <3> QED
      BY <1>12, <2>1, <3>1
  <2> QED
    BY <2>3, <2>4
<1>16. ColumnSorted(o, w)
  <2>1. \A k \in 1..count : o[k] + w \in Pos
    BY <1>4, <1>5, <1>13
  <2>2. ASSUME NEW j \in 1..count, NEW k \in 1..count, j < k
        PROVE  suffixLess(o[j] + w, o[k] + w)
    <3>1. <<z[j], z[k]>> \in SuffixOrder
      BY <1>5, <1>6, <2>2 DEF SortedBy
    <3>2. suffixLess(z[j], z[k])
      BY <3>1 DEF SuffixOrder
    <3> QED
      BY <1>13, <3>2
  <2> QED
    BY <1>14, <2>1, <2>2 DEF ColumnSorted
<1> QED
  BY <1>14, <1>15, <1>16 DEF OrderOf, w

\* After n columns of a run: the positions of these are recorded, and the order is
\* right for the next one.
Emitted(st, n, start, count, C, room) ==
    /\ st \in EmitStates
    /\ OrderOf(st.order, start, count)
    /\ n < Width => ColumnSorted(st.order, Width - 1 - n)
    /\ Kept(st.arena, st.runs, C \cup Columns(start, count, Width - n))
    /\ Len(st.arena) <= room + n * count

\* A step of the columns, as emitFullGroupRunGeneric takes it.
NextColumn(st, n, start, count) ==
    LET rel == Width - n
        out == AppendColumn(st, rel, SameKeys(start, count, st.order, rel))
    IN  IF rel = 0 \/ (count > 2 /\ ColumnEqual(start, count, rel - 1)) THEN out
        ELSE [out EXCEPT !.order = Induce(@, rel - 1)]

\* One column: its records, and the order of the column before it.
LEMMA ColumnEmitted ==
    ASSUME DataOK, NEW start \in Nat, NEW count \in Nat, count > 1,
           start + count * Width <= len, NEW C,
           \A g \in 1..count, r \in 0..(Width - 1) : Group(start, g) + r \notin C,
           NEW room \in Nat, NEW n \in 1..Width, NEW st,
           Emitted(st, n - 1, start, count, C, room)
    PROVE  Emitted(NextColumn(st, n, start, count), n, start, count, C, room)
<1> DEFINE rel == Width - n
           o == st.order
           same == SameKeys(start, count, o, rel)
           out == AppendColumn(st, rel, same)
           D == C \cup Columns(start, count, rel + 1)
           E == C \cup Columns(start, count, rel)
           z == NextColumn(st, n, start, count)
<1>0. /\ Width \in Nat /\ Width > 2 /\ n \in Nat /\ rel \in Nat /\ rel \in 0..(Width - 1)
      /\ len \in Nat /\ Width - (n - 1) = rel + 1 /\ Width - 1 - (n - 1) = rel /\ n - 1 < Width
      /\ Width - n = rel /\ (n < Width <=> rel > 0) /\ Width - 1 - n = rel - 1
  BY StageAssumption DEF DataOK
<1>1. /\ st \in EmitStates /\ OrderOf(o, start, count) /\ ColumnSorted(o, rel)
      /\ Kept(st.arena, st.runs, D) /\ Len(st.arena) <= room + (n - 1) * count
  <2> HIDE DEF rel
  <2> QED
    BY <1>0 DEF Emitted
<1>2. Len(o) = count /\ o \in Seq(Nat) /\ 1 \in 1..count
  BY <1>1 DEF OrderOf
<1> HIDE DEF rel
<1>3. \A k \in 1..count : \E g \in 1..count : o[k] = Group(start, g)
  <2>1. OrderOf(o, start, count)
    BY <1>1
  <2> HIDE DEF o
  <2>2. Len(o) = count /\ Elems(o) = GroupsAt(start, count)
    BY <2>1 DEF OrderOf
  <2> TAKE k \in 1..count
  <2>3. o[k] \in GroupsAt(start, count)
    BY <2>2 DEF Elems
  <2> QED
    BY <2>3 DEF GroupsAt
<1>4. \A g \in 1..count : \E k \in 1..count : o[k] = Group(start, g)
  <2>1. OrderOf(o, start, count)
    BY <1>1
  <2> HIDE DEF o
  <2> QED
    BY <2>1, OrderIs
<1>5. Column(o, 1, count, rel) \cap D = {}
  <2> SUFFICES ASSUME NEW k \in 1..count, o[k] + rel \in D PROVE FALSE
    BY DEF Column
  <2>1. PICK g \in 1..count : o[k] = Group(start, g)
    BY <1>3
  <2>2. o[k] + rel \notin C
    BY <1>0, <2>1
  <2>3. PICK h \in 1..count, r \in (rel + 1)..(Width - 1) : o[k] + rel = Group(start, h) + r
    BY <2>2 DEF Columns
  <2>4. r \in 0..(Width - 1) /\ r # rel
    BY <1>0, <2>3
  <2>5. Group(start, g) + rel = Group(start, h) + r
    BY <2>1, <2>3
  <2>6. rel = r
    BY SMTT(30), <1>0, <2>4, <2>5, ColumnsDiffer
  <2> QED
    BY <2>4, <2>6
<1>6. D \cup Column(o, 1, count, rel) = E
  <2>1. ASSUME NEW k \in 1..count PROVE o[k] + rel \in E
    <3>1. PICK g \in 1..count : o[k] = Group(start, g)
      BY <1>3
    <3>2. rel \in rel..(Width - 1)
      BY <1>0
    <3> QED
      BY <3>1, <3>2 DEF Columns
  <2>2. ASSUME NEW g \in 1..count, NEW r \in (rel + 1)..(Width - 1)
        PROVE  Group(start, g) + r \in E
    <3>1. r \in rel..(Width - 1)
      BY <1>0
    <3> QED
      BY <3>1 DEF Columns
  <2>3. ASSUME NEW g \in 1..count, NEW r \in rel..(Width - 1)
        PROVE  Group(start, g) + r \in D \cup Column(o, 1, count, rel)
    <3>1. CASE r = rel
      <4>1. PICK k \in 1..count : o[k] = Group(start, g)
        BY <1>4
      <4> QED
        BY <3>1, <4>1 DEF Column
    <3>2. CASE r # rel
      <4>1. r \in (rel + 1)..(Width - 1)
        BY <1>0, <3>2
      <4> QED
        BY <4>1 DEF Columns
    <3> QED
      BY <3>1, <3>2
  <2>4. Column(o, 1, count, rel) \subseteq E
    BY <2>1 DEF Column
  <2>5. Columns(start, count, rel + 1) \subseteq E
    BY <2>2 DEF Columns
  <2>6. Columns(start, count, rel) \subseteq D \cup Column(o, 1, count, rel)
    BY <2>3 DEF Columns
  <2> QED
    BY <2>4, <2>5, <2>6
<1>7. same => \A k \in 1..count : Key(o[k] + rel) = Key(o[1] + rel)
  <2> HIDE DEF o
  <2>1. ASSUME same PROVE \A k \in 1..Len(o) : Key(o[k] + rel) = Key(o[1] + rel)
    BY <1>0, <1>1, <2>1, SameKeysAre
  <2> QED
    BY <1>2, <2>1
<1>8. same \in BOOLEAN
  BY DEF SameKeys, ColumnEqual
<1> HIDE DEF same, D, E
<1>9. /\ out \in EmitStates /\ out.order = o
      /\ Kept(out.arena, out.runs, E)
      /\ Len(out.arena) <= Len(st.arena) + count
  <2>1. /\ DataOK /\ st \in EmitStates /\ rel \in Nat /\ ColumnSorted(st.order, rel)
        /\ Kept(st.arena, st.runs, D) /\ same \in BOOLEAN
        /\ Column(st.order, 1, Len(st.order), rel) \cap D = {}
        /\ same => \A k \in 1..Len(st.order) : Key(st.order[k] + rel) = Key(st.order[1] + rel)
    BY <1>0, <1>1, <1>2, <1>5, <1>7, <1>8
  <2>2. out \in EmitStates
    BY <2>1, ColumnAppended
  <2>3. out.order = o
    BY <2>1, ColumnAppended
  <2>4. Kept(out.arena, out.runs, D \cup Column(st.order, 1, Len(st.order), rel))
    BY <2>1, ColumnAppended
  <2>5. Len(out.arena) <= Len(st.arena) + Len(st.order)
    BY <2>1, ColumnAppended
  <2> HIDE DEF out
  <2> QED
    BY <1>2, <1>6, <2>2, <2>3, <2>4, <2>5
<1> HIDE DEF out
<1>10. Len(out.arena) <= room + n * count
  <2> DEFINE a == Len(st.arena)
             b == Len(out.arena)
             x == (n - 1) * count
             y == n * count
  <2>1. a \in Nat /\ b \in Nat
    BY <1>1, <1>9 DEF EmitStates
  <2>2. y = x + count /\ x \in Nat /\ y \in Nat
    BY <1>0
  <2>3. a <= room + x /\ b <= a + count
    BY <1>1, <1>9
  <2> HIDE DEF a, b, x, y
  <2>4. b <= room + y
    BY <2>1, <2>2, <2>3
  <2> QED
    BY <2>4 DEF b, y
<1>11. ASSUME rel > 0
       PROVE  \A k \in 1..Len(o) : o[k] + (rel - 1) \in Pos
  <2> TAKE k \in 1..Len(o)
  <2>1. o[k] \in Nat
    BY <1>2
  <2> DEFINE x == o[k]
  <2>2. x \in Nat /\ x + rel \in Pos
    BY <1>1, <2>1 DEF ColumnSorted
  <2> HIDE DEF x
  <2>3. x + (rel - 1) \in Pos
    BY <1>0, <1>11, <2>2 DEF Pos
  <2> QED
    BY <2>3 DEF x
<1>12. CASE rel = 0 \/ (count > 2 /\ ColumnEqual(start, count, rel - 1))
  <2>1. z = out
    BY <1>12 DEF NextColumn, rel, out, same, o
  <2>2. ASSUME n < Width PROVE ColumnSorted(o, rel - 1)
    <3>1. rel > 0 /\ ColumnEqual(start, count, rel - 1) /\ rel - 1 \in Nat
      BY <1>0, <1>12, <2>2
    <3>2. \A k \in 1..Len(o) : data[o[k] + (rel - 1)] = data[start + (rel - 1)]
      BY <1>2, <1>3, <3>1, ColumnEqualIs
    <3> QED
      BY <1>0, <1>1, <1>2, <1>11, <3>1, <3>2, ColumnKept
  <2> HIDE DEF z, o
  <2>3. n < Width => ColumnSorted(z.order, Width - 1 - n)
    BY <1>0, <1>9, <2>1, <2>2
  <2>4. Kept(z.arena, z.runs, C \cup Columns(start, count, Width - n))
    BY <1>0, <1>9, <2>1 DEF E
  <2>5. z \in EmitStates /\ OrderOf(z.order, start, count) /\ Len(z.arena) <= room + n * count
    BY <1>1, <1>9, <1>10, <2>1
  <2>20. Emitted(z, n, start, count, C, room)
    BY <2>3, <2>4, <2>5 DEF Emitted
  <2> QED
    BY <2>20 DEF z
<1>13. CASE ~(rel = 0 \/ (count > 2 /\ ColumnEqual(start, count, rel - 1)))
  <2> DEFINE y == Induce(o, rel - 1)
  <2>1. z = [out EXCEPT !.order = y]
    <3>1. z = [out EXCEPT !.order = Induce(@, rel - 1)]
      BY <1>13 DEF NextColumn, rel, out, same, o
    <3> QED
      BY <1>9, <3>1
  <2>2. rel > 0 /\ n < Width
    BY <1>0, <1>13
  <2>3. /\ DataOK /\ o \in Seq(Nat) /\ rel \in Nat /\ ColumnSorted(o, rel)
        /\ \A k \in 1..Len(o) : o[k] + (rel - 1) \in Pos
    BY <1>0, <1>1, <1>2, <1>11, <2>2
  <2> HIDE DEF o
  <2>4. y \in Seq(Nat)
    BY <2>2, <2>3, ColumnInduced
  <2>5. Len(y) = Len(o)
    BY <2>2, <2>3, ColumnInduced
  <2>6. Elems(y) = Elems(o)
    BY <2>2, <2>3, ColumnInduced
  <2>7. ColumnSorted(y, rel - 1)
    BY <2>2, <2>3, ColumnInduced
  <2> HIDE DEF y
  <2>8. OrderOf(y, start, count)
    BY <1>1, <2>4, <2>5, <2>6 DEF OrderOf
  <2>9. /\ z \in EmitStates /\ z.order = y /\ z.arena = out.arena /\ z.runs = out.runs
    BY <1>9, <2>1, <2>4 DEF EmitStates
  <2> HIDE DEF z
  <2>10. ColumnSorted(z.order, Width - 1 - n)
    BY <1>0, <2>7, <2>9
  <2>11. Kept(z.arena, z.runs, C \cup Columns(start, count, Width - n))
    BY <1>0, <1>9, <2>9 DEF E
  <2>12. OrderOf(z.order, start, count) /\ Len(z.arena) <= room + n * count
    BY <1>10, <2>8, <2>9
  <2>20. Emitted(z, n, start, count, C, room)
    BY <2>9, <2>10, <2>11, <2>12 DEF Emitted
  <2> QED
    BY <2>20 DEF z
<1> QED
  BY <1>12, <1>13

\* A run of several groups, column by column.
LEMMA GenericEmits ==
    ASSUME DataOK, NEW start \in Nat, NEW count \in Nat, count > 1,
           start + count * Width <= len, NEW C, Kept(arena, runs, C),
           \A g \in 1..count, r \in 0..(Width - 1) : Group(start, g) + r \notin C
    PROVE  /\ Kept(emitFullGroupRunGeneric(start, count).arena,
                   emitFullGroupRunGeneric(start, count).runs,
                   C \cup Columns(start, count, 0))
           /\ Len(emitFullGroupRunGeneric(start, count).arena) <= Len(arena) + count * Width
<1> DEFINE N == Width
           last == [g \in 1..count |-> start + (g - 1) * Width + Width - 1]
           o == [g \in 1..count |-> sortSuffixOrder(last)[g] - (Width - 1)]
           base == [order |-> o, arena |-> arena, runs |-> runs]
           V(n, g) == NextColumn(g, n, start, count)
           G(f) == f = [n \in 0..N |-> IF n = 0 THEN base ELSE V(n, f[n - 1])]
           f == CHOOSE g : G(g)
           room == Len(arena)
           T == [n \in 0..N |-> {g \in EmitStates : Emitted(g, n, start, count, C, room)}]
           step == [n \in 1..N |-> [g \in T[n - 1] |-> V(n, g)]]
<1>0. N \in Nat
  BY StageAssumption
<1>a. arena \in Seq(Pos) /\ runs \in Seq(Record) /\ room \in Nat
  <2>1. arena \in Seq(Pos) /\ runs \in Seq(Record)
    BY DEF Kept
  <2> QED
    BY <2>1
<1>1. base \in T[0]
  <2>1. OrderOf(o, start, count) /\ ColumnSorted(o, Width - 1)
    <3> DEFINE l == last
               y == o
    <3>1. l = [g \in 1..count |-> start + (g - 1) * Width + Width - 1]
      OBVIOUS
    <3>2. y = [g \in 1..count |-> sortSuffixOrder(l)[g] - (Width - 1)]
      OBVIOUS
    <3> HIDE DEF l, y
    <3>3. OrderOf(y, start, count) /\ ColumnSorted(y, Width - 1)
      BY <3>1, <3>2, LastColumnSorted
    <3> QED
      BY <3>3 DEF y
  <2> HIDE DEF o
  <2>2. base \in EmitStates /\ base.order = o /\ base.arena = arena /\ base.runs = runs
    BY <1>a, <2>1 DEF EmitStates, OrderOf
  <2>3. C \cup Columns(start, count, Width - 0) = C
    <3>1. \A r \in (Width - 0)..(Width - 1) : FALSE
      BY <1>0
    <3> QED
      BY <3>1 DEF Columns
  <2>4. room <= room + 0 * count /\ Width - 1 - 0 = Width - 1 /\ 0 \in 0..N
    BY <1>0, <1>a
  <2> HIDE DEF base
  <2>5. Emitted(base, 0, start, count, C, room)
    BY <2>1, <2>2, <2>3, <2>4 DEF Emitted
  <2> QED
    BY <2>2, <2>4, <2>5
<1>2. ASSUME NEW n \in 1..N, NEW g \in T[n - 1] PROVE V(n, g) \in T[n]
  <2>1. n - 1 \in 0..N /\ n \in 0..N
    BY <1>0
  <2>2. Emitted(g, n - 1, start, count, C, room)
    BY <2>1
  <2>3. Emitted(NextColumn(g, n, start, count), n, start, count, C, room)
    <3> HIDE DEF room
    <3> QED
      BY <1>a, <2>2, ColumnEmitted
  <2>4. NextColumn(g, n, start, count) \in EmitStates
    BY <2>3 DEF Emitted
  <2> QED
    BY <2>1, <2>3, <2>4
<1>3. \A n \in 1..N : \A m \in T[n - 1] : step[n][m] = V(n, m) /\ step[n][m] \in T[n]
  BY <1>2
<1>4. PICK h : Solves(h, N, T, base, step)
  <2> HIDE DEF T, V, step, base, N
  <2>1. \A n \in 1..N : \A m \in T[n - 1] : step[n][m] \in T[n]
    BY <1>3
  <2> QED
    BY <1>0, <1>1, <2>1, RecursionWithin
<1>5. G(h)
  <2> HIDE DEF T, V, step, base, N
  <2>1. ASSUME NEW n \in 0..N PROVE h[n] = IF n = 0 THEN base ELSE V(n, h[n - 1])
    <3>1. CASE n = 0
      BY <1>4, <3>1 DEF Solves
    <3>2. CASE n # 0
      <4>1. n \in 1..N /\ n - 1 \in 0..N
        BY <1>0, <3>2
      <4>2. h[n - 1] \in T[n - 1] /\ h[n] = step[n][h[n - 1]]
        BY <1>4, <4>1 DEF Solves
      <4> QED
        BY <1>3, <3>2, <4>1, <4>2
    <3> QED
      BY <3>1, <3>2
  <2>2. h = [n \in 0..N |-> h[n]]
    BY <1>4 DEF Solves
  <2> QED
    BY <2>1, <2>2
<1>6. G(f)
  BY <1>5
<1>7. emitFullGroupRunGeneric(start, count) = f[N]
  BY DEF emitFullGroupRunGeneric, NextColumn
<1> HIDE DEF f
<1>8. f[0] = base /\ \A n \in 1..N : f[n] = V(n, f[n - 1])
  <2> HIDE DEF V, base, N
  <2>1. ASSUME NEW n \in 1..N PROVE f[n] = V(n, f[n - 1])
    <3>1. n \in 0..N /\ n # 0
      BY <1>0
    <3> QED
      BY <1>6, <3>1
  <2>2. f[0] = base
    BY <1>0, <1>6
  <2> QED
    BY <2>1, <2>2
<1>9. \A n \in 0..N : f[n] \in T[n]
  <2> HIDE DEF T, V, step, base, N
  <2>1. \A n \in 1..N : f[n - 1] \in T[n - 1] => f[n] \in T[n]
    BY <1>3, <1>8
  <2>2. f[0] \in T[0]
    BY <1>1, <1>8
  <2> QED
    BY <1>0, <2>1, <2>2, HandedOn
<1>10. Emitted(f[N], N, start, count, C, room)
  <2>1. f[N] \in T[N] /\ N \in 0..N
    BY <1>0, <1>9
  <2> QED
    BY <2>1
<1>11. N - N = 0 /\ N * count = count * Width
  BY <1>0
<1> DEFINE z == f[N]
<1> HIDE DEF z
<1>12. Kept(z.arena, z.runs, C \cup Columns(start, count, 0))
  BY <1>10, <1>11 DEF Emitted, z
<1>13. Len(z.arena) <= room + count * Width
  BY <1>10, <1>11 DEF Emitted, z
<1> QED
  BY <1>7, <1>12, <1>13 DEF z

\* A literal is the record of one position.
LEMMA LiteralIs ==
    ASSUME DataOK, NEW ar \in Seq(Pos), NEW p \in Pos
    PROVE  /\ Literal(p) \in Record
           /\ RecordOK(Literal(p), ar)
           /\ Elems(PlacesIn(Literal(p), ar)) = {p}
           /\ Literal(p).key = Key(p)
<1> DEFINE r == Literal(p)
           ps == <<p>>
<1>1. r = [key |-> Key(p), at |-> p, count |-> 0]
  BY DEF Literal
<1>2. p \in Nat /\ Key(p) \in Keys
  <2>1. Key(p) \in Keys
    BY KeyIs
  <2> QED
    BY <2>1 DEF Pos
<1>3. r \in Record /\ r.count = 0 /\ r.at = p /\ r.key = Key(p)
  BY <1>1, <1>2 DEF Record
<1> HIDE DEF r
<1>4. PlacesIn(r, ar) = ps
  BY <1>3 DEF PlacesIn
<1>5. ps \in Seq(Pos) /\ Len(ps) = 1 /\ ps[1] = p
  OBVIOUS
<1> HIDE DEF ps
<1>6. SortedBy(ps, SuffixOrder)
  BY <1>5 DEF SortedBy
<1>7. Elems(ps) = {p}
  BY <1>5 DEF Elems
<1>8. RecordOK(r, ar)
  BY <1>3, <1>4, <1>5, <1>6, <1>7 DEF RecordOK
<1> QED
  BY <1>3, <1>4, <1>7, <1>8 DEF r

\* Consecutive literals behind the records.
LEMMA LiteralsAdded ==
    ASSUME DataOK, NEW ar, NEW rs, NEW C, Kept(ar, rs, C),
           NEW start \in Nat, NEW n \in Nat, start + n <= len,
           \A p \in start..(start + n - 1) : p \notin C
    PROVE  Kept(ar, rs \o emitLiteralRecords(start, n), C \cup (start..(start + n - 1)))
<1> DEFINE lits == emitLiteralRecords(start, n)
           q == rs \o lits
           m == Len(rs)
           new == start..(start + n - 1)
<1>0. ar \in Seq(Pos) /\ rs \in Seq(Record) /\ m \in Nat /\ len \in Nat
  <2>1. ar \in Seq(Pos) /\ rs \in Seq(Record)
    BY DEF Kept
  <2> QED
    BY <2>1 DEF DataOK
<1>1. \A i \in 1..n : start + i - 1 \in Pos /\ start + i - 1 \in new
  BY <1>0 DEF Pos
<1>2. lits \in Seq(Record) /\ Len(lits) = n /\ \A i \in 1..n : lits[i] = Literal(start + i - 1)
  <2>1. lits = [i \in 1..n |-> Literal(start + i - 1)]
    BY DEF emitLiteralRecords
  <2>2. \A i \in 1..n : Literal(start + i - 1) \in Record
    BY <1>0, <1>1, LiteralIs
  <2> HIDE DEF lits
  <2> QED
    BY <2>1, <2>2
<1> HIDE DEF lits
<1>3. /\ q \in Seq(Record) /\ Len(q) = m + n
      /\ \A i \in 1..m : q[i] = rs[i]
      /\ \A i \in 1..n : q[m + i] = lits[i]
  <2>1. q \in Seq(Record)
    BY <1>0, <1>2, JoinedIs
  <2>2. Len(q) = m + n
    BY <1>0, <1>2, JoinedIs
  <2>3. \A i \in 1..m : q[i] = rs[i]
    BY <1>0, <1>2, JoinedIs
  <2>4. \A i \in 1..n : q[m + i] = lits[i]
    BY <1>0, <1>2, JoinedIs
  <2> HIDE DEF q
  <2> QED
    BY <2>1, <2>2, <2>3, <2>4
<1> DEFINE X(i) == Elems(PlacesIn(q[i], ar))
<1> HIDE DEF q, m
<1>4. \A i \in 1..m : RecordOK(q[i], ar) /\ X(i) = Elems(PlacesIn(rs[i], ar))
  BY <1>3 DEF Kept, m
<1>5. \A i \in 1..n : RecordOK(q[m + i], ar) /\ X(m + i) = {start + i - 1}
  <2> TAKE i \in 1..n
  <2> DEFINE p == start + i - 1
  <2>1. q[m + i] = Literal(p) /\ p \in Pos
    BY <1>1, <1>2, <1>3
  <2> HIDE DEF p
  <2>2. RecordOK(Literal(p), ar) /\ Elems(PlacesIn(Literal(p), ar)) = {p}
    BY <1>0, <2>1, LiteralIs
  <2> QED
    BY <2>1, <2>2 DEF p
<1>6. \A i \in 1..(m + n) : i \in 1..m \/ \E j \in 1..n : i = m + j
  <2> TAKE i \in 1..(m + n)
  <2>1. i \notin 1..m => i - m \in 1..n /\ i = m + (i - m)
    BY <1>0
  <2> QED
    BY <2>1
<1>7. \A p : p \in C <=> \E i \in 1..m : p \in X(i)
  <2>1. \A p : p \in C <=> \E i \in 1..m : p \in Elems(PlacesIn(rs[i], ar))
    BY DEF Kept, m
  <2> QED
    BY <1>4, <2>1
<1>8. \A i, j \in 1..m : i # j => X(i) \cap X(j) = {}
  <2>1. \A i, j \in 1..m : i # j => Elems(PlacesIn(rs[i], ar)) \cap Elems(PlacesIn(rs[j], ar)) = {}
    BY DEF Kept, m
  <2> HIDE DEF X
  <2> QED
    BY <1>4, <2>1
<1>9. \A i \in 1..(m + n) : RecordOK(q[i], ar)
  BY <1>4, <1>5, <1>6
<1> HIDE DEF X
<1>10. ASSUME NEW i \in 1..(m + n), NEW j \in 1..(m + n), i # j
       PROVE  X(i) \cap X(j) = {}
  <2>1. ASSUME NEW u \in 1..m, NEW v \in 1..n PROVE X(u) \cap X(m + v) = {}
    <3>1. start + v - 1 \notin C
      BY <1>1
    <3> QED
      BY <1>5, <1>7, <3>1
  <2>2. ASSUME NEW u \in 1..n, NEW v \in 1..n, u # v PROVE X(m + u) \cap X(m + v) = {}
    <3>1. start + u - 1 # start + v - 1
      BY <2>2
    <3> QED
      BY <1>5, <3>1
  <2>3. CASE i \in 1..m /\ j \in 1..m
    BY <1>8, <1>10, <2>3
  <2>4. CASE i \in 1..m /\ j \notin 1..m
    BY <1>6, <2>1, <2>4
  <2>5. CASE i \notin 1..m /\ j \in 1..m
    <3>1. PICK v \in 1..n : i = m + v
      BY <1>6, <2>5
    <3>2. X(j) \cap X(m + v) = {}
      BY <2>1, <2>5
    <3> QED
      BY <3>1, <3>2
  <2>6. CASE i \notin 1..m /\ j \notin 1..m
    <3>1. PICK u \in 1..n : i = m + u
      BY <1>6, <2>6
    <3>2. PICK v \in 1..n : j = m + v
      BY <1>6, <2>6
    <3>3. u # v
      BY <1>10, <3>1, <3>2
    <3> QED
      BY <2>2, <3>1, <3>2, <3>3
  <2> QED
    BY <2>3, <2>4, <2>5, <2>6
<1>11. ASSUME NEW p
       PROVE  p \in C \cup new <=> \E i \in 1..(m + n) : p \in X(i)
  <2>1. ASSUME p \in C PROVE \E i \in 1..(m + n) : p \in X(i)
    <3>1. PICK i \in 1..m : p \in X(i)
      BY <1>7, <2>1
    <3>2. i \in 1..(m + n)
      BY <1>0
    <3> QED
      BY <3>1, <3>2
  <2>2. ASSUME p \in new PROVE \E i \in 1..(m + n) : p \in X(i)
    <3>1. p - start + 1 \in 1..n /\ start + (p - start + 1) - 1 = p
      BY <2>2
    <3>2. p \in X(m + (p - start + 1))
      BY <1>5, <3>1
    <3>3. m + (p - start + 1) \in 1..(m + n)
      BY <1>0, <3>1
    <3> QED
      BY <3>2, <3>3
  <2>3. ASSUME NEW i \in 1..(m + n), p \in X(i) PROVE p \in C \cup new
    <3>1. CASE i \in 1..m
      BY <1>7, <2>3, <3>1
    <3>2. CASE i \notin 1..m
      <4>1. PICK j \in 1..n : i = m + j
        BY <1>6, <3>2
      <4>2. p = start + j - 1
        BY <1>5, <2>3, <4>1
      <4> QED
        BY <1>1, <4>2
    <3> QED
      BY <3>1, <3>2
  <2> QED
    BY <2>1, <2>2, <2>3
<1>12. Kept(ar, q, C \cup new)
  <2>1. \A i \in 1..Len(q) : RecordOK(q[i], ar)
    BY <1>3, <1>9
  <2>2. \A i, j \in 1..Len(q) : i # j => Elems(PlacesIn(q[i], ar)) \cap Elems(PlacesIn(q[j], ar)) = {}
    BY <1>3, <1>10 DEF X
  <2>3. \A p : p \in C \cup new <=> \E i \in 1..Len(q) : p \in Elems(PlacesIn(q[i], ar))
    BY <1>3, <1>11 DEF X
  <2> HIDE DEF new
  <2> QED
    BY <1>0, <1>3, <2>1, <2>2, <2>3 DEF Kept
<1> QED
  BY <1>12 DEF q, lits

\* A template run records its positions, and stores no more than them.
LEMMA RunEmitted ==
    ASSUME DataOK, NEW start \in Nat, NEW count \in Nat, count > 0,
           start + count * Width <= len, Kept(arena, runs, 0..(start - 1))
    PROVE  /\ Kept(emitFullGroupRun(start, count).arena, emitFullGroupRun(start, count).runs,
                   0..(start + count * Width - 1))
           /\ Len(emitFullGroupRun(start, count).arena) <= Len(arena) + count * Width
<1> DEFINE z == emitFullGroupRun(start, count)
           w == count * Width
<1>0. Width \in Nat /\ Width > 2 /\ w \in Nat
  BY StageAssumption
<1>1. CASE count = 1
  <2>1. z = [arena |-> arena, runs |-> runs \o emitLiteralRecords(start, Width)]
    BY <1>1 DEF emitFullGroupRun
  <2>2. w = Width
    BY <1>0, <1>1
  <2>3. Kept(arena, runs \o emitLiteralRecords(start, Width),
             (0..(start - 1)) \cup (start..(start + Width - 1)))
    <3>1. start + Width <= len
      <4>1. start + w <= len
        OBVIOUS
      <4> HIDE DEF w
      <4> QED
        BY <2>2, <4>1
    <3>2. \A p \in start..(start + Width - 1) : p \notin 0..(start - 1)
      BY <1>0
    <3> QED
      BY <1>0, <3>1, <3>2, LiteralsAdded
  <2> HIDE DEF w, z
  <2>4. (0..(start - 1)) \cup (start..(start + Width - 1)) = 0..(start + w - 1)
    BY <1>0, <2>2
  <2>5. Kept(z.arena, z.runs, 0..(start + w - 1))
    BY <2>1, <2>3, <2>4
  <2>6. Len(z.arena) <= Len(arena) + w
    <3>1. Len(arena) \in Nat
      <4>1. arena \in Seq(Pos)
        BY DEF Kept
      <4> QED
        BY <4>1
    <3> QED
      BY <1>0, <2>1, <3>1
  <2> QED
    BY <2>5, <2>6 DEF w, z
<1>2. CASE count > 1
  <2> DEFINE C == 0..(start - 1)
  <2>1. z = emitFullGroupRunGeneric(start, count)
    BY <1>2 DEF emitFullGroupRun
  <2>2. \A g \in 1..count, r \in 0..(Width - 1) : Group(start, g) + r \notin C
    <3> TAKE g \in 1..count, r \in 0..(Width - 1)
    <3>1. Group(start, g) \in Nat /\ Group(start, g) >= start
      BY GroupIs
    <3> QED
      BY <1>0, <3>1
  <2>3. C \cup Columns(start, count, 0) = 0..(start + w - 1)
    <3>1. Columns(start, count, 0) = start..(start + w - 1)
      BY ColumnsAre
    <3> HIDE DEF w
    <3> QED
      BY <1>0, <3>1
  <2> HIDE DEF C
  <2>4. Kept(arena, runs, C)
    BY DEF C
  <2>5. Kept(z.arena, z.runs, C \cup Columns(start, count, 0))
    BY <1>2, <2>1, <2>2, <2>4, GenericEmits
  <2>6. Len(z.arena) <= Len(arena) + w
    BY <1>2, <2>1, <2>2, <2>4, GenericEmits
  <2> QED
    BY <2>3, <2>5, <2>6
<1> QED
  BY <1>1, <1>2

-----------------------------------------------------------------------------
(* Sorting the records by key.                                             *)

\* out has the elements of s, each as often.
Permutes(out, s, q, n) ==
    /\ q \in [1..n -> 1..n]
    /\ \A v \in 1..n : \E i \in 1..n : q[i] = v
    /\ \A i, j \in 1..n : i # j => q[i] # q[j]
    /\ \A i \in 1..n : out[i] = s[q[i]]

\* k is not greater than h by the bytes from n on.
NotGreater(k, h, n) ==
    IF n > 3 THEN TRUE
    ELSE IF n = 3 THEN k[3] <= h[3]
    ELSE IF n = 2 THEN k[2] < h[2] \/ (k[2] = h[2] /\ k[3] <= h[3])
    ELSE k[1] < h[1] \/ (k[1] = h[1] /\ (k[2] < h[2] \/ (k[2] = h[2] /\ k[3] <= h[3])))

KeysAscend(rs, n) == \A i, j \in 1..Len(rs) : i < j => NotGreater(rs[i].key, rs[j].key, n)

\* Records compared by one byte of the key.
ByByte(records, n) == {p \in records \X records : p[1].key[n] < p[2].key[n]}

\* Permuted records hold the same positions.
LEMMA RecordsPermuted ==
    ASSUME NEW ar, NEW rs, NEW C, Kept(ar, rs, C), NEW out \in Seq(Record),
           Len(out) = Len(rs), NEW q, Permutes(out, rs, q, Len(rs))
    PROVE  Kept(ar, out, C)
<1> DEFINE n == Len(rs)
           X(r) == Elems(PlacesIn(r, ar))
<1>1. /\ ar \in Seq(Pos)
      /\ \A i \in 1..n : RecordOK(rs[i], ar)
      /\ \A i, j \in 1..n : i # j => X(rs[i]) \cap X(rs[j]) = {}
      /\ \A p : p \in C <=> \E i \in 1..n : p \in X(rs[i])
  BY DEF Kept
<1>2. /\ \A i \in 1..n : q[i] \in 1..n /\ out[i] = rs[q[i]]
      /\ \A v \in 1..n : \E i \in 1..n : q[i] = v
      /\ \A i, j \in 1..n : i # j => q[i] # q[j]
  BY DEF Permutes
<1> HIDE DEF X, n
<1>3. \A i \in 1..n : RecordOK(out[i], ar)
  BY <1>1, <1>2
<1>4. ASSUME NEW i \in 1..n, NEW j \in 1..n, i # j PROVE X(out[i]) \cap X(out[j]) = {}
  <2>1. q[i] # q[j] /\ q[i] \in 1..n /\ q[j] \in 1..n /\ out[i] = rs[q[i]] /\ out[j] = rs[q[j]]
    BY <1>2, <1>4
  <2> QED
    BY <1>1, <2>1
<1>5. ASSUME NEW p PROVE p \in C <=> \E i \in 1..n : p \in X(out[i])
  <2>1. ASSUME p \in C PROVE \E i \in 1..n : p \in X(out[i])
    <3>1. PICK v \in 1..n : p \in X(rs[v])
      BY <1>1, <2>1
    <3>2. PICK i \in 1..n : q[i] = v
      BY <1>2
    <3>3. out[i] = rs[v]
      BY <1>2, <3>2
    <3> QED
      BY <3>1, <3>3
  <2>2. ASSUME NEW i \in 1..n, p \in X(out[i]) PROVE p \in C
    <3>1. q[i] \in 1..n /\ p \in X(rs[q[i]])
      BY <1>2, <2>2
    <3> QED
      BY <1>1, <3>1
  <2> QED
    BY <2>1, <2>2
<1>6. Len(out) = n
  BY DEF n
<1>7. \A i, j \in 1..n : i # j => X(out[i]) \cap X(out[j]) = {}
  BY <1>4
<1>8. \A p : p \in C <=> \E i \in 1..n : p \in X(out[i])
  BY <1>5
<1> QED
  BY <1>1, <1>3, <1>6, <1>7, <1>8 DEF Kept, X

\* One stable pass.
LEMMA PassSorts ==
    ASSUME NEW records \in SUBSET Record, NEW done \in Seq(records), NEW n \in 1..3,
           KeysAscend(done, n + 1)
    PROVE  /\ InsertionSort(done, ByByte(records, n)) \in Seq(records)
           /\ Len(InsertionSort(done, ByByte(records, n))) = Len(done)
           /\ KeysAscend(InsertionSort(done, ByByte(records, n)), n)
           /\ \E q : Permutes(InsertionSort(done, ByByte(records, n)), done, q, Len(done))
<1> DEFINE less == ByByte(records, n)
           z == InsertionSort(done, less)
           N == Len(done)
<1>1. \A r \in records : r.key \in Keys /\ r.key[1] \in Nat /\ r.key[2] \in Nat /\ r.key[3] \in Nat
  <2> TAKE r \in records
  <2>1. r.key \in Keys
    BY DEF Record
  <2> QED
    BY <2>1 DEF Keys
<1>2. \A r \in records : r.key[n] \in Nat
  <2>1. n = 1 \/ n = 2 \/ n = 3
    OBVIOUS
  <2> QED
    BY <1>1, <2>1
<1>3. \A x, y \in records : <<x, y>> \in less <=> x.key[n] < y.key[n]
  BY DEF ByByte
<1> HIDE DEF less
<1>4. Weak(less, records)
  <2>1. ASSUME NEW x \in records, NEW y \in records, <<x, y>> \in less PROVE <<y, x>> \notin less
    BY <1>2, <1>3, <2>1
  <2>2. ASSUME NEW x \in records, NEW y \in records, NEW v \in records,
               <<x, y>> \notin less, <<y, v>> \notin less
        PROVE  <<x, v>> \notin less
    BY <1>2, <1>3, <2>2
  <2> QED
    BY <2>1, <2>2 DEF Weak
<1>5. z \in Seq(records)
  BY <1>4, InsertionSortIs
<1>6. Len(z) = N
  BY <1>4, InsertionSortIs
<1>7. PICK q : Stable(z, done, q, N, less)
  BY <1>4, InsertionSortIs
<1> HIDE DEF z
<1>8. N \in Nat /\ \A i \in 1..N : z[i] \in records /\ done[i] \in records
  BY <1>5, <1>6
<1>9. Permutes(z, done, q, N)
  <2>1. /\ q \in [1..N -> 1..N] /\ \A v \in 1..N : \E i \in 1..N : q[i] = v
        /\ \A i \in 1..N : z[i] = done[q[i]]
    BY <1>7 DEF Stable
  <2>2. ASSUME NEW i \in 1..N, NEW j \in 1..N, i # j PROVE q[i] # q[j]
    <3>1. i < j \/ j < i
      BY <2>2
    <3> QED
      BY <1>7, <3>1 DEF Stable
  <2> QED
    BY <2>1, <2>2 DEF Permutes
<1>10. ASSUME NEW i \in 1..N, NEW j \in 1..N, i < j
       PROVE  NotGreater(z[i].key, z[j].key, n)
  <2>1. <<z[j], z[i]>> \notin less /\ (<<z[i], z[j]>> \in less \/ q[i] < q[j])
    BY <1>7, <1>10 DEF Stable
  <2> DEFINE k == z[i].key
             h == z[j].key
  <2>2. ~(h[n] < k[n]) /\ (k[n] < h[n] \/ q[i] < q[j])
    BY <1>3, <1>8, <2>1
  <2>3. /\ k[1] \in Nat /\ k[2] \in Nat /\ k[3] \in Nat
        /\ h[1] \in Nat /\ h[2] \in Nat /\ h[3] \in Nat
    BY <1>1, <1>8
  <2>4. k[n] = h[n] => NotGreater(k, h, n + 1)
    <3> SUFFICES ASSUME k[n] = h[n] PROVE NotGreater(k, h, n + 1)
      OBVIOUS
    <3>1. q[i] < q[j]
      BY <1>2, <1>8, <2>2
    <3>2. q[i] \in 1..N /\ q[j] \in 1..N /\ z[i] = done[q[i]] /\ z[j] = done[q[j]]
      BY <1>9 DEF Permutes
    <3> QED
      BY <3>1, <3>2 DEF KeysAscend
  <2> HIDE DEF k, h
  <2>5. CASE n = 3
    <3>1. k[3] <= h[3]
      BY <2>2, <2>3, <2>5
    <3>2. NotGreater(k, h, 3)
      BY <3>1 DEF NotGreater
    <3> QED
      BY <2>5, <3>2 DEF k, h
  <2>6. CASE n = 2
    <3>1. k[2] = h[2] => NotGreater(k, h, 3)
      BY <2>4, <2>6
    <3>2. k[2] = h[2] => k[3] <= h[3]
      BY <3>1 DEF NotGreater
    <3>3. k[2] < h[2] \/ (k[2] = h[2] /\ k[3] <= h[3])
      BY <2>2, <2>3, <2>6, <3>2
    <3>4. NotGreater(k, h, 2)
      BY <3>3 DEF NotGreater
    <3> QED
      BY <2>6, <3>4 DEF k, h
  <2>7. CASE n = 1
    <3>1. k[1] = h[1] => NotGreater(k, h, 2)
      BY <2>4, <2>7
    <3>2. k[1] = h[1] => k[2] < h[2] \/ (k[2] = h[2] /\ k[3] <= h[3])
      BY <3>1 DEF NotGreater
    <3>3. k[1] < h[1] \/ (k[1] = h[1] /\ (k[2] < h[2] \/ (k[2] = h[2] /\ k[3] <= h[3])))
      BY <2>2, <2>3, <2>7, <3>2
    <3>4. NotGreater(k, h, 1)
      BY <3>3 DEF NotGreater
    <3> QED
      BY <2>7, <3>4 DEF k, h
  <2> QED
    BY <2>5, <2>6, <2>7
<1>11. KeysAscend(z, n)
  BY <1>6, <1>10 DEF KeysAscend
<1> QED
  BY <1>5, <1>6, <1>9, <1>11 DEF z, less

\* Permuted in two steps.
LEMMA PermutedTwice ==
    ASSUME NEW n \in Nat, NEW s, NEW x, NEW y, NEW q, NEW p,
           Permutes(x, s, q, n), Permutes(y, x, p, n)
    PROVE  \E w : Permutes(y, s, w, n)
<1> DEFINE w == [i \in 1..n |-> q[p[i]]]
<1>1. \A i \in 1..n : p[i] \in 1..n /\ q[i] \in 1..n /\ x[i] = s[q[i]] /\ y[i] = x[p[i]]
  BY DEF Permutes
<1>2. w \in [1..n -> 1..n] /\ \A i \in 1..n : w[i] = q[p[i]]
  <2>1. ASSUME NEW i \in 1..n PROVE q[p[i]] \in 1..n
    <3>1. p[i] \in 1..n
      BY <1>1
    <3> QED
      BY <1>1, <3>1
  <2> QED
    BY <2>1
<1> HIDE DEF w
<1>3. ASSUME NEW v \in 1..n PROVE \E i \in 1..n : w[i] = v
  <2>1. PICK j \in 1..n : q[j] = v
    BY DEF Permutes
  <2>2. PICK i \in 1..n : p[i] = j
    BY DEF Permutes
  <2> QED
    BY <1>2, <2>1, <2>2
<1>4. ASSUME NEW i \in 1..n, NEW j \in 1..n, i # j PROVE w[i] # w[j]
  <2>1. p[i] # p[j] /\ p[i] \in 1..n /\ p[j] \in 1..n
    BY <1>1, <1>4 DEF Permutes
  <2>2. q[p[i]] # q[p[j]]
    BY <2>1 DEF Permutes
  <2> QED
    BY <1>2, <2>2
<1>5. ASSUME NEW i \in 1..n PROVE y[i] = s[w[i]]
  <2>1. p[i] \in 1..n /\ w[i] = q[p[i]] /\ y[i] = x[p[i]]
    BY <1>1, <1>2
  <2>2. x[p[i]] = s[q[p[i]]]
    BY <1>1, <2>1
  <2> QED
    BY <2>1, <2>2
<1>6. Permutes(y, s, w, n)
  BY <1>2, <1>3, <1>4, <1>5 DEF Permutes
<1> QED
  BY <1>6

\* The passes over the three bytes, the last first, sort by the whole key.
LEMMA RadixSorts ==
    ASSUME NEW rs \in Seq(Record)
    PROVE  /\ radixSortRunsByStoredKey(rs) \in Seq(Record)
           /\ Len(radixSortRunsByStoredKey(rs)) = Len(rs)
           /\ KeysAscend(radixSortRunsByStoredKey(rs), 1)
           /\ \E q : Permutes(radixSortRunsByStoredKey(rs), rs, q, Len(rs))
<1> DEFINE R == {rs[i] : i \in DOMAIN rs}
           N == Len(rs)
           a == InsertionSort(rs, ByByte(R, 3))
           b == InsertionSort(a, ByByte(R, 2))
           c == InsertionSort(b, ByByte(R, 1))
           z == radixSortRunsByStoredKey(rs)
<1>1. z = c
  BY DEF radixSortRunsByStoredKey, ByByte
<1>2. N \in Nat /\ R \in SUBSET Record /\ rs \in Seq(R)
  OBVIOUS
<1> HIDE DEF R, z
<1>3. KeysAscend(rs, 4)
  BY DEF KeysAscend, NotGreater
<1>4. 3 \in 1..3 /\ 2 \in 1..3 /\ 1 \in 1..3 /\ 3 + 1 = 4 /\ 2 + 1 = 3 /\ 1 + 1 = 2
  OBVIOUS
<1>a. KeysAscend(rs, 3 + 1)
  BY <1>3
<1>5. a \in Seq(R)
  BY <1>2, <1>a, <1>4, PassSorts
<1>6. Len(a) = N
  BY <1>2, <1>a, <1>4, PassSorts
<1>7. KeysAscend(a, 2 + 1)
  <2>1. KeysAscend(a, 3)
    BY <1>2, <1>a, <1>4, PassSorts
  <2> QED
    BY <2>1
<1>8. PICK q1 : Permutes(a, rs, q1, N)
  BY <1>2, <1>a, <1>4, PassSorts
<1> HIDE DEF a
<1>9. b \in Seq(R)
  BY <1>2, <1>4, <1>5, <1>7, PassSorts
<1>10. Len(b) = N
  BY <1>2, <1>4, <1>5, <1>6, <1>7, PassSorts
<1>11. KeysAscend(b, 1 + 1)
  <2>1. KeysAscend(b, 2)
    BY <1>2, <1>4, <1>5, <1>7, PassSorts
  <2> QED
    BY <2>1
<1>12. PICK q2 : Permutes(b, a, q2, N)
  BY <1>2, <1>4, <1>5, <1>6, <1>7, PassSorts
<1> HIDE DEF b
<1>13. c \in Seq(R)
  BY <1>2, <1>4, <1>9, <1>11, PassSorts
<1>14. Len(c) = N
  BY <1>2, <1>4, <1>9, <1>10, <1>11, PassSorts
<1>15. KeysAscend(c, 1)
  BY <1>2, <1>4, <1>9, <1>11, PassSorts
<1>16. PICK q3 : Permutes(c, b, q3, N)
  BY <1>2, <1>4, <1>9, <1>10, <1>11, PassSorts
<1> HIDE DEF c
<1>17. PICK q4 : Permutes(b, rs, q4, N)
  BY <1>2, <1>8, <1>12, PermutedTwice
<1>18. PICK q5 : Permutes(c, rs, q5, N)
  BY <1>2, <1>16, <1>17, PermutedTwice
<1>19. c \in Seq(Record)
  <2>1. \A i \in 1..N : c[i] \in Record
    <3>1. \A i \in 1..N : c[i] \in R
      BY <1>13, <1>14
    <3> QED
      BY <1>2, <3>1
  <2>2. c = [i \in 1..N |-> c[i]]
    BY <1>13, <1>14
  <2> QED
    BY <1>2, <2>1, <2>2
<1> QED
  BY <1>1, <1>14, <1>15, <1>18, <1>19 DEF z

-----------------------------------------------------------------------------
(* The positions of one key.                                               *)

\* Positions with the same key are ordered by what follows the key.
LEMMA SameOrder ==
    ASSUME DataOK, NEW X \in SUBSET Pos, NEW k, \A p \in X : Key(p) = k
    PROVE  /\ \A a, b \in X : <<a, b>> \in AfterKeyOrder <=> <<a, b>> \in SuffixOrder
           /\ Linear(AfterKeyOrder, X)
<1>1. ASSUME NEW a \in X, NEW b \in X
      PROVE  <<a, b>> \in AfterKeyOrder <=> <<a, b>> \in SuffixOrder
  <2>1. a \in Pos /\ b \in Pos /\ Key(a) = Key(b)
    OBVIOUS
  <2>2. suffixLessAfterKey(a, b) <=> suffixLess(a, b)
    BY <2>1, AfterEqualKeys
  <2> QED
    BY <2>1, <2>2 DEF AfterKeyOrder, SuffixOrder
<1>2. Linear(SuffixOrder, X)
  <2>1. Linear(SuffixOrder, Pos)
    BY SuffixesInOrder
  <2>2. \A a \in X : a \in Pos
    OBVIOUS
  <2> QED
    BY <2>1, <2>2 DEF Linear
<1>3. Linear(AfterKeyOrder, X)
  BY <1>1, <1>2 DEF Linear
<1> QED
  BY <1>1, <1>3

\* Comparisons that agree sort alike.
LEMMA SortedAlike ==
    ASSUME NEW X, NEW s \in Seq(X), NEW less, NEW more,
           \A a, b \in X : <<a, b>> \in less <=> <<a, b>> \in more, SortedBy(s, less)
    PROVE  SortedBy(s, more)
<1>1. \A i \in 1..Len(s) : s[i] \in X
  OBVIOUS
<1> QED
  BY <1>1 DEF SortedBy

\* Positions that follow on one another.
Follows(chain) ==
    /\ chain \in Seq(Pos) /\ Len(chain) > 0
    /\ \A i \in 2..Len(chain) : chain[i] = chain[i - 1] + 1

\* The positions of a chain are consecutive.
LEMMA FollowsIs ==
    ASSUME NEW chain, Follows(chain), len \in Nat
    PROVE  \A i \in 1..Len(chain) : chain[i] = chain[1] + (i - 1)
<1> DEFINE n == Len(chain) - 1
           f == [i \in 0..n |-> chain[i + 1]]
           T == [i \in 0..n |-> {chain[1] + i}]
<1>1. n \in Nat /\ Len(chain) = n + 1 /\ chain[1] \in Int
  <2>1. chain \in Seq(Pos) /\ Len(chain) > 0
    BY DEF Follows
  <2>2. chain[1] \in Pos
    BY <2>1
  <2> QED
    BY <2>1, <2>2 DEF Pos
<1> HIDE DEF n
<1>2. f[0] \in T[0]
  BY <1>1
<1>3. ASSUME NEW i \in 1..n, f[i - 1] \in T[i - 1] PROVE f[i] \in T[i]
  <2>1. i - 1 \in 0..n /\ i \in 0..n /\ i + 1 \in 2..Len(chain) /\ (i + 1) - 1 = i /\ (i - 1) + 1 = i
    BY <1>1
  <2>2. chain[i + 1] = chain[i] + 1
    BY <2>1 DEF Follows
  <2>3. chain[i] = chain[1] + (i - 1)
    BY <1>3, <2>1
  <2>4. chain[i + 1] = chain[1] + i
    BY <1>1, <2>2, <2>3
  <2> QED
    BY <2>1, <2>4
<1> HIDE DEF f, T
<1>4. \A i \in 0..n : f[i] \in T[i]
  BY <1>1, <1>2, <1>3, HandedOn
<1>5. ASSUME NEW i \in 1..Len(chain) PROVE chain[i] = chain[1] + (i - 1)
  <2>1. i - 1 \in 0..n /\ (i - 1) + 1 = i
    BY <1>1
  <2>2. f[i - 1] \in T[i - 1]
    BY <1>4, <2>1
  <2> QED
    BY <2>1, <2>2 DEF f, T
<1> QED
  BY <1>5

\* Where a run of c's ends, seen from a position in it.
LEMMA RunEnds ==
    ASSUME DataOK, NEW chain, Follows(chain), NEW c,
           \A i \in 1..Len(chain) : Key(chain[i]) = <<c, c, c>>
    PROVE  \E end \in Nat :
              /\ chain[Len(chain)] < end
              /\ \A x \in chain[1]..(end - 1) : At(x) = c
              /\ ChainOrder(chain, c) = IF At(end) > c THEN chain ELSE Reverse(chain)
              /\ At(end) # c /\ c \in Nat
<1> DEFINE n == Len(chain)
           last == chain[n]
           from == last + 2
           ends == {e \in from..(from + len) : e + 1 >= len \/ data[e + 1] # c}
           e == CHOOSE x \in ends : \A y \in ends : x <= y
<1>0. n \in Nat /\ n > 0 /\ len \in Nat /\ chain \in Seq(Pos) /\ 1 \in 1..n /\ n \in 1..n
  BY DEF Follows, DataOK
<1>1. \A i \in 1..n : chain[i] \in Pos /\ chain[i] \in Nat /\ chain[i] < len
  BY <1>0 DEF Pos
<1>2. c \in Nat /\ \A i \in 1..n : data[chain[i]] = c /\ data[chain[i] + 1] = c /\ data[chain[i] + 2] = c
  <2>1. ASSUME NEW i \in 1..n
        PROVE  data[chain[i]] = c /\ data[chain[i] + 1] = c /\ data[chain[i] + 2] = c
    BY DEF Key
  <2>2. data[chain[1]] \in Nat
    BY <1>0, <1>1, KeyIs
  <2> QED
    BY <1>0, <2>1, <2>2
<1>3. \A i \in 1..n : chain[i] = chain[1] + (i - 1)
  BY <1>0, FollowsIs
<1>4. last \in Nat /\ last < len /\ last = chain[1] + (n - 1) /\ chain[1] \in Nat
  BY <1>0, <1>1, <1>3
<1> HIDE DEF last
<1>5. ends \in SUBSET Nat /\ ends # {}
  <2>1. from + len \in from..(from + len) /\ (from + len) + 1 >= len
    BY SMTT(30), <1>0, <1>4
  <2>2. from + len \in ends
    BY <2>1
  <2>3. \A x \in from..(from + len) : x \in Nat
    BY <1>0, <1>4
  <2> QED
    BY <2>2, <2>3
<1>6. e \in ends /\ \A y \in ends : e <= y
  <2>1. \E x \in ends : \A y \in ends : x <= y
    <3> HIDE DEF ends
    <3> QED
      BY <1>5, LeastNat
  <2> HIDE DEF ends
  <2> QED
    BY <2>1
<1>7. ChainOrder(chain, c) = IF e + 1 < len /\ data[e + 1] > c THEN chain ELSE Reverse(chain)
  BY DEF ChainOrder, last
<1> HIDE DEF e
<1>8. e \in Nat /\ e >= from /\ e <= from + len /\ (e + 1 >= len \/ data[e + 1] # c)
  BY <1>0, <1>4, <1>6
<1>9. ASSUME NEW x \in chain[1]..e, x < len PROVE data[x] = c
  <2>1. CASE x <= last
    <3>1. x - chain[1] + 1 \in 1..n /\ chain[1] + ((x - chain[1] + 1) - 1) = x
      BY <1>0, <1>4, <2>1
    <3>2. chain[x - chain[1] + 1] = x
      BY <1>3, <3>1
    <3> QED
      BY <1>2, <3>1, <3>2
  <2>2. CASE x = last + 1 \/ x = last + 2
    BY <1>0, <1>2, <2>2 DEF last
  <2>3. CASE x > last + 2
    <3>1. x - 1 \in from..(from + len) /\ x - 1 < e /\ (x - 1) + 1 = x
      BY <1>0, <1>4, <1>8, <1>9, <2>3
    <3>2. x - 1 \notin ends
      <4> HIDE DEF ends
      <4> QED
        BY <1>8, <1>6, <3>1
    <3> QED
      BY <3>1, <3>2
  <2> QED
    BY <1>4, <2>1, <2>2, <2>3
<1> HIDE DEF ends
<1> DEFINE end == IF e + 1 < len THEN e + 1 ELSE len
<1>10. end \in Nat /\ end <= len /\ last < end /\ end <= e + 1
  BY <1>0, <1>4, <1>8
<1>11. \A x \in chain[1]..(end - 1) : At(x) = c
  <2> TAKE x \in chain[1]..(end - 1)
  <2>1. x \in chain[1]..e /\ x < len /\ x \in Nat
    BY <1>0, <1>4, <1>8, <1>10
  <2>2. data[x] = c
    BY <1>9, <2>1
  <2> QED
    BY <2>1, <2>2, AtIs
<1>12. e + 1 < len => At(end) = data[e + 1] /\ data[e + 1] # c
  <2> SUFFICES ASSUME e + 1 < len PROVE At(end) = data[e + 1] /\ data[e + 1] # c
    OBVIOUS
  <2>1. end = e + 1 /\ e + 1 \in Nat /\ data[e + 1] # c
    BY <1>0, <1>8
  <2> QED
    BY <2>1, AtIs
<1>13. ~(e + 1 < len) => At(end) = -1
  BY <1>0, AtIs
<1>14. At(end) # c /\ (At(end) > c <=> e + 1 < len /\ data[e + 1] > c)
  <2> HIDE DEF end
  <2>1. CASE e + 1 < len
    BY <1>12, <2>1
  <2>2. CASE ~(e + 1 < len)
    BY <1>2, <1>13, <2>2
  <2> QED
    BY <2>1, <2>2
<1> HIDE DEF end
<1>15. ChainOrder(chain, c) = IF At(end) > c THEN chain ELSE Reverse(chain)
  BY <1>7, <1>14
<1> QED
  BY <1>2, <1>10, <1>11, <1>14, <1>15 DEF last

\* Of two positions of a run of c's, the byte that ends it decides.
LEMMA InRun ==
    ASSUME DataOK, NEW a \in Nat, NEW b \in Nat, a < b, NEW end \in Nat, b < end, b < len,
           NEW c \in Nat, \A x \in a..(end - 1) : At(x) = c, At(end) # c
    PROVE  IF At(end) > c THEN suffixLess(a, b) ELSE suffixLess(b, a)
<1> DEFINE k == end - b
<1>0. /\ k \in Nat /\ len \in Nat /\ b + k = end /\ a + k < end /\ a + k \in a..(end - 1)
      /\ a \in 0..len /\ b \in 0..len
  BY DEF DataOK
<1> HIDE DEF k
<1>1. \A j \in 0..(k - 1) : At(a + j) = c /\ At(b + j) = c
  <2> TAKE j \in 0..(k - 1)
  <2>1. a + j \in a..(end - 1) /\ b + j \in a..(end - 1)
    BY <1>0
  <2> QED
    BY <2>1
<1>2. At(a + k) = c /\ At(b + k) = At(end) /\ At(end) \in Int
  BY <1>0, AtIs
<1>3. CASE At(end) > c
  <2>1. Before(a, b)
    BY <1>0, <1>1, <1>2, <1>3 DEF Before
  <2> QED
    BY <1>0, <1>3, <2>1, LessIs
<1>4. CASE ~(At(end) > c)
  <2>1. At(end) < c
    BY <1>2, <1>4
  <2>2. Before(b, a)
    BY <1>0, <1>1, <1>2, <2>1 DEF Before
  <2> QED
    BY <1>0, <1>4, <2>2, LessIs
<1> QED
  BY <1>3, <1>4

\* The closed form of a chain.
LEMMA ChainOrdered ==
    ASSUME DataOK, NEW chain, Follows(chain), NEW c,
           \A i \in 1..Len(chain) : Key(chain[i]) = <<c, c, c>>
    PROVE  /\ ChainOrder(chain, c) \in Seq(Elems(chain))
           /\ SortedBy(ChainOrder(chain, c), SuffixOrder)
           /\ Elems(ChainOrder(chain, c)) = Elems(chain)
<1> DEFINE n == Len(chain)
           z == ChainOrder(chain, c)
<1>0. n \in Nat /\ n > 0 /\ len \in Nat /\ chain \in Seq(Pos) /\ 1 \in 1..n /\ n \in 1..n
  BY DEF Follows, DataOK
<1>1. \A i \in 1..n : chain[i] \in Pos /\ chain[i] \in Nat /\ chain[i] < len
  BY <1>0 DEF Pos
<1>2. \A i \in 1..n : chain[i] = chain[1] + (i - 1)
  BY <1>0, FollowsIs
<1>3. PICK end \in Nat :
              /\ chain[Len(chain)] < end
              /\ \A x \in chain[1]..(end - 1) : At(x) = c
              /\ z = IF At(end) > c THEN chain ELSE Reverse(chain)
              /\ At(end) # c /\ c \in Nat
  BY RunEnds
<1> HIDE DEF z
<1>4. ASSUME NEW i \in 1..n, NEW j \in 1..n, i < j
      PROVE  IF At(end) > c THEN suffixLess(chain[i], chain[j]) ELSE suffixLess(chain[j], chain[i])
  <2> DEFINE a == chain[i]
             b == chain[j]
  <2>1. /\ a \in Nat /\ b \in Nat /\ a < b /\ b < len /\ chain[1] <= a /\ chain[1] \in Nat
        /\ b <= chain[n]
    <3> DEFINE f == chain[1]
               l == chain[n]
    <3>1. a = f + (i - 1) /\ b = f + (j - 1) /\ l = f + (n - 1)
      BY <1>0, <1>2
    <3>2. a \in Nat /\ b \in Nat /\ b < len /\ f \in Nat
      BY <1>0, <1>1
    <3> HIDE DEF a, b, f, l
    <3>3. a < b /\ f <= a /\ b <= l
      BY <1>0, <1>4, <3>1, <3>2
    <3> QED
      BY <3>2, <3>3 DEF f, l
  <2>2. b < end
    BY <1>0, <1>1, <1>3, <2>1
  <2> HIDE DEF a, b
  <2>3. \A x \in a..(end - 1) : At(x) = c
    <3> TAKE x \in a..(end - 1)
    <3>1. x \in chain[1]..(end - 1)
      BY <2>1
    <3> QED
      BY <1>3, <3>1
  <2>4. IF At(end) > c THEN suffixLess(a, b) ELSE suffixLess(b, a)
    BY <1>3, <2>1, <2>2, <2>3, InRun
  <2> QED
    BY <2>4 DEF a, b
<1>5. CASE At(end) > c
  <2>1. z = chain
    BY <1>3, <1>5
  <2>2. SortedBy(chain, SuffixOrder)
    BY <1>1, <1>4, <1>5 DEF SortedBy, SuffixOrder
  <2>3. chain \in Seq(Elems(chain))
    BY <1>0 DEF Elems
  <2> QED
    BY <2>1, <2>2, <2>3 DEF z
<1>6. CASE ~(At(end) > c)
  <2>1. z = [i \in 1..n |-> chain[(n - i) + 1]]
    BY <1>3, <1>6 DEF Reverse
  <2>2. Len(z) = n /\ \A i \in 1..n : z[i] = chain[(n - i) + 1] /\ (n - i) + 1 \in 1..n
    BY <1>0, <2>1
  <2>3. SortedBy(z, SuffixOrder)
    <3>1. ASSUME NEW i \in 1..n, NEW j \in 1..n, i < j PROVE <<z[i], z[j]>> \in SuffixOrder
      <4> DEFINE u == (n - i) + 1
                 v == (n - j) + 1
      <4>1. u \in 1..n /\ v \in 1..n /\ v < u /\ z[i] = chain[u] /\ z[j] = chain[v]
        BY <1>0, <2>2, <3>1
      <4> HIDE DEF u, v
      <4>2. suffixLess(chain[u], chain[v])
        BY <1>4, <1>6, <4>1
      <4> QED
        BY <1>1, <4>1, <4>2 DEF SuffixOrder
    <3> QED
      BY <2>2, <3>1 DEF SortedBy
  <2>4. ASSUME NEW i \in 1..n PROVE \E j \in 1..n : z[i] = chain[j]
    BY <2>2
  <2>5. ASSUME NEW j \in 1..n PROVE \E i \in 1..n : z[i] = chain[j]
    <3>1. (n - j) + 1 \in 1..n /\ (n - ((n - j) + 1)) + 1 = j
      BY <1>0
    <3>2. z[(n - j) + 1] = chain[j]
      BY <2>2, <3>1
    <3> QED
      BY <3>1, <3>2
  <2>6. Elems(z) = {z[i] : i \in 1..n} /\ Elems(chain) = {chain[i] : i \in 1..n}
    BY <2>2 DEF Elems
  <2>7. Elems(z) = Elems(chain)
    <3> HIDE DEF n
    <3> QED
      BY <2>4, <2>5, <2>6
  <2>8. z \in Seq(Elems(chain))
    <3>1. \A i \in 1..n : z[i] \in Elems(chain)
      BY <2>4, <2>6
    <3> QED
      BY <1>0, <2>1, <2>2, <3>1
  <2> QED
    BY <2>3, <2>7, <2>8 DEF z
<1> QED
  BY <1>5, <1>6

\* L holds the first n elements of s, in chains.
ChainsOf(L, s, n) ==
    /\ L \in Seq(Seq(Pos))
    /\ \A i \in 1..Len(L) : Follows(L[i])
    /\ \A i, j \in 1..Len(L) : i # j => Elems(L[i]) \cap Elems(L[j]) = {}
    /\ \A x : (\E i \in 1..Len(L) : x \in Elems(L[i])) <=> (\E j \in 1..n : x = s[j])
    /\ n > 0 => Len(L) > 0 /\ L[Len(L)][Len(L[Len(L)])] = s[n]

NextChains(done, s, n) ==
    LET k == Len(done)
    IN  IF n > 1 /\ s[n] = s[n - 1] + 1
        THEN [done EXCEPT ![k] = Append(@, s[n])]
        ELSE Append(done, <<s[n]>>)

\* One element of an ascending sequence more.
LEMMA ChainsGrow ==
    ASSUME len \in Nat, NEW s \in Seq(Pos), \A i, j \in 1..Len(s) : i < j => s[i] < s[j],
           NEW n \in 1..Len(s), NEW L, ChainsOf(L, s, n - 1)
    PROVE  ChainsOf(NextChains(L, s, n), s, n)
<1> DEFINE z == NextChains(L, s, n)
           k == Len(L)
           x == s[n]
<1>1. L \in Seq(Seq(Pos))
  BY DEF ChainsOf
<1>2. k \in Nat /\ x \in Pos /\ n \in Nat /\ n - 1 \in Nat
  BY <1>1
<1>3. /\ \A i \in 1..k : Follows(L[i]) /\ L[i] \in Seq(Pos)
      /\ \A i, j \in 1..k : i # j => Elems(L[i]) \cap Elems(L[j]) = {}
      /\ \A y : (\E i \in 1..k : y \in Elems(L[i])) <=> (\E j \in 1..(n - 1) : y = s[j])
      /\ n - 1 > 0 => k > 0 /\ L[k][Len(L[k])] = s[n - 1]
  <2>1. \A i \in 1..k : Follows(L[i])
    BY DEF ChainsOf
  <2>2. \A i \in 1..k : L[i] \in Seq(Pos)
    BY <2>1 DEF Follows
  <2>3. \A i, j \in 1..k : i # j => Elems(L[i]) \cap Elems(L[j]) = {}
    BY DEF ChainsOf
  <2>4. \A y : (\E i \in 1..k : y \in Elems(L[i])) <=> (\E j \in 1..(n - 1) : y = s[j])
    BY DEF ChainsOf
  <2>5. n - 1 > 0 => k > 0 /\ L[k][Len(L[k])] = s[n - 1]
    BY DEF ChainsOf
  <2> QED
    BY <2>1, <2>2, <2>3, <2>4, <2>5
<1>4. \A i \in 1..k : x \notin Elems(L[i])
  <2> SUFFICES ASSUME NEW i \in 1..k, x \in Elems(L[i]) PROVE FALSE
    OBVIOUS
  <2>1. PICK j \in 1..(n - 1) : x = s[j]
    BY <1>3
  <2>2. j \in 1..Len(s) /\ j < n
    BY <1>2
  <2>3. s[j] < s[n] /\ s[j] \in Pos
    BY <2>2
  <2> QED
    BY <2>1, <2>3 DEF Pos
<1>5. \A y : (\E j \in 1..n : y = s[j]) <=> y = x \/ (\E j \in 1..(n - 1) : y = s[j])
  <2>1. \A j \in 1..n : j = n \/ j \in 1..(n - 1)
    BY <1>2
  <2>2. n \in 1..n /\ \A j \in 1..(n - 1) : j \in 1..n
    BY <1>2
  <2> QED
    BY <2>1, <2>2
<1>6. CASE n > 1 /\ s[n] = s[n - 1] + 1
  <2> DEFINE l == L[k]
             m == Len(l)
             e == Append(l, x)
  <2>1. z = [L EXCEPT ![k] = e]
    BY <1>6 DEF NextChains
  <2>2. k \in 1..k /\ k > 0 /\ l[m] = s[n - 1]
    BY <1>2, <1>3, <1>6
  <2>3. l \in Seq(Pos) /\ m > 0 /\ m \in Nat /\ \A i \in 2..m : l[i] = l[i - 1] + 1
    <3>1. Follows(l)
      BY <1>3, <2>2
    <3> QED
      BY <3>1 DEF Follows
  <2> HIDE DEF l, x
  <2>4. /\ e \in Seq(Pos) /\ Len(e) = m + 1 /\ e[m + 1] = x
        /\ \A i \in 1..m : e[i] = l[i]
    BY <1>2, <2>3
  <2> HIDE DEF e, m
  <2>5. Follows(e)
    <3>1. ASSUME NEW i \in 2..(m + 1) PROVE e[i] = e[i - 1] + 1
      <4>1. CASE i = m + 1
        <5>1. m \in 1..m /\ i - 1 = m
          BY <2>3, <4>1
        <5>2. x = l[m] + 1
          BY <1>6, <2>2 DEF x
        <5> QED
          BY <2>4, <4>1, <5>1, <5>2
      <4>2. CASE i # m + 1
        <5>1. i \in 2..m /\ i \in 1..m /\ i - 1 \in 1..m
          BY <2>3, <4>2
        <5> QED
          BY <2>3, <2>4, <5>1
      <4> QED
        BY <4>1, <4>2
    <3>2. Len(e) > 0
      BY <2>3, <2>4
    <3> QED
      BY <2>4, <3>1, <3>2 DEF Follows
  <2>6. Elems(e) = Elems(l) \cup {x}
    <3>1. \A i \in 1..(m + 1) : i = m + 1 \/ i \in 1..m
      BY <2>3
    <3>2. m + 1 \in 1..(m + 1) /\ \A i \in 1..m : i \in 1..(m + 1)
      BY <2>3
    <3>3. Elems(e) = {e[i] : i \in 1..(m + 1)} /\ Elems(l) = {l[i] : i \in 1..m}
      BY <2>4 DEF Elems, m
    <3>4. ASSUME NEW i \in 1..(m + 1) PROVE e[i] \in Elems(l) \cup {x}
      BY <2>4, <3>1, <3>3
    <3>5. x \in Elems(e)
      BY <2>4, <3>2, <3>3
    <3>6. ASSUME NEW i \in 1..m PROVE l[i] \in Elems(e)
      BY <2>4, <3>2, <3>3
    <3> QED
      BY <3>3, <3>4, <3>5, <3>6
  <2> HIDE DEF z
  <2>7. z \in Seq(Seq(Pos)) /\ Len(z) = k /\ z[k] = e /\ \A i \in 1..k : i # k => z[i] = L[i]
    <3>1. L \in [1..k -> Seq(Pos)]
      BY <1>1
    <3>2. z \in [1..k -> Seq(Pos)]
      BY <2>1, <2>4, <3>1
    <3>3. k \in Nat
      BY <1>2
    <3>4. z \in Seq(Seq(Pos)) /\ Len(z) = k
      <4> HIDE DEF k
      <4> QED
        BY <3>2, <3>3
    <3>5. z[k] = e /\ \A i \in 1..k : i # k => z[i] = L[i]
      <4> HIDE DEF k
      <4> QED
        BY <2>1, <2>2, <3>1
    <3> QED
      BY <3>4, <3>5
  <2> HIDE DEF k
  <2>8. \A i \in 1..k : Elems(z[i]) = IF i = k THEN Elems(l) \cup {x} ELSE Elems(L[i])
    BY <2>6, <2>7
  <2>9. \A i \in 1..k : Follows(z[i])
    BY <1>3, <2>5, <2>7
  <2>10. ASSUME NEW i \in 1..k, NEW j \in 1..k, i # j PROVE Elems(z[i]) \cap Elems(z[j]) = {}
    <3>1. Elems(L[i]) \cap Elems(L[j]) = {} /\ x \notin Elems(L[i]) /\ x \notin Elems(L[j])
      BY <1>3, <1>4, <2>10
    <3>2. Elems(z[i]) \subseteq Elems(L[i]) \cup {x} /\ Elems(z[j]) \subseteq Elems(L[j]) \cup {x}
      BY <2>8 DEF l
    <3>3. i # k => Elems(z[i]) = Elems(L[i])
      BY <2>8
    <3>4. j # k => Elems(z[j]) = Elems(L[j])
      BY <2>8
    <3> QED
      BY <2>10, <3>1, <3>2, <3>3, <3>4
  <2>11. ASSUME NEW y
         PROVE  (\E i \in 1..k : y \in Elems(z[i])) <=> y = x \/ (\E i \in 1..k : y \in Elems(L[i]))
    <3>1. ASSUME NEW i \in 1..k, y \in Elems(z[i])
          PROVE  y = x \/ (\E j \in 1..k : y \in Elems(L[j]))
      BY <2>8, <3>1 DEF l
    <3>2. x \in Elems(z[k])
      BY <2>2, <2>8
    <3>3. ASSUME NEW i \in 1..k, y \in Elems(L[i]) PROVE y \in Elems(z[i])
      BY <2>8, <3>3 DEF l
    <3> QED
      BY <2>2, <3>1, <3>2, <3>3
  <2>12. z[Len(z)][Len(z[Len(z)])] = s[n]
    BY <2>4, <2>7 DEF x
  <2>13. \A y : (\E i \in 1..Len(z) : y \in Elems(z[i])) <=> (\E j \in 1..n : y = s[j])
    <3> TAKE y
    <3>1. (\E i \in 1..Len(z) : y \in Elems(z[i])) <=> (\E i \in 1..(k) : y \in Elems(z[i]))
      BY <2>7
    <3>2. (\E i \in 1..k : y \in Elems(L[i])) <=> (\E j \in 1..(n - 1) : y = s[j])
      BY <1>3
    <3>3. (\E j \in 1..n : y = s[j]) <=> y = x \/ (\E j \in 1..(n - 1) : y = s[j])
      BY <1>5
    <3> QED
      BY <3>1, <3>2, <3>3, <2>11
  <2>14. ChainsOf(z, s, n)
    <3>1. \A i, j \in 1..Len(z) : i # j => Elems(z[i]) \cap Elems(z[j]) = {}
      BY <2>7, <2>10
    <3>2. n > 0 => Len(z) > 0
      BY <2>2, <2>7
    <3>3. \A i \in 1..Len(z) : Follows(z[i])
      BY <2>7, <2>9
    <3> QED
      BY <2>7, <2>12, <2>13, <3>1, <3>2, <3>3 DEF ChainsOf
  <2> QED
    BY <2>14 DEF z
<1>7. CASE ~(n > 1 /\ s[n] = s[n - 1] + 1)
  <2> DEFINE e == <<x>>
  <2>1. z = Append(L, e)
    BY <1>7 DEF NextChains
  <2> HIDE DEF x
  <2>2. e \in Seq(Pos) /\ Len(e) = 1 /\ e[1] = x
    BY <1>2
  <2> HIDE DEF e
  <2>3. Follows(e)
    <3>1. \A i \in 2..1 : FALSE
      OBVIOUS
    <3> QED
      BY <2>2, <3>1 DEF Follows
  <2>4. Elems(e) = {x}
    BY <2>2 DEF Elems
  <2>5. z \in Seq(Seq(Pos)) /\ Len(z) = k + 1 /\ z[k + 1] = e /\ \A i \in 1..k : z[i] = L[i]
    BY <1>1, <2>1, <2>2
  <2> HIDE DEF z, k
  <2>6. \A i \in 1..(k + 1) : i = k + 1 \/ i \in 1..k
    BY <1>2
  <2>7. k + 1 \in 1..(k + 1) /\ \A i \in 1..k : i \in 1..(k + 1)
    BY <1>2
  <2>8. \A i \in 1..(k + 1) : Follows(z[i])
    BY <1>3, <2>3, <2>5, <2>6
  <2>9. ASSUME NEW i \in 1..(k + 1), NEW j \in 1..(k + 1), i # j
        PROVE  Elems(z[i]) \cap Elems(z[j]) = {}
    <3>1. CASE i = k + 1
      <4>1. j \in 1..k
        BY <2>6, <2>9, <3>1
      <4>2. x \notin Elems(L[j])
        BY <1>4, <4>1
      <4> QED
        BY <2>4, <2>5, <3>1, <4>1, <4>2
    <3>2. CASE j = k + 1
      <4>1. i \in 1..k
        BY <2>6, <2>9, <3>2
      <4>2. x \notin Elems(L[i])
        BY <1>4, <4>1
      <4> QED
        BY <2>4, <2>5, <3>2, <4>1, <4>2
    <3>3. CASE i # k + 1 /\ j # k + 1
      <4>1. i \in 1..k /\ j \in 1..k
        BY <2>6, <3>3
      <4>2. Elems(L[i]) \cap Elems(L[j]) = {}
        BY <1>3, <2>9, <4>1
      <4> QED
        BY <2>5, <4>1, <4>2
    <3> QED
      BY <3>1, <3>2, <3>3
  <2>10. ASSUME NEW y
         PROVE  (\E i \in 1..(k + 1) : y \in Elems(z[i]))
                  <=> y = x \/ (\E i \in 1..k : y \in Elems(L[i]))
    <3>1. ASSUME NEW i \in 1..(k + 1), y \in Elems(z[i])
          PROVE  y = x \/ (\E j \in 1..k : y \in Elems(L[j]))
      <4>1. CASE i = k + 1
        BY <2>4, <2>5, <3>1, <4>1
      <4>2. CASE i \in 1..k
        <5>1. z[i] = L[i]
          BY <2>5, <4>2
        <5> QED
          BY <3>1, <4>2, <5>1
      <4> QED
        BY <2>6, <4>1, <4>2
    <3>2. x \in Elems(z[k + 1])
      BY <2>4, <2>5
    <3>3. ASSUME NEW i \in 1..k, y \in Elems(L[i]) PROVE y \in Elems(z[i])
      BY <2>5, <3>3
    <3> QED
      BY <2>7, <3>1, <3>2, <3>3
  <2>11. z[Len(z)][Len(z[Len(z)])] = s[n]
    BY <2>2, <2>5 DEF x
  <2>12. \A y : (\E i \in 1..Len(z) : y \in Elems(z[i])) <=> (\E j \in 1..n : y = s[j])
    <3> TAKE y
    <3>1. (\E i \in 1..Len(z) : y \in Elems(z[i])) <=> (\E i \in 1..(k + 1) : y \in Elems(z[i]))
      BY <2>5
    <3>2. (\E i \in 1..k : y \in Elems(L[i])) <=> (\E j \in 1..(n - 1) : y = s[j])
      BY <1>3
    <3>3. (\E j \in 1..n : y = s[j]) <=> y = x \/ (\E j \in 1..(n - 1) : y = s[j])
      BY <1>5
    <3> QED
      BY <3>1, <3>2, <3>3, <2>10
  <2>13. ChainsOf(z, s, n)
    <3>1. \A i, j \in 1..Len(z) : i # j => Elems(z[i]) \cap Elems(z[j]) = {}
      BY <2>5, <2>9
    <3>2. n > 0 => Len(z) > 0
      BY <1>2, <2>5
    <3>3. \A i \in 1..Len(z) : Follows(z[i])
      BY <2>5, <2>8
    <3> QED
      BY <2>5, <2>11, <2>12, <3>1, <3>2, <3>3 DEF ChainsOf
  <2> QED
    BY <2>13 DEF z
<1> QED
  BY <1>6, <1>7

\* The chains of an ascending sequence.
LEMMA ChainsAre ==
    ASSUME len \in Nat, NEW s \in Seq(Pos), \A i, j \in 1..Len(s) : i < j => s[i] < s[j]
    PROVE  ChainsOf(Chains(s), s, Len(s))
<1> DEFINE N == Len(s)
           base == <<>>
           V(n, g) == NextChains(g, s, n)
           G(f) == f = [n \in 0..N |-> IF n = 0 THEN base ELSE V(n, f[n - 1])]
           f == CHOOSE g : G(g)
           T == [n \in 0..N |-> {L \in Seq(Seq(Pos)) : ChainsOf(L, s, n)}]
           step == [n \in 1..N |-> [g \in T[n - 1] |-> V(n, g)]]
<1>0. N \in Nat
  OBVIOUS
<1>1. base \in T[0]
  <2>1. base \in Seq(Seq(Pos)) /\ Len(base) = 0 /\ 0 \in 0..N
    BY <1>0
  <2>2. ~(\E j \in 1..0 : TRUE) /\ ~(0 > 0)
    OBVIOUS
  <2> HIDE DEF base
  <2>3. ChainsOf(base, s, 0)
    BY <2>1, <2>2 DEF ChainsOf
  <2> QED
    BY <2>1, <2>3
<1>2. ASSUME NEW n \in 1..N, NEW g \in T[n - 1] PROVE V(n, g) \in T[n]
  <2>1. n - 1 \in 0..N /\ n \in 0..N
    BY <1>0
  <2>2. ChainsOf(g, s, n - 1)
    BY <2>1
  <2>3. ChainsOf(NextChains(g, s, n), s, n)
    BY <2>2, ChainsGrow
  <2>4. NextChains(g, s, n) \in Seq(Seq(Pos))
    BY <2>3 DEF ChainsOf
  <2> QED
    BY <2>1, <2>3, <2>4
<1>3. \A n \in 1..N : \A m \in T[n - 1] : step[n][m] = V(n, m) /\ step[n][m] \in T[n]
  BY <1>2
<1>4. PICK h : Solves(h, N, T, base, step)
  <2> HIDE DEF T, V, step, base, N
  <2>1. \A n \in 1..N : \A m \in T[n - 1] : step[n][m] \in T[n]
    BY <1>3
  <2> QED
    BY <1>0, <1>1, <2>1, RecursionWithin
<1>5. G(h)
  <2> HIDE DEF T, V, step, base, N
  <2>1. ASSUME NEW n \in 0..N PROVE h[n] = IF n = 0 THEN base ELSE V(n, h[n - 1])
    <3>1. CASE n = 0
      BY <1>4, <3>1 DEF Solves
    <3>2. CASE n # 0
      <4>1. n \in 1..N /\ n - 1 \in 0..N
        BY <1>0, <3>2
      <4>2. h[n - 1] \in T[n - 1] /\ h[n] = step[n][h[n - 1]]
        BY <1>4, <4>1 DEF Solves
      <4> QED
        BY <1>3, <3>2, <4>1, <4>2
    <3> QED
      BY <3>1, <3>2
  <2>2. h = [n \in 0..N |-> h[n]]
    BY <1>4 DEF Solves
  <2> QED
    BY <2>1, <2>2
<1>6. G(f)
  BY <1>5
<1>7. Chains(s) = f[N]
  BY DEF Chains, NextChains
<1> HIDE DEF f
<1>8. f[0] = base /\ \A n \in 1..N : f[n] = V(n, f[n - 1])
  <2> HIDE DEF V, base, N
  <2>1. ASSUME NEW n \in 1..N PROVE f[n] = V(n, f[n - 1])
    <3>1. n \in 0..N /\ n # 0
      BY <1>0
    <3> QED
      BY <1>6, <3>1
  <2>2. f[0] = base
    BY <1>0, <1>6
  <2> QED
    BY <2>1, <2>2
<1>9. \A n \in 0..N : f[n] \in T[n]
  <2> HIDE DEF T, V, step, base, N
  <2>1. \A n \in 1..N : f[n - 1] \in T[n - 1] => f[n] \in T[n]
    BY <1>3, <1>8
  <2>2. f[0] \in T[0]
    BY <1>1, <1>8
  <2> QED
    BY <1>0, <2>1, <2>2, HandedOn
<1>10. ChainsOf(f[N], s, N)
  <2>1. f[N] \in T[N] /\ N \in 0..N
    BY <1>0, <1>9
  <2> QED
    BY <2>1
<1> QED
  BY <1>7, <1>10

\* The positions of a key of one repeated byte.
LEMMA ConstantRunSorts ==
    ASSUME DataOK, NEW X \in SUBSET Pos, NEW c, \A p \in X : Key(p) = <<c, c, c>>,
           NEW ps \in Seq(X), Distinct(ps), Elems(ps) = X, Len(ps) > 0
    PROVE  /\ constantRunOrder(ps) \in Seq(X)
           /\ SortedBy(constantRunOrder(ps), SuffixOrder)
           /\ Elems(constantRunOrder(ps)) = X
<1> DEFINE up == {p \in Pos \X Pos : p[1] < p[2]}
           s == InsertionSort(ps, up)
           L == Chains(s)
           M == [i \in DOMAIN L |-> ChainOrder(L[i], data[ps[1]])]
           z == MergeAll(M, AfterKeyOrder)
<1>0. len \in Nat /\ \A p \in X : p \in Pos /\ p \in Nat
  BY DEF DataOK, Pos
<1>1. constantRunOrder(ps) = z
  BY DEF constantRunOrder
<1>2. \A a, b \in X : <<a, b>> \in up <=> a < b
  BY <1>0
<1> HIDE DEF up
<1>3. Linear(up, X)
  <2>1. \A a, b \in X : <<a, b>> \in up => <<b, a>> \notin up
    BY <1>0, <1>2
  <2>2. \A a, b, d \in X : <<a, b>> \in up /\ <<b, d>> \in up => <<a, d>> \in up
    BY <1>0, <1>2
  <2>3. \A a, b \in X : a # b => <<a, b>> \in up \/ <<b, a>> \in up
    BY <1>0, <1>2
  <2> QED
    BY <2>1, <2>2, <2>3 DEF Linear
<1>4. s \in Seq(X)
  BY <1>3, InsertionSorts
<1>5. Len(s) = Len(ps)
  BY <1>3, InsertionSorts
<1>6. SortedBy(s, up)
  BY <1>3, InsertionSorts
<1>7. Elems(s) = X
  BY <1>3, InsertionSorts
<1> HIDE DEF s
<1>8. \A i, j \in 1..Len(s) : i < j => s[i] < s[j]
  <2>1. \A i \in 1..Len(s) : s[i] \in X
    BY <1>4
  <2> QED
    BY <1>2, <1>6, <2>1 DEF SortedBy
<1>9. s \in Seq(Pos)
  <2>1. Len(s) \in Nat /\ s = [i \in 1..Len(s) |-> s[i]] /\ \A i \in 1..Len(s) : s[i] \in X
    BY <1>4
  <2>2. \A i \in 1..Len(s) : s[i] \in Pos
    BY <1>0, <2>1
  <2> QED
    BY <2>1, <2>2
<1>10. ChainsOf(L, s, Len(s))
  BY <1>0, <1>8, <1>9, ChainsAre
<1> HIDE DEF L
<1>11. /\ L \in Seq(Seq(Pos))
       /\ \A i \in 1..Len(L) : Follows(L[i])
       /\ \A i, j \in 1..Len(L) : i # j => Elems(L[i]) \cap Elems(L[j]) = {}
  BY <1>10 DEF ChainsOf
<1>12. \A x : (\E i \in 1..Len(L) : x \in Elems(L[i])) <=> x \in X
  <2>1. \A x : x \in X <=> \E j \in 1..Len(s) : x = s[j]
    BY <1>7 DEF Elems
  <2>2. \A x : (\E i \in 1..Len(L) : x \in Elems(L[i])) <=> (\E j \in 1..Len(s) : x = s[j])
    BY <1>10 DEF ChainsOf
  <2> QED
    BY <2>1, <2>2
<1>13. Len(L) > 0 /\ Len(L) \in Nat /\ DOMAIN L = 1..Len(L)
  <2>1. Len(s) > 0
    BY <1>5
  <2>2. Len(L) > 0
    BY <1>10, <2>1 DEF ChainsOf
  <2> QED
    BY <1>11, <2>2
<1>14. data[ps[1]] = c
  <2>1. ps[1] \in X
    OBVIOUS
  <2> QED
    BY <2>1 DEF Key
<1>15. ASSUME NEW i \in 1..Len(L)
       PROVE  /\ M[i] \in Seq(X) /\ SortedBy(M[i], SuffixOrder) /\ Elems(M[i]) = Elems(L[i])
  <2>1. M[i] = ChainOrder(L[i], c)
    BY <1>13, <1>14
  <2> DEFINE l == L[i]
             m == ChainOrder(l, c)
  <2>2. Follows(l) /\ \A x \in Elems(l) : x \in X
    BY <1>11, <1>12
  <2> HIDE DEF l
  <2>3. \A j \in 1..Len(l) : Key(l[j]) = <<c, c, c>>
    <3>1. \A j \in 1..Len(l) : l[j] \in Elems(l)
      BY DEF Elems
    <3> QED
      BY <2>2, <3>1
  <2>4. m \in Seq(Elems(l))
    BY <2>2, <2>3, ChainOrdered
  <2>5. SortedBy(m, SuffixOrder)
    BY <2>2, <2>3, ChainOrdered
  <2>6. Elems(m) = Elems(l)
    BY <2>2, <2>3, ChainOrdered
  <2> HIDE DEF m
  <2>7. m \in Seq(X)
    <3>1. Len(m) \in Nat /\ m = [j \in 1..Len(m) |-> m[j]] /\ \A j \in 1..Len(m) : m[j] \in Elems(l)
      BY <2>4
    <3>2. \A j \in 1..Len(m) : m[j] \in X
      BY <2>2, <3>1
    <3> QED
      BY <3>1, <3>2
  <2> QED
    BY <2>1, <2>5, <2>6, <2>7 DEF m, l
<1>16. Len(M) = Len(L) /\ M \in Seq(Seq(X))
  <2>1. \A i \in 1..Len(L) : M[i] \in Seq(X)
    BY <1>15
  <2>2. M = [i \in 1..Len(L) |-> M[i]]
    BY <1>13
  <2> HIDE DEF M
  <2>3. M \in [1..Len(L) -> Seq(X)]
    BY <2>1, <2>2
  <2> QED
    BY <1>13, <2>3
<1> HIDE DEF M
<1>17. Linear(AfterKeyOrder, X)
  BY SameOrder
<1>18. \A a, b \in X : <<a, b>> \in AfterKeyOrder <=> <<a, b>> \in SuffixOrder
  BY SameOrder
<1>19. Parts(M, X, AfterKeyOrder, X)
  <2>1. \A i \in 1..Len(M) : SortedBy(M[i], AfterKeyOrder)
    <3> TAKE i \in 1..Len(M)
    <3>1. M[i] \in Seq(X) /\ SortedBy(M[i], SuffixOrder)
      BY <1>15, <1>16
    <3> QED
      BY <1>18, <3>1, SortedAlike
  <2>2. \A i, j \in 1..Len(M) : i # j => Elems(M[i]) \cap Elems(M[j]) = {}
    BY <1>11, <1>15, <1>16
  <2>3. \A x : x \in X <=> \E i \in 1..Len(M) : x \in Elems(M[i])
    BY <1>12, <1>15, <1>16
  <2> QED
    BY <1>16, <2>1, <2>2, <2>3 DEF Parts
<1>20. Len(M) > 0
  BY <1>13, <1>16
<1>21. z \in Seq(X)
  BY <1>17, <1>19, <1>20, MergeAllSorts
<1>22. SortedBy(z, AfterKeyOrder)
  BY <1>17, <1>19, <1>20, MergeAllSorts
<1>23. Elems(z) = X
  BY <1>17, <1>19, <1>20, MergeAllSorts
<1> HIDE DEF z
<1>24. SortedBy(z, SuffixOrder)
  BY <1>18, <1>21, <1>22, SortedAlike
<1> QED
  BY <1>1, <1>21, <1>23, <1>24

\* The records of one key.
GroupOf(group, k) ==
    /\ group \in Seq(Record) /\ Len(group) > 0
    /\ \A i \in 1..Len(group) : group[i].key = k /\ RecordOK(group[i], arena)
    /\ \A i, j \in 1..Len(group) :
          i # j => Elems(PlacesIn(group[i], arena)) \cap Elems(PlacesIn(group[j], arena)) = {}

GroupPlaces(group) ==
    {p \in Pos : \E i \in 1..Len(group) : p \in Elems(PlacesIn(group[i], arena))}

\* The records of a group, and all positions in them, have its key.
LEMMA GroupIsOfKey ==
    ASSUME NEW group, NEW k, GroupOf(group, k)
    PROVE  /\ \A i \in 1..Len(group) :
                 /\ Positions(group[i]) \in Seq(GroupPlaces(group))
                 /\ SortedBy(Positions(group[i]), SuffixOrder)
                 /\ Positions(group[i]) = PlacesIn(group[i], arena)
           /\ \A p \in GroupPlaces(group) : Key(p) = k
           /\ \A p : p \in GroupPlaces(group)
                       <=> \E i \in 1..Len(group) : p \in Elems(PlacesIn(group[i], arena))
<1> DEFINE X == GroupPlaces(group)
           P(i) == PlacesIn(group[i], arena)
<1>1. \A i \in 1..Len(group) : /\ group[i].key = k /\ P(i) \in Seq(Pos)
                               /\ SortedBy(P(i), SuffixOrder)
                               /\ \A p \in Elems(P(i)) : Key(p) = group[i].key
  BY DEF GroupOf, RecordOK
<1>2. \A i \in 1..Len(group) : Positions(group[i]) = P(i)
  BY DEF Positions, PlacesIn
<1> HIDE DEF P
<1>3. \A i \in 1..Len(group) : Elems(P(i)) \subseteq Pos
  <2> TAKE i \in 1..Len(group)
  <2>1. P(i) \in Seq(Pos)
    BY <1>1
  <2> QED
    BY <2>1 DEF Elems
<1>4. X = {p \in Pos : \E i \in 1..Len(group) : p \in Elems(P(i))}
  BY DEF GroupPlaces, P
<1>5. \A p : p \in X <=> \E i \in 1..Len(group) : p \in Elems(P(i))
  BY <1>3, <1>4
<1> HIDE DEF X
<1>6. \A p \in X : Key(p) = k
  BY <1>1, <1>5
<1>7. ASSUME NEW i \in 1..Len(group) PROVE P(i) \in Seq(X)
  <2> DEFINE s == P(i)
  <2>1. s \in Seq(Pos)
    BY <1>1
  <2>2. \A j \in 1..Len(s) : s[j] \in Elems(s)
    BY DEF Elems
  <2>3. \A j \in 1..Len(s) : s[j] \in X
    BY <1>5, <2>2
  <2> HIDE DEF s
  <2>4. Len(s) \in Nat /\ s = [j \in 1..Len(s) |-> s[j]]
    BY <2>1
  <2>5. s \in Seq(X)
    BY <2>3, <2>4
  <2> QED
    BY <2>5 DEF s
<1> QED
  BY <1>1, <1>2, <1>5, <1>6, <1>7 DEF X, P

\* Whatever way they are merged.
LEMMA GroupSorts ==
    ASSUME DataOK, NEW group, NEW k, GroupOf(group, k)
    PROVE  /\ GroupOrder(group) \in Seq(GroupPlaces(group))
           /\ SortedBy(GroupOrder(group), SuffixOrder)
           /\ Elems(GroupOrder(group)) = GroupPlaces(group)
<1> DEFINE X == GroupPlaces(group)
           n == Len(group)
           P(i) == Positions(group[i])
           z == GroupOrder(group)
           literal == n <= LiteralMax /\ (\A i \in 1..n : group[i].count = 0)
<1>1. n \in Nat /\ n > 0 /\ group \in Seq(Record)
  BY DEF GroupOf
<1>2. \A i \in 1..n : P(i) \in Seq(X)
  BY GroupIsOfKey
<1>3. \A i \in 1..n : SortedBy(P(i), SuffixOrder)
  BY GroupIsOfKey
<1>4. \A p : p \in X <=> \E i \in 1..n : p \in Elems(P(i))
  <2>1. \A i \in 1..n : P(i) = PlacesIn(group[i], arena)
    BY GroupIsOfKey
  <2>2. \A p : p \in X <=> \E i \in 1..n : p \in Elems(PlacesIn(group[i], arena))
    BY GroupIsOfKey
  <2> HIDE DEF P, X
  <2> QED
    BY <2>1, <2>2
<1>5. \A i, j \in 1..n : i # j => Elems(P(i)) \cap Elems(P(j)) = {}
  <2>1. \A i \in 1..n : P(i) = PlacesIn(group[i], arena)
    BY GroupIsOfKey
  <2>2. \A i, j \in 1..n : i # j => Elems(PlacesIn(group[i], arena)) \cap Elems(PlacesIn(group[j], arena)) = {}
    BY DEF GroupOf
  <2> HIDE DEF P
  <2> QED
    BY <2>1, <2>2
<1>6. X \in SUBSET Pos /\ \A p \in X : Key(p) = k
  <2>1. X \in SUBSET Pos
    BY DEF GroupPlaces
  <2>2. \A p \in X : Key(p) = k
    BY GroupIsOfKey
  <2> QED
    BY <2>1, <2>2
<1>a. \A i \in 1..n : group[i].key = k
  BY DEF GroupOf
<1>b. z = IF n = 1 THEN P(1)
          ELSE IF literal THEN tryWriteLiteralGroup(group)
          ELSE IF n = 2 THEN tryWriteTwoRuns(group)
          ELSE MergeAll([i \in 1..n |-> P(i)], AfterKeyOrder)
  BY DEF GroupOrder
<1> HIDE DEF X, z, literal
<1>7. Linear(AfterKeyOrder, X)
  BY <1>6, SameOrder
<1>8. \A a, b \in X : <<a, b>> \in AfterKeyOrder <=> <<a, b>> \in SuffixOrder
  BY <1>6, SameOrder
<1>9. \A i \in 1..n : SortedBy(P(i), AfterKeyOrder)
  <2> TAKE i \in 1..n
  <2>1. P(i) \in Seq(X) /\ SortedBy(P(i), SuffixOrder)
    BY <1>2, <1>3
  <2> HIDE DEF P
  <2> QED
    BY <1>8, <2>1, SortedAlike
<1> SUFFICES z \in Seq(X) /\ SortedBy(z, SuffixOrder) /\ Elems(z) = X
  BY DEF z, X
<1>10. CASE n = 1
  <2>1. z = P(1) /\ 1 \in 1..n /\ \A i \in 1..n : i = 1
    BY <1>b, <1>10
  <2> HIDE DEF P
  <2>2. Elems(P(1)) = X
    BY <1>4, <2>1
  <2> QED
    BY <1>2, <1>3, <2>1, <2>2
<1>11. CASE n # 1 /\ literal
  <2> DEFINE ps == [i \in DOMAIN group |-> group[i].at]
  <2>1. \A i \in 1..n : group[i].count = 0
    BY <1>11 DEF literal
  <2>2. DOMAIN group = 1..n /\ Len(ps) = n
    BY <1>1
  <2>3. \A i \in 1..n : P(i) = <<ps[i]>>
    BY <2>1, <2>2 DEF Positions
  <2> HIDE DEF ps
  <2>4. \A i \in 1..n : Elems(P(i)) = {ps[i]}
    BY <2>3 DEF Elems
  <2> HIDE DEF P
  <2>5. \A i \in 1..n : ps[i] \in X
    BY <1>4, <2>4
  <2>6. ps \in Seq(X)
    <3>1. ps = [i \in 1..n |-> ps[i]]
      BY <2>2 DEF ps
    <3> QED
      BY <1>1, <2>5, <3>1
  <2>7. Distinct(ps)
    BY <1>5, <2>2, <2>4 DEF Distinct
  <2>8. Elems(ps) = X
    <3>1. Elems(ps) = {ps[i] : i \in 1..n}
      BY <2>2 DEF Elems
    <3>2. \A p \in X : \E i \in 1..n : p = ps[i]
      BY <1>4, <2>4
    <3> QED
      BY <2>5, <3>1, <3>2
  <2> DEFINE g == group[1].key
             y == InsertionSort(ps, AfterKeyOrder)
  <2>9. z = IF Len(ps) >= ConstantMin /\ g[1] = g[2] /\ g[1] = g[3]
            THEN constantRunOrder(ps) ELSE y
    BY <1>b, <1>11 DEF tryWriteLiteralGroup, ps
  <2>10. g = k /\ 1 \in 1..n
    BY <1>1, <1>a
  <2> HIDE DEF g
  <2>11. CASE Len(ps) >= ConstantMin /\ g[1] = g[2] /\ g[1] = g[3]
    <3>1. z = constantRunOrder(ps)
      BY <2>9, <2>11
    <3> DEFINE c == g[1]
    <3>2. \A p \in X : Key(p) = <<c, c, c>>
      <4> TAKE p \in X
      <4>1. Key(p) = <<data[p], data[p + 1], data[p + 2]>> /\ Key(p) = g
        BY <1>6, <2>10 DEF Key
      <4>2. g[1] = data[p] /\ g[2] = data[p + 1] /\ g[3] = data[p + 2]
        BY <4>1
      <4> QED
        BY <2>11, <4>1, <4>2
    <3> HIDE DEF c
    <3>3. z \in Seq(X)
      BY <1>1, <1>6, <2>2, <2>6, <2>7, <2>8, <3>1, <3>2, ConstantRunSorts
    <3>4. SortedBy(z, SuffixOrder)
      BY <1>1, <1>6, <2>2, <2>6, <2>7, <2>8, <3>1, <3>2, ConstantRunSorts
    <3>5. Elems(z) = X
      BY <1>1, <1>6, <2>2, <2>6, <2>7, <2>8, <3>1, <3>2, ConstantRunSorts
    <3> QED
      BY <3>3, <3>4, <3>5
  <2>12. CASE ~(Len(ps) >= ConstantMin /\ g[1] = g[2] /\ g[1] = g[3])
    <3>1. z = y
      BY <2>9, <2>12
    <3>2. y \in Seq(X)
      BY <1>7, <2>6, <2>7, InsertionSorts
    <3>3. SortedBy(y, AfterKeyOrder)
      BY <1>7, <2>6, <2>7, InsertionSorts
    <3>4. Elems(y) = X
      BY <1>7, <2>6, <2>7, <2>8, InsertionSorts
    <3> HIDE DEF y
    <3>5. SortedBy(y, SuffixOrder)
      BY <1>8, <3>2, <3>3, SortedAlike
    <3> QED
      BY <3>1, <3>2, <3>4, <3>5
  <2> QED
    BY <2>11, <2>12
<1>12. CASE n = 2 /\ ~literal
  <2> DEFINE l == P(1)
             r == P(2)
             y == Merge(l, r, AfterKeyOrder)
  <2>1. z = y
    BY <1>b, <1>12 DEF tryWriteTwoRuns
  <2>2. 1 \in 1..n /\ 2 \in 1..n /\ \A i \in 1..n : i = 1 \/ i = 2
    BY <1>12
  <2>3. l \in Seq(X) /\ r \in Seq(X) /\ SortedBy(l, AfterKeyOrder) /\ SortedBy(r, AfterKeyOrder)
    BY <1>2, <1>9, <2>2
  <2>4. Elems(l) \cap Elems(r) = {}
    BY <1>5, <2>2
  <2>5. Elems(l) \cup Elems(r) = X
    <3> HIDE DEF P
    <3> QED
      BY <1>4, <2>2
  <2> HIDE DEF l, r
  <2>6. \A u \in 1..Len(l), v \in 1..Len(r) : l[u] # r[v]
    BY <2>4 DEF Elems
  <2>7. y \in Seq(X)
    BY <1>7, <2>3, <2>6, MergeSorts
  <2>8. SortedBy(y, AfterKeyOrder)
    BY <1>7, <2>3, <2>6, MergeSorts
  <2>9. Elems(y) = X
    <3>1. Elems(y) = Elems(l) \cup Elems(r)
      BY <1>7, <2>3, <2>6, MergeSorts
    <3> QED
      BY <2>5, <3>1
  <2> HIDE DEF y
  <2>10. SortedBy(y, SuffixOrder)
    BY <1>8, <2>7, <2>8, SortedAlike
  <2> QED
    BY <2>1, <2>7, <2>9, <2>10
<1>13. CASE n # 1 /\ n # 2 /\ ~literal
  <2> DEFINE L == [i \in 1..n |-> P(i)]
             y == MergeAll(L, AfterKeyOrder)
  <2>1. z = y
    BY <1>b, <1>13
  <2> HIDE DEF P
  <2>2. L \in Seq(Seq(X)) /\ Len(L) = n /\ \A i \in 1..n : L[i] = P(i)
    <3>1. L \in [1..n -> Seq(X)]
      BY <1>2
    <3> QED
      BY <1>1, <3>1
  <2> HIDE DEF L
  <2>3. Parts(L, X, AfterKeyOrder, X)
    <3>1. \A i \in 1..Len(L) : SortedBy(L[i], AfterKeyOrder)
      BY <1>9, <2>2
    <3>2. \A i, j \in 1..Len(L) : i # j => Elems(L[i]) \cap Elems(L[j]) = {}
      BY <1>5, <2>2
    <3>3. \A x : x \in X <=> \E i \in 1..Len(L) : x \in Elems(L[i])
      BY <1>4, <2>2
    <3> QED
      BY <2>2, <3>1, <3>2, <3>3 DEF Parts
  <2>4. y \in Seq(X)
    BY <1>1, <1>7, <2>2, <2>3, MergeAllSorts
  <2>5. SortedBy(y, AfterKeyOrder)
    BY <1>1, <1>7, <2>2, <2>3, MergeAllSorts
  <2>6. Elems(y) = X
    BY <1>1, <1>7, <2>2, <2>3, MergeAllSorts
  <2> HIDE DEF y
  <2>7. SortedBy(y, SuffixOrder)
    BY <1>8, <2>4, <2>5, SortedAlike
  <2> QED
    BY <2>1, <2>4, <2>6, <2>7
<1> QED
  BY <1>10, <1>11, <1>12, <1>13

-----------------------------------------------------------------------------
(* What the steps of the sort keep.                                        *)

InSize == len \in Nat /\ len < (MaxTries + 1) * Width

\* The groups so far are recorded.
Emitting ==
    /\ runStart \in 0..fullGroups
    /\ Kept(arena, runs, 0..(runStart * Width - 1))
    /\ Len(arena) <= runStart * Width
    /\ sa = <<>>

\* What has been written is less, by its keys, than what is recorded.
Writing ==
    /\ sa \in Seq(Pos) /\ SortedBy(sa, SuffixOrder)
    /\ Kept(arena, runs, Pos \ Elems(sa))
    /\ KeysAscend(runs, 1)
    /\ \A i \in 1..Len(sa), j \in 1..Len(runs) : KeyLess(Key(sa[i]), runs[j].key)

AllSorted == sa \in Seq(Pos) /\ SortedBy(sa, SuffixOrder) /\ Elems(sa) = Pos

\* The full groups, and what is left behind them.
LEMMA FullGroupsAre ==
    ASSUME len \in Nat
    PROVE  /\ fullGroups \in Nat /\ fullGroups * Width \in Nat
           /\ len % Width \in 0..(Width - 1)
           /\ fullGroups * Width + (len % Width) = len
           /\ \A n \in 0..fullGroups : n * Width \in Nat /\ n * Width <= fullGroups * Width
<1>0. Width \in Nat /\ Width > 0
  BY StageAssumption
<1>1. /\ fullGroups \in Nat /\ Width * fullGroups \in Nat
      /\ len % Width \in 0..(Width - 1) /\ len % Width = len - Width * fullGroups
  BY <1>0, DivMod DEF fullGroups
<1> DEFINE q == fullGroups
           r == len % Width
<1> HIDE DEF q, r
<1>2. q * Width = Width * q
  BY <1>0, <1>1 DEF q
<1> DEFINE x == q * Width
<1>3. x \in Nat /\ r \in 0..(Width - 1) /\ r = len - x /\ q \in Nat
  BY <1>1, <1>2 DEF q, r
<1>4. \A n \in 0..q : n * Width \in Nat /\ n * Width <= q * Width
  BY <1>0, <1>3
<1> HIDE DEF x
<1>5. x + r = len
  BY <1>0, <1>3
<1>6. fullGroups \in Nat /\ len % Width \in 0..(Width - 1)
  BY <1>1 DEF q, r
<1>7. fullGroups * Width \in Nat
  BY <1>3 DEF x, q
<1>8. fullGroups * Width + (len % Width) = len
  BY <1>5 DEF x, q, r
<1>9. \A n \in 0..fullGroups : n * Width \in Nat /\ n * Width <= fullGroups * Width
  BY <1>4 DEF q
<1> QED
  BY <1>6, <1>7, <1>8, <1>9

\* A template run, up to the next flagged group. There is room for it.
LEMMA EmitRunRight ==
    ASSUME DataOK, InSize, Emitting, EmitRun
    PROVE  /\ stage' = stage /\ data' = data /\ len' = len /\ sa' = <<>>
           /\ runStart' \in 0..fullGroups
           /\ Kept(arena', runs', 0..(runStart' * Width - 1))
           /\ Len(arena') <= runStart' * Width
<1> DEFINE ends == {g \in (runStart + 1)..fullGroups : g \in flags \/ g = fullGroups}
           end == CHOOSE g \in ends : \A h \in ends : g <= h
           count == end - runStart
           start == runStart * Width
           out == emitFullGroupRun(start, count)
<1>0. Width \in Nat /\ Width > 2 /\ len \in Nat /\ MaxTries \in Nat
  BY StageAssumption DEF InSize
<1>1. /\ fullGroups \in Nat /\ fullGroups * Width \in Nat /\ fullGroups * Width <= len
      /\ \A n \in 0..fullGroups : n * Width \in Nat /\ n * Width <= fullGroups * Width
  <2> DEFINE x == fullGroups * Width
             r == len % Width
  <2>a. x \in Nat
    BY <1>0, FullGroupsAre
  <2>b. r \in 0..(Width - 1)
    BY <1>0, FullGroupsAre
  <2>c. x + r = len
    BY <1>0, FullGroupsAre
  <2>1. x \in Nat /\ r \in 0..(Width - 1) /\ x + r = len
    BY <2>a, <2>b, <2>c
  <2> HIDE DEF x, r
  <2>2. x <= len
    BY <1>0, <2>1
  <2> QED
    BY <1>0, <2>2, FullGroupsAre DEF x
<1>2. /\ runStart \in Nat /\ runStart < fullGroups /\ sa = <<>>
      /\ Kept(arena, runs, 0..(runStart * Width - 1)) /\ Len(arena) <= runStart * Width
  BY <1>1 DEF EmitRun, Emitting
<1>3. end \in ends /\ \A h \in ends : end <= h
  <2>1. ends \in SUBSET Nat /\ ends # {}
    <3>1. fullGroups \in (runStart + 1)..fullGroups
      BY <1>1, <1>2
    <3> QED
      BY <1>2, <3>1
  <2>2. \E x \in ends : \A y \in ends : x <= y
    <3> HIDE DEF ends
    <3> QED
      BY <2>1, LeastNat
  <2> HIDE DEF ends
  <2> QED
    BY <2>2
<1>4. /\ end \in 0..fullGroups /\ end \in Nat /\ runStart < end /\ end <= fullGroups
      /\ count \in Nat /\ count > 0
  <2>1. end \in (runStart + 1)..fullGroups
    BY <1>3
  <2> HIDE DEF end
  <2> QED
    BY <1>1, <1>2, <2>1
<1>5. IF count > GroupRunMax \/ Len(out.arena) > ArenaCap
      THEN stage' = "declined" /\ UNCHANGED <<runStart, arena, runs>>
      ELSE /\ arena' = out.arena /\ runs' = out.runs /\ runStart' = end
           /\ UNCHANGED stage
  BY DEF EmitRun
<1>6. UNCHANGED <<len, data, sa>>
  BY DEF EmitRun
<1> HIDE DEF end, out
<1>7. start \in Nat /\ start + count * Width = end * Width /\ end * Width <= fullGroups * Width
  <2>1. start \in Nat
    BY <1>0, <1>2
  <2>2. runStart * Width + (end - runStart) * Width = end * Width
    BY <1>0, <1>2, <1>4
  <2> QED
    BY <1>1, <1>4, <2>1, <2>2
<1> HIDE DEF start, count
<1> DEFINE w == end * Width
           c == count * Width
           a == Len(arena)
           b == Len(out.arena)
           full == fullGroups * Width
<1>8. start + c <= len /\ w \in Nat /\ start + c = w /\ w <= full /\ c \in Nat /\ full <= len
  <2>1. w \in Nat /\ c \in Nat /\ w <= full /\ full <= len /\ start + c = w /\ full \in Nat
    BY <1>0, <1>1, <1>4, <1>7
  <2> HIDE DEF w, c, full
  <2> QED
    BY <1>0, <1>7, <2>1
<1>9. Kept(out.arena, out.runs, 0..(start + count * Width - 1))
  BY <1>2, <1>4, <1>7, <1>8, RunEmitted DEF out, start
<1>10. Len(out.arena) <= Len(arena) + count * Width
  BY <1>2, <1>4, <1>7, <1>8, RunEmitted DEF out, start
<1>11. a \in Nat /\ b \in Nat
  BY <1>2, <1>9 DEF Kept
<1>12. b <= w
  <2>1. a <= start /\ b <= a + c
    BY <1>2, <1>10 DEF start
  <2> HIDE DEF a, b, c, w
  <2> QED
    BY <1>7, <1>8, <1>11, <2>1
<1>13. ~(Len(out.arena) > ArenaCap)
  <2> DEFINE cap == (MaxTries + 1) * Width
  <2>1. cap \in Nat /\ len < cap /\ cap <= ArenaCap /\ ArenaCap \in Nat
    BY <1>0, CapacityAssumption DEF InSize
  <2> HIDE DEF w, b, cap, full, c
  <2>2. w <= len
    BY <1>0, <1>8
  <2>3. b <= ArenaCap
    BY <1>0, <1>8, <1>11, <1>12, <2>1, <2>2
  <2>4. ~(b > ArenaCap)
    BY <1>11, <2>1, <2>3
  <2> QED
    BY <2>4 DEF b
<1>14. ~(count > GroupRunMax)
  <2>1. fullGroups \in Nat /\ fullGroups < MaxTries + 1
    <3>1. len < (MaxTries + 1) * Width /\ MaxTries + 1 \in Nat
      BY <1>0 DEF InSize
    <3> QED
      BY <1>0, <3>1, DivLess DEF fullGroups
  <2>2. count <= fullGroups
    BY <1>1, <1>2, <1>4 DEF count
  <2> QED
    BY <1>0, <1>4, <2>1, <2>2, CapacityAssumption
<1>15. arena' = out.arena /\ runs' = out.runs /\ runStart' = end /\ stage' = stage
  BY <1>5, <1>13, <1>14
<1>16. Kept(out.arena, out.runs, 0..(end * Width - 1))
  <2>1. start + count * Width = end * Width
    BY <1>7
  <2>2. start + count * Width - 1 = end * Width - 1
    <3>1. start + c - 1 = w - 1
      <4> HIDE DEF c, w
      <4> QED
        BY <1>7, <1>8
    <3> QED
      BY <3>1
  <2> QED
    BY <1>9, <2>2
<1>17. Len(out.arena) <= end * Width
  BY <1>12 DEF b, w
<1> QED
  BY <1>2, <1>4, <1>6, <1>15, <1>16, <1>17

\* The literals of the partial group, and the sort by key.
LEMMA TailRight ==
    ASSUME DataOK, Emitting, EmitTailAndSort
    PROVE  /\ data' = data /\ len' = len /\ sa' = <<>> /\ stage' = "write"
           /\ Kept(arena', runs', Pos)
           /\ KeysAscend(runs', 1)
<1> DEFINE start == fullGroups * Width
           n == len % Width
           rs == runs \o emitLiteralRecords(start, n)
           out == radixSortRunsByStoredKey(rs)
<1>0. len \in Nat /\ Width \in Nat
  BY StageAssumption DEF DataOK
<1>1. start \in Nat /\ n \in Nat /\ start + n = len
  <2>1. n \in 0..(Width - 1)
    BY <1>0, FullGroupsAre
  <2>2. start \in Nat
    BY <1>0, FullGroupsAre
  <2>3. start + n = len
    BY <1>0, FullGroupsAre
  <2> HIDE DEF start, n
  <2> QED
    BY <1>0, <2>1, <2>2, <2>3
<1>2. Kept(arena, runs, 0..(start - 1))
  BY DEF EmitTailAndSort, Emitting
<1>3. runs' = out /\ arena' = arena /\ stage' = "write" /\ data' = data /\ len' = len /\ sa' = sa
  BY DEF EmitTailAndSort
<1> HIDE DEF start, n
<1>4. Kept(arena, rs, (0..(start - 1)) \cup (start..(start + n - 1)))
  <2>1. \A p \in start..(start + n - 1) : p \notin 0..(start - 1)
    BY <1>1
  <2>2. start + n <= len
    BY <1>0, <1>1
  <2> QED
    BY <1>1, <1>2, <2>1, <2>2, LiteralsAdded
<1>5. (0..(start - 1)) \cup (start..(start + n - 1)) = Pos
  BY <1>0, <1>1 DEF Pos
<1> HIDE DEF rs
<1>6. Kept(arena, rs, Pos) /\ rs \in Seq(Record)
  BY <1>4, <1>5 DEF Kept
<1>7. out \in Seq(Record)
  BY <1>6, RadixSorts
<1>8. Len(out) = Len(rs)
  BY <1>6, RadixSorts
<1>9. KeysAscend(out, 1)
  BY <1>6, RadixSorts
<1>10. PICK q : Permutes(out, rs, q, Len(rs))
  BY <1>6, RadixSorts
<1> HIDE DEF out
<1>11. Kept(arena, out, Pos)
  BY <1>6, <1>7, <1>8, <1>10, RecordsPermuted
<1> QED
  BY <1>3, <1>9, <1>11 DEF Emitting

\* By all three bytes, not greater is equal or less.
LEMMA NotGreaterIs ==
    ASSUME NEW k \in Keys, NEW h \in Keys
    PROVE  NotGreater(k, h, 1) <=> k = h \/ KeyLess(k, h)
<1>1. NotGreater(k, h, 1) <=> k[1] < h[1] \/ (k[1] = h[1] /\ (k[2] < h[2] \/ (k[2] = h[2] /\ k[3] <= h[3])))
  BY DEF NotGreater
<1>2. /\ k[1] \in Nat /\ k[2] \in Nat /\ k[3] \in Nat
      /\ h[1] \in Nat /\ h[2] \in Nat /\ h[3] \in Nat
      /\ (k = h <=> k[1] = h[1] /\ k[2] = h[2] /\ k[3] = h[3])
  BY DEF Keys
<1>3. KeyLess(k, h) <=> \/ k[1] < h[1]
                        \/ k[1] = h[1] /\ k[2] < h[2]
                        \/ k[1] = h[1] /\ k[2] = h[2] /\ k[3] < h[3]
  BY DEF KeyLess
<1> QED
  BY <1>1, <1>2, <1>3

\* The order of the keys is transitive.
LEMMA KeyLessTwice ==
    ASSUME NEW k \in Keys, NEW h \in Keys, NEW g \in Keys, KeyLess(k, h),
           KeyLess(h, g) \/ h = g
    PROVE  KeyLess(k, g)
BY DEF Keys, KeyLess

\* A record has a key.
LEMMA RecordKeyIs ==
    ASSUME NEW r \in Record
    PROVE  r.key \in Keys
BY DEF Record

\* The positions of the least key are written.
LEMMA WriteRight ==
    ASSUME DataOK, Writing, WriteKey
    PROVE  /\ data' = data /\ len' = len /\ stage' = "write"
           /\ sa' \in Seq(Pos) /\ SortedBy(sa', SuffixOrder)
           /\ Kept(arena', runs', Pos \ Elems(sa'))
           /\ KeysAscend(runs', 1)
           /\ \A i \in 1..Len(sa'), j \in 1..Len(runs') : KeyLess(Key(sa'[i]), runs'[j].key)
<1> DEFINE N == Len(runs)
           ends == {j \in DOMAIN runs : j = Len(runs) \/ runs[j + 1].key # runs[1].key}
           end == CHOOSE j \in ends : \A k \in ends : j <= k
           group == SubSeq(runs, 1, end)
           rest == SubSeq(runs, Len(group) + 1, Len(runs))
           k == runs[1].key
           z == GroupOrder(group)
           X == GroupPlaces(group)
           P(i) == Elems(PlacesIn(runs[i], arena))
<1>0. /\ sa \in Seq(Pos) /\ SortedBy(sa, SuffixOrder) /\ runs \in Seq(Record) /\ runs # <<>>
      /\ Kept(arena, runs, Pos \ Elems(sa)) /\ KeysAscend(runs, 1)
      /\ \A i \in 1..Len(sa), j \in 1..N : KeyLess(Key(sa[i]), runs[j].key)
  BY DEF Writing, WriteKey, Kept
<1>1. sa' = sa \o z /\ runs' = rest
  BY DEF WriteKey
<1>2. UNCHANGED <<len, data, arena>> /\ stage' = "write"
  BY DEF WriteKey
<1>3. N \in Nat /\ N > 0 /\ 1 \in 1..N /\ N \in 1..N /\ DOMAIN runs = 1..N
  BY <1>0
<1>4. end \in ends /\ \A j \in ends : end <= j
  <2>1. ends \in SUBSET Nat /\ ends # {}
    BY <1>3
  <2>2. \E x \in ends : \A y \in ends : x <= y
    <3> HIDE DEF ends
    <3> QED
      BY <2>1, LeastNat
  <2> HIDE DEF ends
  <2> QED
    BY <2>2
<1>5. end \in 1..N /\ end \in Nat /\ (end = N \/ runs[end + 1].key # k)
  <2>1. end \in 1..N /\ (end = N \/ runs[end + 1].key # k)
    BY <1>3, <1>4
  <2> HIDE DEF end
  <2> QED
    BY <2>1
<1> HIDE DEF end
<1>e. end \in Nat /\ N \in Nat /\ end >= 1 /\ end <= N
  <2> HIDE DEF N
  <2> QED
    BY <1>3, <1>5
<1>n. N = Len(runs)
  OBVIOUS
<1> HIDE DEF N
<1>6. ASSUME NEW i \in 1..end PROVE runs[i].key = k
  <2>1. CASE i = 1
    BY <2>1
  <2>2. CASE i # 1
    <3>1. i - 1 \in 1..N /\ i - 1 < end /\ i - 1 # N /\ (i - 1) + 1 = i
      BY <1>e, <2>2
    <3>2. i - 1 \notin ends
      <4> HIDE DEF ends
      <4> QED
        BY <1>5, <1>4, <3>1
    <3> QED
      BY <1>3, <3>1, <3>2
  <2> QED
    BY <2>1, <2>2
<1> HIDE DEF ends
<1>7. /\ group \in Seq(Record) /\ Len(group) = end
      /\ \A i \in 1..end : group[i] = runs[i] /\ i \in 1..N
  <2> DEFINE g == SubSeq(runs, 0 + 1, 0 + end)
  <2>1. 0 \in Nat /\ 0 + end <= Len(runs)
    BY <1>3, <1>5
  <2>2. g \in Seq(Record)
    BY <1>0, <1>5, <2>1, SliceIs
  <2>3. Len(g) = end
    BY <1>0, <1>5, <2>1, SliceIs
  <2>4. \A i \in 1..end : g[i] = runs[0 + i]
    BY <1>0, <1>5, <2>1, SliceIs
  <2>5. g = group
    BY <1>5
  <2> HIDE DEF g, group
  <2>6. \A i \in 1..end : 0 + i = i /\ i \in 1..N
    BY <1>3, <1>5
  <2> QED
    BY <2>2, <2>3, <2>4, <2>5, <2>6
<1>8. /\ rest \in Seq(Record) /\ Len(rest) = N - end
      /\ \A i \in 1..(N - end) : rest[i] = runs[end + i] /\ end + i \in 1..N
  <2> DEFINE c == N - end
             g == SubSeq(runs, end + 1, end + c)
  <2>1. c \in Nat /\ end + c = N /\ end + c <= Len(runs)
    BY <1>3, <1>5
  <2>2. rest = g
    <3> HIDE DEF c, group
    <3> QED
      BY <1>7, <2>1, <1>n
  <2> HIDE DEF c
  <2>3. g \in Seq(Record)
    BY <1>0, <1>5, <2>1, SliceIs
  <2>4. Len(g) = c
    BY <1>0, <1>5, <2>1, SliceIs
  <2>5. \A i \in 1..c : g[i] = runs[end + i]
    BY <1>0, <1>5, <2>1, SliceIs
  <2> HIDE DEF g, rest
  <2>6. \A i \in 1..c : end + i \in 1..N
    BY <1>3, <1>5, <2>1
  <2> QED
    BY <2>2, <2>3, <2>4, <2>5, <2>6 DEF c
<1> HIDE DEF group, rest
<1>9. /\ \A i \in 1..N : RecordOK(runs[i], arena) /\ runs[i] \in Record /\ runs[i].key \in Keys
      /\ \A i, j \in 1..N : i # j => P(i) \cap P(j) = {}
      /\ \A p : p \in Pos \ Elems(sa) <=> \E i \in 1..N : p \in P(i)
  <2>1. \A i \in 1..N : runs[i] \in Record
    BY <1>0, <1>n
  <2>2. \A i \in 1..N : runs[i].key \in Keys
    BY <2>1, RecordKeyIs
  <2> QED
    BY <1>0, <2>1, <2>2 DEF Kept, N
<1> HIDE DEF P
<1>10. k \in Keys
  BY <1>3, <1>9
<1>11. GroupOf(group, k)
  <2>1. \A i \in 1..end : group[i].key = k /\ RecordOK(group[i], arena)
    BY <1>6, <1>7, <1>9
  <2>2. \A i \in 1..end : Elems(PlacesIn(group[i], arena)) = P(i)
    BY <1>7 DEF P
  <2>3. \A i, j \in 1..end : i # j => P(i) \cap P(j) = {}
    BY <1>7, <1>9
  <2>4. \A i, j \in 1..end : i # j => Elems(PlacesIn(group[i], arena)) \cap Elems(PlacesIn(group[j], arena)) = {}
    BY <2>2, <2>3
  <2> QED
    BY <1>5, <1>7, <2>1, <2>4 DEF GroupOf
<1>12. z \in Seq(X)
  BY <1>11, GroupSorts
<1>13. SortedBy(z, SuffixOrder)
  BY <1>11, GroupSorts
<1>14. Elems(z) = X
  BY <1>11, GroupSorts
<1>15. \A p \in X : Key(p) = k
  BY <1>11, GroupIsOfKey
<1>16. \A p : p \in X <=> \E i \in 1..end : p \in P(i)
  <2>1. \A p : p \in X <=> \E i \in 1..Len(group) : p \in Elems(PlacesIn(group[i], arena))
    BY <1>11, GroupIsOfKey
  <2>2. \A i \in 1..end : Elems(PlacesIn(group[i], arena)) = P(i)
    BY <1>7 DEF P
  <2> QED
    BY <1>7, <2>1, <2>2
<1>17. X \subseteq Pos
  BY DEF GroupPlaces
<1> HIDE DEF X, z, k
<1>18. z \in Seq(Pos) /\ \A j \in 1..Len(z) : z[j] \in X
  <2>1. Len(z) \in Nat /\ z = [j \in 1..Len(z) |-> z[j]] /\ \A j \in 1..Len(z) : z[j] \in X
    BY <1>12
  <2>2. \A j \in 1..Len(z) : z[j] \in Pos
    BY <1>17, <2>1
  <2> QED
    BY <2>1, <2>2
<1>19. sa' \in Seq(Pos)
  BY <1>0, <1>1, <1>18, JoinedIs
<1>20. SortedBy(sa', SuffixOrder)
  <2>1. ASSUME NEW i \in 1..Len(sa), NEW j \in 1..Len(z) PROVE <<sa[i], z[j]>> \in SuffixOrder
    <3>1. sa[i] \in Pos /\ z[j] \in Pos /\ Key(z[j]) = k
      BY <1>0, <1>15, <1>17, <1>18
    <3>2. KeyLess(Key(sa[i]), k)
      BY <1>0, <1>3 DEF k
    <3>3. suffixLess(sa[i], z[j])
      BY <3>1, <3>2, LesserKeyFirst
    <3> QED
      BY <3>1, <3>3 DEF SuffixOrder
  <2> QED
    BY <1>0, <1>1, <1>13, <1>18, <2>1, SortedJoined
<1>21. Elems(sa') = Elems(sa) \cup X
  BY <1>0, <1>1, <1>14, <1>18, ElemsOfJoined
<1>22. KeysAscend(rest, 1)
  <2>1. ASSUME NEW i \in 1..(N - end), NEW j \in 1..(N - end), i < j
        PROVE  NotGreater(rest[i].key, rest[j].key, 1)
    <3>1. end + i < end + j
      BY <1>5, <2>1
    <3>2. end + i \in 1..N /\ end + j \in 1..N
      BY <1>8
    <3>3. NotGreater(runs[end + i].key, runs[end + j].key, 1)
      BY <1>0, <3>1, <3>2 DEF KeysAscend, N
    <3> QED
      BY <1>8, <3>3
  <2> QED
    BY <1>8, <2>1 DEF KeysAscend
<1>23. ASSUME NEW j \in 1..(N - end) PROVE KeyLess(k, rest[j].key)
  <2> DEFINE h == runs[end + 1].key
             g == runs[end + j].key
  <2>1. end + 1 \in 1..N /\ end # N /\ end + j \in 1..N /\ rest[j] = runs[end + j]
    BY <1>3, <1>5, <1>8
  <2>2. h \in Keys /\ g \in Keys
    BY <1>9, <2>1
  <2>3. k # h
    BY <1>5, <2>1
  <2>4. NotGreater(k, h, 1)
    <3>1. 1 < end + 1
      BY <1>5
    <3> QED
      BY <1>0, <1>3, <2>1, <3>1 DEF KeysAscend, k
  <2>5. h = g \/ NotGreater(h, g, 1)
    <3>1. CASE j = 1
      BY <3>1
    <3>2. CASE j # 1
      <4>1. end + 1 < end + j
        BY <1>5, <3>2
      <4> QED
        BY <1>0, <2>1, <4>1 DEF KeysAscend, N
    <3> QED
      BY <3>1, <3>2
  <2> HIDE DEF h, g
  <2>6. KeyLess(k, h)
    BY <1>10, <2>2, <2>3, <2>4, NotGreaterIs
  <2>7. h = g \/ KeyLess(h, g)
    BY <2>2, <2>5, NotGreaterIs
  <2>8. KeyLess(k, g)
    BY <1>10, <2>2, <2>6, <2>7, KeyLessTwice
  <2> QED
    BY <2>1, <2>8 DEF g
<1>24. ASSUME NEW i \in 1..Len(sa'), NEW j \in 1..(N - end)
       PROVE  KeyLess(Key(sa'[i]), rest[j].key)
  <2>1. sa'[i] \in Elems(sa')
    BY DEF Elems
  <2>2. CASE sa'[i] \in Elems(sa)
    <3>1. PICK u \in 1..Len(sa) : sa'[i] = sa[u]
      BY <2>2 DEF Elems
    <3>2. rest[j] = runs[end + j] /\ end + j \in 1..N
      BY <1>8
    <3> QED
      BY <1>0, <3>1, <3>2
  <2>3. CASE sa'[i] \in X
    BY <1>15, <1>23, <2>3
  <2> QED
    BY <1>21, <2>1, <2>2, <2>3
<1> DEFINE Q(i) == Elems(PlacesIn(rest[i], arena))
<1>25. \A i \in 1..(N - end) : Q(i) = P(end + i)
  BY <1>8 DEF P
<1> HIDE DEF Q
<1>26. \A i, j \in 1..(N - end) : i # j => Q(i) \cap Q(j) = {}
  <2> TAKE i, j \in 1..(N - end)
  <2> HAVE i # j
  <2>1. end + i \in 1..N /\ end + j \in 1..N
    BY <1>8
  <2>2. end + i # end + j
    BY <1>5
  <2>3. P(end + i) \cap P(end + j) = {}
    BY <1>9, <2>1, <2>2
  <2> QED
    BY <1>25, <2>3
<1>27. ASSUME NEW p PROVE p \in Pos \ Elems(sa') <=> \E i \in 1..(N - end) : p \in Q(i)
  <2>1. p \in Pos \ Elems(sa) <=> \E i \in 1..N : p \in P(i)
    BY <1>9
  <2>2. p \in X <=> \E i \in 1..end : p \in P(i)
    BY <1>16
  <2>3. ASSUME NEW i \in 1..N, p \in P(i), p \notin X PROVE \E j \in 1..(N - end) : p \in Q(j)
    <3>1. i \notin 1..end
      BY <2>2, <2>3
    <3>2. i - end \in 1..(N - end) /\ end + (i - end) = i
      BY <1>3, <1>5, <3>1
    <3>3. p \in Q(i - end)
      BY <1>25, <2>3, <3>2
    <3> QED
      BY <3>2, <3>3
  <2>4. ASSUME NEW j \in 1..(N - end), p \in Q(j) PROVE p \notin X /\ \E i \in 1..N : p \in P(i)
    <3>1. end + j \in 1..N /\ p \in P(end + j)
      BY <1>8, <1>25, <2>4
    <3>2. ASSUME NEW i \in 1..end, p \in P(i) PROVE FALSE
      <4>1. i # end + j /\ i \in 1..N
        BY <1>3, <1>5
      <4> QED
        BY <1>9, <3>1, <3>2, <4>1
    <3> QED
      BY <2>2, <3>1, <3>2
  <2>5. p \in Pos \ Elems(sa') <=> p \in Pos \ Elems(sa) /\ p \notin X
    BY <1>21
  <2> QED
    BY <2>1, <2>3, <2>4, <2>5
<1>28. Kept(arena, rest, Pos \ Elems(sa'))
  <2>1. arena \in Seq(Pos)
    BY <1>0 DEF Kept
  <2>2. \A i \in 1..Len(rest) : RecordOK(rest[i], arena)
    BY <1>8, <1>9
  <2>3. \A i, j \in 1..Len(rest) :
           i # j => Elems(PlacesIn(rest[i], arena)) \cap Elems(PlacesIn(rest[j], arena)) = {}
    BY <1>8, <1>26 DEF Q
  <2>4. \A p : p \in Pos \ Elems(sa') <=> \E i \in 1..Len(rest) : p \in Elems(PlacesIn(rest[i], arena))
    BY <1>8, <1>27 DEF Q
  <2> QED
    BY <1>8, <2>1, <2>2, <2>3, <2>4 DEF Kept
<1>29. \A i \in 1..Len(sa'), j \in 1..Len(rest) : KeyLess(Key(sa'[i]), rest[j].key)
  BY <1>8, <1>24
<1> QED
  BY <1>1, <1>2, <1>19, <1>20, <1>22, <1>28, <1>29

\* Sorted positions, all of them, are as many as the bytes.
LEMMA AllSortedIs ==
    ASSUME DataOK, AllSorted
    PROVE  /\ Len(sa) = len
           /\ {sa[i] : i \in 1..len} = 0..(len - 1)
           /\ \A i \in 1..(len - 1) : suffixLess(sa[i], sa[i + 1])
<1> DEFINE n == Len(sa)
<1>1. sa \in Seq(Pos) /\ n \in Nat /\ len \in Nat /\ sa \in [1..n -> Pos]
  BY DEF AllSorted, DataOK
<1>2. \A i, j \in 1..n : i # j => sa[i] # sa[j]
  <2>1. Linear(SuffixOrder, Pos)
    BY SuffixesInOrder
  <2>2. Distinct(sa)
    <3> HIDE DEF n
    <3> QED
      BY <1>1, <2>1, SortedIsDistinct DEF AllSorted
  <2> QED
    BY <2>2 DEF Distinct
<1>3. \A p \in Pos : \E i \in 1..n : sa[i] = p
  BY DEF AllSorted, Elems
<1> HIDE DEF n
<1>4. sa \in Injection(1..n, Pos)
  <2>1. \A i, j \in DOMAIN sa : sa[i] = sa[j] => i = j
    BY <1>1, <1>2
  <2> QED
    BY <1>1, <2>1 DEF Injection, IsInjective
<1>5. sa \in Surjection(1..n, Pos)
  BY <1>1, <1>3 DEF Surjection
<1>6. ExistsBijection(1..n, Pos)
  BY <1>4, <1>5 DEF ExistsBijection, Bijection
<1>7. Cardinality(Pos) = n
  BY <1>1, <1>6, FS_CountingElements
<1>8. Cardinality(Pos) = len
  <2>1. 0 \in Int /\ len - 1 \in Int
    BY <1>1
  <2>2. Cardinality(0..(len - 1)) = IF 0 > len - 1 THEN 0 ELSE (len - 1) - 0 + 1
    BY <2>1, FS_Interval
  <2>3. (IF 0 > len - 1 THEN 0 ELSE (len - 1) - 0 + 1) = len
    BY <1>1
  <2> QED
    BY <2>2, <2>3 DEF Pos
<1>9. n = len
  BY <1>7, <1>8
<1>10. {sa[i] : i \in 1..len} = 0..(len - 1)
  BY <1>9 DEF AllSorted, Elems, n, Pos
<1>11. \A i \in 1..(len - 1) : suffixLess(sa[i], sa[i + 1])
  <2> TAKE i \in 1..(len - 1)
  <2>1. i \in 1..n /\ i + 1 \in 1..n /\ i < i + 1
    BY <1>1, <1>9
  <2>2. <<sa[i], sa[i + 1]>> \in SuffixOrder
    BY <2>1 DEF AllSorted, SortedBy, n
  <2> QED
    BY <2>2 DEF SuffixOrder
<1> QED
  BY <1>9, <1>10, <1>11 DEF n

\* Nothing is left to write: all positions have been.
LEMMA WrittenRight ==
    ASSUME DataOK, Writing, Written
    PROVE  /\ data' = data /\ len' = len /\ sa' = sa /\ stage' = "sorted"
           /\ AllSorted
<1>1. /\ runs = <<>> /\ data' = data /\ len' = len /\ sa' = sa
      /\ stage' = IF Len(sa) = len THEN "sorted" ELSE "declined"
  BY DEF Written, sortVars
<1>2. Len(runs) = 0 /\ 1..0 = {}
  BY <1>1
<1>3. \A p : p \notin Pos \ Elems(sa)
  BY <1>2 DEF Writing, Kept
<1>4. Elems(sa) \subseteq Pos
  BY DEF Writing, Elems
<1>5. AllSorted
  BY <1>3, <1>4 DEF Writing, AllSorted
<1>6. Len(sa) = len
  BY <1>5, AllSortedIs
<1> QED
  BY <1>1, <1>5, <1>6

\* The other backend sorts all positions.
LEMMA SaisRight ==
    ASSUME DataOK, SortBySAIS
    PROVE  /\ data' = data /\ len' = len /\ stage' = "sorted"
           /\ sa' \in Seq(Pos) /\ SortedBy(sa', SuffixOrder) /\ Elems(sa') = Pos
<1> DEFINE s == [i \in 1..len |-> i - 1]
<1>1. len \in Nat
  BY DEF DataOK
<1>2. /\ sa' = InsertionSort(s, SuffixOrder)
      /\ data' = data /\ len' = len /\ stage' = "sorted"
  BY DEF SortBySAIS
<1>3. Len(s) = len /\ s \in Seq(Pos)
  <2>1. \A i \in 1..len : i - 1 \in Pos
    BY <1>1 DEF Pos
  <2> QED
    BY <1>1, <2>1
<1>4. Distinct(s)
  BY <1>1, <1>3 DEF Distinct
<1>5. Elems(s) = Pos
  <2>1. ASSUME NEW p \in Pos PROVE \E i \in 1..len : s[i] = p
    <3>1. p + 1 \in 1..len /\ (p + 1) - 1 = p
      BY <1>1 DEF Pos
    <3> QED
      BY <3>1
  <2>2. \A i \in 1..len : s[i] \in Pos
    BY <1>1 DEF Pos
  <2> HIDE DEF s
  <2>3. Pos \subseteq Elems(s)
    BY <1>3, <2>1 DEF Elems
  <2>4. Elems(s) \subseteq Pos
    BY <1>3, <2>2 DEF Elems
  <2> QED
    BY <2>3, <2>4
<1> HIDE DEF s
<1>6. Linear(SuffixOrder, Pos)
  BY SuffixesInOrder
<1>7. sa' \in Seq(Pos)
  BY <1>2, <1>3, <1>4, <1>6, InsertionSorts
<1>8. SortedBy(sa', SuffixOrder)
  BY <1>2, <1>3, <1>4, <1>6, InsertionSorts
<1>9. Elems(sa') = Pos
  BY <1>2, <1>3, <1>4, <1>5, <1>6, InsertionSorts
<1> QED
  BY <1>2, <1>7, <1>8, <1>9

-----------------------------------------------------------------------------
(* The invariant.                                                          *)

\* The loop leaves less than a chunk for every try there may be.
SizeInv ==
    /\ InSize
    /\ stage = "loop" => tries \in 0..MaxTries
    /\ stage = "ended" => tries \in (MinTries + 1)..(MaxTries + 1)

\* What each stage has of the sort.
SortInv ==
    /\ stage \in {"loop", "ended", "streamed", "sais", "emit", "write", "sorted", "hashed"}
    /\ stage \in {"loop", "ended", "streamed", "sais"} => sa = <<>>
    /\ stage \in {"sais", "emit", "write", "sorted"} => DataOK
    /\ stage = "emit" => Emitting
    /\ stage = "write" => Writing
    /\ stage = "sorted" => AllSorted

\* The loop starts with nothing, and in the sort's buffers nothing is read.
LEMMA SortInit == Init => SizeInv /\ SortInv
<1> SUFFICES ASSUME Init PROVE SizeInv /\ SortInv
  OBVIOUS
<1>1. stage = "loop" /\ tries = 0 /\ len = 0 /\ sa = <<>>
  BY DEF Init, LoopStart, SortStart
<1>2. Width \in Nat /\ Width > 0 /\ MaxTries \in Nat
  BY StageAssumption
<1>3. InSize
  <2>1. (MaxTries + 1) * Width > 0
    BY <1>2
  <2> QED
    BY <1>1, <2>1 DEF InSize
<1>4. SizeInv
  BY <1>1, <1>2, <1>3 DEF SizeInv
<1>5. SortInv
  BY <1>1 DEF SortInv
<1> QED
  BY <1>4, <1>5

\* The length of the data is bounded by the tries the loop may take.
LEMMA SizeStep == SizeInv /\ [Next]_vars => SizeInv'
<1> SUFFICES ASSUME SizeInv, [Next]_vars PROVE SizeInv'
  OBVIOUS
<1>0. /\ Width \in Nat /\ Width > 0 /\ MaxTries \in Nat /\ MinTries \in Nat
      /\ Dropped \in Nat /\ Dropped > 0 /\ Dropped < MinTries /\ MinTries <= MaxTries
  BY StageAssumption
<1>1. ASSUME Try PROVE SizeInv'
  <2>1. /\ stage = "loop" /\ tries' = tries + 1 /\ len' = len
        /\ \E high \in BOOLEAN : stage' = IF MayEnd(tries', high) THEN "ended" ELSE "loop"
    BY <1>1 DEF Try
  <2>2. tries \in 0..MaxTries
    BY <2>1 DEF SizeInv
  <2>3. PICK high \in BOOLEAN : stage' = IF MayEnd(tries', high) THEN "ended" ELSE "loop"
    BY <2>1
  <2>4. tries' \in Nat /\ tries' <= MaxTries + 1
    BY <1>0, <2>1, <2>2
  <2>5. stage' = "loop" => ~MayEnd(tries', high)
    BY <2>3
  <2>6. stage' = "ended" => MayEnd(tries', high)
    BY <2>3
  <2>7. ~MayEnd(tries', high) => tries' <= MaxTries
    BY <1>0, <2>4 DEF MayEnd
  <2>8. MayEnd(tries', high) => tries' > MinTries
    BY <1>0, <2>4 DEF MayEnd
  <2>9. stage' = "loop" => tries' \in 0..MaxTries
    BY <1>0, <2>4, <2>5, <2>7
  <2>10. stage' = "ended" => tries' \in (MinTries + 1)..(MaxTries + 1)
    BY <1>0, <2>4, <2>6, <2>8
  <2> QED
    BY <2>1, <2>9, <2>10 DEF SizeInv, InSize
<1>2. ASSUME EndLoop PROVE SizeInv'
  <2>1. PICK tail \in 0..(Dropped * Width - 1) : len' = (tries - Dropped) * Width + tail
    BY <1>2 DEF EndLoop
  <2>2. stage = "ended" /\ stage' = "streamed"
    BY <1>2 DEF EndLoop
  <2>3. tries \in Nat /\ tries > Dropped /\ tries <= MaxTries + 1
    BY <1>0, <2>2 DEF SizeInv
  <2> DEFINE x == (tries - Dropped) * Width
             y == Dropped * Width
             z == tries * Width
             w == (MaxTries + 1) * Width
  <2>4. x \in Nat /\ y \in Nat /\ z \in Nat /\ x + y = z
    BY <1>0, <2>3
  <2>5. w \in Nat /\ z <= w
    BY <1>0, <2>3
  <2>6. tail \in 0..(y - 1) /\ len' = x + tail
    BY <2>1
  <2> HIDE DEF x, y, z, w
  <2>7. len' \in Nat /\ len' < w
    BY <2>4, <2>5, <2>6
  <2>8. InSize'
    BY <2>7 DEF InSize, w
  <2> QED
    BY <2>2, <2>8 DEF SizeInv
<1>3. ASSUME len' = len, stage' \notin {"loop", "ended"} PROVE SizeInv'
  BY <1>3 DEF SizeInv, InSize
<1>4. ASSUME Prepare \/ EmitRun \/ EmitTailAndSort \/ WriteKey \/ Written \/ SortBySAIS \/ HashPair
      PROVE  SizeInv'
  <2>1. CASE Prepare
    BY <1>3, <2>1 DEF Prepare
  <2>2. CASE EmitRun
    <3>1. stage = "emit" /\ len' = len /\ (stage' = "declined" \/ stage' = stage)
      BY <2>2 DEF EmitRun
    <3> QED
      BY <1>3, <3>1
  <2>3. CASE EmitTailAndSort
    BY <1>3, <2>3 DEF EmitTailAndSort
  <2>4. CASE WriteKey
    BY <1>3, <2>4 DEF WriteKey
  <2>5. CASE Written
    BY <1>3, <2>5 DEF Written
  <2>6. CASE SortBySAIS
    BY <1>3, <2>6 DEF SortBySAIS
  <2>7. CASE HashPair
    BY <1>3, <2>7 DEF HashPair
  <2> QED
    BY <1>4, <2>1, <2>2, <2>3, <2>4, <2>5, <2>6, <2>7
<1>5. CASE UNCHANGED vars
  BY <1>5 DEF vars, loopVars, SizeInv, InSize
<1> QED
  BY <1>1, <1>2, <1>4, <1>5 DEF Next

\* The data of the sort: the loop's bytes, then zeros.
LEMMA PrepareRight ==
    ASSUME SizeInv, SortInv, Prepare
    PROVE  /\ stage' \in {"sais", "emit"}
           /\ sa' = <<>> /\ arena' = <<>> /\ runs' = <<>> /\ runStart' = 0
           /\ DataOK'
<1>1. /\ stage = "streamed" /\ len' = len /\ sa' = sa
      /\ arena' = <<>> /\ runs' = <<>> /\ runStart' = 0
      /\ stage' = IF ~useV114 THEN "sais" ELSE IF len > ArenaCap THEN "declined" ELSE "emit"
  BY DEF Prepare
<1>2. sa = <<>>
  BY <1>1 DEF SortInv
<1>3. ~(len > ArenaCap)
  <2> DEFINE w == (MaxTries + 1) * Width
  <2>1. w \in Nat /\ len \in Nat /\ len < w /\ w <= ArenaCap /\ ArenaCap \in Nat
    BY StageAssumption, CapacityAssumption DEF SizeInv, InSize
  <2> HIDE DEF w
  <2> QED
    BY <2>1
<1>4. stage' \in {"sais", "emit"}
  BY <1>1, <1>3
<1>5. PICK d \in [0..(len - 1) -> Alphabet], stale \in Alphabet :
        data' = Padded([p \in 0..(len + 3) |-> IF p < len THEN d[p] ELSE stale])
  BY DEF Prepare
<1>6. len \in Nat
  BY DEF SizeInv, InSize
<1>7. \A p \in 0..(len - 1) : d[p] \in Nat
  BY <1>5, AlphabetAssumption
<1>8. data' = [p \in 0..(len + 3) |-> IF p >= len THEN 0
                                      ELSE IF p < len THEN d[p] ELSE stale]
  BY <1>5 DEF Padded
<1>9. data' \in [0..(len + 3) -> Nat]
  <2>1. ASSUME NEW p \in 0..(len + 3)
        PROVE  (IF p >= len THEN 0 ELSE IF p < len THEN d[p] ELSE stale) \in Nat
    <3>1. CASE p >= len
      BY <3>1
    <3>2. CASE ~(p >= len)
      <4>1. p \in 0..(len - 1) /\ p < len
        BY <1>6, <3>2
      <4> QED
        BY <1>7, <3>2, <4>1
    <3> QED
      BY <3>1, <3>2
  <2> QED
    BY <1>8, <2>1
<1>10. \A p \in len..(len + 3) : data'[p] = 0
  <2> TAKE p \in len..(len + 3)
  <2>1. p \in 0..(len + 3) /\ p >= len
    BY <1>6
  <2> QED
    BY <1>8, <2>1
<1> QED
  BY <1>1, <1>2, <1>4, <1>6, <1>9, <1>10 DEF DataOK

\* No records, no positions.
LEMMA KeptNothing == Kept(<<>>, <<>>, 0..(0 * Width - 1))
<1>1. Width \in Nat
  BY StageAssumption
<1>2. 0..(0 * Width - 1) = {} /\ 1..0 = {}
  <2>1. 0 * Width = 0
    BY <1>1
  <2> QED
    BY <2>1
<1>3. <<>> \in Seq(Pos) /\ <<>> \in Seq(Record) /\ Len(<<>>) = 0
  OBVIOUS
<1> QED
  BY <1>2, <1>3 DEF Kept

\* As long as the data is the same, so are its keys and its order.
LEMMA SameData ==
    ASSUME data' = data, len' = len
    PROVE  /\ Pos' = Pos /\ SuffixOrder' = SuffixOrder
           /\ \A p : Key(p)' = Key(p)
<1>1. Pos' = Pos
  BY DEF Pos
<1>2. \A p : Key(p)' = Key(p)
  BY DEF Key
<1>3. SuffixOrder' = SuffixOrder
  BY DEF SuffixOrder, suffixLess, LessFrom, Smaller, Pos
<1> QED
  BY <1>1, <1>2, <1>3

\* What each step of the sort hands on.
LEMMA SortStep == SizeInv /\ SortInv /\ [Next]_vars => SortInv'
<1> SUFFICES ASSUME SizeInv, SortInv, [Next]_vars PROVE SortInv'
  OBVIOUS
<1>0. InSize
  BY DEF SizeInv
<1>1. ASSUME stage' \in {"loop", "ended", "streamed"}, sa' = <<>> PROVE SortInv'
  BY <1>1 DEF SortInv
<1>2. CASE Try /\ UNCHANGED <<sortVars, digests>>
  <2>1. stage = "loop" /\ stage' \in {"loop", "ended"} /\ sa' = sa
    BY <1>2 DEF Try, sortVars
  <2> QED
    BY <1>1, <2>1 DEF SortInv
<1>3. CASE EndLoop /\ UNCHANGED <<sortVars, digests>>
  <2>1. stage = "ended" /\ stage' = "streamed" /\ sa' = sa
    BY <1>3 DEF EndLoop, sortVars
  <2> QED
    BY <1>1, <2>1 DEF SortInv
<1>4. ASSUME Prepare PROVE SortInv'
  <2>1. /\ stage' \in {"sais", "emit"}
        /\ sa' = <<>> /\ arena' = <<>> /\ runs' = <<>> /\ runStart' = 0
        /\ DataOK'
    BY <1>4, PrepareRight
  <2>2. len' = len /\ len \in Nat
    BY <1>0, <1>4 DEF Prepare, InSize
  <2>3. fullGroups' \in Nat
    BY <2>1, <2>2, FullGroupsAre DEF fullGroups
  <2>4. Emitting'
    <3>1. runStart' \in 0..fullGroups'
      BY <2>1, <2>3
    <3>2. Kept(arena, runs, 0..(runStart * Width - 1))'
      BY <2>1, <2>2, KeptNothing DEF Kept, RecordOK, PlacesIn, Pos, SuffixOrder
    <3>3. Len(arena') <= runStart' * Width
      BY <2>1, StageAssumption
    <3> QED
      BY <2>1, <3>1, <3>2, <3>3 DEF Emitting
  <2> QED
    BY <2>1, <2>4 DEF SortInv
<1>5. ASSUME EmitRun PROVE SortInv'
  <2>1. stage = "emit" /\ DataOK /\ Emitting
    BY <1>5 DEF EmitRun, SortInv
  <2>2. /\ stage' = stage /\ data' = data /\ len' = len /\ sa' = <<>>
        /\ runStart' \in 0..fullGroups
        /\ Kept(arena', runs', 0..(runStart' * Width - 1))
        /\ Len(arena') <= runStart' * Width
    BY <1>0, <1>5, <2>1, EmitRunRight
  <2>3. Pos' = Pos /\ SuffixOrder' = SuffixOrder /\ \A p : Key(p)' = Key(p)
    BY <2>2, SameData
  <2>4. Kept(arena, runs, 0..(runStart * Width - 1))'
    BY <2>2, <2>3 DEF Kept, RecordOK, PlacesIn
  <2>5. Emitting'
    BY <2>2, <2>4 DEF Emitting, fullGroups
  <2>6. DataOK'
    BY <2>1, <2>2 DEF DataOK
  <2> QED
    BY <2>1, <2>2, <2>5, <2>6 DEF SortInv
<1>6. ASSUME EmitTailAndSort PROVE SortInv'
  <2>1. stage = "emit" /\ DataOK /\ Emitting
    BY <1>6 DEF EmitTailAndSort, SortInv
  <2>2. /\ data' = data /\ len' = len /\ sa' = <<>> /\ stage' = "write"
        /\ Kept(arena', runs', Pos)
        /\ KeysAscend(runs', 1)
    BY <1>6, <2>1, TailRight
  <2>3. Pos' = Pos /\ SuffixOrder' = SuffixOrder /\ \A p : Key(p)' = Key(p)
    BY <2>2, SameData
  <2>4. Elems(sa') = {} /\ Len(sa') = 0 /\ sa' \in Seq(Pos) /\ 1..0 = {}
    BY <2>2 DEF Elems
  <2>5. Pos \ Elems(sa') = Pos
    BY <2>4
  <2>6. Kept(arena, runs, Pos \ Elems(sa))'
    <3>1. Elems(sa)' = Elems(sa')
      BY DEF Elems
    <3>2. Kept(arena, runs, Pos)'
      BY <2>2, <2>3 DEF Kept, RecordOK, PlacesIn
    <3> QED
      BY <2>3, <2>5, <3>1, <3>2
  <2>7. (SortedBy(sa, SuffixOrder))'
    BY <2>4 DEF SortedBy
  <2>8. (KeysAscend(runs, 1))'
    BY <2>2 DEF KeysAscend, NotGreater
  <2>9. (\A i \in 1..Len(sa), j \in 1..Len(runs) : KeyLess(Key(sa[i]), runs[j].key))'
    BY <2>4
  <2>10. Writing'
    BY <2>3, <2>4, <2>6, <2>7, <2>8, <2>9 DEF Writing
  <2>11. DataOK'
    BY <2>1, <2>2 DEF DataOK
  <2> QED
    BY <2>2, <2>10, <2>11 DEF SortInv
<1>7. ASSUME WriteKey PROVE SortInv'
  <2>1. stage = "write" /\ DataOK /\ Writing
    BY <1>7 DEF WriteKey, SortInv
  <2>2. /\ data' = data /\ len' = len /\ stage' = "write"
        /\ sa' \in Seq(Pos) /\ SortedBy(sa', SuffixOrder)
        /\ Kept(arena', runs', Pos \ Elems(sa'))
        /\ KeysAscend(runs', 1)
        /\ \A i \in 1..Len(sa'), j \in 1..Len(runs') : KeyLess(Key(sa'[i]), runs'[j].key)
    BY <1>7, <2>1, WriteRight
  <2>3. Pos' = Pos /\ SuffixOrder' = SuffixOrder /\ \A p : Key(p)' = Key(p)
    BY <2>2, SameData
  <2>4. Elems(sa)' = Elems(sa')
    BY DEF Elems
  <2>5. Kept(arena, runs, Pos \ Elems(sa))'
    BY <2>2, <2>3, <2>4 DEF Kept, RecordOK, PlacesIn
  <2>6. (SortedBy(sa, SuffixOrder))'
    BY <2>2, <2>3 DEF SortedBy
  <2>7. (KeysAscend(runs, 1))'
    BY <2>2 DEF KeysAscend, NotGreater
  <2>8. (\A i \in 1..Len(sa), j \in 1..Len(runs) : KeyLess(Key(sa[i]), runs[j].key))'
    BY <2>2, <2>3 DEF KeyLess
  <2>9. Writing'
    BY <2>2, <2>3, <2>5, <2>6, <2>7, <2>8 DEF Writing
  <2>10. DataOK'
    BY <2>1, <2>2 DEF DataOK
  <2> QED
    BY <2>2, <2>9, <2>10 DEF SortInv
<1>8. ASSUME Written PROVE SortInv'
  <2>1. stage = "write" /\ DataOK /\ Writing
    BY <1>8 DEF Written, SortInv
  <2>2. /\ data' = data /\ len' = len /\ sa' = sa /\ stage' = "sorted"
        /\ AllSorted
    BY <1>8, <2>1, WrittenRight
  <2>3. Pos' = Pos /\ SuffixOrder' = SuffixOrder
    BY <2>2, SameData
  <2>4. AllSorted' /\ DataOK'
    BY <2>1, <2>2, <2>3 DEF AllSorted, DataOK, SortedBy, Elems
  <2> QED
    BY <2>2, <2>4 DEF SortInv
<1>9. ASSUME SortBySAIS PROVE SortInv'
  <2>1. stage = "sais" /\ DataOK
    BY <1>9 DEF SortBySAIS, SortInv
  <2>2. /\ data' = data /\ len' = len /\ stage' = "sorted"
        /\ sa' \in Seq(Pos) /\ SortedBy(sa', SuffixOrder) /\ Elems(sa') = Pos
    BY <1>9, <2>1, SaisRight
  <2>3. Pos' = Pos /\ SuffixOrder' = SuffixOrder
    BY <2>2, SameData
  <2>4. AllSorted' /\ DataOK'
    BY <2>1, <2>2, <2>3 DEF AllSorted, DataOK, SortedBy, Elems
  <2> QED
    BY <2>2, <2>4 DEF SortInv
<1>10. ASSUME HashPair PROVE SortInv'
  BY <1>10 DEF HashPair, SortInv
<1>11. CASE UNCHANGED vars
  <2>1. /\ data' = data /\ len' = len /\ stage' = stage /\ sa' = sa
        /\ arena' = arena /\ runs' = runs /\ runStart' = runStart
    BY <1>11 DEF vars, sortVars
  <2>2. Pos' = Pos /\ SuffixOrder' = SuffixOrder /\ \A p : Key(p)' = Key(p)
    BY <2>1, SameData
  <2>3. DataOK => DataOK'
    BY <2>1 DEF DataOK
  <2>5. ASSUME Emitting PROVE Emitting'
    <3>1. /\ runStart' \in 0..fullGroups /\ sa' = <<>>
          /\ Kept(arena', runs', 0..(runStart' * Width - 1))
          /\ Len(arena') <= runStart' * Width
      BY <2>1, <2>5 DEF Emitting
    <3>2. Kept(arena, runs, 0..(runStart * Width - 1))'
      BY <2>2, <3>1 DEF Kept, RecordOK, PlacesIn
    <3> QED
      BY <2>1, <3>1, <3>2 DEF Emitting, fullGroups
  <2>6. ASSUME Writing PROVE Writing'
    <3>1. /\ sa' \in Seq(Pos) /\ SortedBy(sa', SuffixOrder)
          /\ Kept(arena', runs', Pos \ Elems(sa'))
          /\ KeysAscend(runs', 1)
          /\ \A i \in 1..Len(sa'), j \in 1..Len(runs') : KeyLess(Key(sa'[i]), runs'[j].key)
      BY <2>1, <2>6 DEF Writing
    <3>2. Elems(sa)' = Elems(sa')
      BY DEF Elems
    <3>3. Kept(arena, runs, Pos \ Elems(sa))'
      BY <2>2, <3>1, <3>2 DEF Kept, RecordOK, PlacesIn
    <3>4. (SortedBy(sa, SuffixOrder))'
      BY <2>2, <3>1 DEF SortedBy
    <3>5. (KeysAscend(runs, 1))'
      BY <3>1 DEF KeysAscend, NotGreater
    <3>6. (\A i \in 1..Len(sa), j \in 1..Len(runs) : KeyLess(Key(sa[i]), runs[j].key))'
      BY <2>2, <3>1 DEF KeyLess
    <3> QED
      BY <2>2, <3>1, <3>3, <3>4, <3>5, <3>6 DEF Writing
  <2>7. AllSorted => AllSorted'
    BY <2>1, <2>2 DEF AllSorted, SortedBy, Elems
  <2> QED
    BY <2>1, <2>3, <2>5, <2>6, <2>7 DEF SortInv
<1> QED
  BY <1>2, <1>3, <1>4, <1>5, <1>6, <1>7, <1>8, <1>9, <1>10, <1>11 DEF Next

\* Whatever the bytes of the loop are and wherever RC4 fired, the sort ends with the suffix
\* array of the data. (SAIS, the other backend, stands as what it promises.)
THEOREM SortsTheSuffixes == Spec => []ExactSuffixArray
<1>1. SizeInv /\ SortInv => ExactSuffixArray
  BY AllSortedIs DEF SortInv, ExactSuffixArray
<1>2. SizeInv /\ SortInv /\ [Next]_vars => (SizeInv /\ SortInv)'
  BY SizeStep, SortStep
<1> QED
  BY <1>1, <1>2, SortInit, PTL DEF Spec

\* At any time while records are made and merged, the positions of each one have its key
\* and their suffixes ascend.
THEOREM RecordsAreRight == Spec => []RecordsAreSorted
<1>1. SizeInv /\ SortInv => RecordsAreSorted
  <2> SUFFICES ASSUME SortInv, stage \in {"emit", "write"}, NEW i \in DOMAIN runs
               PROVE  LET ps == Positions(runs[i])
                      IN  /\ \A j \in DOMAIN ps : Key(ps[j]) = runs[i].key
                          /\ \A j \in 1..(Len(ps) - 1) : suffixLess(ps[j], ps[j + 1])
    BY DEF RecordsAreSorted
  <2>1. \E C : Kept(arena, runs, C)
    BY DEF SortInv, Emitting, Writing
  <2>2. RecordOK(runs[i], arena)
    BY <2>1 DEF Kept
  <2> DEFINE ps == PlacesIn(runs[i], arena)
  <2>3. ps = Positions(runs[i])
    BY DEF PlacesIn, Positions
  <2>4. /\ ps \in Seq(Pos) /\ SortedBy(ps, SuffixOrder)
        /\ \A p \in Elems(ps) : Key(p) = runs[i].key
    BY <2>2 DEF RecordOK
  <2> HIDE DEF ps
  <2>5. \A j \in DOMAIN ps : Key(ps[j]) = runs[i].key
    BY <2>4 DEF Elems
  <2>6. ASSUME NEW j \in 1..(Len(ps) - 1) PROVE suffixLess(ps[j], ps[j + 1])
    <3>1. j \in 1..Len(ps) /\ j + 1 \in 1..Len(ps) /\ j < j + 1
      BY <2>4
    <3>2. <<ps[j], ps[j + 1]>> \in SuffixOrder
      BY <2>4, <3>1 DEF SortedBy
    <3> QED
      BY <3>2 DEF SuffixOrder
  <2> QED
    BY <2>3, <2>5, <2>6
<1>2. SizeInv /\ SortInv /\ [Next]_vars => (SizeInv /\ SortInv)'
  BY SizeStep, SortStep
<1> QED
  BY <1>1, <1>2, SortInit, PTL DEF Spec

\* The longest data the loop can make fits the arena and the runs, so the descriptor sort
\* does not decline.
THEOREM NeverGivesUp == Spec => []NeverDeclines
<1>1. SizeInv /\ SortInv => NeverDeclines
  BY DEF SortInv, NeverDeclines
<1>2. SizeInv /\ SortInv /\ [Next]_vars => (SizeInv /\ SortInv)'
  BY SizeStep, SortStep
<1> QED
  BY <1>1, <1>2, SortInit, PTL DEF Spec

=============================================================================
