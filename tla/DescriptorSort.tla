--------------------------- MODULE DescriptorSort ---------------------------
(***************************************************************************)
(* The suffix array of the hash (internal/astrobwt/sa_v114.go,             *)
(* sa_v114_emit.go, sa_v114_merge.go), built from the data of BranchyStage.*)
(* Positions count from 0. A template of several groups is sorted column   *)
(* by column, from the last to the first; each column gives a record per   *)
(* key of three bytes, a literal (one position) or a run in the arena. The *)
(* records are then sorted by key, and the positions of each key merged.   *)
(***************************************************************************)
EXTENDS BranchyStage, Sorting

CONSTANTS Alphabet,       \* the bytes of the data, from 0 up
          SortMax,        \* bound: longer data is not followed any further
          ArenaCap,       \* positions the arena holds (0x20000)
          GroupRunMax,    \* groups of a template run (512)
          ShortRunMax,    \* groups sorted by insertion (25)
          LiteralMax,     \* literals sorted on the stack (32)
          ConstantMin,    \* literals from which the closed form is tried (17)
          LeftOver        \* what an earlier hash left in the arena

ASSUME AlphabetAssumption == Alphabet \subseteq Nat

\* The longest data there can be fits.
ASSUME CapacityAssumption ==
    /\ ArenaCap \in Nat /\ (MaxTries + 1) * Width <= ArenaCap
    /\ GroupRunMax \in Nat /\ MaxTries + 1 <= GroupRunMax

VARIABLES useV114,
          data,           \* position -> byte, four bytes of padding included
          runStart,       \* first group not emitted yet
          arena, runs, sa

sortVars == <<useV114, data, runStart, arena, runs, sa>>

SortStart == /\ useV114 \in BOOLEAN
             /\ data = <<>> /\ runStart = 0 /\ sa = <<>>
             /\ arena = LeftOver
             /\ runs = <<[key |-> <<0, 0, 0>>, at |-> 0, count |-> Len(LeftOver)]>>

\* The bytes after the data are zeroed as far as a key can reach.
Padded(d) == [p \in DOMAIN d |-> IF p >= len THEN 0 ELSE d[p]]

fullGroups == len \div Width

\* A variant of Prepare (below): the arena and the runs keep what was in them.
PrepareKeepsBuffers ==
    /\ stage = "streamed" /\ len <= SortMax
    /\ \E d \in [0..(len - 1) -> Alphabet] :
         data' = Padded([p \in 0..(len + 3) |-> IF p < len THEN d[p] ELSE 0])
    /\ flags' = buildStage5Flags(markers, len)
    /\ runStart' = 0
    /\ stage' = IF ~useV114 THEN "sais" ELSE IF len > ArenaCap THEN "declined" ELSE "emit"
    /\ tries' = 0 /\ markers' = <<>> /\ templateIdx' = 0 /\ firstChunk' = 0
    /\ chunkCount' = 0 /\ fired' = {} /\ widest' = 0
    /\ UNCHANGED <<len, useV114, sa, arena, runs>>

\* The loop's bytes are chosen here, where they are first read, with the bytes an
\* earlier hash left behind them. The buffers of the sort start empty; the markers
\* have been read and are dropped.
Prepare ==
    /\ stage = "streamed" /\ len <= SortMax
    /\ \E d \in [0..(len - 1) -> Alphabet], stale \in Alphabet :
         data' = Padded([p \in 0..(len + 3) |-> IF p < len THEN d[p] ELSE stale])
    /\ flags' = buildStage5Flags(markers, len)
    /\ arena' = <<>> /\ runs' = <<>> /\ runStart' = 0
    /\ stage' = IF ~useV114 THEN "sais" ELSE IF len > ArenaCap THEN "declined" ELSE "emit"
    /\ tries' = 0 /\ markers' = <<>> /\ templateIdx' = 0 /\ firstChunk' = 0
    /\ chunkCount' = 0 /\ fired' = {} /\ widest' = 0
    /\ UNCHANGED <<len, useV114, sa>>

-----------------------------------------------------------------------------
(* Comparisons.                                                            *)
Pos == 0..(len - 1)

Smaller(a, b) == IF a < b THEN a ELSE b

\* bytes.Compare of two suffixes, of which the first from bytes are known equal.
LessFrom(from, a, b) ==
    LET differ == {i \in from..(Smaller(len - a, len - b) - 1) : data[a + i] # data[b + i]}
        first  == CHOOSE i \in differ : \A j \in differ : i <= j
    IN  IF differ = {} THEN a > b ELSE data[a + first] < data[b + first]

suffixLess(a, b) == LessFrom(0, a, b)

suffixLessAfterKey(a, b) == LessFrom(3, a, b)

SuffixOrder   == {p \in Pos \X Pos : suffixLess(p[1], p[2])}
AfterKeyOrder == {p \in Pos \X Pos : suffixLessAfterKey(p[1], p[2])}

Key(p) == <<data[p], data[p + 1], data[p + 2]>>

-----------------------------------------------------------------------------
(* Emit: the records of one template run.                                  *)
Literal(p) == [key |-> Key(p), at |-> p, count |-> 0]

emitLiteralRecords(start, count) == [i \in 1..count |-> Literal(start + i - 1)]

\* The column is the same byte in all groups of the run.
ColumnEqual(start, count, rel) ==
    \A g \in 1..(count - 1) : data[start + g * Width + rel] = data[start + rel]

\* Appends the positions of order[from..to] in column rel as one record.
AppendGroup(st, from, to, rel) ==
    LET ps == [i \in 1..(to - from + 1) |-> st.order[from + i - 1] + rel]
    IN  IF from = to THEN [st EXCEPT !.runs = Append(@, Literal(ps[1]))]
        ELSE [st EXCEPT !.runs  = Append(@, [key |-> Key(ps[1]), at |-> Len(st.arena),
                                             count |-> Len(ps)]),
                        !.arena = @ \o ps]

\* Neighbours in the order with equal keys go into one record, or all of them do.
AppendColumn(st, rel, whole) ==
    LET n == Len(st.order)
        Ends(i) == \/ i = n
                   \/ ~whole /\ Key(st.order[i] + rel) # Key(st.order[i + 1] + rel)
        groups[i \in 0..n] ==
            IF i = 0 THEN [from |-> 1, st |-> st]
            ELSE LET g == groups[i - 1]
                 IN  IF ~Ends(i) THEN g
                     ELSE [from |-> i + 1, st |-> AppendGroup(g.st, g.from, i, rel)]
    IN  groups[n].st

\* A variant of Induce (below) that keeps the order of the last column.
InduceNever(order, rel) == order

\* Stable by the bytes of a column.
Induce(order, rel) ==
    InsertionSort(order, {p \in Pos \X Pos : data[p[1] + rel] < data[p[2] + rel]})

sortSuffixOrder(order) ==
    IF Len(order) <= ShortRunMax THEN InsertionSort(order, SuffixOrder)
                                 ELSE HeapSort(order, SuffixOrder)

\* All groups of a run have the same key in a column; two groups are compared by key
\* in every column, more only in the last two.
SameKeys(start, count, order, rel) ==
    IF count = 2 \/ rel > Width - 3
    THEN Key(order[1] + rel) = Key(order[count] + rel)
    ELSE \A i \in 0..2 : ColumnEqual(start, count, rel + i)

\* The columns of a run of several groups, from the last to the first.
emitFullGroupRunGeneric(start, count) ==
    LET last   == [g \in 1..count |-> start + (g - 1) * Width + Width - 1]
        sorted == sortSuffixOrder(last)
        column[k \in 0..Width] ==
            IF k = 0 THEN [order |-> [g \in 1..count |-> sorted[g] - (Width - 1)],
                           arena |-> arena, runs |-> runs]
            ELSE LET st  == column[k - 1]
                     rel == Width - k
                     out == AppendColumn(st, rel, SameKeys(start, count, st.order, rel))
                 IN  IF rel = 0 \/ (count > 2 /\ ColumnEqual(start, count, rel - 1)) THEN out
                     ELSE [out EXCEPT !.order = Induce(@, rel - 1)]
    IN  column[Width]

emitFullGroupRun(start, count) ==
    IF count = 1 THEN [arena |-> arena, runs |-> runs \o emitLiteralRecords(start, Width)]
    ELSE emitFullGroupRunGeneric(start, count)

\* One template run, up to the next flagged group or the last full one.
EmitRun ==
    /\ stage = "emit" /\ runStart < fullGroups
    /\ LET ends == {g \in (runStart + 1)..fullGroups : g \in flags \/ g = fullGroups}
           end  == CHOOSE g \in ends : \A h \in ends : g <= h
           out  == emitFullGroupRun(runStart * Width, end - runStart)
       IN  IF end - runStart > GroupRunMax \/ Len(out.arena) > ArenaCap
           THEN /\ stage' = "declined" /\ UNCHANGED <<runStart, arena, runs>>
           ELSE /\ arena' = out.arena /\ runs' = out.runs /\ runStart' = end
                /\ UNCHANGED stage
    /\ UNCHANGED <<loopVars, len, flags, useV114, data, sa>>

\* Stable passes over the bytes of the key, the last byte first.
radixSortRunsByStoredKey(rs) ==
    LET records == {rs[i] : i \in DOMAIN rs}
        Pass(done, n) ==
            InsertionSort(done, {p \in records \X records : p[1].key[n] < p[2].key[n]})
    IN  Pass(Pass(Pass(rs, 3), 2), 1)

\* The partial group at the end, then the sort.
EmitTailAndSort ==
    /\ stage = "emit" /\ runStart = fullGroups
    /\ runs' = radixSortRunsByStoredKey(
                   runs \o emitLiteralRecords(fullGroups * Width, len % Width))
    /\ stage' = "write"
    /\ UNCHANGED <<loopVars, len, flags, useV114, data, runStart, arena, sa>>

-----------------------------------------------------------------------------
(* Write: the positions of one key.                                        *)
Positions(r) == IF r.count = 0 THEN <<r.at>> ELSE SubSeq(arena, r.at + 1, r.at + r.count)

\* Neighbours of ascending positions that follow on one another.
Chains(positions) ==
    LET chains[n \in 0..Len(positions)] ==
            IF n = 0 THEN <<>>
            ELSE LET done == chains[n - 1]
                     k    == Len(done)
                 IN  IF n > 1 /\ positions[n] = positions[n - 1] + 1
                     THEN [done EXCEPT ![k] = Append(@, positions[n])]
                     ELSE Append(done, <<positions[n]>>)
    IN  chains[Len(positions)]

\* A chain lies in one run of c's: its suffixes are in order, or in reverse,
\* depending on the byte that ends the run.
ChainOrder(chain, c) ==
    LET from == chain[Len(chain)] + 2
        ends == {e \in from..(from + len) : e + 1 >= len \/ data[e + 1] # c}
        e    == CHOOSE x \in ends : \A y \in ends : x <= y
    IN  IF e + 1 < len /\ data[e + 1] > c THEN chain ELSE Reverse(chain)

\* The positions of a key of one repeated byte.
constantRunOrder(ps) ==
    LET parts == Chains(InsertionSort(ps, {p \in Pos \X Pos : p[1] < p[2]}))
    IN  MergeAll([i \in DOMAIN parts |-> ChainOrder(parts[i], data[ps[1]])], AfterKeyOrder)

tryWriteLiteralGroup(group) ==
    LET ps == [i \in DOMAIN group |-> group[i].at]
        k  == group[1].key
    IN  IF Len(ps) >= ConstantMin /\ k[1] = k[2] /\ k[1] = k[3]
        THEN constantRunOrder(ps) ELSE InsertionSort(ps, AfterKeyOrder)

tryWriteTwoRuns(group) == Merge(Positions(group[1]), Positions(group[2]), AfterKeyOrder)

GroupOrder(group) ==
    LET n == Len(group)
        literal == n <= LiteralMax /\ (\A i \in 1..n : group[i].count = 0)
    IN  IF n = 1 THEN Positions(group[1])
        ELSE IF literal THEN tryWriteLiteralGroup(group)
        ELSE IF n = 2 THEN tryWriteTwoRuns(group)
        ELSE MergeAll([i \in 1..n |-> Positions(group[i])], AfterKeyOrder)

WriteKey ==
    /\ stage = "write" /\ runs # <<>>
    /\ LET ends  == {j \in DOMAIN runs : j = Len(runs) \/ runs[j + 1].key # runs[1].key}
           end   == CHOOSE j \in ends : \A k \in ends : j <= k
           group == SubSeq(runs, 1, end)
       IN  /\ sa' = sa \o GroupOrder(group)
           /\ runs' = SubSeq(runs, Len(group) + 1, Len(runs))
    /\ UNCHANGED <<stage, loopVars, len, flags, useV114, data, runStart, arena>>

Written ==
    /\ stage = "write" /\ runs = <<>>
    /\ stage' = IF Len(sa) = len THEN "sorted" ELSE "declined"
    /\ UNCHANGED <<loopVars, len, flags, sortVars>>

\* The other backend, also taken when this one declines.
SortBySAIS ==
    /\ stage \in {"sais", "declined"}
    /\ sa' = InsertionSort([i \in 1..len |-> i - 1], SuffixOrder)
    /\ stage' = "sorted"
    /\ UNCHANGED <<loopVars, len, flags, useV114, data, runStart, arena, runs>>

=============================================================================
