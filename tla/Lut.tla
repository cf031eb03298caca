-------------------------------- MODULE Lut ---------------------------------
(***************************************************************************)
(* The lookup tables of the branchy stage, as package initialisation       *)
(* builds them (internal/astrobwt/lut.go, init), and the inner loop of the *)
(* hash that uses them (pow.go). A row of opLUT is kept as the operation   *)
(* whose bytes fill it: opLUT[row][x] is pureOp(rows[row], x).             *)
(***************************************************************************)
EXTENDS PureOps, RefOps

CONSTANTS SampleBytes,    \* values of s[pos2] the operations are compared with
          SampleWindows   \* <<p1, p2>> pairs the inner loop is compared on

VARIABLES op,       \* the loop variable of init
          row,      \* the next free row
          rows,     \* the operations whose tables the rows hold
          opRow     \* operation -> row, -1 for one that stays in the switch

lutVars == <<op, row, rows, opRow>>

LutInit == /\ op = 0 /\ row = 0
           /\ rows = <<>>
           /\ opRow = [o \in Byte |-> 0]

\* Writing past the last row panics.
LutPanics == op < 256 /\ isPureOp(op) /\ row >= pureOpCount

FillRow ==
    /\ op < 256 /\ ~LutPanics
    /\ IF isPureOp(op)
       THEN /\ opRow' = [opRow EXCEPT ![op] = row]
            /\ rows' = Append(rows, op)
            /\ row' = row + 1
       ELSE /\ opRow' = [opRow EXCEPT ![op] = -1]
            /\ UNCHANGED <<rows, row>>
    /\ op' = op + 1

\* init is over, and would have panicked over a row left free.
LutBuilt == op = 256 /\ row = pureOpCount

opLUT(r, x) == pureOp(rows[r + 1], x)

-----------------------------------------------------------------------------
\* An iteration of the inner loop: by table where there is a row, else the switch.
MinerOp(o, s, pos1, pos2) ==
    IF opRow[o] >= 0
    THEN [s      |-> [i \in Byte |-> IF i \in pos1..(pos2 - 1) THEN opLUT(opRow[o], s[i])
                                                               ELSE s[i]],
          hashed |-> <<>>, keyed |-> <<>>]
    ELSE SwitchOp(o, s, pos1, pos2)

-----------------------------------------------------------------------------
(* Checked as init goes; Seen is the operation it dealt with last.         *)
Seen == op - 1

Chunk(k) == [i \in Byte |-> (i * k + 3 * k) % 256]

\* What the miner does for operation o is what the reference does: the same bytes,
\* the same replacements of lhash and of the cipher's key.
OpMatches(o) ==
    /\ \A x \in Byte, y \in SampleBytes :
           /\ Steps(OpRow(o), x, y) = Steps(RefRow(o), x, y)
           /\ opRow[o] >= 0 => opLUT(opRow[o], x) = Steps(OpRow(o), x, y)
    /\ \A w \in SampleWindows : \A k \in {1, 37} :
           LET win == Window(w[1], w[2])
           IN  MinerOp(o, Chunk(k), win.pos1, win.pos2)
                 = RefOp(o, Chunk(k), win.pos1, win.pos2)

=============================================================================
