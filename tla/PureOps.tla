------------------------------ MODULE PureOps -------------------------------
(***************************************************************************)
(* The generated half of the table kernel (internal/astrobwt/pureop_gen.go)*)
(* and the generator's rule for what it may contain (lutgen/main.go): the  *)
(* operations that are a function of the byte alone, with their steps      *)
(* lifted out of the switch.                                               *)
(***************************************************************************)
EXTENDS BranchyOps

pureOpCount == 149

pureOpSet ==
    {2, 4, 6, 7, 8, 10, 12, 14, 16, 18, 19, 22, 24, 25, 26, 28, 31, 32,
     33, 34, 36, 37, 38, 41, 42, 44, 46, 48, 49, 50, 52, 53, 55, 56, 57, 59,
     61, 63, 65, 66, 67, 69, 71, 73, 76, 77, 78, 79, 81, 83, 84, 86, 87, 88,
     89, 90, 95, 96, 97, 98, 99, 100, 101, 102, 104, 105, 106, 107, 110, 111, 112, 113,
     114, 118, 121, 122, 125, 126, 128, 129, 130, 131, 135, 137, 139, 141, 144, 145, 147, 151,
     152, 153, 156, 157, 158, 160, 162, 163, 164, 166, 167, 170, 171, 172, 173, 174, 175, 179,
     181, 183, 185, 186, 188, 191, 192, 196, 197, 198, 200, 201, 205, 206, 207, 208, 209, 210,
     211, 213, 217, 218, 220, 224, 225, 228, 229, 232, 233, 235, 237, 238, 243, 244, 245, 246,
     247, 248, 249, 251, 252}

\* The steps of each case of pureOp, sixteen operations to a block as in BranchyOps;
\* the others have none.
noCase == <<>>

PureOps0 == <<
    noCase, noCase, <<"pop", "rev", "shl", "pop">>, noCase,
    <<"not", "shr", "rlx", "sub">>, noCase,
    <<"shl", "rl3", "not", "sub">>, <<"add", "rlx", "pop", "not">>,
    <<"not", "rl5", "rl5", "shl">>, noCase,
    <<"not", "mul", "rl3", "mul">>, noCase,
    <<"xr2", "mul", "xr2", "not">>, noCase,
    <<"shr", "shl", "mul", "shl">>, noCase >>

PureOps16 == <<
    <<"xr4", "mul", "rl1", "not">>, noCase,
    <<"xr4", "rl3", "rl1", "rl5">>, <<"sub", "rl5", "shl", "add">>,
    noCase, noCase, <<"shl", "rev", "mul", "rl1">>, noCase,
    <<"add", "shr", "xr4", "rl5">>, <<"pop", "rl3", "rlx", "sub">>,
    <<"mul", "pop", "add", "rev">>, noCase,
    <<"shl", "add", "add", "rl5">>, noCase, noCase,
    <<"not", "xr2", "shl", "mul">> >>

PureOps32 == <<
    <<"xr2", "rev", "rl3", "xr2">>, <<"rlx", "xr4", "rev", "mul">>,
    <<"sub", "shl", "shl", "sub">>, noCase,
    <<"pop", "rl1", "xr2", "rl1">>, <<"rlx", "shr", "shr", "mul">>,
    <<"shr", "rl3", "pop", "rlx">>, noCase, noCase,
    <<"rl5", "sub", "rl3", "xr4">>, <<"rl1", "rl3", "xr2", "rlx">>,
    noCase, <<"pop", "pop", "rl3", "rlx">>, noCase,
    <<"pop", "add", "rl5", "xr4">>, noCase >>

PureOps48 == <<
    <<"rlx", "not", "not", "rl5">>, <<"pop", "add", "rev", "xr4">>,
    <<"rev", "rl3", "add", "rl1">>, noCase,
    <<"rlx", "shr", "not", "pop">>, <<"add", "pop", "xr4", "xr4">>,
    noCase, <<"rev", "xr4", "xr4", "rl1">>,
    <<"xr2", "mul", "not", "rl1">>, <<"rlx", "rl5", "rl3", "rev">>,
    noCase, <<"rl1", "mul", "rlx", "not">>, noCase,
    <<"rl5", "shl", "rl3", "rl5">>, noCase,
    <<"rl5", "pop", "sub", "add">> >>

PureOps64 == <<
    noCase, <<"rl5", "rl3", "xr2", "mul">>,
    <<"xr2", "rev", "xr4", "rl1">>, <<"rl1", "pop", "xr2", "rl5">>,
    noCase, <<"add", "mul", "rev", "shr">>, noCase,
    <<"rl5", "not", "mul", "shl">>, noCase,
    <<"pop", "rev", "rl5", "sub">>, noCase, noCase,
    <<"rlx", "xr2", "rl5", "shr">>, <<"rl3", "add", "shl", "pop">>,
    <<"rlx", "rev", "mul", "sub">>, <<"xr4", "xr2", "add", "mul">> >>

PureOps80 == <<
    noCase, <<"xr4", "shl", "rlx", "pop">>, noCase,
    <<"shl", "rev", "rl3", "rev">>, <<"sub", "rl1", "shl", "add">>,
    noCase, <<"xr4", "rlx", "xr4", "not">>,
    <<"add", "rl3", "xr4", "add">>, <<"xr2", "rl1", "mul", "not">>,
    <<"add", "mul", "not", "xr2">>, <<"rev", "rl5", "rl1", "shr">>,
    noCase, noCase, noCase, noCase, <<"rl1", "not", "rl5", "rl5">> >>

PureOps96 == <<
    <<"xr2", "xr2", "pop", "rl1">>, <<"rl1", "shl", "pop", "shr">>,
    <<"xr4", "shl", "shr", "xr4">>, <<"xr4", "sub", "rev", "shr">>,
    <<"rlx", "shl", "rev", "pop">>, <<"shr", "pop", "shr", "not">>,
    <<"rl3", "sub", "add", "rl3">>, noCase,
    <<"rev", "pop", "rl5", "add">>, <<"shl", "rl3", "rlx", "xr2">>,
    <<"rev", "xr4", "rl1", "mul">>, <<"shr", "xr2", "rl5", "rl1">>,
    noCase, noCase, <<"add", "xr2", "xr2", "shr">>,
    <<"mul", "rev", "mul", "shr">> >>

PureOps112 == <<
    <<"rl3", "not", "rl5", "sub">>, <<"rl5", "rl1", "pop", "not">>,
    <<"rl1", "rev", "rlx", "not">>, noCase, noCase, noCase,
    <<"shr", "add", "shl", "rl5">>, noCase, noCase,
    <<"shr", "add", "pop", "mul">>, <<"xr4", "rlx", "rl5", "xr2">>,
    noCase, noCase, <<"rev", "xr2", "add", "shr">>,
    <<"rl3", "rl1", "rl5", "rev">>, noCase >>

PureOps128 == <<
    <<"rlx", "xr2", "xr2", "rl5">>, <<"not", "pop", "pop", "shr">>,
    <<"shr", "rlx", "rl1", "xr4">>, <<"sub", "rl1", "pop", "mul">>,
    noCase, noCase, noCase, <<"shr", "xr2", "add", "rev">>, noCase,
    <<"rl5", "shr", "rev", "rlx">>, noCase,
    <<"rl5", "rl3", "xr2", "rl3">>, noCase,
    <<"rl1", "sub", "pop", "add">>, noCase, noCase >>

PureOps144 == <<
    <<"rlx", "shl", "not", "rlx">>, <<"rev", "xr4", "xr2", "xr4">>,
    noCase, <<"not", "shl", "xr4", "mul">>, noCase, noCase, noCase,
    <<"add", "shl", "mul", "shl">>, <<"shr", "not", "shl", "xr2">>,
    <<"rl1", "rl3", "not", "not">>, noCase, noCase,
    <<"shr", "shr", "rl3", "rl1">>, <<"shr", "shl", "rlx", "rl1">>,
    <<"pop", "rl3", "add", "rl1">>, noCase >>

PureOps160 == <<
    <<"shr", "rev", "rl1", "rl3">>, noCase,
    <<"mul", "rev", "xr2", "sub">>, <<"shl", "sub", "xr4", "rl1">>,
    <<"mul", "pop", "sub", "not">>, noCase,
    <<"rl3", "add", "xr2", "not">>, <<"not", "not", "mul", "shr">>,
    noCase, noCase, <<"sub", "rev", "sub", "mul">>,
    <<"rl3", "sub", "pop", "rev">>, <<"xr4", "sub", "shl", "rl1">>,
    <<"not", "shl", "mul", "add">>, <<"not", "rlx", "pop", "pop">>,
    <<"rl3", "sub", "mul", "rl5">> >>

PureOps176 == <<
    noCase, noCase, noCase, <<"xr2", "add", "shr", "rev">>, noCase,
    <<"not", "shl", "xr2", "rl5">>, noCase,
    <<"add", "sub", "sub", "mul">>, noCase,
    <<"not", "xr4", "rl5", "shr">>, <<"xr2", "xr4", "sub", "shr">>,
    noCase, <<"xr4", "pop", "xr4", "xr4">>, noCase, noCase,
    <<"add", "rl3", "rlx", "shr">> >>

PureOps192 == <<
    <<"add", "shl", "add", "mul">>, noCase, noCase, noCase,
    <<"rl3", "rev", "shl", "rl1">>, <<"xr4", "rlx", "mul", "mul">>,
    <<"shr", "shr", "rev", "rl1">>, noCase,
    <<"shr", "pop", "rev", "rev">>, <<"rl3", "xr2", "xr4", "not">>,
    noCase, noCase, noCase, <<"pop", "xr4", "shl", "add">>,
    <<"xr4", "rev", "rev", "pop">>, <<"rl5", "rl3", "pop", "pop">> >>

PureOps208 == <<
    <<"add", "add", "shr", "rl3">>, <<"rl5", "rev", "pop", "sub">>,
    <<"xr2", "rlx", "rl5", "not">>, <<"xr4", "add", "sub", "rlx">>,
    noCase, <<"add", "shl", "rl3", "sub">>, noCase, noCase, noCase,
    <<"rl5", "add", "rl1", "xr4">>, <<"rev", "not", "mul", "sub">>,
    noCase, <<"rl1", "shl", "rev", "shl">>, noCase, noCase, noCase >>

PureOps224 == <<
    <<"xr2", "rl1", "rl3", "shl">>, <<"not", "shr", "rev", "rl3">>,
    noCase, noCase, <<"add", "shr", "add", "pop">>,
    <<"rl3", "rlx", "xr2", "pop">>, noCase, noCase,
    <<"mul", "mul", "xr4", "rl5">>, <<"rl1", "pop", "rl3", "pop">>,
    noCase, <<"xr2", "mul", "rl3", "not">>, noCase,
    <<"rl5", "shl", "xr2", "rl3">>, <<"add", "add", "rl3", "sub">>,
    noCase >>

PureOps240 == <<
    noCase, noCase, noCase, <<"rl5", "xr2", "pop", "rl1">>,
    <<"not", "xr2", "rev", "rl5">>, <<"sub", "rl5", "xr2", "shr">>,
    <<"add", "rl1", "shr", "add">>, <<"rl5", "xr2", "rl5", "not">>,
    <<"not", "sub", "pop", "rl5">>, <<"rev", "xr4", "xr4", "rlx">>,
    noCase, <<"add", "pop", "rev", "xr2">>,
    <<"rev", "xr4", "xr2", "shl">>, noCase, noCase, noCase >>

PureRow(op) ==
    LET blocks == <<PureOps0, PureOps16, PureOps32, PureOps48, PureOps64, PureOps80,
                    PureOps96, PureOps112, PureOps128, PureOps144, PureOps160,
                    PureOps176, PureOps192, PureOps208, PureOps224, PureOps240>>
    IN  blocks[(op \div 16) + 1][(op % 16) + 1]

isPureOp(op) == op \in pureOpSet

\* An operation without a case of its own leaves x alone.
pureOp(op, x) == IF PureRow(op) = noCase THEN x ELSE Steps(PureRow(op), x, 0)

\* A variant of PureBody (below) that looks at the four steps only.
PureBodyLoose(op) == op \notin {254, 255} /\ \A n \in 1..4 : OpRow(op)[n] \in PureSteps

\* The generator accepts a case that is nothing but the loop over the window and
\* whose statements read and write s[i] only; cases with two labels are passed over.
PureBody(op) == /\ op \notin {254, 255}
                /\ Prologue(op) = "none" /\ Epilogue(op) = "none"
                /\ \A n \in 1..4 : OpRow(op)[n] \in PureSteps

=============================================================================
