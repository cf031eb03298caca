------------------------------- MODULE RefOps -------------------------------
(***************************************************************************)
(* The operations of the reference implementation (internal/refpow/pow.go),*)
(* against which the tests compare the miner's hash. The loop around them  *)
(* is the one of BranchyOps.                                               *)
(***************************************************************************)
EXTENDS BranchyOps

RefOps0 == <<
    <<"pop", "rl5", "mul", "rlx">>, <<"shl", "rl1", "and", "add">>,
    <<"pop", "rev", "shl", "pop">>, <<"rlx", "rl3", "xor", "rl1">>,
    <<"not", "shr", "rlx", "sub">>, <<"pop", "xor", "shl", "shr">>,
    <<"shl", "rl3", "not", "sub">>, <<"add", "rlx", "pop", "not">>,
    <<"not", "rl5", "rl5", "shl">>, <<"xor", "xr4", "shr", "xr2">>,
    <<"not", "mul", "rl3", "mul">>, <<"rl1", "rl5", "and", "rlx">>,
    <<"xr2", "mul", "xr2", "not">>, <<"rl1", "xor", "shr", "rl5">>,
    <<"shr", "shl", "mul", "shl">>, <<"xr2", "shl", "and", "sub">> >>

RefOps16 == <<
    <<"xr4", "mul", "rl1", "not">>, <<"xor", "mul", "rl5", "not">>,
    <<"xr4", "rl3", "rl1", "rl5">>, <<"sub", "rl5", "shl", "add">>,
    <<"and", "xor", "rev", "xr2">>, <<"rl1", "xor", "add", "and">>,
    <<"shl", "rev", "mul", "rl1">>, <<"rl3", "rl1", "pop", "and">>,
    <<"add", "shr", "xr4", "rl5">>, <<"pop", "rl3", "rlx", "sub">>,
    <<"mul", "pop", "add", "rev">>, <<"rl5", "and", "xr4", "rl5">>,
    <<"shl", "add", "add", "rl5">>, <<"mul", "xor", "shr", "add">>,
    <<"and", "xr4", "rl5", "shl">>, <<"not", "xr2", "shl", "mul">> >>

RefOps32 == <<
    <<"xr2", "rev", "rl3", "xr2">>, <<"rlx", "xr4", "rev", "mul">>,
    <<"sub", "shl", "shl", "sub">>, <<"add", "not", "rl1", "xor">>,
    <<"pop", "rl1", "xr2", "rl1">>, <<"rlx", "shr", "shr", "mul">>,
    <<"shr", "rl3", "pop", "rlx">>, <<"xr2", "xor", "shr", "and">>,
    <<"rlx", "xor", "pop", "xor">>, <<"rl5", "sub", "rl3", "xr4">>,
    <<"rl1", "rl3", "xr2", "rlx">>, <<"and", "add", "and", "sub">>,
    <<"pop", "pop", "rl3", "rlx">>, <<"rl5", "rl5", "and", "pop">>,
    <<"pop", "add", "rl5", "xr4">>, <<"rl5", "and", "rl5", "shl">> >>

RefOps48 == <<
    <<"rlx", "not", "not", "rl5">>, <<"pop", "add", "rev", "xr4">>,
    <<"rev", "rl3", "add", "rl1">>, <<"xor", "xr4", "xr4", "rl5">>,
    <<"rlx", "shr", "not", "pop">>, <<"add", "pop", "xr4", "xr4">>,
    <<"rev", "xor", "not", "not">>, <<"rev", "xr4", "xr4", "rl1">>,
    <<"xr2", "mul", "not", "rl1">>, <<"rlx", "rl5", "rl3", "rev">>,
    <<"rev", "xr2", "and", "add">>, <<"rl1", "mul", "rlx", "not">>,
    <<"xor", "not", "mul", "rl3">>, <<"rl5", "shl", "rl3", "rl5">>,
    <<"and", "not", "xr2", "add">>, <<"rl5", "pop", "sub", "add">> >>

RefOps64 == <<
    <<"xor", "rev", "xr4", "mul">>, <<"rl5", "rl3", "xr2", "mul">>,
    <<"xr2", "rev", "xr4", "rl1">>, <<"rl1", "pop", "xr2", "rl5">>,
    <<"and", "not", "xr4", "xor">>, <<"add", "mul", "rev", "shr">>,
    <<"xor", "mul", "shr", "xr4">>, <<"rl5", "not", "mul", "shl">>,
    <<"rev", "pop", "xor", "shl">>, <<"pop", "rev", "rl5", "sub">>,
    <<"mul", "rl3", "rev", "and">>, <<"mul", "pop", "and", "xr4">>,
    <<"rlx", "xr2", "rl5", "shr">>, <<"rl3", "add", "shl", "pop">>,
    <<"rlx", "rev", "mul", "sub">>, <<"xr4", "xr2", "add", "mul">> >>

RefOps80 == <<
    <<"rlx", "shl", "add", "and">>, <<"xr4", "shl", "rlx", "pop">>,
    <<"xor", "not", "not", "shr">>, <<"shl", "rev", "rl3", "rev">>,
    <<"sub", "rl1", "shl", "add">>, <<"shr", "xor", "rlx", "shl">>,
    <<"xr4", "rlx", "xr4", "not">>, <<"add", "rl3", "xr4", "add">>,
    <<"xr2", "rl1", "mul", "not">>, <<"add", "mul", "not", "xr2">>,
    <<"rev", "rl5", "rl1", "shr">>, <<"pop", "and", "xr4", "rev">>,
    <<"pop", "not", "pop", "and">>, <<"xr2", "mul", "and", "add">>,
    <<"rl1", "rlx", "and", "shl">>, <<"rl1", "not", "rl5", "rl5">> >>

RefOps96 == <<
    <<"xr2", "xr2", "pop", "rl1">>, <<"rl1", "shl", "pop", "shr">>,
    <<"xr4", "shl", "shr", "xr4">>, <<"xr4", "sub", "rev", "shr">>,
    <<"rlx", "shl", "rev", "pop">>, <<"shr", "pop", "shr", "not">>,
    <<"rl3", "sub", "add", "rl3">>, <<"rl1", "rev", "xor", "rlx">>,
    <<"rev", "pop", "rl5", "add">>, <<"shl", "rl3", "rlx", "xr2">>,
    <<"rev", "xr4", "rl1", "mul">>, <<"shr", "xr2", "rl5", "rl1">>,
    <<"xor", "not", "and", "xr2">>, <<"mul", "rlx", "xor", "xr2">>,
    <<"add", "xr2", "xr2", "shr">>, <<"mul", "rev", "mul", "shr">> >>

RefOps112 == <<
    <<"rl3", "not", "rl5", "sub">>, <<"rl5", "rl1", "pop", "not">>,
    <<"rl1", "rev", "rlx", "not">>, <<"rlx", "rl5", "and", "rl3">>,
    <<"and", "xor", "pop", "shl">>, <<"shl", "rl3", "shl", "and">>,
    <<"shr", "add", "shl", "rl5">>, <<"rev", "xr2", "not", "xor">>,
    <<"xr2", "mul", "xor", "rev">>, <<"shr", "add", "pop", "mul">>,
    <<"xr4", "rlx", "rl5", "xr2">>, <<"and", "not", "rl3", "rl3">>,
    <<"xr2", "xr2", "xor", "not">>, <<"rev", "xr2", "add", "shr">>,
    <<"rl3", "rl1", "rl5", "rev">>, <<"shl", "mul", "and", "xor">> >>

RefOps128 == <<
    <<"rlx", "xr2", "xr2", "rl5">>, <<"not", "pop", "pop", "shr">>,
    <<"shr", "rlx", "rl1", "xr4">>, <<"sub", "rl1", "pop", "mul">>,
    <<"and", "rev", "rl5", "xr2">>, <<"xor", "rl5", "xr2", "shl">>,
    <<"not", "xr4", "rl1", "and">>, <<"shr", "xr2", "add", "rev">>,
    <<"shr", "sub", "xor", "rl5">>, <<"rl5", "shr", "rev", "rlx">>,
    <<"xor", "xor", "add", "sub">>, <<"rl5", "rl3", "xr2", "rl3">>,
    <<"rl1", "xr2", "xor", "rl5">>, <<"rl1", "sub", "pop", "add">>,
    <<"and", "rl5", "rev", "xr2">>, <<"and", "rl3", "shr", "shl">> >>

RefOps144 == <<
    <<"rlx", "shl", "not", "rlx">>, <<"rev", "xr4", "xr2", "xr4">>,
    <<"and", "shl", "and", "pop">>, <<"not", "shl", "xr4", "mul">>,
    <<"and", "rl5", "shl", "sub">>, <<"xor", "rev", "sub", "add">>,
    <<"shl", "shl", "shl", "and">>, <<"add", "shl", "mul", "shl">>,
    <<"shr", "not", "shl", "xr2">>, <<"rl1", "rl3", "not", "not">>,
    <<"rl5", "not", "xor", "pop">>, <<"sub", "xor", "pop", "xor">>,
    <<"shr", "shr", "rl3", "rl1">>, <<"shr", "shl", "rlx", "rl1">>,
    <<"pop", "rl3", "add", "rl1">>, <<"sub", "xor", "rlx", "xor">> >>

RefOps160 == <<
    <<"shr", "rev", "rl1", "rl3">>, <<"xor", "xor", "rl5", "rlx">>,
    <<"mul", "rev", "xr2", "sub">>, <<"shl", "sub", "xr4", "rl1">>,
    <<"mul", "pop", "sub", "not">>, <<"xr4", "xor", "shl", "add">>,
    <<"rl3", "add", "xr2", "not">>, <<"not", "not", "mul", "shr">>,
    <<"rlx", "and", "rlx", "rl1">>, <<"rl1", "shl", "xr4", "and">>,
    <<"sub", "rev", "sub", "mul">>, <<"rl3", "sub", "pop", "rev">>,
    <<"xr4", "sub", "shl", "rl1">>, <<"not", "shl", "mul", "add">>,
    <<"not", "rlx", "pop", "pop">>, <<"rl3", "sub", "mul", "rl5">> >>

RefOps176 == <<
    <<"xor", "mul", "xor", "rl5">>, <<"pop", "xr2", "xr2", "and">>,
    <<"and", "add", "not", "rl1">>, <<"xr2", "add", "shr", "rev">>,
    <<"shr", "xr4", "xor", "sub">>, <<"not", "shl", "xr2", "rl5">>,
    <<"xor", "rl1", "rl5", "xr4">>, <<"add", "sub", "sub", "mul">>,
    <<"shl", "mul", "rl5", "xor">>, <<"not", "xr4", "rl5", "shr">>,
    <<"xr2", "xr4", "sub", "shr">>, <<"xor", "not", "add", "rl3">>,
    <<"xr4", "pop", "xr4", "xr4">>, <<"rl5", "xr4", "xor", "sub">>,
    <<"rl5", "shr", "and", "xr2">>, <<"add", "rl3", "rlx", "shr">> >>

RefOps192 == <<
    <<"add", "shl", "add", "mul">>, <<"and", "shl", "rlx", "rl1">>,
    <<"and", "rlx", "shl", "and">>, <<"pop", "xr2", "xor", "xr4">>,
    <<"rl3", "rev", "shl", "rl1">>, <<"xr4", "rlx", "mul", "mul">>,
    <<"shr", "shr", "rev", "rl1">>, <<"not", "add", "mul", "xor">>,
    <<"shr", "pop", "rev", "rev">>, <<"rl3", "xr2", "xr4", "not">>,
    <<"xor", "not", "rlx", "rl5">>, <<"xor", "and", "rl1", "rlx">>,
    <<"rl5", "xr2", "rlx", "xor">>, <<"pop", "xr4", "shl", "add">>,
    <<"xr4", "rev", "rev", "pop">>, <<"rl5", "rl3", "pop", "pop">> >>

RefOps208 == <<
    <<"add", "add", "shr", "rl3">>, <<"rl5", "rev", "pop", "sub">>,
    <<"xr2", "rlx", "rl5", "not">>, <<"xr4", "add", "sub", "rlx">>,
    <<"rlx", "xr2", "xor", "xor">>, <<"add", "shl", "rl3", "sub">>,
    <<"xor", "sub", "shr", "not">>, <<"xor", "and", "shl", "mul">>,
    <<"rlx", "not", "sub", "and">>, <<"rl5", "add", "rl1", "xr4">>,
    <<"rev", "not", "mul", "sub">>, <<"xr4", "rl3", "and", "rev">>,
    <<"rl1", "shl", "rev", "shl">>, <<"rl5", "xor", "not", "rev">>,
    <<"shr", "shl", "xor", "mul">>, <<"rl3", "xor", "rlx", "sub">> >>

RefOps224 == <<
    <<"xr2", "rl1", "rl3", "shl">>, <<"not", "shr", "rev", "rl3">>,
    <<"rev", "sub", "mul", "xor">>, <<"not", "shl", "sub", "and">>,
    <<"add", "shr", "add", "pop">>, <<"rl3", "rlx", "xr2", "pop">>,
    <<"mul", "and", "rlx", "rlx">>, <<"rl3", "shr", "xor", "rev">>,
    <<"mul", "mul", "xr4", "rl5">>, <<"rl1", "pop", "rl3", "pop">>,
    <<"and", "mul", "shr", "xor">>, <<"xr2", "mul", "rl3", "not">>,
    <<"xor", "add", "and", "sub">>, <<"rl5", "shl", "xr2", "rl3">>,
    <<"add", "add", "rl3", "sub">>, <<"rl5", "rl1", "mul", "and">> >>

RefOps240 == <<
    <<"not", "add", "and", "shl">>, <<"xr4", "pop", "xor", "rl1">>,
    <<"add", "add", "sub", "xor">>, <<"rl5", "xr2", "pop", "rl1">>,
    <<"not", "xr2", "rev", "rl5">>, <<"sub", "rl5", "xr2", "shr">>,
    <<"add", "rl1", "shr", "add">>, <<"rl5", "xr2", "rl5", "not">>,
    <<"not", "sub", "pop", "rl5">>, <<"rev", "xr4", "xr4", "rlx">>,
    <<"and", "rlx", "pop", "xr4">>, <<"add", "pop", "rev", "xr2">>,
    <<"rev", "xr4", "xr2", "shl">>, <<"rl3", "xr2", "xor", "rl3">>,
    <<"pop", "rl3", "xr2", "rl3">>, <<"pop", "rl3", "xr2", "rl3">> >>

RefRow(op) ==
    LET blocks == <<RefOps0, RefOps16, RefOps32, RefOps48, RefOps64, RefOps80,
                    RefOps96, RefOps112, RefOps128, RefOps144, RefOps160, RefOps176,
                    RefOps192, RefOps208, RefOps224, RefOps240>>
    IN  blocks[(op \div 16) + 1][(op % 16) + 1]

\* What the switch of the reference does for op.
RefPrologue(op) == IF op >= 254 THEN "rekey" ELSE "none"
RefEpilogue(op) == IF op = 0 THEN "swap" ELSE IF op = 253 THEN "rehash" ELSE "none"

RefOp(op, s, pos1, pos2) ==
    OpLoop(RefRow(op), RefPrologue(op), RefEpilogue(op), s, pos1, pos2)

=============================================================================
