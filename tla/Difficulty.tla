----------------------------- MODULE Difficulty -----------------------------
(***************************************************************************)
(* The share target (internal/miner/difficulty.go), with Digits digits of  *)
(* base Base for the 32 bytes: a target has its most significant digit     *)
(* first, a hash its least significant one.                                *)
(***************************************************************************)
EXTENDS Integers, FiniteSetsExt

CONSTANTS Base, Digits

ASSUME DigitsAssumption == Base \in Nat \ {0, 1} /\ Digits \in Nat \ {0}

\* Base^n.
Power(n) == LET power[k \in 0..n] == IF k = 0 THEN 1 ELSE Base * power[k - 1]
            IN  power[n]

Limit == Power(Digits)

\* The digit of n that counts for Power(k).
Digit(n, k) == (n \div Power(k)) % Base

\* FillBytes: the digits of n, most significant first.
Fill(n) == [i \in 0..(Digits - 1) |-> Digit(n, Digits - 1 - i)]

\* A quotient of Digits + 1 digits does not fit, hence the case of difficulty 1.
ComputeTarget(diff) ==
    IF diff = 0 THEN [i \in 0..(Digits - 1) |-> 0]
    ELSE IF diff = 1 THEN [i \in 0..(Digits - 1) |-> Base - 1]
    ELSE Fill(Limit \div diff)

\* The places where hash and target differ, most significant first.
Differ(pow, target) == {i \in 0..(Digits - 1) : pow[Digits - 1 - i] # target[i]}

\* A variant of MeetsTarget (below) that refuses a hash equal to the target.
MeetsTargetStrict(pow, target) ==
    /\ Differ(pow, target) # {}
    /\ LET i == Min(Differ(pow, target)) IN pow[Digits - 1 - i] < target[i]

\* The first difference decides; equality passes.
MeetsTarget(pow, target) ==
    \/ Differ(pow, target) = {}
    \/ LET i == Min(Differ(pow, target)) IN pow[Digits - 1 - i] < target[i]

\* The hash with value n.
HashOf(n) == [i \in 0..(Digits - 1) |-> Digit(n, i)]

=============================================================================
