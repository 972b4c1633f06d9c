------------------------------ MODULE MoveMath ------------------------------
(***************************************************************************)
(* Integer arithmetic of the DeepVault Move package: the multiply-then-    *)
(* divide helpers of helpers/math.move, the u64 range that Move checks     *)
(* (an operation that leaves it aborts the transaction), and Sui's Table.  *)
(***************************************************************************)
EXTENDS Collections

CONSTANT U64Max        \* largest u64: 2^64 - 1 in Move, a small number for TLC

ASSUME U64MaxAssumption == U64Max \in Nat \ {0}

U64 == 0 .. U64Max

\* math::mul_div_round_down.  The u128 product cannot overflow; the cast back
\* to u64 can, so callers guard the result with "\in U64".
MulDivDown(a, b, c) == (a * b) \div c

\* math::mul_div_round_up: one more than the quotient unless the division is exact.
MulDivUp(a, b, c) ==
    IF (a * b) % c = 0 THEN (a * b) \div c ELSE (a * b) \div c + 1

\* math::min
MinOf(a, b) == IF a < b THEN a ELSE b

(***************************************************************************)
(* sui::table: a partial function.  add aborts on a present key, remove on *)
(* an absent one; the callers' guards carry those conditions.              *)
(***************************************************************************)
EmptyTable == [x \in {} |-> 0]

TableAdd(t, k, v) == [x \in DOMAIN t \cup {k} |-> IF x = k THEN v ELSE t[x]]

TableRemove(t, k) == [x \in DOMAIN t \ {k} |-> t[x]]
=============================================================================
