----------------------------- MODULE Collections ----------------------------
(***************************************************************************)
(* Sums and listings of finite sets, stated without recursion so that      *)
(* their laws follow from the cardinality theorems.                        *)
(***************************************************************************)
EXTENDS Integers, FiniteSets

\* The sum of f over S, for f with values in Nat, counted as the number of units: one
\* pair <<x, i>> for every i-th unit of x.
Units(S, f) == UNION {{x} \X (1 .. f[x]) : x \in S}

SumOver(S, f) == Cardinality(Units(S, f))

\* The members of S in the order of R, a set of pairs: each has as many before it as
\* its place says.
Rank(S, R, x) == Cardinality({y \in S : <<y, x>> \in R})

InOrder(S, R) ==
    [k \in 1 .. Cardinality(S) |-> CHOOSE x \in S : Rank(S, R, x) = k - 1]

\* The order of the numbers in S.
Ascending(S) == {p \in S \X S : p[1] < p[2]}
=============================================================================
