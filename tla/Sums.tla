---------------------------------- MODULE Sums ----------------------------------
(***************************************************************************)
(* Sums of numbers, over a sequence and over a set: what queues, limits and *)
(* budgets count of what they hold.                                        *)
(***************************************************************************)
EXTENDS Integers, Sequences, FiniteSetsExt

\* The sum of the first n numbers, for each n.
RunningSum(z) ==
    LET sum[n \in 0..Len(z)] == IF n = 0 THEN 0 ELSE sum[n - 1] + z[n]
    IN  sum

Total(z) == RunningSum(z)[Len(z)]

\* The sum of size over the members of a set.
SumOf(size, members) == MapThenSumSet(LAMBDA a : size[a], members)
=============================================================================
