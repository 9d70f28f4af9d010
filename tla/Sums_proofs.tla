--------------------------------- MODULE Sums_proofs ---------------------------------
(***************************************************************************)
(* What Total computes, for sequences of any length, and SumOf, for finite *)
(* sets of any size.  Each proof is an induction: a set of numbers that has *)
(* 0 and the successor of each of its members has all of Nat, and a set of *)
(* subsets that has the empty one, and those that a member can be taken    *)
(* from, has them all.                                                     *)
(***************************************************************************)
EXTENDS Sums, FiniteSetTheorems, WellFoundedInduction, TLAPS

\* Induction over the natural numbers, for a set of them.
LEMMA NatSetInduction ==
    ASSUME NEW S, 0 \in S, \A n \in Nat : n \in S => n + 1 \in S
    PROVE  Nat \subseteq S
<1> DEFINE T == Nat \ S
           R == {ss \in Nat \X Nat : ss[1] < ss[2]}
<1>1. IsWellFoundedOn(R, Nat)
  BY NatLessThanWellFounded DEF OpToRel
<1>2. SUFFICES ASSUME T # {} PROVE FALSE
  OBVIOUS
<1>3. PICK x \in T : \A y \in T : <<y, x>> \notin R
  <2> HIDE DEF R
  <2>1. T \subseteq Nat
    OBVIOUS
  <2> HIDE DEF T
  <2> QED
    BY <1>1, <1>2, <2>1, WFMin
<1>4. x \in Nat /\ x # 0 /\ x - 1 \in Nat /\ x - 1 \notin S
  OBVIOUS
<1>5. <<x - 1, x>> \in R
  BY <1>4
<1> QED
  BY <1>3, <1>4, <1>5

\* The same up to a number.
LEMMA UpToInduction ==
    ASSUME NEW m \in Nat, NEW S, 0 \in S, \A n \in 0..m - 1 : n \in S => n + 1 \in S
    PROVE  0..m \subseteq S
<1> DEFINE T == {n \in Nat : n <= m => n \in S}
<1>1. 0 \in T
  OBVIOUS
<1>2. ASSUME NEW n \in Nat, n \in T PROVE n + 1 \in T
  <2>1. n + 1 <= m => n \in 0..m - 1 /\ n \in S
    BY <1>2
  <2>2. n + 1 <= m => n + 1 \in S
    BY <2>1
  <2> QED
    BY <2>2
<1> HIDE DEF T
<1>3. Nat \subseteq T
  BY <1>1, <1>2, NatSetInduction
<1> QED
  BY <1>3 DEF T

\* Every set of natural numbers that is not empty has a least member.
LEMMA LeastMember ==
    ASSUME NEW T, T \subseteq Nat, T # {}
    PROVE  \E x \in T : \A y \in T : x <= y
<1> DEFINE R == {ss \in Nat \X Nat : ss[1] < ss[2]}
<1>1. IsWellFoundedOn(R, Nat)
  BY NatLessThanWellFounded DEF OpToRel
<1>2. PICK x \in T : \A y \in T : <<y, x>> \notin R
  <2> HIDE DEF R
  <2> QED
    BY <1>1, WFMin
<1>3. \A y \in T : ~(y < x)
  BY <1>2
<1> QED
  BY <1>3

-----------------------------------------------------------------------------
(* The recursion is well defined *)

Sums(z, g, m) == g = [n \in 0..m |-> IF n = 0 THEN 0 ELSE g[n - 1] + z[n]]

LEMMA SumsExist ==
    ASSUME NEW z, NEW m \in Nat
    PROVE  \E g : Sums(z, g, m)
<1> DEFINE S == {k \in Nat : \E g : Sums(z, g, k)}
<1>1. 0 \in S
  <2> DEFINE g == [n \in 0..0 |-> 0]
  <2>1. g = [n \in 0..0 |-> IF n = 0 THEN 0 ELSE g[n - 1] + z[n]]
    OBVIOUS
  <2> QED
    BY <2>1 DEF Sums
<1>2. ASSUME NEW k \in Nat, k \in S PROVE k + 1 \in S
  <2>1. PICK g : g = [n \in 0..k |-> IF n = 0 THEN 0 ELSE g[n - 1] + z[n]]
    BY <1>2 DEF Sums
  <2> DEFINE h == [n \in 0..(k + 1) |-> IF n <= k THEN g[n] ELSE g[k] + z[k + 1]]
  <2>2. ASSUME NEW n \in 0..(k + 1) PROVE h[n] = IF n = 0 THEN 0 ELSE h[n - 1] + z[n]
    BY <2>1
  <2>3. h = [n \in 0..(k + 1) |-> IF n = 0 THEN 0 ELSE h[n - 1] + z[n]]
    BY <2>2
  <2>4. \E f : Sums(z, f, k + 1)
    BY <2>3 DEF Sums
  <2> QED
    BY <2>4
<1> HIDE DEF S
<1>3. Nat \subseteq S
  BY <1>1, <1>2, NatSetInduction
<1> QED
  BY <1>3 DEF S

LEMMA SumsUnfold ==
    ASSUME NEW z, NEW g, NEW m \in Nat, Sums(z, g, m)
    PROVE  g[0] = 0 /\ \A n \in 1..m : g[n] = g[n - 1] + z[n]
<1>1. \A n \in 0..m : g[n] = IF n = 0 THEN 0 ELSE g[n - 1] + z[n]
  BY DEF Sums
<1> QED
  BY <1>1

\* RunningSum is what its definition says.
LEMMA RunningSumUnfolds ==
    ASSUME NEW z, NEW m \in Nat, Len(z) = m
    PROVE  /\ RunningSum(z)[0] = 0
           /\ \A n \in 1..m : RunningSum(z)[n] = RunningSum(z)[n - 1] + z[n]
<1>1. RunningSum(z) = CHOOSE g : Sums(z, g, m)
  BY DEF RunningSum, Sums
<1>2. Sums(z, RunningSum(z), m)
  BY <1>1, SumsExist
<1> QED
  BY <1>2, SumsUnfold

-----------------------------------------------------------------------------
(* Sums of natural numbers *)

LEMMA SequenceFacts ==
    ASSUME NEW z \in Seq(Nat)
    PROVE  Len(z) \in Nat /\ DOMAIN z = 1..Len(z) /\ \A n \in 1..Len(z) : z[n] \in Nat
OBVIOUS

LEMMA RunningSumNat ==
    ASSUME NEW z \in Seq(Nat)
    PROVE  \A n \in 0..Len(z) : RunningSum(z)[n] \in Nat
<1> DEFINE m == Len(z)
           g == RunningSum(z)
           S == {n \in 0..m : g[n] \in Nat}
<1>1. m \in Nat /\ \A n \in 1..m : z[n] \in Nat
  BY SequenceFacts
<1>2. g[0] = 0 /\ \A n \in 1..m : g[n] = g[n - 1] + z[n]
  BY <1>1, RunningSumUnfolds
<1> HIDE DEF m, g
<1>3. 0 \in S
  BY <1>1, <1>2
<1>4. ASSUME NEW n \in 0..m - 1, n \in S PROVE n + 1 \in S
  <2>1. n + 1 \in 1..m /\ n + 1 \in 0..m /\ (n + 1) - 1 = n /\ g[n] \in Nat
    BY <1>1, <1>4
  <2>2. g[n + 1] = g[n] + z[n + 1] /\ z[n + 1] \in Nat
    BY <1>1, <1>2, <2>1
  <2>3. g[n + 1] \in Nat
    BY <2>1, <2>2
  <2> QED
    BY <2>1, <2>3
<1> HIDE DEF S
<1>5. 0..m \subseteq S
  BY <1>1, <1>3, <1>4, UpToInduction
<1> QED
  BY <1>5 DEF S, m, g

LEMMA TotalNat ==
    ASSUME NEW z \in Seq(Nat)
    PROVE  Total(z) \in Nat
BY RunningSumNat, SequenceFacts DEF Total

LEMMA EmptyTotal == ASSUME NEW z, Len(z) = 0 PROVE Total(z) = 0
BY RunningSumUnfolds DEF Total

\* The sums of a part of a sequence are those of the whole from there on.
LEMMA RunningSumShifts ==
    ASSUME NEW z \in Seq(Nat), NEW y \in Seq(Nat), NEW k \in Nat, NEW m \in Nat,
           k + m <= Len(z), m <= Len(y), \A n \in 1..m : y[n] = z[k + n]
    PROVE  \A n \in 0..m : RunningSum(z)[k + n] = RunningSum(z)[k] + RunningSum(y)[n]
<1> DEFINE g == RunningSum(z)
           h == RunningSum(y)
           S == {n \in 0..m : g[k + n] = g[k] + h[n]}
<1>1. Len(z) \in Nat /\ Len(y) \in Nat
  BY SequenceFacts
<1>2. \A n \in 1..Len(z) : g[n] = g[n - 1] + z[n]
  BY <1>1, RunningSumUnfolds
<1>3. h[0] = 0 /\ \A n \in 1..Len(y) : h[n] = h[n - 1] + y[n]
  BY <1>1, RunningSumUnfolds
<1>4. (\A n \in 0..Len(z) : g[n] \in Nat) /\ (\A n \in 0..Len(y) : h[n] \in Nat)
  BY RunningSumNat
<1>5. \A n \in 1..Len(y) : y[n] \in Nat
  BY SequenceFacts
<1> HIDE DEF g, h
<1>6. 0 \in S
  <2>1. k \in 0..Len(z) /\ k + 0 = k
    BY <1>1
  <2>2. g[k] = g[k] + h[0]
    BY <1>3, <1>4, <2>1
  <2> QED
    BY <2>1, <2>2
<1>7. ASSUME NEW n \in 0..m - 1, n \in S PROVE n + 1 \in S
  <2>1. n \in 0..m /\ n + 1 \in 1..m /\ n + 1 \in 0..m /\ (n + 1) - 1 = n
    OBVIOUS
  <2>2. g[k + n] = g[k] + h[n]
    BY <1>7
  <2> HIDE DEF S
  <2>3. /\ k \in 0..Len(z) /\ k + (n + 1) \in 1..Len(z) /\ (k + (n + 1)) - 1 = k + n
        /\ n \in 0..Len(y) /\ n + 1 \in 1..Len(y)
    BY <1>1
  <2>4. g[k + (n + 1)] = g[k + n] + z[k + (n + 1)]
    BY <1>2, <2>3
  <2>5. h[n + 1] = h[n] + y[n + 1]
    BY <1>3, <2>1, <2>3
  <2>6. z[k + (n + 1)] = y[n + 1] /\ y[n + 1] \in Nat /\ g[k] \in Nat /\ h[n] \in Nat
    BY <1>4, <1>5, <2>1, <2>3
  <2> DEFINE gk == g[k]
             hn == h[n]
             yn == y[n + 1]
  <2>7. /\ gk \in Nat /\ hn \in Nat /\ yn \in Nat
        /\ g[k + (n + 1)] = (gk + hn) + yn /\ h[n + 1] = hn + yn
    BY <2>2, <2>4, <2>5, <2>6, Zenon
  <2> HIDE DEF gk, hn, yn
  <2>8. (gk + hn) + yn = gk + (hn + yn)
    BY <2>7
  <2>9. g[k + (n + 1)] = g[k] + h[n + 1]
    BY <2>7, <2>8, Zenon DEF gk
  <2> QED
    BY <2>1, <2>9, Zenon DEF S
<1> HIDE DEF S
<1>8. 0..m \subseteq S
  BY <1>6, <1>7, UpToInduction
<1> QED
  BY <1>8 DEF S, g, h

\* One number more or less moves the sums from its place on.
LEMMA RunningSumMoves ==
    ASSUME NEW z \in Seq(Nat), NEW y \in Seq(Nat), Len(y) = Len(z), NEW b \in 1..Len(z), NEW d \in Int,
           y[b] = z[b] + d, \A n \in 1..Len(z) : n # b => y[n] = z[n]
    PROVE  \A n \in 0..Len(z) :
               RunningSum(y)[n] = RunningSum(z)[n] + (IF b <= n THEN d ELSE 0)
<1> DEFINE m == Len(z)
           g == RunningSum(z)
           h == RunningSum(y)
           S == {n \in 0..m : h[n] = g[n] + (IF b <= n THEN d ELSE 0)}
<1>1. /\ m \in Nat /\ b \in 1..m /\ y[b] = z[b] + d /\ \A n \in 1..m : n # b => y[n] = z[n]
      /\ \A n \in 1..m : z[n] \in Nat
  BY SequenceFacts
<1>2. g[0] = 0 /\ \A n \in 1..m : g[n] = g[n - 1] + z[n]
  BY <1>1, RunningSumUnfolds
<1>3. h[0] = 0 /\ \A n \in 1..m : h[n] = h[n - 1] + y[n]
  BY <1>1, RunningSumUnfolds
<1>4. \A n \in 0..m : g[n] \in Nat
  BY RunningSumNat
<1> HIDE DEF m, g, h
<1>5. 0 \in S
  BY <1>1, <1>2, <1>3
<1>6. ASSUME NEW n \in 0..m - 1, n \in S PROVE n + 1 \in S
  <2>1. n \in 0..m /\ n + 1 \in 1..m /\ n + 1 \in 0..m /\ (n + 1) - 1 = n
    BY <1>1
  <2>2. h[n] = g[n] + (IF b <= n THEN d ELSE 0)
    BY <1>6
  <2> HIDE DEF S
  <2>3. g[n + 1] = g[n] + z[n + 1] /\ h[n + 1] = h[n] + y[n + 1]
    BY <1>2, <1>3, <2>1
  <2>4. g[n] \in Nat /\ z[n + 1] \in Nat
    BY <1>1, <1>4, <2>1
  <2>5. CASE n + 1 = b
    <3>1. y[n + 1] = z[n + 1] + d /\ ~(b <= n) /\ b <= n + 1
      BY <1>1, <2>1, <2>5, SMTT(30)
    <3>2. h[n + 1] = g[n + 1] + d
      BY <2>2, <2>3, <2>4, <3>1, SMTT(30)
    <3> QED
      BY <2>1, <3>1, <3>2 DEF S
  <2>6. CASE n + 1 # b
    <3>1. y[n + 1] = z[n + 1] /\ (b <= n + 1 <=> b <= n)
      BY <1>1, <2>1, <2>6
    <3> DEFINE e == IF b <= n THEN d ELSE 0
               gn == g[n]
               zn == z[n + 1]
    <3>2. e \in Int
      OBVIOUS
    <3>3. h[n] = g[n] + e
      BY <2>2
    <3> HIDE DEF e
    <3>4. gn \in Nat /\ zn \in Nat /\ h[n + 1] = (gn + e) + zn /\ g[n + 1] = gn + zn
      BY <2>3, <2>4, <3>1, <3>3, Zenon
    <3> HIDE DEF gn, zn
    <3>5. (gn + e) + zn = (gn + zn) + e
      BY <3>2, <3>4
    <3>6. h[n + 1] = g[n + 1] + e
      BY <3>4, <3>5, Zenon
    <3> QED
      BY <2>1, <3>1, <3>6 DEF S, e
  <2> QED
    BY <2>5, <2>6
<1> HIDE DEF S
<1>7. 0..m \subseteq S
  BY <1>1, <1>5, <1>6, UpToInduction
<1> QED
  BY <1>7 DEF S, m, g, h

-----------------------------------------------------------------------------
(* What the operations on sequences do to the sums *)

\* What is left out at the beginning is left out of the sum.
LEMMA SuffixTotal ==
    ASSUME NEW z \in Seq(Nat), NEW y \in Seq(Nat), NEW k \in 0..Len(z),
           Len(y) = Len(z) - k, \A n \in 1..Len(z) - k : y[n] = z[k + n]
    PROVE  /\ Total(z) = RunningSum(z)[k] + Total(y)
           /\ \A n \in 0..Len(y) : RunningSum(z)[k + n] = RunningSum(z)[k] + RunningSum(y)[n]
<1>1. Len(z) \in Nat /\ Len(y) \in Nat /\ k + Len(y) = Len(z)
  BY SequenceFacts
<1>2. \A n \in 0..Len(y) : RunningSum(z)[k + n] = RunningSum(z)[k] + RunningSum(y)[n]
  <2> DEFINE m == Len(y)
  <2>1. m \in Nat /\ k \in Nat /\ k + m <= Len(z) /\ m <= Len(y) /\ m = Len(z) - k
    BY <1>1
  <2>2. \A n \in 1..m : y[n] = z[k + n]
    BY <2>1
  <2> HIDE DEF m
  <2>3. \A n \in 0..m : RunningSum(z)[k + n] = RunningSum(z)[k] + RunningSum(y)[n]
    BY <2>1, <2>2, RunningSumShifts, ZenonT(60)
  <2> QED
    BY <2>3 DEF m
<1> QED
  BY <1>1, <1>2 DEF Total

LEMMA PrefixSums ==
    ASSUME NEW z \in Seq(Nat), NEW y \in Seq(Nat), NEW m \in Nat,
           m <= Len(z), m <= Len(y), \A n \in 1..m : y[n] = z[n]
    PROVE  \A n \in 0..m : RunningSum(z)[n] = RunningSum(y)[n]
<1>1. Len(z) \in Nat /\ Len(y) \in Nat /\ 0 + m <= Len(z) /\ \A n \in 1..m : y[n] = z[0 + n]
  BY SequenceFacts
<1>2. \A n \in 0..m : RunningSum(z)[0 + n] = RunningSum(z)[0] + RunningSum(y)[n]
  <2> DEFINE k == 0
  <2>1. k \in Nat /\ k + m <= Len(z) /\ \A n \in 1..m : y[n] = z[k + n]
    BY <1>1
  <2> HIDE DEF k
  <2>2. \A n \in 0..m : RunningSum(z)[k + n] = RunningSum(z)[k] + RunningSum(y)[n]
    BY <2>1, RunningSumShifts
  <2> QED
    BY <2>2 DEF k
<1>3. RunningSum(z)[0] = 0 /\ \A n \in 0..m : RunningSum(y)[n] \in Nat
  BY <1>1, RunningSumUnfolds, RunningSumNat
<1>4. ASSUME NEW n \in 0..m PROVE RunningSum(z)[n] = RunningSum(y)[n]
  <2>1. RunningSum(z)[0 + n] = 0 + RunningSum(y)[n] /\ RunningSum(y)[n] \in Nat /\ 0 + n = n
    BY <1>2, <1>3
  <2> QED
    BY <2>1
<1> QED
  BY <1>4

\* A number added at the end is added to the sum.
LEMMA LongerTotal ==
    ASSUME NEW z \in Seq(Nat), NEW y \in Seq(Nat), Len(y) = Len(z) + 1,
           \A n \in 1..Len(z) : y[n] = z[n]
    PROVE  /\ Total(y) = Total(z) + y[Len(y)]
           /\ \A n \in 0..Len(z) : RunningSum(y)[n] = RunningSum(z)[n]
<1>1. Len(z) \in Nat /\ Len(y) \in Nat /\ Len(z) <= Len(y) /\ Len(y) \in 1..Len(y) /\ Len(y) - 1 = Len(z)
  BY SequenceFacts
<1>2. \A n \in 0..Len(z) : RunningSum(z)[n] = RunningSum(y)[n]
  BY <1>1, PrefixSums, SMTT(20)
<1>3. RunningSum(y)[Len(y)] = RunningSum(y)[Len(y) - 1] + y[Len(y)]
  BY <1>1, RunningSumUnfolds
<1>4. Len(z) \in 0..Len(z)
  BY <1>1
<1> QED
  BY <1>1, <1>2, <1>3, <1>4 DEF Total

\* A sum is positive when one of its numbers is.
LEMMA PositiveTotal ==
    ASSUME NEW z \in Seq(Nat)
    PROVE  Total(z) > 0 <=> \E i \in 1..Len(z) : z[i] > 0
<1> DEFINE m == Len(z)
           g == RunningSum(z)
           Some(n) == \E i \in 1..n : z[i] > 0
           S == {n \in 0..m : g[n] > 0 <=> Some(n)}
<1>1. m \in Nat /\ \A n \in 1..m : z[n] \in Nat
  BY SequenceFacts
<1>2. g[0] = 0 /\ \A n \in 1..m : g[n] = g[n - 1] + z[n]
  BY <1>1, RunningSumUnfolds
<1>3. \A n \in 0..m : g[n] \in Nat
  BY RunningSumNat
<1> HIDE DEF m, g
<1>4. 0 \in S
  BY <1>1, <1>2
<1>5. ASSUME NEW n \in 0..m - 1, n \in S PROVE n + 1 \in S
  <2>1. n \in 0..m /\ n + 1 \in 1..m /\ n + 1 \in 0..m /\ (n + 1) - 1 = n
    BY <1>1
  <2>2. g[n] > 0 <=> Some(n)
    BY <1>5
  <2>3. Some(n + 1) <=> Some(n) \/ z[n + 1] > 0
    <3>1. \A i : i \in 1..(n + 1) <=> i \in 1..n \/ i = n + 1
      BY <1>1
    <3> QED
      BY <3>1, Zenon
  <2> HIDE DEF S, Some
  <2> DEFINE gn == g[n]
             zn == z[n + 1]
  <2>4. gn \in Nat /\ zn \in Nat /\ g[n + 1] = gn + zn
    <3>1. g[n + 1] = g[n] + z[n + 1]
      BY <1>2, <2>1
    <3> QED
      BY <1>1, <1>3, <2>1, <3>1, Zenon
  <2>5. (gn > 0 <=> Some(n)) /\ (Some(n + 1) <=> Some(n) \/ zn > 0)
    BY <2>2, <2>3, Zenon
  <2> HIDE DEF gn, zn
  <2>6. g[n + 1] > 0 <=> Some(n + 1)
    BY <2>4, <2>5
  <2> QED
    BY <2>1, <2>6, Zenon DEF S
<1> HIDE DEF S
<1>6. 0..m \subseteq S
  BY <1>1, <1>4, <1>5, UpToInduction
<1>7. m \in S
  BY <1>1, <1>6
<1> QED
  BY <1>7, Zenon DEF S, Total, m, g

\* Zeros at the end add nothing.
LEMMA QuietEnd ==
    ASSUME NEW z \in Seq(Nat), NEW b \in 1..Len(z), \A n \in 1..Len(z) : n > b => z[n] = 0
    PROVE  Total(z) = RunningSum(z)[b]
<1> DEFINE m == Len(z) - b
           g == RunningSum(z)
           S == {n \in 0..m : g[b + n] = g[b]}
<1>1. Len(z) \in Nat /\ b \in Nat /\ m \in Nat /\ Len(z) = b + m
  BY SequenceFacts
<1>2. \A n \in 1..Len(z) : g[n] = g[n - 1] + z[n]
  BY <1>1, RunningSumUnfolds
<1>3. \A n \in 0..Len(z) : g[n] \in Nat
  BY RunningSumNat
<1> HIDE DEF m, g
<1>4. 0 \in S
  <2>1. b + 0 = b
    BY <1>1
  <2> QED
    BY <1>1, <2>1
<1>5. ASSUME NEW n \in 0..m - 1, n \in S PROVE n + 1 \in S
  <2>1. /\ n + 1 \in 0..m /\ b + (n + 1) \in 1..Len(z) /\ b + (n + 1) > b
        /\ (b + (n + 1)) - 1 = b + n /\ b \in 0..Len(z)
    BY <1>1
  <2>2. g[b + n] = g[b]
    BY <1>5
  <2> HIDE DEF S
  <2>3. g[b + (n + 1)] = g[b + n] + z[b + (n + 1)] /\ z[b + (n + 1)] = 0
    BY <1>2, <2>1
  <2> DEFINE gb == g[b]
  <2>4. gb \in Nat /\ g[b + (n + 1)] = gb + 0
    BY <1>3, <2>1, <2>2, <2>3, Zenon
  <2> HIDE DEF gb
  <2>5. g[b + (n + 1)] = gb
    BY <2>4
  <2> QED
    BY <2>1, <2>5, Zenon DEF S, gb
<1> HIDE DEF S
<1>6. 0..m \subseteq S
  BY <1>1, <1>4, <1>5, UpToInduction
<1>7. m \in S
  BY <1>1, <1>6
<1> QED
  BY <1>1, <1>7, Zenon DEF S, Total, g

LEMMA OneTotal ==
    ASSUME NEW z \in Seq(Nat), Len(z) = 1
    PROVE  Total(z) = z[1]
<1> DEFINE g == RunningSum(z)
<1>1. z[1] \in Nat
  BY SequenceFacts
<1>2. g[0] = 0 /\ \A n \in 1..1 : g[n] = g[n - 1] + z[n]
  BY RunningSumUnfolds
<1> HIDE DEF g
<1>3. g[1] = g[0] + z[1]
  BY <1>2
<1> DEFINE a == z[1]
<1>4. a \in Nat /\ g[1] = 0 + a
  BY <1>1, <1>2, <1>3, Zenon
<1> HIDE DEF a
<1>5. g[1] = a
  BY <1>4
<1> QED
  BY <1>5 DEF a, g, Total

LEMMA RunningSumBelow ==
    ASSUME NEW z \in Seq(Nat), NEW i \in 0..Len(z)
    PROVE  RunningSum(z)[i] <= Total(z)
<1> DEFINE y == [n \in 1..Len(z) - i |-> z[i + n]]
<1>1. Len(z) \in Nat /\ Len(z) - i \in Nat /\ \A n \in 1..Len(z) - i : i + n \in 1..Len(z)
  BY SequenceFacts
<1>2. \A n \in 1..Len(z) - i : y[n] = z[i + n] /\ y[n] \in Nat
  BY <1>1, SequenceFacts
<1>3. y \in Seq(Nat) /\ Len(y) = Len(z) - i
  BY <1>1, <1>2
<1> HIDE DEF y
<1>4. Total(z) = RunningSum(z)[i] + Total(y)
  BY <1>2, <1>3, SuffixTotal
<1>5. RunningSum(z)[i] \in Nat /\ Total(y) \in Nat
  BY <1>3, RunningSumNat, TotalNat
<1> QED
  BY <1>4, <1>5

\* Every set of numbers up to some number that is not empty has a greatest member.
LEMMA GreatestMember ==
    ASSUME NEW m \in Nat, NEW T, T \subseteq 0..m, T # {}
    PROVE  \E x \in T : \A y \in T : x >= y
<1> DEFINE U == {m - x : x \in T}
<1>1. U \subseteq Nat /\ U # {}
  <2>1. \A x \in T : x \in 0..m /\ m - x \in Nat
    OBVIOUS
  <2>2. PICK x : x \in T
    OBVIOUS
  <2>3. m - x \in U
    BY <2>2
  <2>4. U \subseteq Nat
    BY <2>1
  <2> QED
    BY <2>3, <2>4
<1> HIDE DEF U
<1>2. PICK u \in U : \A y \in U : u <= y
  BY <1>1, LeastMember
<1>3. PICK x \in T : u = m - x
  BY <1>2 DEF U
<1>4. ASSUME NEW y \in T PROVE x >= y
  <2>1. m - y \in U
    BY DEF U
  <2>2. m - x <= m - y
    BY <1>2, <1>3, <2>1
  <2> QED
    BY <2>2
<1> QED
  BY <1>4

-----------------------------------------------------------------------------
(* Finite sets                                                             *)

\* Induction over the subsets of a finite set.
LEMMA SubsetInduction ==
    ASSUME NEW D, IsFiniteSet(D), NEW G, {} \in G,
           \A s \in SUBSET D : s # {} => \E x \in s : s \ {x} \in G => s \in G
    PROVE  SUBSET D \subseteq G
<1> DEFINE N == {n \in Nat : \A s \in SUBSET D : Cardinality(s) = n => s \in G}
<1>1. \A s \in SUBSET D : IsFiniteSet(s) /\ Cardinality(s) \in Nat
  BY FS_Subset, FS_CardinalityType
<1>2. 0 \in N
  BY <1>1, FS_EmptySet
<1>3. ASSUME NEW n \in Nat, n \in N PROVE n + 1 \in N
  <2>1. SUFFICES ASSUME NEW s \in SUBSET D, Cardinality(s) = n + 1 PROVE s \in G
    OBVIOUS
  <2>2. s # {}
    BY <2>1, FS_EmptySet
  <2>3. PICK x \in s : s \ {x} \in G => s \in G
    BY <2>2
  <2>4. Cardinality(s \ {x}) = n /\ s \ {x} \in SUBSET D
    <3>1. Cardinality(s \ {x}) = Cardinality(s) - 1
      BY <1>1, FS_RemoveElement
    <3> QED
      BY <2>1, <3>1
  <2> QED
    BY <1>3, <2>3, <2>4
<1> HIDE DEF N
<1>4. Nat \subseteq N
  BY <1>2, <1>3, NatSetInduction
<1> QED
  BY <1>1, <1>4 DEF N

\* A fold over a finite set is a function of its subsets: the recursion is well defined.
Foldable(D, U, b, pick, F) ==
    /\ IsFiniteSet(D)
    /\ b \in U
    /\ F \in [D -> [U -> U]]
    /\ \A s \in SUBSET D : s # {} => pick[s] \in s
IsFold(g, D, U, b, pick, F) ==
    /\ g \in [SUBSET D -> U]
    /\ \A s \in SUBSET D : g[s] = IF s = {} THEN b ELSE F[pick[s]][g[s \ {pick[s]}]]

LEMMA FoldExists ==
    ASSUME NEW D, NEW U, NEW b, NEW pick, NEW F, Foldable(D, U, b, pick, F)
    PROVE  \E g : IsFold(g, D, U, b, pick, F)
<1> USE DEF Foldable
<1> DEFINE Step(g) ==
             [s \in SUBSET D |-> IF s = {} THEN b ELSE F[pick[s]][g[s \ {pick[s]}]]]
           N == {n \in Nat : \E g \in [SUBSET D -> U] :
                               \A s \in SUBSET D : Cardinality(s) <= n => g[s] = Step(g)[s]}
<1>1. \A s \in SUBSET D : IsFiniteSet(s) /\ Cardinality(s) \in Nat
                          /\ (Cardinality(s) = 0 <=> s = {})
  BY FS_Subset, FS_CardinalityType, FS_EmptySet
<1>2. ASSUME NEW g \in [SUBSET D -> U] PROVE Step(g) \in [SUBSET D -> U]
  <2>1. ASSUME NEW s \in SUBSET D, s # {} PROVE F[pick[s]][g[s \ {pick[s]}]] \in U
    <3>1. pick[s] \in D /\ s \ {pick[s]} \in SUBSET D
      BY <2>1
    <3>2. g[s \ {pick[s]}] \in U /\ F[pick[s]] \in [U -> U]
      BY <3>1
    <3> QED
      BY <3>2
  <2> QED
    BY <2>1
<1>3. 0 \in N
  <2> DEFINE g == [s \in SUBSET D |-> b]
  <2>1. g \in [SUBSET D -> U]
    OBVIOUS
  <2>2. \A s \in SUBSET D : Cardinality(s) <= 0 => g[s] = Step(g)[s]
    BY <1>1
  <2> HIDE DEF g
  <2> QED
    BY <2>1, <2>2
<1>4. ASSUME NEW n \in Nat, n \in N PROVE n + 1 \in N
  <2>1. PICK g \in [SUBSET D -> U] :
           \A s \in SUBSET D : Cardinality(s) <= n => g[s] = Step(g)[s]
    BY <1>4
  <2> DEFINE h == Step(g)
  <2>2. h \in [SUBSET D -> U]
    BY <1>2
  <2>3. ASSUME NEW s \in SUBSET D, Cardinality(s) <= n + 1 PROVE h[s] = Step(h)[s]
    <3>1. CASE s = {}
      BY SMTT(60), <3>1
    <3>2. CASE s # {}
      <4>1. s \ {pick[s]} \in SUBSET D /\ Cardinality(s \ {pick[s]}) <= n
        <5> DEFINE x == pick[s]
        <5>1. x \in s /\ IsFiniteSet(s) /\ Cardinality(s) \in Nat
          BY <1>1, <3>2
        <5> HIDE DEF x
        <5>2. Cardinality(s \ {x}) = Cardinality(s) - 1
          BY <5>1, FS_RemoveElement
        <5>3. Cardinality(s \ {x}) <= n
          BY <2>3, <5>1, <5>2
        <5> QED
          BY <5>3 DEF x
      <4>2. g[s \ {pick[s]}] = h[s \ {pick[s]}]
        BY <2>1, <4>1
      <4> QED
        BY <3>2, <4>2
    <3> QED
      BY <3>1, <3>2
  <2> HIDE DEF h, Step
  <2> QED
    BY <2>2, <2>3
<1>5. Cardinality(D) \in N
  <2> HIDE DEF N
  <2>1. Nat \subseteq N
    BY <1>3, <1>4, NatSetInduction
  <2> QED
    BY <2>1, FS_CardinalityType
<1>6. PICK g \in [SUBSET D -> U] :
         \A s \in SUBSET D : Cardinality(s) <= Cardinality(D) => g[s] = Step(g)[s]
  BY <1>5
<1>7. \A s \in SUBSET D : g[s] = Step(g)[s]
  BY <1>6, FS_Subset
<1>8. \A s \in SUBSET D : g[s] = IF s = {} THEN b ELSE F[pick[s]][g[s \ {pick[s]}]]
  <2> HIDE DEF N
  <2> QED
    BY <1>7
<1>9. IsFold(g, D, U, b, pick, F)
  <2> HIDE DEF N, Step
  <2> QED
    BY <1>8 DEF IsFold
<1> QED
  BY <1>9

-----------------------------------------------------------------------------
(* Sums                                                                    *)

Pick(s) == CHOOSE x \in s : TRUE

\* What SumOf computes, as a function of the subsets.
IsSum(h, size, D) ==
    h = [s \in SUBSET D |-> IF s = {} THEN 0 ELSE size[Pick(s)] + h[s \ {Pick(s)}]]

LEMMA Picked == ASSUME NEW s, s # {} PROVE Pick(s) \in s
BY DEF Pick

LEMMA SumExists ==
    ASSUME NEW D, IsFiniteSet(D), NEW size, \A x \in D : size[x] \in Nat
    PROVE  /\ IsSum(CHOOSE h : IsSum(h, size, D), size, D)
           /\ SumOf(size, D) = (CHOOSE h : IsSum(h, size, D))[D]
<1> DEFINE pick == [s \in SUBSET D |-> Pick(s)]
           F == [x \in D |-> [k \in Nat |-> size[x] + k]]
<1>1. \A s \in SUBSET D : s # {} => pick[s] \in s /\ pick[s] = Pick(s)
  BY Picked
<1>2. F \in [D -> [Nat -> Nat]] /\ \A x \in D, k \in Nat : F[x][k] = size[x] + k
  OBVIOUS
<1> HIDE DEF pick, F
<1>3. Foldable(D, Nat, 0, pick, F)
  BY <1>1, <1>2 DEF Foldable
<1>4. PICK g : IsFold(g, D, Nat, 0, pick, F)
  BY <1>3, FoldExists
<1>5. ASSUME NEW s \in SUBSET D, s # {}
      PROVE  F[pick[s]][g[s \ {pick[s]}]] = size[Pick(s)] + g[s \ {Pick(s)}]
  <2>1. pick[s] \in D /\ g[s \ {pick[s]}] \in Nat
    BY <1>1, <1>4, <1>5 DEF IsFold
  <2> QED
    BY <1>1, <1>2, <1>5, <2>1
<1>6. IsSum(g, size, D)
  BY <1>4, <1>5 DEF IsFold, IsSum
<1>7. SumOf(size, D) = (CHOOSE h : IsSum(h, size, D))[D]
  BY DEF SumOf, MapThenSumSet, MapThenFoldSet, IsSum, Pick
<1> QED
  BY <1>6, <1>7

\* The sum over a part of a set does not depend on the set.
LEMMA SumOfParts ==
    ASSUME NEW D, IsFiniteSet(D), NEW size, \A x \in D : size[x] \in Nat,
           NEW h, IsSum(h, size, D)
    PROVE  \A s \in SUBSET D : h[s] = SumOf(size, s) /\ h[s] \in Nat
<1>1. ASSUME NEW E \in SUBSET D PROVE h[E] = SumOf(size, E) /\ h[E] \in Nat
  <2> DEFINE e == CHOOSE f : IsSum(f, size, E)
             G == {s \in SUBSET E : e[s] = h[s] /\ h[s] \in Nat}
  <2>1. IsFiniteSet(E)
    BY FS_Subset
  <2>2. IsSum(e, size, E) /\ SumOf(size, E) = e[E]
    BY <2>1, SumExists
  <2> HIDE DEF e
  <2>3. {} \in G
    BY <2>2 DEF IsSum
  <2>4. ASSUME NEW s \in SUBSET E, s # {} PROVE \E x \in s : s \ {x} \in G => s \in G
    <3>1. Pick(s) \in s
      BY <2>4, Picked
    <3>2. e[s] = size[Pick(s)] + e[s \ {Pick(s)}] /\ h[s] = size[Pick(s)] + h[s \ {Pick(s)}]
      BY <2>2, <2>4 DEF IsSum
    <3>3. size[Pick(s)] \in Nat
      BY <3>1
    <3>4. s \ {Pick(s)} \in G => s \in G
      BY <3>2, <3>3
    <3> QED
      BY <3>1, <3>4
  <2> HIDE DEF G
  <2>5. SUBSET E \subseteq G
    BY <2>1, <2>3, <2>4, SubsetInduction
  <2> QED
    BY <2>2, <2>5 DEF G
<1> QED
  BY <1>1

LEMMA SumNat ==
    ASSUME NEW D, IsFiniteSet(D), NEW size, \A x \in D : size[x] \in Nat
    PROVE  SumOf(size, D) \in Nat
BY SumExists, SumOfParts

LEMMA EmptySum == ASSUME NEW size PROVE SumOf(size, {}) = 0
BY DEF SumOf, MapThenSumSet, MapThenFoldSet

\* A sum by the member that the fold takes first.
LEMMA SumUnfolds ==
    ASSUME NEW D, IsFiniteSet(D), NEW size, \A x \in D : size[x] \in Nat, D # {}
    PROVE  SumOf(size, D) = size[Pick(D)] + SumOf(size, D \ {Pick(D)})
<1> DEFINE h == CHOOSE f : IsSum(f, size, D)
<1>1. IsSum(h, size, D)
  BY SumExists
<1> HIDE DEF h
<1>2. h[D] = size[Pick(D)] + h[D \ {Pick(D)}]
  BY <1>1 DEF IsSum
<1>3. h[D] = SumOf(size, D) /\ h[D \ {Pick(D)}] = SumOf(size, D \ {Pick(D)})
  BY <1>1, SumOfParts
<1> QED
  BY <1>2, <1>3

\* By any member.
LEMMA SumOfOthers ==
    ASSUME NEW D, IsFiniteSet(D), NEW size, \A x \in D : size[x] \in Nat
    PROVE  \A x \in D : SumOf(size, D) = size[x] + SumOf(size, D \ {x})
<1> DEFINE Splits(s) == \A x \in s : SumOf(size, s) = size[x] + SumOf(size, s \ {x})
           N == {n \in Nat : \A s \in SUBSET D : Cardinality(s) = n => Splits(s)}
<1>1. \A s \in SUBSET D : IsFiniteSet(s) /\ Cardinality(s) \in Nat /\ SumOf(size, s) \in Nat
  BY FS_Subset, FS_CardinalityType, SumNat
<1>2. 0 \in N
  BY <1>1, FS_EmptySet
<1>3. ASSUME NEW n \in Nat, n \in N PROVE n + 1 \in N
  <2>1. SUFFICES ASSUME NEW s \in SUBSET D, Cardinality(s) = n + 1, NEW x \in s
                 PROVE  SumOf(size, s) = size[x] + SumOf(size, s \ {x})
    OBVIOUS
  <2> DEFINE y == Pick(s)
  <2>2. y \in s
    BY Picked
  <2>3. SumOf(size, s) = size[y] + SumOf(size, s \ {y})
    BY <1>1, SumUnfolds
  <2> HIDE DEF y
  <2>4. CASE x = y
    BY <2>3, <2>4
  <2>5. CASE x # y
    <3>1. \A z \in s : Cardinality(s \ {z}) = n /\ s \ {z} \in SUBSET D
      <4>1. ASSUME NEW z \in s PROVE Cardinality(s \ {z}) = Cardinality(s) - 1
        BY <1>1, FS_RemoveElement
      <4> QED
        BY <2>1, <4>1
    <3>2. \A z \in s : Splits(s \ {z})
      BY <1>3, <3>1
    <3>3. SumOf(size, s \ {y}) = size[x] + SumOf(size, (s \ {y}) \ {x})
      BY <2>2, <2>5, <3>2
    <3>4. SumOf(size, s \ {x}) = size[y] + SumOf(size, (s \ {x}) \ {y})
      BY <2>2, <2>5, <3>2
    <3>5. (s \ {y}) \ {x} = (s \ {x}) \ {y}
      OBVIOUS
    <3>6. size[x] \in Nat /\ size[y] \in Nat /\ SumOf(size, (s \ {x}) \ {y}) \in Nat
      BY <1>1, <2>2
    <3> QED
      BY <2>3, <3>3, <3>4, <3>5, <3>6
  <2> QED
    BY <2>4, <2>5
<1> HIDE DEF N
<1>4. Nat \subseteq N
  BY <1>2, <1>3, NatSetInduction
<1>5. Cardinality(D) \in N
  BY <1>1, <1>4
<1> QED
  BY <1>5 DEF N

\* Over two sets that are disjoint.
LEMMA SumOfUnion ==
    ASSUME NEW A, NEW B, IsFiniteSet(A), IsFiniteSet(B), A \cap B = {}, NEW size,
           \A x \in A \cup B : size[x] \in Nat
    PROVE  SumOf(size, A \cup B) = SumOf(size, A) + SumOf(size, B)
<1> DEFINE G == {s \in SUBSET B : SumOf(size, A \cup s) = SumOf(size, A) + SumOf(size, s)}
<1>1. SumOf(size, A) \in Nat
  BY SumNat
<1>2. {} \in G
  BY <1>1, EmptySum
<1>3. ASSUME NEW s \in SUBSET B, s # {} PROVE \E x \in s : s \ {x} \in G => s \in G
  <2>1. PICK x : x \in s
    BY <1>3
  <2>2. IsFiniteSet(s) /\ IsFiniteSet(s \ {x}) /\ IsFiniteSet(A \cup s)
    BY FS_Subset, FS_Union
  <2>3. SumOf(size, s) = size[x] + SumOf(size, s \ {x}) /\ SumOf(size, s \ {x}) \in Nat
    BY <2>1, <2>2, SumOfOthers, SumNat
  <2>4. SumOf(size, A \cup s) = size[x] + SumOf(size, (A \cup s) \ {x})
    BY <2>1, <2>2, SumOfOthers
  <2>5. (A \cup s) \ {x} = A \cup (s \ {x})
    BY <2>1
  <2>6. ASSUME s \ {x} \in G PROVE s \in G
    <3>1. SumOf(size, A \cup (s \ {x})) = SumOf(size, A) + SumOf(size, s \ {x})
      BY <2>6
    <3>2. size[x] \in Nat
      BY <2>1
    <3>3. SumOf(size, A \cup s) = SumOf(size, A) + SumOf(size, s)
      BY <1>1, <2>3, <2>4, <2>5, <3>1, <3>2
    <3> QED
      BY <3>3
  <2> QED
    BY <2>1, <2>6
<1> HIDE DEF G
<1>4. SUBSET B \subseteq G
  BY <1>2, <1>3, SubsetInduction
<1> QED
  BY <1>4 DEF G

\* Sizes that agree on a set have the same sum over it.
LEMMA SumAgrees ==
    ASSUME NEW D, IsFiniteSet(D), NEW f, NEW g, \A x \in D : f[x] \in Nat /\ g[x] = f[x]
    PROVE  SumOf(g, D) = SumOf(f, D)
<1> DEFINE G == {s \in SUBSET D : SumOf(g, s) = SumOf(f, s)}
<1>1. {} \in G
  BY EmptySum
<1>2. ASSUME NEW s \in SUBSET D, s # {} PROVE \E x \in s : s \ {x} \in G => s \in G
  <2>1. PICK x : x \in s
    BY <1>2
  <2>2. IsFiniteSet(s)
    BY FS_Subset
  <2>3. SumOf(f, s) = f[x] + SumOf(f, s \ {x}) /\ SumOf(g, s) = g[x] + SumOf(g, s \ {x})
    BY <2>1, <2>2, SumOfOthers
  <2> QED
    BY <2>1, <2>3
<1> HIDE DEF G
<1>3. SUBSET D \subseteq G
  BY <1>1, <1>2, SubsetInduction
<1> QED
  BY <1>3 DEF G

\* A sum is at least the least size for each of some members.
LEMMA SumAtLeast ==
    ASSUME NEW D, IsFiniteSet(D), NEW size, NEW least \in Nat,
           \A x \in D : size[x] \in Nat /\ size[x] >= least,
           NEW n \in Nat, n <= Cardinality(D)
    PROVE  n * least <= SumOf(size, D)
<1> DEFINE G == {s \in SUBSET D : \A k \in Nat : k <= Cardinality(s) => k * least <= SumOf(size, s)}
<1>1. {} \in G
  <2>1. Cardinality({}) = 0 /\ SumOf(size, {}) = 0
    BY FS_EmptySet, EmptySum
  <2>2. 0 * least = 0
    OBVIOUS
  <2>3. \A k \in Nat : k <= Cardinality({}) => k = 0
    BY <2>1
  <2> QED
    BY <2>1, <2>2, <2>3
<1>2. ASSUME NEW s \in SUBSET D, s # {} PROVE \E x \in s : s \ {x} \in G => s \in G
  <2>1. PICK x : x \in s
    BY <1>2
  <2>2. IsFiniteSet(s) /\ IsFiniteSet(s \ {x})
    BY FS_Subset
  <2>3. SumOf(size, s) = size[x] + SumOf(size, s \ {x}) /\ SumOf(size, s \ {x}) \in Nat
    BY <2>1, <2>2, SumOfOthers, SumNat
  <2>4. Cardinality(s \ {x}) = Cardinality(s) - 1 /\ Cardinality(s) \in Nat
    BY <2>1, <2>2, FS_RemoveElement, FS_CardinalityType
  <2>5. ASSUME s \ {x} \in G, NEW k \in Nat, k <= Cardinality(s) PROVE k * least <= SumOf(size, s)
    <3>1. size[x] \in Nat /\ size[x] >= least
      BY <2>1
    <3>2. CASE k = 0
      <4>1. k * least = 0
        BY <3>2
      <4> QED
        BY <2>3, <3>1, <4>1
    <3>3. CASE k # 0
      <4>1. k - 1 \in Nat /\ k - 1 <= Cardinality(s \ {x})
        BY <2>4, <2>5, <3>3
      <4>2. (k - 1) * least <= SumOf(size, s \ {x})
        BY <2>5, <4>1
      <4>3. k * least = (k - 1) * least + least /\ (k - 1) * least \in Nat
        BY <4>1
      <4> HIDE <2>5
      <4> QED
        BY <2>3, <3>1, <4>2, <4>3
    <3> QED
      BY <3>2, <3>3
  <2>6. s \ {x} \in G => s \in G
    BY <2>5
  <2> QED
    BY <2>1, <2>6
<1> HIDE DEF G
<1>3. SUBSET D \subseteq G
  BY <1>1, <1>2, SubsetInduction
<1> QED
  BY <1>3 DEF G

=============================================================================
