-------------------------- MODULE Observations_proofs --------------------------
(***************************************************************************)
(* Proofs about the observations, for any number of threads, channels,     *)
(* producers, vectors and plans, and for all limits.  In ObservationLedger, *)
(* what is accepted is counted once and in order, room is never lost, and  *)
(* one notify is enough; in ObservationHistory, the tables agree and the   *)
(* evidence of a plan is detected and kept.                                *)
(***************************************************************************)
EXTENDS ObservationLedger, ObservationHistory, Sums_proofs

-----------------------------------------------------------------------------
(* Sequences *)

LEMMA SeqFacts ==
    ASSUME NEW I, NEW s \in Seq(I)
    PROVE  /\ Len(s) \in Nat
           /\ DOMAIN s = 1..Len(s)
           /\ \A n \in 1..Len(s) : s[n] \in I
           /\ s = <<>> <=> Len(s) = 0
OBVIOUS

LEMMA AppendFacts ==
    ASSUME NEW I, NEW s \in Seq(I), NEW e \in I
    PROVE  /\ Append(s, e) \in Seq(I)
           /\ Len(Append(s, e)) = Len(s) + 1
           /\ Append(s, e)[Len(s) + 1] = e
           /\ \A n \in 1..Len(s) : Append(s, e)[n] = s[n]
OBVIOUS

LEMMA TailFacts ==
    ASSUME NEW I, NEW s \in Seq(I), s # <<>>
    PROVE  /\ Head(s) = s[1] /\ s[1] \in I /\ Len(s) \in Nat \ {0}
           /\ Tail(s) \in Seq(I)
           /\ Len(Tail(s)) = Len(s) - 1
           /\ \A n \in 1..Len(s) - 1 : Tail(s)[n] = s[1 + n]
OBVIOUS

LEMMA SuffixFacts ==
    ASSUME NEW I, NEW s \in Seq(I), NEW k \in 0..Len(s)
    PROVE  /\ SubSeq(s, k + 1, Len(s)) \in Seq(I)
           /\ Len(SubSeq(s, k + 1, Len(s))) = Len(s) - k
           /\ \A n \in 1..Len(s) - k : SubSeq(s, k + 1, Len(s))[n] = s[k + n]
OBVIOUS

LEMMA PrefixFacts ==
    ASSUME NEW I, NEW s \in Seq(I), NEW k \in 0..Len(s)
    PROVE  /\ SubSeq(s, 1, k) \in Seq(I)
           /\ Len(SubSeq(s, 1, k)) = k
           /\ \A n \in 1..k : SubSeq(s, 1, k)[n] = s[n]
OBVIOUS

LEMMA ReplaceFacts ==
    ASSUME NEW I, NEW s \in Seq(I), NEW b \in 1..Len(s), NEW e \in I
    PROVE  /\ [s EXCEPT ![b] = e] \in Seq(I)
           /\ Len([s EXCEPT ![b] = e]) = Len(s)
           /\ [s EXCEPT ![b] = e][b] = e
           /\ \A n \in 1..Len(s) : n # b => [s EXCEPT ![b] = e][n] = s[n]
OBVIOUS

LEMMA SameSequence ==
    ASSUME NEW I, NEW s \in Seq(I), NEW t \in Seq(I), Len(s) = Len(t),
           \A n \in 1..Len(s) : s[n] = t[n]
    PROVE  s = t
<1>1. s = [n \in 1..Len(s) |-> s[n]] /\ t = [n \in 1..Len(t) |-> t[n]]
  OBVIOUS
<1> QED
  BY <1>1

-----------------------------------------------------------------------------
(* Items *)

More(e) == [e EXCEPT !.occurrences = @ + 1]

\* What the two kinds of queued items have in common.
Carries(I) ==
    \A e \in I : /\ e.channel \in Channels
                /\ e.value \in Vectors /\ e.value # Nobody
                /\ e.occurrences \in Nat \ {0}
                /\ Size[e.value] \in Nat \ {0} /\ Size[e.value] <= MaxBytes
                /\ More(e) \in I
                /\ More(e).channel = e.channel /\ More(e).value = e.value
                /\ More(e).occurrences = e.occurrences + 1

LEMMA Carried == Carries(Observations) /\ Carries(Candidates)
<1>1. Carries(Observations)
  BY LedgerAssumption DEF Carries, Observations, More, Channels
<1>2. Carries(Candidates)
  BY LedgerAssumption DEF Carries, Candidates, More, Channels
<1> QED
  BY <1>1, <1>2

LEMMA ItemFacts ==
    ASSUME NEW I, Carries(I), NEW e \in I
    PROVE  /\ e.channel \in Channels
           /\ e.value \in Vectors /\ e.value # Nobody
           /\ e.occurrences \in Nat \ {0}
           /\ Size[e.value] \in Nat \ {0} /\ Size[e.value] <= MaxBytes
           /\ More(e) \in I
           /\ More(e).channel = e.channel /\ More(e).value = e.value
           /\ More(e).occurrences = e.occurrences + 1
BY DEF Carries

LEMMA NewItems ==
    /\ \A p \in QueueProducers, v \in Vectors : Item("observation", p, v, 1) \in Observations
    /\ \A s \in Scopes, v \in Vectors : Item("candidate", s, v, 1) \in Candidates
    /\ \A p \in QueueProducers, n \in Nat \ {0} : Item("advance", p, Nobody, n) \in Advances
BY DEF Item, Observations, Candidates, Advances

LEMMA NumberSeq ==
    ASSUME NEW m \in Nat, NEW z, z = [n \in 1..m |-> z[n]], \A n \in 1..m : z[n] \in Nat
    PROVE  z \in Seq(Nat) /\ Len(z) = m
OBVIOUS

Sizes(items) == [n \in 1..Len(items) |-> Size[items[n].value]]

LEMMA SizesFacts ==
    ASSUME NEW I, Carries(I), NEW s \in Seq(I)
    PROVE  /\ Sizes(s) \in Seq(Nat) /\ Len(Sizes(s)) = Len(s)
           /\ \A n \in 1..Len(s) : Sizes(s)[n] = Size[s[n].value]
           /\ Bytes(s) = Total(Sizes(s)) /\ Bytes(s) \in Nat
<1>1. Len(s) \in Nat /\ \A n \in 1..Len(s) : s[n] \in I
  BY SeqFacts
<1>2. Sizes(s) = [n \in 1..Len(s) |-> Sizes(s)[n]]
      /\ \A n \in 1..Len(s) : Sizes(s)[n] = Size[s[n].value]
  BY DEF Sizes
<1>3. \A n \in 1..Len(s) : Sizes(s)[n] \in Nat
  BY <1>1, <1>2, ItemFacts
<1>4. Sizes(s) \in Seq(Nat) /\ Len(Sizes(s)) = Len(s)
  BY <1>1, <1>2, <1>3, NumberSeq
<1>5. Bytes(s) = Total(Sizes(s))
  BY DEF Bytes, Sizes
<1> QED
  BY <1>2, <1>4, <1>5, TotalNat

LEMMA CountsFacts ==
    ASSUME NEW I, Carries(I), NEW s \in Seq(I), NEW c
    PROVE  /\ Counts(s, c) \in Seq(Nat) /\ Len(Counts(s, c)) = Len(s)
           /\ \A n \in 1..Len(s) :
                  Counts(s, c)[n] = IF s[n].channel = c THEN s[n].occurrences ELSE 0
           /\ OccurrencesOf(s, c) \in Nat
<1>1. Len(s) \in Nat /\ \A n \in 1..Len(s) : s[n] \in I
  BY SeqFacts
<1>2. Counts(s, c) = [n \in 1..Len(s) |-> Counts(s, c)[n]]
      /\ \A n \in 1..Len(s) : Counts(s, c)[n] = IF s[n].channel = c THEN s[n].occurrences ELSE 0
  BY DEF Counts
<1>3. \A n \in 1..Len(s) : Counts(s, c)[n] \in Nat
  BY <1>1, <1>2, ItemFacts
<1>4. Counts(s, c) \in Seq(Nat) /\ Len(Counts(s, c)) = Len(s)
  BY <1>1, <1>2, <1>3, NumberSeq
<1> QED
  BY <1>2, <1>4, TotalNat DEF OccurrencesOf

Queued(s, c) == \E n \in 1..Len(s) : s[n].channel = c

\* Some occurrence of a channel is among items when one of them is.
LEMMA SomeOccurrence ==
    ASSUME NEW I, Carries(I), NEW s \in Seq(I), NEW c
    PROVE  OccurrencesOf(s, c) > 0 <=> Queued(s, c)
<1>1. \A n \in 1..Len(s) : s[n].occurrences \in Nat \ {0}
  BY SeqFacts, ItemFacts
<1>2. \A n \in 1..Len(s) : Counts(s, c)[n] > 0 <=> s[n].channel = c
  BY <1>1, CountsFacts
<1>3. OccurrencesOf(s, c) > 0 <=> \E n \in 1..Len(s) : Counts(s, c)[n] > 0
  BY CountsFacts, PositiveTotal DEF OccurrencesOf
<1> QED
  BY <1>2, <1>3 DEF Queued

LEMMA BytesAppend ==
    ASSUME NEW I, Carries(I), NEW s \in Seq(I), NEW e \in I
    PROVE  Bytes(Append(s, e)) = Bytes(s) + Size[e.value]
<1> DEFINE t == Append(s, e)
<1>1. t \in Seq(I) /\ Len(t) = Len(s) + 1 /\ t[Len(s) + 1] = e /\ Len(s) \in Nat
      /\ \A n \in 1..Len(s) : t[n] = s[n]
  BY AppendFacts, SeqFacts
<1> HIDE DEF t
<1>2. \A n \in 1..Len(s) : Sizes(t)[n] = Sizes(s)[n]
  <2>1. \A n \in 1..Len(s) : Sizes(s)[n] = Size[s[n].value]
    BY SizesFacts
  <2>2. \A n \in 1..Len(t) : Sizes(t)[n] = Size[t[n].value]
    BY <1>1, SizesFacts
  <2>3. \A n \in 1..Len(s) : n \in 1..Len(t)
    BY <1>1
  <2> QED
    BY <1>1, <2>1, <2>2, <2>3, Zenon
<1>3. Sizes(t)[Len(s) + 1] = Size[e.value]
  BY <1>1, SizesFacts, SMTT(30)
<1>4. Total(Sizes(t)) = Total(Sizes(s)) + Sizes(t)[Len(s) + 1]
  <2>1. Sizes(s) \in Seq(Nat) /\ Sizes(t) \in Seq(Nat) /\ Len(Sizes(t)) = Len(Sizes(s)) + 1
        /\ Len(Sizes(s)) = Len(s)
    BY <1>1, SizesFacts
  <2>2. Total(Sizes(t)) = Total(Sizes(s)) + Sizes(t)[Len(Sizes(t))]
    <3>1. \A n \in 1..Len(Sizes(s)) : Sizes(t)[n] = Sizes(s)[n]
      BY <1>2, <2>1
    <3> QED
      BY <2>1, <3>1, LongerTotal, Zenon
  <2> QED
    BY <2>1, <2>2
<1> QED
  BY <1>1, <1>3, <1>4, SizesFacts DEF t

LEMMA BytesMore ==
    ASSUME NEW I, Carries(I), NEW s \in Seq(I), NEW b \in 1..Len(s)
    PROVE  Bytes([s EXCEPT ![b] = More(s[b])]) = Bytes(s)
<1> DEFINE t == [s EXCEPT ![b] = More(s[b])]
<1>1. s[b] \in I /\ More(s[b]) \in I /\ More(s[b]).value = s[b].value
  BY SeqFacts, ItemFacts
<1>2. Len(t) = Len(s) /\ \A n \in 1..Len(s) : t[n].value = s[n].value
  BY <1>1, ReplaceFacts
<1> HIDE DEF t
<1>3. Sizes(t) = Sizes(s)
  BY <1>2 DEF Sizes
<1> QED
  BY <1>3 DEF Bytes, Sizes, t

\* What goes from the front, and what stays, make up the whole.
LEMMA BytesSplit ==
    ASSUME NEW I, Carries(I), NEW s \in Seq(I), NEW k \in 0..Len(s)
    PROVE  Bytes(s) = Bytes(SubSeq(s, 1, k)) + Bytes(SubSeq(s, k + 1, Len(s)))
<1> DEFINE a == SubSeq(s, 1, k)
           t == SubSeq(s, k + 1, Len(s))
<1>1. Len(s) \in Nat /\ a \in Seq(I) /\ Len(a) = k /\ \A n \in 1..k : a[n] = s[n]
  BY SeqFacts, PrefixFacts
<1>2. t \in Seq(I) /\ Len(t) = Len(s) - k /\ \A n \in 1..Len(s) - k : t[n] = s[k + n]
  BY SuffixFacts
<1> HIDE DEF a, t
<1>3. /\ Sizes(s) \in Seq(Nat) /\ Len(Sizes(s)) = Len(s)
      /\ Sizes(a) \in Seq(Nat) /\ Len(Sizes(a)) = k
      /\ Sizes(t) \in Seq(Nat) /\ Len(Sizes(t)) = Len(s) - k
  BY <1>1, <1>2, SizesFacts
<1>a. \A n \in 1..Len(s) : Sizes(s)[n] = Size[s[n].value]
  BY SizesFacts
<1>4. \A n \in 1..k : Sizes(a)[n] = Sizes(s)[n]
  <2>1. \A n \in 1..k : Sizes(a)[n] = Size[a[n].value]
    BY <1>1, SizesFacts
  <2>2. \A n \in 1..k : n \in 1..Len(s)
    BY <1>1
  <2>3. \A n \in 1..k : Sizes(s)[n] = Size[s[n].value]
    BY <1>a, <2>2
  <2>4. \A n \in 1..k : Size[a[n].value] = Size[s[n].value]
    BY <1>1
  <2> QED
    BY <2>1, <2>3, <2>4
<1>5. \A n \in 1..Len(s) - k : Sizes(t)[n] = Sizes(s)[k + n]
  <2>1. \A n \in 1..Len(s) - k : k + n \in 1..Len(s)
    BY <1>1
  <2>2. \A n \in 1..Len(s) - k : Sizes(t)[n] = Size[t[n].value]
    BY <1>2, SizesFacts
  <2> QED
    BY <1>2, <1>a, <2>1, <2>2, ZenonT(40)
<1>6. Total(Sizes(s)) = RunningSum(Sizes(s))[k] + Total(Sizes(t))
  BY <1>3, <1>5, SuffixTotal
<1>7. RunningSum(Sizes(s))[k] = Total(Sizes(a))
  <2>1. k \in Nat /\ k \in 0..k /\ k <= Len(Sizes(s)) /\ k <= Len(Sizes(a))
    BY <1>1, <1>3
  <2>2. \A n \in 0..k : RunningSum(Sizes(s))[n] = RunningSum(Sizes(a))[n]
    BY <1>3, <1>4, <2>1, PrefixSums, Zenon
  <2> QED
    BY <1>3, <2>1, <2>2 DEF Total
<1> QED
  BY <1>1, <1>2, <1>6, <1>7, SizesFacts, Zenon DEF a, t

LEMMA EmptyBytes == Bytes(<<>>) = 0
<1>1. Len(Sizes(<<>>)) = 0
  BY DEF Sizes
<1> QED
  BY <1>1, EmptyTotal DEF Bytes, Sizes

LEMMA OneBytes ==
    ASSUME NEW I, Carries(I), NEW s \in Seq(I), Len(s) = 1
    PROVE  Bytes(s) = Size[s[1].value]
<1>1. Sizes(s) \in Seq(Nat) /\ Len(Sizes(s)) = 1 /\ Sizes(s)[1] = Size[s[1].value]
  BY SizesFacts
<1>2. Total(Sizes(s)) = Sizes(s)[1]
  BY <1>1, OneTotal
<1> QED
  BY <1>1, <1>2, SizesFacts

-----------------------------------------------------------------------------
(* Occurrences of a channel, in order *)

LEMMA LatestFacts ==
    ASSUME NEW I, NEW s \in Seq(I), NEW c
    PROVE  /\ Latest(s, c) \in 0..Len(s)
           /\ Latest(s, c) # 0 =>
                 /\ Latest(s, c) \in 1..Len(s)
                 /\ s[Latest(s, c)].channel = c
                 /\ \A n \in 1..Len(s) : n > Latest(s, c) => s[n].channel # c
           /\ Latest(s, c) = 0 => \A n \in 1..Len(s) : s[n].channel # c
<1> DEFINE m == Len(s)
           T == {i \in 1..m : s[i].channel = c}
<1>1. m \in Nat
  BY SeqFacts
<1>2. Latest(s, c) = IF T # {} THEN Max(T) ELSE 0
  BY DEF Latest, SelectLastInSeq
<1>3. CASE T = {}
  BY <1>1, <1>2, <1>3
<1>4. CASE T # {}
  <2>1. T \subseteq 0..m
    BY <1>1
  <2> HIDE DEF T
  <2>2. \E x \in T : \A y \in T : x >= y
    BY <1>1, <1>4, <2>1, GreatestMember
  <2>3. Max(T) \in T /\ \A y \in T : Max(T) >= y
    BY <2>2 DEF Max
  <2> DEFINE b == Latest(s, c)
  <2>4. b \in T /\ \A y \in T : b >= y
    BY <1>2, <1>4, <2>3
  <2> HIDE DEF b
  <2>5. b \in 1..m /\ s[b].channel = c
    BY <2>4 DEF T
  <2>6. ASSUME NEW n \in 1..m, n > b PROVE s[n].channel # c
    <3>1. n \notin T
      BY <1>1, <2>4, <2>5, <2>6
    <3> QED
      BY <3>1 DEF T
  <2>7. b \in 0..m /\ b # 0
    BY <1>1, <2>5
  <2> QED
    BY <2>5, <2>6, <2>7 DEF b
<1> QED
  BY <1>3, <1>4

LEMMA CountsAppend ==
    ASSUME NEW I, Carries(I), NEW s \in Seq(I), NEW e \in I, NEW c
    PROVE  /\ OccurrencesOf(Append(s, e), c)
                  = OccurrencesOf(s, c) + (IF e.channel = c THEN e.occurrences ELSE 0)
           /\ \A i \in 1..Len(s) : Before(Append(s, e), c, i) = Before(s, c, i)
           /\ Before(Append(s, e), c, Len(s) + 1) = OccurrencesOf(s, c)
<1> DEFINE t == Append(s, e)
           z == Counts(s, c)
           y == Counts(t, c)
           m == Len(s)
<1>1. /\ m \in Nat /\ t \in Seq(I) /\ Len(t) = m + 1 /\ t[m + 1] = e
      /\ \A n \in 1..m : t[n] = s[n]
  BY AppendFacts, SeqFacts
<1> HIDE DEF t
<1>2. /\ z \in Seq(Nat) /\ Len(z) = m
      /\ \A n \in 1..m : z[n] = IF s[n].channel = c THEN s[n].occurrences ELSE 0
  BY CountsFacts
<1>3. /\ y \in Seq(Nat) /\ Len(y) = m + 1
      /\ \A n \in 1..m + 1 : y[n] = IF t[n].channel = c THEN t[n].occurrences ELSE 0
  BY <1>1, CountsFacts, SMTT(30)
<1> HIDE DEF m, y, z
<1>4. \A n \in 1..m : y[n] = z[n]
  <2>1. \A n \in 1..m : n \in 1..m + 1
    BY <1>1
  <2> QED
    BY <1>1, <1>2, <1>3, <2>1, Zenon
<1>5. y[m + 1] = IF e.channel = c THEN e.occurrences ELSE 0
  <2>1. m + 1 \in 1..m + 1
    BY <1>1
  <2> QED
    BY <1>1, <1>3, <2>1, Zenon
<1>6. Total(y) = Total(z) + y[m + 1] /\ \A n \in 0..m : RunningSum(y)[n] = RunningSum(z)[n]
  <2>1. Len(y) = Len(z) + 1 /\ \A n \in 1..Len(z) : y[n] = z[n]
    BY <1>2, <1>3, <1>4
  <2>2. /\ Total(y) = Total(z) + y[Len(y)]
        /\ \A n \in 0..Len(z) : RunningSum(y)[n] = RunningSum(z)[n]
    BY <1>2, <1>3, <2>1, LongerTotal, Zenon
  <2> QED
    BY <1>2, <1>3, <2>2
<1>7. \A i \in 1..m : RunningSum(y)[i - 1] = RunningSum(z)[i - 1]
  <2>1. \A i \in 1..m : i - 1 \in 0..m
    BY <1>1
  <2> QED
    BY <1>6, <2>1, Zenon
<1>8. RunningSum(y)[(m + 1) - 1] = Total(z)
  <2>1. (m + 1) - 1 = m /\ m \in 0..m
    BY <1>1
  <2>2. RunningSum(y)[m] = RunningSum(z)[m]
    BY <1>6, <2>1
  <2> QED
    BY <1>2, <2>1, <2>2 DEF Total
<1> QED
  BY <1>5, <1>6, <1>7, <1>8, Zenon DEF OccurrencesOf, Before, m, y, z, t

LEMMA CountsMore ==
    ASSUME NEW I, Carries(I), NEW s \in Seq(I), NEW b \in 1..Len(s), NEW c
    PROVE  /\ OccurrencesOf([s EXCEPT ![b] = More(s[b])], c)
                   = OccurrencesOf(s, c) + (IF s[b].channel = c THEN 1 ELSE 0)
           /\ \A i \in 1..Len(s) :
                  i <= b \/ s[b].channel # c
                      => Before([s EXCEPT ![b] = More(s[b])], c, i) = Before(s, c, i)
<1> DEFINE t == [s EXCEPT ![b] = More(s[b])]
           z == Counts(s, c)
           y == Counts(t, c)
           m == Len(s)
           d == IF s[b].channel = c THEN 1 ELSE 0
<1>1. /\ s[b] \in I /\ More(s[b]) \in I /\ s[b].occurrences \in Nat
      /\ More(s[b]).channel = s[b].channel
      /\ More(s[b]).occurrences = s[b].occurrences + 1
  BY SeqFacts, ItemFacts
<1>2. /\ m \in Nat /\ b \in 1..m /\ t \in Seq(I) /\ Len(t) = m /\ t[b] = More(s[b])
      /\ \A n \in 1..m : n # b => t[n] = s[n]
  BY <1>1, ReplaceFacts, SeqFacts
<1> HIDE DEF t
<1>3. /\ z \in Seq(Nat) /\ Len(z) = m
      /\ \A n \in 1..m : z[n] = IF s[n].channel = c THEN s[n].occurrences ELSE 0
  BY CountsFacts
<1>4. /\ y \in Seq(Nat) /\ Len(y) = m
      /\ \A n \in 1..m : y[n] = IF t[n].channel = c THEN t[n].occurrences ELSE 0
  BY <1>2, CountsFacts
<1> HIDE DEF m, y, z
<1>5. \A n \in 1..m : n # b => y[n] = z[n]
  BY <1>2, <1>3, <1>4, Zenon
<1>6. d \in Int /\ y[b] = z[b] + d
  <2>1. /\ y[b] = IF s[b].channel = c THEN s[b].occurrences + 1 ELSE 0
        /\ z[b] = IF s[b].channel = c THEN s[b].occurrences ELSE 0
    BY <1>1, <1>2, <1>3, <1>4, Zenon
  <2> QED
    BY <1>1, <2>1
<1> HIDE DEF d
<1>7. \A n \in 0..m : RunningSum(y)[n] = RunningSum(z)[n] + (IF b <= n THEN d ELSE 0)
  <2>1. Len(y) = Len(z) /\ b \in 1..Len(z) /\ \A n \in 1..Len(z) : n # b => y[n] = z[n]
    BY <1>2, <1>3, <1>4, <1>5
  <2>2. \A n \in 0..Len(z) : RunningSum(y)[n] = RunningSum(z)[n] + (IF b <= n THEN d ELSE 0)
    BY <1>3, <1>4, <1>6, <2>1, RunningSumMoves, Zenon
  <2> QED
    BY <1>3, <2>2
<1>8. \A n \in 0..m : RunningSum(z)[n] \in Nat
  BY <1>3, RunningSumNat
<1>9. Total(y) = Total(z) + d
  <2>1. m \in 0..m /\ b <= m
    BY <1>2
  <2>2. RunningSum(y)[m] = RunningSum(z)[m] + d
    BY <1>7, <2>1
  <2> QED
    BY <1>3, <1>4, <2>2 DEF Total
<1>10. ASSUME NEW i \in 1..m, i <= b \/ s[b].channel # c
       PROVE  RunningSum(y)[i - 1] = RunningSum(z)[i - 1]
  <2>1. i - 1 \in 0..m /\ (b <= i - 1 => ~(i <= b))
    BY <1>2
  <2>2. (IF b <= i - 1 THEN d ELSE 0) = 0
    BY <1>10, <2>1 DEF d
  <2>3. RunningSum(y)[i - 1] = RunningSum(z)[i - 1] + 0 /\ RunningSum(z)[i - 1] \in Nat
    BY <1>7, <1>8, <2>1, <2>2
  <2> QED
    BY <2>3
<1> QED
  BY <1>9, <1>10, Zenon DEF OccurrencesOf, Before, m, y, z, t, d

LEMMA CountsSplit ==
    ASSUME NEW I, Carries(I), NEW s \in Seq(I), NEW k \in 0..Len(s), NEW c
    PROVE  LET a == SubSeq(s, 1, k)
               t == SubSeq(s, k + 1, Len(s))
           IN  /\ OccurrencesOf(s, c) = OccurrencesOf(a, c) + OccurrencesOf(t, c)
               /\ \A i \in 1..Len(s) - k : Before(s, c, k + i) = OccurrencesOf(a, c) + Before(t, c, i)
<1> DEFINE a == SubSeq(s, 1, k)
           t == SubSeq(s, k + 1, Len(s))
           z == Counts(s, c)
           x == Counts(a, c)
           y == Counts(t, c)
           m == Len(s)
<1>1. m \in Nat /\ k \in 0..m /\ a \in Seq(I) /\ Len(a) = k /\ \A n \in 1..k : a[n] = s[n]
  BY SeqFacts, PrefixFacts
<1>2. t \in Seq(I) /\ Len(t) = m - k /\ \A n \in 1..m - k : t[n] = s[k + n]
  BY SuffixFacts
<1> HIDE DEF a, t
<1>3. /\ z \in Seq(Nat) /\ Len(z) = m
      /\ \A n \in 1..m : z[n] = IF s[n].channel = c THEN s[n].occurrences ELSE 0
  BY CountsFacts
<1>4. /\ x \in Seq(Nat) /\ Len(x) = k
      /\ \A n \in 1..k : x[n] = IF a[n].channel = c THEN a[n].occurrences ELSE 0
  BY <1>1, CountsFacts
<1>5. /\ y \in Seq(Nat) /\ Len(y) = m - k
      /\ \A n \in 1..m - k : y[n] = IF t[n].channel = c THEN t[n].occurrences ELSE 0
  BY <1>2, CountsFacts
<1> HIDE DEF m, x, y, z
<1>6. \A n \in 1..k : x[n] = z[n]
  <2>1. ASSUME NEW n \in 1..k PROVE x[n] = z[n]
    <3>1. n \in 1..m
      BY <1>1
    <3> QED
      BY <1>1, <1>3, <1>4, <3>1
  <2> QED
    BY <2>1
<1>7. \A n \in 1..m - k : y[n] = z[k + n]
  <2>1. ASSUME NEW n \in 1..m - k PROVE y[n] = z[k + n]
    <3>1. k + n \in 1..m
      BY <1>1
    <3> QED
      BY <1>2, <1>3, <1>5, <3>1
  <2> QED
    BY <2>1
<1>8. RunningSum(z)[k] = Total(x)
  <2>1. k \in Nat /\ k \in 0..k /\ k <= Len(z) /\ k <= Len(x)
    BY <1>1, <1>3, <1>4
  <2>2. \A n \in 0..k : RunningSum(z)[n] = RunningSum(x)[n]
    BY <1>3, <1>4, <1>6, <2>1, PrefixSums, Zenon
  <2> QED
    BY <1>4, <2>1, <2>2 DEF Total
<1>9. /\ Total(z) = RunningSum(z)[k] + Total(y)
      /\ \A n \in 0..m - k : RunningSum(z)[k + n] = RunningSum(z)[k] + RunningSum(y)[n]
  <2>1. k \in 0..Len(z) /\ Len(y) = Len(z) - k /\ \A n \in 1..Len(z) - k : y[n] = z[k + n]
    BY <1>1, <1>3, <1>5, <1>7
  <2>2. /\ Total(z) = RunningSum(z)[k] + Total(y)
        /\ \A n \in 0..Len(y) : RunningSum(z)[k + n] = RunningSum(z)[k] + RunningSum(y)[n]
    BY <1>3, <1>5, <2>1, SuffixTotal, Zenon
  <2> QED
    BY <1>5, <2>2
<1>10. ASSUME NEW i \in 1..m - k
       PROVE  RunningSum(z)[(k + i) - 1] = Total(x) + RunningSum(y)[i - 1]
  <2>1. i - 1 \in 0..m - k /\ k + (i - 1) = (k + i) - 1
    BY <1>1
  <2>2. RunningSum(z)[k + (i - 1)] = RunningSum(z)[k] + RunningSum(y)[i - 1]
    BY <1>9, <2>1
  <2> QED
    BY <1>8, <2>1, <2>2
<1> QED
  BY <1>8, <1>9, <1>10, Zenon DEF OccurrencesOf, Before, m, x, y, z, a, t

LEMMA PlaceFacts ==
    ASSUME NEW I, Carries(I), NEW s \in Seq(I), NEW c, NEW i \in 1..Len(s), s[i].channel = c
    PROVE  /\ Before(s, c, i) \in Nat
           /\ Before(s, c, i) + s[i].occurrences <= OccurrencesOf(s, c)
<1> DEFINE z == Counts(s, c)
<1>1. Len(s) \in Nat /\ s[i] \in I /\ s[i].occurrences \in Nat
  BY SeqFacts, ItemFacts
<1>2. z \in Seq(Nat) /\ Len(z) = Len(s) /\ z[i] = s[i].occurrences
  BY CountsFacts
<1> HIDE DEF z
<1>3. RunningSum(z)[i] = RunningSum(z)[i - 1] + z[i]
  BY <1>1, <1>2, RunningSumUnfolds
<1>4. i \in 0..Len(z) /\ i - 1 \in 0..Len(z)
  BY <1>1, <1>2
<1>5. RunningSum(z)[i] <= Total(z) /\ RunningSum(z)[i - 1] \in Nat
  BY <1>2, <1>4, RunningSumBelow, RunningSumNat
<1>6. RunningSum(z)[i - 1] + s[i].occurrences <= Total(z)
  BY <1>2, <1>3, <1>5
<1> QED
  BY <1>5, <1>6, Zenon DEF OccurrencesOf, Before, z

\* More vectors leave alone what an item stands for.
LEMMA StandsLonger ==
    ASSUME NEW e, e.occurrences \in Nat, NEW vs \in Seq(Vectors), NEW v \in Vectors,
           NEW n \in Nat, n + e.occurrences <= Len(vs), StandsFor(e, vs, n)
    PROVE  StandsFor(e, Append(vs, v), n)
<1>1. Len(vs) \in Nat /\ \A i \in 1..Len(vs) : Append(vs, v)[i] = vs[i]
  BY AppendFacts, SeqFacts
<1>2. ASSUME NEW k \in 1..e.occurrences PROVE e.value \in {Nobody, Append(vs, v)[n + k]}
  <2>1. n + k \in 1..Len(vs)
    BY <1>1
  <2>2. e.value \in {Nobody, vs[n + k]}
    BY DEF StandsFor
  <2> QED
    BY <1>1, <2>1, <2>2
<1> QED
  BY <1>2 DEF StandsFor

\* An item that is repeated stands for one vector more.
LEMMA StandsMore ==
    ASSUME NEW I, Carries(I), NEW e \in I, NEW vs \in Seq(Vectors), NEW n \in Nat,
           n + e.occurrences = Len(vs), StandsFor(e, vs, n)
    PROVE  StandsFor(More(e), Append(vs, e.value), n)
<1>1. /\ e.value \in Vectors /\ e.occurrences \in Nat /\ More(e).value = e.value
      /\ More(e).occurrences = e.occurrences + 1
  BY ItemFacts
<1>2. /\ Len(vs) \in Nat /\ Append(vs, e.value)[Len(vs) + 1] = e.value
      /\ \A i \in 1..Len(vs) : Append(vs, e.value)[i] = vs[i]
  BY <1>1, AppendFacts, SeqFacts
<1>3. ASSUME NEW k \in 1..e.occurrences + 1
      PROVE  e.value \in {Nobody, Append(vs, e.value)[n + k]}
  <2>1. CASE k = e.occurrences + 1
    <3>1. n + k = Len(vs) + 1
      BY SMTT(60), <1>1, <2>1
    <3> QED
      BY <1>2, <3>1
  <2>2. CASE k # e.occurrences + 1
    <3>1. k \in 1..e.occurrences /\ n + k \in 1..Len(vs)
      BY <1>1, <1>2, <2>2
    <3>2. e.value \in {Nobody, vs[n + k]}
      BY <3>1 DEF StandsFor
    <3> QED
      BY <1>2, <3>1, <3>2
  <2> QED
    BY <2>1, <2>2
<1> QED
  BY <1>1, <1>3 DEF StandsFor

\* A vector that is accepted is queued behind the others of its channel.
LEMMA LinedUpAppend ==
    ASSUME NEW I, Carries(I), NEW s \in Seq(I), NEW e \in I, e.occurrences = 1, NEW c,
           NEW vs \in Seq(Vectors), NEW n \in Nat, LinedUp(s, c, vs, n)
    PROVE  LinedUp(Append(s, e), c, IF e.channel = c THEN Append(vs, e.value) ELSE vs, n)
<1> DEFINE t == Append(s, e)
           ws == IF e.channel = c THEN Append(vs, e.value) ELSE vs
<1>1. /\ Len(s) \in Nat /\ Len(t) = Len(s) + 1 /\ t[Len(s) + 1] = e
      /\ \A i \in 1..Len(s) : t[i] = s[i] /\ s[i] \in I
  BY AppendFacts, SeqFacts
<1>2. /\ OccurrencesOf(t, c) = OccurrencesOf(s, c) + (IF e.channel = c THEN e.occurrences ELSE 0)
      /\ \A i \in 1..Len(s) : Before(t, c, i) = Before(s, c, i)
      /\ Before(t, c, Len(s) + 1) = OccurrencesOf(s, c)
  <2> HIDE DEF ws
  <2>1. OccurrencesOf(t, c) = OccurrencesOf(s, c) + (IF e.channel = c THEN e.occurrences ELSE 0)
    BY CountsAppend
  <2>2. \A i \in 1..Len(s) : Before(t, c, i) = Before(s, c, i)
    BY CountsAppend, SMTT(30)
  <2>3. Before(t, c, Len(s) + 1) = OccurrencesOf(s, c)
    BY CountsAppend
  <2> QED
    BY <2>1, <2>2, <2>3
<1> HIDE DEF t
<1>3. OccurrencesOf(s, c) \in Nat /\ Len(vs) \in Nat /\ n + OccurrencesOf(s, c) = Len(vs)
  BY CountsFacts, SeqFacts DEF LinedUp
<1>4. /\ e.value \in Vectors
      /\ Len(Append(vs, e.value)) = Len(vs) + 1 /\ Append(vs, e.value)[Len(vs) + 1] = e.value
  BY ItemFacts, AppendFacts
<1>5. n + OccurrencesOf(t, c) = Len(ws)
  BY <1>2, <1>3, <1>4
<1>6. ASSUME NEW i \in 1..Len(s), s[i].channel = c
      PROVE  StandsFor(s[i], ws, n + Before(s, c, i))
  <2>1. StandsFor(s[i], vs, n + Before(s, c, i))
    BY <1>6 DEF LinedUp
  <2>2. CASE e.channel = c
    <3> DEFINE f == s[i]
               k == n + Before(s, c, i)
    <3>1. f.occurrences \in Nat /\ k \in Nat /\ k + f.occurrences <= Len(vs)
      <4>1. s[i] \in I /\ s[i].occurrences \in Nat
        BY <1>1, ItemFacts
      <4>2. Before(s, c, i) \in Nat /\ Before(s, c, i) + s[i].occurrences <= OccurrencesOf(s, c)
        BY <1>6, PlaceFacts
      <4> QED
        BY <1>3, <4>1, <4>2, SMTT(20)
    <3>2. StandsFor(f, vs, k)
      BY <2>1
    <3> HIDE DEF f, k
    <3>3. StandsFor(f, Append(vs, e.value), k)
      BY <1>4, <3>1, <3>2, StandsLonger
    <3> QED
      BY <2>2, <3>3 DEF f, k
  <2> QED
    BY <2>1, <2>2
<1>7. ASSUME e.channel = c PROVE StandsFor(e, ws, n + OccurrencesOf(s, c))
  <2>1. ASSUME NEW k \in 1..e.occurrences PROVE e.value \in {Nobody, ws[Len(vs) + k]}
    <3>1. k = 1
      OBVIOUS
    <3> QED
      BY <1>4, <1>7, <3>1
  <2> QED
    BY <1>3, <2>1 DEF StandsFor
<1>8. ASSUME NEW i \in 1..Len(t), t[i].channel = c
      PROVE  StandsFor(t[i], ws, n + Before(t, c, i))
  <2>1. CASE i = Len(s) + 1
    <3>1. t[i] = e /\ Before(t, c, i) = OccurrencesOf(s, c)
      BY <1>1, <1>2, <2>1
    <3> QED
      BY <1>7, <1>8, <3>1
  <2>2. CASE i # Len(s) + 1
    <3>1. i \in 1..Len(s)
      BY <1>1, <2>2
    <3>2. t[i] = s[i] /\ Before(t, c, i) = Before(s, c, i)
      BY <1>1, <1>2, <3>1
    <3> QED
      BY <1>6, <1>8, <3>1, <3>2
  <2> QED
    BY <2>1, <2>2
<1> QED
  BY <1>5, <1>8 DEF LinedUp, t

\* A vector that is repeated counts for the last item of its channel.
LEMMA LinedUpMore ==
    ASSUME NEW I, Carries(I), NEW s \in Seq(I), NEW b \in 1..Len(s), NEW c,
           \A i \in 1..Len(s) : i > b => s[i].channel # s[b].channel,
           NEW vs \in Seq(Vectors), NEW n \in Nat, LinedUp(s, c, vs, n)
    PROVE  LinedUp([s EXCEPT ![b] = More(s[b])], c,
                   IF s[b].channel = c THEN Append(vs, s[b].value) ELSE vs, n)
<1>0. /\ OccurrencesOf([s EXCEPT ![b] = More(s[b])], c)
              = OccurrencesOf(s, c) + (IF s[b].channel = c THEN 1 ELSE 0)
      /\ \A i \in 1..Len(s) :
             i <= b \/ s[b].channel # c
                 => Before([s EXCEPT ![b] = More(s[b])], c, i) = Before(s, c, i)
  BY CountsMore, ZenonT(60)
<1> DEFINE t == [s EXCEPT ![b] = More(s[b])]
           e == s[b]
           ws == IF e.channel = c THEN Append(vs, e.value) ELSE vs
<1>1. /\ e \in I /\ e.value \in Vectors /\ e.occurrences \in Nat
      /\ More(e) \in I /\ More(e).channel = e.channel
  BY SeqFacts, ItemFacts
<1>2. /\ Len(s) \in Nat /\ Len(t) = Len(s) /\ t[b] = More(e)
      /\ \A i \in 1..Len(s) : s[i] \in I /\ (i # b => t[i] = s[i])
  BY <1>1, ReplaceFacts, SeqFacts
<1>3. /\ OccurrencesOf(t, c) = OccurrencesOf(s, c) + (IF e.channel = c THEN 1 ELSE 0)
      /\ \A i \in 1..Len(s) : i <= b \/ e.channel # c => Before(t, c, i) = Before(s, c, i)
  BY <1>0, Zenon DEF t, e
<1> HIDE DEF t
<1>4. OccurrencesOf(s, c) \in Nat /\ Len(vs) \in Nat /\ n + OccurrencesOf(s, c) = Len(vs)
  BY CountsFacts, SeqFacts DEF LinedUp
<1>5. n + OccurrencesOf(t, c) = Len(ws)
  <2>1. Len(Append(vs, e.value)) = Len(vs) + 1
    BY <1>1, AppendFacts
  <2> QED
    BY <1>3, <1>4, <2>1
<1>6. ASSUME NEW i \in 1..Len(t), t[i].channel = c
      PROVE  StandsFor(t[i], ws, n + Before(t, c, i))
  <2>1. i \in 1..Len(s) /\ s[i].channel = c
    <3>1. t[i].channel = s[i].channel
      BY <1>1, <1>2
    <3> QED
      BY <1>2, <1>6, <3>1
  <2>2. i <= b \/ e.channel # c
    BY <2>1
  <2> DEFINE f == s[i]
             k == n + Before(s, c, i)
  <2>3. StandsFor(f, vs, k) /\ n + Before(t, c, i) = k
    <3>1. Before(t, c, i) = Before(s, c, i)
      BY <1>3, <2>1, <2>2, Zenon
    <3>2. StandsFor(s[i], vs, n + Before(s, c, i))
      BY <2>1, Zenon DEF LinedUp
    <3> QED
      BY <3>1, <3>2, Zenon DEF f, k
  <2>4. f \in I /\ f.occurrences \in Nat /\ k \in Nat /\ k + f.occurrences <= Len(vs)
    <3>1. s[i] \in I /\ s[i].occurrences \in Nat
      BY <1>2, <2>1, ItemFacts
    <3>2. Before(s, c, i) \in Nat /\ Before(s, c, i) + s[i].occurrences <= OccurrencesOf(s, c)
      BY <2>1, PlaceFacts
    <3> QED
      BY <1>4, <3>1, <3>2, SMTT(30)
  <2>5. CASE e.channel # c
    <3>1. i # b
      BY <2>1, <2>5
    <3> QED
      BY <1>2, <2>1, <2>3, <2>5, <3>1
  <2>6. CASE e.channel = c /\ i # b
    <3>1. t[i] = f
      BY <1>2, <2>1, <2>6
    <3> HIDE DEF f, k
    <3>2. StandsFor(f, Append(vs, e.value), k)
      BY <1>1, <2>3, <2>4, StandsLonger
    <3> QED
      BY <2>3, <2>6, <3>1, <3>2
  <2>7. CASE e.channel = c /\ i = b
    <3>1. Before(s, c, b) + e.occurrences = OccurrencesOf(s, c)
      <4> DEFINE z == Counts(s, c)
      <4>1. /\ z \in Seq(Nat) /\ Len(z) = Len(s) /\ z[b] = e.occurrences
            /\ \A j \in 1..Len(z) : j > b => z[j] = 0
        BY <2>7, CountsFacts, SMTT(30)
      <4> HIDE DEF z
      <4>2. b \in 1..Len(z)
        BY <4>1
      <4>3. Total(z) = RunningSum(z)[b]
        BY <4>1, <4>2, QuietEnd
      <4>4. RunningSum(z)[b] = RunningSum(z)[b - 1] + z[b]
        BY <1>2, <4>1, <4>2, RunningSumUnfolds
      <4> QED
        BY <4>1, <4>3, <4>4, Zenon DEF OccurrencesOf, Before, z
    <3>2. k + e.occurrences = Len(vs)
      <4>1. Before(s, c, b) \in Nat
        BY <2>7, PlaceFacts
      <4> QED
        BY SMTT(60), <1>1, <1>4, <2>7, <3>1, <4>1
    <3>3. StandsFor(e, vs, k) /\ t[i] = More(e)
      BY <1>2, <2>3, <2>7
    <3> HIDE DEF e, k
    <3>4. StandsFor(More(e), Append(vs, e.value), k)
      BY <1>1, <2>4, <3>2, <3>3, StandsMore
    <3> QED
      BY <2>3, <2>7, <3>3, <3>4
  <2> QED
    BY <2>5, <2>6, <2>7
<1> QED
  BY <1>5, <1>6 DEF LinedUp, t

\* Those that go from the front leave the others in their places.
LEMMA LinedUpSuffix ==
    ASSUME NEW I, Carries(I), NEW s \in Seq(I), NEW k \in 0..Len(s), NEW c,
           NEW vs \in Seq(Vectors), NEW n \in Nat, LinedUp(s, c, vs, n)
    PROVE  LinedUp(SubSeq(s, k + 1, Len(s)), c, vs, n + OccurrencesOf(SubSeq(s, 1, k), c))
<1> DEFINE a == SubSeq(s, 1, k)
           t == SubSeq(s, k + 1, Len(s))
           m == OccurrencesOf(a, c)
<1>1. /\ Len(s) \in Nat /\ a \in Seq(I) /\ t \in Seq(I) /\ Len(t) = Len(s) - k
      /\ \A i \in 1..Len(s) - k : t[i] = s[k + i]
  BY SeqFacts, PrefixFacts, SuffixFacts
<1>2. /\ OccurrencesOf(s, c) = m + OccurrencesOf(t, c)
      /\ \A i \in 1..Len(s) - k : Before(s, c, k + i) = m + Before(t, c, i)
  BY CountsSplit
<1> HIDE DEF a, t
<1>3. m \in Nat /\ OccurrencesOf(t, c) \in Nat
  BY <1>1, CountsFacts
<1>4. n + OccurrencesOf(s, c) = Len(vs)
  BY DEF LinedUp
<1> HIDE DEF m
<1>5. (n + m) + OccurrencesOf(t, c) = Len(vs)
  BY <1>2, <1>3, <1>4
<1>6. ASSUME NEW i \in 1..Len(t), t[i].channel = c
      PROVE  StandsFor(t[i], vs, (n + m) + Before(t, c, i))
  <2>1. i \in 1..Len(s) - k /\ k + i \in 1..Len(s)
    BY <1>1
  <2>2. t[i] = s[k + i] /\ Before(s, c, k + i) = m + Before(t, c, i)
    BY <1>1, <1>2, <2>1
  <2>3. StandsFor(s[k + i], vs, n + Before(s, c, k + i))
    BY <1>6, <2>1, <2>2 DEF LinedUp
  <2>4. Before(t, c, i) \in Nat
    BY <1>1, <1>6, PlaceFacts
  <2> DEFINE bt == Before(t, c, i)
  <2> HIDE DEF bt
  <2>5. n + (m + bt) = (n + m) + bt
    BY <1>3, <2>4 DEF bt
  <2> QED
    BY <2>2, <2>3, <2>5 DEF bt
<1> QED
  BY <1>5, <1>6 DEF LinedUp, a, t, m

-----------------------------------------------------------------------------
(* The queues *)

QueueTyped(q) ==
    q \in [pending : Seq(Observations), bytes : Nat,
           revisionOnly : [QueueProducers -> Nat], producers : SUBSET QueueProducers]
CandidatesTyped(q) ==
    q \in [pending : Seq(Candidates), bytes : Nat, scopes : SUBSET Scopes]

\* A producer has its place while something of it is queued or evicted.
Placed(q) ==
    \A p \in QueueProducers : p \in q.producers <=> q.revisionOnly[p] > 0 \/ Queued(q.pending, p)

QueueSound(q) ==
    /\ QueueTyped(q)
    /\ q.bytes = Bytes(q.pending)
    /\ Placed(q)

CandidatesSound(q) ==
    /\ CandidatesTyped(q)
    /\ q.bytes = Bytes(q.pending)
    /\ \A s \in Scopes : s \in q.scopes <=> Queued(q.pending, s)

LEMMA QueueFields ==
    ASSUME NEW q, QueueTyped(q)
    PROVE  /\ DOMAIN q = {"pending", "bytes", "revisionOnly", "producers"}
           /\ q.pending \in Seq(Observations) /\ q.bytes \in Nat
           /\ q.revisionOnly \in [QueueProducers -> Nat] /\ q.producers \subseteq QueueProducers
BY DEF QueueTyped

LEMMA CandidateFields ==
    ASSUME NEW q, CandidatesTyped(q)
    PROVE  /\ DOMAIN q = {"pending", "bytes", "scopes"}
           /\ q.pending \in Seq(Candidates) /\ q.bytes \in Nat /\ q.scopes \subseteq Scopes
BY DEF CandidatesTyped

LEMMA QueuedItems ==
    ASSUME NEW I, NEW s \in Seq(I)
    PROVE  \A c : c \in {i.channel : i \in ToSet(s)} <=> Queued(s, c)
<1>1. DOMAIN s = 1..Len(s)
  BY SeqFacts
<1> QED
  BY <1>1 DEF ToSet, Queued

LEMMA LatestQueued ==
    ASSUME NEW I, NEW s \in Seq(I), NEW c
    PROVE  Latest(s, c) # 0 <=> Queued(s, c)
BY LatestFacts DEF Queued

\* What the invariant says of the room in the two queues.
LEMMA RoomMeans ==
    ASSUME QueueTyped(queue), CandidatesTyped(candidates)
    PROVE  RoomIsAccounted <=>
               /\ QueueSound(queue) /\ CandidatesSound(candidates)
               /\ queue.bytes <= MaxBytes /\ Len(queue.pending) <= MaxPending
               /\ candidates.bytes <= MaxBytes
<1>1. \A n \in 1..Len(queue.pending) : queue.pending[n].channel \in QueueProducers
  <2>1. queue.pending \in Seq(Observations)
    BY QueueFields
  <2>2. \A n \in 1..Len(queue.pending) : queue.pending[n] \in Observations
    BY <2>1, SeqFacts
  <2> QED
    BY <2>2 DEF Observations
<1>2. \A n \in 1..Len(candidates.pending) : candidates.pending[n].channel \in Scopes
  <2>1. candidates.pending \in Seq(Candidates)
    BY CandidateFields
  <2>2. \A n \in 1..Len(candidates.pending) : candidates.pending[n] \in Candidates
    BY <2>1, SeqFacts
  <2> QED
    BY <2>2 DEF Candidates
<1>3. Placed(queue) <=>
          queue.producers = {p \in QueueProducers : queue.revisionOnly[p] > 0}
                                \cup {i.channel : i \in ToSet(queue.pending)}
  <2>1. \A c : c \in {i.channel : i \in ToSet(queue.pending)} <=> Queued(queue.pending, c)
    BY QueueFields, QueuedItems
  <2>2. \A c : Queued(queue.pending, c) => c \in QueueProducers
    BY <1>1 DEF Queued
  <2> QED
    BY <2>1, <2>2, QueueFields DEF Placed
<1>4. (\A s \in Scopes : s \in candidates.scopes <=> Queued(candidates.pending, s)) <=>
          candidates.scopes = {i.channel : i \in ToSet(candidates.pending)}
  <2>1. \A c : c \in {i.channel : i \in ToSet(candidates.pending)} <=> Queued(candidates.pending, c)
    BY CandidateFields, QueuedItems
  <2>2. \A c : Queued(candidates.pending, c) => c \in Scopes
    BY <1>2 DEF Queued
  <2> QED
    BY <2>1, <2>2, CandidateFields
<1> QED
  BY <1>3, <1>4 DEF RoomIsAccounted, QueueSound, CandidatesSound

LEMMA EmptiedSound ==
    /\ QueueSound(EmptyQueue) /\ CandidatesSound(EmptyCandidates)
    /\ EmptyQueue.pending = <<>> /\ EmptyQueue.bytes = 0
    /\ EmptyCandidates.pending = <<>> /\ EmptyCandidates.bytes = 0
    /\ \A p \in QueueProducers : EmptyQueue.revisionOnly[p] = 0
<1>1. QueueTyped(EmptyQueue) /\ CandidatesTyped(EmptyCandidates)
  BY DEF QueueTyped, CandidatesTyped, EmptyQueue, EmptyCandidates
<1>2. \A c : ~Queued(<<>>, c)
  BY DEF Queued
<1> QED
  BY <1>1, <1>2, EmptyBytes DEF QueueSound, CandidatesSound, Placed, EmptyQueue, EmptyCandidates

\* The newest item fits alone, so that the oldest can go until the limits hold.
LEMMA ExcessFits ==
    ASSUME NEW q, QueueTyped(q), q.bytes = Bytes(q.pending), q.pending # <<>>
    PROVE  /\ Excess(q) \in 0..Len(q.pending) - 1
           /\ Len(q.pending) - Excess(q) <= MaxPending
           /\ q.bytes - Bytes(SubSeq(q.pending, 1, Excess(q))) <= MaxBytes
<1> DEFINE s == q.pending
           m == Len(s)
           Fits(n) == /\ m - n <= MaxPending
                      /\ q.bytes - Bytes(SubSeq(s, 1, n)) <= MaxBytes
           T == {n \in 0..m - 1 : Fits(n)}
<1>1. s \in Seq(Observations) /\ m \in Nat \ {0} /\ Carries(Observations)
      /\ MaxPending \in Nat \ {0} /\ MaxBytes \in Nat
  BY QueueFields, SeqFacts, Carried, LedgerAssumption
<1>2. Fits(m - 1)
  <2>1. m - 1 \in 0..Len(s) /\ (m - 1) + 1 = m /\ Len(s) = m
    BY <1>1
  <2> DEFINE k == m - 1
             a == SubSeq(s, 1, k)
             t == SubSeq(s, k + 1, Len(s))
  <2>2. a \in Seq(Observations) /\ t \in Seq(Observations) /\ Len(t) = 1 /\ t[1] \in Observations
    <3>1. k \in 0..Len(s) /\ Len(s) - k = 1
      BY <1>1, <2>1
    <3>2. a \in Seq(Observations) /\ t \in Seq(Observations) /\ Len(t) = Len(s) - k
      BY <1>1, <3>1, PrefixFacts, SuffixFacts
    <3> QED
      BY <3>1, <3>2, SeqFacts
  <2>3. Bytes(s) = Bytes(a) + Bytes(t)
    <3>1. k \in 0..Len(s)
      BY <2>1
    <3> QED
      BY <1>1, <3>1, BytesSplit
  <2> HIDE DEF a, t
  <2>4. Bytes(t) <= MaxBytes /\ Bytes(t) \in Nat /\ Bytes(a) \in Nat
    <3>1. Bytes(t) = Size[t[1].value]
      BY <1>1, <2>2, OneBytes
    <3>2. Size[t[1].value] <= MaxBytes
      BY <1>1, <2>2, ItemFacts
    <3>3. Bytes(t) \in Nat /\ Bytes(a) \in Nat
      BY <1>1, <2>2, SizesFacts
    <3> QED
      BY <3>1, <3>2, <3>3
  <2>5. q.bytes - Bytes(a) <= MaxBytes
    BY <2>3, <2>4
  <2>6. m - (m - 1) <= MaxPending
    BY <1>1
  <2> QED
    BY <2>5, <2>6 DEF a
<1>3. Excess(q) = Min(T)
  BY DEF Excess
<1> HIDE DEF Fits
<1>4. T \subseteq Nat /\ m - 1 \in T
  BY <1>1, <1>2
<1> HIDE DEF T
<1>5. \E x \in T : \A y \in T : x <= y
  BY <1>4, LeastMember
<1>6. Min(T) \in T
  BY <1>5 DEF Min
<1>7. Excess(q) \in 0..m - 1 /\ Fits(Excess(q))
  BY <1>3, <1>6 DEF T
<1> QED
  BY <1>7 DEF Fits

LEMMA EvictSound ==
    ASSUME NEW q, QueueSound(q), NEW k \in 0..Len(q.pending)
    PROVE  /\ QueueSound(Evict(q, k))
           /\ Evict(q, k).pending = SubSeq(q.pending, k + 1, Len(q.pending))
           /\ Evict(q, k).bytes = q.bytes - Bytes(SubSeq(q.pending, 1, k))
           /\ \A p \in QueueProducers :
                  Evict(q, k).revisionOnly[p]
                      = q.revisionOnly[p] + OccurrencesOf(SubSeq(q.pending, 1, k), p)
<1> DEFINE s == q.pending
           a == SubSeq(s, 1, k)
           t == SubSeq(s, k + 1, Len(s))
           e == Evict(q, k)
<1>1. /\ DOMAIN q = {"pending", "bytes", "revisionOnly", "producers"}
      /\ s \in Seq(Observations) /\ q.bytes \in Nat /\ q.bytes = Bytes(s)
      /\ q.revisionOnly \in [QueueProducers -> Nat] /\ q.producers \subseteq QueueProducers
  BY QueueFields DEF QueueSound
<1>2. /\ Len(s) \in Nat /\ a \in Seq(Observations) /\ t \in Seq(Observations)
      /\ Len(a) = k /\ Len(t) = Len(s) - k
      /\ (\A n \in 1..k : a[n] = s[n]) /\ (\A n \in 1..Len(s) - k : t[n] = s[k + n])
  BY <1>1, SeqFacts, PrefixFacts, SuffixFacts
<1>3. Bytes(s) = Bytes(a) + Bytes(t) /\ Bytes(a) \in Nat /\ Bytes(t) \in Nat
  BY <1>1, <1>2, Carried, BytesSplit, SizesFacts
<1>4. /\ e.pending = t /\ e.bytes = q.bytes - Bytes(a) /\ e.producers = q.producers
      /\ e.revisionOnly = [p \in QueueProducers |-> q.revisionOnly[p] + OccurrencesOf(a, p)]
      /\ DOMAIN e = DOMAIN q
      /\ e = [pending |-> e.pending, bytes |-> e.bytes, revisionOnly |-> e.revisionOnly,
              producers |-> e.producers]
  <2>1. e.pending = t
    BY <1>1 DEF Evict
  <2>2. e.bytes = q.bytes - Bytes(a)
    BY <1>1 DEF Evict
  <2>3. e.producers = q.producers
    BY <1>1 DEF Evict
  <2>4. e.revisionOnly = [p \in QueueProducers |-> q.revisionOnly[p] + OccurrencesOf(a, p)]
    BY <1>1 DEF Evict
  <2>5. DOMAIN e = DOMAIN q
    BY <1>1 DEF Evict
  <2>6. e = [f \in DOMAIN e |-> e[f]]
    BY <1>1 DEF Evict
  <2> HIDE DEF e
  <2>7. e = [pending |-> e.pending, bytes |-> e.bytes, revisionOnly |-> e.revisionOnly,
             producers |-> e.producers]
    BY <1>1, <2>5, <2>6
  <2> QED
    BY <2>1, <2>2, <2>3, <2>4, <2>5, <2>7
<1> HIDE DEF a, t, e
<1>5. \A p : OccurrencesOf(a, p) \in Nat
  BY <1>2, Carried, CountsFacts
<1>6. QueueTyped(e)
  <2>1. q.bytes - Bytes(a) \in Nat
    BY <1>1, <1>3
  <2>2. [p \in QueueProducers |-> q.revisionOnly[p] + OccurrencesOf(a, p)] \in [QueueProducers -> Nat]
    BY <1>1, <1>5
  <2> QED
    BY <1>1, <1>2, <1>4, <2>1, <2>2 DEF QueueTyped
<1>7. e.bytes = Bytes(e.pending)
  BY <1>1, <1>3, <1>4
<1>8. Placed(e)
  <2> SUFFICES ASSUME NEW p \in QueueProducers
               PROVE  p \in e.producers <=> e.revisionOnly[p] > 0 \/ Queued(e.pending, p)
    BY DEF Placed
  <2>1. p \in q.producers <=> q.revisionOnly[p] > 0 \/ Queued(s, p)
    BY DEF QueueSound, Placed
  <2>2. OccurrencesOf(a, p) > 0 <=> Queued(a, p)
    BY <1>2, Carried, SomeOccurrence
  <2>3. Queued(s, p) <=> Queued(a, p) \/ Queued(t, p)
    <3>1. ASSUME Queued(s, p) PROVE Queued(a, p) \/ Queued(t, p)
      <4>1. PICK n \in 1..Len(s) : s[n].channel = p
        BY <3>1 DEF Queued
      <4>2. CASE n <= k
        <5>1. n \in 1..Len(a) /\ a[n] = s[n]
          BY <1>2, <4>2
        <5> QED
          BY <4>1, <5>1 DEF Queued
      <4>3. CASE ~(n <= k)
        <5>1. n - k \in 1..Len(t) /\ k + (n - k) = n
          BY <1>2, <4>3
        <5>2. t[n - k] = s[n]
          BY <1>2, <5>1
        <5> QED
          BY <4>1, <5>1, <5>2 DEF Queued
      <4> QED
        BY <4>2, <4>3
    <3>2. ASSUME Queued(a, p) PROVE Queued(s, p)
      <4>1. PICK n \in 1..Len(a) : a[n].channel = p
        BY <3>2 DEF Queued
      <4>2. n \in 1..Len(s) /\ a[n] = s[n]
        BY <1>2
      <4> QED
        BY <4>1, <4>2 DEF Queued
    <3>3. ASSUME Queued(t, p) PROVE Queued(s, p)
      <4>1. PICK n \in 1..Len(t) : t[n].channel = p
        BY <3>3 DEF Queued
      <4>2. k + n \in 1..Len(s) /\ t[n] = s[k + n]
        BY <1>2
      <4> QED
        BY <4>1, <4>2 DEF Queued
    <3> QED
      BY <3>1, <3>2, <3>3
  <2>4. e.revisionOnly[p] > 0 <=> q.revisionOnly[p] > 0 \/ OccurrencesOf(a, p) > 0
    <3> DEFINE x == q.revisionOnly[p]
               y == OccurrencesOf(a, p)
    <3>1. x \in Nat /\ y \in Nat /\ e.revisionOnly[p] = x + y
      BY <1>1, <1>4, <1>5
    <3> HIDE DEF x, y
    <3>2. e.revisionOnly[p] > 0 <=> x > 0 \/ y > 0
      BY <3>1
    <3> QED
      BY <3>2 DEF x, y
  <2> QED
    BY <1>4, <2>1, <2>2, <2>3, <2>4
<1> QED
  BY <1>4, <1>6, <1>7, <1>8 DEF QueueSound, a, t, e

LEMMA MoreSound ==
    ASSUME NEW I, Carries(I), NEW s \in Seq(I), NEW b \in 1..Len(s)
    PROVE  LET t == [s EXCEPT ![b] = More(s[b])]
           IN  /\ t \in Seq(I) /\ Len(t) = Len(s) /\ t # <<>>
               /\ Bytes(t) = Bytes(s)
               /\ \A c : Queued(t, c) <=> Queued(s, c)
<1> DEFINE t == [s EXCEPT ![b] = More(s[b])]
<1>1. /\ Len(s) \in Nat /\ s[b] \in I /\ More(s[b]) \in I
      /\ More(s[b]).channel = s[b].channel
  BY SeqFacts, ItemFacts
<1>2. /\ t \in Seq(I) /\ Len(t) = Len(s) /\ t[b] = More(s[b])
      /\ \A n \in 1..Len(s) : n # b => t[n] = s[n]
  BY <1>1, ReplaceFacts
<1>3. Bytes(t) = Bytes(s)
  BY BytesMore
<1> HIDE DEF t
<1>4. \A n \in 1..Len(s) : t[n].channel = s[n].channel
  BY <1>1, <1>2
<1>5. \A c : Queued(t, c) <=> Queued(s, c)
  BY <1>2, <1>4 DEF Queued
<1>6. t # <<>>
  BY <1>1, <1>2
<1> QED
  BY <1>2, <1>3, <1>5, <1>6, Zenon DEF t

LEMMA AppendSound ==
    ASSUME NEW I, Carries(I), NEW s \in Seq(I), NEW e \in I
    PROVE  LET t == Append(s, e)
           IN  /\ t \in Seq(I) /\ Len(t) = Len(s) + 1 /\ t # <<>>
               /\ Bytes(t) = Bytes(s) + Size[e.value]
               /\ \A c : Queued(t, c) <=> Queued(s, c) \/ c = e.channel
<1> DEFINE t == Append(s, e)
<1>1. /\ t \in Seq(I) /\ Len(t) = Len(s) + 1 /\ t[Len(s) + 1] = e /\ Len(s) \in Nat
      /\ \A n \in 1..Len(s) : t[n] = s[n]
  BY AppendFacts, SeqFacts
<1>2. Bytes(t) = Bytes(s) + Size[e.value]
  BY BytesAppend
<1> HIDE DEF t
<1>3. ASSUME NEW c PROVE Queued(t, c) <=> Queued(s, c) \/ c = e.channel
  <2>1. ASSUME Queued(t, c), c # e.channel PROVE Queued(s, c)
    <3>1. PICK n \in 1..Len(t) : t[n].channel = c
      BY <2>1 DEF Queued
    <3>2. n # Len(s) + 1
      BY <1>1, <2>1, <3>1
    <3>3. n \in 1..Len(s) /\ t[n] = s[n]
      BY <1>1, <3>2
    <3> QED
      BY <3>1, <3>3 DEF Queued
  <2>2. ASSUME Queued(s, c) PROVE Queued(t, c)
    <3>1. PICK n \in 1..Len(s) : s[n].channel = c
      BY <2>2 DEF Queued
    <3>2. n \in 1..Len(t) /\ t[n] = s[n]
      BY <1>1
    <3> QED
      BY <3>1, <3>2 DEF Queued
  <2>3. Len(s) + 1 \in 1..Len(t)
    BY <1>1
  <2>4. c = e.channel => Queued(t, c)
    BY <1>1, <2>3 DEF Queued
  <2> QED
    BY <2>1, <2>2, <2>4
<1>4. t # <<>>
  BY <1>1
<1> QED
  BY <1>1, <1>2, <1>3, <1>4, Zenon DEF t

LEMMA TailSound ==
    ASSUME NEW I, Carries(I), NEW s \in Seq(I), s # <<>>
    PROVE  /\ Head(s) \in I /\ Tail(s) \in Seq(I) /\ Len(s) \in Nat \ {0} /\ Len(Tail(s)) = Len(s) - 1
           /\ Bytes(s) = Size[Head(s).value] + Bytes(Tail(s))
           /\ \A c : Queued(s, c) <=> Queued(Tail(s), c) \/ c = Head(s).channel
           /\ \A c : \A n \in Nat, vs \in Seq(Vectors) :
                  LinedUp(s, c, vs, n) =>
                      /\ LinedUp(Tail(s), c, vs,
                                 n + (IF Head(s).channel = c THEN Head(s).occurrences ELSE 0))
                      /\ Head(s).channel = c => StandsFor(Head(s), vs, n)
<1> DEFINE e == Head(s)
           t == Tail(s)
           a == SubSeq(s, 1, 1)
<1>1. /\ e = s[1] /\ e \in I /\ Len(s) \in Nat \ {0} /\ t \in Seq(I) /\ Len(t) = Len(s) - 1
      /\ \A n \in 1..Len(s) - 1 : t[n] = s[1 + n]
  BY TailFacts
<1>2. 1 \in 0..Len(s) /\ 1 \in 1..Len(s)
  BY <1>1
<1>3. a \in Seq(I) /\ Len(a) = 1 /\ a[1] = e
  <2>1. a \in Seq(I) /\ Len(a) = 1 /\ \A n \in 1..1 : a[n] = s[n]
    BY <1>2, PrefixFacts
  <2> QED
    BY <1>1, <2>1
<1>4. t = SubSeq(s, 1 + 1, Len(s))
  <2>1. /\ SubSeq(s, 1 + 1, Len(s)) \in Seq(I) /\ Len(SubSeq(s, 1 + 1, Len(s))) = Len(s) - 1
        /\ \A n \in 1..Len(s) - 1 : SubSeq(s, 1 + 1, Len(s))[n] = s[1 + n]
    BY <1>2, SuffixFacts
  <2> QED
    BY <1>1, <2>1, SameSequence
<1> HIDE DEF e, t, a
<1>5. Bytes(s) = Size[e.value] + Bytes(t)
  <2>1. Bytes(s) = Bytes(a) + Bytes(t)
    BY <1>2, <1>4, BytesSplit DEF a
  <2> QED
    BY <1>3, <2>1, OneBytes
<1>6. ASSUME NEW c PROVE Queued(s, c) <=> Queued(t, c) \/ c = e.channel
  <2>1. ASSUME Queued(s, c), c # e.channel PROVE Queued(t, c)
    <3>1. PICK n \in 1..Len(s) : s[n].channel = c
      BY <2>1 DEF Queued
    <3>2. n # 1
      BY <1>1, <2>1, <3>1
    <3>3. n - 1 \in 1..Len(t) /\ t[n - 1] = s[1 + (n - 1)] /\ 1 + (n - 1) = n
      BY <1>1, <3>2
    <3> QED
      BY <3>1, <3>3 DEF Queued
  <2>2. ASSUME Queued(t, c) PROVE Queued(s, c)
    <3>1. PICK n \in 1..Len(t) : t[n].channel = c
      BY <2>2 DEF Queued
    <3>2. 1 + n \in 1..Len(s) /\ t[n] = s[1 + n]
      BY <1>1
    <3> QED
      BY <3>1, <3>2 DEF Queued
  <2>3. c = e.channel => Queued(s, c)
    BY <1>1, <1>2 DEF Queued
  <2> QED
    BY <2>1, <2>2, <2>3
<1>7. ASSUME NEW c, NEW n \in Nat, NEW vs \in Seq(Vectors), LinedUp(s, c, vs, n)
      PROVE  /\ LinedUp(t, c, vs, n + (IF e.channel = c THEN e.occurrences ELSE 0))
             /\ e.channel = c => StandsFor(e, vs, n)
  <2>1. OccurrencesOf(a, c) = IF e.channel = c THEN e.occurrences ELSE 0
    <3>1. /\ Counts(a, c) \in Seq(Nat) /\ Len(Counts(a, c)) = 1
          /\ Counts(a, c)[1] = IF e.channel = c THEN e.occurrences ELSE 0
      BY SMTT(60), <1>3, CountsFacts
    <3> QED
      BY <3>1, OneTotal DEF OccurrencesOf
  <2>2. LinedUp(t, c, vs, n + OccurrencesOf(a, c))
    BY <1>2, <1>4, <1>7, LinedUpSuffix DEF a
  <2>3. ASSUME e.channel = c PROVE StandsFor(e, vs, n)
    <3>1. StandsFor(s[1], vs, n + Before(s, c, 1))
      BY <1>1, <1>2, <1>7, <2>3 DEF LinedUp
    <3>2. Before(s, c, 1) = 0
      <4>1. Len(Counts(s, c)) \in Nat
        BY <1>1, CountsFacts
      <4>2. RunningSum(Counts(s, c))[0] = 0
        BY <4>1, RunningSumUnfolds
      <4> QED
        BY <4>2 DEF Before
    <3> QED
      BY <1>1, <3>1, <3>2
  <2> QED
    BY <2>1, <2>2, <2>3
<1> QED
  BY <1>1, <1>5, <1>6, <1>7 DEF e, t

\* ObservationQueue.add keeps the counters and the order.
LEMMA AddSound ==
    ASSUME QueueSound(queue), queue.bytes <= MaxBytes, Len(queue.pending) <= MaxPending,
           NEW p \in QueueProducers, NEW v \in Vectors
    PROVE  /\ QueueSound(Add(p, v)) /\ Add(p, v).bytes <= MaxBytes
           /\ Len(Add(p, v).pending) <= MaxPending /\ Add(p, v).pending # <<>>
           /\ \A c \in QueueProducers, n \in Nat, vs \in Seq(Vectors) :
                  LinedUp(queue.pending, c, vs, n + queue.revisionOnly[c]) =>
                      LinedUp(Add(p, v).pending, c, IF c = p THEN Append(vs, v) ELSE vs,
                              n + Add(p, v).revisionOnly[c])
<1> DEFINE s == queue.pending
           q == Add(p, v)
<1>1. /\ DOMAIN queue = {"pending", "bytes", "revisionOnly", "producers"}
      /\ s \in Seq(Observations) /\ queue.bytes \in Nat /\ queue.bytes = Bytes(s)
      /\ queue.revisionOnly \in [QueueProducers -> Nat] /\ queue.producers \subseteq QueueProducers
      /\ \A c \in QueueProducers :
             c \in queue.producers <=> queue.revisionOnly[c] > 0 \/ Queued(s, c)
  BY QueueFields DEF QueueSound, Placed
<1>2. CASE Repeats(s, p, v)
  <2> DEFINE b == Latest(s, p)
             t == [s EXCEPT ![b] = More(s[b])]
  <2>1. b \in 1..Len(s) /\ s[b].channel = p /\ s[b].value = v
        /\ \A i \in 1..Len(s) : i > b => s[i].channel # s[b].channel
    BY <1>1, <1>2, LatestFacts DEF Repeats
  <2>2. Repeated(s, p) = t
    BY DEF Repeated, More
  <2>3. q = [queue EXCEPT !.pending = t]
    BY <1>2, <2>2 DEF Add
  <2> HIDE DEF b
  <2>4. /\ t \in Seq(Observations) /\ Len(t) = Len(s) /\ t # <<>> /\ Bytes(t) = Bytes(s)
        /\ \A c : Queued(t, c) <=> Queued(s, c)
    BY <1>1, <2>1, Carried, MoreSound
  <2>5. ASSUME NEW c \in QueueProducers, NEW n \in Nat, NEW vs \in Seq(Vectors),
               LinedUp(s, c, vs, n + queue.revisionOnly[c])
        PROVE  LinedUp(t, c, IF c = p THEN Append(vs, v) ELSE vs, n + queue.revisionOnly[c])
    <3> DEFINE k == n + queue.revisionOnly[c]
    <3>1. k \in Nat
      BY <1>1
    <3> HIDE DEF k
    <3>2. LinedUp(t, c, IF s[b].channel = c THEN Append(vs, s[b].value) ELSE vs, k)
      BY <1>1, <2>1, <2>5, <3>1, Carried, LinedUpMore DEF k
    <3> QED
      BY <2>1, <3>2 DEF k
  <2> HIDE DEF t
  <2>6. /\ q.pending = t /\ q.bytes = queue.bytes /\ q.revisionOnly = queue.revisionOnly
        /\ q.producers = queue.producers
    BY <1>1, <2>3
  <2>7. QueueTyped(q)
    BY <1>1, <2>3, <2>4 DEF QueueSound, QueueTyped
  <2> HIDE DEF q
  <2>8. QueueSound(q)
    BY <1>1, <2>4, <2>6, <2>7 DEF QueueSound, Placed
  <2> QED
    BY <2>4, <2>5, <2>6, <2>8 DEF q
<1>3. CASE ~Repeats(s, p, v)
  <2> DEFINE e == Item("observation", p, v, 1)
             t == Append(s, e)
             longer == [queue EXCEPT !.pending = t, !.bytes = queue.bytes + Size[v],
                                     !.producers = queue.producers \cup {p}]
             k == Excess(longer)
  <2>1. q = Evict(longer, k)
    BY <1>3 DEF Add
  <2>2. e \in Observations /\ e.channel = p /\ e.value = v /\ e.occurrences = 1
    BY NewItems DEF Item
  <2> HIDE DEF e
  <2>3. /\ t \in Seq(Observations) /\ Len(t) = Len(s) + 1 /\ t # <<>>
        /\ Bytes(t) = Bytes(s) + Size[v]
        /\ \A c : Queued(t, c) <=> Queued(s, c) \/ c = p
    BY <1>1, <2>2, Carried, AppendSound
  <2>4. ASSUME NEW c \in QueueProducers, NEW n \in Nat, NEW vs \in Seq(Vectors),
               LinedUp(s, c, vs, n)
        PROVE  LinedUp(t, c, IF c = p THEN Append(vs, v) ELSE vs, n)
    <3>1. LinedUp(t, c, IF e.channel = c THEN Append(vs, e.value) ELSE vs, n)
      BY <1>1, <2>2, <2>4, Carried, LinedUpAppend
    <3> QED
      BY <2>2, <3>1
  <2> HIDE DEF t
  <2>5. /\ longer.pending = t /\ longer.bytes = queue.bytes + Size[v]
        /\ longer.revisionOnly = queue.revisionOnly
        /\ longer.producers = queue.producers \cup {p}
    BY <1>1
  <2>6. QueueTyped(longer)
    <3>1. Size[v] \in Nat
      BY LedgerAssumption
    <3>2. queue.bytes + Size[v] \in Nat
      BY <1>1, <3>1
    <3> QED
      BY <1>1, <2>3, <3>2 DEF QueueSound, QueueTyped
  <2> HIDE DEF longer
  <2>7. QueueSound(longer)
    BY <1>1, <2>3, <2>5, <2>6 DEF QueueSound, Placed
  <2>8. k \in 0..Len(t) - 1 /\ Len(t) - k <= MaxPending
        /\ longer.bytes - Bytes(SubSeq(t, 1, k)) <= MaxBytes
    BY <2>3, <2>5, <2>6, <2>7, ExcessFits DEF QueueSound
  <2> HIDE DEF k
  <2>9. k \in 0..Len(t) /\ Len(t) \in Nat
    BY <1>1, <2>3, <2>8, SeqFacts
  <2>10. /\ QueueSound(q) /\ q.pending = SubSeq(t, k + 1, Len(t))
         /\ q.bytes = longer.bytes - Bytes(SubSeq(t, 1, k))
         /\ \A c \in QueueProducers :
                q.revisionOnly[c] = queue.revisionOnly[c] + OccurrencesOf(SubSeq(t, 1, k), c)
    BY <2>1, <2>5, <2>7, <2>9, EvictSound
  <2> HIDE DEF q
  <2>11. Len(q.pending) = Len(t) - k /\ q.pending # <<>>
    <3>1. SubSeq(t, k + 1, Len(t)) \in Seq(Observations) /\ Len(SubSeq(t, k + 1, Len(t))) = Len(t) - k
      BY <2>3, <2>9, SuffixFacts
    <3>2. Len(t) - k # 0
      BY <2>8, <2>9
    <3> QED
      BY <2>10, <3>1, <3>2, SeqFacts
  <2>12. ASSUME NEW c \in QueueProducers, NEW n \in Nat, NEW vs \in Seq(Vectors),
                LinedUp(s, c, vs, n + queue.revisionOnly[c])
         PROVE  LinedUp(q.pending, c, IF c = p THEN Append(vs, v) ELSE vs, n + q.revisionOnly[c])
    <3> DEFINE m == n + queue.revisionOnly[c]
               ws == IF c = p THEN Append(vs, v) ELSE vs
               o == OccurrencesOf(SubSeq(t, 1, k), c)
    <3>1. m \in Nat /\ ws \in Seq(Vectors)
      BY <1>1, AppendFacts
    <3>2. LinedUp(t, c, ws, m)
      BY <2>4, <2>12, <3>1
    <3>3. o \in Nat
      BY <2>3, <2>9, Carried, PrefixFacts, CountsFacts
    <3>4. n + q.revisionOnly[c] = m + o
      <4>1. q.revisionOnly[c] = queue.revisionOnly[c] + o /\ queue.revisionOnly[c] \in Nat
        BY <1>1, <2>10
      <4> HIDE DEF o
      <4> QED
        BY <3>3, <4>1
    <3> HIDE DEF m, ws
    <3>5. LinedUp(SubSeq(t, k + 1, Len(t)), c, ws, m + o)
      BY <2>3, <2>9, <3>1, <3>2, Carried, LinedUpSuffix
    <3> QED
      BY <2>10, <3>4, <3>5 DEF ws
  <2> QED
    BY <2>8, <2>10, <2>11, <2>12 DEF q
<1> QED
  BY <1>2, <1>3

\* _remove_producer_if_empty gives back the place of the producer, and no other.
LEMMA ForgetSound ==
    ASSUME NEW q, QueueTyped(q), q.bytes = Bytes(q.pending), NEW p \in QueueProducers,
           p \in q.producers,
           \A c \in QueueProducers : c # p =>
               (c \in q.producers <=> q.revisionOnly[c] > 0 \/ Queued(q.pending, c))
    PROVE  /\ QueueSound(Forget(q, p))
           /\ Forget(q, p).pending = q.pending /\ Forget(q, p).bytes = q.bytes
           /\ Forget(q, p).revisionOnly = q.revisionOnly
<1>1. /\ DOMAIN q = {"pending", "bytes", "revisionOnly", "producers"}
      /\ q.pending \in Seq(Observations) /\ q.revisionOnly[p] \in Nat
  BY QueueFields
<1>2. Latest(q.pending, p) # 0 <=> Queued(q.pending, p)
  BY <1>1, LatestQueued
<1>3. CASE q.revisionOnly[p] > 0 \/ Queued(q.pending, p)
  <2>1. Forget(q, p) = q
    BY <1>2, <1>3 DEF Forget
  <2> QED
    BY <1>3, <2>1 DEF QueueSound, Placed
<1>4. CASE ~(q.revisionOnly[p] > 0 \/ Queued(q.pending, p))
  <2> DEFINE e == [q EXCEPT !.producers = q.producers \ {p}]
  <2>1. Forget(q, p) = e
    BY <1>2, <1>4 DEF Forget
  <2>2. /\ e.pending = q.pending /\ e.bytes = q.bytes /\ e.revisionOnly = q.revisionOnly
        /\ e.producers = q.producers \ {p}
    BY <1>1
  <2>3. QueueTyped(e)
    BY DEF QueueTyped
  <2> HIDE DEF e
  <2>4. QueueSound(e)
    BY <1>4, <2>2, <2>3 DEF QueueSound, Placed
  <2> QED
    BY <2>1, <2>2, <2>4
<1> QED
  BY <1>3, <1>4

LEMMA PopObservationSound ==
    ASSUME QueueSound(queue), PopObservation
    PROVE  /\ QueueSound(queue') /\ queue'.bytes <= queue.bytes
           /\ queue.pending # <<>> /\ queue'.pending = Tail(queue.pending)
           /\ Len(queue'.pending) <= Len(queue.pending)
           /\ queue'.revisionOnly = queue.revisionOnly
           /\ \A p \in QueueProducers : queue.revisionOnly[p] = 0
           /\ Head(queue.pending) \in Observations
           /\ worker' = [worker EXCEPT !.pc = "open", !.item = Head(queue.pending)]
           /\ candidates' = candidates
<1> DEFINE s == queue.pending
           e == Head(s)
           t == Tail(s)
           q == [queue EXCEPT !.pending = t, !.bytes = queue.bytes - Size[e.value]]
<1>1. /\ s # <<>> /\ queue' = Forget(q, e.channel) /\ candidates' = candidates
      /\ \A p \in QueueProducers : queue.revisionOnly[p] = 0
      /\ worker' = [worker EXCEPT !.pc = "open", !.item = e]
  BY DEF PopObservation
<1>2. /\ DOMAIN queue = {"pending", "bytes", "revisionOnly", "producers"}
      /\ s \in Seq(Observations) /\ queue.bytes \in Nat /\ queue.bytes = Bytes(s)
      /\ queue.revisionOnly \in [QueueProducers -> Nat] /\ queue.producers \subseteq QueueProducers
      /\ \A c \in QueueProducers :
             c \in queue.producers <=> queue.revisionOnly[c] > 0 \/ Queued(s, c)
  BY QueueFields DEF QueueSound, Placed
<1>3. /\ e \in Observations /\ t \in Seq(Observations) /\ Len(s) \in Nat \ {0} /\ Len(t) = Len(s) - 1
      /\ Bytes(s) = Size[e.value] + Bytes(t)
      /\ \A c : Queued(s, c) <=> Queued(t, c) \/ c = e.channel
  BY <1>1, <1>2, Carried, TailSound
<1>4. Size[e.value] \in Nat /\ Bytes(t) \in Nat /\ e.channel \in QueueProducers
  <2>1. Size[e.value] \in Nat
    BY <1>3, Carried, ItemFacts
  <2>2. Bytes(t) \in Nat
    BY <1>3, Carried, SizesFacts
  <2> QED
    BY <1>3, <2>1, <2>2 DEF Observations
<1> HIDE DEF e, t
<1>5. queue.bytes - Size[e.value] = Bytes(t) /\ Bytes(t) <= queue.bytes
  BY <1>2, <1>3, <1>4
<1>6. /\ q.pending = t /\ q.bytes = Bytes(t) /\ q.revisionOnly = queue.revisionOnly
      /\ q.producers = queue.producers
  BY <1>2, <1>5
<1>7. QueueTyped(q)
  BY <1>2, <1>3, <1>4, <1>5 DEF QueueSound, QueueTyped
<1> HIDE DEF q
<1>8. \A c \in QueueProducers : c # e.channel =>
          (c \in q.producers <=> q.revisionOnly[c] > 0 \/ Queued(q.pending, c))
  BY <1>2, <1>3, <1>6
<1>9. e.channel \in q.producers
  BY <1>2, <1>3, <1>4, <1>6
<1>10. /\ QueueSound(Forget(q, e.channel))
       /\ Forget(q, e.channel).pending = q.pending /\ Forget(q, e.channel).bytes = q.bytes
       /\ Forget(q, e.channel).revisionOnly = q.revisionOnly
  BY <1>4, <1>6, <1>7, <1>8, <1>9, ForgetSound
<1>11. Len(t) <= Len(s)
  BY <1>3
<1> QED
  BY <1>1, <1>3, <1>5, <1>6, <1>10, <1>11, Zenon DEF e, t

LEMMA PopAdvanceSound ==
    ASSUME QueueSound(queue), NEW p \in QueueProducers, PopAdvance(p)
    PROVE  /\ QueueSound(queue') /\ queue'.bytes = queue.bytes
           /\ queue'.pending = queue.pending
           /\ queue'.revisionOnly = [queue.revisionOnly EXCEPT ![p] = 0]
           /\ queue.revisionOnly \in [QueueProducers -> Nat]
           /\ Item("advance", p, Nobody, queue.revisionOnly[p]) \in Advances
           /\ worker' = [worker EXCEPT !.pc = "open",
                                       !.item = Item("advance", p, Nobody, queue.revisionOnly[p])]
           /\ candidates' = candidates
<1> DEFINE q == [queue EXCEPT !.revisionOnly = [queue.revisionOnly EXCEPT ![p] = 0]]
<1>1. /\ queue.revisionOnly[p] > 0 /\ queue' = Forget(q, p) /\ candidates' = candidates
      /\ worker' = [worker EXCEPT !.pc = "open",
                                  !.item = Item("advance", p, Nobody, queue.revisionOnly[p])]
  BY DEF PopAdvance
<1>2. /\ DOMAIN queue = {"pending", "bytes", "revisionOnly", "producers"}
      /\ queue.bytes \in Nat /\ queue.bytes = Bytes(queue.pending)
      /\ queue.revisionOnly \in [QueueProducers -> Nat]
      /\ \A c \in QueueProducers :
             c \in queue.producers <=> queue.revisionOnly[c] > 0 \/ Queued(queue.pending, c)
  BY QueueFields DEF QueueSound, Placed
<1>3. /\ q.pending = queue.pending /\ q.bytes = queue.bytes /\ q.producers = queue.producers
      /\ q.revisionOnly = [queue.revisionOnly EXCEPT ![p] = 0]
  BY <1>2
<1>4. QueueTyped(q)
  BY <1>2 DEF QueueSound, QueueTyped
<1> HIDE DEF q
<1>5. p \in q.producers
  BY <1>1, <1>2, <1>3
<1>6. \A c \in QueueProducers : c # p =>
          (c \in q.producers <=> q.revisionOnly[c] > 0 \/ Queued(q.pending, c))
  BY <1>2, <1>3
<1>7. /\ QueueSound(Forget(q, p))
      /\ Forget(q, p).pending = q.pending /\ Forget(q, p).bytes = q.bytes
      /\ Forget(q, p).revisionOnly = q.revisionOnly
  BY <1>2, <1>3, <1>4, <1>5, <1>6, ForgetSound
<1>8. Item("advance", p, Nobody, queue.revisionOnly[p]) \in Advances
  <2>1. queue.revisionOnly[p] \in Nat \ {0}
    BY <1>1, <1>2
  <2> QED
    BY <2>1, NewItems
<1> QED
  BY <1>1, <1>2, <1>3, <1>7, <1>8

\* CandidateQueue.add, when it admits the candidate.
LEMMA AddCandidateSound ==
    ASSUME CandidatesSound(candidates), candidates.bytes <= MaxBytes,
           NEW p \in Scopes, NEW v \in Vectors, CandidatesAdmit(p, v)
    PROVE  /\ CandidatesSound(AddCandidate(p, v)) /\ AddCandidate(p, v).bytes <= MaxBytes
           /\ AddCandidate(p, v).pending # <<>>
           /\ \A c \in Scopes, n \in Nat, vs \in Seq(Vectors) :
                  LinedUp(candidates.pending, c, vs, n) =>
                      LinedUp(AddCandidate(p, v).pending, c, IF c = p THEN Append(vs, v) ELSE vs, n)
<1> DEFINE s == candidates.pending
           q == AddCandidate(p, v)
<1>1. /\ DOMAIN candidates = {"pending", "bytes", "scopes"}
      /\ s \in Seq(Candidates) /\ candidates.bytes \in Nat /\ candidates.bytes = Bytes(s)
      /\ candidates.scopes \subseteq Scopes
      /\ \A c \in Scopes : c \in candidates.scopes <=> Queued(s, c)
  BY CandidateFields DEF CandidatesSound
<1>2. CASE Repeats(s, p, v)
  <2> DEFINE b == Latest(s, p)
             t == [s EXCEPT ![b] = More(s[b])]
  <2>1. b \in 1..Len(s) /\ s[b].channel = p /\ s[b].value = v
        /\ \A i \in 1..Len(s) : i > b => s[i].channel # s[b].channel
    BY <1>1, <1>2, LatestFacts DEF Repeats
  <2>2. Repeated(s, p) = t
    BY DEF Repeated, More
  <2>3. q = [candidates EXCEPT !.pending = t]
    BY <1>2, <2>2 DEF AddCandidate
  <2> HIDE DEF b
  <2>4. /\ t \in Seq(Candidates) /\ Len(t) = Len(s) /\ t # <<>> /\ Bytes(t) = Bytes(s)
        /\ \A c : Queued(t, c) <=> Queued(s, c)
    BY <1>1, <2>1, Carried, MoreSound
  <2>5. ASSUME NEW c \in Scopes, NEW n \in Nat, NEW vs \in Seq(Vectors), LinedUp(s, c, vs, n)
        PROVE  LinedUp(t, c, IF c = p THEN Append(vs, v) ELSE vs, n)
    <3>1. LinedUp(t, c, IF s[b].channel = c THEN Append(vs, s[b].value) ELSE vs, n)
      BY <1>1, <2>1, <2>5, Carried, LinedUpMore
    <3> QED
      BY <2>1, <3>1
  <2> HIDE DEF t
  <2>6. q.pending = t /\ q.bytes = candidates.bytes /\ q.scopes = candidates.scopes
    BY <1>1, <2>3
  <2>7. CandidatesTyped(q)
    BY <1>1, <2>3, <2>4 DEF CandidatesSound, CandidatesTyped
  <2> HIDE DEF q
  <2>8. CandidatesSound(q)
    BY <1>1, <2>4, <2>6, <2>7 DEF CandidatesSound
  <2> QED
    BY <2>4, <2>5, <2>6, <2>8 DEF q
<1>3. CASE ~Repeats(s, p, v)
  <2> DEFINE e == Item("candidate", p, v, 1)
             t == Append(s, e)
  <2>1. q = [candidates EXCEPT !.pending = t, !.bytes = candidates.bytes + Size[v],
                               !.scopes = candidates.scopes \cup {p}]
    BY <1>3 DEF AddCandidate
  <2>2. e \in Candidates /\ e.channel = p /\ e.value = v /\ e.occurrences = 1
    BY NewItems DEF Item
  <2> HIDE DEF e
  <2>3. /\ t \in Seq(Candidates) /\ Len(t) = Len(s) + 1 /\ t # <<>>
        /\ Bytes(t) = Bytes(s) + Size[v]
        /\ \A c : Queued(t, c) <=> Queued(s, c) \/ c = p
    BY <1>1, <2>2, Carried, AppendSound
  <2>4. ASSUME NEW c \in Scopes, NEW n \in Nat, NEW vs \in Seq(Vectors), LinedUp(s, c, vs, n)
        PROVE  LinedUp(t, c, IF c = p THEN Append(vs, v) ELSE vs, n)
    <3>1. LinedUp(t, c, IF e.channel = c THEN Append(vs, e.value) ELSE vs, n)
      BY <1>1, <2>2, <2>4, Carried, LinedUpAppend
    <3> QED
      BY <2>2, <3>1
  <2> HIDE DEF t
  <2>5. candidates.bytes + Size[v] <= MaxBytes
    BY <1>3 DEF CandidatesAdmit
  <2>6. candidates.bytes + Size[v] \in Nat
    BY <1>1, LedgerAssumption
  <2>7. /\ q.pending = t /\ q.bytes = candidates.bytes + Size[v]
        /\ q.scopes = candidates.scopes \cup {p}
    BY <1>1, <2>1
  <2>8. CandidatesTyped(q)
    <3> DEFINE longer == [candidates EXCEPT !.pending = t, !.bytes = candidates.bytes + Size[v],
                                            !.scopes = candidates.scopes \cup {p}]
    <3>1. CandidatesTyped(longer)
      BY <1>1, <2>3, <2>6 DEF CandidatesSound, CandidatesTyped
    <3> QED
      BY <2>1, <3>1
  <2> HIDE DEF q
  <2>9. CandidatesSound(q)
    BY <1>1, <2>3, <2>7, <2>8 DEF CandidatesSound
  <2> QED
    BY <2>3, <2>4, <2>5, <2>7, <2>9 DEF q
<1> QED
  BY <1>2, <1>3

LEMMA PopCandidateSound ==
    ASSUME CandidatesSound(candidates), PopCandidate
    PROVE  /\ CandidatesSound(candidates') /\ candidates'.bytes <= candidates.bytes
           /\ candidates.pending # <<>> /\ candidates'.pending = Tail(candidates.pending)
           /\ Head(candidates.pending) \in Candidates
           /\ worker' = [worker EXCEPT !.pc = "resolve", !.item = Head(candidates.pending)]
           /\ QueueEmpty /\ queue' = queue
<1> DEFINE s == candidates.pending
           e == Head(s)
           t == Tail(s)
           gone == IF Latest(t, e.channel) = 0 THEN {e.channel} ELSE {}
<1>1. /\ s # <<>> /\ queue' = queue /\ QueueEmpty
      /\ candidates' = [pending |-> t, bytes |-> candidates.bytes - Size[e.value],
                        scopes |-> candidates.scopes \ gone]
      /\ worker' = [worker EXCEPT !.pc = "resolve", !.item = e]
  BY DEF PopCandidate
<1>2. /\ s \in Seq(Candidates) /\ candidates.bytes \in Nat /\ candidates.bytes = Bytes(s)
      /\ candidates.scopes \subseteq Scopes
      /\ \A c \in Scopes : c \in candidates.scopes <=> Queued(s, c)
  BY CandidateFields DEF CandidatesSound
<1>3. /\ e \in Candidates /\ t \in Seq(Candidates)
      /\ Bytes(s) = Size[e.value] + Bytes(t)
      /\ \A c : Queued(s, c) <=> Queued(t, c) \/ c = e.channel
  BY <1>1, <1>2, Carried, TailSound
<1>4. Size[e.value] \in Nat /\ Bytes(t) \in Nat /\ e.channel \in Scopes
  <2>1. Size[e.value] \in Nat
    BY <1>3, Carried, ItemFacts
  <2>2. Bytes(t) \in Nat
    BY <1>3, Carried, SizesFacts
  <2> QED
    BY <1>3, <2>1, <2>2 DEF Candidates
<1>5. Latest(t, e.channel) # 0 <=> Queued(t, e.channel)
  BY <1>3, LatestQueued
<1> HIDE DEF e, t
<1>6. candidates.bytes - Size[e.value] = Bytes(t) /\ Bytes(t) <= candidates.bytes
  BY <1>2, <1>3, <1>4
<1>7. ASSUME NEW c \in Scopes PROVE c \in candidates.scopes \ gone <=> Queued(t, c)
  BY <1>2, <1>3, <1>5
<1> HIDE DEF gone
<1>8. CandidatesTyped(candidates')
  BY <1>1, <1>2, <1>3, <1>4, <1>6 DEF CandidatesTyped
<1>9. /\ candidates'.pending = t /\ candidates'.bytes = Bytes(t)
      /\ candidates'.scopes = candidates.scopes \ gone
  BY <1>1, <1>6
<1>10. CandidatesSound(candidates')
  BY <1>7, <1>8, <1>9 DEF CandidatesSound
<1> QED
  BY <1>1, <1>3, <1>6, <1>9, <1>10, Zenon DEF e, t

-----------------------------------------------------------------------------
(* Types and room *)

WorkerTyped ==
    worker \in [pc : {"look", "resolve", "open", "write", "advance", "settle",
                      "interrupted", "raised", "exit", "exited", "done"},
                item : Observations \cup Advances \cup Candidates \cup {NoItem},
                attempt : 0..MaxAttempts, ok : BOOLEAN]

OthersTyped ==
    /\ waiters \subseteq Flushers \cup {Worker}
    /\ closing \in BOOLEAN
    /\ failure \in BOOLEAN
    /\ repository \in {"none", "open", "closed"}
    /\ recorder \in [Recorders -> Vectors \cup {Nobody}]
    /\ flusher \in [Flushers -> {"idle", "wait", "ok", "raised"}]
    /\ closer \in {"idle", "joining", "ok", "raised"}
    /\ settled \in [Channels -> Nat]
    /\ accepted \in [Channels -> Seq(Vectors)]

RoomSound ==
    /\ QueueSound(queue) /\ queue.bytes <= MaxBytes /\ Len(queue.pending) <= MaxPending
    /\ CandidatesSound(candidates) /\ candidates.bytes <= MaxBytes

\* The worker works on an item.
HoldsItem == Working => worker.item # NoItem

RoomInv == RoomSound /\ WorkerTyped /\ OthersTyped /\ HoldsItem

LEMMA RoomInvMeans == RoomInv <=> LedgerTypeOK /\ RoomIsAccounted /\ HoldsItem
<1>1. LedgerTypeOK <=> QueueTyped(queue) /\ CandidatesTyped(candidates) /\ WorkerTyped /\ OthersTyped
  BY DEF LedgerTypeOK, QueueTyped, CandidatesTyped, WorkerTyped, OthersTyped
<1>2. RoomSound => QueueTyped(queue) /\ CandidatesTyped(candidates)
  BY DEF RoomSound, QueueSound, CandidatesSound
<1>3. QueueTyped(queue) /\ CandidatesTyped(candidates) => (RoomIsAccounted <=> RoomSound)
  BY RoomMeans DEF RoomSound
<1> QED
  BY <1>1, <1>2, <1>3 DEF RoomInv

LEMMA LimitsAreNumbers ==
    /\ MaxBytes \in Nat /\ MaxPending \in Nat /\ MaxAttempts \in Nat \ {0}
    /\ Nobody \notin Channels /\ Nobody \notin Vectors
    /\ QueueProducers \cap Scopes = {}
BY LedgerAssumption DEF Channels

LEMMA RoomInit == LedgerInit => RoomInv
<1> SUFFICES ASSUME LedgerInit PROVE RoomInv
  OBVIOUS
<1>1. queue = EmptyQueue /\ candidates = EmptyCandidates
  BY DEF LedgerInit
<1>2. RoomSound
  <2>1. 0 <= MaxBytes /\ Len(<<>>) = 0 /\ 0 <= MaxPending
    BY LimitsAreNumbers
  <2> QED
    BY <1>1, <2>1, EmptiedSound DEF RoomSound
<1>3. WorkerTyped /\ HoldsItem
  BY LimitsAreNumbers DEF LedgerInit, WorkerTyped, HoldsItem, Working
<1>4. settled \in [Channels -> Nat] /\ accepted \in [Channels -> Seq(Vectors)]
  <2>1. <<>> \in Seq(Vectors) /\ 0 \in Nat
    OBVIOUS
  <2> QED
    BY <2>1 DEF LedgerInit
<1>5. recorder \in [Recorders -> Vectors \cup {Nobody}]
      /\ flusher \in [Flushers -> {"idle", "wait", "ok", "raised"}]
  BY DEF LedgerInit
<1>6. repository \in {"none", "open", "closed"} /\ closer \in {"idle", "joining", "ok", "raised"}
      /\ closing \in BOOLEAN /\ failure \in BOOLEAN /\ waiters \subseteq Flushers \cup {Worker}
  BY DEF LedgerInit
<1>7. OthersTyped
  BY <1>4, <1>5, <1>6, Zenon DEF OthersTyped
<1> QED
  BY <1>2, <1>3, <1>7 DEF RoomInv

LEMMA RoomUnchanged ==
    ASSUME RoomSound, UNCHANGED <<queue, candidates>>
    PROVE  RoomSound'
BY DEF RoomSound

LEMMA DiscardSound ==
    ASSUME Discard
    PROVE  /\ RoomSound' /\ Empty'
<1>1. queue' = EmptyQueue /\ candidates' = EmptyCandidates
  BY DEF Discard
<1>2. 0 <= MaxBytes /\ Len(<<>>) = 0 /\ 0 <= MaxPending
  BY LimitsAreNumbers
<1> QED
  BY <1>1, <1>2, EmptiedSound DEF RoomSound, Empty, QueueEmpty

LEMMA RoomSoundStep ==
    ASSUME RoomInv, [LedgerNext]_ledgerVars
    PROVE  RoomSound'
<1>1. RoomSound
  BY DEF RoomInv
<1>2. ASSUME NEW r \in Recorders, NEW p \in QueueProducers, RecordAdds(r, p) PROVE RoomSound'
  <2>1. queue' = Add(p, recorder[r]) /\ candidates' = candidates /\ recorder[r] # Nobody
    BY <1>2 DEF RecordAdds
  <2>2. recorder[r] \in Vectors
    BY <2>1 DEF RoomInv, OthersTyped
  <2> QED
    BY <1>1, <2>1, <2>2, AddSound DEF RoomSound
<1>3. ASSUME NEW s \in Scopes, NEW v \in Vectors, RecordDeferred(s, v) PROVE RoomSound'
  <2>1. candidates' = AddCandidate(s, v) /\ queue' = queue /\ CandidatesAdmit(s, v)
    BY <1>3 DEF RecordDeferred
  <2> QED
    BY <1>1, <2>1, AddCandidateSound DEF RoomSound
<1>4. CASE WorkerTakes
  <2> DEFINE b == queue.bytes
             bb == queue'.bytes
             n == Len(queue.pending)
             nn == Len(queue'.pending)
             x == candidates.bytes
             xx == candidates'.bytes
  <2>1. /\ b \in Nat /\ n \in Nat /\ x \in Nat /\ MaxBytes \in Nat /\ MaxPending \in Nat
    <3>1. QueueTyped(queue) /\ CandidatesTyped(candidates)
      BY <1>1 DEF RoomSound, QueueSound, CandidatesSound
    <3> QED
      BY <3>1, QueueFields, CandidateFields, SeqFacts, LimitsAreNumbers
  <2>2. /\ QueueSound(queue') /\ CandidatesSound(candidates')
        /\ bb <= b /\ nn <= n /\ xx <= x
    <3>1. CASE PopObservation
      BY <1>1, <2>1, <3>1, PopObservationSound DEF RoomSound
    <3>2. CASE PopCandidate
      BY <1>1, <2>1, <3>2, PopCandidateSound DEF RoomSound
    <3>3. ASSUME NEW p \in QueueProducers, PopAdvance(p)
          PROVE  /\ QueueSound(queue') /\ CandidatesSound(candidates')
                 /\ bb <= b /\ nn <= n /\ xx <= x
      <4>1. QueueSound(queue) /\ CandidatesSound(candidates)
        BY <1>1 DEF RoomSound
      <4>2. /\ QueueSound(queue') /\ queue'.pending = queue.pending
            /\ queue'.bytes = queue.bytes /\ candidates' = candidates
        BY <3>3, <4>1, PopAdvanceSound
      <4>3. bb = b /\ nn = n /\ xx = x
        BY <4>2
      <4> HIDE DEF b, bb, n, nn, x, xx
      <4>4. bb <= b /\ nn <= n /\ xx <= x
        BY <2>1, <4>3
      <4> QED
        BY <4>1, <4>2, <4>4
    <3> QED
      BY <1>4, <3>1, <3>2, <3>3 DEF WorkerTakes
  <2>3. bb \in Nat /\ nn \in Nat /\ xx \in Nat
    <3>1. QueueTyped(queue') /\ CandidatesTyped(candidates')
      BY <2>2 DEF QueueSound, CandidatesSound
    <3> QED
      BY <3>1, QueueFields, CandidateFields, SeqFacts
  <2>4. b <= MaxBytes /\ n <= MaxPending /\ x <= MaxBytes
    BY <1>1 DEF RoomSound
  <2> HIDE DEF b, bb, n, nn, x, xx
  <2>5. bb <= MaxBytes /\ nn <= MaxPending /\ xx <= MaxBytes
    BY <2>1, <2>2, <2>3, <2>4
  <2> QED
    BY <2>2, <2>5 DEF RoomSound, bb, nn, xx
<1>5. CASE WorkerSettles
  <2>1. Discard \/ UNCHANGED <<queue, candidates>>
    BY <1>5 DEF WorkerSettles
  <2> QED
    BY <1>1, <2>1, DiscardSound, RoomUnchanged
<1>6. CASE WorkerRemembers
  <2>1. Discard
    BY <1>6 DEF WorkerRemembers
  <2> QED
    BY <2>1, DiscardSound
<1>7. CASE \/ UNCHANGED ledgerVars
           \/ WorkerWaits \/ WorkerStops
           \/ ProducerResolved \/ ProducerUnknown \/ RepositoryOpened
           \/ WriteCommits \/ WriteBusy \/ PersistFails \/ WorkerIsInterrupted
           \/ WorkerClosesRepository \/ WorkerEnds
           \/ \E r \in Recorders, v \in Vectors : RecordCalled(r, v)
           \/ \E r \in Recorders : RecordRaises(r)
           \/ \E f \in Flushers : FlushLooks(f) \/ FlushReturns(f)
           \/ CloseCalled \/ CloseJoins
  <2>1. UNCHANGED <<queue, candidates>>
    BY <1>7 DEF ledgerVars, WorkerWaits, WorkerStops, ProducerResolved, ProducerUnknown,
                RepositoryOpened, WriteCommits, WriteBusy, PersistFails, WorkerIsInterrupted,
                WorkerClosesRepository, WorkerEnds, RecordCalled, RecordRaises, FlushLooks,
                FlushReturns, CloseCalled, CloseJoins
  <2> QED
    BY <1>1, <2>1, RoomUnchanged
<1> QED
  BY <1>2, <1>3, <1>4, <1>5, <1>6, <1>7 DEF LedgerNext, WorkerStep

\* What each step of the worker does to where it is and to what it holds.
LEMMA WorkerTypedStep ==
    ASSUME RoomInv, [LedgerNext]_ledgerVars
    PROVE  WorkerTyped' /\ HoldsItem'
<1>1. WorkerTyped /\ HoldsItem /\ RoomSound
  BY DEF RoomInv
<1>2. CASE UNCHANGED worker
  BY <1>1, <1>2 DEF WorkerTyped, HoldsItem, Working
<1>3. CASE WorkerTakes
  <2>1. PICK pc \in {"open", "resolve"}, e \in Observations \cup Advances \cup Candidates :
            worker' = [worker EXCEPT !.pc = pc, !.item = e]
    <3>1. CASE PopObservation
      BY <1>1, <3>1, PopObservationSound DEF RoomSound
    <3>2. CASE PopCandidate
      BY <1>1, <3>2, PopCandidateSound DEF RoomSound
    <3>3. ASSUME NEW p \in QueueProducers, PopAdvance(p)
          PROVE  \E pc \in {"open", "resolve"}, e \in Observations \cup Advances \cup Candidates :
                     worker' = [worker EXCEPT !.pc = pc, !.item = e]
      BY <1>1, <3>3, PopAdvanceSound DEF RoomSound
    <3> QED
      BY <1>3, <3>1, <3>2, <3>3 DEF WorkerTakes
  <2>2. e # NoItem
    BY LimitsAreNumbers DEF Observations, Advances, Candidates, NoItem, Channels
  <2>3. worker'.item = e
    BY <1>1, <2>1 DEF WorkerTyped
  <2>4. WorkerTyped'
    BY <1>1, <2>1 DEF WorkerTyped
  <2> QED
    BY SMTT(60), <2>2, <2>3, <2>4 DEF HoldsItem
<1>4. CASE WorkerStops \/ WorkerRemembers
  <2>1. worker' = [worker EXCEPT !.pc = "exit"]
    BY <1>4 DEF WorkerStops, WorkerRemembers
  <2> QED
    BY <1>1, <2>1 DEF WorkerTyped, HoldsItem, Working
<1>5. CASE \/ ProducerResolved \/ ProducerUnknown \/ RepositoryOpened \/ WriteCommits
           \/ PersistFails \/ WorkerIsInterrupted
  <2>1. Working
    BY SMTT(60), <1>5 DEF ProducerResolved, ProducerUnknown, RepositoryOpened, WriteCommits, PersistFails,
                WorkerIsInterrupted, Working
  <2>2. PICK pc \in {"open", "write", "advance", "settle", "interrupted"}, ok \in BOOLEAN :
            worker' = [worker EXCEPT !.pc = pc, !.ok = ok]
    <3>1. worker = [worker EXCEPT !.ok = worker.ok] /\ worker.ok \in BOOLEAN
      BY <1>1 DEF WorkerTyped
    <3>2. CASE ProducerResolved \/ RepositoryOpened \/ WorkerIsInterrupted
      <4>1. PICK pc \in {"open", "write", "advance", "interrupted"} : worker' = [worker EXCEPT !.pc = pc]
        BY <3>2 DEF ProducerResolved, RepositoryOpened, WorkerIsInterrupted
      <4>2. worker' = [worker EXCEPT !.pc = pc, !.ok = worker.ok]
        BY <1>1, <4>1 DEF WorkerTyped
      <4> QED
        BY <3>1, <4>2
    <3>3. CASE ProducerUnknown \/ WriteCommits
      BY <3>3 DEF ProducerUnknown, WriteCommits, Settles
    <3>4. CASE PersistFails
      BY <3>4 DEF PersistFails, Fails
    <3> QED
      BY <1>5, <3>2, <3>3, <3>4
  <2>3. WorkerTyped' /\ worker'.item = worker.item
    BY <1>1, <2>2 DEF WorkerTyped
  <2> QED
    BY <1>1, <2>1, <2>3 DEF HoldsItem
<1>6. CASE WriteBusy
  <2>1. /\ worker' = [worker EXCEPT !.attempt = worker.attempt + 1]
        /\ worker.attempt + 1 < MaxAttempts /\ Working
    BY <1>6 DEF WriteBusy, Working
  <2>2. worker.attempt + 1 \in 0..MaxAttempts
    BY <1>1, <2>1, LimitsAreNumbers DEF WorkerTyped
  <2>3. WorkerTyped' /\ worker'.item = worker.item
    BY <1>1, <2>1, <2>2 DEF WorkerTyped
  <2> QED
    BY <1>1, <2>1, <2>3 DEF HoldsItem
<1>7. CASE WorkerSettles
  <2>1. PICK pc \in {"raised", "look", "exit"} :
            worker' = [worker EXCEPT !.pc = pc, !.item = NoItem, !.attempt = 0]
    <3>1. worker' = [worker EXCEPT
              !.pc = IF worker.pc = "interrupted" THEN "raised"
                     ELSE IF worker.ok THEN "look" ELSE "exit",
              !.item = NoItem, !.attempt = 0]
      BY <1>7 DEF WorkerSettles
    <3> QED
      BY <3>1
  <2>2. 0 \in 0..MaxAttempts
    BY LimitsAreNumbers
  <2>3. WorkerTyped' /\ worker'.pc = pc
    BY <1>1, <2>1, <2>2 DEF WorkerTyped
  <2> QED
    BY <2>3 DEF HoldsItem, Working
<1>8. CASE WorkerClosesRepository
  <2>1. PICK ok \in BOOLEAN : worker' = [worker EXCEPT !.pc = "exited", !.ok = ok]
    BY <1>8 DEF WorkerClosesRepository
  <2> QED
    BY <1>1, <2>1 DEF WorkerTyped, HoldsItem, Working
<1>9. CASE WorkerEnds
  <2>1. worker' = [worker EXCEPT !.pc = "done"]
    BY <1>9 DEF WorkerEnds
  <2> QED
    BY <1>1, <2>1 DEF WorkerTyped, HoldsItem, Working
<1>10. CASE \/ UNCHANGED ledgerVars \/ WorkerWaits
            \/ \E r \in Recorders, v \in Vectors : RecordCalled(r, v)
            \/ \E r \in Recorders, p \in QueueProducers : RecordAdds(r, p)
            \/ \E r \in Recorders : RecordRaises(r)
            \/ \E s \in Scopes, v \in Vectors : RecordDeferred(s, v)
            \/ \E f \in Flushers : FlushLooks(f) \/ FlushReturns(f)
            \/ CloseCalled \/ CloseJoins
  <2>1. UNCHANGED worker
    BY <1>10 DEF ledgerVars, WorkerWaits, RecordCalled, RecordAdds, RecordRaises, RecordDeferred,
                 FlushLooks, FlushReturns, CloseCalled, CloseJoins
  <2> QED
    BY <1>2, <2>1
<1> QED
  BY <1>3, <1>4, <1>5, <1>6, <1>7, <1>8, <1>9, <1>10 DEF LedgerNext, WorkerStep

LEMMA OthersTypedStep ==
    ASSUME RoomInv, [LedgerNext]_ledgerVars
    PROVE  OthersTyped'
<1>1. OthersTyped /\ WorkerTyped /\ HoldsItem
  BY DEF RoomInv
<1>2. (waiters \subseteq Flushers \cup {Worker})'
  <2>1. \/ waiters' \subseteq waiters
        \/ waiters' = waiters \cup {Worker}
        \/ \E f \in Flushers : waiters' = waiters \cup {f}
    BY DEF LedgerNext, WorkerStep, ledgerVars, RecordCalled, RecordAdds, RecordRaises,
           RecordDeferred, FlushLooks, FlushReturns, CloseCalled, CloseJoins, WorkerWaits,
           WorkerTakes, WorkerStops, ProducerResolved, ProducerUnknown, RepositoryOpened,
           WriteCommits, WriteBusy, PersistFails, WorkerIsInterrupted, WorkerSettles,
           WorkerRemembers, WorkerClosesRepository, WorkerEnds, Notify, NotifyAll
  <2> QED
    BY <1>1, <2>1 DEF OthersTyped
<1>3. (closing \in BOOLEAN)' /\ (closer \in {"idle", "joining", "ok", "raised"})'
  <2>1. /\ closing' = closing \/ closing' = TRUE
        /\ closer' = closer \/ closer' \in {"joining", "ok", "raised"}
    BY DEF LedgerNext, WorkerStep, ledgerVars, threads, RecordCalled, RecordAdds, RecordRaises,
           RecordDeferred, FlushLooks, FlushReturns, CloseCalled, CloseJoins, WorkerWaits,
           WorkerTakes, WorkerStops, ProducerResolved, ProducerUnknown, RepositoryOpened,
           WriteCommits, WriteBusy, PersistFails, WorkerIsInterrupted, WorkerSettles,
           WorkerRemembers, WorkerClosesRepository, WorkerEnds
  <2> QED
    BY <1>1, <2>1 DEF OthersTyped
<1>4. (failure \in BOOLEAN)' /\ (repository \in {"none", "open", "closed"})'
  <2>1. /\ failure' \in BOOLEAN \/ failure' = failure
        /\ repository' = repository \/ repository' \in {"open", "closed"}
    BY DEF LedgerNext, WorkerStep, ledgerVars, threads, RecordCalled, RecordAdds, RecordRaises,
           RecordDeferred, FlushLooks, FlushReturns, CloseCalled, CloseJoins, WorkerWaits,
           WorkerTakes, WorkerStops, ProducerResolved, ProducerUnknown, RepositoryOpened,
           WriteCommits, WriteBusy, PersistFails, WorkerIsInterrupted, WorkerSettles,
           WorkerRemembers, WorkerClosesRepository, WorkerEnds
  <2> QED
    BY <1>1, <2>1 DEF OthersTyped
<1>5. (recorder \in [Recorders -> Vectors \cup {Nobody}])'
  <2>1. \/ recorder' = recorder
        \/ \E r \in Recorders, v \in Vectors \cup {Nobody} : recorder' = [recorder EXCEPT ![r] = v]
    BY DEF LedgerNext, WorkerStep, ledgerVars, threads, RecordCalled, RecordAdds, RecordRaises,
           RecordDeferred, FlushLooks, FlushReturns, CloseCalled, CloseJoins, WorkerWaits,
           WorkerTakes, WorkerStops, ProducerResolved, ProducerUnknown, RepositoryOpened,
           WriteCommits, WriteBusy, PersistFails, WorkerIsInterrupted, WorkerSettles,
           WorkerRemembers, WorkerClosesRepository, WorkerEnds
  <2> QED
    BY SMTT(60), <1>1, <2>1 DEF OthersTyped
<1>6. (flusher \in [Flushers -> {"idle", "wait", "ok", "raised"}])'
  <2>1. \/ flusher' = flusher
        \/ \E f \in Flushers, x \in {"idle", "wait", "ok", "raised"} :
               flusher' = [flusher EXCEPT ![f] = x]
    BY DEF LedgerNext, WorkerStep, ledgerVars, threads, RecordCalled, RecordAdds, RecordRaises,
           RecordDeferred, FlushLooks, FlushReturns, CloseCalled, CloseJoins, WorkerWaits,
           WorkerTakes, WorkerStops, ProducerResolved, ProducerUnknown, RepositoryOpened,
           WriteCommits, WriteBusy, PersistFails, WorkerIsInterrupted, WorkerSettles,
           WorkerRemembers, WorkerClosesRepository, WorkerEnds
  <2> QED
    BY SMTT(60), <1>1, <2>1 DEF OthersTyped
<1>7. (settled \in [Channels -> Nat])'
  <2>1. \/ settled' = settled
        \/ (ProducerUnknown \/ WriteCommits) /\ ItemSettled
    BY DEF LedgerNext, WorkerStep, ledgerVars, threads, RecordCalled, RecordAdds, RecordRaises,
           RecordDeferred, FlushLooks, FlushReturns, CloseCalled, CloseJoins, WorkerWaits,
           WorkerTakes, WorkerStops, ProducerResolved, ProducerUnknown, RepositoryOpened,
           WriteCommits, WriteBusy, PersistFails, WorkerIsInterrupted, WorkerSettles,
           WorkerRemembers, WorkerClosesRepository, WorkerEnds
  <2>2. CASE (ProducerUnknown \/ WriteCommits) /\ ItemSettled
    <3>1. Working
      BY <2>2 DEF ProducerUnknown, WriteCommits, Working
    <3>2. worker.item \in Observations \cup Advances \cup Candidates
      BY <1>1, <3>1 DEF HoldsItem, WorkerTyped
    <3>3. worker.item.channel \in Channels /\ worker.item.occurrences \in Nat
      BY <3>2 DEF Observations, Advances, Candidates, Channels
    <3>4. settled' = [settled EXCEPT ![worker.item.channel] = @ + worker.item.occurrences]
      BY <2>2 DEF ItemSettled
    <3> QED
      BY <1>1, <3>3, <3>4 DEF OthersTyped
  <2> QED
    BY <1>1, <2>1, <2>2 DEF OthersTyped
<1>8. (accepted \in [Channels -> Seq(Vectors)])'
  <2>1. \/ accepted' = accepted
        \/ \E r \in Recorders, p \in QueueProducers : RecordAdds(r, p)
        \/ \E s \in Scopes, v \in Vectors : RecordDeferred(s, v)
    BY DEF LedgerNext, WorkerStep, ledgerVars, threads, RecordCalled, RecordRaises,
           FlushLooks, FlushReturns, CloseCalled, CloseJoins, WorkerWaits,
           WorkerTakes, WorkerStops, ProducerResolved, ProducerUnknown, RepositoryOpened,
           WriteCommits, WriteBusy, PersistFails, WorkerIsInterrupted, WorkerSettles,
           WorkerRemembers, WorkerClosesRepository, WorkerEnds
  <2>2. ASSUME NEW c \in Channels, NEW v \in Vectors, Accept(c, v)
        PROVE  (accepted \in [Channels -> Seq(Vectors)])'
    BY <1>1, <2>2, AppendFacts DEF OthersTyped, Accept
  <2>3. ASSUME NEW r \in Recorders, NEW p \in QueueProducers, RecordAdds(r, p)
        PROVE  (accepted \in [Channels -> Seq(Vectors)])'
    <3>1. recorder[r] \in Vectors /\ Accept(p, recorder[r]) /\ p \in Channels
      BY <1>1, <2>3 DEF RecordAdds, OthersTyped, Channels
    <3> QED
      BY <2>2, <3>1
  <2>4. ASSUME NEW s \in Scopes, NEW v \in Vectors, RecordDeferred(s, v)
        PROVE  (accepted \in [Channels -> Seq(Vectors)])'
    BY <2>2, <2>4 DEF RecordDeferred, Channels
  <2> QED
    BY <1>1, <2>1, <2>3, <2>4 DEF OthersTyped
<1> QED
  BY <1>2, <1>3, <1>4, <1>5, <1>6, <1>7, <1>8 DEF OthersTyped

LEMMA RoomStep == RoomInv /\ [LedgerNext]_ledgerVars => RoomInv'
BY RoomSoundStep, WorkerTypedStep, OthersTypedStep DEF RoomInv

-----------------------------------------------------------------------------
(* Who waits *)

WakeInv ==
    /\ Worker \in waiters => worker.pc = "look"
    /\ WorkerNeverStranded
    /\ FlushNeverStranded

LEMMA WakeInit == LedgerInit => WakeInv
BY DEF LedgerInit, WakeInv, WorkerNeverStranded, FlushNeverStranded

\* A step that adds to a queue and wakes one thread.  Either the worker waited,
\* then it was alone and has been woken, or the flushes that go on waiting have
\* something to wait for.
LEMMA NotifySuffices ==
    ASSUME RoomInv, WakeInv, Notify, ~Empty', UNCHANGED <<worker, closing>>
    PROVE  WakeInv'
<1>1. waiters' \subseteq waiters
  BY DEF Notify
<1>2. Worker \notin waiters'
  <2>1. SUFFICES ASSUME Worker \in waiters PROVE Worker \notin waiters'
    BY <1>1
  <2>2. worker.pc = "look" /\ Empty
    BY <2>1 DEF WakeInv, WorkerNeverStranded
  <2>3. ~Working
    BY <2>2 DEF Working
  <2>4. \A f \in Flushers : f \notin waiters
    BY <2>2, <2>3 DEF WakeInv, FlushNeverStranded
  <2>5. waiters = {Worker}
    BY <2>1, <2>4 DEF RoomInv, OthersTyped
  <2> QED
    BY <2>5 DEF Notify
<1> QED
  BY <1>1, <1>2 DEF WakeInv, WorkerNeverStranded, FlushNeverStranded

\* A step after which no thread waits.
LEMMA NobodyWaits ==
    ASSUME waiters' = {}
    PROVE  WakeInv'
BY DEF WakeInv, WorkerNeverStranded, FlushNeverStranded

\* A step that leaves the queues, the condition and the close alone, and does
\* not end the work of the worker.
LEMMA NothingChanges ==
    ASSUME WakeInv, UNCHANGED <<queue, candidates, waiters, closing>>,
           Worker \in waiters => worker' = worker,
           Working => Working'
    PROVE  WakeInv'
<1>1. Empty' <=> Empty
  BY DEF Empty, QueueEmpty
<1> QED
  BY <1>1 DEF WakeInv, WorkerNeverStranded, FlushNeverStranded

LEMMA WakeStep ==
    ASSUME RoomInv, WakeInv, [LedgerNext]_ledgerVars
    PROVE  WakeInv'
<1>1. /\ WorkerTyped /\ WorkerTyped' /\ RoomSound /\ OthersTyped
      /\ Worker \in waiters => worker.pc = "look"
  BY RoomStep DEF RoomInv, WakeInv
<1>2. CASE UNCHANGED <<queue, candidates, waiters, closing, worker>>
  BY <1>2, NothingChanges DEF Working
<1>3. ASSUME NEW r \in Recorders, NEW p \in QueueProducers, RecordAdds(r, p)
      PROVE  WakeInv'
  <2>1. /\ queue' = Add(p, recorder[r]) /\ Notify /\ UNCHANGED <<candidates, worker, closing>>
        /\ recorder[r] # Nobody
    BY <1>3 DEF RecordAdds
  <2>2. recorder[r] \in Vectors
    BY <1>1, <2>1 DEF OthersTyped
  <2>3. queue'.pending # <<>>
    BY <1>1, <2>1, <2>2, AddSound DEF RoomSound
  <2>4. ~Empty'
    BY <2>3 DEF Empty, QueueEmpty
  <2> QED
    BY <2>1, <2>4, NotifySuffices
<1>4. ASSUME NEW s \in Scopes, NEW v \in Vectors, RecordDeferred(s, v)
      PROVE  WakeInv'
  <2>1. /\ candidates' = AddCandidate(s, v) /\ Notify /\ UNCHANGED <<queue, worker, closing>>
        /\ CandidatesAdmit(s, v)
    BY <1>4 DEF RecordDeferred
  <2>2. candidates'.pending # <<>>
    BY <1>1, <2>1, AddCandidateSound DEF RoomSound
  <2>3. ~Empty'
    BY <2>2 DEF Empty
  <2> QED
    BY <2>1, <2>3, NotifySuffices
<1>5. ASSUME NEW f \in Flushers, FlushLooks(f)
      PROVE  WakeInv'
  <2>1. UNCHANGED <<queue, candidates, worker, closing>>
    BY <1>5 DEF FlushLooks
  <2>2. (Empty' <=> Empty) /\ (Working' <=> Working)
    BY <2>1 DEF Empty, QueueEmpty, Working
  <2>3. \/ waiters' = waiters
        \/ waiters' = waiters \cup {f} /\ ~(Empty /\ ~Working)
    BY <1>5 DEF FlushLooks
  <2>4. Worker # f
    BY LedgerAssumption
  <2> QED
    BY <2>1, <2>2, <2>3, <2>4 DEF WakeInv, WorkerNeverStranded, FlushNeverStranded
<1>6. CASE CloseCalled \/ WorkerSettles \/ WorkerRemembers \/ WorkerEnds
  <2>1. waiters' = {}
    BY <1>6 DEF CloseCalled, WorkerSettles, WorkerRemembers, WorkerEnds, NotifyAll
  <2> QED
    BY <2>1, NobodyWaits
<1>7. CASE WorkerWaits
  <2>1. /\ UNCHANGED <<queue, candidates, worker, closing>> /\ worker.pc = "look"
        /\ Empty /\ ~closing /\ waiters' = waiters \cup {Worker}
    BY <1>7 DEF WorkerWaits
  <2>2. (Empty' <=> Empty) /\ (Working' <=> Working) /\ ~Working
    BY <2>1 DEF Empty, QueueEmpty, Working
  <2>3. \A f \in Flushers : f \notin waiters'
    BY <2>1, <2>2, LedgerAssumption DEF WakeInv, FlushNeverStranded
  <2> QED
    BY <2>1, <2>2, <2>3 DEF WakeInv, WorkerNeverStranded, FlushNeverStranded
<1>8. CASE WorkerTakes
  <2>1. /\ Worker \notin waiters /\ UNCHANGED waiters
        /\ PopObservation \/ PopCandidate \/ \E p \in QueueProducers : PopAdvance(p)
    BY <1>8 DEF WorkerTakes
  <2>2. worker'.pc \in {"open", "resolve"}
    <3>1. CASE PopObservation
      BY <1>1, <3>1, PopObservationSound DEF RoomSound, WorkerTyped
    <3>2. CASE PopCandidate
      BY <1>1, <3>2, PopCandidateSound DEF RoomSound, WorkerTyped
    <3>3. ASSUME NEW p \in QueueProducers, PopAdvance(p) PROVE worker'.pc \in {"open", "resolve"}
      BY <1>1, <3>3, PopAdvanceSound DEF RoomSound, WorkerTyped
    <3> QED
      BY <2>1, <3>1, <3>2, <3>3
  <2>3. worker'.pc \in {"resolve", "open"}
    BY <2>2
  <2>4. Working'
    BY <2>3 DEF Working
  <2> QED
    BY <2>1, <2>4 DEF WakeInv, WorkerNeverStranded, FlushNeverStranded
<1>9. CASE WorkerStops
  <2>1. /\ UNCHANGED <<queue, candidates, waiters, closing>> /\ Worker \notin waiters
        /\ worker.pc = "look"
    BY <1>9 DEF WorkerStops
  <2>2. ~Working
    BY <2>1 DEF Working
  <2> QED
    BY <2>1, <2>2, NothingChanges
<1>10. CASE ProducerResolved \/ ProducerUnknown \/ RepositoryOpened \/ WriteCommits
            \/ WriteBusy \/ PersistFails \/ WorkerIsInterrupted
  <2>1. /\ UNCHANGED <<queue, candidates, waiters, closing>> /\ worker.pc # "look"
    BY <1>10 DEF ProducerResolved, ProducerUnknown, RepositoryOpened, WriteCommits,
                 WriteBusy, PersistFails, WorkerIsInterrupted
  <2>2. Working'
    BY <1>1, <1>10 DEF ProducerResolved, ProducerUnknown, RepositoryOpened, WriteCommits,
                 WriteBusy, PersistFails, WorkerIsInterrupted, WorkerTyped, Working,
                 Settles, Fails
  <2> QED
    BY <1>1, <2>1, <2>2, NothingChanges
<1>11. CASE WorkerClosesRepository
  <2>1. UNCHANGED <<queue, candidates, waiters, closing>> /\ worker.pc = "exit"
    BY <1>11 DEF WorkerClosesRepository
  <2>2. ~Working
    BY <2>1 DEF Working
  <2> QED
    BY <1>1, <2>1, <2>2, NothingChanges
<1>12. CASE \/ UNCHANGED ledgerVars
            \/ \E r \in Recorders, v \in Vectors : RecordCalled(r, v)
            \/ \E r \in Recorders : RecordRaises(r)
            \/ \E f \in Flushers : FlushReturns(f)
            \/ CloseJoins
  <2>1. UNCHANGED <<queue, candidates, waiters, closing, worker>>
    BY <1>12 DEF ledgerVars, RecordCalled, RecordRaises, FlushReturns, CloseJoins
  <2> QED
    BY <1>2, <2>1
<1> QED
  BY <1>3, <1>4, <1>5, <1>6, <1>7, <1>8, <1>9, <1>10, <1>11, <1>12 DEF LedgerNext, WorkerStep

-----------------------------------------------------------------------------
(* How the ledger ends *)

FailureIsKnown == worker.pc = "settle" /\ ~worker.ok => failure
NothingIsLeft == worker.pc \in {"exit", "exited", "done"} /\ ~failure => Empty /\ closing
ClosedIsDone == closer = "ok" => worker.pc = "done" /\ ~failure

EndInv == FailureIsKnown /\ NothingIsLeft /\ ClosedIsDone

LEMMA EndInit == LedgerInit => EndInv
BY DEF LedgerInit, EndInv, FailureIsKnown, NothingIsLeft, ClosedIsDone

\* Only the worker fails, and then stops recording for good.
LEMMA FailureStays ==
    ASSUME RoomInv, [LedgerNext]_ledgerVars
    PROVE  /\ failure => failure'
           /\ failure' => failure \/ PersistFails \/ WorkerRemembers \/ WorkerEnds
<1>1. failure \in BOOLEAN /\ worker.ok \in BOOLEAN
  BY DEF RoomInv, OthersTyped, WorkerTyped
<1>2. CASE PersistFails
  BY <1>2 DEF PersistFails
<1>3. CASE WorkerRemembers
  BY <1>3 DEF WorkerRemembers
<1>4. CASE WorkerEnds
  <2>1. failure' = (failure \/ ~worker.ok)
    BY <1>4 DEF WorkerEnds
  <2> QED
    BY <1>1, <1>4, <2>1
<1>5. failure' = failure \/ PersistFails \/ WorkerRemembers \/ WorkerEnds
  BY DEF LedgerNext, WorkerStep, ledgerVars, threads, RecordCalled, RecordAdds, RecordRaises,
         RecordDeferred, FlushLooks, FlushReturns, CloseCalled, CloseJoins, WorkerWaits,
         WorkerTakes, WorkerStops, ProducerResolved, ProducerUnknown, RepositoryOpened,
         WriteCommits, WriteBusy, WorkerIsInterrupted, WorkerSettles, WorkerClosesRepository
<1> QED
  BY <1>2, <1>3, <1>4, <1>5

LEMMA FailureKnownStep ==
    ASSUME RoomInv, FailureIsKnown, [LedgerNext]_ledgerVars
    PROVE  FailureIsKnown'
<1>1. WorkerTyped /\ WorkerTyped'
  BY RoomStep DEF RoomInv
<1>2. CASE worker' = worker
  BY <1>2, FailureStays DEF FailureIsKnown
<1>3. CASE WorkerTakes
  <2>1. worker'.pc \in {"open", "resolve"}
    <3>1. CASE PopObservation
      BY <1>1, <3>1, PopObservationSound DEF RoomInv, RoomSound, WorkerTyped
    <3>2. CASE PopCandidate
      BY <1>1, <3>2, PopCandidateSound DEF RoomInv, RoomSound, WorkerTyped
    <3>3. ASSUME NEW p \in QueueProducers, PopAdvance(p) PROVE worker'.pc \in {"open", "resolve"}
      BY <1>1, <3>3, PopAdvanceSound DEF RoomInv, RoomSound, WorkerTyped
    <3> QED
      BY <1>3, <3>1, <3>2, <3>3 DEF WorkerTakes
  <2> QED
    BY <2>1 DEF FailureIsKnown
<1>4. CASE ProducerUnknown \/ WriteCommits
  <2>1. worker'.ok
    BY <1>1, <1>4 DEF ProducerUnknown, WriteCommits, Settles, WorkerTyped
  <2> QED
    BY <2>1 DEF FailureIsKnown
<1>5. CASE PersistFails \/ WorkerRemembers
  BY <1>5 DEF PersistFails, WorkerRemembers, FailureIsKnown
<1>6. CASE \/ WorkerStops \/ ProducerResolved \/ RepositoryOpened \/ WriteBusy
           \/ WorkerIsInterrupted \/ WorkerSettles \/ WorkerClosesRepository \/ WorkerEnds
  <2>1. CASE WorkerStops \/ ProducerResolved \/ RepositoryOpened \/ WorkerIsInterrupted
    BY <1>1, <2>1 DEF WorkerStops, ProducerResolved, RepositoryOpened, WorkerIsInterrupted,
           WorkerTyped, FailureIsKnown
  <2>2. CASE WriteBusy
    <3>1. worker'.pc = worker.pc /\ worker.pc \in {"write", "advance"}
      BY <1>1, <2>2 DEF WriteBusy, WorkerTyped
    <3> QED
      BY <3>1 DEF FailureIsKnown
  <2>3. CASE WorkerSettles
    BY <1>1, <2>3 DEF WorkerSettles, WorkerTyped, FailureIsKnown
  <2>4. CASE WorkerClosesRepository \/ WorkerEnds
    BY <1>1, <2>4 DEF WorkerClosesRepository, WorkerEnds, WorkerTyped, FailureIsKnown
  <2> QED
    BY <1>6, <2>1, <2>2, <2>3, <2>4
<1>7. CASE \/ UNCHANGED ledgerVars \/ WorkerWaits
           \/ \E r \in Recorders, v \in Vectors : RecordCalled(r, v)
           \/ \E r \in Recorders, p \in QueueProducers : RecordAdds(r, p)
           \/ \E r \in Recorders : RecordRaises(r)
           \/ \E s \in Scopes, v \in Vectors : RecordDeferred(s, v)
           \/ \E f \in Flushers : FlushLooks(f) \/ FlushReturns(f)
           \/ CloseCalled \/ CloseJoins
  <2>1. worker' = worker
    BY <1>7 DEF ledgerVars, WorkerWaits, RecordCalled, RecordAdds, RecordRaises, RecordDeferred,
                FlushLooks, FlushReturns, CloseCalled, CloseJoins
  <2> QED
    BY <1>2, <2>1
<1> QED
  BY <1>3, <1>4, <1>5, <1>6, <1>7 DEF LedgerNext, WorkerStep

\* Once the worker stops without a failure, the close keeps every caller out.
LEMMA NothingLeftStep ==
    ASSUME RoomInv, FailureIsKnown, NothingIsLeft, [LedgerNext]_ledgerVars
    PROVE  NothingIsLeft'
<1>1. WorkerTyped /\ WorkerTyped'
  BY RoomStep DEF RoomInv
<1>2. ASSUME UNCHANGED <<queue, candidates>>, closing => closing', failure => failure',
             worker.pc \in {"exit", "exited", "done"} \/ worker' = worker
      PROVE  NothingIsLeft'
  BY <1>2 DEF NothingIsLeft, Empty, QueueEmpty
<1>3. CASE WorkerStops
  BY <1>1, <1>3 DEF WorkerStops, NothingIsLeft, Empty, QueueEmpty
<1>4. CASE WorkerTakes
  <2>1. worker'.pc \in {"open", "resolve"}
    <3>1. CASE PopObservation
      BY <1>1, <3>1, PopObservationSound DEF RoomInv, RoomSound, WorkerTyped
    <3>2. CASE PopCandidate
      BY <1>1, <3>2, PopCandidateSound DEF RoomInv, RoomSound, WorkerTyped
    <3>3. ASSUME NEW p \in QueueProducers, PopAdvance(p) PROVE worker'.pc \in {"open", "resolve"}
      BY <1>1, <3>3, PopAdvanceSound DEF RoomInv, RoomSound, WorkerTyped
    <3> QED
      BY <1>4, <3>1, <3>2, <3>3 DEF WorkerTakes
  <2> QED
    BY <2>1 DEF NothingIsLeft
<1>5. CASE \/ ProducerResolved \/ ProducerUnknown \/ RepositoryOpened \/ WriteCommits
           \/ WriteBusy \/ WorkerIsInterrupted
  <2>1. worker'.pc \notin {"exit", "exited", "done"}
    <3>1. CASE ProducerResolved \/ RepositoryOpened \/ WorkerIsInterrupted
      BY <1>1, <3>1 DEF ProducerResolved, RepositoryOpened, WorkerIsInterrupted, WorkerTyped
    <3>2. CASE ProducerUnknown \/ WriteCommits
      <4>1. worker' = Settles
        BY <3>2 DEF ProducerUnknown, WriteCommits
      <4>2. worker'.pc = "settle"
        BY <1>1, <4>1 DEF WorkerTyped, Settles
      <4> QED
        BY <4>2
    <3>3. CASE WriteBusy
      BY <1>1, <3>3 DEF WriteBusy, WorkerTyped
    <3> QED
      BY <1>5, <3>1, <3>2, <3>3
  <2> QED
    BY <2>1 DEF NothingIsLeft
<1>6. CASE PersistFails \/ WorkerRemembers
  BY <1>6 DEF PersistFails, WorkerRemembers, NothingIsLeft
<1>7. CASE WorkerSettles
  <2>1. worker'.pc = "exit" => worker.pc = "settle" /\ ~worker.ok
    BY <1>1, <1>7 DEF WorkerSettles, WorkerTyped
  <2>2. worker'.pc \in {"raised", "look", "exit"}
    BY <1>1, <1>7 DEF WorkerSettles, WorkerTyped
  <2> QED
    BY <2>1, <2>2, FailureStays DEF NothingIsLeft, FailureIsKnown
<1>8. CASE WorkerClosesRepository
  <2>1. UNCHANGED <<queue, candidates, closing, failure>> /\ worker.pc = "exit"
    BY <1>8 DEF WorkerClosesRepository
  <2> QED
    BY <1>2, <2>1
<1>9. CASE WorkerEnds
  <2>1. UNCHANGED <<queue, candidates, closing>> /\ worker.pc = "exited"
    BY <1>9 DEF WorkerEnds
  <2> QED
    BY <1>2, <2>1, FailureStays
<1>10. ASSUME Recording, UNCHANGED <<worker, failure>> PROVE NothingIsLeft'
  BY <1>10 DEF Recording, NothingIsLeft
<1>11. CASE \/ \E r \in Recorders, p \in QueueProducers : RecordAdds(r, p)
            \/ \E s \in Scopes, v \in Vectors : RecordDeferred(s, v)
  BY <1>10, <1>11 DEF RecordAdds, RecordDeferred
<1>12. CASE \/ UNCHANGED ledgerVars \/ WorkerWaits
            \/ \E r \in Recorders, v \in Vectors : RecordCalled(r, v)
            \/ \E r \in Recorders : RecordRaises(r)
            \/ \E f \in Flushers : FlushLooks(f) \/ FlushReturns(f)
            \/ CloseCalled \/ CloseJoins
  <2>1. UNCHANGED <<queue, candidates, worker, failure>> /\ (closing => closing')
    BY <1>12 DEF ledgerVars, WorkerWaits, RecordCalled, RecordRaises,
                 FlushLooks, FlushReturns, CloseCalled, CloseJoins
  <2> QED
    BY <1>2, <2>1
<1> QED
  BY <1>3, <1>4, <1>5, <1>6, <1>7, <1>8, <1>9, <1>11, <1>12 DEF LedgerNext, WorkerStep

LEMMA ClosedDoneStep ==
    ASSUME RoomInv, ClosedIsDone, [LedgerNext]_ledgerVars
    PROVE  ClosedIsDone'
<1>1. worker.pc = "done" => worker' = worker /\ failure' = failure
  BY DEF LedgerNext, WorkerStep, ledgerVars, threads, RecordCalled, RecordAdds, RecordRaises,
         RecordDeferred, FlushLooks, FlushReturns, CloseCalled, CloseJoins, WorkerWaits,
         WorkerTakes, WorkerStops, ProducerResolved, ProducerUnknown, RepositoryOpened,
         WriteCommits, WriteBusy, PersistFails, WorkerIsInterrupted, WorkerSettles,
         WorkerRemembers, WorkerClosesRepository, WorkerEnds
<1>2. closer' = closer \/ closer' = "joining" \/ CloseJoins
  BY DEF LedgerNext, WorkerStep, ledgerVars, threads, RecordCalled, RecordAdds, RecordRaises,
         RecordDeferred, FlushLooks, FlushReturns, CloseCalled, WorkerWaits,
         WorkerTakes, WorkerStops, ProducerResolved, ProducerUnknown, RepositoryOpened,
         WriteCommits, WriteBusy, PersistFails, WorkerIsInterrupted, WorkerSettles,
         WorkerRemembers, WorkerClosesRepository, WorkerEnds
<1>3. CASE CloseJoins
  BY <1>1, <1>3 DEF CloseJoins, ClosedIsDone
<1>4. CASE closer' = closer \/ closer' = "joining"
  BY <1>1, <1>4 DEF ClosedIsDone
<1> QED
  BY <1>2, <1>3, <1>4

LEMMA EndStep == RoomInv /\ EndInv /\ [LedgerNext]_ledgerVars => EndInv'
BY FailureKnownStep, NothingLeftStep, ClosedDoneStep DEF EndInv

-----------------------------------------------------------------------------
(* The order of the occurrences *)

\* Nothing has failed; OccurrencesInOrder, for one channel.
Clean == ~failure /\ worker.pc # "raised"

Orderly(c) ==
    /\ LinedUp(Pending(c), c, accepted[c], Ahead(c))
    /\ InHand.channel = c => StandsFor(InHand, accepted[c], settled[c])

\* The parts of Ahead.
Hand(c) == IF InHand.channel = c THEN InHand.occurrences ELSE 0
Left(c) == IF c \in QueueProducers THEN queue.revisionOnly[c] ELSE 0

LEMMA OrderMeans ==
    /\ OccurrencesInOrder <=> (Clean => \A c \in Channels : Orderly(c))
    /\ \A c : Ahead(c) = settled[c] + Hand(c) + Left(c)
<1>1. OccurrencesInOrder <=> (Clean => \A c \in Channels : Orderly(c))
  BY DEF OccurrencesInOrder, Clean, Orderly
<1>2. \A c : Ahead(c) = settled[c] + Hand(c) + Left(c)
  BY DEF Ahead, Hand, Left
<1> QED
  BY <1>1, <1>2

\* What the worker has in hand, by where it is.
LEMMA HandFacts ==
    ASSUME RoomInv
    PROVE  /\ InHand \in {worker.item, NoItem}
           /\ InHand \in Observations \cup Advances \cup Candidates \cup {NoItem}
           /\ worker.pc \in {"resolve", "open", "write", "advance"} =>
                  InHand = worker.item /\ worker.item # NoItem
           /\ worker.pc \in {"look", "raised", "exit", "exited", "done"} => InHand = NoItem
           /\ worker.pc = "settle" /\ worker.ok => InHand = NoItem
           /\ worker.pc = "interrupted" => InHand = worker.item
<1>1. /\ worker.item \in Observations \cup Advances \cup Candidates \cup {NoItem}
      /\ HoldsItem
  BY DEF RoomInv, WorkerTyped
<1>2. InHand \in {worker.item, NoItem}
  BY DEF InHand
<1>3. worker.pc \in {"resolve", "open", "write", "advance"} =>
          InHand = worker.item /\ worker.item # NoItem
  BY <1>1 DEF InHand, Working, HoldsItem
<1>4. worker.pc \in {"look", "raised", "exit", "exited", "done"} => InHand = NoItem
  BY DEF InHand, Working
<1>5. worker.pc = "settle" /\ worker.ok => InHand = NoItem
  BY DEF InHand
<1>6. worker.pc = "interrupted" => InHand = worker.item
  BY DEF InHand, Working
<1> QED
  BY <1>1, <1>2, <1>3, <1>4, <1>5, <1>6

LEMMA NoItemFacts ==
    /\ NoItem.channel = Nobody /\ NoItem.occurrences = 0 /\ NoItem.value = Nobody
    /\ \A c \in Channels : c # NoItem.channel
BY LimitsAreNumbers DEF NoItem

LEMMA ItemKinds ==
    ASSUME NEW e \in Observations \cup Advances \cup Candidates
    PROVE  e.channel \in Channels /\ e.occurrences \in Nat \ {0}
BY DEF Observations, Advances, Candidates, Channels

LEMMA Numbers ==
    ASSUME RoomInv, NEW c \in Channels
    PROVE  /\ settled[c] \in Nat /\ Hand(c) \in Nat /\ Left(c) \in Nat
           /\ accepted[c] \in Seq(Vectors)
           /\ InHand.occurrences \in Nat
<1>1. settled[c] \in Nat /\ accepted[c] \in Seq(Vectors)
  BY DEF RoomInv, OthersTyped
<1>2. InHand.occurrences \in Nat
  BY HandFacts, ItemKinds, NoItemFacts
<1>3. Hand(c) \in Nat
  BY <1>2 DEF Hand
<1>4. Left(c) \in Nat
  <2>1. queue.revisionOnly \in [QueueProducers -> Nat]
    BY QueueFields DEF RoomInv, RoomSound, QueueSound
  <2> QED
    BY <2>1 DEF Left
<1> QED
  BY <1>1, <1>2, <1>3, <1>4

\* Once nothing is in hand or left, everything accepted has been counted.
LEMMA EmptyIsCounted ==
    ASSUME RoomInv, OccurrencesInOrder, Clean, Empty, InHand = NoItem
    PROVE  AllCounted
<1> SUFFICES ASSUME NEW c \in Channels PROVE settled[c] = Len(accepted[c])
  BY DEF AllCounted
<1>1. LinedUp(Pending(c), c, accepted[c], settled[c] + Hand(c) + Left(c))
  BY OrderMeans DEF Orderly
<1>2. Hand(c) = 0 /\ Left(c) = 0 /\ Pending(c) = <<>>
  BY NoItemFacts DEF Hand, Left, Pending, Empty, QueueEmpty
<1>3. OccurrencesOf(<<>>, c) = 0
  BY EmptyTotal DEF OccurrencesOf, Counts
<1>4. settled[c] \in Nat
  BY Numbers
<1>5. settled[c] + 0 + 0 + OccurrencesOf(<<>>, c) = Len(accepted[c])
  BY <1>1, <1>2, Zenon DEF LinedUp
<1> QED
  BY <1>3, <1>4, <1>5

LEMMA OrderInit == LedgerInit => OccurrencesInOrder
<1> SUFFICES ASSUME LedgerInit PROVE \A c \in Channels : Orderly(c)
  BY OrderMeans
<1>1. RoomInv
  BY RoomInit
<1>2. InHand = NoItem /\ Empty
  BY <1>1, HandFacts, EmptiedSound DEF LedgerInit, Empty, QueueEmpty
<1> TAKE c \in Channels
<1>3. settled[c] = 0 /\ accepted[c] = <<>>
  BY DEF LedgerInit
<1>4. Hand(c) = 0 /\ Left(c) = 0 /\ Pending(c) = <<>>
  BY <1>2, NoItemFacts DEF Hand, Left, Pending, Empty, QueueEmpty
<1>5. OccurrencesOf(<<>>, c) = 0 /\ Len(<<>>) = 0
  BY EmptyTotal DEF OccurrencesOf, Counts
<1>6. Ahead(c) = 0
  BY <1>3, <1>4, OrderMeans
<1>7. LinedUp(<<>>, c, <<>>, 0)
  BY <1>5 DEF LinedUp
<1> QED
  BY <1>2, <1>3, <1>4, <1>6, <1>7, NoItemFacts DEF Orderly

\* A step that changes neither what is queued nor what is in hand.
LEMMA OrderKept ==
    ASSUME OccurrencesInOrder, Clean' => Clean,
           UNCHANGED <<queue, candidates, settled, accepted>>, InHand' = InHand
    PROVE  OccurrencesInOrder'
<1> SUFFICES ASSUME Clean', NEW c \in Channels PROVE Orderly(c)'
  BY OrderMeans DEF OccurrencesInOrder, Clean, Orderly
<1>1. Orderly(c)
  BY OrderMeans
<1>2. Pending(c)' = Pending(c) /\ Ahead(c)' = Ahead(c)
  BY DEF Pending, Ahead
<1>3. LinedUp(Pending(c), c, accepted[c], Ahead(c))'
  <2>1. LinedUp(Pending(c), c, accepted[c], Ahead(c))
    BY <1>1 DEF Orderly
  <2> QED
    BY <1>2, <2>1 DEF LinedUp, OccurrencesOf, Before, Counts
<1>4. (InHand.channel = c => StandsFor(InHand, accepted[c], settled[c]))'
  <2>1. InHand.channel = c => StandsFor(InHand, accepted[c], settled[c])
    BY <1>1 DEF Orderly
  <2> QED
    BY <2>1 DEF StandsFor
<1> QED
  BY <1>3, <1>4 DEF Orderly

\* What is in hand is counted, and no longer ahead of what is queued.
LEMMA SettledInOrder ==
    ASSUME RoomInv, OccurrencesInOrder, ProducerUnknown \/ WriteCommits
    PROVE  OccurrencesInOrder'
<1>1. /\ worker.pc \in {"resolve", "write", "advance"} /\ worker' = Settles /\ ItemSettled
      /\ UNCHANGED <<queue, candidates, failure, accepted>>
  BY DEF ProducerUnknown, WriteCommits
<1>2. InHand = worker.item /\ worker.item # NoItem
  BY <1>1, HandFacts
<1> DEFINE e == worker.item
<1>3. e \in Observations \cup Advances \cup Candidates
  BY <1>2 DEF RoomInv, WorkerTyped
<1>4. e.channel \in Channels /\ e.occurrences \in Nat
  BY <1>3, ItemKinds
<1>5. worker'.pc = "settle" /\ worker'.ok
  BY <1>1 DEF Settles, RoomInv, WorkerTyped
<1>6. InHand' = NoItem
  BY <1>5 DEF InHand
<1>7. settled' = [settled EXCEPT ![e.channel] = @ + e.occurrences] /\ settled \in [Channels -> Nat]
  BY <1>1 DEF ItemSettled, RoomInv, OthersTyped
<1> SUFFICES ASSUME Clean', NEW c \in Channels PROVE Orderly(c)'
  BY OrderMeans DEF OccurrencesInOrder, Clean, Orderly
<1>8. Orderly(c)
  <2>1. Clean
    BY <1>1 DEF Clean
  <2> QED
    BY <2>1, OrderMeans
<1>9. Pending(c)' = Pending(c) /\ Left(c)' = Left(c)
  BY <1>1 DEF Pending, Left
<1>10. settled'[c] = settled[c] + Hand(c) /\ Hand(c)' = 0
  <2>1. c # InHand'.channel
    BY <1>6, NoItemFacts
  <2>2. Hand(c)' = 0
    BY <2>1 DEF Hand
  <2>3. settled[c] \in Nat
    BY <1>7
  <2>4. CASE c = e.channel
    BY <1>2, <1>7, <2>2, <2>4 DEF Hand
  <2>5. CASE c # e.channel
    BY <1>2, <1>7, <2>2, <2>3, <2>5 DEF Hand
  <2> QED
    BY <2>4, <2>5
<1>11. Ahead(c)' = Ahead(c)
  <2>1. Ahead(c)' = settled'[c] + Hand(c)' + Left(c)'
    BY DEF Ahead, Hand, Left
  <2>2. Ahead(c) = settled[c] + Hand(c) + Left(c)
    BY OrderMeans
  <2>3. settled[c] \in Nat /\ Hand(c) \in Nat /\ Left(c) \in Nat
    BY Numbers
  <2> DEFINE h == Hand(c)
             l == Left(c)
             n == settled[c]
  <2>4. Ahead(c)' = (n + h) + 0 + l
    BY <1>9, <1>10, <2>1
  <2> HIDE DEF h, l, n
  <2>5. (n + h) + 0 + l = n + h + l
    BY <2>3 DEF h, l, n
  <2> QED
    BY <2>2, <2>4, <2>5 DEF h, l, n
<1>12. LinedUp(Pending(c), c, accepted[c], Ahead(c))'
  <2>1. LinedUp(Pending(c), c, accepted[c], Ahead(c))
    BY <1>8 DEF Orderly
  <2> QED
    BY <1>1, <1>9, <1>11, <2>1 DEF LinedUp, OccurrencesOf, Before, Counts
<1>13. (InHand.channel # c)'
  BY <1>6, NoItemFacts
<1> QED
  BY <1>12, <1>13 DEF Orderly

\* The worker takes the oldest item of one of the queues, or what was evicted.
LEMMA TakenInOrder ==
    ASSUME RoomInv, OccurrencesInOrder, WorkerTakes
    PROVE  OccurrencesInOrder'
<1>1. /\ worker.pc = "look" /\ UNCHANGED <<failure, settled, accepted>>
      /\ PopObservation \/ PopCandidate \/ \E p \in QueueProducers : PopAdvance(p)
  BY DEF WorkerTakes
<1>2. InHand = NoItem /\ Clean' => Clean
  BY <1>1, HandFacts DEF Clean
<1>3. /\ QueueSound(queue) /\ CandidatesSound(candidates) /\ WorkerTyped
      /\ queue.pending \in Seq(Observations) /\ candidates.pending \in Seq(Candidates)
      /\ queue.revisionOnly \in [QueueProducers -> Nat]
  BY QueueFields, CandidateFields DEF RoomInv, RoomSound, QueueSound, CandidatesSound
<1> SUFFICES ASSUME Clean', NEW c \in Channels PROVE Orderly(c)'
  BY OrderMeans DEF OccurrencesInOrder, Clean, Orderly
<1> DEFINE n == settled[c]
           vs == accepted[c]
           l == Left(c)
<1>4. n \in Nat /\ vs \in Seq(Vectors) /\ l \in Nat
  BY Numbers
<1>5. LinedUp(Pending(c), c, vs, n + l)
  <2>1. LinedUp(Pending(c), c, vs, n + Hand(c) + Left(c))
    BY <1>1, <1>2, OrderMeans DEF Orderly, Clean
  <2>2. Hand(c) = 0
    BY <1>2, NoItemFacts, HandFacts, <1>1 DEF Hand
  <2> HIDE DEF n, l, vs
  <2>3. n + 0 + l = n + l
    BY <1>4
  <2> QED
    BY <2>1, <2>2, <2>3 DEF l
<1>6. ASSUME NEW e, InHand' = e,
             LinedUp(Pending(c)', c, vs, n + (IF e.channel = c THEN e.occurrences ELSE 0) + Left(c)'),
             e.channel = c => StandsFor(e, vs, n)
      PROVE  Orderly(c)'
  <2>1. Ahead(c)' = n + (IF e.channel = c THEN e.occurrences ELSE 0) + Left(c)'
    BY <1>1, <1>6 DEF Ahead, Left
  <2>2. accepted'[c] = vs /\ settled'[c] = n
    BY <1>1
  <2> HIDE DEF vs, n
  <2>3. LinedUp(Pending(c), c, accepted[c], Ahead(c))'
    BY <1>6, <2>1, <2>2 DEF LinedUp, OccurrencesOf, Before, Counts
  <2>4. (InHand.channel = c => StandsFor(InHand, accepted[c], settled[c]))'
    BY <1>6, <2>2 DEF StandsFor
  <2> QED
    BY <2>3, <2>4 DEF Orderly
<1>7. QueueProducers \cap Scopes = {}
  BY LimitsAreNumbers
<1>8. CASE PopObservation
  <2> DEFINE s == queue.pending
             e == Head(s)
  <2>1. /\ s # <<>> /\ queue'.pending = Tail(s) /\ queue'.revisionOnly = queue.revisionOnly
        /\ \A p \in QueueProducers : queue.revisionOnly[p] = 0
        /\ e \in Observations /\ candidates' = candidates
        /\ worker' = [worker EXCEPT !.pc = "open", !.item = e]
    BY <1>3, <1>8, PopObservationSound
  <2>2. worker'.pc = "open" /\ worker'.item = e
    BY <1>3, <2>1 DEF WorkerTyped
  <2>3. InHand' = e
    BY <2>2 DEF InHand, Working
  <2>4. Left(c)' = 0 /\ l = 0
    BY <2>1 DEF Left
  <2>5. CASE c \in QueueProducers
    <3>1. Pending(c) = s /\ Pending(c)' = Tail(s)
      BY <1>7, <2>1, <2>5 DEF Pending
    <3>2. LinedUp(s, c, vs, n)
      <4> HIDE DEF vs, n, l, s
      <4>1. n + 0 = n
        BY <1>4
      <4> QED
        BY <1>5, <2>4, <3>1, <4>1
    <3>3. /\ LinedUp(Tail(s), c, vs, n + (IF e.channel = c THEN e.occurrences ELSE 0))
          /\ e.channel = c => StandsFor(e, vs, n)
      BY <1>3, <1>4, <2>1, <3>2, Carried, TailSound
    <3>4. n + (IF e.channel = c THEN e.occurrences ELSE 0) + 0
              = n + (IF e.channel = c THEN e.occurrences ELSE 0)
      <4>1. e.occurrences \in Nat
        BY <2>1, ItemKinds
      <4> HIDE DEF n, e
      <4> QED
        BY <1>4, <4>1
    <3> HIDE DEF n, e, vs
    <3>5. LinedUp(Pending(c)', c, vs, n + (IF e.channel = c THEN e.occurrences ELSE 0) + Left(c)')
      BY <2>4, <3>1, <3>3, <3>4
    <3> QED
      BY <1>6, <2>3, <3>3, <3>5
  <2>6. CASE c \in Scopes
    <3>1. Pending(c)' = Pending(c)
      BY <2>1, <2>6 DEF Pending
    <3>2. e.channel # c
      BY <1>7, <2>1, <2>6 DEF Observations
    <3> HIDE DEF n, e, vs, l
    <3>3. n + (IF e.channel = c THEN e.occurrences ELSE 0) + Left(c)' = n + l
      BY <1>4, <2>4, <3>2
    <3> QED
      BY <1>5, <1>6, <2>3, <3>1, <3>2, <3>3
  <2> QED
    BY <2>5, <2>6 DEF Channels
<1>9. CASE PopCandidate
  <2> DEFINE s == candidates.pending
             e == Head(s)
  <2>1. /\ s # <<>> /\ candidates'.pending = Tail(s) /\ queue' = queue
        /\ e \in Candidates
        /\ worker' = [worker EXCEPT !.pc = "resolve", !.item = e]
    BY <1>3, <1>9, PopCandidateSound
  <2>2. worker'.pc = "resolve" /\ worker'.item = e
    BY <1>3, <2>1 DEF WorkerTyped
  <2>3. InHand' = e
    BY <2>2 DEF InHand, Working
  <2>4. Left(c)' = l
    BY <2>1 DEF Left
  <2>5. CASE c \in Scopes
    <3>1. Pending(c) = s /\ Pending(c)' = Tail(s) /\ l = 0
      BY <1>7, <2>1, <2>5 DEF Pending, Left
    <3>2. LinedUp(s, c, vs, n)
      <4> HIDE DEF vs, n, l, s
      <4>1. n + 0 = n
        BY <1>4
      <4> QED
        BY <1>5, <3>1, <4>1
    <3>3. /\ LinedUp(Tail(s), c, vs, n + (IF e.channel = c THEN e.occurrences ELSE 0))
          /\ e.channel = c => StandsFor(e, vs, n)
      BY <1>3, <1>4, <2>1, <3>2, Carried, TailSound
    <3>4. n + (IF e.channel = c THEN e.occurrences ELSE 0) + 0
              = n + (IF e.channel = c THEN e.occurrences ELSE 0)
      <4>1. e.occurrences \in Nat
        BY <2>1, ItemKinds
      <4> HIDE DEF n, e
      <4> QED
        BY <1>4, <4>1
    <3> HIDE DEF n, e, vs, l
    <3>5. LinedUp(Pending(c)', c, vs, n + (IF e.channel = c THEN e.occurrences ELSE 0) + Left(c)')
      BY <2>4, <3>1, <3>3, <3>4
    <3> QED
      BY <1>6, <2>3, <3>3, <3>5
  <2>6. CASE c \in QueueProducers
    <3>1. Pending(c)' = Pending(c)
      BY <1>7, <2>1, <2>6 DEF Pending
    <3>2. e.channel # c
      BY <1>7, <2>1, <2>6 DEF Candidates
    <3> HIDE DEF n, e, vs, l
    <3>3. n + (IF e.channel = c THEN e.occurrences ELSE 0) + Left(c)' = n + l
      BY <1>4, <2>4, <3>2
    <3> QED
      BY <1>5, <1>6, <2>3, <3>1, <3>2, <3>3
  <2> QED
    BY <2>5, <2>6 DEF Channels
<1>10. ASSUME NEW p \in QueueProducers, PopAdvance(p) PROVE Orderly(c)'
  <2> DEFINE e == Item("advance", p, Nobody, queue.revisionOnly[p])
  <2>1. /\ queue'.pending = queue.pending /\ candidates' = candidates
        /\ queue'.revisionOnly = [queue.revisionOnly EXCEPT ![p] = 0]
        /\ worker' = [worker EXCEPT !.pc = "open", !.item = e]
    BY <1>3, <1>10, PopAdvanceSound
  <2>2. e.channel = p /\ e.occurrences = queue.revisionOnly[p] /\ e.value = Nobody
    BY DEF Item
  <2> HIDE DEF e
  <2>3. worker'.pc = "open" /\ worker'.item = e
    BY <1>3, <2>1 DEF WorkerTyped
  <2>4. InHand' = e
    BY <2>3 DEF InHand, Working
  <2>5. Pending(c)' = Pending(c)
    BY <2>1 DEF Pending
  <2>6. (IF e.channel = c THEN e.occurrences ELSE 0) + Left(c)' = l
    <3>1. CASE c = p
      BY <1>3, <1>4, <2>1, <2>2, <3>1 DEF Left
    <3>2. CASE c # p
      BY <1>3, <1>4, <2>1, <2>2, <3>2 DEF Left
    <3> QED
      BY <3>1, <3>2
  <2>7. (IF e.channel = c THEN e.occurrences ELSE 0) \in Nat /\ Left(c)' \in Nat
    BY <1>3, <2>1, <2>2 DEF Left
  <2> DEFINE h == IF e.channel = c THEN e.occurrences ELSE 0
             m == Left(c)'
  <2>8. n + h + m = n + l
    <3> HIDE DEF n, h, m, l
    <3>1. h \in Nat /\ m \in Nat /\ h + m = l
      BY <2>6, <2>7 DEF h, m
    <3> QED
      BY <1>4, <3>1
  <2>9. StandsFor(e, vs, n)
    BY <2>2 DEF StandsFor
  <2> HIDE DEF n, l, vs, m, h
  <2>10. LinedUp(Pending(c)', c, vs, n + h + m)
    BY <1>5, <2>5, <2>8
  <2> QED
    BY <1>6, <2>4, <2>9, <2>10 DEF h, m
<1> QED
  BY <1>1, <1>8, <1>9, <1>10

\* What is in hand stands for vectors that were accepted before.
LEMMA HandStands ==
    ASSUME RoomInv, NEW c \in Channels, Orderly(c), InHand.channel = c, NEW v \in Vectors
    PROVE  StandsFor(InHand, Append(accepted[c], v), settled[c])
<1> DEFINE n == settled[c]
           vs == accepted[c]
           h == InHand.occurrences
           l == Left(c)
           k == OccurrencesOf(Pending(c), c)
<1>1. n \in Nat /\ h \in Nat /\ l \in Nat /\ vs \in Seq(Vectors) /\ Hand(c) = h
  BY Numbers DEF Hand
<1>2. k \in Nat
  <2>1. queue.pending \in Seq(Observations) /\ candidates.pending \in Seq(Candidates)
    BY QueueFields, CandidateFields DEF RoomInv, RoomSound, QueueSound, CandidatesSound
  <2>2. CASE c \in Scopes
    BY <2>1, <2>2, Carried, CountsFacts DEF Pending
  <2>3. CASE c \notin Scopes
    BY <2>1, <2>3, Carried, CountsFacts DEF Pending
  <2> QED
    BY <2>2, <2>3
<1>3. n + h + l + k = Len(vs)
  <2>1. Ahead(c) = n + h + l
    BY <1>1, OrderMeans
  <2>2. Ahead(c) + k = Len(vs)
    BY DEF Orderly, LinedUp
  <2> QED
    BY <2>1, <2>2
<1>4. StandsFor(InHand, vs, n)
  BY DEF Orderly
<1>5. Len(vs) \in Nat
  BY <1>1, SeqFacts
<1>6. n + h <= Len(vs)
  <2> HIDE DEF n, h, l, k, vs
  <2> QED
    BY <1>1, <1>2, <1>3, <1>5
<1> QED
  BY <1>1, <1>4, <1>6, StandsLonger

\* One occurrence is accepted, and one of the queues takes it.
LEMMA AddedInOrder ==
    ASSUME RoomInv, OccurrencesInOrder, NEW a \in Channels, NEW v \in Vectors, Accept(a, v),
           UNCHANGED <<worker, failure, settled>>,
           \A c \in Channels : \A n \in Nat, vs \in Seq(Vectors) :
               LinedUp(Pending(c), c, vs, n + Left(c)) =>
                   LinedUp(Pending(c)', c, IF c = a THEN Append(vs, v) ELSE vs, n + Left(c)')
    PROVE  OccurrencesInOrder'
<1> SUFFICES ASSUME Clean', NEW c \in Channels PROVE Orderly(c)'
  BY OrderMeans DEF OccurrencesInOrder, Clean, Orderly
<1>1. Orderly(c)
  BY OrderMeans DEF Clean
<1> DEFINE n == settled[c] + Hand(c)
           vs == accepted[c]
           ws == IF c = a THEN Append(vs, v) ELSE vs
<1>2. settled[c] \in Nat /\ Hand(c) \in Nat /\ vs \in Seq(Vectors)
  BY Numbers
<1>3. n \in Nat
  BY <1>2
<1>4. LinedUp(Pending(c), c, vs, n + Left(c))
  BY <1>1, OrderMeans DEF Orderly
<1>5. LinedUp(Pending(c)', c, ws, n + Left(c)')
  BY <1>2, <1>3, <1>4
<1>6. accepted'[c] = ws
  <2>1. accepted' = [accepted EXCEPT ![a] = Append(@, v)] /\ accepted \in [Channels -> Seq(Vectors)]
    BY DEF Accept, RoomInv, OthersTyped
  <2> QED
    BY <2>1
<1>7. InHand' = InHand /\ settled'[c] = settled[c]
  BY DEF InHand, Working
<1>8. Ahead(c)' = n + Left(c)'
  BY <1>7 DEF Ahead, Hand, Left
<1>9. LinedUp(Pending(c), c, accepted[c], Ahead(c))'
  BY <1>5, <1>6, <1>8 DEF LinedUp, OccurrencesOf, Before, Counts
<1>10. ASSUME InHand.channel = c PROVE StandsFor(InHand, ws, settled[c])
  <2>1. StandsFor(InHand, Append(vs, v), settled[c])
    BY <1>1, <1>10, HandStands
  <2>2. StandsFor(InHand, vs, settled[c])
    BY <1>1, <1>10 DEF Orderly
  <2> QED
    BY <2>1, <2>2
<1>11. (InHand.channel = c => StandsFor(InHand, accepted[c], settled[c]))'
  <2> HIDE DEF ws
  <2> QED
    BY <1>6, <1>7, <1>10 DEF StandsFor
<1> QED
  BY <1>9, <1>11 DEF Orderly

LEMMA RecordedInOrder ==
    ASSUME RoomInv, OccurrencesInOrder, NEW r \in Recorders, NEW p \in QueueProducers,
           RecordAdds(r, p)
    PROVE  OccurrencesInOrder'
<1> DEFINE v == recorder[r]
<1>1. /\ queue' = Add(p, v) /\ Accept(p, v) /\ v # Nobody
      /\ UNCHANGED <<candidates, worker, failure, settled>>
  BY DEF RecordAdds
<1>2. v \in Vectors /\ p \in Channels
  BY <1>1 DEF RoomInv, OthersTyped, Channels
<1>3. /\ QueueSound(queue) /\ queue.bytes <= MaxBytes /\ Len(queue.pending) <= MaxPending
  BY DEF RoomInv, RoomSound
<1> HIDE DEF v
<1>4. ASSUME NEW c \in Channels, NEW n \in Nat, NEW vs \in Seq(Vectors),
             LinedUp(Pending(c), c, vs, n + Left(c))
      PROVE  LinedUp(Pending(c)', c, IF c = p THEN Append(vs, v) ELSE vs, n + Left(c)')
  <2>1. CASE c \in QueueProducers
    <3>1. c \notin Scopes
      BY <2>1, LimitsAreNumbers
    <3>2. /\ Pending(c) = queue.pending /\ Left(c) = queue.revisionOnly[c]
          /\ Pending(c)' = queue'.pending /\ Left(c)' = queue'.revisionOnly[c]
      BY <2>1, <3>1 DEF Pending, Left
    <3>3. LinedUp(Add(p, v).pending, c, IF c = p THEN Append(vs, v) ELSE vs,
                  n + Add(p, v).revisionOnly[c])
      BY <1>2, <1>3, <1>4, <2>1, <3>2, AddSound
    <3> QED
      BY <1>1, <3>2, <3>3
  <2>2. CASE c \in Scopes
    <3>1. c # p /\ c \notin QueueProducers
      BY <2>2, LimitsAreNumbers
    <3>2. Pending(c)' = Pending(c) /\ Left(c)' = Left(c)
      BY <1>1, <2>2, <3>1 DEF Pending, Left
    <3> QED
      BY <1>4, <3>1, <3>2
  <2> QED
    BY <2>1, <2>2 DEF Channels
<1> QED
  BY <1>1, <1>2, <1>4, AddedInOrder

LEMMA DeferredInOrder ==
    ASSUME RoomInv, OccurrencesInOrder, NEW s \in Scopes, NEW v \in Vectors, RecordDeferred(s, v)
    PROVE  OccurrencesInOrder'
<1>1. /\ candidates' = AddCandidate(s, v) /\ Accept(s, v) /\ CandidatesAdmit(s, v)
      /\ UNCHANGED <<queue, worker, failure, settled>>
  BY DEF RecordDeferred
<1>2. s \in Channels
  BY DEF Channels
<1>3. CandidatesSound(candidates) /\ candidates.bytes <= MaxBytes
  BY DEF RoomInv, RoomSound
<1>4. ASSUME NEW c \in Channels, NEW n \in Nat, NEW vs \in Seq(Vectors),
             LinedUp(Pending(c), c, vs, n + Left(c))
      PROVE  LinedUp(Pending(c)', c, IF c = s THEN Append(vs, v) ELSE vs, n + Left(c)')
  <2>1. Left(c)' = Left(c)
    BY <1>1 DEF Left
  <2>2. CASE c \in Scopes
    <3>1. c \notin QueueProducers
      BY <2>2, LimitsAreNumbers
    <3>2. /\ Pending(c) = candidates.pending /\ Left(c) = 0
          /\ Pending(c)' = candidates'.pending
      BY <2>2, <3>1 DEF Pending, Left
    <3>3. n + 0 = n
      OBVIOUS
    <3>4. LinedUp(candidates.pending, c, vs, n)
      BY <1>4, <3>2, <3>3
    <3>5. LinedUp(AddCandidate(s, v).pending, c, IF c = s THEN Append(vs, v) ELSE vs, n)
      BY <1>1, <1>3, <2>2, <3>4, AddCandidateSound
    <3> QED
      BY <1>1, <2>1, <3>2, <3>3, <3>5
  <2>3. CASE c \notin Scopes
    <3>1. Pending(c)' = Pending(c) /\ c # s
      BY <1>1, <2>3 DEF Pending
    <3> QED
      BY <1>4, <2>1, <3>1
  <2> QED
    BY <2>2, <2>3
<1> QED
  BY <1>1, <1>2, <1>4, AddedInOrder

LEMMA OrderStep ==
    ASSUME RoomInv, EndInv, OccurrencesInOrder, [LedgerNext]_ledgerVars
    PROVE  OccurrencesInOrder'
<1>1. RoomInv' /\ WorkerTyped /\ WorkerTyped'
  BY RoomStep DEF RoomInv
<1>2. ASSUME failure' \/ worker'.pc = "raised" PROVE OccurrencesInOrder'
  BY <1>2 DEF OccurrencesInOrder
<1>3. CASE \/ UNCHANGED ledgerVars \/ WorkerWaits
           \/ \E r \in Recorders, v \in Vectors : RecordCalled(r, v)
           \/ \E r \in Recorders : RecordRaises(r)
           \/ \E f \in Flushers : FlushLooks(f) \/ FlushReturns(f)
           \/ CloseCalled \/ CloseJoins
  <2>1. UNCHANGED <<queue, candidates, worker, failure, settled, accepted>>
    BY <1>3 DEF ledgerVars, WorkerWaits, RecordCalled, RecordRaises,
                FlushLooks, FlushReturns, CloseCalled, CloseJoins
  <2>2. InHand' = InHand /\ (Clean' => Clean)
    BY <2>1 DEF InHand, Working, Clean
  <2> QED
    BY <2>1, <2>2, OrderKept
<1>4. CASE ProducerUnknown \/ WriteCommits
  BY <1>4, SettledInOrder
<1>5. CASE WorkerTakes
  BY <1>5, TakenInOrder
<1>6. CASE PersistFails \/ WorkerRemembers
  BY <1>2, <1>6 DEF PersistFails, WorkerRemembers
<1>7. CASE WorkerSettles
  <2>1. CASE worker.pc = "interrupted"
    <3>1. worker'.pc = "raised"
      BY <1>1, <1>7, <2>1 DEF WorkerSettles, WorkerTyped
    <3> QED
      BY <1>2, <3>1
  <2>2. CASE worker.pc = "settle" /\ ~worker.ok
    BY <1>2, <2>2, FailureStays DEF EndInv, FailureIsKnown
  <2>3. CASE worker.pc = "settle" /\ worker.ok
    <3>1. worker'.pc = "look"
      BY <1>1, <1>7, <2>3 DEF WorkerSettles, WorkerTyped
    <3>2. InHand = NoItem /\ InHand' = NoItem
      BY <2>3, <3>1 DEF InHand, Working
    <3>3. UNCHANGED <<queue, candidates, failure, settled, accepted>>
      BY <1>7, <2>3 DEF WorkerSettles
    <3> QED
      BY <2>3, <3>2, <3>3, OrderKept DEF Clean
  <2> QED
    BY <1>7, <2>1, <2>2, <2>3 DEF WorkerSettles
<1>8. CASE WorkerStops
  <2>1. worker.pc = "look" /\ worker'.pc = "exit"
    BY <1>1, <1>8 DEF WorkerStops, WorkerTyped
  <2>2. InHand = NoItem /\ InHand' = NoItem
    BY <2>1 DEF InHand, Working
  <2>3. UNCHANGED <<queue, candidates, failure, settled, accepted>>
    BY <1>8 DEF WorkerStops
  <2> QED
    BY <2>1, <2>2, <2>3, OrderKept DEF Clean
<1>9. CASE WorkerClosesRepository \/ WorkerEnds
  <2>1. worker.pc \in {"exit", "exited"} /\ worker'.pc \in {"exited", "done"}
    BY <1>1, <1>9, ZenonT(40) DEF WorkerClosesRepository, WorkerEnds, WorkerTyped
  <2>2. InHand = NoItem /\ InHand' = NoItem
    BY <2>1 DEF InHand, Working
  <2>3. UNCHANGED <<queue, candidates, settled, accepted>>
    BY <1>9 DEF WorkerClosesRepository, WorkerEnds
  <2> QED
    BY <2>1, <2>2, <2>3, FailureStays, OrderKept DEF Clean
<1>10. CASE ProducerResolved \/ RepositoryOpened \/ WriteBusy \/ WorkerIsInterrupted
  <2>1. /\ worker.pc \in {"resolve", "open", "write", "advance"}
        /\ UNCHANGED <<queue, candidates, failure, settled, accepted>>
    BY <1>10 DEF ProducerResolved, RepositoryOpened, WriteBusy, WorkerIsInterrupted
  <2>2. /\ worker'.item = worker.item
        /\ worker'.pc \in {"open", "write", "advance", "interrupted"}
    <3>1. CASE ProducerResolved \/ RepositoryOpened \/ WorkerIsInterrupted
      BY <1>1, <3>1 DEF ProducerResolved, RepositoryOpened, WorkerIsInterrupted, WorkerTyped
    <3>2. CASE WriteBusy
      BY <1>1, <3>2 DEF WriteBusy, WorkerTyped
    <3> QED
      BY <1>10, <3>1, <3>2
  <2>3. InHand = worker.item /\ InHand' = worker.item
    BY <2>1, <2>2 DEF InHand, Working
  <2> QED
    BY <2>1, <2>3, OrderKept DEF Clean
<1>11. CASE \E r \in Recorders, p \in QueueProducers : RecordAdds(r, p)
  BY <1>11, RecordedInOrder
<1>12. CASE \E s \in Scopes, v \in Vectors : RecordDeferred(s, v)
  BY <1>12, DeferredInOrder
<1> QED
  BY <1>3, <1>4, <1>5, <1>6, <1>7, <1>8, <1>9, <1>10, <1>11, <1>12 DEF LedgerNext, WorkerStep

-----------------------------------------------------------------------------
(* Theorems *)

LedgerInv == RoomInv /\ WakeInv /\ EndInv /\ OccurrencesInOrder

LEMMA LedgerInvInit == LedgerInit => LedgerInv
BY RoomInit, WakeInit, EndInit, OrderInit DEF LedgerInv

LEMMA LedgerInvStep == LedgerInv /\ [LedgerNext]_ledgerVars => LedgerInv'
BY RoomStep, WakeStep, EndStep, OrderStep DEF LedgerInv

\* The values of the ledger keep their types, its queues hold items of their own
\* kind, and no attempt exceeds MAX_PERSISTENCE_ATTEMPTS (ledger.py:34-84).
THEOREM LedgerTypes == LedgerSpec => []LedgerTypeOK
<1>1. LedgerInv => LedgerTypeOK
  BY RoomInvMeans DEF LedgerInv
<1> QED
  BY LedgerInvInit, LedgerInvStep, <1>1, PTL DEF LedgerSpec

\* Whatever thread notify chooses, the worker never sleeps while something is
\* queued or the ledger closes (ledger.py:121, 141, 155, 166).
THEOREM WorkerIsWoken == LedgerSpec => []WorkerNeverStranded
<1>1. LedgerInv => WorkerNeverStranded
  BY DEF LedgerInv, WakeInv
<1> QED
  BY LedgerInvInit, LedgerInvStep, <1>1, PTL DEF LedgerSpec

\* No flush waits for an idle ledger (ledger.py:143-148, 180).
THEOREM FlushIsWoken == LedgerSpec => []FlushNeverStranded
<1>1. LedgerInv => FlushNeverStranded
  BY DEF LedgerInv, WakeInv
<1> QED
  BY LedgerInvInit, LedgerInvStep, <1>1, PTL DEF LedgerSpec

\* Until something fails, whatever was merged, evicted or taken, the items of
\* each channel stand for its uncounted occurrences, each once and in the order
\* in which they were accepted (queue.py:44-102, candidates.py, ledger.py:157-183).
THEOREM OccurrencesStayInOrder == LedgerSpec => []OccurrencesInOrder
<1>1. LedgerInv => OccurrencesInOrder
  BY DEF LedgerInv
<1> QED
  BY LedgerInvInit, LedgerInvStep, <1>1, PTL DEF LedgerSpec

\* The byte and producer counters of both queues are those of what is in them,
\* the bounds hold, and a close that reports no failure leaves nothing uncounted
\* (queue.py:31-109, candidates.py, ledger.py:150-166, 185-200).
THEOREM QueuesStayDrained == LedgerSpec => []QueuesAreDrained
<1>1. LedgerInv => QueuesAreDrained
  <2> SUFFICES ASSUME LedgerInv PROVE QueuesAreDrained
    OBVIOUS
  <2>1. RoomIsAccounted
    BY RoomInvMeans DEF LedgerInv
  <2>2. ASSUME closer = "ok" PROVE AllCounted
    <3>1. worker.pc = "done" /\ ~failure /\ Empty
      BY <2>2 DEF LedgerInv, EndInv, ClosedIsDone, NothingIsLeft
    <3>2. InHand = NoItem /\ Clean
      BY <3>1 DEF InHand, Working, Clean
    <3> QED
      BY <3>1, <3>2, EmptyIsCounted DEF LedgerInv
  <2> QED
    BY <2>1, <2>2 DEF QueuesAreDrained, CloseDrains
<1> QED
  BY LedgerInvInit, LedgerInvStep, <1>1, PTL DEF LedgerSpec

\* Without a BaseException in the worker, a flush that returns normally has had
\* every accepted occurrence counted (ledger.py:143-148).
THEOREM FlushesCount == WorkerInterrupted = FALSE => (LedgerSpec => FlushMeansCounted)
<1> SUFFICES ASSUME WorkerInterrupted = FALSE PROVE LedgerSpec => FlushMeansCounted
  OBVIOUS
<1> DEFINE Uninterrupted == worker.pc \notin {"interrupted", "raised"}
           Counts1 == \A f \in Flushers : flusher[f] # "ok" /\ flusher'[f] = "ok" => AllCounted
<1>1. LedgerInit => Uninterrupted
  BY DEF LedgerInit
<1>2. LedgerInv /\ Uninterrupted /\ [LedgerNext]_ledgerVars => Uninterrupted'
  <2> SUFFICES ASSUME LedgerInv, Uninterrupted, [LedgerNext]_ledgerVars PROVE Uninterrupted'
    OBVIOUS
  <2>1. WorkerTyped /\ RoomSound /\ ~WorkerIsInterrupted
    BY DEF LedgerInv, RoomInv, WorkerIsInterrupted
  <2>2. CASE WorkerTakes
    <3>1. CASE PopObservation
      BY <2>1, <3>1, PopObservationSound DEF RoomSound, WorkerTyped
    <3>2. CASE PopCandidate
      BY <2>1, <3>2, PopCandidateSound DEF RoomSound, WorkerTyped
    <3>3. ASSUME NEW p \in QueueProducers, PopAdvance(p) PROVE Uninterrupted'
      BY <2>1, <3>3, PopAdvanceSound DEF RoomSound, WorkerTyped
    <3> QED
      BY <2>2, <3>1, <3>2, <3>3 DEF WorkerTakes
  <2>3. CASE ProducerUnknown \/ WriteCommits \/ PersistFails
    <3>1. worker' = Settles \/ worker' = Fails
      BY <2>3 DEF ProducerUnknown, WriteCommits, PersistFails
    <3> QED
      BY <2>1, <3>1 DEF Settles, Fails, WorkerTyped
  <2>4. CASE ProducerResolved \/ RepositoryOpened \/ WorkerStops \/ WorkerRemembers \/ WorkerEnds
    BY <2>1, <2>4 DEF ProducerResolved, RepositoryOpened, WorkerStops, WorkerRemembers, WorkerEnds,
                      WorkerTyped
  <2>5. CASE WriteBusy
    BY <2>1, <2>5 DEF WriteBusy, WorkerTyped
  <2>6. CASE WorkerSettles
    BY <2>1, <2>6 DEF WorkerSettles, WorkerTyped
  <2>7. CASE WorkerClosesRepository
    BY <2>1, <2>7 DEF WorkerClosesRepository, WorkerTyped
  <2>8. CASE \/ UNCHANGED ledgerVars \/ WorkerWaits
             \/ \E r \in Recorders, v \in Vectors : RecordCalled(r, v)
             \/ \E r \in Recorders, p \in QueueProducers : RecordAdds(r, p)
             \/ \E r \in Recorders : RecordRaises(r)
             \/ \E s \in Scopes, v \in Vectors : RecordDeferred(s, v)
             \/ \E f \in Flushers : FlushLooks(f) \/ FlushReturns(f)
             \/ CloseCalled \/ CloseJoins
    BY <2>8 DEF ledgerVars, WorkerWaits, RecordCalled, RecordAdds, RecordRaises, RecordDeferred,
                FlushLooks, FlushReturns, CloseCalled, CloseJoins
  <2> QED
    BY <2>1, <2>2, <2>3, <2>4, <2>5, <2>6, <2>7, <2>8 DEF LedgerNext, WorkerStep
<1>3. LedgerInv /\ Uninterrupted /\ [LedgerNext]_ledgerVars => Counts1
  <2> SUFFICES ASSUME LedgerInv, Uninterrupted, [LedgerNext]_ledgerVars,
                      NEW f \in Flushers, flusher[f] # "ok", flusher'[f] = "ok"
               PROVE  AllCounted
    OBVIOUS
  <2>1. flusher \in [Flushers -> {"idle", "wait", "ok", "raised"}]
    BY DEF LedgerInv, RoomInv, OthersTyped
  <2>2. PICK g \in Flushers : FlushLooks(g) \/ FlushReturns(g)
    BY DEF LedgerNext, WorkerStep, ledgerVars, threads, RecordCalled, RecordAdds, RecordRaises,
           RecordDeferred, CloseCalled, CloseJoins, WorkerWaits,
           WorkerTakes, WorkerStops, ProducerResolved, ProducerUnknown, RepositoryOpened,
           WriteCommits, WriteBusy, PersistFails, WorkerIsInterrupted, WorkerSettles,
           WorkerRemembers, WorkerClosesRepository, WorkerEnds
  <2>3. Empty /\ ~Working /\ ~failure
    BY <2>1, <2>2 DEF FlushLooks, FlushReturns
  <2>4. InHand = NoItem /\ Clean
    BY <2>3 DEF InHand, Clean
  <2> QED
    BY <2>3, <2>4, EmptyIsCounted DEF LedgerInv
<1>4. LedgerSpec => [][Counts1]_ledgerVars
  <2> HIDE DEF Uninterrupted, Counts1
  <2> QED
    BY <1>1, <1>2, <1>3, LedgerInvInit, LedgerInvStep, PTL DEF LedgerSpec
<1> QED
  BY <1>4 DEF FlushMeansCounted

-----------------------------------------------------------------------------
(* The tables of ObservationHistory *)

USE HistoryAssumption

PlanSet == [pc : {"idle", "planned", "prepared", "published", "kept"},
            producer : Producers \cup {None}, captured : Revisions]

\* What the steps need to know of the types.
RevisionsTyped ==
    /\ revision \in [Producers -> Revisions]
    /\ plan \in [Plans -> PlanSet]
    /\ evidence \in [Plans -> BOOLEAN]
    /\ pruned \in [Plans -> BOOLEAN]
    /\ \A x \in Plans : plan[x].pc # "idle" => plan[x].producer \in Producers

\* The inductive invariant: the captured revision stays one of the producer,
\* and detects, from the capture on.
CaptureHolds(x) ==
    plan[x].pc # "idle" /\ ~pruned[x] => CapturedKnown(x) /\ Detects(x)

EvidenceInv == RevisionsTyped /\ \A x \in Plans : CaptureHolds(x)

-----------------------------------------------------------------------------
LEMMA NoPlanType == NoPlan \in PlanSet
BY DEF NoPlan, PlanSet, Revisions

LEMMA PlanFields ==
    ASSUME NEW y \in PlanSet, NEW pc \in {"prepared", "published", "kept"}
    PROVE  /\ [y EXCEPT !.pc = pc] \in PlanSet
           /\ [y EXCEPT !.pc = pc].producer = y.producer
           /\ [y EXCEPT !.pc = pc].captured = y.captured
BY DEF PlanSet

\* A plan that goes on keeps its producer and the revision that it captured.
LEMMA PlanGoesOn ==
    ASSUME EvidenceInv, NEW x \in Plans, plan[x].pc # "idle",
           NEW pc \in {"prepared", "published", "kept"},
           plan' = [plan EXCEPT ![x].pc = pc],
           UNCHANGED <<revision, history>>
    PROVE  EvidenceInv'
<1> DEFINE y == [plan[x] EXCEPT !.pc = pc]
<1>1. plan[x] \in PlanSet
  BY DEF EvidenceInv, RevisionsTyped
<1>2. y \in PlanSet /\ y.producer = plan[x].producer /\ y.captured = plan[x].captured
  BY <1>1, PlanFields
<1>3. plan' = [plan EXCEPT ![x] = y]
  OBVIOUS
<1> HIDE DEF y
<1>4. RevisionsTyped'
  BY <1>2, <1>3 DEF EvidenceInv, RevisionsTyped, history
<1>5. ASSUME NEW z \in Plans PROVE CaptureHolds(z)'
  BY <1>2, <1>3 DEF EvidenceInv, RevisionsTyped, CaptureHolds, CapturedKnown, Detects, history
<1> QED
  BY <1>4, <1>5 DEF EvidenceInv

\* A larger revision together with its evidence.
LEMMA RevisionGrows ==
    ASSUME EvidenceInv, NEW p \in Producers, NEW n \in Occurrences,
           revision[p] + n <= MaxRevision,
           revision' = [revision EXCEPT ![p] = @ + n],
           Evidence(p), UNCHANGED <<plan, pruned>>
    PROVE  EvidenceInv'
<1>1. n \in Nat \ {0} /\ revision[p] \in Nat /\ revision[p] + n \in Revisions
  BY DEF EvidenceInv, RevisionsTyped, Revisions
<1>2. RevisionsTyped'
  BY <1>1 DEF EvidenceInv, RevisionsTyped, Evidence
<1>3. ASSUME NEW x \in Plans PROVE CaptureHolds(x)'
  <2>1. SUFFICES ASSUME plan[x].pc # "idle", ~pruned[x]
                 PROVE  CapturedKnown(x)' /\ Detects(x)'
    BY DEF CaptureHolds
  <2>2. /\ plan[x].producer \in Producers
        /\ plan[x].captured \in Nat
        /\ revision \in [Producers -> Nat]
    <3>1. plan[x] \in PlanSet /\ revision \in [Producers -> Revisions]
      BY DEF EvidenceInv, RevisionsTyped
    <3>2. plan[x].producer \in Producers
      BY <2>1 DEF EvidenceInv, RevisionsTyped
    <3>3. plan[x].captured \in Nat
      BY <3>1 DEF PlanSet, Revisions
    <3> QED
      BY <3>1, <3>2, <3>3 DEF Revisions
  <2>3. CapturedKnown(x) /\ Detects(x)
    BY <2>1 DEF EvidenceInv, CaptureHolds
  <2>4. CASE plan[x].producer = p
    <3>1. revision'[p] >= plan[x].captured /\ revision'[p] > plan[x].captured
      BY <1>1, <2>2, <2>3, <2>4 DEF CapturedKnown
    <3>2. evidence'[x] = TRUE
      BY <2>1, <2>4, Zenon DEF Evidence
    <3> QED
      BY <2>4, <3>1, <3>2 DEF CapturedKnown, Detects
  <2>5. CASE plan[x].producer # p
    <3>1. revision'[plan[x].producer] = revision[plan[x].producer]
      BY <2>2, <2>5
    <3>2. evidence'[x] = evidence[x]
      <4>1. evidence'[x] = (evidence[x] \/ (plan[x].producer = p /\ plan[x].pc # "idle"))
        BY DEF Evidence
      <4>2. evidence[x] \in BOOLEAN
        BY DEF EvidenceInv, RevisionsTyped
      <4> QED
        BY <2>5, <4>1, <4>2
    <3> QED
      BY <2>3, <3>1, <3>2 DEF CapturedKnown, Detects
  <2> QED
    BY <2>4, <2>5
<1> QED
  BY <1>2, <1>3 DEF EvidenceInv

-----------------------------------------------------------------------------
LEMMA EvidenceInit == Init => EvidenceInv
BY NoPlanType DEF Init, EvidenceInv, RevisionsTyped, CaptureHolds, NoPlan, Revisions

LEMMA EvidenceStep == EvidenceInv /\ [Next]_vars => EvidenceInv'
<1> SUFFICES ASSUME EvidenceInv, [Next]_vars PROVE EvidenceInv'
  OBVIOUS
<1>1. ASSUME NEW p \in Producers, NEW v \in Values, NEW n \in Occurrences,
             NEW limits \in Limits, Record(p, v, n, limits)
      PROVE  EvidenceInv'
  BY <1>1, RevisionGrows DEF Record
<1>2. ASSUME NEW p \in Producers, NEW n \in Occurrences, Advance(p, n)
      PROVE  EvidenceInv'
  BY <1>2, RevisionGrows DEF Advance
<1>3. ASSUME NEW p \in Producers, Clear(p) PROVE EvidenceInv'
  BY <1>3 DEF Clear, EvidenceInv, RevisionsTyped, CaptureHolds, CapturedKnown, Detects, history
<1>4. ASSUME NEW x \in Plans, NEW p \in Producers, Capture(x, p) PROVE EvidenceInv'
  <2> DEFINE y == [pc |-> "planned", producer |-> p, captured |-> revision[p]]
  <2>1. revision[p] \in Revisions /\ revision[p] \in Nat
    BY DEF EvidenceInv, RevisionsTyped, Revisions
  <2>2. y \in PlanSet /\ y.producer = p /\ y.captured = revision[p] /\ y.pc = "planned"
    BY <2>1 DEF PlanSet
  <2>3. /\ plan' = [plan EXCEPT ![x] = y]
        /\ evidence' = [evidence EXCEPT ![x] = FALSE]
        /\ pruned' = [pruned EXCEPT ![x] = FALSE]
        /\ revision' = revision
    BY <1>4 DEF Capture, tables
  <2> HIDE DEF y
  <2>4. RevisionsTyped'
    BY <2>2, <2>3 DEF EvidenceInv, RevisionsTyped
  <2>5. ASSUME NEW z \in Plans PROVE CaptureHolds(z)'
    BY <2>1, <2>2, <2>3
       DEF EvidenceInv, RevisionsTyped, CaptureHolds, CapturedKnown, Detects
  <2> QED
    BY <2>4, <2>5 DEF EvidenceInv
<1>5. ASSUME NEW x \in Plans, CommitStates(x) PROVE EvidenceInv'
  BY <1>5, PlanGoesOn DEF CommitStates
<1>6. ASSUME NEW x \in Plans, CommitGeneration(x) PROVE EvidenceInv'
  BY <1>6, PlanGoesOn DEF CommitGeneration
<1>7. ASSUME NEW x \in Plans, Release(x) PROVE EvidenceInv'
  <2>1. CASE plan[x].pc = "planned"
    <3>1. plan' = [plan EXCEPT ![x] = NoPlan] /\ UNCHANGED <<revision, history>>
      BY <1>7, <2>1 DEF Release, tables
    <3>2. RevisionsTyped'
      BY <3>1, NoPlanType DEF EvidenceInv, RevisionsTyped, history, NoPlan
    <3>3. ASSUME NEW z \in Plans PROVE CaptureHolds(z)'
      BY <3>1 DEF EvidenceInv, RevisionsTyped, CaptureHolds, CapturedKnown, Detects, history, NoPlan
    <3> QED
      BY <3>2, <3>3 DEF EvidenceInv
  <2>2. CASE plan[x].pc # "planned"
    <3>1. plan' = [plan EXCEPT ![x].pc = "kept"] /\ UNCHANGED <<revision, history>>
      BY <1>7, <2>2 DEF Release, tables
    <3>2. plan[x].pc # "idle"
      BY <1>7 DEF Release
    <3> QED
      BY <3>1, <3>2, PlanGoesOn
  <2> QED
    BY <2>1, <2>2
<1>8. ASSUME NEW xs \in SUBSET Plans, Retain(xs) PROVE EvidenceInv'
  <2> DEFINE gone == Forgotten(xs)
  <2>1. /\ revision' = [p \in Producers |-> IF p \in gone THEN 0 ELSE revision[p]]
        /\ evidence' = [x \in Plans |-> evidence[x] /\ plan[x].producer \notin gone]
        /\ pruned' = [x \in Plans |-> pruned[x] \/ plan[x].producer \in gone]
        /\ plan' = [x \in Plans |-> IF x \in xs THEN NoPlan ELSE plan[x]]
    BY <1>8 DEF Retain
  <2> HIDE DEF gone
  <2>2. /\ revision' \in [Producers -> Revisions]
        /\ plan' \in [Plans -> PlanSet]
        /\ \A x \in Plans : plan'[x].pc # "idle" => plan'[x].producer \in Producers
    BY <2>1, NoPlanType DEF EvidenceInv, RevisionsTyped, Revisions, NoPlan
  <2>3. evidence' \in [Plans -> BOOLEAN] /\ pruned' \in [Plans -> BOOLEAN]
    BY <2>1, Zenon
  <2>4. ASSUME NEW x \in Plans PROVE CaptureHolds(x)'
    <3> SUFFICES ASSUME plan'[x].pc # "idle", ~pruned'[x]
                 PROVE  CapturedKnown(x)' /\ Detects(x)'
      BY DEF CaptureHolds
    <3>1. plan'[x] = plan[x] /\ plan[x].pc # "idle"
      BY <2>1 DEF NoPlan
    <3>2. ~pruned[x] /\ plan[x].producer \notin gone
      BY <2>1
    <3>3. /\ revision'[plan[x].producer] = revision[plan[x].producer]
          /\ evidence'[x] = evidence[x]
      <4>1. plan[x].producer \in Producers /\ evidence[x] \in BOOLEAN
        BY <3>1 DEF EvidenceInv, RevisionsTyped
      <4>2. evidence'[x] = (evidence[x] /\ plan[x].producer \notin gone)
        BY <2>1
      <4> QED
        BY <2>1, <3>2, <4>1, <4>2
    <3>4. CapturedKnown(x) /\ Detects(x)
      BY <3>1, <3>2 DEF EvidenceInv, CaptureHolds
    <3> QED
      BY <3>1, <3>3, <3>4 DEF CapturedKnown, Detects
  <2> QED
    BY <2>2, <2>3, <2>4 DEF EvidenceInv, RevisionsTyped
<1>9. ASSUME NEW p \in Producers, NEW rows, NEW gone, RemoveCorrupt(p, rows, gone)
      PROVE  EvidenceInv'
  BY <1>9 DEF RemoveCorrupt, EvidenceInv, RevisionsTyped, CaptureHolds, CapturedKnown, Detects,
              history
<1>10. CASE UNCHANGED vars
  BY <1>10 DEF vars, EvidenceInv, RevisionsTyped, CaptureHolds, CapturedKnown, Detects
<1> QED
  BY <1>1, <1>2, <1>3, <1>4, <1>5, <1>6, <1>7, <1>8, <1>9, <1>10 DEF Next

\* A publication whose producer was not removed before its first commit sees
\* exactly what was observed since its plan, whatever is recorded, cleared,
\* published or pruned (observations.py:20, retention.py:327).
THEOREM EvidenceIsDetected == Spec => []EvidenceDetected
<1>1. EvidenceInv => EvidenceDetected
  BY DEF EvidenceInv, CaptureHolds, EvidenceDetected
<1> QED
  BY <1>1, EvidenceInit, EvidenceStep, PTL DEF Spec

-----------------------------------------------------------------------------
LEMMA ForgottenUnused ==
    ASSUME NEW xs \in SUBSET Plans, NEW p \in Forgotten(xs), NEW x \in Plans \ xs,
           plan[x].producer = p
    PROVE  plan[x].pc = "planned"
BY DEF Forgotten, OldestOf

LEMMA KeptStep == EvidenceInv /\ [Next]_vars =>
                      \A p \in Producers : Used(p) /\ Used(p)' => revision'[p] >= revision[p]
<1> SUFFICES ASSUME EvidenceInv, [Next]_vars, NEW p \in Producers, Used(p)'
             PROVE  revision'[p] >= revision[p]
  OBVIOUS
<1>1. revision \in [Producers -> Nat]
  BY DEF EvidenceInv, RevisionsTyped, Revisions
<1>2. ASSUME NEW q \in Producers, NEW n \in Occurrences,
             revision' = [revision EXCEPT ![q] = @ + n]
      PROVE  revision'[p] >= revision[p]
  BY <1>1, <1>2
<1>3. ASSUME NEW xs \in SUBSET Plans, Retain(xs) PROVE revision'[p] >= revision[p]
  <2>1. PICK x \in Plans : plan'[x].producer = p /\ plan'[x].pc \in {"prepared", "published", "kept"}
    BY DEF Used, Holding
  <2>2. x \notin xs /\ plan'[x] = plan[x]
    BY <1>3, <2>1 DEF Retain, NoPlan
  <2>3. p \notin Forgotten(xs)
    BY <2>1, <2>2, ForgottenUnused
  <2>4. revision'[p] = revision[p]
    BY <1>3, <2>3 DEF Retain
  <2> QED
    BY <1>1, <2>4
<1>4. CASE UNCHANGED revision
  BY <1>1, <1>4
<1>5. ASSUME NEW q \in Producers, NEW v \in Values, NEW n \in Occurrences,
             NEW limits \in Limits, Record(q, v, n, limits)
      PROVE  revision'[p] >= revision[p]
  BY <1>2, <1>5 DEF Record
<1>6. ASSUME NEW q \in Producers, NEW n \in Occurrences, Advance(q, n)
      PROVE  revision'[p] >= revision[p]
  BY <1>2, <1>6 DEF Advance
<1> QED
  BY <1>3, <1>4, <1>5, <1>6
     DEF Next, Clear, RemoveCorrupt, Capture, CommitStates, CommitGeneration, Release, tables, vars

\* No retention pass takes back the revision of a producer that has artifacts
\* before and after it (retention.py:348-358).
THEOREM RevisionIsKept == Spec => RevisionKeptInUse
<1>1. EvidenceInv /\ [Next]_vars =>
          [\A p \in Producers : Used(p) /\ Used(p)' => revision'[p] >= revision[p]]_vars
  BY KeptStep
<1> QED
  BY <1>1, EvidenceInit, EvidenceStep, PTL DEF Spec, RevisionKeptInUse

-----------------------------------------------------------------------------
(* The tables agree: the inductive invariant *)

\* What the steps need to know of the types: the tables are finite.
TablesTyped ==
    /\ observations \in [Producers -> SUBSET Row]
    /\ events \in [Producers -> SUBSET Row]
    /\ disturbed \in [Producers -> BOOLEAN]
    /\ \A p \in Producers : IsFiniteSet(observations[p]) /\ IsFiniteSet(events[p])

TablesInv == TablesTyped /\ TablesAgree

LEMMA TablesInit == Init => TablesInv
BY FS_EmptySet
   DEF Init, TablesInv, TablesTyped, TablesAgree, OrdersNameOneVector, RowsAreCurrent,
       NewestAgree, Newest

LEMMA RowFacts ==
    ASSUME NEW r \in Row
    PROVE  r.order \in Nat /\ r.order # 0 /\ r.order \in Revisions /\ r.value \in Values
BY DEF Row, Revisions

LEMMA LimitFacts ==
    ASSUME NEW limits \in Limits
    PROVE  /\ limits.observations_per_producer \in Nat \ {0}
           /\ limits.observation_relation_bytes \in Nat
           /\ \A v \in Values : ByteCount[v] \in Nat
<1>1. limits \in [observation_bytes : Nat \ {0}, observations_per_producer : Nat \ {0},
                  observation_relation_bytes : Nat \ {0}]
  OBVIOUS
<1> QED
  BY <1>1

LEMMA NoBytes == RowBytes({}) = 0
BY EmptySum DEF RowBytes

\* Pruning keeps the row that is newer than all others exactly if it fits.
LEMMA PruneNewest ==
    ASSUME NEW rows \in SUBSET Row, NEW kept \in SUBSET rows, NEW limits \in Limits,
           StaysAfterPrune(rows, kept, limits), NEW new \in rows,
           \A r \in rows : r # new => r.order < new.order
    PROVE  /\ new \in kept <=> FitsBytes(new.value, limits)
           /\ FitsBytes(new.value, limits) => Newest(kept) = {new}
<1>1. \A r \in rows : r.order \in Nat /\ r.value \in Values
  BY RowFacts
<1>2. /\ limits.observations_per_producer \in Nat \ {0}
      /\ limits.observation_relation_bytes \in Nat
      /\ ByteCount[new.value] \in Nat
  BY <1>1, LimitFacts
<1>3. \A r \in rows : ~(r.order > new.order)
  BY <1>1
<1>4. Newer(rows, new) = {} /\ Newer(kept, new) = {}
  BY <1>3 DEF Newer
<1>5. Cardinality(Newer(rows, new)) = 0 /\ RowBytes(Newer(kept, new)) = 0
  BY <1>4, FS_EmptySet, NoBytes
<1>6. new \in kept <=> ByteCount[new.value] <= limits.observation_relation_bytes
  <2>1. new \in kept <=>
            /\ Cardinality(Newer(rows, new)) < limits.observations_per_producer
            /\ RowBytes(Newer(kept, new)) + ByteCount[new.value]
                   <= limits.observation_relation_bytes
    BY DEF StaysAfterPrune
  <2> QED
    BY <1>2, <1>5, <2>1
<1>7. ASSUME new \in kept PROVE Newest(kept) = {new}
  <2>1. \A q \in kept : q.order <= new.order
    BY <1>1
  <2>2. \A q \in kept : new.order <= q.order => q = new
    BY <1>1
  <2> QED
    BY <1>7, <2>1, <2>2 DEF Newest
<1> QED
  BY <1>6, <1>7 DEF FitsBytes

\* A finite set of rows has a newest one.
LEMMA SomeNewest ==
    ASSUME NEW rows \in SUBSET Row, rows # {}
    PROVE  \E top \in rows : \A q \in rows : q.order <= top.order
<1> DEFINE T == {MaxRevision - r.order : r \in rows}
<1>1. \A r \in rows : r.order \in Nat /\ r.order <= MaxRevision
  BY RowFacts DEF Revisions
<1>2. T \subseteq Nat
  <2>1. \A r \in rows : MaxRevision - r.order \in Nat
    BY <1>1
  <2> QED
    BY <2>1
<1>3. T # {}
  OBVIOUS
<1> HIDE DEF T
<1>4. PICK x \in T : \A y \in T : x <= y
  BY <1>2, <1>3, LeastMember
<1>5. PICK top \in rows : x = MaxRevision - top.order
  BY DEF T
<1>6. ASSUME NEW q \in rows PROVE q.order <= top.order
  <2>1. MaxRevision - top.order <= MaxRevision - q.order
    BY <1>4, <1>5 DEF T
  <2> QED
    BY <1>1, <2>1
<1> QED
  BY <1>6

\* If the newest row does not fit and all others do, the next one is kept, or
\* the only place was the newest row's.
LEMMA PruneSecond ==
    ASSUME NEW rows \in SUBSET Row, NEW kept \in SUBSET rows, NEW limits \in Limits,
           StaysAfterPrune(rows, kept, limits), NEW new \in rows,
           \A r \in rows : r # new => r.order < new.order,
           IsFiniteSet(rows), \A r, q \in rows : r.order = q.order => r = q,
           ~FitsBytes(new.value, limits), \A r \in rows \ {new} : FitsBytes(r.value, limits)
    PROVE  Newest(kept) = IF limits.observations_per_producer = 1 THEN {}
                          ELSE Newest(rows \ {new})
<1> DEFINE S == rows \ {new}
           places == limits.observations_per_producer
<1>1. \A r \in rows : r.order \in Nat /\ r.value \in Values
  BY RowFacts
<1>2. /\ places \in Nat \ {0} /\ limits.observation_relation_bytes \in Nat
      /\ \A v \in Values : ByteCount[v] \in Nat
  BY LimitFacts
<1>3. new \notin kept
  BY PruneNewest
<1>4. kept \subseteq S
  BY <1>3
<1>5. CASE places = 1
  <2>1. ASSUME NEW r \in S PROVE r \notin kept
    <3>1. new \in Newer(rows, r)
      BY DEF Newer
    <3>2. IsFiniteSet(Newer(rows, r))
      BY FS_Subset DEF Newer
    <3>3. Cardinality(Newer(rows, r)) \in Nat /\ Cardinality(Newer(rows, r)) # 0
      BY <3>1, <3>2, FS_CardinalityType, FS_EmptySet
    <3>4. ~(Cardinality(Newer(rows, r)) < limits.observations_per_producer)
      BY <1>5, <3>3
    <3> QED
      BY <3>4 DEF StaysAfterPrune
  <2>2. kept = {}
    BY <1>4, <2>1
  <2> QED
    BY <1>5, <2>2 DEF Newest
<1>6. CASE places # 1 /\ S = {}
  <2>1. kept = {}
    BY <1>4, <1>6
  <2> QED
    BY <1>6, <2>1 DEF Newest
<1>7. CASE places # 1 /\ S # {}
  <2>1. PICK top \in S : \A q \in S : q.order <= top.order
    BY <1>7, SomeNewest
  <2>2. \A q \in S : top.order <= q.order => q = top
    BY <1>1, <2>1
  <2>3. Newer(rows, top) = {new}
    <3>1. new.order > top.order
      BY <1>1
    <3>2. \A q \in S : ~(q.order > top.order)
      BY <1>1, <2>1
    <3> QED
      BY <3>1, <3>2 DEF Newer
  <2>4. Newer(kept, top) = {}
    <3>1. Newer(kept, top) \subseteq Newer(rows, top) /\ new \notin Newer(kept, top)
      BY <1>3 DEF Newer
    <3> QED
      BY <2>3, <3>1
  <2>5. Cardinality(Newer(rows, top)) = 1 /\ RowBytes(Newer(kept, top)) = 0
    BY <2>3, <2>4, FS_Singleton, NoBytes
  <2>6. ByteCount[top.value] \in Nat /\ ByteCount[top.value] <= limits.observation_relation_bytes
    BY <1>1, <1>2 DEF FitsBytes
  <2>7. top \in kept
    <3>1. top \in kept <=>
              /\ Cardinality(Newer(rows, top)) < limits.observations_per_producer
              /\ RowBytes(Newer(kept, top)) + ByteCount[top.value]
                     <= limits.observation_relation_bytes
      BY DEF StaysAfterPrune
    <3> QED
      BY <1>2, <1>7, <2>5, <2>6, <3>1
  <2>8. Newest(kept) = {top} /\ Newest(S) = {top}
    BY <1>4, <2>1, <2>2, <2>7 DEF Newest
  <2> QED
    BY <1>7, <2>8
<1> QED
  BY <1>5, <1>6, <1>7

\* A record gives its vector the newest order in both tables, or neither keeps
\* it, and then the rows that were the newest ones stay or go in both.
LEMMA RecordAgrees ==
    ASSUME EvidenceInv, TablesInv, NEW p \in Producers, NEW v \in Values, NEW n \in Occurrences,
           NEW limits \in Limits, Record(p, v, n, limits)
    PROVE  TablesInv'
<1> DEFINE order == revision[p] + n
           new == NewRow(v, order)
           rows == Upsert(observations[p], v, order)
           list == events[p] \cup {new}
<1>t. /\ revision \in [Producers -> Revisions] /\ n \in Nat \ {0}
      /\ observations \in [Producers -> SUBSET Row] /\ events \in [Producers -> SUBSET Row]
      /\ disturbed \in [Producers -> BOOLEAN]
      /\ IsFiniteSet(observations[p]) /\ IsFiniteSet(events[p])
  BY DEF EvidenceInv, RevisionsTyped, TablesInv, TablesTyped
<1>0. /\ order \in Nat /\ order > revision[p] /\ order \in Revisions \ {0}
      /\ revision[p] \in Nat
  BY <1>t DEF Record, Revisions
<1>1. PICK rowsKept \in SUBSET rows :
          /\ StaysAfterPrune(rows, rowsKept, limits)
          /\ observations' = [observations EXCEPT ![p] = rowsKept]
  BY DEF Record
<1>2. PICK listKept \in SUBSET list :
          /\ StaysAfterPrune(list, listKept, limits)
          /\ events' = [events EXCEPT ![p] = listKept]
  BY DEF Record
<1>3. /\ revision' = [revision EXCEPT ![p] = order]
      /\ disturbed' = [disturbed EXCEPT ![p] =
             ~FitsBytes(v, limits) /\ (disturbed[p] \/ Disturbing(p, limits))]
  BY DEF Record
<1>4. new \in Row /\ new.order = order /\ new.value = v
  BY <1>0 DEF NewRow, Row
<1>5. /\ rows = {r \in observations[p] : r.value # v} \cup {new}
      /\ rows \subseteq observations[p] \cup {new}
  BY DEF Upsert
<1> HIDE DEF order, new, rows
<1>6. ASSUME NEW r \in observations[p] \cup events[p]
      PROVE  /\ r \in Row /\ r.order \in Nat /\ r.order <= revision[p] /\ r.order < order
             /\ r # new
  <2>1. r \in Row /\ r.order \in Nat
    BY <1>t, RowFacts
  <2>2. r.order <= revision[p]
    BY DEF TablesInv, TablesAgree, OrdersNameOneVector
  <2> QED
    BY <1>0, <1>4, <2>1, <2>2
<1>7. /\ rows \in SUBSET Row /\ new \in rows /\ IsFiniteSet(rows)
      /\ list \in SUBSET Row /\ new \in list /\ IsFiniteSet(list)
  <2>1. IsFiniteSet(observations[p] \cup {new}) /\ IsFiniteSet(events[p] \cup {new})
    BY <1>t, FS_AddElement
  <2> QED
    BY <1>4, <1>5, <1>6, <2>1, FS_Subset
<1>8. ASSUME NEW r \in observations[p] \cup events[p] \cup {new},
             NEW q \in observations[p] \cup events[p] \cup {new}
      PROVE  r.order <= order /\ (r.order = q.order => r = q)
  BY <1>0, <1>4, <1>6 DEF TablesInv, TablesAgree, OrdersNameOneVector
<1>9. /\ \A r \in rows : r # new => r.order < new.order
      /\ \A r \in list : r # new => r.order < new.order
      /\ \A r, q \in rows : r.order = q.order => r = q
      /\ \A r, q \in list : r.order = q.order => r = q
  BY <1>4, <1>5, <1>6, <1>8
<1>r. /\ revision'[p] = order /\ observations'[p] = rowsKept /\ events'[p] = listKept
      /\ rowsKept \subseteq observations[p] \cup {new} /\ listKept \subseteq events[p] \cup {new}
      /\ \A q \in Producers : q # p => /\ revision'[q] = revision[q]
                                       /\ observations'[q] = observations[q]
                                       /\ events'[q] = events[q]
                                       /\ disturbed'[q] = disturbed[q]
  BY <1>1, <1>2, <1>3, <1>5, <1>t
<1>d. disturbed'[p] = (~FitsBytes(v, limits) /\ (disturbed[p] \/ Disturbing(p, limits)))
  BY <1>3, <1>t, Zenon
<1>10. TablesTyped'
  <2>1. observations' \in [Producers -> SUBSET Row] /\ events' \in [Producers -> SUBSET Row]
    BY <1>1, <1>2, <1>7, <1>t
  <2>2. (~FitsBytes(v, limits) /\ (disturbed[p] \/ Disturbing(p, limits))) \in BOOLEAN
    OBVIOUS
  <2>3. disturbed' \in [Producers -> BOOLEAN]
    BY <1>3, <1>t, <2>2, Zenon
  <2>4. IsFiniteSet(rowsKept) /\ IsFiniteSet(listKept)
    BY <1>7, FS_Subset
  <2>5. ASSUME NEW q \in Producers
        PROVE  IsFiniteSet(observations'[q]) /\ IsFiniteSet(events'[q])
    BY <1>r, <2>4 DEF TablesInv, TablesTyped
  <2> QED
    BY <2>1, <2>3, <2>5 DEF TablesTyped
<1>11. OrdersNameOneVector'
  <2> SUFFICES ASSUME NEW q \in Producers, NEW r \in observations'[q] \cup events'[q],
                      NEW s \in observations'[q] \cup events'[q]
               PROVE  r.order <= revision'[q] /\ (r.order = s.order => r = s)
    BY DEF OrdersNameOneVector
  <2>1. CASE q = p
    BY <1>r, <1>8, <2>1
  <2>2. CASE q # p
    BY <1>r, <2>2 DEF TablesInv, TablesAgree, OrdersNameOneVector
  <2> QED
    BY <2>1, <2>2
<1>12. RowsAreCurrent'
  <2> SUFFICES ASSUME NEW q \in Producers, NEW r \in observations'[q],
                      NEW s \in observations'[q] \cup events'[q], s.value = r.value
               PROVE  s.order <= r.order
    BY DEF RowsAreCurrent
  <2>1. CASE q # p
    BY <1>r, <2>1 DEF TablesInv, TablesAgree, RowsAreCurrent
  <2>2. CASE q = p /\ r = new
    BY <1>r, <1>4, <1>8, <2>2
  <2>3. CASE q = p /\ r # new
    <3>1. r \in observations[p] /\ r.value # v
      BY <1>r, <1>5, <2>3
    <3>2. s # new
      BY <1>4, <3>1
    <3>3. s \in observations[p] \cup events[p]
      BY <1>r, <2>3, <3>2
    <3> QED
      BY <3>1, <3>3 DEF TablesInv, TablesAgree, RowsAreCurrent
  <2> QED
    BY <2>1, <2>2, <2>3
<1>13. CASE FitsBytes(v, limits)
  <2>1. Newest(rowsKept) = {new} /\ Newest(listKept) = {new}
    BY <1>1, <1>2, <1>4, <1>7, <1>9, <1>13, PruneNewest
  <2>2. ASSUME NEW q \in Producers, ~disturbed'[q]
        PROVE  Newest(observations'[q]) = Newest(events'[q])
    BY <1>r, <2>1, <2>2 DEF TablesInv, TablesAgree, NewestAgree
  <2>3. NewestAgree'
    BY <2>2 DEF NewestAgree, Newest
  <2> QED
    BY <1>10, <1>11, <1>12, <2>3 DEF TablesInv, TablesAgree
<1>14. CASE ~FitsBytes(v, limits)
  <2>1. ASSUME ~disturbed'[p] PROVE Newest(rowsKept) = Newest(listKept)
    <3>1. ~disturbed[p] /\ ~Disturbing(p, limits)
      BY <1>d, <1>14, <2>1
    <3>2. \A r \in observations[p] \cup events[p] : FitsBytes(r.value, limits)
      BY <3>1 DEF Disturbing
    <3>3. \A r \in observations[p] : r.value # v
      BY <1>14, <3>2
    <3>4. rows \ {new} = observations[p] /\ list \ {new} = events[p]
      BY <1>5, <1>6, <3>3
    <3>5. /\ ~FitsBytes(new.value, limits)
          /\ \A r \in rows \ {new} : FitsBytes(r.value, limits)
          /\ \A r \in list \ {new} : FitsBytes(r.value, limits)
      BY <1>4, <1>14, <3>2, <3>4
    <3> HIDE DEF list
    <3>6. /\ Newest(rowsKept) = (IF limits.observations_per_producer = 1 THEN {}
                                ELSE Newest(rows \ {new}))
          /\ Newest(listKept) = (IF limits.observations_per_producer = 1 THEN {}
                                ELSE Newest(list \ {new}))
      <4>1. Newest(rowsKept) = IF limits.observations_per_producer = 1 THEN {}
                               ELSE Newest(rows \ {new})
        BY <1>1, <1>7, <1>9, <3>5, PruneSecond
      <4>2. Newest(listKept) = IF limits.observations_per_producer = 1 THEN {}
                               ELSE Newest(list \ {new})
        BY <1>2, <1>7, <1>9, <3>5, PruneSecond
      <4> QED
        BY <4>1, <4>2
    <3>7. Newest(observations[p]) = Newest(events[p])
      BY <3>1 DEF TablesInv, TablesAgree, NewestAgree
    <3> QED
      BY <3>4, <3>6, <3>7
  <2>2. ASSUME NEW q \in Producers, ~disturbed'[q]
        PROVE  Newest(observations'[q]) = Newest(events'[q])
    BY <1>r, <2>1, <2>2 DEF TablesInv, TablesAgree, NewestAgree
  <2>3. NewestAgree'
    BY <2>2 DEF NewestAgree, Newest
  <2> QED
    BY <1>10, <1>11, <1>12, <2>3 DEF TablesInv, TablesAgree
<1> QED
  BY <1>13, <1>14

\* Rows that go take nothing away from what the others say.
LEMMA ShrunkAgree ==
    ASSUME EvidenceInv, TablesInv,
           observations' \in [Producers -> SUBSET Row], events' \in [Producers -> SUBSET Row],
           disturbed' \in [Producers -> BOOLEAN],
           \A p \in Producers : /\ revision'[p] \in Nat
                                /\ observations'[p] \subseteq observations[p]
                                /\ events'[p] \subseteq events[p]
                                /\ \/ revision'[p] >= revision[p]
                                   \/ observations'[p] = {} /\ events'[p] = {}
                                /\ \/ disturbed'[p]
                                   \/ observations'[p] = {} /\ events'[p] = {}
                                   \/ /\ disturbed'[p] = disturbed[p]
                                      /\ observations'[p] = observations[p]
                                      /\ events'[p] = events[p]
    PROVE  TablesInv'
<1>t. /\ \A p \in Producers : revision[p] \in Nat
      /\ observations \in [Producers -> SUBSET Row] /\ events \in [Producers -> SUBSET Row]
      /\ \A p \in Producers : IsFiniteSet(observations[p]) /\ IsFiniteSet(events[p])
  BY DEF EvidenceInv, RevisionsTyped, TablesInv, TablesTyped, Revisions
<1>1. TablesTyped'
  BY <1>t, FS_Subset DEF TablesTyped
<1>2. OrdersNameOneVector'
  <2> SUFFICES ASSUME NEW p \in Producers, NEW r \in observations'[p] \cup events'[p],
                      NEW q \in observations'[p] \cup events'[p]
               PROVE  r.order <= revision'[p] /\ (r.order = q.order => r = q)
    BY DEF OrdersNameOneVector
  <2>1. r \in observations[p] \cup events[p] /\ q \in observations[p] \cup events[p]
    OBVIOUS
  <2>2. r.order <= revision[p] /\ (r.order = q.order => r = q)
    BY <2>1 DEF TablesInv, TablesAgree, OrdersNameOneVector
  <2>3. r.order \in Nat
    BY <1>t, <2>1, RowFacts
  <2>4. revision[p] \in Nat /\ revision'[p] \in Nat /\ revision'[p] >= revision[p]
    BY <1>t
  <2> QED
    BY <2>2, <2>3, <2>4
<1>3. RowsAreCurrent'
  <2> SUFFICES ASSUME NEW p \in Producers, NEW r \in observations'[p],
                      NEW q \in observations'[p] \cup events'[p], q.value = r.value
               PROVE  q.order <= r.order
    BY DEF RowsAreCurrent
  <2>1. r \in observations[p] /\ q \in observations[p] \cup events[p]
    OBVIOUS
  <2> QED
    BY <2>1 DEF TablesInv, TablesAgree, RowsAreCurrent
<1>4. ASSUME NEW p \in Producers, ~disturbed'[p]
      PROVE  Newest(observations'[p]) = Newest(events'[p])
  <2>1. CASE observations'[p] = {} /\ events'[p] = {}
    BY <2>1
  <2>2. CASE /\ disturbed'[p] = disturbed[p]
             /\ observations'[p] = observations[p] /\ events'[p] = events[p]
    BY <1>4, <2>2 DEF TablesInv, TablesAgree, NewestAgree
  <2> QED
    BY <1>4, <2>1, <2>2
<1>5. NewestAgree'
  BY <1>4 DEF NewestAgree, Newest
<1> QED
  BY <1>1, <1>2, <1>3, <1>5 DEF TablesInv, TablesAgree

LEMMA TablesStep == EvidenceInv /\ TablesInv /\ [Next]_vars => TablesInv'
<1> SUFFICES ASSUME EvidenceInv, TablesInv, [Next]_vars PROVE TablesInv'
  OBVIOUS
<1>t. /\ revision \in [Producers -> Revisions] /\ Revisions \subseteq Nat /\ Occurrences \subseteq Nat
      /\ \A p \in Producers : revision[p] \in Nat
      /\ observations \in [Producers -> SUBSET Row] /\ events \in [Producers -> SUBSET Row]
      /\ disturbed \in [Producers -> BOOLEAN]
  BY DEF EvidenceInv, RevisionsTyped, TablesInv, TablesTyped, Revisions
<1>s. ASSUME UNCHANGED <<observations, events, disturbed>>,
             \A p \in Producers : revision'[p] \in Nat /\ revision'[p] >= revision[p]
      PROVE  TablesInv'
  BY <1>s, <1>t, ShrunkAgree
<1>1. ASSUME NEW p \in Producers, NEW n \in Occurrences, Advance(p, n)
      PROVE  TablesInv'
  <2>1. /\ revision' = [revision EXCEPT ![p] = revision[p] + n]
        /\ UNCHANGED <<observations, events, disturbed>>
    BY <1>1 DEF Advance
  <2>2. \A q \in Producers : revision'[q] = IF q = p THEN revision[p] + n ELSE revision[q]
    BY <1>t, <2>1
  <2> QED
    BY <1>s, <1>t, <2>1, <2>2
<1>2. ASSUME NEW p \in Producers, Clear(p)
      PROVE  TablesInv'
  <2>1. /\ observations' = [observations EXCEPT ![p] = {}]
        /\ events' = [events EXCEPT ![p] = {}]
        /\ disturbed' = [disturbed EXCEPT ![p] = FALSE]
        /\ UNCHANGED revision
    BY <1>2 DEF Clear
  <2>2. /\ observations' \in [Producers -> SUBSET Row] /\ events' \in [Producers -> SUBSET Row]
        /\ disturbed' \in [Producers -> BOOLEAN]
    BY <1>t, <2>1
  <2>3. ASSUME NEW q \in Producers
        PROVE  \/ q = p /\ observations'[q] = {} /\ events'[q] = {}
               \/ /\ disturbed'[q] = disturbed[q] /\ observations'[q] = observations[q]
                  /\ events'[q] = events[q]
    BY <1>t, <2>1
  <2>4. \A q \in Producers : revision'[q] \in Nat /\ revision'[q] >= revision[q]
    BY <1>t, <2>1
  <2> QED
    BY <2>2, <2>3, <2>4, ShrunkAgree
<1>3. ASSUME NEW p \in Producers, NEW rows \in SUBSET observations[p], NEW gone \in SUBSET events[p],
             RemoveCorrupt(p, rows, gone)
      PROVE  TablesInv'
  <2> DEFINE left == {e \in events[p] \ gone : \A r \in rows : e.order # r.order /\ e.value # r.value}
  <2>1. /\ observations' = [observations EXCEPT ![p] = observations[p] \ rows]
        /\ events' = [events EXCEPT ![p] = left]
        /\ disturbed' = [disturbed EXCEPT ![p] = TRUE]
        /\ UNCHANGED revision
    BY <1>3 DEF RemoveCorrupt
  <2>2. left \subseteq events[p]
    OBVIOUS
  <2> HIDE DEF left
  <2>3. /\ observations' \in [Producers -> SUBSET Row] /\ events' \in [Producers -> SUBSET Row]
        /\ disturbed' \in [Producers -> BOOLEAN]
    BY <1>t, <2>1, <2>2
  <2>4. ASSUME NEW q \in Producers
        PROVE  /\ observations'[q] \subseteq observations[q] /\ events'[q] \subseteq events[q]
               /\ \/ disturbed'[q]
                  \/ /\ disturbed'[q] = disturbed[q] /\ observations'[q] = observations[q]
                     /\ events'[q] = events[q]
    BY <1>t, <2>1, <2>2
  <2>5. \A q \in Producers : revision'[q] \in Nat /\ revision'[q] >= revision[q]
    BY <1>t, <2>1
  <2> QED
    BY <2>3, <2>4, <2>5, ShrunkAgree
<1>4. ASSUME NEW xs \in SUBSET Plans, Retain(xs)
      PROVE  TablesInv'
  <2> DEFINE gone == Forgotten(xs)
  <2>1. /\ observations' = [p \in Producers |-> IF p \in gone THEN {} ELSE observations[p]]
        /\ events' = [p \in Producers |-> IF p \in gone THEN {} ELSE events[p]]
        /\ revision' = [p \in Producers |-> IF p \in gone THEN 0 ELSE revision[p]]
        /\ disturbed' = [p \in Producers |-> disturbed[p] /\ p \notin gone]
    BY <1>4 DEF Retain
  <2> HIDE DEF gone
  <2>2. observations' \in [Producers -> SUBSET Row] /\ events' \in [Producers -> SUBSET Row]
    BY <1>t, <2>1
  <2>3. disturbed' \in [Producers -> BOOLEAN]
    BY <2>1, Zenon
  <2>4. ASSUME NEW q \in Producers
        PROVE  \/ q \in gone /\ observations'[q] = {} /\ events'[q] = {} /\ revision'[q] = 0
               \/ /\ disturbed'[q] = disturbed[q] /\ observations'[q] = observations[q]
                  /\ events'[q] = events[q] /\ revision'[q] = revision[q]
    <3>1. disturbed[q] \in BOOLEAN /\ disturbed'[q] = (disturbed[q] /\ q \notin gone)
      BY <1>t, <2>1
    <3> QED
      BY <2>1, <3>1
  <2> QED
    BY <1>t, <2>2, <2>3, <2>4, ShrunkAgree
<1>5. CASE UNCHANGED <<revision, observations, events, disturbed>>
  BY <1>5, <1>s, <1>t
<1>6. ASSUME NEW p \in Producers, NEW rows \in SUBSET CorruptIn(observations[p]),
             NEW gone \in SUBSET CorruptIn(events[p]), RemoveCorrupt(p, rows, gone)
      PROVE  TablesInv'
  BY <1>3, <1>6 DEF CorruptIn
<1> QED
  BY <1>1, <1>2, <1>4, <1>5, <1>6, RecordAgrees
     DEF Next, Capture, CommitStates, CommitGeneration, Release, tables, vars

\* For all byte and count limits of every handle that records, and whatever is
\* recorded, cleared, damaged or removed: an order names one vector, no event is
\* newer than the row of its vector, and the tables have the same newest row, but
\* for the cases that disturbed tells apart (_prune_observation_table).
THEOREM NewestIsAgreed == Spec => []TablesAgree
<1>1. TablesInv => TablesAgree
  BY DEF TablesInv
<1> QED
  BY <1>1, EvidenceInit, EvidenceStep, TablesInit, TablesStep, PTL DEF Spec
================================================================================
