--------------------------- MODULE WalRegistryProofs ---------------------------
(***************************************************************************)
(* Proofs about WalRegistry for every number of tables, every frame size   *)
(* and every limit.  The first part is what the proofs need of Total: sums *)
(* over the members, which have no bound, so that their laws are inductions *)
(* over the naturals.  The second part is the registry's invariant.        *)
(***************************************************************************)
EXTENDS WalRegistry, TLAPS, WellFoundedInduction

(***************************************************************************)
(* Induction over the naturals, with sets in place of predicates.          *)
(***************************************************************************)
\* The order of the naturals is well founded: used by every sum over the files
\* of a registry.
LEMMA LeastElement ==
  ASSUME NEW S \in SUBSET Nat, S # {}
  PROVE  \E n \in S : \A m \in S : n <= m
<1> DEFINE R == OpToRel(<, Nat)
<1>1. IsWellFoundedOn(R, Nat)
  BY NatLessThanWellFounded
<1>2. PICK n \in S : \A m \in S : <<m, n>> \notin R
  BY <1>1, WFMin
<1>3. \A m \in S : m < n => <<m, n>> \in R
  BY DEF OpToRel
<1> HIDE DEF R
<1>4. \A m \in S : ~ (m < n)
  BY <1>2, <1>3
<1> QED
  BY <1>4

\* Induction, for the sums over the files of a registry.
LEMMA Induction ==
  ASSUME NEW S, 0 \in S, \A n \in Nat : n \in S => n + 1 \in S
  PROVE  Nat \subseteq S
<1> DEFINE B == Nat \ S
<1>1. SUFFICES ASSUME B # {} PROVE FALSE
  OBVIOUS
<1>2. PICK n \in B : \A m \in B : n <= m
  BY <1>1, LeastElement
<1>3. n # 0 /\ n - 1 \in Nat /\ n - 1 \notin B
  BY <1>2
<1> QED
  BY <1>2, <1>3

\* A function that never falls from one number to the next never falls.
LEMMA Climbs ==
  ASSUME NEW L \in Nat, NEW f \in [0 .. L -> Int],
         NEW k \in 0 .. L, NEW m \in k .. L,
         \A n \in k + 1 .. L : f[n - 1] <= f[n]
  PROVE  f[k] <= f[m]
<1> DEFINE S == {d \in Nat : k + d <= L => f[k] <= f[k + d]}
<1>1. 0 \in S
  OBVIOUS
<1>2. ASSUME NEW d \in Nat, d \in S
      PROVE  d + 1 \in S
  <2>1. SUFFICES ASSUME k + (d + 1) <= L
                 PROVE  f[k] <= f[k + (d + 1)]
    OBVIOUS
  <2>2. f[k] <= f[k + d]
    BY <1>2, <2>1
  <2>3. k + (d + 1) \in k + 1 .. L /\ (k + (d + 1)) - 1 = k + d
    BY <2>1
  <2>4. f[k + d] <= f[k + (d + 1)]
    BY <2>3
  <2>5. f[k] \in Int /\ f[k + d] \in Int /\ f[k + (d + 1)] \in Int
    BY <2>1
  <2> QED
    BY <2>2, <2>4, <2>5
<1>3. Nat \subseteq S
  <2> HIDE DEF S
  <2> QED
    BY <1>1, <1>2, Induction
<1>4. m - k \in Nat /\ k + (m - k) = m /\ m <= L
  OBVIOUS
<1>5. m - k \in S
  BY <1>3, <1>4
<1> QED
  BY <1>4, <1>5

(***************************************************************************)
(* Running sums.                                                           *)
(***************************************************************************)
\* f is the function that Total's recursion describes.
IsSum(f, sizes) ==
  f = [n \in 0 .. Len(sizes) |-> IF n = 0 THEN 0 ELSE f[n - 1] + sizes[n]]

Sums(sizes) == CHOOSE f : IsSum(f, sizes)

\* Total is the last of the running sums.
LEMMA TotalIsLastSum ==
  ASSUME NEW sizes
  PROVE  Total(sizes) = Sums(sizes)[Len(sizes)]
  BY DEF Total, Sums, IsSum

\* The recursion of Total has a solution for every sequence.
LEMMA SumExists ==
  ASSUME NEW sizes \in Seq(Nat)
  PROVE  \E f : IsSum(f, sizes)
<1> DEFINE Upto(f, L) ==
             f = [n \in 0 .. L |-> IF n = 0 THEN 0 ELSE f[n - 1] + sizes[n]]
           S == {L \in Nat : \E f : Upto(f, L)}
<1>1. 0 \in S
  <2>1. Upto([n \in 0 .. 0 |-> 0], 0)
    OBVIOUS
  <2> QED
    BY <2>1
<1>2. ASSUME NEW L \in Nat, L \in S
      PROVE  L + 1 \in S
  <2>1. PICK f : Upto(f, L)
    BY <1>2
  <2> DEFINE g == [n \in 0 .. L + 1 |->
                     IF n = L + 1 THEN f[L] + sizes[L + 1] ELSE f[n]]
  <2>2. ASSUME NEW n \in 0 .. L + 1
        PROVE  g[n] = IF n = 0 THEN 0 ELSE g[n - 1] + sizes[n]
    <3>1. CASE n = L + 1
      BY <3>1
    <3>2. CASE n # L + 1
      <4>1. n \in 0 .. L /\ (n # 0 => n - 1 \in 0 .. L)
        BY <3>2
      <4>2. f[n] = IF n = 0 THEN 0 ELSE f[n - 1] + sizes[n]
        BY <4>1, <2>1
      <4> QED
        BY <4>1, <4>2
    <3> QED
      BY <3>1, <3>2
  <2>3. Upto(g, L + 1)
    BY <2>2
  <2> HIDE DEF g, Upto
  <2> QED
    BY <2>3
<1>3. Nat \subseteq S
  <2> HIDE DEF S
  <2> QED
    BY <1>1, <1>2, Induction
<1>4. Len(sizes) \in S
  BY <1>3
<1> QED
  BY <1>4 DEF IsSum

\* The running sums start at nothing and add one size at a time.
LEMMA SumsStep ==
  ASSUME NEW sizes \in Seq(Nat)
  PROVE  /\ Sums(sizes)[0] = 0
         /\ \A n \in 1 .. Len(sizes) :
              Sums(sizes)[n] = Sums(sizes)[n - 1] + sizes[n]
<1>1. IsSum(Sums(sizes), sizes)
  BY SumExists DEF Sums
<1> HIDE DEF Sums
<1>2. 0 \in 0 .. Len(sizes) /\ \A n \in 1 .. Len(sizes) : n \in 0 .. Len(sizes) /\ n # 0
  OBVIOUS
<1> QED
  BY <1>1, <1>2 DEF IsSum

\* Running sums of sizes are sizes.
LEMMA SumsType ==
  ASSUME NEW sizes \in Seq(Nat)
  PROVE  Sums(sizes) \in [0 .. Len(sizes) -> Nat]
<1> DEFINE S == {n \in Nat : n <= Len(sizes) => Sums(sizes)[n] \in Nat}
<1>1. 0 \in S
  BY SumsStep
<1>2. ASSUME NEW n \in Nat, n \in S
      PROVE  n + 1 \in S
  <2>1. SUFFICES ASSUME n + 1 <= Len(sizes)
                 PROVE  Sums(sizes)[n + 1] \in Nat
    OBVIOUS
  <2>2. n + 1 \in 1 .. Len(sizes) /\ (n + 1) - 1 = n /\ n <= Len(sizes)
    BY <2>1
  <2>3. Sums(sizes)[n + 1] = Sums(sizes)[n] + sizes[n + 1]
    BY <2>2, SumsStep
  <2>4. Sums(sizes)[n] \in Nat /\ sizes[n + 1] \in Nat
    BY <1>2, <2>2
  <2> QED
    BY <2>3, <2>4
<1>3. Nat \subseteq S
  <2> HIDE DEF S
  <2> QED
    BY <1>1, <1>2, Induction
<1>4. \A n \in 0 .. Len(sizes) : Sums(sizes)[n] \in Nat
  BY <1>3
<1>5. Sums(sizes) = [n \in 0 .. Len(sizes) |-> Sums(sizes)[n]]
  <2>1. IsSum(Sums(sizes), sizes)
    BY SumExists DEF Sums
  <2> QED
    BY <2>1 DEF IsSum
<1> QED
  BY <1>4, <1>5

\* What there is to know of the running sums up to any number.
LEMMA SumsFacts ==
  ASSUME NEW sizes \in Seq(Nat)
  PROVE  /\ Sums(sizes)[0] = 0
         /\ \A n \in Nat : n <= Len(sizes) => Sums(sizes)[n] \in Nat
         /\ \A n \in 1 .. Len(sizes) :
              /\ Sums(sizes)[n] = Sums(sizes)[n - 1] + sizes[n]
              /\ sizes[n] \in Nat
<1>1. \A n \in Nat : n <= Len(sizes) => n \in 0 .. Len(sizes)
  OBVIOUS
<1>2. Sums(sizes) \in [0 .. Len(sizes) -> Nat]
  BY SumsType
<1>3. \A n \in Nat : n <= Len(sizes) => Sums(sizes)[n] \in Nat
  BY <1>1, <1>2
<1> QED
  BY <1>3, SumsStep

\* A total is a size.
LEMMA TotalType ==
  ASSUME NEW sizes \in Seq(Nat)
  PROVE  Total(sizes) \in Nat
  BY TotalIsLastSum, SumsType

\* S holds the running sums of x from the j-th to the k-th, whatever it starts
\* from.
RunningSums(S, x, j, k) ==
  /\ \A n \in j .. k : S[n] \in Nat
  /\ \A n \in j + 1 .. k : S[n] = S[n - 1] + x[n] /\ x[n] \in Nat

\* From the j-th to the k-th, the sizes in x are no larger than those in y.
Smaller(x, y, j, k) == \A n \in j + 1 .. k : x[n] <= y[n]

\* x and y differ in the i-th size at most.
Apart(x, y, i, k) == \A n \in 1 .. k : n # i => x[n] = y[n]

\* Two running sums that add smaller and larger sizes move apart.
LEMMA RunningSumsDiverge ==
  ASSUME NEW k \in Nat, NEW j \in 0 .. k, NEW S, NEW T, NEW x, NEW y,
         RunningSums(S, x, j, k), RunningSums(T, y, j, k), Smaller(x, y, j, k)
  PROVE  T[j] - S[j] <= T[k] - S[k]
<1> DEFINE f == [n \in 0 .. k |-> IF n < j THEN 0 ELSE T[n] - S[n]]
<1>1. f \in [0 .. k -> Int] /\ k \in j .. k /\ j \in j .. k /\ k \in 0 .. k
  BY DEF RunningSums
<1>2. ASSUME NEW n \in j + 1 .. k
      PROVE  f[n - 1] <= f[n]
  <2>1. /\ n \in 0 .. k /\ n - 1 \in 0 .. k /\ n \in j .. k /\ n - 1 \in j .. k
        /\ ~ (n < j) /\ ~ (n - 1 < j)
    OBVIOUS
  <2>2. T[n - 1] - S[n - 1] <= T[n] - S[n]
    BY <2>1 DEF RunningSums, Smaller
  <2> QED
    BY <2>1, <2>2
<1>3. f[j] <= f[k]
  <2> HIDE DEF f
  <2> QED
    BY <1>1, <1>2, Climbs
<1> QED
  BY <1>1, <1>3

\* A part of the running sums is running sums.
LEMMA RunningSumsPart ==
  ASSUME NEW k \in Nat, NEW S, NEW x, RunningSums(S, x, 0, k),
         NEW j \in 0 .. k, NEW m \in j .. k
  PROVE  RunningSums(S, x, j, m)
  BY DEF RunningSums

\* Two running sums that differ in one size differ by it.
LEMMA RunningSumsDiffer ==
  ASSUME NEW k \in Nat, NEW i \in 1 .. k, NEW S, NEW T, NEW x, NEW y,
         S[0] = T[0], RunningSums(S, x, 0, k), RunningSums(T, y, 0, k),
         Apart(x, y, i, k)
  PROVE  T[k] = S[k] + (y[i] - x[i])
<1>1. /\ 0 \in 0 .. k /\ i - 1 \in 0 .. k /\ i \in 0 .. k /\ k \in i .. k
      /\ 0 \in 0 .. i - 1 /\ i - 1 \in Nat
  OBVIOUS
<1>2. /\ RunningSums(S, x, 0, i - 1) /\ RunningSums(T, y, 0, i - 1)
      /\ RunningSums(S, x, i, k) /\ RunningSums(T, y, i, k)
  BY <1>1, RunningSumsPart
<1>3. /\ Smaller(x, y, 0, i - 1) /\ Smaller(y, x, 0, i - 1)
      /\ Smaller(x, y, i, k) /\ Smaller(y, x, i, k)
  <2>1. \A n \in 1 .. k : x[n] \in Nat /\ y[n] \in Nat
    BY DEF RunningSums
  <2> QED
    BY <2>1 DEF Apart, Smaller
<1>4. T[0] - S[0] <= T[i - 1] - S[i - 1] /\ S[0] - T[0] <= S[i - 1] - T[i - 1]
  BY <1>1, <1>2, <1>3, RunningSumsDiverge
<1>5. T[i] - S[i] <= T[k] - S[k] /\ S[i] - T[i] <= S[k] - T[k]
  BY <1>1, <1>2, <1>3, RunningSumsDiverge
<1>6. /\ S[0] \in Nat /\ S[i - 1] \in Nat /\ S[i] \in Nat /\ S[k] \in Nat
      /\ T[0] \in Nat /\ T[i - 1] \in Nat /\ T[i] \in Nat /\ T[k] \in Nat
      /\ S[i] = S[i - 1] + x[i] /\ T[i] = T[i - 1] + y[i]
      /\ x[i] \in Nat /\ y[i] \in Nat
  BY <1>1 DEF RunningSums
<1>7. T[i - 1] = S[i - 1]
  BY <1>4, <1>6
<1>8. T[k] - S[k] = T[i] - S[i]
  BY <1>5, <1>6
<1> QED
  BY <1>6, <1>7, <1>8

\* The running sums of a sequence are running sums.
LEMMA SumsAreRunning ==
  ASSUME NEW s \in Seq(Nat), NEW k \in Nat, k <= Len(s)
  PROVE  RunningSums(Sums(s), s, 0, k) /\ Sums(s)[0] = 0
  BY SumsFacts DEF RunningSums

\* Smaller sizes have smaller running sums.
LEMMA SumsMonotone ==
  ASSUME NEW s \in Seq(Nat), NEW t \in Seq(Nat),
         NEW k \in Nat, k <= Len(s), k <= Len(t),
         \A n \in 1 .. k : s[n] <= t[n]
  PROVE  Sums(s)[k] <= Sums(t)[k]
<1>1. /\ RunningSums(Sums(s), s, 0, k) /\ RunningSums(Sums(t), t, 0, k)
      /\ Sums(s)[0] = 0 /\ Sums(t)[0] = 0
      /\ Sums(s)[k] \in Nat /\ Sums(t)[k] \in Nat
  BY SumsAreRunning, SumsFacts
<1>2. Smaller(s, t, 0, k) /\ 0 \in 0 .. k
  BY DEF Smaller
<1>3. Sums(t)[0] - Sums(s)[0] <= Sums(t)[k] - Sums(s)[k]
  BY <1>1, <1>2, RunningSumsDiverge, Zenon
<1> QED
  BY <1>1, <1>3

\* Equal sizes have equal running sums.
LEMMA SumsAgree ==
  ASSUME NEW s \in Seq(Nat), NEW t \in Seq(Nat),
         NEW k \in Nat, k <= Len(s), k <= Len(t),
         \A n \in 1 .. k : s[n] = t[n]
  PROVE  Sums(s)[k] = Sums(t)[k]
<1>1. /\ \A n \in 1 .. k : s[n] <= t[n]
      /\ \A n \in 1 .. k : t[n] <= s[n]
  BY SMTT(60)
<1>2. Sums(s)[k] <= Sums(t)[k]
  BY <1>1, SumsMonotone
<1>3. Sums(t)[k] <= Sums(s)[k]
  BY <1>1, SumsMonotone
<1>4. Sums(s)[k] \in Nat /\ Sums(t)[k] \in Nat
  BY SumsFacts
<1> QED
  BY <1>2, <1>3, <1>4

\* The members before one of them hold no more than all of them do.
LEMMA PrefixIsBelow ==
  ASSUME NEW s \in Seq(Nat), NEW k \in 0 .. Len(s)
  PROVE  Sums(s)[k] <= Total(s)
<1>1. Sums(s) \in [0 .. Len(s) -> Int] /\ Len(s) \in Nat /\ Len(s) \in k .. Len(s)
  BY SumsType
<1>2. ASSUME NEW n \in k + 1 .. Len(s)
      PROVE  Sums(s)[n - 1] <= Sums(s)[n]
  <2>1. n \in 1 .. Len(s) /\ n - 1 \in 0 .. Len(s) /\ s[n] \in Nat
    OBVIOUS
  <2>2. Sums(s)[n] = Sums(s)[n - 1] + s[n]
    BY <2>1, SumsStep
  <2>3. Sums(s)[n - 1] \in Int
    BY <1>1, <2>1
  <2> QED
    BY <2>1, <2>2, <2>3
<1> QED
  BY <1>1, <1>2, Climbs, TotalIsLastSum

\* The total of the members before one of them is a running sum.
LEMMA PrefixTotal ==
  ASSUME NEW s \in Seq(Nat), NEW k \in 0 .. Len(s)
  PROVE  /\ [n \in 1 .. k |-> s[n]] \in Seq(Nat)
         /\ Total([n \in 1 .. k |-> s[n]]) = Sums(s)[k]
<1> DEFINE t == [n \in 1 .. k |-> s[n]]
<1>1. t \in Seq(Nat) /\ Len(t) = k /\ \A n \in 1 .. k : t[n] = s[n]
  OBVIOUS
<1>2. Total(t) = Sums(t)[k]
  BY <1>1, TotalIsLastSum
<1>3. Sums(t)[k] = Sums(s)[k]
  <2> HIDE DEF t
  <2> QED
    BY <1>1, SumsAgree
<1> QED
  BY <1>1, <1>2, <1>3

\* Smaller sizes have a smaller total.
LEMMA TotalMonotone ==
  ASSUME NEW s \in Seq(Nat), NEW t \in Seq(Nat), Len(s) = Len(t),
         \A n \in 1 .. Len(s) : s[n] <= t[n]
  PROVE  Total(s) <= Total(t)
<1>1. Len(s) \in Nat /\ Len(s) <= Len(t)
  OBVIOUS
<1> QED
  BY <1>1, SumsMonotone, TotalIsLastSum

\* A total changes by what one member's size changes.
LEMMA TotalChange ==
  ASSUME NEW s \in Seq(Nat), NEW t \in Seq(Nat), Len(s) = Len(t),
         NEW i \in 1 .. Len(s),
         \A n \in 1 .. Len(s) : n # i => s[n] = t[n]
  PROVE  Total(t) = Total(s) + (t[i] - s[i])
<1>1. /\ RunningSums(Sums(s), s, 0, Len(s)) /\ RunningSums(Sums(t), t, 0, Len(s))
      /\ Sums(s)[0] = Sums(t)[0]
      /\ Len(s) \in Nat
  BY SumsAreRunning
<1>2. Apart(s, t, i, Len(s))
  BY DEF Apart
<1>3. Sums(t)[Len(s)] = Sums(s)[Len(s)] + (t[i] - s[i])
  BY <1>1, <1>2, RunningSumsDiffer
<1> QED
  BY <1>3, TotalIsLastSum

\* A frame adds its size.
LEMMA TotalAppend ==
  ASSUME NEW s \in Seq(Nat), NEW x \in Nat
  PROVE  Total(Append(s, x)) = Total(s) + x
<1> DEFINE t == Append(s, x)
<1>1. /\ t \in Seq(Nat) /\ Len(t) = Len(s) + 1 /\ t[Len(t)] = x
      /\ \A n \in 1 .. Len(s) : s[n] = t[n]
      /\ Len(s) \in Nat
  OBVIOUS
<1> HIDE DEF t
<1>2. Sums(s)[Len(s)] = Sums(t)[Len(s)]
  <2>1. Len(s) <= Len(s) /\ Len(s) <= Len(t)
    BY <1>1
  <2> QED
    BY <1>1, <2>1, SumsAgree
<1>3. Sums(t)[Len(t)] = Sums(t)[Len(t) - 1] + t[Len(t)]
  BY <1>1, SumsStep
<1>4. Total(t) = Total(s) + x
  BY SMTT(60), <1>1, <1>2, <1>3, TotalIsLastSum
<1> QED
  BY <1>4 DEF t

\* A torn last frame leaves the frames before it.
LEMMA TotalFront ==
  ASSUME NEW s \in Seq(Nat), s # <<>>
  PROVE  /\ Front(s) \in Seq(Nat)
         /\ Len(Front(s)) = Len(s) - 1
         /\ Last(s) \in Nat
         /\ Total(s) = Total(Front(s)) + Last(s)
<1> DEFINE t == Front(s)
<1>1. /\ t \in Seq(Nat) /\ Len(t) = Len(s) - 1 /\ Len(s) \in Nat \ {0}
      /\ \A n \in 1 .. Len(t) : t[n] = s[n]
      /\ Last(s) = s[Len(s)] /\ Last(s) \in Nat
  <2>1. Len(s) \in Nat \ {0} /\ s[Len(s)] \in Nat
    OBVIOUS
  <2>2. t = [n \in 1 .. Len(s) - 1 |-> s[n]]
    BY <2>1 DEF Front
  <2> HIDE DEF t
  <2>3. Len(s) - 1 \in Nat /\ \A n \in 1 .. Len(s) - 1 : s[n] \in Nat
    BY <2>1
  <2>4. t \in Seq(Nat) /\ Len(t) = Len(s) - 1
    BY <2>2, <2>3
  <2> QED
    BY <2>1, <2>2, <2>4 DEF Last
<1> HIDE DEF t
<1>2. Sums(s)[Len(t)] = Sums(t)[Len(t)]
  <2>1. Len(t) \in Nat /\ Len(t) <= Len(s) /\ Len(t) <= Len(t)
    BY <1>1
  <2> QED
    BY <1>1, <2>1, SumsAgree
<1>3. Sums(s)[Len(s)] = Sums(s)[Len(s) - 1] + s[Len(s)]
  BY <1>1, SumsStep
<1>4. Total(s) = Total(t) + Last(s)
  BY <1>1, <1>2, <1>3, TotalIsLastSum
<1> QED
  BY <1>1, <1>4 DEF t

\* A log with its bootstrap alone is as long as the bootstrap; an empty one is
\* empty.
LEMMA TotalOfOne ==
  ASSUME NEW x \in Nat
  PROVE  Total(<<x>>) = x /\ Total(<<>>) = 0
<1>1. <<>> \in Seq(Nat) /\ Len(<<>>) = 0 /\ Append(<<>>, x) = <<x>>
  OBVIOUS
<1>2. Total(<<>>) = 0
  BY <1>1, SumsStep, TotalIsLastSum
<1>3. Total(Append(<<>>, x)) = Total(<<>>) + x
  BY <1>1, TotalAppend
<1> QED
  BY <1>1, <1>2, <1>3

\* One record per table makes as many records as tables.
LEMMA TotalOfOnes ==
  ASSUME NEW L \in Nat
  PROVE  Total([n \in 1 .. L |-> 1]) = L
<1> DEFINE s == [n \in 1 .. L |-> 1]
           S == {n \in Nat : n <= L => Sums(s)[n] = n}
<1>1. s \in Seq(Nat) /\ Len(s) = L /\ \A n \in 1 .. L : s[n] = 1
  OBVIOUS
<1> HIDE DEF s
<1>2. 0 \in S
  BY <1>1, SumsStep
<1>3. ASSUME NEW n \in Nat, n \in S
      PROVE  n + 1 \in S
  <2>1. SUFFICES ASSUME n + 1 <= L
                 PROVE  Sums(s)[n + 1] = n + 1
    OBVIOUS
  <2>2. n + 1 \in 1 .. Len(s) /\ (n + 1) - 1 = n /\ n <= L
    BY <1>1, <2>1
  <2>3. Sums(s)[n + 1] = Sums(s)[n] + 1
    BY <1>1, <2>2, SumsStep
  <2> QED
    BY <1>3, <2>2, <2>3
<1>4. Nat \subseteq S
  <2> HIDE DEF S
  <2> QED
    BY <1>2, <1>3, Induction
<1>5. Sums(s)[L] = L
  BY <1>4
<1>6. Total(s) = L
  BY <1>1, <1>5, TotalIsLastSum
<1> QED
  BY <1>6 DEF s

(***************************************************************************)
(* The inductive invariant.  Worst and Count are what a member may come to *)
(* whatever happens to the frame being written: the shared limits hold for *)
(* them, which is more than the totals say.                                *)
(***************************************************************************)
Worst(i) == Total(frames[i]) + IF writing[1] = i THEN writing[2] ELSE tail[i]
Count(i) == Len(frames[i]) + IF writing[1] = i THEN 1 ELSE 0

Building == {"member", "bootstrap", "syncMember"}
Closing == {"manifest", "writeManifest", "syncManifest", "syncDirectory"}
Starting == {"mkdir", "syncParent"}
Stages == {"none", "open", "failed", "down"} \cup Starting \cup Building \cup Closing

\* The files have bytes, and only an open registry writes.
Typing ==
  /\ stage \in Stages
  /\ limits \in Limits
  /\ made \in Nat
  /\ entries \subseteq Members \cup {Manifest}
  /\ safe \subseteq entries
  /\ frames \in [Members -> Seq(Nat)]
  /\ tail \in [Members -> Nat]
  /\ bytes \in Nat /\ records \in Nat
  /\ poisoned \in {"no", "yes"}
  /\ acked \in [Members -> Nat]
  /\ writing = NoWrite \/ writing \in Members \X FrameSizes
  /\ writing # NoWrite =>
       stage = "open" /\ poisoned = "no" /\ tail[writing[1]] < writing[2]

\* A member whose creation is behind create_registry.
Booted(i) == i \in safe /\ frames[i] = <<Boot[i]>> /\ tail[i] = 0

\* How far each stage of create_registry is.
Creating ==
  /\ stage \notin {"open", "down"} => acked = [i \in Members |-> 0] /\ poisoned = "no"
  /\ stage \in {"none"} \cup Starting => entries = {}
  /\ stage \in Starting \cup Building \cup Closing => Preflight(limits)
  /\ stage \in Building =>
       /\ made \in Members /\ dir = "safe" /\ Manifest \notin entries
       /\ \A i \in 1 .. made - 1 : Booted(i)
  /\ stage \in {"bootstrap", "syncMember"} => made \in entries
  /\ stage = "syncMember" => frames[made] = <<Boot[made]>> /\ tail[made] = 0
  /\ stage \in Closing => dir = "safe" /\ \A i \in Members : Booted(i)
  /\ stage \in Closing \ {"manifest"} => Manifest \in entries
  /\ stage = "syncDirectory" => manifest = "safe"

\* The manifest is written after every member is durable and complete.
ManifestIsLast ==
  Manifest \in entries => \A i \in Members : i \in safe /\ frames[i] # <<>>

\* No member is acknowledged before all are, and none holds fewer frames than
\* were acknowledged or two more.
FramesFollowAcks ==
  /\ stage = "open" => Acknowledged
  /\ Acknowledged => \A i \in Members : acked[i] >= 1
  /\ \A i \in Members : Len(frames[i]) \in acked[i] .. acked[i] + 1

\* What an open registry that is not poisoned counts is what the files hold,
\* with room for the frame being written.
Counted ==
  stage = "open" /\ poisoned = "no" =>
    /\ \A i \in Members : Len(frames[i]) = acked[i]
    /\ \A i \in Members : i # writing[1] => tail[i] = 0
    /\ bytes = Total([i \in Members |-> Total(frames[i])])
    /\ records = Total([i \in Members |-> Len(frames[i])])
    /\ TotalsFit(bytes, records, limits)

\* Once create_registry returned Ok, its entries are durable and no crash can
\* leave more than the limits allow.
Bounded ==
  Acknowledged =>
    /\ Preflight(limits)
    /\ dir = "safe" /\ manifest = "safe"
    /\ Members \cup {Manifest} \subseteq safe
    /\ \A i \in Members : Worst(i) <= limits["fileBytes"] /\ Count(i) <= limits["records"]
    /\ Total([i \in Members |-> Worst(i)]) <= limits["totalBytes"]
    /\ Total([i \in Members |-> Count(i)]) <= limits["totalRecords"]
    /\ Total([i \in Members |-> Count(i)]) <= Total(acked) + 1

\* Nothing is recovered before the registry is closed, and what is recovered
\* agrees with what was acknowledged.
OutcomesFollow ==
  /\ stage \notin {"failed", "down"} => outcome = Refused
  /\ outcome # Refused =>
       \A i \in Members : outcome[i] >= 1 /\ outcome[i] \in acked[i] .. acked[i] + 1

IInv ==
  /\ Typing /\ Creating /\ ManifestIsLast /\ FramesFollowAcks
  /\ Counted /\ Bounded /\ OutcomesFollow

(***************************************************************************)
(* Totals over the members.                                                *)
(***************************************************************************)
\* The tables are numbered, so that what each of them has is a sequence.
LEMMA MembersAreNumbered ==
  /\ Members = 1 .. Len(Boot) /\ Len(Boot) \in Nat
  /\ Boot \in [Members -> Nat]
  /\ Manifest \notin Members
  /\ \A f \in [Members -> Nat] : f \in Seq(Nat) /\ Len(f) = Len(Boot)
<1>1. Members = 1 .. Len(Boot) /\ Len(Boot) \in Nat /\ Boot \in Seq(Nat)
  BY RegistryAssumption DEF Members
<1>2. Boot \in [Members -> Nat]
  BY <1>1
<1>3. Manifest \notin Members
  BY <1>1 DEF Manifest
<1>4. \A f \in [Members -> Nat] : f \in Seq(Nat) /\ Len(f) = Len(Boot)
  BY <1>1
<1> QED
  BY <1>1, <1>2, <1>3, <1>4

\* What all tables have together is a number.
LEMMA MemberTotalType ==
  ASSUME NEW f \in [Members -> Nat]
  PROVE  Total(f) \in Nat
  BY MembersAreNumbered, TotalType

\* Where every table has less, all have less.
LEMMA MemberTotalMonotone ==
  ASSUME NEW f \in [Members -> Nat], NEW g \in [Members -> Nat],
         \A i \in Members : f[i] <= g[i]
  PROVE  Total(f) <= Total(g)
  BY MembersAreNumbered, TotalMonotone

\* What one table gains, all gain.
LEMMA MemberTotalChange ==
  ASSUME NEW f \in [Members -> Nat], NEW g \in [Members -> Nat],
         NEW i \in Members, \A n \in Members : n # i => f[n] = g[n]
  PROVE  Total(g) = Total(f) + (g[i] - f[i])
<1>1. /\ f \in Seq(Nat) /\ g \in Seq(Nat) /\ Len(f) = Len(g)
      /\ Members = 1 .. Len(f)
  BY MembersAreNumbered
<1> QED
  BY <1>1, TotalChange

\* The tables before one, and that one, have no more than all have.
LEMMA MemberPrefix ==
  ASSUME NEW f \in [Members -> Nat], NEW i \in Members
  PROVE  /\ [j \in 1 .. i - 1 |-> f[j]] \in Seq(Nat)
         /\ Total([j \in 1 .. i - 1 |-> f[j]]) + f[i] <= Total(f)
<1>1. /\ f \in Seq(Nat) /\ i \in 1 .. Len(f)
      /\ i \in 0 .. Len(f) /\ i - 1 \in 0 .. Len(f)
  BY MembersAreNumbered
<1>2. /\ [j \in 1 .. i - 1 |-> f[j]] \in Seq(Nat)
      /\ Total([j \in 1 .. i - 1 |-> f[j]]) = Sums(f)[i - 1]
  BY <1>1, PrefixTotal
<1>3. Sums(f)[i] = Sums(f)[i - 1] + f[i]
  BY <1>1, SumsStep
<1>4. Sums(f)[i] <= Total(f)
  BY <1>1, PrefixIsBelow
<1> QED
  BY <1>2, <1>3, <1>4

\* One record in each table.
LEMMA MemberOnes == Total([i \in Members |-> 1]) = Len(Boot)
  BY MembersAreNumbered, TotalOfOnes

\* The figures of every member are numbers, and the size of its file is within
\* what it may come to.
Figured ==
  /\ \A i \in Members :
       /\ Total(frames[i]) \in Nat /\ Len(frames[i]) \in Nat
       /\ FileSize(i) \in Nat /\ Worst(i) \in Nat /\ Count(i) \in Nat
       /\ FileSize(i) <= Worst(i) /\ Len(frames[i]) <= Count(i)
  /\ [i \in Members |-> Total(frames[i])] \in [Members -> Nat]
  /\ [i \in Members |-> Len(frames[i])] \in [Members -> Nat]
  /\ [i \in Members |-> FileSize(i)] \in [Members -> Nat]
  /\ [i \in Members |-> Worst(i)] \in [Members -> Nat]
  /\ [i \in Members |-> Count(i)] \in [Members -> Nat]

\* Files of bytes have sizes: the figures that the limits are compared with.
LEMMA FiguresOfFiles == Typing => Figured
<1> SUFFICES ASSUME Typing PROVE Figured
  OBVIOUS
<1>1. ASSUME NEW i \in Members
      PROVE  /\ Total(frames[i]) \in Nat /\ Len(frames[i]) \in Nat
             /\ FileSize(i) \in Nat /\ Worst(i) \in Nat /\ Count(i) \in Nat
             /\ FileSize(i) <= Worst(i) /\ Len(frames[i]) <= Count(i)
  <2>1. frames[i] \in Seq(Nat) /\ tail[i] \in Nat
    BY DEF Typing
  <2>2. Total(frames[i]) \in Nat
    BY <2>1, TotalType
  <2>3. Len(frames[i]) \in Nat
    BY <2>1
  <2>4. writing[1] = i => writing[2] \in Nat /\ tail[i] < writing[2]
    <3>1. SUFFICES ASSUME writing[1] = i PROVE writing[2] \in Nat /\ tail[i] < writing[2]
      OBVIOUS
    <3>2. writing # NoWrite
      BY <3>1, MembersAreNumbered DEF NoWrite, Manifest
    <3> QED
      BY <3>1, <3>2, RegistryAssumption DEF Typing
  <2>5. FileSize(i) = Total(frames[i]) + tail[i] /\ tail[i] \in Nat
    BY <2>1 DEF FileSize
  <2> HIDE DEF Typing
  <2>6. CASE writing[1] = i
    <3>1. Worst(i) = Total(frames[i]) + writing[2] /\ Count(i) = Len(frames[i]) + 1
      BY <2>6 DEF Worst, Count
    <3> QED
      BY <2>2, <2>3, <2>4, <2>5, <2>6, <3>1
  <2>7. CASE writing[1] # i
    <3>1. Worst(i) = Total(frames[i]) + tail[i] /\ Count(i) = Len(frames[i]) + 0
      BY <2>7 DEF Worst, Count
    <3> QED
      BY <2>2, <2>3, <2>5, <3>1
  <2> QED
    BY <2>6, <2>7
<1> HIDE DEF Typing
<1> QED
  BY <1>1 DEF Figured

\* The same after a step.
LEMMA FiguresAfter == Typing' => Figured'
  BY FiguresOfFiles, PTL

(***************************************************************************)
(* The invariant holds at first.                                           *)
(***************************************************************************)
\* Nothing is there before create_registry.
LEMMA InitIInv == Init => IInv
<1> SUFFICES ASSUME Init PROVE IInv
  OBVIOUS
<1> USE DEF Init
<1>1. Typing
  BY DEF Typing, Stages, Starting, Building, Closing
<1>2. Creating
  BY DEF Creating, Starting, Building, Closing
<1>3. ManifestIsLast
  BY DEF ManifestIsLast
<1>4. ~ Acknowledged
  BY DEF Acknowledged
<1>5. FramesFollowAcks
  BY <1>4 DEF FramesFollowAcks
<1>6. Counted /\ Bounded
  BY <1>4 DEF Counted, Bounded
<1>7. OutcomesFollow
  BY DEF OutcomesFollow, Refused
<1> QED
  BY <1>1, <1>2, <1>3, <1>5, <1>6, <1>7 DEF IInv

(***************************************************************************)
(* create_registry.                                                        *)
(***************************************************************************)
\* While the registry is created nothing is acknowledged, nothing is written by
\* a statement and nothing has been recovered.
LEMMA CreationIsQuiet ==
  ASSUME IInv, stage \notin {"open", "down"}, stage' \notin {"open", "down"},
         stage' = "failed" \/ (stage' # "failed" /\ stage # "failed"),
         UNCHANGED <<limits, bytes, records, poisoned, writing, acked, outcome>>
  PROVE  /\ writing = NoWrite
         /\ ~ Acknowledged /\ ~ Acknowledged'
         /\ acked' = [i \in Members |-> 0] /\ poisoned' = "no"
         /\ Counted' /\ Bounded' /\ OutcomesFollow'
<1>1. writing = NoWrite
  BY DEF IInv, Typing
<1>2. acked = [i \in Members |-> 0] /\ poisoned = "no"
  BY DEF IInv, Creating
<1>3. ~ Acknowledged /\ ~ Acknowledged'
  BY <1>2 DEF Acknowledged
<1>4. Counted' /\ Bounded'
  BY <1>3 DEF Counted, Bounded
<1>5. OutcomesFollow'
  BY DEF IInv, OutcomesFollow
<1> QED
  BY <1>1, <1>2, <1>3, <1>4, <1>5

\* A step of create_registry that changes neither the files nor what is named in
\* the directory keeps the frames where the acknowledgements are.
LEMMA FramesStay ==
  ASSUME IInv, ~ Acknowledged', stage' # "open", UNCHANGED <<frames, acked>>
  PROVE  FramesFollowAcks'
  BY DEF IInv, FramesFollowAcks

\* Create: the limits are checked, and nothing is touched.
LEMMA CreateIInv == IInv /\ Create => IInv'
<1> SUFFICES ASSUME IInv, Create PROVE IInv'
  OBVIOUS
<1> USE DEF Create, At, Go, creation, totals
<1>1. stage = "none" /\ stage' \in {"mkdir", "failed"}
  OBVIOUS
<1>2. /\ writing = NoWrite /\ ~ Acknowledged'
      /\ acked' = [i \in Members |-> 0] /\ poisoned' = "no"
      /\ Counted' /\ Bounded' /\ OutcomesFollow'
  BY <1>1, CreationIsQuiet
<1>3. Typing'
  BY DEF IInv, Typing, Stages, Starting
<1>4. Creating'
  <2>1. stage' = "mkdir" => Preflight(limits)
    OBVIOUS
  <2>2. Preflight(limits) => Preflight(limits)'
    BY DEF Preflight, TotalsFit
  <2> QED
    BY <1>1, <1>2, <2>1, <2>2 DEF IInv, Creating, Starting, Building, Closing
<1>5. ManifestIsLast'
  BY DEF IInv, ManifestIsLast
<1>6. FramesFollowAcks'
  BY <1>1, <1>2, FramesStay
<1> QED
  BY <1>2, <1>3, <1>4, <1>5, <1>6 DEF IInv

\* CreateFails: an error leaves what was created.
LEMMA CreateFailsIInv == IInv /\ CreateFails => IInv'
<1> SUFFICES ASSUME IInv, CreateFails PROVE IInv'
  OBVIOUS
<1> USE DEF CreateFails, Go, creation, totals
<1>1. stage \notin {"open", "down", "none"} /\ stage' = "failed"
  OBVIOUS
<1>2. /\ writing = NoWrite /\ ~ Acknowledged'
      /\ acked' = [i \in Members |-> 0] /\ poisoned' = "no"
      /\ Counted' /\ Bounded' /\ OutcomesFollow'
  BY <1>1, CreationIsQuiet
<1>3. Typing'
  BY DEF IInv, Typing, Stages
<1>4. Creating'
  BY <1>1, <1>2 DEF Creating, Starting, Building, Closing
<1>5. ManifestIsLast'
  BY DEF IInv, ManifestIsLast
<1>6. FramesFollowAcks'
  BY <1>1, <1>2, FramesStay
<1> QED
  BY <1>2, <1>3, <1>4, <1>5, <1>6 DEF IInv

\* MakeDirectory: the directory is there, and empty.
LEMMA MakeDirectoryIInv == IInv /\ MakeDirectory => IInv'
<1> SUFFICES ASSUME IInv, MakeDirectory PROVE IInv'
  OBVIOUS
<1> USE DEF MakeDirectory, At, Go, creation, totals
<1>1. stage = "mkdir" /\ stage' = "syncParent"
  OBVIOUS
<1>2. /\ writing = NoWrite /\ ~ Acknowledged'
      /\ acked' = [i \in Members |-> 0] /\ poisoned' = "no"
      /\ Counted' /\ Bounded' /\ OutcomesFollow'
  BY <1>1, CreationIsQuiet
<1>3. Typing'
  BY DEF IInv, Typing, Stages, Starting
<1>4. Creating'
  <2>1. Preflight(limits)'
    BY <1>1 DEF IInv, Creating, Starting, Preflight, TotalsFit
  <2> QED
    BY <1>1, <1>2, <2>1 DEF IInv, Creating, Starting, Building, Closing
<1>5. ManifestIsLast'
  BY DEF IInv, ManifestIsLast
<1>6. FramesFollowAcks'
  BY <1>1, <1>2, FramesStay
<1> QED
  BY <1>2, <1>3, <1>4, <1>5, <1>6 DEF IInv

\* SyncParent: the directory stays, and the first table is next.
LEMMA SyncParentIInv == IInv /\ SyncParent => IInv'
<1> SUFFICES ASSUME IInv, SyncParent PROVE IInv'
  OBVIOUS
<1> USE DEF SyncParent, At, Go, creation, totals
<1>1. stage = "syncParent" /\ stage' = "member"
  OBVIOUS
<1>2. /\ writing = NoWrite /\ ~ Acknowledged'
      /\ acked' = [i \in Members |-> 0] /\ poisoned' = "no"
      /\ Counted' /\ Bounded' /\ OutcomesFollow'
  BY <1>1, CreationIsQuiet
<1>3. Typing'
  BY DEF IInv, Typing, Stages, Building
<1>4. Creating'
  <2>1. Preflight(limits) /\ Preflight(limits)' /\ entries = {}
    BY <1>1 DEF IInv, Creating, Starting, Preflight, TotalsFit
  <2>2. made' = 1 /\ 1 \in Members
    BY <2>1, MembersAreNumbered DEF Preflight
  <2>3. \A i \in 1 .. made' - 1 : Booted(i)'
    BY <2>2
  <2>4. dir' = "safe" /\ Manifest \notin entries' /\ made' \in Members
    BY <2>1, <2>2
  <2>5. stage' \notin {"none"} \cup Starting /\ stage' \notin Closing
    BY <1>1 DEF Starting, Closing
  <2>6. stage' \notin {"bootstrap", "syncMember", "syncDirectory"}
    BY <1>1
  <2> HIDE DEF SyncParent
  <2> QED
    BY <1>2, <2>1, <2>3, <2>4, <2>5, <2>6 DEF Creating
<1>5. ManifestIsLast'
  BY DEF IInv, ManifestIsLast
<1>6. FramesFollowAcks'
  BY <1>1, <1>2, FramesStay
<1> QED
  BY <1>2, <1>3, <1>4, <1>5, <1>6 DEF IInv

\* CreateMember: the name of the next table's file is in the directory.
LEMMA CreateMemberIInv == IInv /\ CreateMember => IInv'
<1> SUFFICES ASSUME IInv, CreateMember PROVE IInv'
  OBVIOUS
<1> USE DEF CreateMember, At, Go, creation, totals
<1>1. stage = "member" /\ stage' = "bootstrap"
  OBVIOUS
<1>2. /\ writing = NoWrite /\ ~ Acknowledged'
      /\ acked' = [i \in Members |-> 0] /\ poisoned' = "no"
      /\ Counted' /\ Bounded' /\ OutcomesFollow'
  BY <1>1, CreationIsQuiet
<1>3. /\ made \in Members /\ dir = "safe" /\ Manifest \notin entries
      /\ \A i \in 1 .. made - 1 : Booted(i)
      /\ Preflight(limits)
  BY <1>1 DEF IInv, Creating, Building
<1>4. Typing'
  BY <1>1, <1>3 DEF IInv, Typing, Stages, Building
<1>5. Creating'
  <2>1. /\ made' \in Members /\ dir' = "safe" /\ Manifest \notin entries'
        /\ made' \in entries'
    BY <1>3, MembersAreNumbered
  <2>2. \A i \in 1 .. made' - 1 : Booted(i)'
    BY <1>3 DEF Booted
  <2>3. Preflight(limits)'
    BY <1>3 DEF Preflight, TotalsFit
  <2>4. /\ stage' \notin {"none"} \cup Starting /\ stage' \notin Closing
        /\ stage' \notin {"syncMember", "syncDirectory"}
    BY <1>1 DEF Starting, Closing
  <2> QED
    BY <1>2, <2>1, <2>2, <2>3, <2>4 DEF Creating
<1>6. ManifestIsLast'
  BY <1>3, MembersAreNumbered DEF ManifestIsLast
<1>7. FramesFollowAcks'
  BY <1>1, <1>2, FramesStay
<1> QED
  BY <1>2, <1>4, <1>5, <1>6, <1>7 DEF IInv

\* WriteSomeOfBootstrap: the table being created may be torn, no other is.
LEMMA WriteSomeOfBootstrapIInv == IInv /\ WriteSomeOfBootstrap => IInv'
<1> SUFFICES ASSUME IInv, WriteSomeOfBootstrap PROVE IInv'
  OBVIOUS
<1> USE DEF WriteSomeOfBootstrap, At, Go, creation, totals
<1>1. stage = "bootstrap" /\ stage' = "bootstrap"
  OBVIOUS
<1>2. /\ writing = NoWrite /\ ~ Acknowledged'
      /\ acked' = [i \in Members |-> 0] /\ poisoned' = "no"
      /\ Counted' /\ Bounded' /\ OutcomesFollow'
  BY <1>1, CreationIsQuiet
<1>3. /\ made \in Members /\ made \in entries /\ dir = "safe" /\ Manifest \notin entries
      /\ \A i \in 1 .. made - 1 : Booted(i)
      /\ Preflight(limits)
  BY <1>1 DEF IInv, Creating, Building
<1>4. Typing'
  <2>1. tail' \in [Members -> Nat]
    BY <1>3, MembersAreNumbered DEF IInv, Typing
  <2> QED
    BY <1>1, <1>2, <2>1 DEF IInv, Typing, Stages, Building
<1>5. Creating'
  <2>1. /\ made' \in Members /\ dir' = "safe" /\ Manifest \notin entries'
        /\ made' \in entries'
    BY <1>3
  <2>2. ASSUME NEW i \in 1 .. made' - 1
        PROVE  Booted(i)'
    <3>1. i # made /\ i \in Members /\ Booted(i)
      BY <1>3, MembersAreNumbered
    <3>2. tail'[i] = tail[i]
      BY <3>1 DEF IInv, Typing
    <3> QED
      BY <3>1, <3>2 DEF Booted
  <2>3. Preflight(limits)'
    BY <1>3 DEF Preflight, TotalsFit
  <2>4. /\ stage' \notin {"none"} \cup Starting /\ stage' \notin Closing
        /\ stage' \notin {"syncMember", "syncDirectory"}
    BY <1>1 DEF Starting, Closing
  <2> QED
    BY <1>2, <2>1, <2>2, <2>3, <2>4 DEF Creating
<1>6. ManifestIsLast'
  BY DEF IInv, ManifestIsLast
<1>7. FramesFollowAcks'
  BY <1>1, <1>2, FramesStay
<1> QED
  BY <1>2, <1>4, <1>5, <1>6, <1>7 DEF IInv

\* CommitBootstrap: the table being created has its bootstrap frame.
LEMMA CommitBootstrapIInv == IInv /\ CommitBootstrap => IInv'
<1> SUFFICES ASSUME IInv, CommitBootstrap PROVE IInv'
  OBVIOUS
<1> USE DEF CommitBootstrap, At, Go, creation, totals
<1>1. stage = "bootstrap" /\ stage' = "syncMember"
  OBVIOUS
<1>2. /\ writing = NoWrite /\ ~ Acknowledged'
      /\ acked' = [i \in Members |-> 0] /\ poisoned' = "no"
      /\ Counted' /\ Bounded' /\ OutcomesFollow'
  BY <1>1, CreationIsQuiet
<1>3. /\ made \in Members /\ made \in entries /\ dir = "safe" /\ Manifest \notin entries
      /\ \A i \in 1 .. made - 1 : Booted(i)
      /\ Preflight(limits)
  BY <1>1 DEF IInv, Creating, Building
<1>4. /\ frames' \in [Members -> Seq(Nat)] /\ tail' \in [Members -> Nat]
      /\ frames'[made] = <<Boot[made]>> /\ tail'[made] = 0
      /\ \A i \in Members : i # made => frames'[i] = frames[i] /\ tail'[i] = tail[i]
  <2>1. <<Boot[made]>> \in Seq(Nat)
    BY <1>3, MembersAreNumbered
  <2> QED
    BY <1>3, <2>1 DEF IInv, Typing
<1>5. Typing'
  BY <1>1, <1>2, <1>4 DEF IInv, Typing, Stages, Building
<1>6. Creating'
  <2>1. /\ made' \in Members /\ dir' = "safe" /\ Manifest \notin entries'
        /\ made' \in entries'
        /\ frames'[made'] = <<Boot[made']>> /\ tail'[made'] = 0
    BY <1>3, <1>4
  <2>2. ASSUME NEW i \in 1 .. made' - 1
        PROVE  Booted(i)'
    <3>1. i # made /\ i \in Members /\ Booted(i)
      BY <1>3, MembersAreNumbered
    <3> QED
      BY <1>4, <3>1 DEF Booted
  <2>3. Preflight(limits)'
    BY <1>3 DEF Preflight, TotalsFit
  <2>4. /\ stage' \notin {"none"} \cup Starting /\ stage' \notin Closing
        /\ stage' \notin {"syncDirectory"}
    BY <1>1 DEF Starting, Closing
  <2> QED
    BY <1>2, <2>1, <2>2, <2>3, <2>4 DEF Creating
<1>7. ManifestIsLast'
  BY <1>3 DEF ManifestIsLast
<1>8. FramesFollowAcks'
  <2>1. ASSUME NEW i \in Members
        PROVE  Len(frames'[i]) \in acked'[i] .. acked'[i] + 1
    <3>1. acked'[i] = 0 /\ acked[i] = 0
      BY <1>2
    <3>2. CASE i = made
      BY <1>4, <3>1, <3>2
    <3>3. CASE i # made
      BY <1>4, <3>1, <3>3 DEF IInv, FramesFollowAcks
    <3> QED
      BY <3>2, <3>3
  <2> QED
    BY <1>1, <1>2, <2>1 DEF FramesFollowAcks
<1> QED
  BY <1>2, <1>5, <1>6, <1>7, <1>8 DEF IInv

\* SyncMember: the table's name is on disk; the manifest is next, or a table.
LEMMA SyncMemberIInv == IInv /\ SyncMember => IInv'
<1> SUFFICES ASSUME IInv, SyncMember PROVE IInv'
  OBVIOUS
<1> USE DEF SyncMember, At, Go, creation, totals
<1>1. stage = "syncMember" /\ stage' \in {"member", "manifest"}
  OBVIOUS
<1>2. /\ writing = NoWrite /\ ~ Acknowledged'
      /\ acked' = [i \in Members |-> 0] /\ poisoned' = "no"
      /\ Counted' /\ Bounded' /\ OutcomesFollow'
  BY <1>1, CreationIsQuiet
<1>3. /\ made \in Members /\ made \in entries /\ dir = "safe" /\ Manifest \notin entries
      /\ \A i \in 1 .. made - 1 : Booted(i)
      /\ frames[made] = <<Boot[made]>> /\ tail[made] = 0
      /\ Preflight(limits)
  BY <1>1 DEF IInv, Creating, Building
<1>4. Typing'
  BY <1>1, <1>2, <1>3, MembersAreNumbered DEF IInv, Typing, Stages, Building, Closing
<1>5. \A i \in 1 .. made : Booted(i)'
  <2>1. safe \subseteq entries
    BY DEF IInv, Typing
  <2>2. ASSUME NEW i \in 1 .. made
        PROVE  Booted(i)'
    <3>1. CASE i = made
      BY <1>3, <3>1 DEF Booted
    <3>2. CASE i # made
      <4>1. Booted(i)
        BY <1>3, <3>2, MembersAreNumbered
      <4> QED
        BY <2>1, <4>1 DEF Booted
    <3> QED
      BY <3>1, <3>2
  <2> QED
    BY <2>2
<1>6. Preflight(limits)'
  BY <1>3 DEF Preflight, TotalsFit
<1>7. dir' = "safe" /\ Manifest \notin entries'
  BY <1>3
<1>8. Creating'
  <2>1. CASE AllMade
    <3>1. stage' = "manifest" /\ \A i \in Members : Booted(i)'
      BY <1>5, <2>1, MembersAreNumbered DEF AllMade
    <3>2. stage' \notin {"none"} \cup Starting /\ stage' \notin Building
      BY <3>1 DEF Starting, Building
    <3>3. stage' \notin {"bootstrap", "syncMember", "syncDirectory"}
      BY <3>1
    <3> QED
      BY <1>2, <1>6, <1>7, <3>1, <3>2, <3>3 DEF Creating
  <2>2. CASE ~ AllMade
    <3>1. stage' = "member" /\ made' = made + 1
      BY <2>2
    <3>2. made' \in Members /\ \A i \in 1 .. made' - 1 : Booted(i)'
      <4>1. made \in 1 .. Len(Boot) /\ made # Len(Boot) /\ Len(Boot) \in Nat
        BY <1>3, <2>2, MembersAreNumbered DEF AllMade
      <4>2. made' \in 1 .. Len(Boot) /\ made' - 1 = made
        BY <3>1, <4>1
      <4>3. \A i \in 1 .. made' - 1 : Booted(i)'
        BY <1>5, <4>2
      <4> QED
        BY <4>2, <4>3, MembersAreNumbered
    <3>3. stage' \notin {"none"} \cup Starting /\ stage' \notin Closing
      BY <3>1 DEF Starting, Closing
    <3>4. stage' \notin {"bootstrap", "syncMember", "syncDirectory"}
      BY <3>1
    <3> QED
      BY <1>2, <1>6, <1>7, <3>2, <3>3, <3>4 DEF Creating
  <2> QED
    BY <2>1, <2>2
<1>9. ManifestIsLast'
  BY <1>7 DEF ManifestIsLast
<1>10. FramesFollowAcks'
  BY <1>1, <1>2, FramesStay
<1> QED
  BY <1>2, <1>4, <1>8, <1>9, <1>10 DEF IInv

\* CreateManifest: the manifest's name appears after every member is durable.
LEMMA CreateManifestIInv == IInv /\ CreateManifest => IInv'
<1> SUFFICES ASSUME IInv, CreateManifest PROVE IInv'
  OBVIOUS
<1> USE DEF CreateManifest, At, Go, creation, totals
<1>1. stage = "manifest" /\ stage' = "writeManifest"
  OBVIOUS
<1>2. /\ writing = NoWrite /\ ~ Acknowledged'
      /\ acked' = [i \in Members |-> 0] /\ poisoned' = "no"
      /\ Counted' /\ Bounded' /\ OutcomesFollow'
  BY <1>1, CreationIsQuiet
<1>3. Preflight(limits) /\ dir = "safe" /\ \A i \in Members : Booted(i)
  BY <1>1 DEF IInv, Creating, Closing
<1>4. Typing'
  BY <1>1, <1>2 DEF IInv, Typing, Stages, Closing
<1>5. Preflight(limits)' /\ dir' = "safe" /\ \A i \in Members : Booted(i)'
  BY <1>3 DEF Preflight, TotalsFit, Booted
<1>6. Creating'
  <2>1. Manifest \in entries'
    OBVIOUS
  <2>2. stage' \notin {"none"} \cup Starting /\ stage' \notin Building
    BY <1>1 DEF Starting, Building
  <2>3. stage' \notin {"bootstrap", "syncMember", "syncDirectory"}
    BY <1>1
  <2> QED
    BY <1>2, <1>5, <2>1, <2>2, <2>3 DEF Creating
<1>7. ManifestIsLast'
  BY <1>5 DEF ManifestIsLast, Booted
<1>8. FramesFollowAcks'
  BY <1>1, <1>2, FramesStay
<1> QED
  BY <1>2, <1>4, <1>6, <1>7, <1>8 DEF IInv

\* WriteManifest: its content is there.
LEMMA WriteManifestIInv == IInv /\ WriteManifest => IInv'
<1> SUFFICES ASSUME IInv, WriteManifest PROVE IInv'
  OBVIOUS
<1> USE DEF WriteManifest, At, Go, creation, totals
<1>1. stage = "writeManifest" /\ stage' = "syncManifest"
  OBVIOUS
<1>2. /\ writing = NoWrite /\ ~ Acknowledged'
      /\ acked' = [i \in Members |-> 0] /\ poisoned' = "no"
      /\ Counted' /\ Bounded' /\ OutcomesFollow'
  BY <1>1, CreationIsQuiet
<1>3. /\ Preflight(limits) /\ dir = "safe" /\ \A i \in Members : Booted(i)
      /\ Manifest \in entries
  BY <1>1 DEF IInv, Creating, Closing
<1>4. Typing'
  BY <1>1, <1>2 DEF IInv, Typing, Stages, Closing
<1>5. /\ Preflight(limits)' /\ dir' = "safe" /\ \A i \in Members : Booted(i)'
      /\ Manifest \in entries'
  BY <1>3 DEF Preflight, TotalsFit, Booted
<1>6. Creating'
  <2>1. stage' \notin {"none"} \cup Starting /\ stage' \notin Building
    BY <1>1 DEF Starting, Building
  <2>2. stage' \notin {"bootstrap", "syncMember", "syncDirectory"}
    BY <1>1
  <2> QED
    BY <1>2, <1>5, <2>1, <2>2 DEF Creating
<1>7. ManifestIsLast'
  BY <1>5 DEF ManifestIsLast, Booted
<1>8. FramesFollowAcks'
  BY <1>1, <1>2, FramesStay
<1> QED
  BY <1>2, <1>4, <1>6, <1>7, <1>8 DEF IInv

\* SyncManifest: its content is on disk.
LEMMA SyncManifestIInv == IInv /\ SyncManifest => IInv'
<1> SUFFICES ASSUME IInv, SyncManifest PROVE IInv'
  OBVIOUS
<1> USE DEF SyncManifest, At, Go, creation, totals
<1>1. stage = "syncManifest" /\ stage' = "syncDirectory"
  OBVIOUS
<1>2. /\ writing = NoWrite /\ ~ Acknowledged'
      /\ acked' = [i \in Members |-> 0] /\ poisoned' = "no"
      /\ Counted' /\ Bounded' /\ OutcomesFollow'
  BY <1>1, CreationIsQuiet
<1>3. /\ Preflight(limits) /\ dir = "safe" /\ \A i \in Members : Booted(i)
      /\ Manifest \in entries
  BY <1>1 DEF IInv, Creating, Closing
<1>4. Typing'
  BY <1>1, <1>2 DEF IInv, Typing, Stages, Closing
<1>5. /\ Preflight(limits)' /\ dir' = "safe" /\ \A i \in Members : Booted(i)'
      /\ Manifest \in entries' /\ manifest' = "safe"
  BY <1>3 DEF Preflight, TotalsFit, Booted
<1>6. Creating'
  <2>1. stage' \notin {"none"} \cup Starting /\ stage' \notin Building
    BY <1>1 DEF Starting, Building
  <2>2. stage' \notin {"bootstrap", "syncMember"}
    BY <1>1
  <2> QED
    BY <1>2, <1>5, <2>1, <2>2 DEF Creating
<1>7. ManifestIsLast'
  BY <1>5 DEF ManifestIsLast, Booted
<1>8. FramesFollowAcks'
  BY <1>1, <1>2, FramesStay
<1> QED
  BY <1>2, <1>4, <1>6, <1>7, <1>8 DEF IInv

\* Open: the totals start with the bootstraps, which preflight admitted.
LEMMA OpenIInv == IInv /\ Open => IInv'
<1> SUFFICES ASSUME IInv, Open PROVE IInv'
  OBVIOUS
<1> USE DEF Open, At, Go, creation, totals
<1>1. stage = "syncDirectory" /\ stage' = "open"
  OBVIOUS
<1>2. writing = NoWrite /\ writing' = NoWrite /\ poisoned = "no"
  BY <1>1 DEF IInv, Typing, Creating
<1>3. /\ Preflight(limits) /\ dir = "safe" /\ \A i \in Members : Booted(i)
      /\ Manifest \in entries /\ manifest = "safe"
  BY <1>1 DEF IInv, Creating, Closing
<1>4. /\ Len(Boot) # 0 /\ Len(Boot) \in Nat
      /\ \A i \in Members : Boot[i] <= limits["fileBytes"] /\ 1 <= limits["records"]
      /\ Total(Boot) <= limits["totalBytes"] /\ Len(Boot) <= limits["totalRecords"]
  BY <1>3, MembersAreNumbered DEF Preflight, TotalsFit
<1>5. /\ frames' = frames /\ tail' = tail /\ limits' = limits
      /\ acked' = [i \in Members |-> 1]
      /\ bytes' = Total(Boot) /\ records' = Len(Boot)
  OBVIOUS
<1>6. Typing'
  <2>1. Total(Boot) \in Nat /\ Len(Boot) \in Nat
    BY MembersAreNumbered, MemberTotalType
  <2>2. acked' \in [Members -> Nat]
    BY <1>5
  <2> QED
    BY <1>1, <1>2, <2>1, <2>2 DEF IInv, Typing, Stages
<1>7. ASSUME NEW i \in Members
      PROVE  /\ frames'[i] = <<Boot[i]>> /\ tail'[i] = 0
             /\ Total(frames'[i]) = Boot[i] /\ Len(frames'[i]) = 1
             /\ Worst(i)' = Boot[i] /\ Count(i)' = 1
             /\ acked'[i] = 1 /\ i \in safe'
  <2>1. frames'[i] = <<Boot[i]>> /\ tail'[i] = 0 /\ i \in safe
    BY <1>3, <1>5 DEF Booted
  <2>2. Boot[i] \in Nat /\ i # 0
    BY MembersAreNumbered DEF Manifest
  <2>3. Total(<<Boot[i]>>) = Boot[i] /\ Len(<<Boot[i]>>) = 1
    BY <2>2, TotalOfOne
  <2>4. Worst(i)' = Boot[i] + 0 /\ Count(i)' = 1 + 0
    BY <1>2, <2>1, <2>2, <2>3 DEF Worst, Count, NoWrite
  <2> QED
    BY <1>5, <2>1, <2>2, <2>3, <2>4 DEF IInv, Typing
<1>8. /\ [i \in Members |-> Total(frames'[i])] = Boot
      /\ [i \in Members |-> Worst(i)'] = Boot
      /\ [i \in Members |-> Len(frames'[i])] = [i \in Members |-> 1]
      /\ [i \in Members |-> Count(i)'] = [i \in Members |-> 1]
  BY <1>7, MembersAreNumbered
<1>9. Total([i \in Members |-> 1]) = Len(Boot)
  BY MemberOnes
<1>10. Acknowledged'
  BY <1>4, <1>7, MembersAreNumbered DEF Acknowledged
<1>11. Creating'
  BY <1>1 DEF Creating, Starting, Building, Closing
<1>12. ManifestIsLast'
  <2>1. ASSUME NEW i \in Members
        PROVE  i \in safe' /\ frames'[i] # <<>>
    <3>1. frames'[i] = <<Boot[i]>> /\ <<Boot[i]>> # <<>> /\ i \in safe'
      BY <1>7
    <3> QED
      BY <3>1
  <2> QED
    BY <2>1 DEF ManifestIsLast
<1>13. FramesFollowAcks'
  <2>1. ASSUME NEW i \in Members
        PROVE  acked'[i] >= 1 /\ Len(frames'[i]) \in acked'[i] .. acked'[i] + 1
    <3>1. acked'[i] = 1 /\ Len(frames'[i]) = 1
      BY <1>7
    <3> HIDE DEF Open
    <3> QED
      BY <3>1
  <2> HIDE DEF Open
  <2> QED
    BY <1>10, <2>1 DEF FramesFollowAcks
<1>14. Counted'
  <2>1. TotalsFit(bytes, records, limits)'
    BY <1>4, <1>5 DEF TotalsFit
  <2>2. bytes' = Total([i \in Members |-> Total(frames'[i])])
    BY <1>5, <1>8
  <2>3. records' = Total([i \in Members |-> Len(frames'[i])])
    BY <1>5, <1>8, <1>9
  <2> HIDE DEF Open
  <2> QED
    BY <1>7, <2>1, <2>2, <2>3 DEF Counted
<1>15. Bounded'
  <2>1. Preflight(limits)'
    BY <1>3, <1>5 DEF Preflight, TotalsFit
  <2>2. dir' = "safe" /\ manifest' = "safe" /\ Members \cup {Manifest} \subseteq safe'
    BY <1>3, <1>7
  <2>3. Total([i \in Members |-> Worst(i)']) <= limits'["totalBytes"]
    BY <1>4, <1>5, <1>8
  <2>4. Total([i \in Members |-> Count(i)']) <= limits'["totalRecords"]
    BY <1>4, <1>5, <1>8, <1>9
  <2>5. Total([i \in Members |-> Count(i)']) <= Total(acked') + 1
    <3>1. Total([i \in Members |-> Count(i)']) = Len(Boot)
      BY <1>8, <1>9
    <3>2. Total(acked') = Len(Boot)
      BY <1>5, <1>9
    <3>3. Len(Boot) <= Len(Boot) + 1
      BY <1>4
    <3> QED
      BY <3>1, <3>2, <3>3
  <2>6. \A i \in Members : Worst(i)' <= limits'["fileBytes"] /\ Count(i)' <= limits'["records"]
    BY <1>4, <1>5, <1>7
  <2> HIDE DEF Open
  <2> QED
    BY <2>1, <2>2, <2>3, <2>4, <2>5, <2>6 DEF Bounded
<1>16. OutcomesFollow'
  BY <1>1 DEF IInv, OutcomesFollow
<1> QED
  BY <1>6, <1>11, <1>12, <1>13, <1>14, <1>15, <1>16 DEF IInv

(***************************************************************************)
(* commit_member_record.                                                   *)
(***************************************************************************)
\* What the members may come to stays within the limits where it shrinks: a
\* frame that is written, completed, failed or torn was reserved before.
LEMMA BoundedHolds ==
  ASSUME IInv, Typing', Acknowledged,
         limits' = limits, dir' = dir, manifest' = manifest, safe \subseteq safe',
         \A i \in Members : /\ Worst(i)' <= Worst(i) /\ Count(i)' <= Count(i)
                            /\ acked'[i] >= acked[i]
  PROVE  Bounded'
<1>1. /\ Preflight(limits)
      /\ dir = "safe" /\ manifest = "safe"
      /\ Members \cup {Manifest} \subseteq safe
      /\ \A i \in Members : Worst(i) <= limits["fileBytes"] /\ Count(i) <= limits["records"]
      /\ Total([i \in Members |-> Worst(i)]) <= limits["totalBytes"]
      /\ Total([i \in Members |-> Count(i)]) <= limits["totalRecords"]
      /\ Total([i \in Members |-> Count(i)]) <= Total(acked) + 1
  BY DEF IInv, Bounded
<1>2. Figured /\ Figured'
  BY FiguresOfFiles, FiguresAfter DEF IInv
<1>3. /\ acked \in [Members -> Nat] /\ acked' \in [Members -> Nat]
      /\ limits \in [LimitFields -> Nat]
  BY RegistryAssumption DEF IInv, Typing
<1>4. /\ limits["fileBytes"] \in Nat /\ limits["records"] \in Nat
      /\ limits["totalBytes"] \in Nat /\ limits["totalRecords"] \in Nat
  BY <1>3 DEF LimitFields
<1>5. /\ [i \in Members |-> Worst(i)] \in [Members -> Nat]
      /\ [i \in Members |-> Count(i)] \in [Members -> Nat]
      /\ [i \in Members |-> Worst(i)'] \in [Members -> Nat]
      /\ [i \in Members |-> Count(i)'] \in [Members -> Nat]
      /\ \A i \in Members : /\ Worst(i) \in Nat /\ Count(i) \in Nat
                            /\ Worst(i)' \in Nat /\ Count(i)' \in Nat
  BY <1>2 DEF Figured
<1>6. Total([i \in Members |-> Worst(i)']) <= Total([i \in Members |-> Worst(i)])
  BY <1>5, MemberTotalMonotone
<1>7. Total([i \in Members |-> Count(i)']) <= Total([i \in Members |-> Count(i)])
  BY <1>5, MemberTotalMonotone
<1>8. Total(acked) <= Total(acked')
  <2>1. \A i \in Members : acked[i] <= acked'[i]
    BY <1>3
  <2> QED
    BY <1>3, <2>1, MemberTotalMonotone
<1>9. /\ Total([i \in Members |-> Worst(i)]) \in Nat
      /\ Total([i \in Members |-> Worst(i)']) \in Nat
      /\ Total([i \in Members |-> Count(i)]) \in Nat
      /\ Total([i \in Members |-> Count(i)']) \in Nat
      /\ Total(acked) \in Nat /\ Total(acked') \in Nat
  BY <1>3, <1>5, MemberTotalType
<1>10. Preflight(limits')
  BY <1>1
<1>11. Total([i \in Members |-> Worst(i)']) <= limits'["totalBytes"]
  BY <1>1, <1>4, <1>6, <1>9
<1>12. /\ Total([i \in Members |-> Count(i)']) <= limits'["totalRecords"]
       /\ Total([i \in Members |-> Count(i)']) <= Total(acked') + 1
  BY <1>1, <1>4, <1>7, <1>8, <1>9
<1>13. \A i \in Members :
         Worst(i)' <= limits'["fileBytes"] /\ Count(i)' <= limits'["records"]
  BY <1>1, <1>4, <1>5
<1>14. dir' = "safe" /\ manifest' = "safe" /\ Members \cup {Manifest} \subseteq safe'
  BY <1>1
<1> QED
  BY <1>10, <1>11, <1>12, <1>13, <1>14 DEF Bounded

\* BeginCommit: the frame is reserved against the shared totals and the
\* member's own, before a byte of it is written.
LEMMA BeginCommitIInv ==
  ASSUME IInv, NEW i \in Members, NEW size \in FrameSizes, BeginCommit(i, size)
  PROVE  IInv'
<1> USE DEF BeginCommit, creation, totals
<1>1. /\ stage = "open" /\ writing = NoWrite /\ poisoned = "no"
      /\ TotalsFit(bytes + size, records + 1, limits)
      /\ MemberFits(i, size, limits)
  BY DEF Idle, At, Reserved
<1>2. /\ writing' = <<i, size>> /\ writing'[1] = i /\ writing'[2] = size
      /\ writing' # NoWrite
  BY MembersAreNumbered DEF NoWrite, Manifest
<1>3. /\ size \in Nat /\ 0 < size
      /\ bytes \in Nat /\ records \in Nat /\ acked \in [Members -> Nat]
      /\ tail \in [Members -> Nat] /\ frames \in [Members -> Seq(Nat)]
      /\ limits \in Limits
  BY RegistryAssumption DEF IInv, Typing
<1>4. /\ \A j \in Members : Len(frames[j]) = acked[j]
      /\ \A j \in Members : tail[j] = 0
      /\ bytes = Total([j \in Members |-> Total(frames[j])])
      /\ records = Total([j \in Members |-> Len(frames[j])])
  BY <1>1, MembersAreNumbered DEF IInv, Counted, NoWrite, Manifest
<1>5. Figured
  BY FiguresOfFiles DEF IInv
<1>6. Typing'
  BY <1>1, <1>2, <1>3, <1>4 DEF IInv, Typing
<1>7. Creating'
  BY <1>1 DEF Creating, Starting, Building, Closing
<1>8. ManifestIsLast' /\ FramesFollowAcks' /\ OutcomesFollow'
  BY DEF IInv, ManifestIsLast, FramesFollowAcks, OutcomesFollow, Acknowledged
<1>9. Counted'
  <2>1. TotalsFit(bytes, records, limits)
    BY <1>1 DEF IInv, Counted
  <2> QED
    BY <1>4, <2>1 DEF Counted, TotalsFit
<1>10. Acknowledged /\ Bounded
  BY <1>1 DEF IInv, FramesFollowAcks, Bounded
<1>11. Figured'
  BY <1>6, FiguresAfter
<1>12. /\ frames' = frames /\ tail' = tail /\ limits' = limits /\ acked' = acked
  OBVIOUS
<1>13. ASSUME NEW j \in Members
       PROVE  /\ Worst(j)' = Total(frames[j]) + IF j = i THEN size ELSE 0
              /\ Count(j)' = Len(frames[j]) + IF j = i THEN 1 ELSE 0
  BY <1>2, <1>4, <1>12 DEF Worst, Count
<1>14. /\ [j \in Members |-> Worst(j)'] \in [Members -> Nat]
       /\ [j \in Members |-> Count(j)'] \in [Members -> Nat]
       /\ [j \in Members |-> Total(frames[j])] \in [Members -> Nat]
       /\ [j \in Members |-> Len(frames[j])] \in [Members -> Nat]
       /\ \A j \in Members : Total(frames[j]) \in Nat /\ Len(frames[j]) \in Nat
  BY <1>5, <1>11 DEF Figured
<1>15. Total([j \in Members |-> Worst(j)']) = bytes + size
  <2> DEFINE f == [j \in Members |-> Total(frames[j])]
             g == [j \in Members |-> Worst(j)']
  <2>0. /\ \A n \in Members : n # i => Worst(n)' = Total(frames[n])
        /\ Worst(i)' = Total(frames[i]) + size /\ Total(frames[i]) \in Nat
    <3>1. ASSUME NEW n \in Members, n # i
          PROVE  Worst(n)' = Total(frames[n])
      <4>1. Worst(n)' = Total(frames[n]) + 0 /\ Total(frames[n]) \in Nat
        BY <1>13, <1>14, <3>1
      <4> QED
        BY <4>1
    <3>2. Worst(i)' = Total(frames[i]) + size
      BY <1>13
    <3> QED
      BY <1>14, <3>1, <3>2
  <2>1. /\ f \in [Members -> Nat] /\ g \in [Members -> Nat]
        /\ \A n \in Members : n # i => f[n] = g[n]
        /\ g[i] = f[i] + size /\ f[i] \in Nat
    BY <1>14, <2>0
  <2>2. Total(f) = bytes
    BY <1>4
  <2> HIDE DEF f, g
  <2>3. Total(g) = Total(f) + (g[i] - f[i])
    BY <2>1, MemberTotalChange
  <2>4. Total(g) = bytes + size
    BY <1>3, <2>1, <2>2, <2>3
  <2> QED
    BY <2>4 DEF g
<1>16. Total([j \in Members |-> Count(j)']) = records + 1
  <2> DEFINE f == [j \in Members |-> Len(frames[j])]
             g == [j \in Members |-> Count(j)']
  <2>0. /\ \A n \in Members : n # i => Count(n)' = Len(frames[n])
        /\ Count(i)' = Len(frames[i]) + 1 /\ Len(frames[i]) \in Nat
    <3>1. ASSUME NEW n \in Members, n # i
          PROVE  Count(n)' = Len(frames[n])
      <4>1. Count(n)' = Len(frames[n]) + 0 /\ Len(frames[n]) \in Nat
        BY <1>13, <1>14, <3>1
      <4> QED
        BY <4>1
    <3>2. Count(i)' = Len(frames[i]) + 1
      BY <1>13
    <3> QED
      BY <1>14, <3>1, <3>2
  <2>1. /\ f \in [Members -> Nat] /\ g \in [Members -> Nat]
        /\ \A n \in Members : n # i => f[n] = g[n]
        /\ g[i] = f[i] + 1 /\ f[i] \in Nat
    BY <1>14, <2>0
  <2>2. Total(f) = records
    BY <1>4
  <2> HIDE DEF f, g
  <2>3. Total(g) = Total(f) + (g[i] - f[i])
    BY <2>1, MemberTotalChange
  <2>4. Total(g) = records + 1
    BY <1>3, <2>1, <2>2, <2>3
  <2> QED
    BY <2>4 DEF g
<1>17. records = Total(acked)
  <2>1. [j \in Members |-> Len(frames[j])] = acked
    BY <1>3, <1>4
  <2> QED
    BY <1>4, <2>1
<1>18. \A j \in Members :
         Worst(j)' <= limits'["fileBytes"] /\ Count(j)' <= limits'["records"]
  <2>1. TAKE j \in Members
  <2>2. CASE j = i
    BY <1>1, <1>12, <1>13, <2>2 DEF MemberFits
  <2>3. CASE j # i
    <3>1. /\ Worst(j)' = Total(frames[j]) + 0 /\ Count(j)' = Len(frames[j]) + 0
      BY <1>13, <2>3
    <3>2. Worst(j) = Total(frames[j]) + 0 /\ Count(j) = Len(frames[j]) + 0
      BY <1>1, <1>4, MembersAreNumbered DEF Worst, Count, NoWrite, Manifest
    <3>3. Worst(j) <= limits["fileBytes"] /\ Count(j) <= limits["records"]
      BY <1>10 DEF Bounded
    <3> QED
      BY <1>12, <3>1, <3>2, <3>3
  <2> QED
    BY <2>2, <2>3
<1>19. Bounded'
  <2>1. /\ Preflight(limits)' /\ dir' = "safe" /\ manifest' = "safe"
        /\ Members \cup {Manifest} \subseteq safe'
    BY <1>10 DEF Bounded, Preflight, TotalsFit
  <2>2. /\ Total([j \in Members |-> Worst(j)']) <= limits'["totalBytes"]
        /\ Total([j \in Members |-> Count(j)']) <= limits'["totalRecords"]
    BY <1>1, <1>12, <1>15, <1>16 DEF TotalsFit
  <2>3. Total([j \in Members |-> Count(j)']) <= Total(acked') + 1
    BY <1>3, <1>12, <1>16, <1>17
  <2> HIDE DEF BeginCommit
  <2> QED
    BY <1>18, <2>1, <2>2, <2>3 DEF Bounded
<1> QED
  BY <1>6, <1>7, <1>8, <1>9, <1>19 DEF IInv

\* While a frame is being written, only its member may be torn.
LEMMA WritingFacts ==
  ASSUME IInv, writing # NoWrite
  PROVE  /\ writing[1] \in Members /\ writing[2] \in Nat /\ 0 < writing[2]
         /\ stage = "open" /\ poisoned = "no" /\ Acknowledged
         /\ tail[writing[1]] < writing[2]
         /\ \A j \in Members : Len(frames[j]) = acked[j]
         /\ \A j \in Members : j # writing[1] => tail[j] = 0
         /\ bytes = Total([j \in Members |-> Total(frames[j])])
         /\ records = Total([j \in Members |-> Len(frames[j])])
<1>1. stage = "open" /\ poisoned = "no" /\ tail[writing[1]] < writing[2]
  BY DEF IInv, Typing
<1>2. writing[1] \in Members /\ writing[2] \in Nat /\ 0 < writing[2]
  <2>1. writing \in Members \X FrameSizes
    BY DEF IInv, Typing
  <2>2. writing[1] \in Members /\ writing[2] \in FrameSizes
    BY <2>1
  <2>3. \A size \in FrameSizes : size \in Nat /\ 0 < size
    BY RegistryAssumption
  <2> QED
    BY <2>2, <2>3
<1>3. Acknowledged
  BY <1>1 DEF IInv, FramesFollowAcks
<1> QED
  BY <1>1, <1>2, <1>3 DEF IInv, Counted

\* WriteSome: the member may be torn; what it may come to was reserved.
LEMMA WriteSomeIInv == IInv /\ WriteSome => IInv'
<1> SUFFICES ASSUME IInv, WriteSome PROVE IInv'
  OBVIOUS
<1> USE DEF WriteSome, creation, totals
<1> DEFINE w == writing[1]
           z == writing[2]
<1>1. /\ w \in Members /\ z \in Nat /\ stage = "open" /\ poisoned = "no"
      /\ Acknowledged
  BY WritingFacts
<1>2. PICK k \in 1 .. z - 1 : tail' = [tail EXCEPT ![w] = k]
  OBVIOUS
<1>3. /\ tail' \in [Members -> Nat] /\ tail'[w] = k /\ k < z
      /\ \A j \in Members : j # w => tail'[j] = tail[j]
  <2>1. k \in Nat /\ k < z
    BY <1>1
  <2> QED
    BY <1>1, <1>2, <2>1 DEF IInv, Typing
<1>4. Typing'
  BY <1>1, <1>3 DEF IInv, Typing
<1>5. Creating'
  BY <1>1 DEF Creating, Starting, Building, Closing
<1>6. ManifestIsLast' /\ FramesFollowAcks' /\ OutcomesFollow'
  BY DEF IInv, ManifestIsLast, FramesFollowAcks, OutcomesFollow, Acknowledged
<1>7. Counted'
  <2>1. \A j \in Members : j # w => tail'[j] = 0
    BY <1>3, WritingFacts
  <2>2. TotalsFit(bytes, records, limits)
    BY <1>1 DEF IInv, Counted
  <2> QED
    BY <2>1, <2>2, WritingFacts DEF Counted, TotalsFit
<1>8. Bounded'
  <2>1. ASSUME NEW i \in Members
        PROVE  /\ Worst(i)' <= Worst(i) /\ Count(i)' <= Count(i)
               /\ acked'[i] >= acked[i]
    <3>1. Worst(i)' = Worst(i)
      BY <1>3 DEF Worst
    <3>2. Count(i)' = Count(i)
      BY DEF Count
    <3>3. Worst(i) \in Nat /\ Count(i) \in Nat /\ acked[i] \in Nat
      BY FiguresOfFiles DEF IInv, Typing, Figured
    <3> QED
      BY <3>1, <3>2, <3>3
  <2> QED
    BY <1>1, <1>4, <2>1, BoundedHolds
<1> QED
  BY <1>4, <1>5, <1>6, <1>7, <1>8 DEF IInv

\* The whole frame is there: what Complete does to the figures.
LEMMA CompleteEffect ==
  ASSUME IInv, writing # NoWrite, Complete
  PROVE  /\ frames' \in [Members -> Seq(Nat)] /\ tail' \in [Members -> Nat]
         /\ Total(frames'[writing[1]]) = Total(frames[writing[1]]) + writing[2]
         /\ Len(frames'[writing[1]]) = Len(frames[writing[1]]) + 1
         /\ tail'[writing[1]] = 0 /\ frames'[writing[1]] # <<>>
         /\ \A j \in Members : j # writing[1] =>
              frames'[j] = frames[j] /\ tail'[j] = tail[j]
<1> DEFINE w == writing[1]
           z == writing[2]
<1>1. w \in Members /\ z \in Nat
  BY WritingFacts
<1>2. /\ frames' = [frames EXCEPT ![w] = Append(frames[w], z)]
      /\ tail' = [tail EXCEPT ![w] = 0]
  BY DEF Complete
<1>3. frames \in [Members -> Seq(Nat)] /\ tail \in [Members -> Nat] /\ frames[w] \in Seq(Nat)
  BY <1>1 DEF IInv, Typing
<1> HIDE DEF w, z
<1>4. /\ Append(frames[w], z) \in Seq(Nat)
      /\ Len(Append(frames[w], z)) = Len(frames[w]) + 1
      /\ Append(frames[w], z) # <<>>
  BY SMTT(60), <1>1, <1>3
<1>5. Total(Append(frames[w], z)) = Total(frames[w]) + z
  BY <1>1, <1>3, TotalAppend
<1>6. frames' \in [Members -> Seq(Nat)] /\ tail' \in [Members -> Nat]
  BY <1>1, <1>2, <1>3, <1>4
<1>7. /\ frames'[w] = Append(frames[w], z) /\ tail'[w] = 0
      /\ \A j \in Members : j # w => frames'[j] = frames[j] /\ tail'[j] = tail[j]
  BY <1>1, <1>2, <1>3
<1> QED
  BY <1>4, <1>5, <1>6, <1>7 DEF w, z

\* Once nothing is being written, a member's size is what it may come to.
LEMMA WorstWhenIdle ==
  ASSUME writing = NoWrite, NEW i \in Members
  PROVE  Worst(i) = FileSize(i) /\ Count(i) = Len(frames[i]) + 0
<1>1. writing[1] # i
  BY MembersAreNumbered DEF NoWrite, Manifest
<1> QED
  BY <1>1 DEF Worst, Count, FileSize

\* CommitSucceeds: the frame, the acknowledgement and the totals together.
LEMMA CommitSucceedsIInv == IInv /\ CommitSucceeds => IInv'
<1> SUFFICES ASSUME IInv, CommitSucceeds PROVE IInv'
  OBVIOUS
<1> DEFINE w == writing[1]
           z == writing[2]
<1>0. /\ writing # NoWrite /\ Complete /\ writing' = NoWrite
      /\ acked' = [acked EXCEPT ![w] = acked[w] + 1]
      /\ bytes' = bytes + z /\ records' = records + 1
      /\ UNCHANGED <<stage, made, dir, entries, safe, manifest, limits, poisoned, outcome>>
  BY DEF CommitSucceeds, creation
<1>1. /\ w \in Members /\ z \in Nat /\ 0 < z /\ stage = "open" /\ poisoned = "no"
      /\ Acknowledged
      /\ \A j \in Members : Len(frames[j]) = acked[j]
      /\ \A j \in Members : j # w => tail[j] = 0
      /\ bytes = Total([j \in Members |-> Total(frames[j])])
      /\ records = Total([j \in Members |-> Len(frames[j])])
  BY <1>0, WritingFacts
<1>2. /\ frames' \in [Members -> Seq(Nat)] /\ tail' \in [Members -> Nat]
      /\ Total(frames'[w]) = Total(frames[w]) + z
      /\ Len(frames'[w]) = Len(frames[w]) + 1
      /\ tail'[w] = 0 /\ frames'[w] # <<>>
      /\ \A j \in Members : j # w => frames'[j] = frames[j] /\ tail'[j] = tail[j]
  BY <1>0, CompleteEffect
<1>3. /\ acked \in [Members -> Nat] /\ acked' \in [Members -> Nat]
      /\ acked'[w] = acked[w] + 1
      /\ \A j \in Members : j # w => acked'[j] = acked[j]
      /\ bytes \in Nat /\ records \in Nat
  BY SMTT(60), <1>0, <1>1 DEF IInv, Typing
<1>4. Figured
  BY FiguresOfFiles DEF IInv
<1> HIDE DEF w, z
<1>5. Typing'
  <2>1. bytes' \in Nat /\ records' \in Nat
    BY <1>0, <1>1, <1>3
  <2> QED
    BY <1>0, <1>2, <1>3, <2>1 DEF IInv, Typing
<1>6. Figured'
  BY <1>5, FiguresAfter
<1>7. Creating'
  BY <1>0, <1>1 DEF Creating, Starting, Building, Closing
<1>8. ManifestIsLast'
  BY <1>0, <1>2 DEF IInv, ManifestIsLast
<1>9. \A j \in Members : tail'[j] = 0 /\ Len(frames'[j]) = acked'[j]
  <2>1. TAKE j \in Members
  <2>2. CASE j = w
    BY <1>1, <1>2, <1>3, <2>2
  <2>3. CASE j # w
    BY <1>1, <1>2, <1>3, <2>3
  <2> QED
    BY <2>2, <2>3
<1>10. \A j \in Members : acked'[j] >= acked[j] /\ acked[j] >= 1 /\ acked'[j] \in Nat
  <2>1. \A j \in Members : acked[j] >= 1 /\ acked[j] \in Nat
    BY <1>1, <1>3 DEF IInv, FramesFollowAcks
  <2>2. TAKE j \in Members
  <2>3. CASE j = w
    BY <1>3, <2>1, <2>3
  <2>4. CASE j # w
    BY <1>3, <2>1, <2>4
  <2> QED
    BY <2>3, <2>4
<1>11. FramesFollowAcks'
  <2>1. ASSUME NEW j \in Members
        PROVE  acked'[j] >= 1 /\ Len(frames'[j]) \in acked'[j] .. acked'[j] + 1
    <3>1. /\ Len(frames'[j]) = acked'[j] /\ acked'[j] \in Nat
          /\ acked'[j] >= acked[j] /\ acked[j] >= 1 /\ acked[j] \in Nat
      BY <1>3, <1>9, <1>10
    <3> QED
      BY <3>1
  <2>2. Acknowledged'
    <3>1. acked'[w] > 0
      BY <1>1, <1>3
    <3> QED
      BY <1>1, <3>1 DEF Acknowledged
  <2> QED
    BY <2>1, <2>2 DEF FramesFollowAcks
<1>12. Bounded'
  <2>1. ASSUME NEW i \in Members
        PROVE  Worst(i)' <= Worst(i) /\ Count(i)' <= Count(i)
    <3>1. Worst(i)' = Total(frames'[i]) + tail'[i] /\ Count(i)' = Len(frames'[i]) + 0
      <4>1. writing'[1] # i
        BY <1>0, MembersAreNumbered DEF NoWrite, Manifest
      <4> QED
        BY <4>1 DEF Worst, Count
    <3>2. /\ Worst(i)' \in Nat /\ Worst(i) \in Nat /\ Count(i)' \in Nat /\ Count(i) \in Nat
          /\ Total(frames[i]) \in Nat /\ Len(frames[i]) \in Nat
      BY <1>4, <1>6 DEF Figured
    <3>3. CASE i = w
      <4>1. Worst(i) = Total(frames[i]) + z /\ Count(i) = Len(frames[i]) + 1
        BY <3>3 DEF Worst, Count, w, z
      <4>2. Worst(i)' = Total(frames[i]) + z + 0 /\ Count(i)' = Len(frames[i]) + 1 + 0
        BY <1>2, <3>1, <3>3
      <4> QED
        BY <1>1, <3>2, <4>1, <4>2
    <3>4. CASE i # w
      <4>1. Worst(i) = Total(frames[i]) + tail[i] /\ Count(i) = Len(frames[i]) + 0
        BY <3>4 DEF Worst, Count, w
      <4>2. Worst(i)' = Worst(i) /\ Count(i)' = Count(i)
        BY <1>2, <3>1, <3>4, <4>1
      <4> QED
        BY <3>2, <4>2
    <3> QED
      BY <3>3, <3>4
  <2> QED
    BY <1>0, <1>1, <1>5, <1>10, <2>1, BoundedHolds
<1>13. bytes' = Total([j \in Members |-> Total(frames'[j])])
  <2> DEFINE f == [j \in Members |-> Total(frames[j])]
             g == [j \in Members |-> Total(frames'[j])]
  <2>1. /\ f \in [Members -> Nat] /\ g \in [Members -> Nat]
        /\ \A n \in Members : n # w => f[n] = g[n]
        /\ g[w] = f[w] + z /\ f[w] \in Nat
    BY <1>1, <1>2, <1>4, <1>6 DEF Figured
  <2>2. Total(f) = bytes
    BY <1>1
  <2> HIDE DEF f, g
  <2>3. Total(g) = Total(f) + (g[w] - f[w])
    BY <1>1, <2>1, MemberTotalChange
  <2>4. Total(g) = bytes + z
    BY <1>1, <1>3, <2>1, <2>2, <2>3
  <2> QED
    BY <1>0, <2>4 DEF g, z
<1>14. records' = Total([j \in Members |-> Len(frames'[j])])
  <2> DEFINE f == [j \in Members |-> Len(frames[j])]
             g == [j \in Members |-> Len(frames'[j])]
  <2>1. /\ f \in [Members -> Nat] /\ g \in [Members -> Nat]
        /\ \A n \in Members : n # w => f[n] = g[n]
        /\ g[w] = f[w] + 1 /\ f[w] \in Nat
    BY <1>1, <1>2, <1>4, <1>6 DEF Figured
  <2>2. Total(f) = records
    BY <1>1
  <2> HIDE DEF f, g
  <2>3. Total(g) = Total(f) + (g[w] - f[w])
    BY <1>1, <2>1, MemberTotalChange
  <2>4. Total(g) = records + 1
    BY <1>3, <2>1, <2>2, <2>3
  <2> QED
    BY <1>0, <2>4 DEF g
<1>15. TotalsFit(bytes', records', limits')
  <2>1. Acknowledged'
    BY <1>11, <1>0, <1>1 DEF FramesFollowAcks
  <2>2. ASSUME NEW j \in Members
        PROVE  Worst(j)' = Total(frames'[j]) /\ Count(j)' = Len(frames'[j])
    <3>1. writing'[1] # j
      BY <1>0, MembersAreNumbered DEF NoWrite, Manifest
    <3>2. Worst(j)' = Total(frames'[j]) + tail'[j] /\ Count(j)' = Len(frames'[j]) + 0
      BY <3>1 DEF Worst, Count
    <3>3. tail'[j] = 0 /\ Total(frames'[j]) \in Nat /\ Len(frames'[j]) \in Nat
      BY <1>6, <1>9 DEF Figured
    <3> QED
      BY <3>2, <3>3
  <2>3. /\ [j \in Members |-> Worst(j)'] = [j \in Members |-> Total(frames'[j])]
        /\ [j \in Members |-> Count(j)'] = [j \in Members |-> Len(frames'[j])]
    BY <2>2
  <2>4. /\ Total([j \in Members |-> Worst(j)']) <= limits'["totalBytes"]
        /\ Total([j \in Members |-> Count(j)']) <= limits'["totalRecords"]
    BY <1>12, <2>1 DEF Bounded
  <2> QED
    BY <1>13, <1>14, <2>3, <2>4 DEF TotalsFit
<1>16. Counted'
  BY <1>9, <1>13, <1>14, <1>15 DEF Counted
<1>17. OutcomesFollow'
  BY <1>0, <1>1 DEF IInv, OutcomesFollow
<1> QED
  BY <1>5, <1>7, <1>8, <1>11, <1>12, <1>16, <1>17 DEF IInv

\* CommitFails: nothing is acknowledged, and nothing is written again.
LEMMA CommitFailsIInv == IInv /\ CommitFails => IInv'
<1> SUFFICES ASSUME IInv, CommitFails PROVE IInv'
  OBVIOUS
<1> DEFINE w == writing[1]
           z == writing[2]
<1>0. /\ writing # NoWrite /\ (Complete \/ UNCHANGED <<frames, tail>>)
      /\ writing' = NoWrite /\ poisoned' = "yes"
      /\ UNCHANGED <<stage, made, dir, entries, safe, manifest, limits, bytes, records,
                     acked, outcome>>
  BY DEF CommitFails, creation
<1>1. /\ w \in Members /\ z \in Nat /\ 0 < z /\ stage = "open"
      /\ Acknowledged /\ tail[w] < z
      /\ \A j \in Members : Len(frames[j]) = acked[j]
  BY <1>0, WritingFacts
<1>2. frames \in [Members -> Seq(Nat)] /\ tail \in [Members -> Nat] /\ acked \in [Members -> Nat]
  BY DEF IInv, Typing
<1>3. Figured
  BY FiguresOfFiles DEF IInv
<1>4. /\ frames' \in [Members -> Seq(Nat)] /\ tail' \in [Members -> Nat]
      /\ \A j \in Members : j # w => frames'[j] = frames[j] /\ tail'[j] = tail[j]
  BY <1>0, <1>2, CompleteEffect
<1>5. \/ /\ Total(frames'[w]) = Total(frames[w]) + z
         /\ Len(frames'[w]) = Len(frames[w]) + 1
         /\ tail'[w] = 0
      \/ frames'[w] = frames[w] /\ tail'[w] = tail[w]
  BY <1>0, CompleteEffect
<1> HIDE DEF w, z
<1>6. Typing'
  BY <1>0, <1>4 DEF IInv, Typing
<1>7. Figured'
  BY <1>6, FiguresAfter
<1>8. Creating'
  BY <1>0, <1>1 DEF Creating, Starting, Building, Closing
<1>9. ASSUME NEW j \in Members
      PROVE  /\ Len(frames'[j]) \in acked'[j] .. acked'[j] + 1
             /\ Worst(j)' <= Worst(j) /\ Count(j)' <= Count(j)
             /\ acked'[j] >= acked[j] /\ frames'[j] # <<>>
  <2>1. Worst(j)' = Total(frames'[j]) + tail'[j] /\ Count(j)' = Len(frames'[j]) + 0
    <3>1. writing'[1] # j
      BY <1>0, MembersAreNumbered DEF NoWrite, Manifest
    <3> QED
      BY <3>1 DEF Worst, Count
  <2>2. /\ Worst(j)' \in Nat /\ Worst(j) \in Nat /\ Count(j)' \in Nat /\ Count(j) \in Nat
        /\ Total(frames[j]) \in Nat /\ Len(frames[j]) \in Nat /\ tail[j] \in Nat
    BY <1>2, <1>3, <1>7 DEF Figured
  <2>3. /\ acked'[j] = acked[j] /\ acked[j] \in Nat /\ acked[j] >= 1
        /\ Len(frames[j]) = acked[j]
    BY <1>0, <1>1, <1>2 DEF IInv, FramesFollowAcks
  <2>4. CASE j = w
    <3>1. Worst(j) = Total(frames[j]) + z /\ Count(j) = Len(frames[j]) + 1
      BY <2>4 DEF Worst, Count, w, z
    <3>2. CASE /\ Total(frames'[j]) = Total(frames[j]) + z
               /\ Len(frames'[j]) = Len(frames[j]) + 1
               /\ tail'[j] = 0
      <4>1. Worst(j)' = Total(frames[j]) + z + 0 /\ Count(j)' = Len(frames[j]) + 1 + 0
        BY <2>1, <3>2
      <4>2. Len(frames'[j]) = acked'[j] + 1
        BY <2>3, <3>2
      <4>3. frames'[j] # <<>>
        BY <2>3, <4>2
      <4> QED
        BY <1>1, <2>2, <2>3, <3>1, <4>1, <4>2, <4>3
    <3>3. CASE frames'[j] = frames[j] /\ tail'[j] = tail[j]
      <4>1. Worst(j)' = Total(frames[j]) + tail[j] /\ Count(j)' = Len(frames[j]) + 0
        BY <2>1, <3>3
      <4>2. Len(frames'[j]) = acked'[j] /\ frames'[j] # <<>>
        BY <2>3, <3>3
      <4>3. tail[j] < z
        BY <1>1, <2>4
      <4> QED
        BY SMTT(60), <1>1, <2>2, <2>3, <3>1, <4>1, <4>2, <4>3
    <3> QED
      BY <1>5, <2>4, <3>2, <3>3
  <2>5. CASE j # w
    <3>1. frames'[j] = frames[j] /\ tail'[j] = tail[j]
      BY <1>4, <2>5
    <3>2. Worst(j) = Total(frames[j]) + tail[j] /\ Count(j) = Len(frames[j]) + 0
      BY <2>5 DEF Worst, Count, w
    <3>3. Worst(j)' = Worst(j) /\ Count(j)' = Count(j)
      BY <2>1, <3>1, <3>2
    <3>4. Len(frames'[j]) = acked'[j] /\ frames'[j] # <<>>
      BY <2>3, <3>1
    <3> QED
      BY <2>2, <2>3, <3>3, <3>4
  <2> QED
    BY <2>4, <2>5
<1>10. ManifestIsLast'
  BY <1>0, <1>9 DEF IInv, ManifestIsLast
<1>11. FramesFollowAcks'
  BY <1>0, <1>9 DEF IInv, FramesFollowAcks, Acknowledged
<1>12. Counted'
  BY <1>0 DEF Counted
<1>13. Bounded'
  BY <1>0, <1>1, <1>6, <1>9, BoundedHolds
<1>14. OutcomesFollow'
  BY <1>0, <1>1 DEF IInv, OutcomesFollow
<1> QED
  BY <1>6, <1>8, <1>10, <1>11, <1>12, <1>13, <1>14 DEF IInv

(***************************************************************************)
(* Crash and recovery.                                                     *)
(***************************************************************************)
\* What a crash leaves of a member is no more than what it may come to, and no
\* less than what was acknowledged of it.
LEMMA LeftOfMember ==
  ASSUME IInv, NEW i \in Members, NEW x \in Left(i)
  PROVE  /\ x[1] \in Seq(Nat) /\ x[2] \in Nat
         /\ Total(x[1]) + x[2] <= Worst(i) /\ Len(x[1]) <= Count(i)
         /\ Len(x[1]) \in acked[i] .. acked[i] + 1
         /\ frames[i] # <<>> /\ (stage # "open" \/ acked[i] >= 1) => x[1] # <<>>
<1>1. /\ frames[i] \in Seq(Nat) /\ tail[i] \in Nat /\ acked[i] \in Nat
      /\ Len(frames[i]) \in Nat
  BY DEF IInv, Typing
<1>2. /\ Total(frames[i]) \in Nat /\ Worst(i) \in Nat /\ Count(i) \in Nat
      /\ Total(frames[i]) + tail[i] <= Worst(i) /\ Len(frames[i]) <= Count(i)
  BY FiguresOfFiles DEF IInv, Figured, FileSize
<1>3. Len(frames[i]) \in acked[i] .. acked[i] + 1
  BY DEF IInv, FramesFollowAcks
<1>4. CASE x \in {<<frames[i], k>> : k \in 0 .. tail[i]}
  <2>1. PICK k \in 0 .. tail[i] : x = <<frames[i], k>>
    BY <1>4
  <2>2. x[1] = frames[i] /\ x[2] = k /\ k \in Nat /\ k <= tail[i]
    BY <1>1, <2>1
  <2>3. Total(x[1]) + x[2] <= Worst(i)
    BY <1>1, <1>2, <2>2
  <2> QED
    BY <1>1, <1>2, <1>3, <2>2, <2>3
<1>5. CASE /\ stage = "open" /\ Len(frames[i]) > acked[i]
           /\ x \in {<<Front(frames[i]), k>> : k \in 0 .. Last(frames[i]) - 1}
  <2>1. PICK k \in 0 .. Last(frames[i]) - 1 : x = <<Front(frames[i]), k>>
    BY <1>5
  <2>2. frames[i] # <<>>
    BY <1>1, <1>5
  <2>3. /\ Front(frames[i]) \in Seq(Nat)
        /\ Len(Front(frames[i])) = Len(frames[i]) - 1
        /\ Last(frames[i]) \in Nat
        /\ Total(frames[i]) = Total(Front(frames[i])) + Last(frames[i])
        /\ Total(Front(frames[i])) \in Nat
    BY <1>1, <2>2, TotalFront, TotalType
  <2>4. x[1] = Front(frames[i]) /\ x[2] = k /\ k \in Nat /\ k < Last(frames[i])
    BY <2>1, <2>3
  <2>5. Len(x[1]) = acked[i] /\ Len(x[1]) <= Count(i)
    <3>1. Len(frames[i]) = acked[i] + 1
      BY <1>1, <1>3, <1>5
    <3>2. Len(x[1]) = Len(frames[i]) - 1
      BY <2>3, <2>4
    <3> QED
      BY <1>1, <1>2, <3>1, <3>2
  <2>6. Total(x[1]) + x[2] <= Worst(i)
    BY SMTT(60), <1>1, <1>2, <2>3, <2>4
  <2>7. acked[i] >= 1 => x[1] # <<>>
    BY <1>1, <2>5
  <2>8. Len(x[1]) \in acked[i] .. acked[i] + 1
    BY <1>1, <2>5
  <2>9. x[1] \in Seq(Nat) /\ x[2] \in Nat
    BY <2>3, <2>4
  <2> QED
    BY <1>5, <2>5, <2>6, <2>7, <2>8, <2>9
<1>6. CASE writing[1] = i /\ x = <<Append(frames[i], writing[2]), 0>>
  <2>1. writing # NoWrite
    BY <1>6, MembersAreNumbered DEF NoWrite, Manifest
  <2>2. writing[2] \in Nat /\ Len(frames[i]) = acked[i]
    BY <2>1, WritingFacts
  <2>3. /\ x[1] \in Seq(Nat) /\ x[2] = 0
        /\ Len(x[1]) = Len(frames[i]) + 1 /\ x[1] # <<>>
    <3>1. ASSUME NEW s \in Seq(Nat), NEW z \in Nat
          PROVE  /\ Append(s, z) \in Seq(Nat) /\ Len(Append(s, z)) = Len(s) + 1
                 /\ Append(s, z) # <<>>
      <4>1. Append(s, z) \in Seq(Nat)
        OBVIOUS
      <4>2. Len(Append(s, z)) = Len(s) + 1
        OBVIOUS
      <4>3. Append(s, z)[Len(s) + 1] = z /\ Len(s) \in Nat
        OBVIOUS
      <4>4. Len(Append(s, z)) # Len(<<>>)
        BY <4>2, <4>3
      <4> QED
        BY <4>1, <4>2, <4>4
    <3>2. x[1] = Append(frames[i], writing[2]) /\ x[2] = 0
      BY <1>6
    <3> QED
      BY <1>1, <2>2, <3>1, <3>2
  <2>4. Total(x[1]) = Total(frames[i]) + writing[2]
    BY <1>1, <1>6, <2>2, TotalAppend
  <2>5. Worst(i) = Total(frames[i]) + writing[2] /\ Count(i) = Len(frames[i]) + 1
    BY <1>6 DEF Worst, Count
  <2> QED
    BY <1>1, <1>2, <2>2, <2>3, <2>4, <2>5
<1> QED
  BY <1>4, <1>5, <1>6 DEF Left, At

\* Crash: what is left of the members, and of the directory, is what a recovery
\* will find.
LEMMA CrashIInv == IInv /\ Crash => IInv'
<1> SUFFICES ASSUME IInv, Crash PROVE IInv'
  OBVIOUS
<1>0. /\ stage \notin {"none", "down"} /\ stage' = "down"
      /\ dir' \in IF dir = "made" THEN {"none", "made"} ELSE {dir}
      /\ safe' = entries'
      /\ manifest' \in IF manifest = "whole" THEN {"empty", "whole"} ELSE {manifest}
      /\ writing' = NoWrite
      /\ UNCHANGED <<made, limits, bytes, records, poisoned, acked, outcome>>
  BY DEF Crash, Go, totals
<1>1. entries' \subseteq entries /\ safe \subseteq entries'
  BY DEF Crash, IInv, Typing
<1>2. PICK l \in [Members -> UNION {Left(i) : i \in Members}] :
        /\ \A i \in Members : l[i] \in Left(i)
        /\ frames' = [i \in Members |-> l[i][1]]
        /\ tail' = [i \in Members |-> l[i][2]]
  BY DEF Crash
<1>3. ASSUME NEW i \in Members
      PROVE  /\ frames'[i] \in Seq(Nat) /\ tail'[i] \in Nat
             /\ Total(frames'[i]) + tail'[i] <= Worst(i) /\ Len(frames'[i]) <= Count(i)
             /\ Len(frames'[i]) \in acked'[i] .. acked'[i] + 1
             /\ frames[i] # <<>> => frames'[i] # <<>>
             /\ acked'[i] = acked[i] /\ acked[i] \in Nat
  <2>1. frames'[i] = l[i][1] /\ tail'[i] = l[i][2] /\ l[i] \in Left(i)
    BY <1>2
  <2>2. stage = "open" => acked[i] >= 1
    BY DEF IInv, FramesFollowAcks
  <2>3. acked'[i] = acked[i] /\ acked[i] \in Nat
    BY <1>0 DEF IInv, Typing
  <2> QED
    BY <2>1, <2>2, <2>3, LeftOfMember
<1>4. Typing'
  <2>1. frames' \in [Members -> Seq(Nat)] /\ tail' \in [Members -> Nat]
    BY <1>2, <1>3
  <2> QED
    BY <1>0, <1>1, <2>1 DEF IInv, Typing, Stages
<1>5. Creating'
  BY <1>0 DEF Creating, Starting, Building, Closing
<1>6. ManifestIsLast'
  <2>1. SUFFICES ASSUME Manifest \in entries', NEW i \in Members
                 PROVE  i \in safe' /\ frames'[i] # <<>>
    BY DEF ManifestIsLast
  <2>2. i \in safe /\ frames[i] # <<>>
    BY <1>1, <2>1 DEF IInv, ManifestIsLast
  <2> QED
    BY <1>0, <1>1, <1>3, <2>2
<1>7. FramesFollowAcks'
  BY <1>0, <1>3 DEF IInv, FramesFollowAcks, Acknowledged
<1>8. Counted'
  BY <1>0 DEF Counted
<1>9. Bounded'
  <2>1. SUFFICES ASSUME Acknowledged PROVE Bounded'
    BY <1>0 DEF Bounded, Acknowledged
  <2>2. dir = "safe" /\ manifest = "safe"
    BY <2>1 DEF IInv, Bounded
  <2>3. dir' = dir /\ manifest' = manifest /\ safe \subseteq safe'
    BY <1>0, <1>1, <2>2
  <2>4. ASSUME NEW i \in Members
        PROVE  /\ Worst(i)' <= Worst(i) /\ Count(i)' <= Count(i)
               /\ acked'[i] >= acked[i]
    <3>1. writing'[1] # i
      BY <1>0, MembersAreNumbered DEF NoWrite, Manifest
    <3>2. Worst(i)' = Total(frames'[i]) + tail'[i] /\ Count(i)' = Len(frames'[i]) + 0
      BY <3>1 DEF Worst, Count
    <3>3. Len(frames'[i]) \in Nat
      BY <1>3
    <3> QED
      BY <1>3, <3>2, <3>3
  <2> QED
    BY <1>0, <1>4, <2>1, <2>3, <2>4, BoundedHolds
<1>10. OutcomesFollow'
  BY <1>0 DEF IInv, OutcomesFollow
<1> QED
  BY <1>4, <1>5, <1>6, <1>7, <1>8, <1>9, <1>10 DEF IInv

\* Recover: what it returns is what the files hold, and it changes no file.
LEMMA RecoverIInv ==
  ASSUME IInv, NEW l \in Limits, Recover(l)
  PROVE  IInv'
<1> USE DEF Recover, creation, totals
<1>1. Typing'
  BY DEF IInv, Typing
<1>2. Creating'
  BY DEF IInv, Creating, Preflight, TotalsFit, Booted
<1>3. ManifestIsLast' /\ FramesFollowAcks'
  BY DEF IInv, ManifestIsLast, FramesFollowAcks, Acknowledged
<1>4. Counted'
  BY DEF Counted
<1>5. Bounded'
  <2>1. SUFFICES ASSUME Acknowledged PROVE Bounded'
    BY DEF Bounded, Acknowledged
  <2>2. ASSUME NEW i \in Members
        PROVE  /\ Worst(i)' <= Worst(i) /\ Count(i)' <= Count(i)
               /\ acked'[i] >= acked[i]
    <3>1. Worst(i)' = Worst(i) /\ Count(i)' = Count(i)
      BY DEF Worst, Count
    <3>2. Worst(i) \in Nat /\ Count(i) \in Nat /\ acked[i] \in Nat
      BY FiguresOfFiles DEF IInv, Figured, Typing
    <3> QED
      BY <3>1, <3>2
  <2> QED
    BY <1>1, <2>1, <2>2, BoundedHolds
<1>6. OutcomesFollow'
  <2>1. CASE outcome' = Refused
    BY <2>1 DEF OutcomesFollow
  <2>2. CASE outcome' # Refused
    <3>1. outcome' = [i \in Members |-> Len(frames[i])] /\ Recovers(l)
      BY <2>2
    <3>2. ASSUME NEW i \in Members
          PROVE  outcome'[i] >= 1 /\ outcome'[i] \in acked'[i] .. acked'[i] + 1
      <4>1. frames[i] # <<>> /\ frames[i] \in Seq(Nat)
        BY <3>1 DEF Recovers, MemberRecovers, IInv, Typing
      <4>2. Len(frames[i]) \in acked[i] .. acked[i] + 1
        BY DEF IInv, FramesFollowAcks
      <4>3. Len(frames[i]) >= 1
        BY <4>1
      <4> QED
        BY <3>1, <4>2, <4>3
    <3> QED
      BY <3>2 DEF OutcomesFollow
  <2> QED
    BY <2>1, <2>2
<1> QED
  BY <1>1, <1>2, <1>3, <1>4, <1>5, <1>6 DEF IInv

(***************************************************************************)
(* The invariant holds at every step.                                      *)
(***************************************************************************)
\* Every operation on the registry and every crash keeps the invariant.
LEMMA NextIInv == IInv /\ [Next]_vars => IInv'
<1> SUFFICES ASSUME IInv, [Next]_vars PROVE IInv'
  OBVIOUS
<1>1. CASE Create
  BY <1>1, CreateIInv
<1>2. CASE CreateFails
  BY <1>2, CreateFailsIInv
<1>3. CASE MakeDirectory
  BY <1>3, MakeDirectoryIInv
<1>4. CASE SyncParent
  BY <1>4, SyncParentIInv
<1>5. CASE CreateMember
  BY <1>5, CreateMemberIInv
<1>6. CASE WriteSomeOfBootstrap
  BY <1>6, WriteSomeOfBootstrapIInv
<1>7. CASE CommitBootstrap
  BY <1>7, CommitBootstrapIInv
<1>8. CASE SyncMember
  BY <1>8, SyncMemberIInv
<1>9. CASE CreateManifest
  BY <1>9, CreateManifestIInv
<1>10. CASE WriteManifest
  BY <1>10, WriteManifestIInv
<1>11. CASE SyncManifest
  BY <1>11, SyncManifestIInv
<1>12. CASE Open
  BY <1>12, OpenIInv
<1>13. CASE \E i \in Members, size \in FrameSizes : BeginCommit(i, size)
  BY <1>13, BeginCommitIInv
<1>14. CASE WriteSome
  BY <1>14, WriteSomeIInv
<1>15. CASE CommitSucceeds
  BY <1>15, CommitSucceedsIInv
<1>16. CASE CommitFails
  BY <1>16, CommitFailsIInv
<1>17. CASE Crash
  BY <1>17, CrashIInv
<1>18. CASE \E l \in Limits : Recover(l)
  BY <1>18, RecoverIInv
<1>19. CASE UNCHANGED vars
  BY <1>19 DEF vars, creation, totals, IInv, Typing, Creating, Booted, ManifestIsLast,
       FramesFollowAcks, Acknowledged, Counted, Bounded, Worst, Count, OutcomesFollow,
       Preflight, TotalsFit
<1> QED
  BY <1>1, <1>2, <1>3, <1>4, <1>5, <1>6, <1>7, <1>8, <1>9, <1>10, <1>11, <1>12,
     <1>13, <1>14, <1>15, <1>16, <1>17, <1>18, <1>19 DEF Next

\* Of every registry, at every step: the stages of its creation, the reservation
\* of a frame before it is written, and what a crash can leave.
THEOREM RegistryInvariance == Spec => []IInv
<1>1. Init => IInv
  BY InitIInv
<1>2. IInv /\ [Next]_vars => IInv'
  BY NextIInv
<1> QED
  BY <1>1, <1>2, PTL DEF Spec

(***************************************************************************)
(* What follows from it.                                                   *)
(***************************************************************************)
\* An idle registry counts what its files hold, the torn tails included.
LEMMA TotalsFromInvariant == IInv => TotalsExact
<1> SUFFICES ASSUME IInv, stage = "open", writing = NoWrite, poisoned = "no"
             PROVE  /\ bytes = Total([i \in Members |-> FileSize(i)])
                    /\ records = Total([i \in Members |-> Len(frames[i])])
                    /\ TotalsFit(bytes, records, limits)
  BY DEF TotalsExact, Idle, At
<1>1. /\ bytes = Total([i \in Members |-> Total(frames[i])])
      /\ records = Total([i \in Members |-> Len(frames[i])])
      /\ TotalsFit(bytes, records, limits)
      /\ \A i \in Members : i # writing[1] => tail[i] = 0
  BY DEF IInv, Counted
<1>2. ASSUME NEW i \in Members
      PROVE  FileSize(i) = Total(frames[i])
  <2>1. i # writing[1]
    BY MembersAreNumbered DEF NoWrite, Manifest
  <2>2. FileSize(i) = Total(frames[i]) + 0
    BY <1>1, <2>1 DEF FileSize
  <2>3. Total(frames[i]) \in Nat
    BY FiguresOfFiles DEF IInv, Figured
  <2> QED
    BY <2>2, <2>3
<1>3. [i \in Members |-> FileSize(i)] = [i \in Members |-> Total(frames[i])]
  BY <1>2
<1> QED
  BY <1>1, <1>3

\* The shared totals of reserve_record and commit_member_record are exact, for
\* any number of tables.
THEOREM RegistryTotals == Spec => []TotalsExact
  BY RegistryInvariance, TotalsFromInvariant, PTL

\* Whatever a crash left of an acknowledged registry, the limits it was written
\* with admit it: no member, and no prefix of the members that recover_registry
\* adds up, is beyond them.
LEMMA RecoversWhatWasWritten ==
  ASSUME IInv, stage = "down", Acknowledged
  PROVE  /\ Recovers(limits)
         /\ \A i \in Members : Len(frames[i]) >= acked[i]
         /\ Total([i \in Members |-> Len(frames[i])]) <= Total(acked) + 1
<1>1. /\ Preflight(limits) /\ dir = "safe" /\ manifest = "safe"
      /\ Members \cup {Manifest} \subseteq safe
      /\ \A i \in Members : Worst(i) <= limits["fileBytes"] /\ Count(i) <= limits["records"]
      /\ Total([i \in Members |-> Worst(i)]) <= limits["totalBytes"]
      /\ Total([i \in Members |-> Count(i)]) <= limits["totalRecords"]
      /\ Total([i \in Members |-> Count(i)]) <= Total(acked) + 1
  BY DEF IInv, Bounded
<1>2. writing = NoWrite /\ safe \subseteq entries /\ limits \in [LimitFields -> Nat]
  BY RegistryAssumption DEF IInv, Typing
<1>3. limits["totalBytes"] \in Nat /\ limits["totalRecords"] \in Nat
  BY <1>2 DEF LimitFields
<1>4. Figured
  BY FiguresOfFiles DEF IInv
<1>5. ASSUME NEW i \in Members
      PROVE  Worst(i) = FileSize(i) /\ Count(i) = Len(frames[i])
  <2>1. Worst(i) = FileSize(i) /\ Count(i) = Len(frames[i]) + 0
    BY <1>2, WorstWhenIdle
  <2> QED
    BY <1>4, <2>1 DEF Figured
<1> DEFINE sizes == [i \in Members |-> FileSize(i)]
           counts == [i \in Members |-> Len(frames[i])]
<1>6. /\ [i \in Members |-> Worst(i)] = sizes
      /\ [i \in Members |-> Count(i)] = counts
  BY <1>5
<1>7. /\ sizes \in [Members -> Nat] /\ counts \in [Members -> Nat]
      /\ \A i \in Members : sizes[i] = FileSize(i) /\ counts[i] = Len(frames[i])
  BY <1>4 DEF Figured
<1>8. ASSUME NEW i \in Members
      PROVE  MemberRecovers(i, limits)
  <2>1. \A j \in 1 .. i - 1 : j \in Members
    BY MembersAreNumbered
  <2>2. /\ [j \in 1 .. i - 1 |-> FileSize(j)] = [j \in 1 .. i - 1 |-> sizes[j]]
        /\ [j \in 1 .. i - 1 |-> Len(frames[j])] = [j \in 1 .. i - 1 |-> counts[j]]
    BY <1>7, <2>1
  <2>3. /\ [j \in 1 .. i - 1 |-> sizes[j]] \in Seq(Nat)
        /\ Total([j \in 1 .. i - 1 |-> sizes[j]]) + sizes[i] <= Total(sizes)
        /\ [j \in 1 .. i - 1 |-> counts[j]] \in Seq(Nat)
        /\ Total([j \in 1 .. i - 1 |-> counts[j]]) + counts[i] <= Total(counts)
    <3> HIDE DEF sizes, counts
    <3> QED
      BY <1>7, MemberPrefix
  <2>4. /\ Total([j \in 1 .. i - 1 |-> sizes[j]]) \in Nat
        /\ Total([j \in 1 .. i - 1 |-> counts[j]]) \in Nat
        /\ Total(sizes) \in Nat /\ Total(counts) \in Nat
        /\ sizes[i] \in Nat /\ counts[i] \in Nat
    <3> HIDE DEF sizes, counts
    <3> QED
      BY <1>7, <2>3, TotalType, MemberTotalType
  <2>5. /\ Total(sizes) <= limits["totalBytes"]
        /\ Total(counts) <= limits["totalRecords"]
    BY <1>1, <1>6
  <2>6. /\ Total([j \in 1 .. i - 1 |-> sizes[j]]) + sizes[i] <= limits["totalBytes"]
        /\ Total([j \in 1 .. i - 1 |-> counts[j]]) + counts[i] <= limits["totalRecords"]
    <3> HIDE DEF sizes, counts
    <3> QED
      BY SMTT(60), <1>3, <2>3, <2>4, <2>5
  <2>7. /\ Total([j \in 1 .. i - 1 |-> FileSize(j)]) + FileSize(i) <= limits["totalBytes"]
        /\ Total([j \in 1 .. i - 1 |-> Len(frames[j])]) + Len(frames[i])
             <= limits["totalRecords"]
    <3>1. sizes[i] = FileSize(i) /\ counts[i] = Len(frames[i])
      BY <1>7
    <3> HIDE DEF sizes, counts
    <3> QED
      BY <2>2, <2>6, <3>1
  <2>8. FileSize(i) <= limits["fileBytes"] /\ Len(frames[i]) <= limits["records"]
    BY <1>1, <1>5
  <2>9. i \in entries /\ frames[i] # <<>>
    BY <1>1, <1>2 DEF IInv, ManifestIsLast
  <2> HIDE DEF sizes, counts
  <2> QED
    BY <2>7, <2>8, <2>9 DEF MemberRecovers, TotalsFit
<1>9. Recovers(limits)
  BY <1>1, <1>2, <1>8 DEF Recovers, Preflight
<1>10. \A i \in Members : Len(frames[i]) >= acked[i]
  <2>1. TAKE i \in Members
  <2>2. Len(frames[i]) \in acked[i] .. acked[i] + 1 /\ acked[i] \in Nat
    BY DEF IInv, FramesFollowAcks, Typing
  <2> QED
    BY <2>2
<1> QED
  BY <1>1, <1>6, <1>9, <1>10

\* Recovery is all or nothing, and exact.
LEMMA RecoveryFromInvariant == IInv => RecoveryIsExact
<1> SUFFICES ASSUME IInv PROVE RecoveryIsExact
  OBVIOUS
<1>1. Manifest \in entries => \A i \in Members : i \in safe /\ frames[i] # <<>>
  BY DEF IInv, ManifestIsLast
<1>2. outcome # Refused =>
        \A i \in Members : outcome[i] >= 1 /\ outcome[i] \in acked[i] .. acked[i] + 1
  BY DEF IInv, OutcomesFollow
<1> QED
  BY <1>1, <1>2, RecoversWhatWasWritten DEF RecoveryIsExact

\* recover_registry after a crash at any step of create_registry or of a commit,
\* for any number of tables, any frames and any limits.
THEOREM RegistryRecovery == Spec => []RecoveryIsExact
  BY RegistryInvariance, RecoveryFromInvariant, PTL

=============================================================================
