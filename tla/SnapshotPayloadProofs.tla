------------------------ MODULE SnapshotPayloadProofs ------------------------
(***************************************************************************)
(* The snapshot codecs read back what they wrote and accept nothing else,  *)
(* for payloads of any length.  The encoders flatten a sequence of encoded *)
(* rows or runs and the decoders fold a scan over the payload, so the      *)
(* first part is about folds and flattened sequences; then each codec is   *)
(* shown to invert its own encoding, in both directions; the last part     *)
(* carries that to a file saved, perhaps altered, and restored.            *)
(***************************************************************************)
EXTENDS SnapshotPayload, TLAPS, SequenceTheorems, WellFoundedInduction

(***************************************************************************)
(* Words of two bytes.                                                     *)
(***************************************************************************)
\* Cells: what a row of Option<i64> can hold.
Cells == 0 .. WordMax \cup {Null}

(* Where the elements of two concatenated sequences are. *)
LEMMA ConcatAt ==
  ASSUME NEW S, NEW a \in Seq(S), NEW b \in Seq(S)
  PROVE  /\ a \o b \in Seq(S) /\ Len(a \o b) = Len(a) + Len(b)
         /\ \A x \in 1 .. Len(a) : (a \o b)[x] = a[x]
         /\ \A x \in 1 .. Len(b) : (a \o b)[Len(a) + x] = b[x]
OBVIOUS

(* A word is two bytes, and NULL is not one. *)
LEMMA BaseFacts == Base \in Nat /\ Base > 2 /\ WordMax \in Nat /\ WordMax >= 8 /\ Null \notin 0 .. WordMax
<1>1. Base \in Nat /\ Base >= 3
  BY PayloadAssumption
<1>2. Base * Base \in Nat /\ Base * Base >= 9
  <2>1. (Base - 3) * (Base + 3) >= 0
    BY <1>1
  <2>. QED BY <1>1, <2>1
<1>. QED BY <1>1, <1>2, PayloadAssumption DEF WordMax

(* What Word writes, WordAt reads. *)
LEMMA WordBytes ==
  ASSUME NEW n \in 0 .. WordMax
  PROVE  /\ Word(n) \in Seq(Bytes) /\ Len(Word(n)) = 2
         /\ Word(n)[1] + Base * Word(n)[2] = n
<1>1. Base \in Nat /\ Base >= 3 /\ n \in Nat /\ n < Base * Base
  BY PayloadAssumption DEF WordMax
<1>2. n = Base * (n \div Base) + (n % Base) /\ n % Base \in 0 .. Base - 1 /\ n \div Base \in Nat
  BY <1>1
<1>3. n \div Base < Base
  <2>1. SUFFICES ASSUME n \div Base >= Base PROVE FALSE
    BY <1>1, <1>2
  <2>2. Base * (n \div Base) >= Base * Base
    BY <1>1, <1>2, <2>1
  <2>. QED BY <1>1, <1>2, <2>2
<1>. QED BY <1>1, <1>2, <1>3 DEF Word, Bytes

(* What WordAt reads, Word writes. *)
LEMMA BytesWord ==
  ASSUME NEW a \in Bytes, NEW b \in Bytes
  PROVE  a + Base * b \in 0 .. WordMax /\ Word(a + Base * b) = <<a, b>>
<1>1. Base \in Nat /\ Base >= 3 /\ a \in 0 .. Base - 1 /\ b \in 0 .. Base - 1
  BY PayloadAssumption DEF Bytes
<1> DEFINE n == a + Base * b
<1>2. n \in Nat /\ n < Base * Base
  <2>1. Base * b <= Base * (Base - 1) /\ Base * b >= 0
    BY <1>1
  <2>. QED BY <1>1, <2>1
<1>3. n = Base * (n \div Base) + (n % Base) /\ n % Base \in 0 .. Base - 1 /\ n \div Base \in Nat
  BY <1>1, <1>2
<1>4. n \div Base = b /\ n % Base = a
  <2> DEFINE q == n \div Base
             r == n % Base
  <2>0. q \in Nat /\ r \in 0 .. Base - 1 /\ a + Base * b = Base * q + r
    BY <1>3
  <2> HIDE DEF q, r
  <2>1. ASSUME q > b PROVE FALSE
    <3>1. Base * q >= Base * (b + 1)
      BY <1>1, <2>0, <2>1
    <3>. QED BY <1>1, <2>0, <3>1
  <2>2. ASSUME q < b PROVE FALSE
    <3>1. Base * b >= Base * (q + 1)
      BY <1>1, <2>0, <2>2
    <3>. QED BY <1>1, <2>0, <3>1
  <2>3. q = b
    BY <1>1, <2>0, <2>1, <2>2
  <2>4. r = a
    BY <1>1, <2>0, <2>3
  <2>. QED BY <2>3, <2>4 DEF q, r
<1>5. Word(n) = <<a, b>>
  BY <1>4 DEF Word
<1>6. n \in 0 .. WordMax
  BY <1>1, <1>2 DEF WordMax
<1>. QED BY <1>5, <1>6

(***************************************************************************)
(* Folds: the recursion behind FoldLeft, step by step.                     *)
(***************************************************************************)
(* The naturals are well ordered: positions of a sequence have a first one. *)
LEMMA LeastElement ==
    ASSUME NEW S \in SUBSET Nat, S # {}
    PROVE  \E n \in S : \A m \in S : n <= m
<1> DEFINE R == OpToRel(<, Nat)
<1>1. IsWellFoundedOn(R, Nat)
  BY NatLessThanWellFounded
<1>2. PICK n \in S : \A m \in S : <<m, n>> \notin R
  BY <1>1, WFMin
<1>3. \A m \in S : m < n => <<m, n>> \in R
  BY DEF OpToRel
<1> HIDE DEF R
<1>4. \A m \in S : ~(m < n)
  BY <1>2, <1>3
<1>. QED BY <1>4

(* What holds at 0 and is passed on from each position to the next holds at
   every position. *)
LEMMA InductionUpTo ==
    ASSUME NEW n \in Nat, NEW S, 0 \in S, \A k \in 1..n : k - 1 \in S => k \in S
    PROVE  0..n \subseteq S
<1> DEFINE B == (0..n) \ S
<1>1. SUFFICES ASSUME B # {} PROVE FALSE
  OBVIOUS
<1>2. PICK k \in B : \A m \in B : k <= m
  <2>1. B \in SUBSET Nat
    OBVIOUS
  <2> HIDE DEF B
  <2>. QED BY <1>1, <2>1, LeastElement
<1>3. k \in 1..n /\ k - 1 \in 0..n /\ k - 1 \notin B
  BY <1>2
<1>. QED BY <1>2, <1>3

(* A set of positions has a last one. *)
LEMMA LastPosition ==
    ASSUME NEW n \in Nat, NEW s \in SUBSET (1..n), s # {}
    PROVE  Max(s) \in s /\ \A y \in s : y <= Max(s)
<1> DEFINE U == {m \in Nat : \A y \in s : y <= m}
<1>1. U \in SUBSET Nat /\ n \in U
  OBVIOUS
<1>2. PICK m \in U : \A k \in U : m <= k
  BY <1>1, LeastElement
<1>3. m \in s
  <2> SUFFICES ASSUME m \notin s PROVE FALSE
    OBVIOUS
  <2>1. m \in Nat /\ \A y \in s : y \in 1..n /\ y <= m /\ y # m
    OBVIOUS
  <2>2. \A y \in s : y <= m - 1
    BY <2>1
  <2>3. m - 1 \in Nat
    <3>1. PICK y \in s : TRUE
      OBVIOUS
    <3>2. y \in 1..n /\ y <= m
      BY <2>1
    <3>. QED BY <2>1, <3>2
  <2>4. m <= m - 1
    BY <1>2, <2>2, <2>3
  <2>. QED BY <2>1, <2>4
<1>4. \E x \in s : \A y \in s : x >= y
  BY <1>2, <1>3
<1>5. Max(s) \in s /\ \A y \in s : Max(s) >= y
  <2>1. Max(s) = CHOOSE x \in s : \A y \in s : x >= y
    BY DEF Max
  <2>2. \E x : x \in s /\ \A y \in s : x >= y
    BY <1>4
  <2>3. Max(s) = CHOOSE x : x \in s /\ \A y \in s : x >= y
    BY <2>1, Zenon
  <2>. QED BY <2>2, <2>3, Zenon
<1>6. \A y \in s : y <= Max(s)
  BY <1>5
<1>. QED BY <1>5, <1>6

(* it is the recursion behind FoldLeft: over sets of positions, last first. *)
Iterates(it, n, base, step) ==
    it = [s \in SUBSET (1..n) |-> IF s = {} THEN base ELSE step[<<Max(s), it[s \ {Max(s)}]>>]]

(* That recursion is well defined. *)
LEMMA IterationExists ==
    ASSUME NEW n \in Nat, NEW V, NEW base \in V, NEW step \in [(1..n) \X V -> V]
    PROVE  \E it \in [SUBSET (1..n) -> V] : Iterates(it, n, base, step)
<1> DEFINE K == {k \in 0..n : \E it \in [SUBSET (1..k) -> V] : Iterates(it, k, base, step)}
<1>1. 0 \in K
  <2> DEFINE it == [s \in SUBSET (1..0) |-> base]
  <2>1. \A s \in SUBSET (1..0) : s = {}
    OBVIOUS
  <2>2. it \in [SUBSET (1..0) -> V] /\ Iterates(it, 0, base, step)
    BY <2>1 DEF Iterates
  <2>. QED BY <2>2
<1>2. ASSUME NEW k \in 1..n, k - 1 \in K PROVE k \in K
  <2>1. PICK f \in [SUBSET (1..(k - 1)) -> V] : Iterates(f, k - 1, base, step)
    BY <1>2
  <2> DEFINE it == [s \in SUBSET (1..k) |->
                      IF k \in s THEN step[<<k, f[s \ {k}]>>] ELSE f[s]]
  <2>2. \A s \in SUBSET (1..k) : s \ {k} \in SUBSET (1..(k - 1)) /\ (k \notin s => s \in SUBSET (1..(k - 1)))
    OBVIOUS
  <2>3. \A s \in SUBSET (1..k) : k \in s => Max(s) = k
    <3> SUFFICES ASSUME NEW s \in SUBSET (1..k), k \in s PROVE Max(s) = k
      OBVIOUS
    <3>1. k \in Nat /\ s # {}
      OBVIOUS
    <3>2. Max(s) \in s /\ \A y \in s : y <= Max(s)
      BY <3>1, LastPosition
    <3>3. Max(s) \in 1..k /\ k <= Max(s)
      BY <3>2
    <3>. QED BY <3>3
  <2>4. it \in [SUBSET (1..k) -> V]
    BY <2>1, <2>2
  <2>5. ASSUME NEW s \in SUBSET (1..k)
        PROVE  it[s] = IF s = {} THEN base ELSE step[<<Max(s), it[s \ {Max(s)}]>>]
    <3>1. CASE k \in s
      <4>1. Max(s) = k /\ s # {} /\ s \ {k} \in SUBSET (1..k) /\ k \notin s \ {k}
        BY <2>3, <3>1
      <4>2. it[s] = step[<<k, f[s \ {k}]>>] /\ it[s \ {k}] = f[s \ {k}]
        BY <3>1, <4>1
      <4>. QED BY <4>1, <4>2
    <3>2. CASE k \notin s /\ s # {}
      <4>0. k \in Nat
        OBVIOUS
      <4>1. s \in SUBSET (1..(k - 1)) /\ Max(s) \in s
        BY <2>2, <3>2, <4>0, LastPosition
      <4>2. f[s] = step[<<Max(s), f[s \ {Max(s)}]>>]
        BY <2>1, <3>2, <4>1 DEF Iterates
      <4>3. s \ {Max(s)} \in SUBSET (1..k) /\ k \notin s \ {Max(s)}
        BY <3>2, <4>1
      <4>. QED BY <3>2, <4>2, <4>3
    <3>3. CASE s = {}
      <4>1. s \in SUBSET (1..(k - 1)) /\ k \notin s
        BY <3>3
      <4>2. f[s] = base
        BY <2>1, <3>3, <4>1 DEF Iterates
      <4>. QED BY <3>3, <4>1, <4>2
    <3>. QED BY <3>1, <3>2, <3>3
  <2> HIDE DEF it
  <2>6. Iterates(it, k, base, step)
    BY <2>4, <2>5 DEF Iterates
  <2>. QED BY <2>4, <2>6
<1> HIDE DEF K
<1>3. 0..n \subseteq K
  BY <1>1, <1>2, InductionUpTo
<1>4. n \in 0..n
  OBVIOUS
<1>5. n \in K
  BY <1>3, <1>4
<1>. QED BY <1>5 DEF K

(* Up to each position there is exactly one last one. *)
LEMMA LastUpTo ==
    ASSUME NEW n \in Nat, NEW k \in 1..n
    PROVE  /\ 1..k \in SUBSET (1..n) /\ 1..k # {} /\ Max(1..k) = k
           /\ (1..k) \ {k} = 1..(k - 1)
<1>1. 1..k \in SUBSET (1..n) /\ 1..k # {} /\ k \in 1..k
  OBVIOUS
<1>2. Max(1..k) \in 1..k /\ \A y \in 1..k : y <= Max(1..k)
  BY <1>1, LastPosition
<1>3. Max(1..k) = k
  BY <1>1, <1>2
<1>4. (1..k) \ {k} = 1..(k - 1)
  OBVIOUS
<1>. QED BY <1>1, <1>3, <1>4

(***************************************************************************)
(* FlattenSeq: sequences laid out one after the other.                     *)
(***************************************************************************)
\* p is the sequences one after the other; the k-th ends at at[k].
LaidOut(p, at, seqs) ==
  /\ at \in [0 .. Len(seqs) -> Nat]
  /\ at[0] = 0 /\ at[Len(seqs)] = Len(p)
  /\ \A k \in 1 .. Len(seqs) :
       /\ at[k] = at[k - 1] + Len(seqs[k]) /\ at[k] <= Len(p)
       /\ \A x \in 1 .. Len(seqs[k]) : p[at[k - 1] + x] = seqs[k][x]

\* f is what the sequences amount to after each of them.
FlatUpTo(f, seqs, n) ==
  f = [i \in 1 .. n |-> IF i = 1 THEN seqs[i] ELSE f[i - 1] \o seqs[i]]

(* The prefixes of a flattened sequence of sequences, position by position. *)
LEMMA FlatUpToExists ==
  ASSUME NEW S, NEW seqs \in Seq(Seq(S)), NEW n \in 0 .. Len(seqs)
  PROVE  \E f \in [1 .. n -> Seq(S)] : FlatUpTo(f, seqs, n)
<1> DEFINE L == Len(seqs)
           N == {k \in 0 .. L : \E f \in [1 .. k -> Seq(S)] : FlatUpTo(f, seqs, k)}
<1>0. L \in Nat /\ \A k \in 1 .. L : seqs[k] \in Seq(S)
  OBVIOUS
<1>1. 0 \in N
  <2> DEFINE f == [i \in 1 .. 0 |-> <<>>]
  <2>1. \A i \in 1 .. 0 : FALSE
    OBVIOUS
  <2>2. f \in [1 .. 0 -> Seq(S)] /\ FlatUpTo(f, seqs, 0)
    BY <2>1 DEF FlatUpTo
  <2>3. 0 \in 0 .. L
    BY <1>0
  <2>. QED BY <2>2, <2>3
<1>2. ASSUME NEW k \in 1 .. L, k - 1 \in N PROVE k \in N
  <2>1. PICK f \in [1 .. k - 1 -> Seq(S)] : FlatUpTo(f, seqs, k - 1)
    BY <1>2
  <2> DEFINE v == IF k = 1 THEN seqs[k] ELSE f[k - 1] \o seqs[k]
             g == [i \in 1 .. k |-> IF i = k THEN v ELSE f[i]]
  <2>2. v \in Seq(S)
    <3>1. seqs[k] \in Seq(S)
      BY <1>0
    <3>2. k # 1 => f[k - 1] \in Seq(S)
      BY <1>0
    <3>. QED BY <3>1, <3>2, ConcatProperties
  <2>3. \A i \in 1 .. k : i # k => i \in 1 .. k - 1
    OBVIOUS
  <2>4. g \in [1 .. k -> Seq(S)]
    <3> HIDE DEF v
    <3>. QED BY <2>2, <2>3
  <2>5. ASSUME NEW i \in 1 .. k
        PROVE  g[i] = IF i = 1 THEN seqs[i] ELSE g[i - 1] \o seqs[i]
    <3>1. CASE i = k
      <4>1. k # 1 => k - 1 \in 1 .. k /\ k - 1 # k
        OBVIOUS
      <4>2. k # 1 => g[k - 1] = f[k - 1]
        <5> HIDE DEF v
        <5>. QED BY <4>1
      <4>3. g[k] = v
        <5> HIDE DEF v
        <5>. QED OBVIOUS
      <4> HIDE DEF g
      <4>. QED BY <3>1, <4>2, <4>3
    <3>2. CASE i # k
      <4>1. i \in 1 .. k - 1 /\ (i # 1 => i - 1 \in 1 .. k /\ i - 1 # k)
        BY <3>2
      <4>2. f[i] = IF i = 1 THEN seqs[i] ELSE f[i - 1] \o seqs[i]
        BY <4>1, <2>1 DEF FlatUpTo
      <4>3. g[i] = f[i] /\ (i # 1 => g[i - 1] = f[i - 1])
        <5> HIDE DEF v
        <5>. QED BY <3>2, <4>1
      <4> HIDE DEF g
      <4>. QED BY <4>2, <4>3
    <3>. QED BY <3>1, <3>2
  <2> HIDE DEF g, v
  <2>6. FlatUpTo(g, seqs, k)
    BY <2>4, <2>5 DEF FlatUpTo
  <2>7. k \in 0 .. L
    OBVIOUS
  <2>. QED BY <2>4, <2>6, <2>7
<1> HIDE DEF N
<1>3. 0 .. L \subseteq N
  <2> HIDE DEF L
  <2>. QED BY <1>0, <1>1, <1>2, InductionUpTo
<1>4. n \in N
  BY <1>3
<1>. QED BY <1>4 DEF N

\* FlattenSeq, unfolded.
Flat(seqs) == CHOOSE f : FlatUpTo(f, seqs, Len(seqs))

(* FlattenSeq is the last of those prefixes. *)
LEMMA FlattenIsLast ==
  ASSUME NEW seqs
  PROVE  FlattenSeq(seqs) = IF Len(seqs) = 0 THEN seqs ELSE Flat(seqs)[Len(seqs)]
BY DEF FlattenSeq, Flat, FlatUpTo

\* The pass over the sequences: what they amount to after each of them.
LEMMA FlattenPass ==
  ASSUME NEW S, NEW seqs \in Seq(Seq(S))
  PROVE  \E g \in [0 .. Len(seqs) -> Seq(S)] :
           /\ g[0] = <<>> /\ g[Len(seqs)] = FlattenSeq(seqs)
           /\ \A k \in 1 .. Len(seqs) : g[k] = g[k - 1] \o seqs[k]
<1> DEFINE L == Len(seqs)
           f == Flat(seqs)
           g == [k \in 0 .. L |-> IF k = 0 THEN <<>> ELSE f[k]]
           N == {k \in 0 .. L : g[k] \in Seq(S)}
<1>0. L \in Nat /\ \A k \in 1 .. L : seqs[k] \in Seq(S)
  OBVIOUS
<1>1. \E h : FlatUpTo(h, seqs, L)
  <2>1. L \in 0 .. L
    OBVIOUS
  <2>. QED BY <2>1, FlatUpToExists
<1>2. FlatUpTo(f, seqs, L)
  BY <1>1 DEF Flat
<1> HIDE DEF f
<1>3. \A k \in 1 .. L : f[k] = IF k = 1 THEN seqs[k] ELSE f[k - 1] \o seqs[k]
  <2> HIDE DEF L
  <2>. QED BY <1>2 DEF FlatUpTo
<1>4. g[0] = <<>>
  BY <1>0
<1>5. 0 \in N
  <2>1. <<>> \in Seq(S)
    OBVIOUS
  <2>2. 0 \in 0 .. L
    BY <1>0
  <2> HIDE DEF g, L
  <2>. QED BY <1>4, <2>1, <2>2
<1>6. ASSUME NEW k \in 1 .. L, k - 1 \in N
      PROVE  g[k] = g[k - 1] \o seqs[k] /\ k \in N
  <2>1. g[k] = f[k] /\ g[k - 1] = IF k = 1 THEN <<>> ELSE f[k - 1]
    <3>1. k \in 0 .. L /\ k - 1 \in 0 .. L /\ k # 0 /\ (k - 1 = 0 <=> k = 1)
      BY <1>0
    <3> HIDE DEF L
    <3>. QED BY <3>1
  <2>2. g[k - 1] \in Seq(S) /\ seqs[k] \in Seq(S)
    BY <1>0, <1>6
  <2> HIDE DEF g
  <2>3. <<>> \o seqs[k] = seqs[k]
    BY <2>2
  <2>4. g[k] = g[k - 1] \o seqs[k]
    BY <1>3, <2>1, <2>3
  <2>5. g[k] \in Seq(S) /\ k \in 0 .. L
    BY <2>2, <2>4, ConcatProperties
  <2>. QED BY <2>4, <2>5
<1> HIDE DEF N
<1>7. 0 .. L \subseteq N
  <2> HIDE DEF L, g
  <2>. QED BY <1>0, <1>5, <1>6, InductionUpTo
<1>8. \A k \in 1 .. L : k - 1 \in 0 .. L
  OBVIOUS
<1>9. g \in [0 .. L -> Seq(S)] /\ \A k \in 1 .. L : g[k] = g[k - 1] \o seqs[k]
  <2>1. \A k \in 0 .. L : g[k] \in Seq(S)
    BY <1>7 DEF N
  <2>2. \A k \in 1 .. L : g[k] = g[k - 1] \o seqs[k]
    <3> HIDE DEF g, L
    <3>. QED BY <1>6, <1>7, <1>8
  <2>. QED BY <2>1, <2>2
<1>10. g[L] = FlattenSeq(seqs)
  <2>1. CASE L = 0
    <3>1. seqs = <<>>
      BY <2>1
    <3>. QED BY <1>4, <2>1, <3>1, FlattenIsLast
  <2>2. CASE L # 0
    <3>1. g[L] = f[L]
      BY <1>0, <2>2
    <3>. QED BY <2>2, <3>1, FlattenIsLast DEF f
  <2>. QED BY <2>1, <2>2
<1> HIDE DEF g
<1>. QED BY <1>4, <1>9, <1>10

(* FlattenSeq lays its sequences out one after the other. *)
LEMMA FlattenLaysOut ==
  ASSUME NEW S, NEW seqs \in Seq(Seq(S))
  PROVE  FlattenSeq(seqs) \in Seq(S) /\ \E at : LaidOut(FlattenSeq(seqs), at, seqs)
<1> DEFINE L == Len(seqs)
<1>1. PICK g \in [0 .. L -> Seq(S)] :
           /\ g[0] = <<>> /\ g[L] = FlattenSeq(seqs)
           /\ \A k \in 1 .. L : g[k] = g[k - 1] \o seqs[k]
  BY FlattenPass
<1>2. L \in Nat /\ \A k \in 1 .. L : seqs[k] \in Seq(S)
  OBVIOUS
<1> HIDE DEF L
<1>3. ASSUME NEW k \in 1 .. L
      PROVE  /\ Len(g[k]) = Len(g[k - 1]) + Len(seqs[k])
             /\ \A x \in 1 .. Len(g[k - 1]) : g[k][x] = g[k - 1][x]
             /\ \A x \in 1 .. Len(seqs[k]) : g[k][Len(g[k - 1]) + x] = seqs[k][x]
  <2>0. k - 1 \in 0 .. L
    BY <1>2
  <2>1. g[k - 1] \in Seq(S)
    BY <1>1, <2>0
  <2>2. seqs[k] \in Seq(S)
    BY <1>2
  <2>3. g[k] = g[k - 1] \o seqs[k]
    BY <1>1
  <2> DEFINE a == g[k - 1]
             b == seqs[k]
  <2>5. a \in Seq(S) /\ b \in Seq(S)
    BY <2>1, <2>2
  <2> HIDE DEF a, b
  <2>4. /\ Len(a \o b) = Len(a) + Len(b)
        /\ \A x \in 1 .. Len(a) : (a \o b)[x] = a[x]
        /\ \A x \in 1 .. Len(b) : (a \o b)[Len(a) + x] = b[x]
    BY <2>5, ConcatAt
  <2>. QED BY <2>3, <2>4 DEF a, b
<1>4. \A k \in 0 .. L : Len(g[k]) \in Nat
  BY <1>1
<1> DEFINE Within(i, j) == Len(g[i]) <= Len(g[j]) /\ \A x \in 1 .. Len(g[i]) : g[j][x] = g[i][x]
           N == {j \in 0 .. L : \A i \in 0 .. j : Within(i, j)}
<1>5. 0 \in N
  <2>1. \A i \in 0 .. 0 : i = 0
    OBVIOUS
  <2>2. Within(0, 0)
    BY <1>1, <1>2
  <2>3. 0 \in 0 .. L
    BY <1>2
  <2> HIDE DEF Within
  <2>. QED BY <2>1, <2>2, <2>3
<1>6. ASSUME NEW j \in 1 .. L, j - 1 \in N PROVE j \in N
  <2>1. ASSUME NEW i \in 0 .. j PROVE Within(i, j)
    <3>1. CASE i = j
      BY <1>4, <3>1
    <3>2. CASE i # j
      <4>1. i \in 0 .. j - 1 /\ j - 1 \in 0 .. L /\ j \in 0 .. L /\ i \in 0 .. L
        BY <1>2, <3>2
      <4>2. Within(i, j - 1)
        BY <1>6, <4>1
      <4>3. Len(seqs[j]) \in Nat /\ Len(g[i]) \in Nat /\ Len(g[j - 1]) \in Nat
        BY <1>2, <1>4, <4>1
      <4>4. /\ Len(g[j]) = Len(g[j - 1]) + Len(seqs[j])
            /\ \A x \in 1 .. Len(g[j - 1]) : g[j][x] = g[j - 1][x]
        BY <1>3
      <4>5. Len(g[i]) <= Len(g[j])
        <5>1. Len(g[i]) <= Len(g[j - 1])
          BY <4>2
        <5>2. Len(g[j]) = Len(g[j - 1]) + Len(seqs[j])
          BY <4>4
        <5> DEFINE a == Len(g[i])
                   b == Len(g[j - 1])
                   c == Len(seqs[j])
        <5>3. a \in Nat /\ b \in Nat /\ c \in Nat /\ a <= b
          BY <4>3, <5>1
        <5> HIDE DEF a, b, c
        <5>4. a <= b + c
          BY <5>3
        <5>. QED BY <5>2, <5>4 DEF a, b, c
      <4>6. ASSUME NEW x \in 1 .. Len(g[i]) PROVE g[j][x] = g[i][x]
        <5>1. x \in 1 .. Len(g[j - 1])
          BY <4>2, <4>3
        <5>. QED BY <4>2, <4>4, <5>1
      <4>. QED BY <4>5, <4>6
    <3>. QED BY <3>1, <3>2
  <2>2. j \in 0 .. L
    OBVIOUS
  <2> HIDE DEF Within
  <2>. QED BY <2>1, <2>2
<1>7. \A i \in 0 .. L : Within(i, L)
  <2> HIDE DEF N
  <2>1. 0 .. L \subseteq N
    BY <1>2, <1>5, <1>6, InductionUpTo
  <2>2. L \in N
    BY <1>2, <2>1
  <2> HIDE DEF Within
  <2>. QED BY <2>2 DEF N
<1> DEFINE at == [k \in 0 .. L |-> Len(g[k])]
<1>8. LaidOut(g[L], at, seqs)
  <2>1. at \in [0 .. L -> Nat]
    BY <1>4
  <2>2. at[0] = 0 /\ at[L] = Len(g[L])
    BY <1>1, <1>2
  <2>3. ASSUME NEW k \in 1 .. L
        PROVE  /\ at[k] = at[k - 1] + Len(seqs[k]) /\ at[k] <= Len(g[L])
               /\ \A x \in 1 .. Len(seqs[k]) : g[L][at[k - 1] + x] = seqs[k][x]
    <3>1. k \in 0 .. L /\ k - 1 \in 0 .. L
      BY <1>2
    <3>2. at[k] = Len(g[k]) /\ at[k - 1] = Len(g[k - 1])
      BY <3>1
    <3>3. Len(g[k]) \in Nat /\ Len(g[k - 1]) \in Nat /\ Len(seqs[k]) \in Nat
      BY <1>2, <1>4, <3>1
    <3>4. Within(k, L)
      BY <1>7, <3>1
    <3> HIDE DEF at
    <3>5. at[k] = at[k - 1] + Len(seqs[k]) /\ at[k] <= Len(g[L])
      BY <1>3, <3>2, <3>4
    <3>6. ASSUME NEW x \in 1 .. Len(seqs[k]) PROVE g[L][at[k - 1] + x] = seqs[k][x]
      <4>1. at[k - 1] + x \in 1 .. Len(g[k])
        <5>1. x \in 1 .. Len(seqs[k]) /\ at[k - 1] \in Nat /\ Len(seqs[k]) \in Nat
          BY <3>2, <3>3
        <5>2. Len(g[k]) = at[k - 1] + Len(seqs[k])
          BY <3>2, <3>5
        <5>. QED BY <5>1, <5>2
      <4>2. g[L][at[k - 1] + x] = g[k][at[k - 1] + x]
        BY <3>4, <4>1
      <4>. QED BY <1>3, <3>2, <4>2
    <3>. QED BY <3>5, <3>6
  <2> HIDE DEF at
  <2>. QED BY <2>1, <2>2, <2>3 DEF LaidOut, L
<1>. QED BY <1>1, <1>2, <1>8

(* Nothing else is laid out so. *)
LEMMA LayoutIsFlatten ==
  ASSUME NEW S, NEW seqs \in Seq(Seq(S)), NEW p \in Seq(S), NEW at, LaidOut(p, at, seqs)
  PROVE  p = FlattenSeq(seqs)
<1> DEFINE L == Len(seqs)
           F == FlattenSeq(seqs)
<1>1. PICK bt : LaidOut(F, bt, seqs)
  BY FlattenLaysOut
<1>2. F \in Seq(S)
  BY FlattenLaysOut
<1>3. L \in Nat /\ \A k \in 1 .. L : Len(seqs[k]) \in Nat
  OBVIOUS
<1> HIDE DEF F
<1>4. /\ at \in [0 .. L -> Nat] /\ at[0] = 0 /\ at[L] = Len(p)
      /\ bt \in [0 .. L -> Nat] /\ bt[0] = 0 /\ bt[L] = Len(F)
  BY <1>1 DEF LaidOut
<1>5. \A k \in 1 .. L :
         /\ at[k] = at[k - 1] + Len(seqs[k]) /\ at[k] <= Len(p)
         /\ bt[k] = bt[k - 1] + Len(seqs[k])
         /\ \A x \in 1 .. Len(seqs[k]) : p[at[k - 1] + x] = seqs[k][x] /\ F[bt[k - 1] + x] = seqs[k][x]
  BY <1>1 DEF LaidOut
<1> HIDE DEF L
<1> DEFINE N == {k \in 0 .. L : at[k] = bt[k]}
<1>6. 0 .. L \subseteq N
  <2>1. 0 \in N
    BY <1>3, <1>4
  <2>2. ASSUME NEW k \in 1 .. L, k - 1 \in N PROVE k \in N
    BY <1>5, <2>2
  <2> HIDE DEF N
  <2>. QED BY <1>3, <2>1, <2>2, InductionUpTo
<1>7. \A k \in 0 .. L : at[k] = bt[k]
  BY <1>6
<1>8. Len(F) = Len(p)
  BY <1>3, <1>4, <1>7
<1> DEFINE M == {k \in 0 .. L : \A y \in 1 .. at[k] : p[y] = F[y]}
<1>9. 0 .. L \subseteq M
  <2>1. 0 \in M
    BY <1>3, <1>4
  <2>2. ASSUME NEW k \in 1 .. L, k - 1 \in M PROVE k \in M
    <3>1. k - 1 \in 0 .. L /\ k \in 0 .. L
      BY <1>3
    <3>2. /\ at[k] = at[k - 1] + Len(seqs[k]) /\ at[k - 1] \in Nat /\ at[k - 1] = bt[k - 1]
          /\ at[k] \in Nat
      BY <1>4, <1>5, <1>7, <3>1
    <3>3. ASSUME NEW y \in 1 .. at[k] PROVE p[y] = F[y]
      <4>1. CASE y \in 1 .. at[k - 1]
        BY <2>2, <4>1
      <4>2. CASE y \notin 1 .. at[k - 1]
        <5> DEFINE x == y - at[k - 1]
        <5>1. x \in 1 .. Len(seqs[k]) /\ y = at[k - 1] + x
          BY SMTT(60), <1>3, <3>2, <4>2
        <5> HIDE DEF x
        <5>2. p[at[k - 1] + x] = seqs[k][x] /\ F[bt[k - 1] + x] = seqs[k][x]
          BY <1>5, <5>1
        <5>. QED BY <3>2, <5>1, <5>2
      <4>. QED BY <4>1, <4>2
    <3>. QED BY <3>1, <3>3
  <2> HIDE DEF M
  <2>. QED BY <1>3, <2>1, <2>2, InductionUpTo
<1>10. \A y \in 1 .. Len(p) : p[y] = F[y]
  <2>1. L \in M
    BY <1>3, <1>9
  <2>. QED BY <1>4, <2>1
<1>. QED BY <1>2, <1>8, <1>10, SeqEqual DEF F

(***************************************************************************)
(* One encoded row.                                                        *)
(***************************************************************************)
Scans == [status : {"ok", "error"}, offset : Nat, rows : Seq(Cells)]

\* The bytes of p from an offset on begin with s.
Holds(p, offset, s) ==
  offset + Len(s) <= Len(p) /\ \A x \in 1 .. Len(s) : p[offset + x] = s[x]

(* A row is a tag, and the two bytes of its value unless it is NULL. *)
LEMMA EncodeRowBytes ==
  ASSUME NEW v \in Cells
  PROVE  /\ EncodeRow(v) \in Seq(Bytes)
         /\ v = Null => Len(EncodeRow(v)) = 1 /\ EncodeRow(v)[1] = NullTag
         /\ v # Null => /\ v \in 0 .. WordMax /\ Len(EncodeRow(v)) = 3 /\ EncodeRow(v)[1] = ValueTag
                        /\ EncodeRow(v)[2] = Word(v)[1] /\ EncodeRow(v)[3] = Word(v)[2]
                        /\ EncodeRow(v)[2] + Base * EncodeRow(v)[3] = v
<1>1. {0, 1} \subseteq Bytes
  BY BaseFacts DEF Bytes
<1>2. CASE v = Null
  BY <1>1, <1>2 DEF EncodeRow, NullTag
<1>3. CASE v # Null
  <2>1. v \in 0 .. WordMax
    BY <1>3 DEF Cells
  <2>2. Word(v) \in Seq(Bytes) /\ Len(Word(v)) = 2 /\ Word(v)[1] + Base * Word(v)[2] = v
    BY <2>1, WordBytes
  <2>3. EncodeRow(v) = <<ValueTag>> \o Word(v)
    BY <1>3 DEF EncodeRow
  <2>4. <<ValueTag>> \in Seq(Bytes) /\ Len(<<ValueTag>>) = 1 /\ <<ValueTag>>[1] = ValueTag
    BY <1>1 DEF ValueTag
  <2> HIDE DEF ValueTag
  <2>5. /\ EncodeRow(v) \in Seq(Bytes) /\ Len(EncodeRow(v)) = 3 /\ EncodeRow(v)[1] = ValueTag
        /\ \A x \in 1 .. 2 : EncodeRow(v)[1 + x] = Word(v)[x]
    BY <2>2, <2>3, <2>4, ConcatAt
  <2>6. EncodeRow(v)[2] = Word(v)[1] /\ EncodeRow(v)[3] = Word(v)[2]
    BY <2>5
  <2>. QED BY <1>3, <2>1, <2>2, <2>5, <2>6
<1>. QED BY <1>2, <1>3

(* A word read inside a payload is one that writes those bytes. *)
LEMMA WordInside ==
  ASSUME NEW p \in Seq(Bytes), NEW offset \in Nat, offset + 2 <= Len(p)
  PROVE  /\ WordAt(p, offset) \in 0 .. WordMax
         /\ Word(WordAt(p, offset)) = <<p[offset + 1], p[offset + 2]>>
<1>1. p[offset + 1] \in Bytes /\ p[offset + 2] \in Bytes
  OBVIOUS
<1>. QED BY <1>1, BytesWord DEF WordAt

\* A word in its place is read back.
LEMMA WordReadBack ==
  ASSUME NEW p \in Seq(Bytes), NEW offset \in Nat, NEW n \in 0 .. WordMax, Holds(p, offset, Word(n))
  PROVE  WordAt(p, offset) = n
<1>1. Len(Word(n)) = 2 /\ Word(n)[1] + Base * Word(n)[2] = n
  BY WordBytes
<1>2. 1 \in 1 .. 2 /\ 2 \in 1 .. 2
  OBVIOUS
<1>3. p[offset + 1] = Word(n)[1] /\ p[offset + 2] = Word(n)[2]
  BY <1>1, <1>2 DEF Holds
<1>. QED BY <1>1, <1>3 DEF WordAt

(* Moving a scan on by a row, written as a record. *)
LEMMA ScanRecord ==
  ASSUME NEW acc \in Scans, NEW e, NEW v
  PROVE  [acc EXCEPT !.offset = e, !.rows = Append(@, v)]
           = [status |-> acc.status, offset |-> e, rows |-> Append(acc.rows, v)]
<1> DEFINE a == [acc EXCEPT !.offset = e]
<1>1. acc = [status |-> acc.status, offset |-> acc.offset, rows |-> acc.rows]
  BY DEF Scans
<1>2. a = [status |-> acc.status, offset |-> e, rows |-> acc.rows]
  BY <1>1
<1>3. [acc EXCEPT !.offset = e, !.rows = Append(@, v)] = [a EXCEPT !.rows = Append(@, v)]
  OBVIOUS
<1> HIDE DEF a
<1>4. [a EXCEPT !.rows = Append(@, v)]
          = [status |-> acc.status, offset |-> e, rows |-> Append(acc.rows, v)]
  BY SMTT(60), <1>2
<1>. QED BY <1>3, <1>4

(* A row that the decoder accepts is the encoding of the row it returns. *)
LEMMA ScanRowYields ==
  ASSUME NEW p \in Seq(Bytes), NEW nullable \in BOOLEAN, NEW acc \in Scans,
         ScanRow(p, nullable, acc).status = "ok"
  PROVE  /\ acc.status = "ok"
         /\ \E v \in Cells :
              /\ v = Null => nullable
              /\ Holds(p, acc.offset, EncodeRow(v))
              /\ ScanRow(p, nullable, acc) =
                   [status |-> "ok", offset |-> acc.offset + Len(EncodeRow(v)),
                       rows |-> Append(acc.rows, v)]
<1> DEFINE o == acc.offset
           tag == p[o + 1]
           end == o + 1 + (IF tag = ValueTag THEN WordLen ELSE 0)
           v == IF tag = NullTag THEN Null ELSE WordAt(p, o + 1)
<1>1. acc.status \in {"ok", "error"} /\ o \in Nat /\ acc.rows \in Seq(Cells)
      /\ acc = [status |-> acc.status, offset |-> acc.offset, rows |-> acc.rows]
  BY DEF Scans
<1>2. acc.status = "ok"
  BY DEF ScanRow
<1>3. o < Len(p)
  <2> SUFFICES ASSUME o >= Len(p) PROVE FALSE
    BY <1>1
  <2>1. ScanRow(p, nullable, acc) = [acc EXCEPT !.status = "error"]
    BY <1>2 DEF ScanRow
  <2>2. [acc EXCEPT !.status = "error"].status = "error"
    BY <1>1
  <2>. QED BY <2>1, <2>2
<1>4. tag \in {NullTag, ValueTag} /\ (tag = NullTag => nullable) /\ end <= Len(p)
  <2> SUFFICES ASSUME tag \notin {NullTag, ValueTag} \/ (tag = NullTag /\ ~nullable) \/ end > Len(p) PROVE FALSE
    BY <1>1 DEF WordLen
  <2>1. ScanRow(p, nullable, acc) = [acc EXCEPT !.status = "error"]
    BY <1>1, <1>2, <1>3 DEF ScanRow
  <2>2. [acc EXCEPT !.status = "error"].status = "error"
    BY <1>1
  <2>. QED BY <2>1, <2>2
<1>5. ScanRow(p, nullable, acc) = [acc EXCEPT !.offset = end, !.rows = Append(@, v)]
  BY <1>1, <1>2, <1>3, <1>4 DEF ScanRow
<1>6. [acc EXCEPT !.offset = end, !.rows = Append(@, v)]
          = [status |-> "ok", offset |-> end, rows |-> Append(acc.rows, v)]
  <2> HIDE DEF end, v
  <2>. QED BY <1>2, ScanRecord
<1>7. /\ v \in Cells /\ (v = Null <=> tag = NullTag) /\ end = o + Len(EncodeRow(v))
      /\ Holds(p, o, EncodeRow(v))
  <2>1. CASE tag = NullTag
    <3>1. v = Null /\ Null \in Cells /\ Len(EncodeRow(v)) = 1 /\ EncodeRow(v)[1] = NullTag
      BY <2>1, EncodeRowBytes DEF Cells
    <3>2. end = o + 1
      BY <1>1, <2>1 DEF NullTag, ValueTag
    <3>3. \A x \in 1 .. 1 : x = 1
      OBVIOUS
    <3>4. Holds(p, o, EncodeRow(v))
      <4> HIDE DEF v
      <4>. QED BY <1>1, <1>3, <2>1, <3>1, <3>3 DEF Holds
    <3>. QED BY <2>1, <3>1, <3>2, <3>4
  <2>2. CASE tag = ValueTag
    <3>1. tag # NullTag /\ end = o + 3
      BY <1>1, <2>2 DEF NullTag, ValueTag, WordLen
    <3>2. v = WordAt(p, o + 1) /\ v \in 0 .. WordMax /\ Word(v) = <<p[o + 2], p[o + 3]>>
      <4>1. o + 1 \in Nat /\ (o + 1) + 1 = o + 2 /\ (o + 1) + 2 = o + 3 /\ (o + 1) + 2 <= Len(p)
        BY <1>1, <1>4, <3>1
      <4>. QED BY <3>1, <4>1, WordInside
    <3>3. v \in Cells /\ v # Null
      BY <3>2, BaseFacts DEF Cells
    <3>4. /\ Len(EncodeRow(v)) = 3 /\ EncodeRow(v)[1] = ValueTag
          /\ EncodeRow(v)[2] = p[o + 2] /\ EncodeRow(v)[3] = p[o + 3]
      BY <3>2, <3>3, EncodeRowBytes
    <3>5. Holds(p, o, EncodeRow(v))
      <4>1. \A x \in 1 .. 3 : x = 1 \/ x = 2 \/ x = 3
        OBVIOUS
      <4> HIDE DEF v
      <4>. QED BY <1>1, <1>4, <2>2, <3>1, <3>4, <4>1 DEF Holds
    <3>. QED BY <3>1, <3>3, <3>4, <3>5
  <2>. QED BY <1>4, <2>1, <2>2
<1> HIDE DEF v, end
<1>. QED BY <1>2, <1>4, <1>5, <1>6, <1>7

(* Where an encoded row is, the decoder reads it and moves past it. *)
LEMMA ScanRowReads ==
  ASSUME NEW p \in Seq(Bytes), NEW nullable \in BOOLEAN, NEW acc \in Scans, acc.status = "ok",
         NEW v \in Cells, v = Null => nullable, Holds(p, acc.offset, EncodeRow(v))
  PROVE  ScanRow(p, nullable, acc) =
           [status |-> "ok", offset |-> acc.offset + Len(EncodeRow(v)), rows |-> Append(acc.rows, v)]
<1> DEFINE o == acc.offset
           tag == p[o + 1]
           end == o + 1 + (IF tag = ValueTag THEN WordLen ELSE 0)
           r == IF tag = NullTag THEN Null ELSE WordAt(p, o + 1)
<1>1. acc.status \in {"ok", "error"} /\ o \in Nat /\ acc.rows \in Seq(Cells)
      /\ acc = [status |-> acc.status, offset |-> acc.offset, rows |-> acc.rows]
  BY DEF Scans
<1>2. Len(EncodeRow(v)) \in {1, 3} /\ 1 \in 1 .. Len(EncodeRow(v))
  BY EncodeRowBytes
<1>3. /\ o + Len(EncodeRow(v)) <= Len(p)
      /\ \A x \in 1 .. Len(EncodeRow(v)) : p[o + x] = EncodeRow(v)[x]
  BY DEF Holds
<1>4. o < Len(p) /\ tag = EncodeRow(v)[1]
  BY <1>1, <1>2, <1>3
<1>5. /\ tag \in {NullTag, ValueTag} /\ (tag = NullTag => nullable) /\ end = o + Len(EncodeRow(v))
      /\ r = v
  <2>1. CASE v = Null
    <3>1. Len(EncodeRow(v)) = 1 /\ tag = NullTag /\ nullable
      BY <1>4, <2>1, EncodeRowBytes
    <3>2. end = o + 1 /\ r = Null
      BY <1>1, <3>1 DEF NullTag, ValueTag
    <3>. QED BY <2>1, <3>1, <3>2
  <2>2. CASE v # Null
    <3>1. /\ v \in 0 .. WordMax /\ Len(EncodeRow(v)) = 3 /\ tag = ValueTag
          /\ EncodeRow(v)[2] + Base * EncodeRow(v)[3] = v
      BY <1>4, <2>2, EncodeRowBytes
    <3>2. p[o + 2] = EncodeRow(v)[2] /\ p[o + 3] = EncodeRow(v)[3]
      BY <1>3, <3>1
    <3>3. (o + 1) + 1 = o + 2 /\ (o + 1) + 2 = o + 3
      BY <1>1
    <3>4. WordAt(p, o + 1) = v
      BY <3>1, <3>2, <3>3 DEF WordAt
    <3>. QED BY <1>1, <3>1, <3>4 DEF NullTag, ValueTag, WordLen
  <2>. QED BY <2>1, <2>2
<1>6. ScanRow(p, nullable, acc) = [acc EXCEPT !.offset = end, !.rows = Append(@, r)]
  <2>1. ~(end > Len(p)) /\ ~(o >= Len(p))
    BY <1>1, <1>2, <1>3, <1>4, <1>5
  <2>. QED BY <1>5, <2>1 DEF ScanRow
<1>7. [acc EXCEPT !.offset = end, !.rows = Append(@, r)]
          = [status |-> "ok", offset |-> end, rows |-> Append(acc.rows, r)]
  <2> HIDE DEF end, r
  <2>. QED BY ScanRecord
<1> HIDE DEF end, r
<1>. QED BY <1>5, <1>6, <1>7

(* The decoder of rows keeps the type of its state. *)
LEMMA ScanRowType ==
  ASSUME NEW p \in Seq(Bytes), NEW nullable \in BOOLEAN, NEW acc \in Scans
  PROVE  ScanRow(p, nullable, acc) \in Scans
<1>1. CASE ScanRow(p, nullable, acc).status = "ok"
  <2>1. PICK v \in Cells :
          ScanRow(p, nullable, acc) =
             [status |-> "ok", offset |-> acc.offset + Len(EncodeRow(v)), rows |-> Append(acc.rows, v)]
    BY <1>1, ScanRowYields
  <2>2. Len(EncodeRow(v)) \in Nat /\ acc.offset \in Nat /\ acc.rows \in Seq(Cells)
    BY EncodeRowBytes DEF Scans
  <2>3. Append(acc.rows, v) \in Seq(Cells) /\ acc.offset + Len(EncodeRow(v)) \in Nat
    BY <2>2
  <2>. QED BY <2>1, <2>3 DEF Scans
<1>2. CASE ScanRow(p, nullable, acc).status # "ok"
  <2>1. acc = [status |-> acc.status, offset |-> acc.offset, rows |-> acc.rows]
    BY DEF Scans
  <2> DEFINE full == [acc EXCEPT !.offset = acc.offset + 1 + (IF p[acc.offset + 1] = ValueTag THEN WordLen ELSE 0),
                                 !.rows = Append(@, IF p[acc.offset + 1] = NullTag THEN Null ELSE WordAt(p, acc.offset + 1))]
  <2>2. \/ ScanRow(p, nullable, acc) = acc
        \/ ScanRow(p, nullable, acc) = [acc EXCEPT !.status = "error"]
        \/ acc.status = "ok" /\ ScanRow(p, nullable, acc) = full
    BY DEF ScanRow
  <2>3. full.status = acc.status
    BY <2>1
  <2> HIDE DEF full
  <2>4. [acc EXCEPT !.status = "error"] \in Scans
    BY DEF Scans
  <2>. QED BY <1>2, <2>2, <2>3, <2>4
<1>. QED BY <1>1, <1>2

(***************************************************************************)
(* The rows of a payload.                                                  *)
(***************************************************************************)
\* What ScanRows starts from, and what its loop leaves.
ScanStart(offset) == [status |-> "ok", offset |-> offset, rows |-> <<>>]
RowsScan(p, offset, count, nullable) ==
  FoldLeft(LAMBDA acc, k : ScanRow(p, nullable, acc), ScanStart(offset), [k \in 1 .. count |-> k])

\* it is the recursion behind RowsScan.
RowsScanOf(it, p, offset, count, nullable) ==
  it = [s \in SUBSET DOMAIN [k \in 1 .. count |-> k]
      |-> IF s = {} THEN ScanStart(offset) ELSE ScanRow(p, nullable, it[s \ {Max(s)}])]

\* FoldLeft, unfolded.
LEMMA RowsScanIsRecursion ==
  ASSUME NEW p, NEW offset, NEW count, NEW nullable
  PROVE  RowsScan(p, offset, count, nullable)
      = (CHOOSE it : RowsScanOf(it, p, offset, count, nullable))[DOMAIN [k \in 1 .. count |-> k]]
BY DEF RowsScan, FoldLeft, MapThenFoldSet, RowsScanOf

\* RowsScan passes from one value to the next, position by position.
LEMMA RowsScanPass ==
  ASSUME NEW p \in Seq(Bytes), NEW offset \in Nat, NEW count \in Nat, NEW nullable \in BOOLEAN
  PROVE  \E g \in [0 .. count -> Scans] :
           /\ g[0] = ScanStart(offset) /\ g[count] = RowsScan(p, offset, count, nullable)
           /\ \A k \in 1 .. count : g[k] = ScanRow(p, nullable, g[k - 1])
<1> DEFINE n == count
           base == ScanStart(offset)
           step == [x \in (1 .. n) \X Scans |-> ScanRow(p, nullable, x[2])]
           c == CHOOSE it : RowsScanOf(it, p, offset, count, nullable)
           g == [k \in 0 .. n |-> c[1 .. k]]
<1>1. n \in Nat /\ DOMAIN [k \in 1 .. count |-> k] = 1 .. n
  OBVIOUS
<1>2. ASSUME NEW a \in Scans, NEW k \in 1 .. n PROVE ScanRow(p, nullable, a) \in Scans
  BY ScanRowType
<1>3. step \in [(1 .. n) \X Scans -> Scans]
  BY <1>1, <1>2
<1>4. base \in Scans
  BY DEF ScanStart, Scans
<1>5. PICK it \in [SUBSET (1 .. n) -> Scans] : Iterates(it, n, base, step)
  <2> HIDE DEF n, step, base
  <2>. QED BY <1>1, <1>3, <1>4, IterationExists
<1>6. ASSUME NEW s \in SUBSET (1 .. n)
      PROVE  it[s] = IF s = {} THEN base ELSE ScanRow(p, nullable, it[s \ {Max(s)}])
  <2>1. CASE s = {}
    <3> HIDE DEF n, step, base
    <3>. QED BY <1>5, <2>1 DEF Iterates
  <2>2. CASE s # {}
    <3>1. Max(s) \in 1 .. n
      <4> HIDE DEF n
      <4>. QED BY <1>1, <2>2, LastPosition
    <3>2. s \ {Max(s)} \in SUBSET (1 .. n)
      OBVIOUS
    <3>3. it[s \ {Max(s)}] \in Scans
      BY <3>2
    <3>4. it[s] = step[<<Max(s), it[s \ {Max(s)}]>>]
      <4> HIDE DEF n, step, base
      <4>. QED BY <1>5, <2>2 DEF Iterates
    <3>5. <<Max(s), it[s \ {Max(s)}]>> \in (1 .. n) \X Scans
      BY <3>1, <3>3
    <3>6. step[<<Max(s), it[s \ {Max(s)}]>>] = ScanRow(p, nullable, it[s \ {Max(s)}])
      BY <3>5
    <3>. QED BY <2>2, <3>4, <3>6
  <2>. QED BY <2>1, <2>2
<1>7. RowsScanOf(it, p, offset, count, nullable)
  <2>1. it = [s \in SUBSET (1 .. n) |-> it[s]]
    BY <1>5
  <2>. QED BY <1>1, <1>6, <2>1 DEF RowsScanOf
<1>8. RowsScanOf(c, p, offset, count, nullable)
  BY <1>7
<1> HIDE DEF c
<1>9. \A s \in SUBSET (1 .. n) :
         c[s] = IF s = {} THEN base ELSE ScanRow(p, nullable, c[s \ {Max(s)}])
  BY <1>1, <1>8 DEF RowsScanOf
<1> HIDE DEF base, step
<1>10. g[0] = base
  <2>1. 1 .. 0 = {} /\ 0 \in 0 .. n
    BY <1>1
  <2>. QED BY <1>9, <2>1
<1>11. ASSUME NEW k \in 1 .. n PROVE g[k] = ScanRow(p, nullable, g[k - 1])
  <2>1. /\ 1 .. k \in SUBSET (1 .. n) /\ 1 .. k # {} /\ Max(1 .. k) = k
        /\ (1 .. k) \ {k} = 1 .. (k - 1)
    <3> HIDE DEF n
    <3>. QED BY <1>1, LastUpTo
  <2>2. c[1 .. k] = ScanRow(p, nullable, c[1 .. (k - 1)])
    BY <1>9, <2>1
  <2>3. k \in 0 .. n /\ k - 1 \in 0 .. n
    BY <1>1
  <2>. QED BY <2>2, <2>3
<1>12. g[n] = RowsScan(p, offset, count, nullable)
  <2>1. RowsScan(p, offset, count, nullable) = c[1 .. n]
    BY <1>1, RowsScanIsRecursion DEF c
  <2>2. n \in 0 .. n
    BY <1>1
  <2>. QED BY <2>1, <2>2
<1>13. g \in [0 .. n -> Scans]
  <2> DEFINE K == {k \in 0 .. n : g[k] \in Scans}
  <2> HIDE DEF g, n
  <2>1. 0 \in K
    BY <1>1, <1>4, <1>10
  <2>2. ASSUME NEW k \in 1 .. n, k - 1 \in K PROVE k \in K
    <3>1. g[k - 1] \in Scans /\ k \in 0 .. n
      BY <1>1, <2>2
    <3>. QED BY <1>2, <1>11, <3>1
  <2> HIDE DEF K
  <2>3. 0 .. n \subseteq K
    BY <1>1, <2>1, <2>2, InductionUpTo
  <2>4. \A k \in 0 .. n : g[k] \in Scans
    BY <2>3 DEF K
  <2>. QED BY <2>4 DEF g
<1> HIDE DEF g
<1>. QED BY <1>10, <1>11, <1>12, <1>13 DEF base

\* Whatever the bytes: rows that are scanned to the end of the payload are laid
\* out there, and NULL is among them only where it is allowed.
LEMMA ScanRowsYields ==
  ASSUME NEW p \in Seq(Bytes), NEW offset \in 0 .. Len(p), NEW count \in Nat, NEW nullable \in BOOLEAN,
         ScanRows(p, offset, count, nullable).status = "ok"
  PROVE  \E rows \in Seq(Cells) :
           /\ rows = ScanRows(p, offset, count, nullable).rows
           /\ Len(rows) = count /\ (nullable \/ \A k \in 1 .. count : rows[k] # Null)
           /\ p = SubSeq(p, 1, offset) \o FlattenSeq([k \in 1 .. count |-> EncodeRow(rows[k])])
<1>1. PICK g \in [0 .. count -> Scans] :
        /\ g[0] = ScanStart(offset) /\ g[count] = RowsScan(p, offset, count, nullable)
        /\ \A k \in 1 .. count : g[k] = ScanRow(p, nullable, g[k - 1])
  <2>1. offset \in Nat
    OBVIOUS
  <2>. QED BY <2>1, RowsScanPass
<1>2. \A k \in 0 .. count : g[k].status \in {"ok", "error"} /\ g[k].offset \in Nat /\ g[k].rows \in Seq(Cells)
  BY <1>1 DEF Scans
<1> DEFINE all == g[count]
           rows == all.rows
<1>3. all.status = "ok" /\ ScanRows(p, offset, count, nullable) = all /\ ~(Len(p) > all.offset)
  <2>1. ScanRows(p, offset, count, nullable) =
          IF all.status = "ok" /\ Len(p) > all.offset THEN [all EXCEPT !.status = "error"] ELSE all
    BY <1>1, Zenon DEF ScanRows, RowsScan, ScanStart
  <2>2. all \in Scans
    BY <1>1
  <2> HIDE DEF all
  <2>3. [all EXCEPT !.status = "error"].status = "error"
    BY <2>2 DEF Scans
  <2>. QED BY <2>1, <2>3
<1> DEFINE OkDown == {j \in 0 .. count : g[count - j].status = "ok"}
<1>4. \A k \in 0 .. count : g[k].status = "ok"
  <2>1. 0 \in OkDown
    BY <1>3
  <2>2. ASSUME NEW j \in 1 .. count, j - 1 \in OkDown PROVE j \in OkDown
    <3>1. /\ count - (j - 1) \in 1 .. count /\ (count - (j - 1)) - 1 = count - j
          /\ count - j \in 0 .. count
      OBVIOUS
    <3>2. /\ g[count - (j - 1)] = ScanRow(p, nullable, g[count - j])
          /\ g[count - (j - 1)].status = "ok"
      BY <1>1, <2>2, <3>1
    <3>3. g[count - j] \in Scans
      BY <1>1, <3>1
    <3>4. g[count - j].status = "ok"
      BY <3>2, <3>3, ScanRowYields
    <3>. QED BY <3>1, <3>4
  <2> HIDE DEF OkDown
  <2>3. 0 .. count \subseteq OkDown
    BY <2>1, <2>2, InductionUpTo
  <2>4. \A k \in 0 .. count : count - k \in 0 .. count /\ count - (count - k) = k
    OBVIOUS
  <2>. QED BY <2>3, <2>4 DEF OkDown
<1>5. ASSUME NEW k \in 1 .. count
      PROVE  \E v \in Cells :
               /\ v = Null => nullable
               /\ Holds(p, g[k - 1].offset, EncodeRow(v))
               /\ g[k].offset = g[k - 1].offset + Len(EncodeRow(v))
               /\ g[k].rows = Append(g[k - 1].rows, v)
  <2>1. k \in 0 .. count /\ k - 1 \in 0 .. count
    OBVIOUS
  <2>2. g[k - 1] \in Scans /\ g[k] = ScanRow(p, nullable, g[k - 1]) /\ g[k].status = "ok"
    BY <1>1, <1>4, <2>1
  <2>3. PICK v \in Cells :
               /\ v = Null => nullable
               /\ Holds(p, g[k - 1].offset, EncodeRow(v))
               /\ g[k]
                      = [status |-> "ok", offset |-> g[k - 1].offset + Len(EncodeRow(v)), rows |-> Append(g[k - 1].rows, v)]
    BY ZenonT(60), <2>2, ScanRowYields
  <2>. QED BY <2>3
<1> DEFINE Prefix == {j \in 0 .. count :
                        Len(g[j].rows) = j /\ \A i \in 0 .. j : g[i].rows = SubSeq(g[j].rows, 1, i)}
<1>6. 0 .. count \subseteq Prefix
  <2>1. 0 \in Prefix
    <3>1. g[0].rows = <<>>
      BY <1>1 DEF ScanStart
    <3>2. \A i \in 0 .. 0 : i = 0
      OBVIOUS
    <3>3. SubSeq(<<>>, 1, 0) = <<>> /\ Len(<<>>) = 0 /\ 0 \in 0 .. count
      OBVIOUS
    <3>. QED BY <3>1, <3>2, <3>3
  <2>2. ASSUME NEW j \in 1 .. count, j - 1 \in Prefix PROVE j \in Prefix
    <3>1. j - 1 \in 0 .. count /\ j \in 0 .. count
      OBVIOUS
    <3>2. PICK v \in Cells : g[j].rows = Append(g[j - 1].rows, v)
      BY <1>5
    <3> DEFINE r == g[j - 1].rows
    <3>3. r \in Seq(Cells) /\ Len(r) = j - 1 /\ \A i \in 0 .. j - 1 : g[i].rows = SubSeq(r, 1, i)
      BY <1>2, <2>2, <3>1
    <3> HIDE DEF r
    <3>4. Len(Append(r, v)) = j /\ SubSeq(Append(r, v), 1, j) = Append(r, v)
      BY <3>3
    <3>5. \A i \in 0 .. j - 1 : SubSeq(Append(r, v), 1, i) = SubSeq(r, 1, i)
      BY <3>3
    <3>6. ASSUME NEW i \in 0 .. j PROVE g[i].rows = SubSeq(Append(r, v), 1, i)
      <4>1. CASE i = j
        BY <3>2, <3>4, <4>1 DEF r
      <4>2. CASE i # j
        <5>1. i \in 0 .. j - 1
          BY <4>2
        <5>. QED BY <3>3, <3>5, <5>1
      <4>. QED BY <4>1, <4>2
    <3>. QED BY <3>1, <3>2, <3>4, <3>6 DEF r
  <2> HIDE DEF Prefix
  <2>. QED BY <2>1, <2>2, InductionUpTo
<1>7. /\ rows \in Seq(Cells) /\ Len(rows) = count
      /\ \A i \in 0 .. count : g[i].rows = SubSeq(rows, 1, i)
  <2>1. count \in 0 .. count
    OBVIOUS
  <2>. QED BY <1>2, <1>6, <2>1
<1>8. ASSUME NEW k \in 1 .. count
      PROVE  /\ rows[k] \in Cells /\ (rows[k] = Null => nullable)
             /\ Holds(p, g[k - 1].offset, EncodeRow(rows[k]))
             /\ g[k].offset = g[k - 1].offset + Len(EncodeRow(rows[k]))
  <2>1. PICK v \in Cells :
               /\ v = Null => nullable
               /\ Holds(p, g[k - 1].offset, EncodeRow(v))
               /\ g[k].offset = g[k - 1].offset + Len(EncodeRow(v))
               /\ g[k].rows = Append(g[k - 1].rows, v)
    BY <1>5
  <2>2. k \in 0 .. count /\ k - 1 \in 0 .. count
    OBVIOUS
  <2>3. g[k].rows = SubSeq(rows, 1, k) /\ g[k - 1].rows = SubSeq(rows, 1, k - 1)
    BY <1>7, <2>2
  <2> HIDE DEF rows
  <2>4. SubSeq(rows, 1, k)[k] = rows[k] /\ Append(SubSeq(rows, 1, k - 1), v)[k] = v
    BY <1>7
  <2>. QED BY <2>1, <2>3, <2>4
<1> HIDE DEF all, rows
<1> DEFINE enc == [k \in 1 .. count |-> EncodeRow(rows[k])]
           q == SubSeq(p, offset + 1, Len(p))
           at == [k \in 0 .. count |-> g[k].offset - offset]
<1>9. /\ enc \in Seq(Seq(Bytes)) /\ Len(enc) = count
      /\ \A k \in 1 .. count : enc[k] = EncodeRow(rows[k])
  BY <1>8, EncodeRowBytes
<1>10. q \in Seq(Bytes) /\ Len(q) = Len(p) - offset /\ \A x \in 1 .. Len(q) : q[x] = p[offset + x]
  OBVIOUS
<1>11. g[0].offset = offset /\ g[count].offset >= Len(p)
  BY <1>1, <1>2, <1>3 DEF ScanStart, all
<1>12. \A k \in 1 .. count :
         /\ Len(enc[k]) \in Nat /\ g[k].offset = g[k - 1].offset + Len(enc[k])
         /\ Holds(p, g[k - 1].offset, enc[k])
  BY <1>8, <1>9, EncodeRowBytes
<1>13. \A k \in 0 .. count : g[k].offset \in offset .. Len(p)
  <2> DEFINE K == {k \in 0 .. count : g[k].offset \in offset .. Len(p)}
  <2> HIDE DEF enc
  <2>1. 0 \in K
    BY <1>11
  <2>2. ASSUME NEW k \in 1 .. count, k - 1 \in K PROVE k \in K
    <3> DEFINE a == g[k - 1].offset
               b == Len(enc[k])
    <3>1. a \in offset .. Len(p) /\ b \in Nat /\ k \in 0 .. count
      BY <1>12, <2>2
    <3>2. g[k].offset = a + b /\ a + b <= Len(p)
      BY <1>12 DEF Holds
    <3> HIDE DEF a, b
    <3>3. a + b \in offset .. Len(p)
      BY <3>1, <3>2
    <3>. QED BY <3>1, <3>2, <3>3
  <2> HIDE DEF K
  <2>3. 0 .. count \subseteq K
    BY <2>1, <2>2, InductionUpTo
  <2>. QED BY <2>3 DEF K
<1>14. LaidOut(q, at, enc)
  <2>1. at \in [0 .. count -> Nat] /\ at[0] = 0
    BY <1>11, <1>13
  <2>2. at[count] = Len(q)
    BY <1>10, <1>11, <1>13
  <2>3. ASSUME NEW k \in 1 .. count
        PROVE  /\ at[k] = at[k - 1] + Len(enc[k]) /\ at[k] <= Len(q)
               /\ \A x \in 1 .. Len(enc[k]) : q[at[k - 1] + x] = enc[k][x]
    <3>1. k \in 0 .. count /\ k - 1 \in 0 .. count
      OBVIOUS
    <3>2. at[k] = g[k].offset - offset /\ at[k - 1] = g[k - 1].offset - offset
      BY <3>1
    <3>3. g[k].offset \in offset .. Len(p) /\ g[k - 1].offset \in offset .. Len(p)
      BY <1>13, <3>1
    <3> HIDE DEF at, enc, q
    <3> DEFINE a == g[k - 1].offset
               b == g[k].offset
               m == Len(enc[k])
               l == Len(q)
    <3>4. /\ a \in offset .. Len(p) /\ b \in offset .. Len(p) /\ m \in Nat /\ l = Len(p) - offset
          /\ b = a + m
      BY <1>10, <1>12, <3>3
    <3>5. \A x \in 1 .. m : p[a + x] = enc[k][x]
      BY <1>12 DEF Holds
    <3>6. at[k] = b - offset /\ at[k - 1] = a - offset
      BY <3>2
    <3> HIDE DEF a, b, m
    <3>7. at[k] = at[k - 1] + m /\ at[k] <= l
      BY <3>4, <3>6
    <3>8. ASSUME NEW x \in 1 .. m PROVE q[at[k - 1] + x] = enc[k][x]
      <4>1. at[k - 1] + x \in 1 .. l /\ offset + (at[k - 1] + x) = a + x
        <5> HIDE DEF l
        <5>. QED BY <3>4, <3>6
      <4>. QED BY <1>10, <3>5, <4>1
    <3>. QED BY <3>7, <3>8 DEF m
  <2> HIDE DEF at, enc, q
  <2>. QED BY <1>9, <2>1, <2>2, <2>3 DEF LaidOut
<1>15. q = FlattenSeq(enc)
  <2> HIDE DEF at, enc, q
  <2>. QED BY <1>9, <1>10, <1>14, LayoutIsFlatten
<1>16. p = SubSeq(p, 1, offset) \o q
  <2>1. SubSeq(p, 1, offset) \in Seq(Bytes) /\ Len(SubSeq(p, 1, offset)) = offset
    OBVIOUS
  <2> DEFINE h == SubSeq(p, 1, offset)
  <2>2. \A x \in 1 .. offset : h[x] = p[x]
    OBVIOUS
  <2> HIDE DEF h, q
  <2>3. /\ h \o q \in Seq(Bytes) /\ Len(h \o q) = Len(p)
        /\ \A x \in 1 .. Len(p) : (h \o q)[x] = p[x]
    <3>1. Len(h) = offset /\ h \in Seq(Bytes)
      BY <2>1 DEF h
    <3>2. /\ h \o q \in Seq(Bytes) /\ Len(h \o q) = Len(h) + Len(q)
          /\ \A x \in 1 .. Len(h) : (h \o q)[x] = h[x]
          /\ \A x \in 1 .. Len(q) : (h \o q)[Len(h) + x] = q[x]
      BY <1>10, <3>1, ConcatAt
    <3>3. Len(p) \in Nat /\ offset \in 0 .. Len(p)
      OBVIOUS
    <3>4. Len(h \o q) = Len(p)
      BY <1>10, <3>1, <3>2, <3>3
    <3>5. ASSUME NEW x \in 1 .. Len(p) PROVE (h \o q)[x] = p[x]
      <4>1. CASE x <= offset
        BY <2>2, <3>1, <3>2, <3>3, <4>1
      <4>2. CASE x > offset
        <5>1. x - offset \in 1 .. Len(q) /\ offset + (x - offset) = x
          BY <1>10, <3>3, <4>2
        <5>2. /\ (h \o q)[offset + (x - offset)] = q[x - offset]
              /\ q[x - offset] = p[offset + (x - offset)]
          BY <1>10, <3>1, <3>2, <5>1
        <5>. QED BY <5>1, <5>2
      <4>3. x <= offset \/ x > offset
        BY <3>3
      <4>. QED BY <4>1, <4>2, <4>3, Zenon
    <3>. QED BY <3>2, <3>4, <3>5
  <2>4. p = h \o q
    BY <2>3, SeqEqual
  <2>. QED BY <2>4 DEF h
<1> HIDE DEF at, q
<1>. QED BY <1>3, <1>7, <1>8, <1>15, <1>16 DEF rows

\* Rows that are laid out at the end of the payload are scanned.
LEMMA ScanRowsReads ==
  ASSUME NEW head \in Seq(Bytes), NEW rows \in Seq(Cells), NEW nullable \in BOOLEAN,
         nullable \/ \A k \in 1 .. Len(rows) : rows[k] # Null
  PROVE  LET p == head \o FlattenSeq([k \in 1 .. Len(rows) |-> EncodeRow(rows[k])])
             all == ScanRows(p, Len(head), Len(rows), nullable)
         IN  /\ p \in Seq(Bytes) /\ Len(p) >= Len(head) + Len(rows)
             /\ all.status = "ok" /\ all.rows = rows
<1> DEFINE count == Len(rows)
           offset == Len(head)
           enc == [k \in 1 .. count |-> EncodeRow(rows[k])]
           tail == FlattenSeq(enc)
           p == head \o tail
<1>1. count \in Nat /\ offset \in Nat /\ \A k \in 1 .. count : rows[k] \in Cells
  OBVIOUS
<1>2. /\ enc \in Seq(Seq(Bytes)) /\ Len(enc) = count
      /\ \A k \in 1 .. count : enc[k] = EncodeRow(rows[k])
  BY <1>1, EncodeRowBytes
<1> HIDE DEF enc
<1>3. tail \in Seq(Bytes) /\ \E at : LaidOut(tail, at, enc)
  BY <1>2, FlattenLaysOut
<1>4. PICK at : LaidOut(tail, at, enc)
  BY <1>3
<1> HIDE DEF tail
<1>5. /\ p \in Seq(Bytes) /\ Len(p) = offset + Len(tail)
      /\ \A x \in 1 .. Len(tail) : p[offset + x] = tail[x]
  BY <1>3, ConcatAt
<1>6. /\ at \in [0 .. count -> Nat] /\ at[0] = 0 /\ at[count] = Len(tail)
      /\ \A k \in 1 .. count :
           /\ at[k] = at[k - 1] + Len(enc[k]) /\ at[k] <= Len(tail)
           /\ \A x \in 1 .. Len(enc[k]) : tail[at[k - 1] + x] = enc[k][x]
  BY <1>2, <1>4 DEF LaidOut
<1> HIDE DEF p, offset, count
<1>7. ASSUME NEW k \in 1 .. count PROVE Holds(p, offset + at[k - 1], EncodeRow(rows[k]))
  <2>1. k - 1 \in 0 .. count /\ k \in 0 .. count
    BY <1>1
  <2>2. at[k - 1] \in Nat /\ at[k] \in Nat /\ Len(enc[k]) \in Nat
    BY <1>2, <1>1, <1>6, <2>1
  <2>3. at[k] = at[k - 1] + Len(enc[k]) /\ at[k] <= Len(tail) /\ Len(tail) \in Nat
    BY <1>3, <1>6
  <2>4. (offset + at[k - 1]) + Len(enc[k]) <= Len(p)
    BY SMTT(60), <1>1, <1>5, <2>2, <2>3
  <2>5. ASSUME NEW x \in 1 .. Len(enc[k]) PROVE p[(offset + at[k - 1]) + x] = enc[k][x]
    <3>1. at[k - 1] + x \in 1 .. Len(tail) /\ offset + (at[k - 1] + x) = (offset + at[k - 1]) + x
      <4> DEFINE a == at[k - 1]
                 b == at[k]
                 l == Len(enc[k])
                 t == Len(tail)
      <4>1. /\ a \in Nat /\ b \in Nat /\ l \in Nat /\ t \in Nat /\ offset \in Nat
            /\ b = a + l /\ b <= t /\ x \in 1 .. l
        BY <1>1, <2>2, <2>3
      <4> HIDE DEF a, b, l, t
      <4>2. a + x \in 1 .. t /\ offset + (a + x) = (offset + a) + x
        BY <4>1
      <4>. QED BY <4>2 DEF a, t
    <3>2. tail[at[k - 1] + x] = enc[k][x]
      BY <1>6
    <3>. QED BY <1>5, <3>1, <3>2
  <2>6. enc[k] = EncodeRow(rows[k])
    BY <1>2
  <2>. QED BY <2>4, <2>5, <2>6 DEF Holds
<1>8. PICK g \in [0 .. count -> Scans] :
        /\ g[0] = ScanStart(offset) /\ g[count] = RowsScan(p, offset, count, nullable)
        /\ \A k \in 1 .. count : g[k] = ScanRow(p, nullable, g[k - 1])
  BY ZenonT(60), <1>1, <1>5, RowsScanPass
<1> DEFINE K == {k \in 0 .. count :
                   g[k] = [status |-> "ok", offset |-> offset + at[k], rows |-> SubSeq(rows, 1, k)]}
<1>9. 0 .. count \subseteq K
  <2>1. 0 \in K
    <3>1. SubSeq(rows, 1, 0) = <<>> /\ offset + at[0] = offset /\ 0 \in 0 .. count
      BY <1>1, <1>6
    <3>. QED BY <1>8, <3>1 DEF ScanStart
  <2>2. ASSUME NEW k \in 1 .. count, k - 1 \in K PROVE k \in K
    <3>1. k - 1 \in 0 .. count /\ k \in 0 .. count
      BY <1>1
    <3>2. g[k - 1] \in Scans
      BY <1>8, <3>1
    <3>3. g[k - 1] = [status |-> "ok", offset |-> offset + at[k - 1], rows |-> SubSeq(rows, 1, k - 1)]
      BY <2>2
    <3>4. rows[k] \in Cells /\ (rows[k] = Null => nullable)
      BY <1>1 DEF count
    <3>5. g[k] = [status |-> "ok", offset |-> (offset + at[k - 1]) + Len(EncodeRow(rows[k])),
                  rows |-> Append(SubSeq(rows, 1, k - 1), rows[k])]
      <4>1. /\ g[k - 1].status = "ok" /\ g[k - 1].offset = offset + at[k - 1]
            /\ g[k - 1].rows = SubSeq(rows, 1, k - 1)
        BY <3>3
      <4>2. Holds(p, g[k - 1].offset, EncodeRow(rows[k])) /\ g[k] = ScanRow(p, nullable, g[k - 1])
        BY <1>7, <1>8, <4>1
      <4>3. ScanRow(p, nullable, g[k - 1])
                = [status |-> "ok", offset |-> g[k - 1].offset + Len(EncodeRow(rows[k])),
                  rows |-> Append(g[k - 1].rows, rows[k])]
        BY <1>5, <3>2, <3>4, <4>1, <4>2, ScanRowReads
      <4>. QED BY <4>1, <4>2, <4>3
    <3>6. (offset + at[k - 1]) + Len(EncodeRow(rows[k])) = offset + at[k]
      <4>1. at[k] = at[k - 1] + Len(EncodeRow(rows[k])) /\ at[k - 1] \in Nat
        BY <1>2, <1>6, <3>1
      <4>2. Len(EncodeRow(rows[k])) \in Nat
        BY <3>4, EncodeRowBytes
      <4>. QED BY <1>1, <4>1, <4>2
    <3>7. Append(SubSeq(rows, 1, k - 1), rows[k]) = SubSeq(rows, 1, k)
      BY <1>1 DEF count
    <3>. QED BY <3>1, <3>5, <3>6, <3>7
  <2> HIDE DEF K
  <2>. QED BY <1>1, <2>1, <2>2, InductionUpTo
<1>10. g[count] = [status |-> "ok", offset |-> offset + at[count], rows |-> SubSeq(rows, 1, count)]
  <2>1. count \in 0 .. count
    BY <1>1
  <2>. QED BY <1>9, <2>1
<1>11. SubSeq(rows, 1, count) = rows
  BY DEF count
<1>12. ~(Len(p) > offset + at[count])
  BY <1>1, <1>3, <1>5, <1>6
<1>13. ScanRows(p, offset, count, nullable) = g[count]
  <2>1. ScanRows(p, offset, count, nullable) =
          LET all == g[count] IN
          IF all.status = "ok" /\ Len(p) > all.offset THEN [all EXCEPT !.status = "error"] ELSE all
    BY <1>8, Zenon DEF ScanRows, RowsScan, ScanStart
  <2>2. g[count].offset = offset + at[count]
    BY <1>10
  <2>. QED BY <1>12, <2>1, <2>2
<1>14. Len(tail) >= count
  <2> DEFINE M == {k \in 0 .. count : at[k] >= k}
  <2>1. 0 \in M
    BY <1>1, <1>6
  <2>2. ASSUME NEW k \in 1 .. count, k - 1 \in M PROVE k \in M
    <3> DEFINE a == at[k - 1]
               m == Len(enc[k])
    <3>1. at[k] = a + m /\ a >= k - 1 /\ a \in Nat
      BY <1>6, <2>2
    <3>2. enc[k] = EncodeRow(rows[k]) /\ rows[k] \in Cells
      BY <1>1, <1>2 DEF count
    <3>3. m \in {1, 3}
      BY <3>2, EncodeRowBytes
    <3> HIDE DEF a, m
    <3>. QED BY <1>1, <3>1, <3>3
  <2> HIDE DEF M
  <2>3. 0 .. count \subseteq M
    BY <1>1, <2>1, <2>2, InductionUpTo
  <2>4. at[count] >= count
    BY <1>1, <2>3 DEF M
  <2>. QED BY <1>6, <2>4
<1>15. p \in Seq(Bytes) /\ Len(p) >= offset + count
  BY <1>1, <1>3, <1>5, <1>14
<1>. QED BY <1>10, <1>11, <1>13, <1>15 DEF p, tail, enc, offset, count

(***************************************************************************)
(* NullableI64PayloadCodec.                                                *)
(***************************************************************************)
(* What follows a payload changes nothing of what it holds. *)
LEMMA HoldsLater ==
  ASSUME NEW a \in Seq(Bytes), NEW b \in Seq(Bytes), NEW offset \in Nat, NEW s \in Seq(Bytes), Holds(a, offset, s)
  PROVE  Holds(a \o b, offset, s)
<1>1. /\ Len(a \o b) = Len(a) + Len(b) /\ Len(a) \in Nat /\ Len(b) \in Nat /\ Len(s) \in Nat
      /\ \A x \in 1 .. Len(a) : (a \o b)[x] = a[x]
  BY ConcatAt
<1>2. offset + Len(s) <= Len(a) /\ \A x \in 1 .. Len(s) : a[offset + x] = s[x]
  BY DEF Holds
<1>3. \A x \in 1 .. Len(s) : offset + x \in 1 .. Len(a)
  BY <1>1, <1>2
<1>4. offset + Len(s) <= Len(a \o b)
  BY <1>1, <1>2
<1>5. \A x \in 1 .. Len(s) : (a \o b)[offset + x] = s[x]
  BY <1>1, <1>2, <1>3
<1>. QED BY <1>4, <1>5 DEF Holds

(* The second of two sequences begins where the first ends. *)
LEMMA HoldsLast ==
  ASSUME NEW a \in Seq(Bytes), NEW b \in Seq(Bytes)
  PROVE  Holds(a \o b, Len(a), b)
<1>1. /\ Len(a \o b) = Len(a) + Len(b) /\ Len(a) \in Nat /\ Len(b) \in Nat
      /\ \A x \in 1 .. Len(b) : (a \o b)[Len(a) + x] = b[x]
  BY ConcatAt
<1>2. Len(a) + Len(b) <= Len(a \o b)
  BY <1>1
<1>. QED BY <1>1, <1>2 DEF Holds

(* A payload that holds one sequence after another holds both. *)
LEMMA HoldsBoth ==
  ASSUME NEW p \in Seq(Bytes), NEW a \in Seq(Bytes), NEW b \in Seq(Bytes),
         Holds(p, 0, a), Holds(p, Len(a), b)
  PROVE  Holds(p, 0, a \o b)
<1> DEFINE c == a \o b
           m == Len(a)
           n == Len(b)
<1>1. /\ Len(c) = m + n /\ m \in Nat /\ n \in Nat
      /\ \A x \in 1 .. m : c[x] = a[x]
      /\ \A x \in 1 .. n : c[m + x] = b[x]
  BY ConcatAt
<1>2. /\ \A x \in 1 .. m : p[0 + x] = a[x]
      /\ m + n <= Len(p) /\ \A x \in 1 .. n : p[m + x] = b[x]
  BY DEF Holds
<1> HIDE DEF c, m, n
<1>3. ASSUME NEW x \in 1 .. m + n PROVE p[0 + x] = c[x]
  <2>1. CASE x <= m
    <3>1. x \in 1 .. m
      BY <1>1, <2>1
    <3>. QED BY <1>1, <1>2, <3>1
  <2>2. CASE x > m
    <3>1. x - m \in 1 .. n /\ m + (x - m) = x /\ 0 + x = x
      BY <1>1, <2>2
    <3>2. c[m + (x - m)] = b[x - m] /\ p[m + (x - m)] = b[x - m]
      BY <1>1, <1>2, <3>1
    <3>. QED BY <3>1, <3>2
  <2>3. x <= m \/ x > m
    BY <1>1
  <2>. QED BY <2>1, <2>2, <2>3
<1>4. 0 + (m + n) <= Len(p)
  BY <1>1, <1>2
<1>5. Holds(p, 0, c)
  BY <1>1, <1>3, <1>4 DEF Holds
<1>. QED BY <1>5 DEF c

(* What a payload begins with is its first bytes. *)
LEMMA HoldsHead ==
  ASSUME NEW p \in Seq(Bytes), NEW h \in Seq(Bytes), Holds(p, 0, h)
  PROVE  SubSeq(p, 1, Len(h)) = h
<1>1. Len(h) \in Nat /\ Len(p) \in Nat /\ Len(h) <= Len(p) /\ \A x \in 1 .. Len(h) : p[0 + x] = h[x]
  BY DEF Holds
<1> DEFINE q == SubSeq(p, 1, Len(h))
<1>2. q \in Seq(Bytes) /\ Len(q) = Len(h) /\ \A x \in 1 .. Len(h) : q[x] = p[x]
  BY <1>1
<1>3. \A x \in 1 .. Len(h) : 0 + x = x
  OBVIOUS
<1> HIDE DEF q
<1>4. q = h
  BY <1>1, <1>2, <1>3, SeqEqual
<1>. QED BY <1>4 DEF q

(* Any slice of a payload is held where it was taken. *)
LEMMA HoldsSlice ==
  ASSUME NEW p \in Seq(Bytes), NEW offset \in Nat, NEW m \in Nat, offset + m <= Len(p)
  PROVE  LET s == SubSeq(p, offset + 1, offset + m)
         IN  s \in Seq(Bytes) /\ Len(s) = m /\ Holds(p, offset, s)
<1> DEFINE s == SubSeq(p, offset + 1, offset + m)
<1>1. s \in Seq(Bytes) /\ Len(s) = m /\ \A x \in 1 .. m : s[x] = p[offset + x]
  OBVIOUS
<1> HIDE DEF s
<1>2. Holds(p, offset, s)
  BY <1>1 DEF Holds
<1>. QED BY <1>1, <1>2 DEF s

(* So is any word. *)
LEMMA HoldsWord ==
  ASSUME NEW p \in Seq(Bytes), NEW offset \in Nat, offset + 2 <= Len(p)
  PROVE  WordAt(p, offset) \in 0 .. WordMax /\ Holds(p, offset, Word(WordAt(p, offset)))
<1> DEFINE w == Word(WordAt(p, offset))
<1>1. WordAt(p, offset) \in 0 .. WordMax /\ w = <<p[offset + 1], p[offset + 2]>>
  BY WordInside
<1>2. Len(w) = 2 /\ w[1] = p[offset + 1] /\ w[2] = p[offset + 2]
  BY <1>1
<1>3. \A x \in 1 .. 2 : x = 1 \/ x = 2
  OBVIOUS
<1> HIDE DEF w
<1>4. Holds(p, offset, w)
  BY <1>2, <1>3 DEF Holds
<1>. QED BY <1>1, <1>4 DEF w

LimitsType == [max_rows : Nat, max_runs : Nat, max_name_len : Nat, max_payload_len : Nat]

(* A result yields its value, or is the error. *)
LEMMA OkFacts ==
  /\ \A v : IsOk(Ok(v)) /\ Ok(v).value = v
  /\ ~IsOk(Error)
  /\ \A v, w : Ok(v) = Ok(w) => v = w
BY DEF IsOk, Ok, Error

(* NullableI64PayloadCodec reads back the rows it wrote. *)
THEOREM NullableRoundTrip ==
  ASSUME NEW lim \in LimitsType, NEW rows \in Seq(Cells), Len(rows) <= WordMax,
         IsOk(EncodeNullable(lim, rows))
  PROVE  /\ EncodeNullable(lim, rows).value \in Seq(Bytes)
         /\ DecodeNullable(lim, EncodeNullable(lim, rows).value) = Ok(rows)
<1> DEFINE count == Len(rows)
           flat == FlattenSeq([k \in 1 .. count |-> EncodeRow(rows[k])])
           p == Word(count) \o flat
           all == ScanRows(p, WordLen, count, TRUE)
<1>1. count \in 0 .. WordMax /\ DOMAIN rows = 1 .. count
  BY BaseFacts
<1>2. Word(count) \in Seq(Bytes) /\ Len(Word(count)) = WordLen
  BY <1>1, WordBytes DEF WordLen
<1>3. ~(count > lim.max_rows \/ Len(p) > lim.max_payload_len) /\ EncodeNullable(lim, rows) = Ok(p)
  BY <1>1, OkFacts DEF EncodeNullable
<1>4. p \in Seq(Bytes) /\ Len(p) >= WordLen + count /\ all.status = "ok" /\ all.rows = rows
  BY <1>2, ScanRowsReads
<1>5. WordAt(p, 0) = count
  <2>1. flat \in Seq(Bytes)
    <3>1. [k \in 1 .. count |-> EncodeRow(rows[k])] \in Seq(Seq(Bytes))
      BY <1>1, EncodeRowBytes
    <3>. QED BY <3>1, FlattenLaysOut
  <2>2. Holds(Word(count), 0, Word(count))
    BY <1>2 DEF Holds, WordLen
  <2> HIDE DEF flat
  <2>3. Holds(p, 0, Word(count))
    BY <1>2, <2>1, <2>2, HoldsLater
  <2>. QED BY <1>1, <1>4, <2>3, WordReadBack
<1>6. lim.max_rows \in Nat /\ lim.max_payload_len \in Nat /\ Len(p) \in Nat /\ count \in Nat
  BY <1>1, <1>4, BaseFacts DEF LimitsType
<1> HIDE DEF p, all, count
<1>7. /\ ~(Len(p) > lim.max_payload_len \/ Len(p) < WordLen)
      /\ ~(count > lim.max_rows)
      /\ ~(WordLen + count > lim.max_payload_len \/ Len(p) < WordLen + count)
  BY <1>3, <1>4, <1>6 DEF WordLen
<1>8. DecodeNullable(lim, p) = Ok(all.rows)
  BY <1>4, <1>5, <1>7 DEF DecodeNullable, all
<1>. QED BY <1>3, <1>4, <1>8, OkFacts

(* It accepts only what it would write for the rows it returns. *)
THEOREM NullableAccepts ==
  ASSUME NEW lim \in LimitsType, NEW p \in Seq(Bytes), IsOk(DecodeNullable(lim, p))
  PROVE  \E rows \in Seq(Cells) : DecodeNullable(lim, p) = Ok(rows) /\ EncodeNullable(lim, rows) = Ok(p)
<1> DEFINE count == WordAt(p, 0)
           all == ScanRows(p, WordLen, count, TRUE)
<1>1. /\ ~(Len(p) > lim.max_payload_len \/ Len(p) < WordLen)
      /\ ~(count > lim.max_rows)
      /\ ~(WordLen + count > lim.max_payload_len \/ Len(p) < WordLen + count)
      /\ all.status = "ok" /\ DecodeNullable(lim, p) = Ok(all.rows)
  <2> HIDE DEF count, all
  <2>1. DecodeNullable(lim, p) =
          IF Len(p) > lim.max_payload_len \/ Len(p) < WordLen THEN Error
          ELSE IF count > lim.max_rows THEN Error
          ELSE IF WordLen + count > lim.max_payload_len \/ Len(p) < WordLen + count THEN Error
          ELSE IF all.status = "ok" THEN Ok(all.rows) ELSE Error
    BY DEF DecodeNullable, count, all
  <2>. QED BY <2>1, OkFacts
<1>2. Len(p) \in Nat /\ 0 + 2 <= Len(p) /\ WordLen \in 0 .. Len(p)
  BY <1>1 DEF WordLen
<1>3. count \in 0 .. WordMax /\ Holds(p, 0, Word(count))
  BY <1>2, HoldsWord
<1>4. count \in Nat
  BY <1>3, BaseFacts
<1> HIDE DEF count
<1>5. PICK rows \in Seq(Cells) :
           /\ rows = all.rows /\ Len(rows) = count
           /\ p = SubSeq(p, 1, WordLen) \o FlattenSeq([k \in 1 .. count |-> EncodeRow(rows[k])])
  BY <1>1, <1>2, <1>4, ScanRowsYields
<1>6. SubSeq(p, 1, WordLen) = Word(count)
  <2>1. Word(count) \in Seq(Bytes) /\ Len(Word(count)) = WordLen
    BY <1>3, WordBytes DEF WordLen
  <2>. QED BY <1>3, <2>1, HoldsHead
<1>7. EncodeNullable(lim, rows) = Ok(p)
  <2>1. DOMAIN rows = 1 .. count /\ Len(rows) = count
    <3>1. Len(rows) = count
      BY <1>5
    <3>2. DOMAIN rows = 1 .. Len(rows)
      OBVIOUS
    <3>. QED BY <3>1, <3>2
  <2>2. p = Word(count) \o FlattenSeq([k \in 1 .. count |-> EncodeRow(rows[k])])
    BY <1>5, <1>6
  <2>. QED BY <1>1, <2>1, <2>2 DEF EncodeNullable
<1>. QED BY <1>1, <1>5, <1>7

(***************************************************************************)
(* Int64TablePayloadCodec.                                                 *)
(***************************************************************************)
\* What can be saved as a table: lengths and caps that fit a word.
StoredTable(t) ==
  /\ t = [name |-> t.name, nullable |-> t.nullable, row_cap |-> t.row_cap, rows |-> t.rows]
  /\ t.name \in Seq(Bytes) /\ Len(t.name) <= WordMax
  /\ t.nullable \in BOOLEAN
  /\ t.row_cap \in 0 .. WordMax
  /\ t.rows \in Seq(Cells) /\ Len(t.rows) <= WordMax
  /\ t.nullable \/ \A k \in DOMAIN t.rows : t.rows[k] # Null

\* The fixed fields, the name, the cap and the row count.
Fixed(nullable) == <<Magic, Version, TypeTag, IF nullable THEN Nullable ELSE NotNull>>
HeadOf(name, nullable, cap, count) ==
  Fixed(nullable) \o Word(Len(name)) \o name \o Word(cap) \o Word(count)

(* The four bytes before the name. *)
LEMMA FixedBytes ==
  ASSUME NEW nullable \in BOOLEAN
  PROVE  Fixed(nullable) \in Seq(Bytes) /\ Len(Fixed(nullable)) = 4
<1>1. {0, 1} \subseteq Bytes
  BY BaseFacts DEF Bytes
<1>. QED BY <1>1 DEF Fixed, Magic, Version, TypeTag, Nullable, NotNull

\* The parts of the header are where the decoder looks for them.
LEMMA HeadParts ==
  ASSUME NEW name \in Seq(Bytes), Len(name) <= WordMax, NEW nullable \in BOOLEAN,
         NEW cap \in 0 .. WordMax, NEW count \in 0 .. WordMax, NEW tail \in Seq(Bytes)
  PROVE  LET head == HeadOf(name, nullable, cap, count)
             p == head \o tail
         IN  /\ head \in Seq(Bytes) /\ Len(head) = NameOffset + Len(name) + 2 * WordLen
             /\ Holds(p, 0, Fixed(nullable)) /\ Holds(p, 4, Word(Len(name))) /\ Holds(p, 6, name)
             /\ Holds(p, 6 + Len(name), Word(cap)) /\ Holds(p, 6 + Len(name) + 2, Word(count))
<1> DEFINE a == Fixed(nullable)
           b == Word(Len(name))
           c == Word(cap)
           d == Word(count)
           m == Len(name)
           h2 == a \o b
           h3 == h2 \o name
           h4 == h3 \o c
           h5 == h4 \o d
           p == h5 \o tail
<1>1. /\ a \in Seq(Bytes) /\ Len(a) = 4 /\ b \in Seq(Bytes) /\ Len(b) = 2
      /\ c \in Seq(Bytes) /\ Len(c) = 2 /\ d \in Seq(Bytes) /\ Len(d) = 2 /\ m \in Nat
  <2>1. Len(name) \in 0 .. WordMax
    BY BaseFacts
  <2>. QED BY <2>1, FixedBytes, WordBytes
<1>2. HeadOf(name, nullable, cap, count) = h5
  BY DEF HeadOf
<1> HIDE DEF a, b, c, d, m
<1>3. h2 \in Seq(Bytes) /\ Len(h2) = 6 /\ Holds(h2, 0, a) /\ Holds(h2, 4, b)
  <2>1. Holds(a, 0, a)
    BY <1>1 DEF Holds
  <2>2. h2 \in Seq(Bytes) /\ Len(h2) = Len(a) + Len(b)
    BY ZenonT(60), <1>1, ConcatAt
  <2>3. Holds(h2, Len(a), b)
    BY <1>1, HoldsLast
  <2>. QED BY <1>1, <2>1, <2>2, <2>3, HoldsLater
<1> HIDE DEF h2
<1>4. /\ h3 \in Seq(Bytes) /\ Len(h3) = 6 + m /\ Holds(h3, 0, a) /\ Holds(h3, 4, b)
      /\ Holds(h3, 6, name)
  <2>1. h3 \in Seq(Bytes) /\ Len(h3) = Len(h2) + Len(name)
    BY ZenonT(60), <1>3, ConcatAt
  <2>2. Holds(h3, Len(h2), name)
    BY <1>3, HoldsLast
  <2>3. Holds(h3, 0, a) /\ Holds(h3, 4, b)
    BY <1>1, <1>3, HoldsLater
  <2>. QED BY <1>3, <2>1, <2>2, <2>3 DEF m
<1> HIDE DEF h3
<1>5. /\ h4 \in Seq(Bytes) /\ Len(h4) = 6 + m + 2
      /\ Holds(h4, 0, a) /\ Holds(h4, 4, b) /\ Holds(h4, 6, name) /\ Holds(h4, 6 + m, c)
  <2>1. h4 \in Seq(Bytes) /\ Len(h4) = Len(h3) + Len(c)
    BY ZenonT(60), <1>1, <1>4, ConcatAt
  <2>2. Holds(h4, Len(h3), c)
    BY <1>1, <1>4, HoldsLast
  <2>3. Holds(h4, 0, a) /\ Holds(h4, 4, b) /\ Holds(h4, 6, name)
    BY <1>1, <1>4, HoldsLater
  <2>. QED BY <1>1, <1>4, <2>1, <2>2, <2>3
<1> HIDE DEF h4
<1>6. /\ h5 \in Seq(Bytes) /\ Len(h5) = 6 + m + 2 + 2
      /\ Holds(h5, 0, a) /\ Holds(h5, 4, b) /\ Holds(h5, 6, name) /\ Holds(h5, 6 + m, c)
      /\ Holds(h5, 6 + m + 2, d)
  <2>1. h5 \in Seq(Bytes) /\ Len(h5) = Len(h4) + Len(d)
    BY ZenonT(60), <1>1, <1>5, ConcatAt
  <2>2. Holds(h5, Len(h4), d)
    BY <1>1, <1>5, HoldsLast
  <2>3. Holds(h5, 0, a) /\ Holds(h5, 4, b) /\ Holds(h5, 6, name)
    BY <1>1, <1>5, HoldsLater
  <2>4. 6 + m \in Nat
    BY <1>1
  <2>5. Holds(h5, 6 + m, c)
    BY <1>1, <1>5, <2>4, HoldsLater
  <2>. QED BY <1>1, <1>5, <2>1, <2>2, <2>3, <2>5
<1> HIDE DEF h5
<1>7. /\ Holds(p, 0, a) /\ Holds(p, 4, b) /\ Holds(p, 6, name) /\ Holds(p, 6 + m, c)
      /\ Holds(p, 6 + m + 2, d)
  <2>1. 6 + m \in Nat /\ 6 + m + 2 \in Nat
    BY <1>1
  <2>2. Holds(p, 0, a) /\ Holds(p, 4, b) /\ Holds(p, 6, name)
    BY <1>1, <1>6, HoldsLater
  <2>3. Holds(p, 6 + m, c) /\ Holds(p, 6 + m + 2, d)
    BY <1>1, <1>6, <2>1, HoldsLater
  <2>. QED BY <2>2, <2>3
<1>8. Len(h5) = NameOffset + Len(name) + 2 * WordLen
  BY <1>1, <1>6 DEF NameOffset, WordLen, m
<1> HIDE DEF p
<1>. QED BY <1>2, <1>6, <1>7, <1>8 DEF a, b, c, d, m, p

\* A payload with those parts has that header.
LEMMA HeadFromParts ==
  ASSUME NEW name \in Seq(Bytes), Len(name) <= WordMax, NEW nullable \in BOOLEAN,
         NEW cap \in 0 .. WordMax, NEW count \in 0 .. WordMax, NEW p \in Seq(Bytes),
         Holds(p, 0, Fixed(nullable)), Holds(p, 4, Word(Len(name))), Holds(p, 6, name),
         Holds(p, 6 + Len(name), Word(cap)), Holds(p, 6 + Len(name) + 2, Word(count))
  PROVE  SubSeq(p, 1, NameOffset + Len(name) + 2 * WordLen) = HeadOf(name, nullable, cap, count)
<1> DEFINE a == Fixed(nullable)
           b == Word(Len(name))
           c == Word(cap)
           d == Word(count)
           m == Len(name)
           h2 == a \o b
           h3 == h2 \o name
           h4 == h3 \o c
           h5 == h4 \o d
<1>1. /\ a \in Seq(Bytes) /\ Len(a) = 4 /\ b \in Seq(Bytes) /\ Len(b) = 2
      /\ c \in Seq(Bytes) /\ Len(c) = 2 /\ d \in Seq(Bytes) /\ Len(d) = 2 /\ m \in Nat
  <2>1. Len(name) \in 0 .. WordMax
    BY BaseFacts
  <2>. QED BY <2>1, FixedBytes, WordBytes
<1>2. HeadOf(name, nullable, cap, count) = h5
  BY DEF HeadOf
<1>3. /\ Holds(p, 0, a) /\ Holds(p, 4, b) /\ Holds(p, 6, name) /\ Holds(p, 6 + m, c)
      /\ Holds(p, 6 + m + 2, d)
  OBVIOUS
<1> HIDE DEF a, b, c, d, m
<1>4. h2 \in Seq(Bytes) /\ Len(h2) = 6 /\ Holds(p, 0, h2)
  <2>1. h2 \in Seq(Bytes) /\ Len(h2) = Len(a) + Len(b)
    BY <1>1, ConcatAt
  <2>2. Holds(p, 0, h2)
    BY <1>1, <1>3, HoldsBoth
  <2>. QED BY <1>1, <2>1, <2>2
<1> HIDE DEF h2
<1>5. h3 \in Seq(Bytes) /\ Len(h3) = 6 + m /\ Holds(p, 0, h3)
  <2>1. h3 \in Seq(Bytes) /\ Len(h3) = Len(h2) + Len(name)
    BY <1>4, ConcatAt
  <2>2. Holds(p, 0, h3)
    BY <1>3, <1>4, HoldsBoth
  <2>. QED BY <1>4, <2>1, <2>2 DEF m
<1> HIDE DEF h3
<1>6. h4 \in Seq(Bytes) /\ Len(h4) = 6 + m + 2 /\ Holds(p, 0, h4)
  <2>1. h4 \in Seq(Bytes) /\ Len(h4) = Len(h3) + Len(c)
    BY ZenonT(60), <1>1, <1>5, ConcatAt
  <2>2. Holds(p, 0, h4)
    BY <1>1, <1>3, <1>5, HoldsBoth
  <2>. QED BY <1>1, <1>5, <2>1, <2>2
<1> HIDE DEF h4
<1>7. h5 \in Seq(Bytes) /\ Len(h5) = 6 + m + 2 + 2 /\ Holds(p, 0, h5)
  <2>1. h5 \in Seq(Bytes) /\ Len(h5) = Len(h4) + Len(d)
    BY ZenonT(60), <1>1, <1>6, ConcatAt
  <2>2. Holds(p, 0, h5)
    BY <1>1, <1>3, <1>6, HoldsBoth
  <2>. QED BY <1>1, <1>6, <2>1, <2>2
<1> HIDE DEF h5
<1>8. SubSeq(p, 1, Len(h5)) = h5
  BY <1>7, HoldsHead
<1>9. Len(h5) = NameOffset + Len(name) + 2 * WordLen
  BY <1>1, <1>7 DEF NameOffset, WordLen, m
<1>. QED BY <1>2, <1>8, <1>9

(* Int64TablePayloadCodec reads back the table it wrote. *)
THEOREM TableRoundTrip ==
  ASSUME NEW lim \in LimitsType, NEW t, StoredTable(t), ValidName(t.name), Len(t.rows) <= t.row_cap,
         IsOk(EncodeTable(lim, t))
  PROVE  /\ EncodeTable(lim, t).value \in Seq(Bytes)
         /\ DecodeTable(lim, EncodeTable(lim, t).value) = Ok(t)
<1> DEFINE count == Len(t.rows)
           m == Len(t.name)
           cap == t.row_cap
           nullable == t.nullable
           head == HeadOf(t.name, nullable, cap, count)
           flat == FlattenSeq([k \in 1 .. count |-> EncodeRow(t.rows[k])])
           p == head \o flat
           rowsAt == 6 + m + 4
           all == ScanRows(p, rowsAt, count, nullable)
<1>1. /\ t.name \in Seq(Bytes) /\ m \in 0 .. WordMax /\ nullable \in BOOLEAN /\ cap \in 0 .. WordMax
      /\ t.rows \in Seq(Cells) /\ count \in 0 .. WordMax /\ count <= cap
      /\ DOMAIN t.rows = 1 .. count /\ (nullable \/ \A k \in 1 .. count : t.rows[k] # Null)
  <2>1. /\ t.name \in Seq(Bytes) /\ m <= WordMax /\ nullable \in BOOLEAN /\ cap \in 0 .. WordMax
        /\ t.rows \in Seq(Cells) /\ count <= WordMax
        /\ (nullable \/ \A k \in DOMAIN t.rows : t.rows[k] # Null)
    BY DEF StoredTable
  <2>2. DOMAIN t.rows = 1 .. count /\ count \in Nat /\ m \in Nat
    BY <2>1
  <2>. QED BY <2>1, <2>2, BaseFacts
<1>2. flat \in Seq(Bytes)
  <2>1. [k \in 1 .. count |-> EncodeRow(t.rows[k])] \in Seq(Seq(Bytes))
    BY <1>1, EncodeRowBytes
  <2>. QED BY <2>1, FlattenLaysOut
<1>3. /\ ~(m > lim.max_name_len \/ cap > lim.max_rows \/ count > lim.max_rows
             \/ Len(p) > lim.max_payload_len)
      /\ EncodeTable(lim, t) = Ok(p)
  BY <1>1, OkFacts DEF EncodeTable, HeadOf, Fixed
<1>4. /\ head \in Seq(Bytes) /\ Len(head) = rowsAt
      /\ Holds(p, 0, Fixed(nullable)) /\ Holds(p, 4, Word(m)) /\ Holds(p, 6, t.name)
      /\ Holds(p, 6 + m, Word(cap)) /\ Holds(p, 6 + m + 2, Word(count))
  <2>1. NameOffset + m + 2 * WordLen = rowsAt
    BY <1>1, BaseFacts DEF NameOffset, WordLen
  <2>. QED BY <1>1, <1>2, <2>1, HeadParts
<1> HIDE DEF head
<1>5. p \in Seq(Bytes) /\ Len(p) >= rowsAt + count /\ all.status = "ok" /\ all.rows = t.rows
  <2>1. /\ p \in Seq(Bytes) /\ Len(p) >= Len(head) + count
        /\ ScanRows(p, Len(head), count, nullable).status = "ok"
        /\ ScanRows(p, Len(head), count, nullable).rows = t.rows
    <3>1. head \in Seq(Bytes) /\ t.rows \in Seq(Cells) /\ nullable \in BOOLEAN
          /\ (nullable \/ \A k \in 1 .. Len(t.rows) : t.rows[k] # Null)
      BY <1>1, <1>4
    <3>. QED BY <3>1, ScanRowsReads
  <2>2. Len(head) = rowsAt
    BY <1>4
  <2> HIDE DEF p, rowsAt
  <2>. QED BY <2>1, <2>2
<1> HIDE DEF flat
<1>6. m \in Nat /\ cap \in Nat /\ count \in Nat
  BY <1>1, BaseFacts
<1> HIDE DEF p, all, m
<1>7. WordAt(p, 4) = m /\ WordAt(p, 6 + m) = cap /\ WordAt(p, 6 + m + 2) = count
  BY <1>1, <1>4, <1>5, <1>6, WordReadBack
<1>8. SubSeq(p, 7, 6 + m) = t.name
  <2>1. Len(p) \in Nat /\ 6 + m <= Len(p) /\ \A x \in 1 .. m : p[6 + x] = t.name[x]
    BY <1>4, <1>5, <1>6 DEF Holds, m
  <2> DEFINE s == SubSeq(p, 7, 6 + m)
  <2>2. s \in Seq(Bytes) /\ Len(s) = m /\ \A x \in 1 .. m : s[x] = p[6 + x]
    BY <1>5, <1>6, <2>1
  <2> HIDE DEF s
  <2>3. s = t.name
    BY SMTT(60), <1>1, <2>1, <2>2, SeqEqual DEF m
  <2>. QED BY <2>3 DEF s
<1>9. /\ p[1] = Magic /\ p[2] = Version /\ p[3] = TypeTag
      /\ p[4] = (IF nullable THEN Nullable ELSE NotNull)
  <2>1. \A x \in 1 .. 4 : p[0 + x] = Fixed(nullable)[x]
    BY <1>1, <1>4, FixedBytes DEF Holds
  <2>2. /\ p[1] = Fixed(nullable)[1] /\ p[2] = Fixed(nullable)[2] /\ p[3] = Fixed(nullable)[3]
        /\ p[4] = Fixed(nullable)[4]
    BY <2>1
  <2>. QED BY <2>2 DEF Fixed
<1>10. nullable = (p[4] = Nullable) /\ p[4] \in {NotNull, Nullable}
  BY <1>1, <1>9 DEF Nullable, NotNull
<1>11. /\ lim.max_rows \in Nat /\ lim.max_name_len \in Nat /\ lim.max_payload_len \in Nat
       /\ Len(p) \in Nat
  BY <1>5 DEF LimitsType
<1>12. DecodeTable(lim, p)
           = Ok([name |-> t.name, nullable |-> nullable, row_cap |-> cap, rows |-> all.rows])
  <2>0. Len(p) \in Nat /\ m \in Nat /\ count \in Nat /\ Len(p) >= (6 + m + 4) + count
    <3>1. Len(p) >= (6 + m + 4) + count
      BY <1>5
    <3>. QED BY <1>6, <1>11, <3>1
  <2>1. NameOffset = 6 /\ WordLen = 2
    BY DEF NameOffset, WordLen
  <2>2. 6 + m + 2 * 2 = rowsAt
    BY <1>6
  <2>3. ~(Len(p) > lim.max_payload_len \/ Len(p) < 6) /\ ~(m > lim.max_name_len \/ Len(p) < 6 + m)
    <3>1. m <= lim.max_name_len /\ Len(p) <= lim.max_payload_len
      BY <1>3, <1>6, <1>11 DEF m
    <3>2. 6 + m <= Len(p)
      <4> HIDE DEF count, cap
      <4>. QED BY <2>0
    <3>. QED BY <1>6, <1>11, <3>1, <3>2
  <2>4. ~(rowsAt > lim.max_payload_len \/ Len(p) < rowsAt)
        /\ ~(rowsAt + count > lim.max_payload_len \/ Len(p) < rowsAt + count)
    <3>1. Len(p) <= lim.max_payload_len
      BY <1>3, <1>11
    <3>2. rowsAt \in Nat /\ rowsAt + count <= Len(p)
      <4> HIDE DEF count, cap
      <4>. QED BY <2>0
    <3> HIDE DEF rowsAt, count
    <3>. QED BY <1>6, <1>11, <3>1, <3>2
  <2>5. CapAdmits(lim, count, cap)
    BY <1>1, <1>3, <1>6, <1>11 DEF CapAdmits
  <2> HIDE DEF rowsAt, count, cap, nullable
  <2>6. all = ScanRows(p, rowsAt, count, nullable)
    BY DEF all
  <2>7. DecodeTable(lim, p) =
           IF Len(p) > lim.max_payload_len \/ Len(p) < 6 THEN Error
           ELSE IF p[1] # Magic \/ p[2] # Version \/ p[3] # TypeTag THEN Error
           ELSE IF p[4] \notin {NotNull, Nullable} THEN Error
           ELSE IF m > lim.max_name_len \/ Len(p) < 6 + m THEN Error
           ELSE IF ~ValidName(t.name) THEN Error
           ELSE IF rowsAt > lim.max_payload_len \/ Len(p) < rowsAt THEN Error
           ELSE IF ~CapAdmits(lim, count, cap) THEN Error
           ELSE IF rowsAt + count > lim.max_payload_len \/ Len(p) < rowsAt + count THEN Error
           ELSE IF all.status # "ok" THEN Error
           ELSE Ok([name |-> t.name, nullable |-> nullable, row_cap |-> cap, rows |-> all.rows])
    <3>1. 6 + 1 = 7
      OBVIOUS
    <3>2. WordAt(p, 4) = m /\ WordAt(p, 6 + m) = cap /\ WordAt(p, 6 + m + 2) = count
      BY <1>7 DEF cap, count
    <3>3. nullable = (p[4] = Nullable)
      BY <1>10 DEF nullable
    <3> DEFINE nl == WordAt(p, 4)
               nm == SubSeq(p, 6 + 1, 6 + nl)
               cp == WordAt(p, 6 + nl)
               ct == WordAt(p, 6 + nl + 2)
               at == 6 + nl + 2 * 2
               nb == p[4] = Nullable
               sc == ScanRows(p, at, ct, nb)
    <3>4. DecodeTable(lim, p) =
           IF Len(p) > lim.max_payload_len \/ Len(p) < 6 THEN Error
           ELSE IF p[1] # Magic \/ p[2] # Version \/ p[3] # TypeTag THEN Error
           ELSE IF p[4] \notin {NotNull, Nullable} THEN Error
           ELSE IF nl > lim.max_name_len \/ Len(p) < 6 + nl THEN Error
           ELSE IF ~ValidName(nm) THEN Error
           ELSE IF at > lim.max_payload_len \/ Len(p) < at THEN Error
           ELSE IF ~CapAdmits(lim, ct, cp) THEN Error
           ELSE IF at + ct > lim.max_payload_len \/ Len(p) < at + ct THEN Error
           ELSE IF sc.status # "ok" THEN Error
           ELSE Ok([name |-> nm, nullable |-> nb, row_cap |-> cp, rows |-> sc.rows])
      BY <2>1, Zenon DEF DecodeTable
    <3>5. /\ nl = m /\ nm = t.name /\ cp = cap /\ ct = count /\ at = rowsAt /\ nb = nullable
          /\ sc = all
      BY <1>8, <2>2, <2>6, <3>1, <3>2, <3>3
    <3> HIDE DEF nl, nm, cp, ct, at, nb, sc
    <3>. QED BY <3>4, <3>5
  <2>. QED BY <1>5, <1>9, <1>10, <2>3, <2>4, <2>5, <2>7
<1>13. Ok([name |-> t.name, nullable |-> nullable, row_cap |-> cap, rows |-> all.rows]) = Ok(t)
  <2>1. t = [name |-> t.name, nullable |-> nullable, row_cap |-> cap, rows |-> t.rows]
    BY Zenon DEF StoredTable
  <2>. QED BY <1>5, <2>1, Zenon
<1>. QED BY <1>3, <1>5, <1>12, <1>13, OkFacts

(* It accepts only what it would write for the table it returns, whose rows
   are within its cap. *)
THEOREM TableAccepts ==
  ASSUME NEW lim \in LimitsType, NEW p \in Seq(Bytes), IsOk(DecodeTable(lim, p))
  PROVE  \E t : /\ DecodeTable(lim, p) = Ok(t) /\ EncodeTable(lim, t) = Ok(p)
                /\ StoredTable(t) /\ Len(t.rows) <= t.row_cap
<1> DEFINE m == WordAt(p, 4)
           name == SubSeq(p, 6 + 1, 6 + m)
           rowsAt == 6 + m + 4
           cap == WordAt(p, 6 + m)
           count == WordAt(p, 6 + m + 2)
           nullable == p[4] = Nullable
           all == ScanRows(p, rowsAt, count, nullable)
           t == [name |-> name, nullable |-> nullable, row_cap |-> cap, rows |-> all.rows]
<1>0. DecodeTable(lim, p) =
           IF Len(p) > lim.max_payload_len \/ Len(p) < 6 THEN Error
           ELSE IF p[1] # Magic \/ p[2] # Version \/ p[3] # TypeTag THEN Error
           ELSE IF p[4] \notin {NotNull, Nullable} THEN Error
           ELSE IF m > lim.max_name_len \/ Len(p) < 6 + m THEN Error
           ELSE IF ~ValidName(name) THEN Error
           ELSE IF 6 + m + 2 * 2 > lim.max_payload_len \/ Len(p) < 6 + m + 2 * 2 THEN Error
           ELSE IF ~CapAdmits(lim, count, cap) THEN Error
           ELSE IF 6 + m + 2 * 2 + count > lim.max_payload_len
               \/ Len(p) < 6 + m + 2 * 2 + count THEN Error
           ELSE IF ScanRows(p, 6 + m + 2 * 2, count, nullable).status # "ok" THEN Error
           ELSE Ok([name |-> name, nullable |-> nullable, row_cap |-> cap,
                    rows |-> ScanRows(p, 6 + m + 2 * 2, count, nullable).rows])
  <2>1. NameOffset = 6 /\ WordLen = 2
    BY DEF NameOffset, WordLen
  <2>. QED BY <2>1, Zenon DEF DecodeTable
<1>1. /\ ~(Len(p) > lim.max_payload_len \/ Len(p) < 6)
      /\ ~(p[1] # Magic \/ p[2] # Version \/ p[3] # TypeTag) /\ p[4] \in {NotNull, Nullable}
      /\ ~(m > lim.max_name_len \/ Len(p) < 6 + m)
  <2> HIDE DEF m, name, cap, count, nullable
  <2>. QED BY <1>0, OkFacts
<1>2. Len(p) \in Nat /\ m \in 0 .. WordMax /\ Holds(p, 4, Word(m)) /\ m \in Nat
  <2>1. Len(p) \in Nat /\ 4 + 2 <= Len(p)
    BY <1>1
  <2>2. m \in 0 .. WordMax /\ Holds(p, 4, Word(m))
    BY <2>1, HoldsWord
  <2>. QED BY <2>1, <2>2, BaseFacts
<1>3. 6 + m + 2 * 2 = rowsAt
  <2> HIDE DEF m
  <2>. QED BY <1>2
<1>4. /\ CapAdmits(lim, count, cap) /\ all.status = "ok" /\ ~(Len(p) < rowsAt)
      /\ DecodeTable(lim, p) = Ok(t)
  <2> HIDE DEF m, name, cap, count, nullable, rowsAt
  <2>. QED BY <1>0, <1>3, OkFacts
<1>5. name \in Seq(Bytes) /\ Len(name) = m /\ Holds(p, 6, name)
  <2> HIDE DEF m
  <2>1. 6 + m <= Len(p)
    BY <1>1, <1>2
  <2>. QED BY <1>2, <2>1, HoldsSlice
<1>6. /\ cap \in 0 .. WordMax /\ Holds(p, 6 + m, Word(cap))
      /\ count \in 0 .. WordMax /\ Holds(p, 6 + m + 2, Word(count))
  <2> HIDE DEF m
  <2>1. 6 + m \in Nat /\ 6 + m + 2 \in Nat /\ (6 + m) + 2 <= Len(p) /\ (6 + m + 2) + 2 <= Len(p)
    BY <1>2, <1>4
  <2>. QED BY <2>1, HoldsWord
<1>7. nullable \in BOOLEAN /\ Holds(p, 0, Fixed(nullable))
  <2>1. /\ p[1] = Magic /\ p[2] = Version /\ p[3] = TypeTag
        /\ p[4] = (IF nullable THEN Nullable ELSE NotNull)
    BY <1>1
  <2>2. /\ Fixed(nullable)[1] = p[1] /\ Fixed(nullable)[2] = p[2] /\ Fixed(nullable)[3] = p[3]
        /\ Fixed(nullable)[4] = p[4]
    BY <2>1 DEF Fixed
  <2>3. Len(Fixed(nullable)) = 4
    BY DEF Fixed
  <2>4. \A x \in 1 .. 4 : x = 1 \/ x = 2 \/ x = 3 \/ x = 4
    OBVIOUS
  <2>5. 0 + 4 <= Len(p)
    BY <1>1, <1>2
  <2> HIDE DEF nullable
  <2>6. \A x \in 1 .. 4 : p[0 + x] = Fixed(nullable)[x]
    BY <2>2, <2>4
  <2>7. Holds(p, 0, Fixed(nullable))
    BY <2>3, <2>5, <2>6 DEF Holds
  <2>. QED BY <2>7 DEF nullable
<1> HIDE DEF name, cap, count, nullable
<1>8. rowsAt \in 0 .. Len(p) /\ count \in Nat
  <2> HIDE DEF m
  <2>. QED BY <1>2, <1>4, <1>6, BaseFacts
<1>9. PICK rows \in Seq(Cells) :
           /\ rows = all.rows
           /\ Len(rows) = count /\ (nullable \/ \A k \in 1 .. count : rows[k] # Null)
           /\ p = SubSeq(p, 1, rowsAt) \o FlattenSeq([k \in 1 .. count |-> EncodeRow(rows[k])])
  <2> HIDE DEF rowsAt
  <2>. QED BY <1>4, <1>7, <1>8, ScanRowsYields
<1> HIDE DEF all, m
<1>10. t = [name |-> name, nullable |-> nullable, row_cap |-> cap, rows |-> rows]
  BY <1>9
<1>11. t.name = name /\ t.nullable = nullable /\ t.row_cap = cap /\ t.rows = rows
  BY <1>10
<1> HIDE DEF t
<1>12. SubSeq(p, 1, rowsAt) = HeadOf(name, nullable, cap, count)
  <2>1. Len(name) <= WordMax /\ NameOffset + Len(name) + 2 * WordLen = rowsAt
    BY <1>2, <1>5, BaseFacts DEF NameOffset, WordLen
  <2>. QED BY <1>2, <1>5, <1>6, <1>7, <2>1, HeadFromParts
<1>13. DOMAIN rows = 1 .. count /\ Len(rows) = count
  <2>1. DOMAIN rows = 1 .. Len(rows)
    OBVIOUS
  <2>. QED BY <1>9, <2>1
<1>14. p = HeadOf(name, nullable, cap, count) \o FlattenSeq([k \in DOMAIN rows |-> EncodeRow(rows[k])])
  BY <1>9, <1>12, <1>13
<1>15. lim.max_rows \in Nat /\ lim.max_name_len \in Nat /\ lim.max_payload_len \in Nat
  BY DEF LimitsType
<1>16. count <= lim.max_rows /\ cap <= lim.max_rows /\ count <= cap
  BY <1>4 DEF CapAdmits
<1>17. EncodeTable(lim, t) = Ok(p)
  <2>1. ~(Len(name) > lim.max_name_len \/ cap > lim.max_rows \/ Len(rows) > lim.max_rows
            \/ Len(p) > lim.max_payload_len)
    BY SMTT(60), <1>1, <1>2, <1>5, <1>6, <1>8, <1>13, <1>15, <1>16, BaseFacts
  <2>. QED BY <1>11, <1>13, <1>14, <2>1 DEF EncodeTable, HeadOf, Fixed
<1>18. StoredTable(t)
  <2>1. t = [name |-> t.name, nullable |-> t.nullable, row_cap |-> t.row_cap, rows |-> t.rows]
    BY <1>10, <1>11
  <2>2. Len(name) <= WordMax /\ Len(rows) <= WordMax
    BY <1>2, <1>5, <1>6, <1>13, BaseFacts
  <2>. QED BY <1>5, <1>6, <1>7, <1>9, <1>11, <1>13, <2>1, <2>2 DEF StoredTable
<1>. QED BY <1>4, <1>11, <1>13, <1>16, <1>17, <1>18

(***************************************************************************)
(* Runs, the rows they stand for and the bytes they take.                  *)
(***************************************************************************)
\* What the sequences amount to with one more at the end.
LEMMA FlattenAppend ==
  ASSUME NEW S, NEW seqs \in Seq(Seq(S)), NEW s \in Seq(S)
  PROVE  FlattenSeq(Append(seqs, s)) = FlattenSeq(seqs) \o s
<1> DEFINE n == Len(seqs)
           more == Append(seqs, s)
<1>1. /\ n \in Nat /\ more \in Seq(Seq(S)) /\ Len(more) = n + 1 /\ more[n + 1] = s
      /\ \A k \in 1 .. n : more[k] = seqs[k]
  OBVIOUS
<1>2. PICK g \in [0 .. n -> Seq(S)] :
           /\ g[0] = <<>> /\ g[n] = FlattenSeq(seqs)
           /\ \A k \in 1 .. n : g[k] = g[k - 1] \o seqs[k]
  BY FlattenPass
<1> HIDE DEF more
<1>3. PICK h \in [0 .. Len(more) -> Seq(S)] :
           /\ h[0] = <<>> /\ h[Len(more)] = FlattenSeq(more)
           /\ \A k \in 1 .. Len(more) : h[k] = h[k - 1] \o more[k]
  BY <1>1, FlattenPass
<1> HIDE DEF n
<1> DEFINE K == {k \in 0 .. n : g[k] = h[k]}
<1>4. 0 \in K
  BY <1>1, <1>2, <1>3
<1>5. ASSUME NEW k \in 1 .. n, k - 1 \in K PROVE k \in K
  <2>1. k \in 1 .. Len(more) /\ k \in 0 .. n
    BY <1>1
  <2>2. /\ g[k] = g[k - 1] \o seqs[k] /\ h[k] = h[k - 1] \o more[k] /\ more[k] = seqs[k]
        /\ g[k - 1] = h[k - 1]
    BY <1>1, <1>2, <1>3, <1>5, <2>1
  <2>. QED BY <2>1, <2>2
<1> HIDE DEF K
<1>6. n \in K
  <2>1. 0 .. n \subseteq K
    BY <1>1, <1>4, <1>5, InductionUpTo
  <2>. QED BY <1>1, <2>1
<1>7. h[n + 1] = h[n] \o s
  <2>1. n + 1 \in 1 .. Len(more) /\ (n + 1) - 1 = n
    <3> DEFINE l == Len(more)
    <3>1. n \in Nat /\ l = n + 1
      BY <1>1
    <3> HIDE DEF l
    <3>2. n + 1 \in 1 .. l /\ (n + 1) - 1 = n
      BY <3>1
    <3>. QED BY <3>2 DEF l
  <2>. QED BY <1>1, <1>3, <2>1
<1>. QED BY <1>1, <1>2, <1>3, <1>6, <1>7 DEF K, more

(* Nothing flattens to nothing. *)
LEMMA FlattenEmpty == FlattenSeq(<<>>) = <<>>
<1>1. Len(<<>>) = 0
  OBVIOUS
<1>. QED BY <1>1, FlattenIsLast

RunsType == [value : Cells, length : Nat \ {0}]

\* The rows that a run stands for, and those of all runs.
Rows(run) == [j \in 1 .. run.length |-> run.value]
Expand(runs) == FlattenSeq([k \in DOMAIN runs |-> Rows(runs[k])])

\* The bytes that runs are encoded to.
RunBytes(runs) == FlattenSeq([k \in DOMAIN runs |-> EncodeRun(runs[k])])
RunLen(value) == IF value = Null THEN 3 ELSE 5

(* A run is a value and a length, stands for that many rows, and is as long
   as RunLen says. *)
LEMMA RunFacts ==
  ASSUME NEW run \in RunsType
  PROVE  /\ run = [value |-> run.value, length |-> run.length]
         /\ run.value \in Cells /\ run.length \in Nat \ {0}
         /\ Rows(run) \in Seq(Cells) /\ Len(Rows(run)) = run.length
         /\ EncodeRun(run) \in Seq(Nat) /\ Len(EncodeRun(run)) = RunLen(run.value)
         /\ run.length <= WordMax => EncodeRun(run) \in Seq(Bytes)
<1>1. /\ run = [value |-> run.value, length |-> run.length]
      /\ run.value \in Cells /\ run.length \in Nat \ {0}
  BY DEF RunsType
<1>2. Rows(run) \in Seq(Cells) /\ Len(Rows(run)) = run.length
  BY <1>1 DEF Rows
<1>3. \A n \in Nat : Word(n) \in Seq(Nat) /\ Len(Word(n)) = 2
  <2> SUFFICES ASSUME NEW n \in Nat PROVE Word(n) \in Seq(Nat) /\ Len(Word(n)) = 2
    OBVIOUS
  <2>1. Base \in Nat /\ Base > 0
    BY BaseFacts
  <2>2. n % Base \in Nat /\ n \div Base \in Nat
    BY <2>1
  <2>. QED BY <2>2 DEF Word
<1>3a. ASSUME NEW S, NEW v \in S, NEW n \in Nat, Word(n) \in Seq(S), Len(Word(n)) = 2
       PROVE  <<v>> \o Word(n) \in Seq(S) /\ Len(<<v>> \o Word(n)) = 3
  <2> DEFINE w == Word(n)
             o == <<v>>
  <2>1. o \in Seq(S) /\ Len(o) = 1 /\ w \in Seq(S) /\ Len(w) = 2
    BY <1>3a
  <2> HIDE DEF w, o
  <2>2. o \o w \in Seq(S) /\ Len(o \o w) = Len(o) + Len(w)
    BY <2>1, ConcatAt
  <2>. QED BY <2>1, <2>2 DEF w, o
<1>4. run.value # Null => run.value \in 0 .. WordMax /\ run.value \in Nat
  BY <1>1, BaseFacts DEF Cells
<1>5. \A v \in {NullTag, ValueTag} : v \in Nat /\ v \in Bytes /\ <<v>> \in Seq(Nat) /\ <<v>> \in Seq(Bytes) /\ Len(<<v>>) = 1
  <2>1. {NullTag, ValueTag} \subseteq Bytes /\ {NullTag, ValueTag} \subseteq Nat
    BY BaseFacts DEF Bytes, NullTag, ValueTag
  <2>. QED BY <2>1
<1>6. CASE run.value = Null
  <2>1. EncodeRun(run) = <<NullTag>> \o Word(run.length)
    BY <1>6 DEF EncodeRun
  <2>2. EncodeRun(run) \in Seq(Nat) /\ Len(EncodeRun(run)) = 3
    BY <1>1, <1>3, <1>3a, <1>5, <2>1
  <2>3. run.length <= WordMax => EncodeRun(run) \in Seq(Bytes)
    <3>1. run.length <= WordMax => Word(run.length) \in Seq(Bytes)
      BY <1>1, WordBytes, BaseFacts
    <3>. QED BY <1>5, <2>1, <3>1, ConcatAt
  <2>. QED BY <1>1, <1>2, <1>6, <2>2, <2>3 DEF RunLen
<1>7. CASE run.value # Null
  <2>1. EncodeRun(run) = (<<ValueTag>> \o Word(run.length)) \o Word(run.value)
    BY <1>7 DEF EncodeRun
  <2>2. <<ValueTag>> \o Word(run.length) \in Seq(Nat) /\ Len(<<ValueTag>> \o Word(run.length)) = 3
    BY <1>1, <1>3, <1>3a, <1>5
  <2>3. EncodeRun(run) \in Seq(Nat) /\ Len(EncodeRun(run)) = 5
    <3> DEFINE a == <<ValueTag>> \o Word(run.length)
               b == Word(run.value)
    <3>1. a \in Seq(Nat) /\ Len(a) = 3 /\ b \in Seq(Nat) /\ Len(b) = 2 /\ EncodeRun(run) = a \o b
      BY <1>3, <1>4, <1>7, <2>1, <2>2
    <3> HIDE DEF a, b
    <3>2. a \o b \in Seq(Nat) /\ Len(a \o b) = Len(a) + Len(b)
      BY <3>1, ConcatAt
    <3>. QED BY <3>1, <3>2
  <2>4. run.length <= WordMax => EncodeRun(run) \in Seq(Bytes)
    <3>1. run.length <= WordMax => Word(run.length) \in Seq(Bytes)
      BY <1>1, WordBytes, BaseFacts
    <3>2. Word(run.value) \in Seq(Bytes)
      BY <1>4, <1>7, WordBytes
    <3>3. run.length <= WordMax => <<ValueTag>> \o Word(run.length) \in Seq(Bytes)
      BY <1>5, <3>1, ConcatAt
    <3>. QED BY <2>1, <3>2, <3>3, ConcatAt
  <2>. QED BY <1>1, <1>2, <1>7, <2>3, <2>4 DEF RunLen
<1>. QED BY <1>6, <1>7

(* The rows and the bytes of runs are sequences. *)
LEMMA RunSeqs ==
  ASSUME NEW runs \in Seq(RunsType)
  PROVE  /\ DOMAIN runs = 1 .. Len(runs) /\ Len(runs) \in Nat
         /\ \A k \in 1 .. Len(runs) : runs[k] \in RunsType
         /\ [k \in DOMAIN runs |-> Rows(runs[k])] \in Seq(Seq(Cells))
         /\ Len([k \in DOMAIN runs |-> Rows(runs[k])]) = Len(runs)
         /\ [k \in DOMAIN runs |-> EncodeRun(runs[k])] \in Seq(Seq(Nat))
         /\ Len([k \in DOMAIN runs |-> EncodeRun(runs[k])]) = Len(runs)
         /\ Expand(runs) \in Seq(Cells) /\ RunBytes(runs) \in Seq(Nat)
<1>1. /\ DOMAIN runs = 1 .. Len(runs) /\ Len(runs) \in Nat
      /\ \A k \in 1 .. Len(runs) : runs[k] \in RunsType
  OBVIOUS
<1>2. /\ [k \in DOMAIN runs |-> Rows(runs[k])] \in Seq(Seq(Cells))
      /\ Len([k \in DOMAIN runs |-> Rows(runs[k])]) = Len(runs)
  <2>1. \A k \in 1 .. Len(runs) : Rows(runs[k]) \in Seq(Cells)
    BY <1>1, RunFacts
  <2>. QED BY <1>1, <2>1
<1>3. /\ [k \in DOMAIN runs |-> EncodeRun(runs[k])] \in Seq(Seq(Nat))
      /\ Len([k \in DOMAIN runs |-> EncodeRun(runs[k])]) = Len(runs)
  <2>1. \A k \in 1 .. Len(runs) : EncodeRun(runs[k]) \in Seq(Nat)
    BY <1>1, RunFacts
  <2>. QED BY <1>1, <2>1
<1>. QED BY <1>1, <1>2, <1>3, FlattenLaysOut DEF Expand, RunBytes

(* One more run adds its rows and its bytes at the end. *)
LEMMA ExpandAppend ==
  ASSUME NEW runs \in Seq(RunsType), NEW run \in RunsType
  PROVE  /\ Append(runs, run) \in Seq(RunsType)
         /\ Expand(Append(runs, run)) = Expand(runs) \o Rows(run)
         /\ Len(RunBytes(Append(runs, run))) = Len(RunBytes(runs)) + RunLen(run.value)
<1> DEFINE n == Len(runs)
           more == Append(runs, run)
<1>1. /\ more \in Seq(RunsType) /\ DOMAIN more = 1 .. n + 1 /\ Len(more) = n + 1
      /\ more[n + 1] = run /\ \A k \in 1 .. n : more[k] = runs[k]
  OBVIOUS
<1>2. DOMAIN runs = 1 .. n /\ n \in Nat
  OBVIOUS
<1> HIDE DEF more
<1>3. [k \in DOMAIN more |-> Rows(more[k])] = Append([k \in DOMAIN runs |-> Rows(runs[k])], Rows(run))
  <2> DEFINE a == [k \in DOMAIN more |-> Rows(more[k])]
             b == [k \in DOMAIN runs |-> Rows(runs[k])]
  <2>1. a \in Seq(Seq(Cells)) /\ Len(a) = n + 1 /\ b \in Seq(Seq(Cells)) /\ Len(b) = n
    BY <1>1, <1>2, RunSeqs
  <2>2. Append(b, Rows(run)) \in Seq(Seq(Cells)) /\ Len(Append(b, Rows(run))) = n + 1
    BY <2>1, RunFacts
  <2>3. ASSUME NEW k \in 1 .. n + 1 PROVE a[k] = Append(b, Rows(run))[k]
    <3>1. a[k] = Rows(more[k])
      BY <1>1
    <3>2. CASE k = n + 1
      <4>1. Append(b, Rows(run))[n + 1] = Rows(run)
        <5> HIDE DEF b
        <5>. QED BY <2>1
      <4>. QED BY <1>1, <3>1, <3>2, <4>1
    <3>3. CASE k # n + 1
      <4>1. k \in 1 .. n
        BY <1>2, <3>3
      <4>2. Append(b, Rows(run))[k] = b[k]
        <5> HIDE DEF b
        <5>. QED BY <2>1, <4>1
      <4>3. b[k] = Rows(runs[k]) /\ more[k] = runs[k]
        BY <1>1, <1>2, <4>1
      <4>. QED BY <3>1, <4>2, <4>3
    <3>. QED BY <3>2, <3>3
  <2> HIDE DEF a, b
  <2>4. a = Append(b, Rows(run))
    BY <2>1, <2>2, <2>3, SeqEqual
  <2>. QED BY <2>4 DEF a, b
<1>4. [k \in DOMAIN more |-> EncodeRun(more[k])]
          = Append([k \in DOMAIN runs |-> EncodeRun(runs[k])], EncodeRun(run))
  <2> DEFINE a == [k \in DOMAIN more |-> EncodeRun(more[k])]
             b == [k \in DOMAIN runs |-> EncodeRun(runs[k])]
  <2>1. a \in Seq(Seq(Nat)) /\ Len(a) = n + 1 /\ b \in Seq(Seq(Nat)) /\ Len(b) = n
    BY <1>1, <1>2, RunSeqs
  <2>2. Append(b, EncodeRun(run)) \in Seq(Seq(Nat)) /\ Len(Append(b, EncodeRun(run))) = n + 1
    BY <2>1, RunFacts
  <2>3. ASSUME NEW k \in 1 .. n + 1 PROVE a[k] = Append(b, EncodeRun(run))[k]
    <3>1. a[k] = EncodeRun(more[k])
      BY <1>1
    <3>2. CASE k = n + 1
      <4>1. Append(b, EncodeRun(run))[n + 1] = EncodeRun(run)
        <5> HIDE DEF b
        <5>. QED BY <2>1
      <4>. QED BY <1>1, <3>1, <3>2, <4>1
    <3>3. CASE k # n + 1
      <4>1. k \in 1 .. n
        BY <1>2, <3>3
      <4>2. Append(b, EncodeRun(run))[k] = b[k]
        <5> HIDE DEF b
        <5>. QED BY <2>1, <4>1
      <4>3. b[k] = EncodeRun(runs[k]) /\ more[k] = runs[k]
        BY <1>1, <1>2, <4>1
      <4>. QED BY <3>1, <4>2, <4>3
    <3>. QED BY <3>2, <3>3
  <2> HIDE DEF a, b
  <2>4. a = Append(b, EncodeRun(run))
    BY <2>1, <2>2, <2>3, SeqEqual
  <2>. QED BY <2>4 DEF a, b
<1>5. Expand(more) = Expand(runs) \o Rows(run)
  <2> DEFINE a == [k \in DOMAIN runs |-> Rows(runs[k])]
             b == Rows(run)
  <2>1. a \in Seq(Seq(Cells)) /\ b \in Seq(Cells)
    BY RunSeqs, RunFacts
  <2>2. Expand(more) = FlattenSeq(Append(a, b)) /\ Expand(runs) = FlattenSeq(a)
    BY <1>3 DEF Expand
  <2> HIDE DEF a, b
  <2>3. FlattenSeq(Append(a, b)) = FlattenSeq(a) \o b
    BY <2>1, FlattenAppend
  <2>. QED BY <2>2, <2>3 DEF b
<1>6. RunBytes(more) = RunBytes(runs) \o EncodeRun(run)
  <2> DEFINE a == [k \in DOMAIN runs |-> EncodeRun(runs[k])]
             b == EncodeRun(run)
  <2>1. a \in Seq(Seq(Nat)) /\ b \in Seq(Nat)
    BY RunSeqs, RunFacts
  <2>2. RunBytes(more) = FlattenSeq(Append(a, b)) /\ RunBytes(runs) = FlattenSeq(a)
    BY <1>4 DEF RunBytes
  <2> HIDE DEF a, b
  <2>3. FlattenSeq(Append(a, b)) = FlattenSeq(a) \o b
    BY <2>1, FlattenAppend
  <2>. QED BY <2>2, <2>3 DEF b
<1>7. Len(RunBytes(more)) = Len(RunBytes(runs)) + RunLen(run.value)
  <2> DEFINE a == RunBytes(runs)
             b == EncodeRun(run)
  <2>1. a \in Seq(Nat) /\ b \in Seq(Nat) /\ Len(b) = RunLen(run.value)
    BY RunSeqs, RunFacts
  <2>2. RunBytes(more) = a \o b
    BY <1>6
  <2> HIDE DEF a, b
  <2>3. Len(a \o b) = Len(a) + Len(b)
    BY <2>1, ConcatAt
  <2>. QED BY <2>1, <2>2, <2>3 DEF a
<1>. QED BY <1>1, <1>5, <1>7 DEF more

\* An induction over the runs of a sequence: no run is empty.
LEMMA RunsWithin ==
  ASSUME NEW runs \in Seq(RunsType)
  PROVE  /\ Len(runs) <= Len(Expand(runs)) /\ 3 * Len(runs) <= Len(RunBytes(runs))
         /\ \A k \in 1 .. Len(runs) : runs[k].length <= Len(Expand(runs))
<1> DEFINE n == Len(runs)
           Good(s) == /\ Len(s) <= Len(Expand(s)) /\ 3 * Len(s) <= Len(RunBytes(s))
                      /\ \A k \in 1 .. Len(s) : s[k].length <= Len(Expand(s))
           K == {k \in 0 .. n : Good(SubSeq(runs, 1, k))}
<1>1. n \in Nat /\ \A k \in 1 .. n : runs[k] \in RunsType
  OBVIOUS
<1>2. 0 \in K
  <2>1. SubSeq(runs, 1, 0) = <<>>
    OBVIOUS
  <2>2. <<>> \in Seq(RunsType) /\ Len(<<>>) = 0 /\ \A k \in 1 .. 0 : FALSE
    OBVIOUS
  <2>3. Len(Expand(<<>>)) \in Nat /\ Len(RunBytes(<<>>)) \in Nat
    BY <2>2, RunSeqs
  <2>4. Good(<<>>)
    <3> DEFINE e == <<>>
               x == Len(Expand(e))
               y == Len(RunBytes(e))
    <3>1. x \in Nat /\ y \in Nat /\ Len(e) = 0
      BY <2>2, <2>3
    <3> HIDE DEF e, x, y
    <3>2. Len(e) <= x /\ 3 * Len(e) <= y /\ \A k \in 1 .. Len(e) : e[k].length <= x
      BY <3>1
    <3>. QED BY <3>2 DEF e, x, y
  <2> HIDE DEF Good
  <2>5. 0 \in 0 .. n
    BY <1>1
  <2>. QED BY <2>1, <2>4, <2>5
<1>3. ASSUME NEW k \in 1 .. n, k - 1 \in K PROVE k \in K
  <2> DEFINE s == SubSeq(runs, 1, k - 1)
             r == runs[k]
  <2>1. s \in Seq(RunsType) /\ SubSeq(runs, 1, k) = Append(s, r) /\ r \in RunsType
    OBVIOUS
  <2>2. Good(s)
    <3> HIDE DEF Good
    <3>. QED BY <1>3
  <2> HIDE DEF s, r
  <2>3. /\ Expand(Append(s, r)) = Expand(s) \o Rows(r)
        /\ Len(RunBytes(Append(s, r))) = Len(RunBytes(s)) + RunLen(r.value)
    BY <2>1, ExpandAppend
  <2>4. Expand(s) \in Seq(Cells) /\ Len(RunBytes(s)) \in Nat /\ Len(Expand(s)) \in Nat
    <3>1. Expand(s) \in Seq(Cells) /\ RunBytes(s) \in Seq(Nat)
      BY <2>1, RunSeqs
    <3>. QED BY <3>1
  <2>5. /\ Rows(r) \in Seq(Cells) /\ Len(Rows(r)) = r.length /\ r.length \in Nat \ {0}
        /\ RunLen(r.value) \in {3, 5}
    BY <2>1, RunFacts DEF RunLen
  <2>6. Len(Expand(Append(s, r))) = Len(Expand(s)) + r.length
    <3> DEFINE a == Expand(s)
               b == Rows(r)
    <3>1. a \in Seq(Cells) /\ b \in Seq(Cells) /\ Len(b) = r.length /\ Expand(Append(s, r)) = a \o b
      BY <2>3, <2>4, <2>5
    <3> HIDE DEF a, b
    <3>2. Len(a \o b) = Len(a) + Len(b)
      BY <3>1, ConcatAt
    <3>. QED BY <3>1, <3>2 DEF a
  <2>7. Len(Append(s, r)) = Len(s) + 1 /\ Append(s, r)[Len(s) + 1] = r /\ Len(s) \in Nat
        /\ \A j \in 1 .. Len(s) : Append(s, r)[j] = s[j] /\ s[j].length \in Nat
    <3>1. Len(Append(s, r)) = Len(s) + 1 /\ Append(s, r)[Len(s) + 1] = r /\ Len(s) \in Nat
          /\ \A j \in 1 .. Len(s) : Append(s, r)[j] = s[j] /\ s[j] \in RunsType
      BY <2>1
    <3>2. \A j \in 1 .. Len(s) : s[j].length \in Nat
      BY <3>1 DEF RunsType
    <3>. QED BY <3>1, <3>2
  <2> DEFINE a == Append(s, r)
             x == Len(Expand(s))
             y == Len(Expand(a))
             l == r.length
             u == Len(RunBytes(s))
             w == Len(RunBytes(a))
             c == RunLen(r.value)
             m == Len(s)
  <2>8. /\ x \in Nat /\ l \in Nat \ {0} /\ y = x + l /\ u \in Nat /\ w = u + c /\ c \in {3, 5}
        /\ m \in Nat
        /\ Len(a) = m + 1 /\ a[m + 1].length = l /\ m <= x /\ 3 * m <= u
        /\ \A j \in 1 .. m : a[j].length <= x /\ a[j].length \in Nat
    BY <2>2, <2>3, <2>4, <2>5, <2>6, <2>7
  <2> HIDE DEF a, x, y, l, u, w, c, m
  <2>9. Len(a) <= y /\ 3 * Len(a) <= w /\ \A j \in 1 .. Len(a) : a[j].length <= y
    <3>1. Len(a) <= y /\ 3 * Len(a) <= w
      BY <2>8
    <3>2. ASSUME NEW j \in 1 .. m + 1 PROVE a[j].length <= y
      <4>1. CASE j = m + 1
        BY <2>8, <4>1
      <4>2. CASE j # m + 1
        <5>1. j \in 1 .. m
          BY <2>8, <4>2
        <5>2. a[j].length <= x /\ a[j].length \in Nat
          BY <2>8, <5>1
        <5> DEFINE al == a[j].length
        <5>3. al <= x /\ al \in Nat
          BY <5>2
        <5> HIDE DEF al
        <5>4. al <= y
          BY <2>8, <5>3
        <5>. QED BY <5>4 DEF al
      <4>. QED BY <4>1, <4>2
    <3>. QED BY <2>8, <3>1, <3>2
  <2>10. Good(a)
    BY <2>9 DEF y, w
  <2> HIDE DEF Good
  <2>11. k \in 0 .. n
    OBVIOUS
  <2>. QED BY <2>1, <2>10, <2>11 DEF a
<1> HIDE DEF K
<1>4. n \in K
  <2>1. 0 .. n \subseteq K
    BY <1>1, <1>2, <1>3, InductionUpTo
  <2>. QED BY <1>1, <2>1
<1>5. SubSeq(runs, 1, n) = runs
  OBVIOUS
<1>. QED BY <1>4, <1>5 DEF K

(***************************************************************************)
(* One encoded run.                                                        *)
(***************************************************************************)
RunScans == [status : {"ok", "error"}, offset : Nat, count : Nat, runs : Seq(RunsType)]
RunScan(offset, count, runs) == [status |-> "ok", offset |-> offset, count |-> count, runs |-> runs]

(* A run is a tag, its length, and its value unless that is NULL. *)
LEMMA EncodeRunAt ==
  ASSUME NEW run \in RunsType, run.length <= WordMax
  PROVE  /\ EncodeRun(run) \in Seq(Bytes) /\ Len(EncodeRun(run)) = RunLen(run.value)
         /\ EncodeRun(run)[1] = IF run.value = Null THEN NullTag ELSE ValueTag
         /\ EncodeRun(run)[2] + Base * EncodeRun(run)[3] = run.length
         /\ run.value # Null => EncodeRun(run)[4] + Base * EncodeRun(run)[5] = run.value
<1> DEFINE l == Word(run.length)
           v == Word(run.value)
<1>1. EncodeRun(run) \in Seq(Bytes) /\ Len(EncodeRun(run)) = RunLen(run.value)
  BY RunFacts
<1>2. run.length \in 0 .. WordMax /\ run.value \in Cells
  BY RunFacts, BaseFacts
<1>3. l \in Seq(Bytes) /\ Len(l) = 2 /\ l[1] + Base * l[2] = run.length
  BY <1>2, WordBytes
<1>4. run.value # Null => v \in Seq(Bytes) /\ Len(v) = 2 /\ v[1] + Base * v[2] = run.value
  BY <1>2, WordBytes DEF Cells
<1>5. EncodeRun(run) = IF run.value = Null THEN <<NullTag>> \o l ELSE (<<ValueTag>> \o l) \o v
  BY DEF EncodeRun
<1>6. NullTag \in Bytes /\ ValueTag \in Bytes
  BY BaseFacts DEF Bytes, NullTag, ValueTag
<1> HIDE DEF l, v
<1>7. ASSUME NEW tag \in Bytes
      PROVE  /\ <<tag>> \o l \in Seq(Bytes) /\ Len(<<tag>> \o l) = 3 /\ (<<tag>> \o l)[1] = tag
             /\ (<<tag>> \o l)[2] = l[1] /\ (<<tag>> \o l)[3] = l[2]
  <2> DEFINE o == <<tag>>
             s == o \o l
  <2>1. o \in Seq(Bytes) /\ Len(o) = 1 /\ o[1] = tag
    OBVIOUS
  <2>1a. l \in Seq(Bytes) /\ Len(l) = 2
    BY <1>3
  <2> HIDE DEF o
  <2>1b. o \in Seq(Bytes) /\ l \in Seq(Bytes)
    BY <2>1, <2>1a
  <2>2. s \in Seq(Bytes) /\ Len(s) = Len(o) + Len(l) /\ \A x \in 1 .. Len(o) : s[x] = o[x]
    BY <2>1b, ConcatAt
  <2>3. \A x \in 1 .. Len(l) : s[Len(o) + x] = l[x]
    BY <2>1b, ConcatAt
  <2> HIDE DEF s
  <2>4. Len(s) = 3 /\ s[1] = tag /\ s[1 + 1] = l[1] /\ s[1 + 2] = l[2]
    BY <2>1, <2>1a, <2>2, <2>3
  <2>. QED BY <2>2, <2>4 DEF s, o
<1>8. CASE run.value = Null
  <2>1. EncodeRun(run) = <<NullTag>> \o l
    BY <1>5, <1>8
  <2>2. EncodeRun(run)[1] = NullTag /\ EncodeRun(run)[2] = l[1] /\ EncodeRun(run)[3] = l[2]
    BY <1>6, <1>7, <2>1
  <2>. QED BY <1>1, <1>3, <1>8, <2>2
<1>9. CASE run.value # Null
  <2> DEFINE h == <<ValueTag>> \o l
             s == h \o v
  <2>1. h \in Seq(Bytes) /\ Len(h) = 3 /\ h[1] = ValueTag /\ h[2] = l[1] /\ h[3] = l[2]
    BY <1>6, <1>7
  <2>2. EncodeRun(run) = s
    BY <1>5, <1>9
  <2>3. v \in Seq(Bytes) /\ Len(v) = 2 /\ v[1] + Base * v[2] = run.value
    BY <1>4, <1>9
  <2>3a. v \in Seq(Bytes) /\ Len(v) = 2
    BY <2>3
  <2> HIDE DEF h
  <2>3b. h \in Seq(Bytes) /\ v \in Seq(Bytes)
    BY <2>1, <2>3a
  <2>4. \A x \in 1 .. Len(h) : s[x] = h[x]
    BY <2>3b, ConcatAt
  <2>5. \A x \in 1 .. Len(v) : s[Len(h) + x] = v[x]
    BY <2>3b, ConcatAt
  <2> HIDE DEF s
  <2>6. s[1] = ValueTag /\ s[2] = l[1] /\ s[3] = l[2]
    BY <2>1, <2>4
  <2>7. s[3 + 1] = v[1] /\ s[3 + 2] = v[2]
    BY <2>1, <2>3a, <2>5
  <2>8. s[4] = v[1] /\ s[5] = v[2]
    BY <2>7
  <2>. QED BY <1>1, <1>3, <1>9, <2>2, <2>3, <2>6, <2>8
<1>. QED BY <1>8, <1>9

(* Moving a scan on by a run, written as a record. *)
LEMMA RunScanRecord ==
  ASSUME NEW acc \in RunScans, NEW e, NEW n, NEW r
  PROVE  [acc EXCEPT !.offset = e, !.count = @ + n, !.runs = Append(@, r)]
           = [status |-> acc.status, offset |-> e, count |-> acc.count + n, runs |-> Append(acc.runs, r)]
<1> DEFINE a == [acc EXCEPT !.offset = e]
           b == [a EXCEPT !.count = @ + n]
<1>1. acc = [status |-> acc.status, offset |-> acc.offset, count |-> acc.count, runs |-> acc.runs]
  BY DEF RunScans
<1>2. a = [status |-> acc.status, offset |-> e, count |-> acc.count, runs |-> acc.runs]
  BY <1>1
<1>3. [acc EXCEPT !.offset = e, !.count = @ + n, !.runs = Append(@, r)] = [b EXCEPT !.runs = Append(@, r)]
  OBVIOUS
<1> HIDE DEF a
<1>4. b = [status |-> acc.status, offset |-> e, count |-> acc.count + n, runs |-> acc.runs]
  BY <1>2
<1> HIDE DEF b
<1>5. [b EXCEPT !.runs = Append(@, r)]
        = [status |-> acc.status, offset |-> e, count |-> acc.count + n, runs |-> Append(acc.runs, r)]
  BY SMTT(60), <1>4
<1>. QED BY <1>3, <1>5

(* A run that the decoder accepts has a length and as many bytes as its encoding. *)
LEMMA ScanRunYields ==
  ASSUME NEW p \in Seq(Bytes), NEW acc \in RunScans, ScanRun(p, acc).status = "ok"
  PROVE  /\ acc.status = "ok"
         /\ \E run \in RunsType :
              /\ run.length <= WordMax /\ acc.count + run.length <= WordMax
              /\ acc.offset + RunLen(run.value) <= Len(p)
              /\ ScanRun(p, acc)
                     = RunScan(acc.offset + RunLen(run.value), acc.count + run.length, Append(acc.runs, run))
<1> DEFINE o == acc.offset
           tag == p[o + 1]
           body == o + RunHeaderLen
           length == WordAt(p, o + 1)
           end == body + (IF tag = ValueTag THEN WordLen ELSE 0)
           v == IF tag = NullTag THEN Null ELSE WordAt(p, body)
           run == [length |-> length, value |-> v]
           failed == [acc EXCEPT !.status = "error"]
           full == [acc EXCEPT !.offset = end, !.count = @ + length, !.runs = Append(@, run)]
<1>1. acc.status \in {"ok", "error"} /\ o \in Nat /\ acc.count \in Nat /\ acc.runs \in Seq(RunsType)
      /\ acc = [status |-> acc.status, offset |-> acc.offset, count |-> acc.count, runs |-> acc.runs]
  BY DEF RunScans
<1>2. failed.status = "error"
  BY <1>1
<1>3. ScanRun(p, acc) =
        IF acc.status # "ok" THEN acc
        ELSE IF o >= Len(p) THEN failed
        ELSE IF tag \notin {NullTag, ValueTag} \/ body > Len(p) THEN failed
        ELSE IF length = 0 \/ end > Len(p) \/ acc.count + length > WordMax THEN failed
        ELSE full
  BY DEF ScanRun
<1>4. acc.status = "ok" /\ ~(o >= Len(p)) /\ tag \in {NullTag, ValueTag} /\ ~(body > Len(p))
      /\ length # 0 /\ ~(end > Len(p)) /\ ~(acc.count + length > WordMax) /\ ScanRun(p, acc) = full
  <2> DEFINE c1 == acc.status # "ok"
             c2 == o >= Len(p)
             c3 == tag \notin {NullTag, ValueTag} \/ body > Len(p)
             c4 == length = 0 \/ end > Len(p) \/ acc.count + length > WordMax
             s == ScanRun(p, acc)
  <2>1. /\ failed.status = "error" /\ s.status = "ok"
        /\ s
               = IF c1 THEN acc ELSE IF c2 THEN failed ELSE IF c3 THEN failed ELSE IF c4 THEN failed ELSE full
    <3> HIDE DEF full, failed, end, length, body, o, tag
    <3>. QED BY <1>2, <1>3
  <2>2. c1 <=> acc.status # "ok"
    OBVIOUS
  <2> HIDE DEF full, failed, c1, c2, c3, c4, s
  <2>3. ~c1 /\ ~c2 /\ ~c3 /\ ~c4 /\ s = full
    BY <2>1, <2>2
  <2> HIDE DEF end, length, body, o, tag
  <2>. QED BY <2>3 DEF c1, c2, c3, c4, s
<1>5. Len(p) \in Nat /\ body = o + 3
  BY DEF RunHeaderLen, WordLen
<1>6. length \in 0 .. WordMax
  <2>1. o + 1 \in Nat /\ (o + 1) + 2 <= Len(p)
    BY <1>1, <1>4, <1>5
  <2>. QED BY <2>1, WordInside
<1>7. v \in Cells /\ end = o + RunLen(v)
  <2>1. CASE tag = NullTag
    BY <1>1, <1>5, <2>1 DEF NullTag, ValueTag, Cells, RunLen
  <2>2. CASE tag = ValueTag
    <3>1. end = o + 5 /\ v = WordAt(p, o + 3)
      BY <1>1, <1>5, <2>2 DEF NullTag, ValueTag, WordLen
    <3>2. o + 3 \in Nat /\ (o + 3) + 2 <= Len(p)
      BY <1>1, <1>4, <1>5, <3>1
    <3>3. v \in 0 .. WordMax
      BY <3>1, <3>2, WordInside
    <3>. QED BY <3>1, <3>3, BaseFacts DEF Cells, RunLen
  <2>. QED BY <1>4, <2>1, <2>2
<1>8. run \in RunsType /\ run.length = length /\ run.value = v /\ length <= WordMax
  <2> HIDE DEF length, v
  <2>. QED BY <1>4, <1>6, <1>7, BaseFacts DEF RunsType
<1>9. full = RunScan(end, acc.count + length, Append(acc.runs, run))
  <2> HIDE DEF end, length, run
  <2>1. full
            = [status |-> acc.status, offset |-> end, count |-> acc.count + length, runs |-> Append(acc.runs, run)]
    BY RunScanRecord
  <2>. QED BY <1>4, <2>1 DEF RunScan
<1>10. acc.count + length <= WordMax
  <2> HIDE DEF length
  <2>. QED BY <1>1, <1>4, <1>6, BaseFacts
<1>11. o + RunLen(v) <= Len(p)
  <2> DEFINE l == RunLen(v)
             lp == Len(p)
  <2>1. ~(end > lp) /\ end = o + l /\ l \in Nat /\ lp \in Nat
    BY <1>4, <1>5, <1>7 DEF RunLen
  <2> HIDE DEF end, l, lp
  <2>2. o + l <= lp
    BY <1>1, <2>1
  <2>. QED BY <2>2 DEF l, lp
<1> HIDE DEF full, end, length, run, v
<1>. QED BY <1>4, <1>7, <1>8, <1>9, <1>10, <1>11

(* Where an encoded run is, the decoder reads it and moves past it. *)
LEMMA ScanRunReads ==
  ASSUME NEW p \in Seq(Bytes), NEW acc \in RunScans, acc.status = "ok",
         NEW run \in RunsType, run.length <= WordMax, acc.count + run.length <= WordMax,
         Holds(p, acc.offset, EncodeRun(run))
  PROVE  ScanRun(p, acc)
      = RunScan(acc.offset + RunLen(run.value), acc.count + run.length, Append(acc.runs, run))
<1> DEFINE o == acc.offset
           tag == p[o + 1]
           body == o + RunHeaderLen
           length == WordAt(p, o + 1)
           end == body + (IF tag = ValueTag THEN WordLen ELSE 0)
           v == IF tag = NullTag THEN Null ELSE WordAt(p, body)
           r == [length |-> length, value |-> v]
           failed == [acc EXCEPT !.status = "error"]
           full == [acc EXCEPT !.offset = end, !.count = @ + length, !.runs = Append(@, r)]
           e == EncodeRun(run)
<1>1. acc.status \in {"ok", "error"} /\ o \in Nat /\ acc.count \in Nat /\ acc.runs \in Seq(RunsType)
      /\ acc = [status |-> acc.status, offset |-> acc.offset, count |-> acc.count, runs |-> acc.runs]
  BY DEF RunScans
<1>2. /\ Len(e) = RunLen(run.value) /\ e[1] = IF run.value = Null THEN NullTag ELSE ValueTag
      /\ e[2] + Base * e[3] = run.length
      /\ run.value # Null => e[4] + Base * e[5] = run.value
  BY EncodeRunAt
<1>3. o + Len(e) <= Len(p) /\ \A x \in 1 .. Len(e) : p[o + x] = e[x]
  BY DEF Holds
<1>4. Len(e) \in {3, 5} /\ (run.value # Null <=> Len(e) = 5) /\ Len(p) \in Nat
  BY <1>2 DEF RunLen
<1>5. /\ run.length \in Nat \ {0} /\ run.value \in Cells
      /\ run = [value |-> run.value, length |-> run.length]
  BY RunFacts
<1> HIDE DEF e
<1>6. /\ p[o + 1] = e[1] /\ p[o + 2] = e[2] /\ p[o + 3] = e[3]
      /\ (run.value # Null => p[o + 4] = e[4] /\ p[o + 5] = e[5])
  BY <1>3, <1>4
<1>7. tag = (IF run.value = Null THEN NullTag ELSE ValueTag)
  BY <1>2, <1>6
<1>8. length = run.length
  <2>1. (o + 1) + 1 = o + 2 /\ (o + 1) + 2 = o + 3
    BY <1>1
  <2>. QED BY <1>2, <1>6, <2>1 DEF WordAt
<1>9. body = o + 3 /\ end = o + Len(e) /\ v = run.value
  <2>1. body = o + 3
    BY DEF RunHeaderLen, WordLen
  <2>2. CASE run.value = Null
    BY <1>1, <1>2, <1>7, <2>1, <2>2 DEF NullTag, ValueTag, RunLen
  <2>3. CASE run.value # Null
    <3>1. (o + 3) + 1 = o + 4 /\ (o + 3) + 2 = o + 5
      BY <1>1
    <3>2. WordAt(p, o + 3) = run.value
      BY <1>2, <1>6, <2>3, <3>1 DEF WordAt
    <3>3. tag = ValueTag /\ tag # NullTag /\ Len(e) = 5
      BY <1>4, <1>7, <2>3 DEF NullTag, ValueTag
    <3>4. end = o + 5
      BY <1>1, <2>1, <3>3 DEF WordLen
    <3>. QED BY <2>1, <3>2, <3>3, <3>4
  <2>. QED BY <2>2, <2>3
<1>10. ScanRun(p, acc) =
        IF acc.status # "ok" THEN acc
        ELSE IF o >= Len(p) THEN failed
        ELSE IF tag \notin {NullTag, ValueTag} \/ body > Len(p) THEN failed
        ELSE IF length = 0 \/ end > Len(p) \/ acc.count + length > WordMax THEN failed
        ELSE full
  BY DEF ScanRun
<1>11. ~(o >= Len(p)) /\ tag \in {NullTag, ValueTag} /\ ~(body > Len(p)) /\ length # 0
       /\ ~(end > Len(p)) /\ ~(acc.count + length > WordMax)
  <2> DEFINE le == Len(e)
             lp == Len(p)
  <2>1. o + le <= lp /\ le \in {3, 5} /\ lp \in Nat /\ o \in Nat /\ body = o + 3 /\ end = o + le
    BY <1>1, <1>3, <1>4, <1>9
  <2> HIDE DEF body, end, le, lp, o
  <2>2. ~(o >= lp) /\ ~(body > lp) /\ ~(end > lp)
    BY <2>1
  <2>3. tag \in {NullTag, ValueTag}
    BY <1>7
  <2>4. length # 0 /\ ~(acc.count + length > WordMax)
    <3>1. run.length # 0 /\ ~(acc.count + run.length > WordMax)
      BY <1>1, <1>5, BaseFacts
    <3>. QED BY <1>8, <3>1
  <2>. QED BY <2>2, <2>3, <2>4 DEF lp
<1>12. ScanRun(p, acc) = full
  <2> HIDE DEF full, failed, end, length, body, o, tag
  <2>. QED BY <1>10, <1>11
<1>13. r = run
  BY <1>5, <1>8, <1>9
<1>14. full = RunScan(end, acc.count + length, Append(acc.runs, r))
  <2> HIDE DEF end, length, r
  <2>1. full
            = [status |-> acc.status, offset |-> end, count |-> acc.count + length, runs |-> Append(acc.runs, r)]
    BY RunScanRecord
  <2>. QED BY <2>1 DEF RunScan
<1>15. end = o + RunLen(run.value)
  BY <1>2, <1>9 DEF e
<1> HIDE DEF full, end, length, r
<1>. QED BY <1>8, <1>12, <1>13, <1>14, <1>15

(* The decoder of runs keeps the type of its state. *)
LEMMA ScanRunType ==
  ASSUME NEW p \in Seq(Bytes), NEW acc \in RunScans
  PROVE  ScanRun(p, acc) \in RunScans
<1>0. /\ acc.status \in {"ok", "error"} /\ acc.offset \in Nat /\ acc.count \in Nat
      /\ acc.runs \in Seq(RunsType)
      /\ acc = [status |-> acc.status, offset |-> acc.offset, count |-> acc.count, runs |-> acc.runs]
  BY DEF RunScans
<1>1. CASE ScanRun(p, acc).status = "ok"
  <2>1. PICK run \in RunsType :
          ScanRun(p, acc)
              = RunScan(acc.offset + RunLen(run.value), acc.count + run.length, Append(acc.runs, run))
    BY <1>1, ScanRunYields
  <2>2. RunLen(run.value) \in Nat /\ run.length \in Nat
    BY RunFacts DEF RunLen
  <2>3. /\ acc.offset + RunLen(run.value) \in Nat /\ acc.count + run.length \in Nat
        /\ Append(acc.runs, run) \in Seq(RunsType)
    BY <1>0, <2>2
  <2>. QED BY <2>1, <2>3 DEF RunScan, RunScans
<1>2. CASE ScanRun(p, acc).status # "ok"
  <2> DEFINE tag == p[acc.offset + 1]
             body == acc.offset + RunHeaderLen
             length == WordAt(p, acc.offset + 1)
             end == body + (IF tag = ValueTag THEN WordLen ELSE 0)
             r == [length |-> length, value |-> IF tag = NullTag THEN Null ELSE WordAt(p, body)]
             full == [acc EXCEPT !.offset = end, !.count = @ + length, !.runs = Append(@, r)]
  <2>2. \/ ScanRun(p, acc) = acc
        \/ ScanRun(p, acc) = [acc EXCEPT !.status = "error"]
        \/ acc.status = "ok" /\ ScanRun(p, acc) = full
    BY DEF ScanRun
  <2>3. full.status = acc.status
    <3> HIDE DEF end, length, r
    <3>1. full
              = [status |-> acc.status, offset |-> end, count |-> acc.count + length, runs |-> Append(acc.runs, r)]
      BY RunScanRecord
    <3>. QED BY <3>1
  <2> HIDE DEF full
  <2>4. [acc EXCEPT !.status = "error"] \in RunScans
    BY DEF RunScans
  <2>. QED BY <1>2, <2>2, <2>3, <2>4
<1>. QED BY <1>1, <1>2

(***************************************************************************)
(* The runs of a payload.                                                  *)
(***************************************************************************)
(* One more run adds its length to the rows. *)
LEMMA ExpandLen ==
  ASSUME NEW runs \in Seq(RunsType), NEW run \in RunsType
  PROVE  /\ Len(Expand(Append(runs, run))) = Len(Expand(runs)) + run.length
         /\ Len(Expand(runs)) \in Nat /\ run.length \in Nat /\ Len(RunBytes(runs)) \in Nat
<1> DEFINE a == Expand(runs)
           b == Rows(run)
<1>1. a \in Seq(Cells) /\ RunBytes(runs) \in Seq(Nat)
  BY RunSeqs
<1>2. b \in Seq(Cells) /\ Len(b) = run.length /\ run.length \in Nat
  BY RunFacts
<1>3. Expand(Append(runs, run)) = a \o b
  BY ExpandAppend
<1> HIDE DEF a, b
<1>4. a \in Seq(Cells) /\ b \in Seq(Cells)
  BY <1>1, <1>2
<1>5. Len(a \o b) = Len(a) + Len(b)
  BY <1>4, ConcatAt
<1>. QED BY <1>1, <1>2, <1>3, <1>5 DEF a

\* The first of the runs stand for no more rows than all of them.
LEMMA ExpandPrefix ==
  ASSUME NEW runs \in Seq(RunsType), NEW k \in 0 .. Len(runs)
  PROVE  Len(Expand(SubSeq(runs, 1, k))) <= Len(Expand(runs))
<1> DEFINE n == Len(runs)
           f(j) == Len(Expand(SubSeq(runs, 1, j)))
           K == {j \in 0 .. n : k + j <= n => f(k) <= f(k + j)}
<1>1. n \in Nat /\ k \in 0 .. n
  OBVIOUS
<1>2. ASSUME NEW j \in 0 .. n PROVE f(j) \in Nat
  <2>1. SubSeq(runs, 1, j) \in Seq(RunsType)
    OBVIOUS
  <2>2. Expand(SubSeq(runs, 1, j)) \in Seq(Cells)
    BY <2>1, RunSeqs
  <2>. QED BY <2>2
<1>3. ASSUME NEW j \in 1 .. n PROVE f(j) >= f(j - 1)
  <2> DEFINE s == SubSeq(runs, 1, j - 1)
             x == f(j - 1)
             y == f(j)
             l == runs[j].length
  <2>1. s \in Seq(RunsType) /\ SubSeq(runs, 1, j) = Append(s, runs[j]) /\ runs[j] \in RunsType
    OBVIOUS
  <2>2. y = x + l /\ x \in Nat /\ l \in Nat
    BY <2>1, ExpandLen
  <2> HIDE DEF x, y, l
  <2>3. y >= x
    BY <2>2
  <2>. QED BY <2>3 DEF x, y
<1> HIDE DEF f
<1>4. 0 \in K
  <2>1. k + 0 = k /\ f(k) \in Nat
    BY <1>1, <1>2
  <2>2. f(k) <= f(k)
    BY <2>1
  <2>. QED BY <1>1, <2>1, <2>2
<1>5. ASSUME NEW j \in 1 .. n, j - 1 \in K PROVE j \in K
  <2> SUFFICES ASSUME k + j <= n PROVE f(k) <= f(k + j)
    BY <1>1
  <2>1. k + (j - 1) <= n /\ k + j \in 1 .. n /\ (k + j) - 1 = k + (j - 1) /\ k + (j - 1) \in 0 .. n
    BY <1>1
  <2>2. f(k) <= f(k + (j - 1))
    BY <1>5, <2>1
  <2>3. f(k + j) >= f(k + (j - 1))
    BY <1>3, <2>1
  <2>4. f(k) \in Nat /\ f(k + j) \in Nat /\ f(k + (j - 1)) \in Nat
    BY <1>1, <1>2, <2>1
  <2>. QED BY <2>2, <2>3, <2>4
<1>6. n - k \in K
  <2> HIDE DEF K
  <2>1. 0 .. n \subseteq K
    BY <1>1, <1>4, <1>5, InductionUpTo
  <2>2. n - k \in 0 .. n
    BY <1>1
  <2>. QED BY <2>1, <2>2
<1>7. k + (n - k) = n /\ n <= n
  BY <1>1
<1>8. SubSeq(runs, 1, n) = runs
  OBVIOUS
<1>. QED BY <1>6, <1>7, <1>8 DEF f

RunsScan(p, count) ==
  FoldLeft(LAMBDA acc, k : ScanRun(p, acc), RunScan(RleHeaderLen, 0, <<>>), [k \in 1 .. count |-> k])

(* ScanRuns is the fold that RunsScan names. *)
LEMMA RunsScanIs == ASSUME NEW p, NEW count PROVE ScanRuns(p, count) = RunsScan(p, count)
BY DEF ScanRuns, RunsScan, RunScan

\* it is the recursion behind RunsScan.
RunsScanOf(it, p, count) ==
  it = [s \in SUBSET DOMAIN [k \in 1 .. count |-> k]
      |-> IF s = {} THEN RunScan(RleHeaderLen, 0, <<>>) ELSE ScanRun(p, it[s \ {Max(s)}])]

\* FoldLeft, unfolded.
LEMMA RunsScanIsRecursion ==
  ASSUME NEW p, NEW count
  PROVE  RunsScan(p, count) = (CHOOSE it : RunsScanOf(it, p, count))[DOMAIN [k \in 1 .. count |-> k]]
BY DEF RunsScan, FoldLeft, MapThenFoldSet, RunsScanOf

\* RunsScan passes from one value to the next, position by position.
LEMMA RunsScanPass ==
  ASSUME NEW p \in Seq(Bytes), NEW count \in Nat
  PROVE  \E g \in [0 .. count -> RunScans] :
           /\ g[0] = RunScan(RleHeaderLen, 0, <<>>) /\ g[count] = RunsScan(p, count)
           /\ \A k \in 1 .. count : g[k] = ScanRun(p, g[k - 1])
<1> DEFINE n == count
           base == RunScan(RleHeaderLen, 0, <<>>)
           step == [x \in (1 .. n) \X RunScans |-> ScanRun(p, x[2])]
           c == CHOOSE it : RunsScanOf(it, p, count)
           g == [k \in 0 .. n |-> c[1 .. k]]
<1>1. n \in Nat /\ DOMAIN [k \in 1 .. count |-> k] = 1 .. n
  OBVIOUS
<1>2. ASSUME NEW a \in RunScans, NEW k \in 1 .. n PROVE ScanRun(p, a) \in RunScans
  BY ScanRunType
<1>3. step \in [(1 .. n) \X RunScans -> RunScans]
  BY <1>1, <1>2
<1>4. base \in RunScans
  BY DEF RunScan, RunScans, RleHeaderLen, WordLen
<1>5. PICK it \in [SUBSET (1 .. n) -> RunScans] : Iterates(it, n, base, step)
  <2> HIDE DEF n, step, base
  <2>. QED BY <1>1, <1>3, <1>4, IterationExists
<1>6. ASSUME NEW s \in SUBSET (1 .. n)
      PROVE  it[s] = IF s = {} THEN base ELSE ScanRun(p, it[s \ {Max(s)}])
  <2>1. CASE s = {}
    <3> HIDE DEF n, step, base
    <3>. QED BY <1>5, <2>1 DEF Iterates
  <2>2. CASE s # {}
    <3>1. Max(s) \in 1 .. n
      <4> HIDE DEF n
      <4>. QED BY <1>1, <2>2, LastPosition
    <3>2. s \ {Max(s)} \in SUBSET (1 .. n)
      OBVIOUS
    <3>3. it[s \ {Max(s)}] \in RunScans
      BY <3>2
    <3>4. it[s] = step[<<Max(s), it[s \ {Max(s)}]>>]
      <4> HIDE DEF n, step, base
      <4>. QED BY <1>5, <2>2 DEF Iterates
    <3>5. <<Max(s), it[s \ {Max(s)}]>> \in (1 .. n) \X RunScans
      BY <3>1, <3>3
    <3>6. step[<<Max(s), it[s \ {Max(s)}]>>] = ScanRun(p, it[s \ {Max(s)}])
      BY <3>5
    <3>. QED BY <2>2, <3>4, <3>6
  <2>. QED BY <2>1, <2>2
<1>7. RunsScanOf(it, p, count)
  <2>1. it = [s \in SUBSET (1 .. n) |-> it[s]]
    BY <1>5
  <2>. QED BY <1>1, <1>6, <2>1 DEF RunsScanOf
<1>8. RunsScanOf(c, p, count)
  BY <1>7
<1> HIDE DEF c
<1>9. \A s \in SUBSET (1 .. n) :
         c[s] = IF s = {} THEN base ELSE ScanRun(p, c[s \ {Max(s)}])
  BY <1>1, <1>8 DEF RunsScanOf
<1> HIDE DEF base, step
<1>10. g[0] = base
  <2>1. 1 .. 0 = {} /\ 0 \in 0 .. n
    BY <1>1
  <2>. QED BY <1>9, <2>1
<1>11. ASSUME NEW k \in 1 .. n PROVE g[k] = ScanRun(p, g[k - 1])
  <2>1. /\ 1 .. k \in SUBSET (1 .. n) /\ 1 .. k # {} /\ Max(1 .. k) = k
        /\ (1 .. k) \ {k} = 1 .. (k - 1)
    <3> HIDE DEF n
    <3>. QED BY <1>1, LastUpTo
  <2>2. c[1 .. k] = ScanRun(p, c[1 .. (k - 1)])
    BY <1>9, <2>1
  <2>3. k \in 0 .. n /\ k - 1 \in 0 .. n
    BY <1>1
  <2>. QED BY <2>2, <2>3
<1>12. g[n] = RunsScan(p, count)
  <2>1. RunsScan(p, count) = c[1 .. n]
    BY <1>1, RunsScanIsRecursion DEF c
  <2>2. n \in 0 .. n
    BY <1>1
  <2>. QED BY <2>1, <2>2
<1>13. g \in [0 .. n -> RunScans]
  <2> DEFINE K == {k \in 0 .. n : g[k] \in RunScans}
  <2> HIDE DEF g, n
  <2>1. 0 \in K
    BY <1>1, <1>4, <1>10
  <2>2. ASSUME NEW k \in 1 .. n, k - 1 \in K PROVE k \in K
    <3>1. g[k - 1] \in RunScans /\ k \in 0 .. n
      BY <1>1, <2>2
    <3>. QED BY <1>2, <1>11, <3>1
  <2> HIDE DEF K
  <2>3. 0 .. n \subseteq K
    BY <1>1, <2>1, <2>2, InductionUpTo
  <2>4. \A k \in 0 .. n : g[k] \in RunScans
    BY <2>3 DEF K
  <2>. QED BY <2>4 DEF g
<1> HIDE DEF g
<1>. QED BY <1>10, <1>11, <1>12, <1>13 DEF base

\* Runs that are scanned without an error: as many as declared, each within a
\* word, and the rows and bytes that were counted are theirs.
LEMMA ScanRunsYields ==
  ASSUME NEW p \in Seq(Bytes), RleHeaderLen <= Len(p), NEW n \in Nat, ScanRuns(p, n).status = "ok"
  PROVE  \E runs \in Seq(RunsType) :
           /\ Len(runs) = n /\ Len(Expand(runs)) <= WordMax
           /\ RleHeaderLen + Len(RunBytes(runs)) <= Len(p)
           /\ ScanRuns(p, n) = RunScan(RleHeaderLen + Len(RunBytes(runs)), Len(Expand(runs)), runs)
<1>1. PICK g \in [0 .. n -> RunScans] :
        /\ g[0] = RunScan(RleHeaderLen, 0, <<>>) /\ g[n] = ScanRuns(p, n)
        /\ \A k \in 1 .. n : g[k] = ScanRun(p, g[k - 1])
  BY RunsScanPass, RunsScanIs
<1> DEFINE Good(acc, k) ==
             acc.status = "ok" =>
               \E runs \in Seq(RunsType) :
                 /\ Len(runs) = k /\ Len(Expand(runs)) <= WordMax
                 /\ RleHeaderLen + Len(RunBytes(runs)) <= Len(p)
                 /\ acc = RunScan(RleHeaderLen + Len(RunBytes(runs)), Len(Expand(runs)), runs)
           K == {k \in 0 .. n : Good(g[k], k)}
<1>2. 0 \in K
  <2>1. Expand(<<>>) = <<>> /\ RunBytes(<<>>) = <<>>
    <3> DEFINE e == <<>>
    <3>1. e \in Seq(RunsType) /\ Len(e) = 0
      OBVIOUS
    <3>2. DOMAIN e = {}
      OBVIOUS
    <3>3. [k \in DOMAIN e |-> Rows(e[k])] = <<>> /\ [k \in DOMAIN e |-> EncodeRun(e[k])] = <<>>
      OBVIOUS
    <3>. QED BY <3>3, FlattenEmpty DEF Expand, RunBytes
  <2>2. <<>> \in Seq(RunsType) /\ Len(<<>>) = 0 /\ 0 <= WordMax /\ RleHeaderLen + 0 = RleHeaderLen
    BY BaseFacts DEF RleHeaderLen, WordLen
  <2>3. Good(g[0], 0)
    BY <1>1, <2>1, <2>2
  <2>4. 0 \in 0 .. n
    OBVIOUS
  <2> HIDE DEF Good
  <2>. QED BY <2>3, <2>4
<1>3. ASSUME NEW k \in 1 .. n, k - 1 \in K PROVE k \in K
  <2>1. k \in 0 .. n /\ k - 1 \in 0 .. n
    OBVIOUS
  <2>2. SUFFICES ASSUME g[k].status = "ok" PROVE Good(g[k], k)
    <3> HIDE DEF Good
    <3>1. g[k].status # "ok" => Good(g[k], k)
      BY DEF Good
    <3>. QED BY <2>1, <3>1
  <2>3. g[k - 1] \in RunScans /\ g[k] = ScanRun(p, g[k - 1]) /\ ScanRun(p, g[k - 1]).status = "ok"
    BY <1>1, <2>1, <2>2
  <2>4. g[k - 1].status = "ok"
    BY <2>3, ScanRunYields
  <2>5. PICK runs \in Seq(RunsType) :
          /\ Len(runs) = k - 1 /\ Len(Expand(runs)) <= WordMax
          /\ RleHeaderLen + Len(RunBytes(runs)) <= Len(p)
          /\ g[k - 1] = RunScan(RleHeaderLen + Len(RunBytes(runs)), Len(Expand(runs)), runs)
    BY <1>3, <2>4
  <2>6. PICK run \in RunsType :
          /\ g[k - 1].count + run.length <= WordMax
          /\ g[k - 1].offset + RunLen(run.value) <= Len(p)
          /\ g[k]
                 = RunScan(g[k - 1].offset + RunLen(run.value), g[k - 1].count + run.length, Append(g[k - 1].runs, run))
    BY <2>3, ScanRunYields
  <2> DEFINE more == Append(runs, run)
             x == Len(Expand(runs))
             y == Len(Expand(more))
             u == Len(RunBytes(runs))
             w == Len(RunBytes(more))
  <2>7. more \in Seq(RunsType) /\ Len(more) = k
    BY <2>5
  <2>8. y = x + run.length /\ w = u + RunLen(run.value) /\ x \in Nat /\ u \in Nat
    BY ExpandAppend, ExpandLen, RunSeqs
  <2>9. g[k - 1].offset = RleHeaderLen + u /\ g[k - 1].count = x /\ g[k - 1].runs = runs
    BY <2>5 DEF RunScan
  <2>10. RunLen(run.value) \in Nat /\ run.length \in Nat /\ RleHeaderLen \in Nat
    BY RunFacts DEF RunLen, RleHeaderLen, WordLen
  <2>11. (RleHeaderLen + u) + RunLen(run.value) = RleHeaderLen + w
    <3> HIDE DEF u, w
    <3> DEFINE h == RleHeaderLen
               l == RunLen(run.value)
    <3>1. h \in Nat /\ u \in Nat /\ l \in Nat /\ w = u + l
      BY <2>8, <2>10
    <3> HIDE DEF h, l
    <3>2. (h + u) + l = h + w
      BY <3>1
    <3>. QED BY <3>2 DEF h, l
  <2> HIDE DEF x, y, u, w
  <2>12. g[k] = RunScan(RleHeaderLen + w, y, more) /\ y <= WordMax /\ RleHeaderLen + w <= Len(p)
    BY <2>6, <2>8, <2>9, <2>11
  <2>. QED BY <2>7, <2>12 DEF y, w
<1>4. n \in K
  <2> HIDE DEF K
  <2>1. 0 .. n \subseteq K
    BY <1>2, <1>3, InductionUpTo
  <2>. QED BY <2>1
<1>5. Good(g[n], n)
  <2> HIDE DEF Good
  <2>. QED BY <1>4
<1>. QED BY <1>1, <1>5

\* Runs laid out after a header are scanned as they are.
LEMMA ScanRunsReads ==
  ASSUME NEW head \in Seq(Bytes), Len(head) = RleHeaderLen, NEW runs \in Seq(RunsType),
      Len(Expand(runs)) <= WordMax
  PROVE  LET p == head \o RunBytes(runs)
         IN  /\ p \in Seq(Bytes) /\ Len(p) = RleHeaderLen + Len(RunBytes(runs))
             /\ ScanRuns(p, Len(runs)) = RunScan(Len(p), Len(Expand(runs)), runs)
<1> DEFINE n == Len(runs)
           enc == [k \in DOMAIN runs |-> EncodeRun(runs[k])]
           tail == RunBytes(runs)
           p == head \o tail
<1>1. n \in Nat /\ DOMAIN runs = 1 .. n /\ \A k \in 1 .. n : runs[k] \in RunsType
  OBVIOUS
<1>2. \A k \in 1 .. n : runs[k].length <= WordMax
  <2> SUFFICES ASSUME NEW k \in 1 .. n PROVE runs[k].length <= WordMax
    OBVIOUS
  <2> DEFINE l == runs[k].length
             x == Len(Expand(runs))
  <2>1. l <= x /\ l \in Nat
    BY <1>1, RunsWithin, RunFacts
  <2>2. x \in Nat /\ x <= WordMax
    <3>1. Expand(runs) \in Seq(Cells)
      BY RunSeqs
    <3>. QED BY <3>1
  <2> HIDE DEF l, x
  <2>3. l <= WordMax
    BY <2>1, <2>2, BaseFacts
  <2>. QED BY <2>3 DEF l
<1>3. /\ enc \in Seq(Seq(Bytes)) /\ Len(enc) = n
      /\ \A k \in 1 .. n : enc[k] = EncodeRun(runs[k]) /\ Len(enc[k]) = RunLen(runs[k].value) /\ enc[k] \in Seq(Bytes)
  <2>1. \A k \in 1 .. n : EncodeRun(runs[k]) \in Seq(Bytes) /\ Len(EncodeRun(runs[k])) = RunLen(runs[k].value)
    BY <1>1, <1>2, EncodeRunAt
  <2>. QED BY <1>1, <2>1
<1>4. tail = FlattenSeq(enc)
  BY DEF RunBytes
<1> HIDE DEF enc
<1>5. tail \in Seq(Bytes) /\ \E at : LaidOut(tail, at, enc)
  BY <1>3, <1>4, FlattenLaysOut
<1> HIDE DEF tail
<1>6. PICK at : LaidOut(tail, at, enc)
  BY <1>5
<1>7. /\ at \in [0 .. n -> Nat] /\ at[0] = 0 /\ at[n] = Len(tail)
      /\ \A k \in 1 .. n :
           /\ at[k] = at[k - 1] + Len(enc[k]) /\ at[k] <= Len(tail)
           /\ \A x \in 1 .. Len(enc[k]) : tail[at[k - 1] + x] = enc[k][x]
  BY <1>3, <1>6 DEF LaidOut
<1>8. /\ p \in Seq(Bytes) /\ Len(p) = Len(head) + Len(tail)
      /\ \A x \in 1 .. Len(tail) : p[Len(head) + x] = tail[x]
  <2>1. head \in Seq(Bytes) /\ tail \in Seq(Bytes)
    BY <1>5
  <2>2. p \in Seq(Bytes) /\ Len(p) = Len(head) + Len(tail)
    BY <2>1, ConcatAt
  <2>3. \A x \in 1 .. Len(tail) : p[Len(head) + x] = tail[x]
    BY <2>1, ConcatAt
  <2>. QED BY <2>2, <2>3
<1> HIDE DEF p
<1>9. ASSUME NEW k \in 1 .. n PROVE Holds(p, RleHeaderLen + at[k - 1], EncodeRun(runs[k]))
  <2> DEFINE e == EncodeRun(runs[k])
             a == at[k - 1]
             l == Len(e)
             t == Len(tail)
             h == Len(head)
             lp == Len(p)
  <2>1. k - 1 \in 0 .. n
    BY <1>1
  <2>2. a \in Nat /\ l \in Nat /\ t \in Nat /\ h \in Nat /\ lp = h + t /\ a + l <= t
    <3>1. a \in Nat
      BY <1>7, <2>1
    <3>2. t \in Nat /\ h \in Nat
      BY <1>5
    <3>3. lp = h + t
      BY <1>8
    <3>4. e \in Seq(Bytes) /\ e = enc[k]
      BY <1>3
    <3>5. l \in Nat
      BY <3>4
    <3>6. at[k] = at[k - 1] + Len(enc[k]) /\ at[k] <= t
      BY <1>7
    <3>. QED BY <3>1, <3>2, <3>3, <3>4, <3>5, <3>6
  <2>3. \A x \in 1 .. l : tail[a + x] = e[x]
    BY <1>3, <1>7
  <2>4. \A x \in 1 .. t : p[h + x] = tail[x]
    BY <1>8
  <2> HIDE DEF a, l, t, h, e, lp
  <2>5. (h + a) + l <= lp
    BY <2>2
  <2>6. ASSUME NEW x \in 1 .. l PROVE p[(h + a) + x] = e[x]
    <3>1. a + x \in 1 .. t /\ (h + a) + x = h + (a + x)
      BY <2>2
    <3>2. p[h + (a + x)] = tail[a + x] /\ tail[a + x] = e[x]
      BY <2>3, <2>4, <3>1
    <3>. QED BY <3>1, <3>2
  <2>. QED BY <2>5, <2>6 DEF Holds, h, a, l, e, lp
<1>10. PICK g \in [0 .. n -> RunScans] :
        /\ g[0] = RunScan(RleHeaderLen, 0, <<>>) /\ g[n] = ScanRuns(p, n)
        /\ \A k \in 1 .. n : g[k] = ScanRun(p, g[k - 1])
  BY <1>1, <1>8, RunsScanPass, RunsScanIs
<1> DEFINE R(k) == SubSeq(runs, 1, k)
           Good(k) == g[k]
               = RunScan(RleHeaderLen + at[k], Len(Expand(R(k))), R(k)) /\ Len(RunBytes(R(k))) = at[k]
           K == {k \in 0 .. n : Good(k)}
<1>11. 0 \in K
  <2>1. Expand(<<>>) = <<>> /\ RunBytes(<<>>) = <<>>
    <3> DEFINE e == <<>>
    <3>1. DOMAIN e = {}
      OBVIOUS
    <3>2. [k \in DOMAIN e |-> Rows(e[k])] = <<>> /\ [k \in DOMAIN e |-> EncodeRun(e[k])] = <<>>
      OBVIOUS
    <3>. QED BY <3>2, FlattenEmpty DEF Expand, RunBytes
  <2>2. R(0) = <<>> /\ Len(<<>>) = 0 /\ RleHeaderLen + 0 = RleHeaderLen
    BY DEF RleHeaderLen, WordLen
  <2>3. Good(0)
    BY <1>7, <1>10, <2>1, <2>2
  <2>4. 0 \in 0 .. n
    BY <1>1
  <2> HIDE DEF Good
  <2>. QED BY <2>3, <2>4
<1>12. ASSUME NEW k \in 1 .. n PROVE R(k - 1) \in Seq(RunsType) /\ R(k)
           = Append(R(k - 1), runs[k]) /\ R(k) \in Seq(RunsType)
  OBVIOUS
<1>12a. \A k \in 0 .. n : Len(Expand(R(k))) <= Len(Expand(runs))
  BY ExpandPrefix
<1>13. ASSUME NEW k \in 1 .. n, k - 1 \in K PROVE k \in K
  <2>1. k \in 0 .. n /\ k - 1 \in 0 .. n
    BY <1>1
  <2> DEFINE prev == R(k - 1)
             run == runs[k]
             acc == g[k - 1]
             x == Len(Expand(prev))
             y == Len(Expand(R(k)))
             u == Len(RunBytes(prev))
             w == Len(RunBytes(R(k)))
             h == RleHeaderLen
             a == at[k - 1]
             l == RunLen(run.value)
  <2>2. acc = RunScan(h + a, x, prev) /\ u = a
    BY <1>13
  <2>3. acc \in RunScans /\ g[k] = ScanRun(p, acc)
    BY <1>10, <2>1
  <2>4. run \in RunsType /\ run.length <= WordMax /\ Holds(p, h + a, EncodeRun(run))
    BY <1>1, <1>2, <1>9
  <2>5. y = x + run.length /\ w = u + l
    BY <1>12, <2>4, ExpandAppend, ExpandLen
  <2>5a. y <= WordMax
    <3> DEFINE z == Len(Expand(runs))
    <3>1. y <= z /\ z <= WordMax
      BY <1>12a, <2>1
    <3>2. y \in Nat /\ z \in Nat
      <4>1. Expand(R(k)) \in Seq(Cells) /\ Expand(runs) \in Seq(Cells)
        BY <1>12, RunSeqs
      <4>. QED BY <4>1
    <3> HIDE DEF y, z
    <3>. QED BY <3>1, <3>2, BaseFacts
  <2>6. acc.status = "ok" /\ acc.offset = h + a /\ acc.count = x /\ acc.runs = prev
    BY <2>2 DEF RunScan
  <2> HIDE DEF acc, x, y, u, w, h, a, run, prev, R, l
  <2>7. ScanRun(p, acc)
            = RunScan(acc.offset + RunLen(run.value), acc.count + run.length, Append(acc.runs, run))
    <3>1. acc.count + run.length <= WordMax
      BY <2>5, <2>5a, <2>6
    <3>. QED BY <1>8, <2>3, <2>4, <2>6, <3>1, ScanRunReads
  <2>8. at[k] = a + l
    BY <1>3, <1>7 DEF a, l, run
  <2>9. (h + a) + l = h + (a + l)
    <3>1. h \in Nat /\ a \in Nat /\ l \in Nat
      BY <1>7, <2>1 DEF h, a, l, RunLen, RleHeaderLen, WordLen
    <3>. QED BY <3>1
  <2>10. g[k] = RunScan(h + at[k], y, Append(prev, run))
    BY <2>3, <2>5, <2>6, <2>7, <2>8, <2>9 DEF l
  <2>11. Append(prev, run) = R(k)
    BY <1>12 DEF prev, run
  <2>12. Good(k)
    BY <2>2, <2>5, <2>8, <2>10, <2>11 DEF h, y, w
  <2> HIDE DEF Good
  <2>. QED BY <2>1, <2>12
<1>14. Good(n)
  <2> HIDE DEF Good
  <2> HIDE DEF K
  <2>1. 0 .. n \subseteq K
    BY <1>1, <1>11, <1>13, InductionUpTo
  <2>2. n \in K
    BY <1>1, <2>1
  <2>. QED BY <2>2 DEF K
<1>15. R(n) = runs
  OBVIOUS
<1>16. ScanRuns(p, n) = RunScan(RleHeaderLen + at[n], Len(Expand(runs)), runs)
  BY <1>10, <1>14, <1>15
<1>17. Len(p) = RleHeaderLen + at[n]
  BY <1>7, <1>8
<1>. QED BY <1>7, <1>8, <1>16, <1>17 DEF p, tail

(***************************************************************************)
(* The runs that the encoder makes are the shortest for their rows.        *)
(***************************************************************************)
\* One more row: the last run is extended, or a new one begins.
RunsStep(runs, v) ==
  IF runs # <<>> /\ Extends(Last(runs), v)
  THEN [runs EXCEPT ![Len(runs)].length = @ + 1]
  ELSE Append(runs, [value |-> v, length |-> 1])

EndsWith(runs, v) == runs # <<>> /\ runs[Len(runs)].value = v

(* Append and concatenation associate. *)
LEMMA ConcatAppend ==
  ASSUME NEW S, NEW a \in Seq(S), NEW b \in Seq(S), NEW v \in S
  PROVE  a \o Append(b, v) = Append(a \o b, v)
<1> DEFINE c == Append(b, v)
           d == a \o b
           m == Len(a)
           n == Len(b)
<1>1. c \in Seq(S) /\ Len(c) = n + 1 /\ c[n + 1] = v /\ \A x \in 1 .. n : c[x] = b[x]
  OBVIOUS
<1>2. /\ d \in Seq(S) /\ Len(d) = m + n /\ (\A x \in 1 .. m : d[x] = a[x])
      /\ \A x \in 1 .. n : d[m + x] = b[x]
  BY ConcatAt
<1>3. m \in Nat /\ n \in Nat
  OBVIOUS
<1> HIDE DEF c, d
<1> DEFINE e == a \o c
           f == Append(d, v)
<1>4. /\ e \in Seq(S) /\ Len(e) = m + Len(c) /\ (\A x \in 1 .. m : e[x] = a[x])
      /\ \A x \in 1 .. Len(c) : e[m + x] = c[x]
  <2>1. c \in Seq(S)
    BY <1>1
  <2>2. e \in Seq(S) /\ Len(e) = m + Len(c) /\ \A x \in 1 .. m : e[x] = a[x]
    BY <2>1, ConcatAt
  <2>3. \A x \in 1 .. Len(c) : e[m + x] = c[x]
    BY <2>1, ConcatAt
  <2>. QED BY <2>2, <2>3
<1>5. f \in Seq(S) /\ Len(f) = Len(d) + 1 /\ f[Len(d) + 1] = v /\ \A x \in 1 .. Len(d) : f[x] = d[x]
  BY <1>2
<1> HIDE DEF m, n, e, f
<1>6. Len(e) = m + n + 1 /\ Len(f) = m + n + 1
  BY SMTT(60), <1>1, <1>2, <1>3, <1>4, <1>5
<1>7. ASSUME NEW x \in 1 .. m + n + 1 PROVE e[x] = f[x]
  <2>1. CASE x \in 1 .. m
    <3>1. x \in 1 .. m + n
      BY <1>3, <2>1
    <3>. QED BY <1>2, <1>4, <1>5, <2>1, <3>1
  <2>2. CASE x \in m + 1 .. m + n
    <3>1. x - m \in 1 .. n /\ x - m \in 1 .. n + 1 /\ m + (x - m) = x /\ x \in 1 .. m + n
      BY <1>3, <2>2
    <3>2. e[x] = c[x - m] /\ c[x - m] = b[x - m]
      BY <1>1, <1>4, <3>1
    <3>3. f[x] = d[x] /\ d[x] = b[x - m]
      BY <1>2, <1>5, <3>1
    <3>. QED BY <3>2, <3>3
  <2>3. CASE x = m + n + 1
    <3>1. n + 1 \in 1 .. n + 1 /\ m + (n + 1) = x /\ Len(d) + 1 = x
      BY <1>2, <1>3, <2>3
    <3>2. e[x] = c[n + 1]
      BY <1>1, <1>4, <3>1
    <3>. QED BY <1>1, <1>5, <3>1, <3>2
  <2>4. x \in 1 .. m \/ x \in m + 1 .. m + n \/ x = m + n + 1
    BY <1>3
  <2>. QED BY <2>1, <2>2, <2>3, <2>4
<1>8. e = f
  BY <1>4, <1>5, <1>6, <1>7, SeqEqual
<1>. QED BY <1>8 DEF e, f, c, d

(* One more row extends the last run if it has the row's value, and begins a run
   of its own otherwise. *)
LEMMA RunsStepFacts ==
  ASSUME NEW runs \in Seq(RunsType), NEW v \in Cells
  PROVE  /\ RunsStep(runs, v) \in Seq(RunsType) /\ EndsWith(RunsStep(runs, v), v)
         /\ Expand(RunsStep(runs, v)) = Append(Expand(runs), v)
         /\ EndsWith(runs, v) => /\ Len(RunsStep(runs, v)) = Len(runs)
                                 /\ Len(RunBytes(RunsStep(runs, v))) = Len(RunBytes(runs))
         /\ ~EndsWith(runs, v) => /\ Len(RunsStep(runs, v)) = Len(runs) + 1
                                  /\ Len(RunBytes(RunsStep(runs, v))) = Len(RunBytes(runs)) + RunLen(v)
<1>1. EndsWith(runs, v) <=> runs # <<>> /\ Extends(Last(runs), v)
  BY DEF EndsWith, Extends, Last
<1>2. Expand(runs) \in Seq(Cells) /\ RunBytes(runs) \in Seq(Nat)
  BY RunSeqs
<1>3. CASE ~EndsWith(runs, v)
  <2> DEFINE run == [value |-> v, length |-> 1]
             more == Append(runs, run)
  <2>1. run \in RunsType /\ run.value = v
    BY DEF RunsType
  <2>2. RunsStep(runs, v) = more
    BY <1>1, <1>3 DEF RunsStep
  <2>3. Rows(run) = <<v>>
    <3>1. Rows(run) = [j \in 1 .. 1 |-> v]
      BY DEF Rows
    <3>. QED BY <3>1
  <2> HIDE DEF run
  <2>4. Len(more) = Len(runs) + 1 /\ more # <<>> /\ more[Len(more)] = run
    BY <2>1
  <2>5. /\ more \in Seq(RunsType) /\ Expand(more) = Expand(runs) \o <<v>>
        /\ Len(RunBytes(more)) = Len(RunBytes(runs)) + RunLen(v)
    BY <2>1, <2>3, ExpandAppend
  <2>6. Expand(runs) \o <<v>> = Append(Expand(runs), v)
    <3> DEFINE e == Expand(runs)
    <3>1. e \in Seq(Cells)
      BY <1>2
    <3> HIDE DEF e
    <3>2. e \o <<v>> = Append(e, v)
      BY <3>1
    <3>. QED BY <3>2 DEF e
  <2> HIDE DEF more
  <2>. QED BY <1>3, <2>1, <2>2, <2>4, <2>5, <2>6 DEF EndsWith
<1>4. CASE EndsWith(runs, v)
  <2> DEFINE n == Len(runs)
             front == SubSeq(runs, 1, n - 1)
             old == runs[n]
             new == [old EXCEPT !.length = @ + 1]
             more == [runs EXCEPT ![n].length = @ + 1]
  <2>1. runs # <<>> /\ old.value = v
    BY <1>4 DEF EndsWith
  <2>2. n \in Nat /\ n > 0
    BY <2>1
  <2>3. old \in RunsType
    BY <2>2
  <2>4. new \in RunsType /\ new.value = v /\ new.length = old.length + 1 /\ old.length \in Nat
    BY <2>1, <2>3 DEF RunsType
  <2>5. RunsStep(runs, v) = more
    BY <1>1, <1>4 DEF RunsStep
  <2>6. front \in Seq(RunsType) /\ runs = Append(front, old)
    BY <2>2
  <2>7. more = [runs EXCEPT ![n] = new]
    OBVIOUS
  <2> HIDE DEF new
  <2>8. more = Append(front, new)
    <3> DEFINE b == [runs EXCEPT ![n] = new]
               c == Append(front, new)
    <3>1. /\ b \in Seq(RunsType) /\ Len(b) = n /\ b[n] = new
          /\ \A x \in 1 .. n : x # n => b[x] = runs[x]
      BY <2>2, <2>4
    <3>2. Len(front) = n - 1 /\ \A x \in 1 .. n - 1 : front[x] = runs[x]
      <4> DEFINE m == n - 1
      <4>1. m \in Nat /\ m <= Len(runs)
        BY <2>2
      <4> HIDE DEF m
      <4>2. Len(SubSeq(runs, 1, m)) = m /\ \A x \in 1 .. m : SubSeq(runs, 1, m)[x] = runs[x]
        BY <4>1
      <4>. QED BY <4>2 DEF m
    <3> HIDE DEF front
    <3>3. /\ c \in Seq(RunsType) /\ Len(c) = (n - 1) + 1 /\ c[(n - 1) + 1] = new
          /\ \A x \in 1 .. n - 1 : c[x] = front[x]
      BY <2>4, <2>6, <3>2
    <3> HIDE DEF b, c, n
    <3>4. Len(c) = n /\ c[n] = new
      BY <2>2, <3>3
    <3>5. ASSUME NEW x \in 1 .. n PROVE b[x] = c[x]
      <4>1. CASE x = n
        BY <3>1, <3>4, <4>1
      <4>2. CASE x # n
        <5>1. x \in 1 .. n - 1
          BY <2>2, <4>2
        <5>. QED BY <3>1, <3>2, <3>3, <4>2, <5>1
      <4>. QED BY <4>1, <4>2
    <3>6. b = c
      BY <3>1, <3>3, <3>4, <3>5, SeqEqual
    <3>. QED BY <2>7, <3>6 DEF b, c
  <2> HIDE DEF front, more, old
  <2>9. /\ more \in Seq(RunsType) /\ Expand(more) = Expand(front) \o Rows(new)
        /\ Len(RunBytes(more)) = Len(RunBytes(front)) + RunLen(v)
    BY <2>4, <2>6, <2>8, ExpandAppend
  <2>10. /\ Expand(runs) = Expand(front) \o Rows(old)
         /\ Len(RunBytes(runs)) = Len(RunBytes(front)) + RunLen(v)
    BY <2>1, <2>3, <2>6, ExpandAppend
  <2>11. Rows(new) = Append(Rows(old), v)
    <3> DEFINE l == old.length
               r == Rows(new)
               s == Append(Rows(old), v)
    <3>1. r = [j \in 1 .. l + 1 |-> v]
      BY <2>4 DEF Rows
    <3>2. Rows(old) = [j \in 1 .. l |-> v]
      BY <2>1 DEF Rows
    <3>3. l \in Nat
      BY <2>4
    <3> HIDE DEF l
    <3>4. [j \in 1 .. l + 1 |-> v] = Append([j \in 1 .. l |-> v], v)
      <4> DEFINE o == [j \in 1 .. l |-> v]
                 a == Append(o, v)
                 b == [j \in 1 .. l + 1 |-> v]
      <4>1. o \in Seq(Cells) /\ Len(o) = l /\ \A j \in 1 .. l : o[j] = v
        BY <3>3
      <4>2. b \in Seq(Cells) /\ Len(b) = l + 1 /\ \A j \in 1 .. l + 1 : b[j] = v
        BY <3>3
      <4> HIDE DEF o
      <4>3. a \in Seq(Cells) /\ Len(a) = l + 1 /\ a[l + 1] = v /\ \A j \in 1 .. l : a[j] = o[j]
        BY <4>1
      <4> HIDE DEF a, b
      <4>4. ASSUME NEW j \in 1 .. l + 1 PROVE b[j] = a[j]
        <5>1. j = l + 1 \/ j \in 1 .. l
          BY <3>3
        <5>. QED BY <4>1, <4>2, <4>3, <5>1
      <4>5. b = a
        BY <4>2, <4>3, <4>4, SeqEqual
      <4>. QED BY <4>5 DEF a, b, o
    <3>. QED BY <3>1, <3>2, <3>4
  <2>12. Expand(front) \in Seq(Cells) /\ Rows(old) \in Seq(Cells)
    BY <2>3, <2>6, RunSeqs, RunFacts
  <2>13. Expand(more) = Append(Expand(runs), v)
    <3>1. Expand(front) \o Append(Rows(old), v) = Append(Expand(front) \o Rows(old), v)
      BY <2>12, ConcatAppend
    <3>. QED BY <2>9, <2>10, <2>11, <3>1
  <2>14. Len(more) = n /\ more[n] = new /\ more # <<>>
    BY <2>2, <2>3, <2>4, <2>7
  <2>. QED BY <1>4, <2>4, <2>5, <2>9, <2>10, <2>13, <2>14 DEF EndsWith
<1>. QED BY <1>3, <1>4

\* it is the recursion behind Runs.
RunsOf(it, rows) ==
  it = [s \in SUBSET DOMAIN rows |-> IF s = {} THEN <<>> ELSE RunsStep(it[s \ {Max(s)}], rows[Max(s)])]

\* FoldLeft, unfolded.
LEMMA RunsIsRecursion ==
  ASSUME NEW rows
  PROVE  Runs(rows) = (CHOOSE it : RunsOf(it, rows))[DOMAIN rows]
BY DEF Runs, RunsStep, FoldLeft, MapThenFoldSet, RunsOf

\* Runs passes from one value to the next, position by position.
LEMMA RunsPass ==
  ASSUME NEW rows \in Seq(Cells)
  PROVE  \E g \in [0 .. Len(rows) -> Seq(RunsType)] :
           /\ g[0] = <<>> /\ g[Len(rows)] = Runs(rows)
           /\ \A k \in 1 .. Len(rows) : g[k] = RunsStep(g[k - 1], rows[k])
<1> DEFINE n == Len(rows)
           base == <<>>
           step == [x \in (1 .. n) \X Seq(RunsType) |-> RunsStep(x[2], rows[x[1]])]
           c == CHOOSE it : RunsOf(it, rows)
           g == [k \in 0 .. n |-> c[1 .. k]]
<1>1. n \in Nat /\ DOMAIN rows = 1 .. n
  OBVIOUS
<1>2. ASSUME NEW a \in Seq(RunsType), NEW k \in 1 .. n PROVE RunsStep(a, rows[k]) \in Seq(RunsType)
  <2>1. rows[k] \in Cells
    OBVIOUS
  <2>. QED BY <2>1, RunsStepFacts
<1>3. step \in [(1 .. n) \X Seq(RunsType) -> Seq(RunsType)]
  BY <1>1, <1>2
<1>4. base \in Seq(RunsType)
  OBVIOUS
<1>5. PICK it \in [SUBSET (1 .. n) -> Seq(RunsType)] : Iterates(it, n, base, step)
  <2> HIDE DEF n, step, base
  <2>. QED BY <1>1, <1>3, <1>4, IterationExists
<1>6. ASSUME NEW s \in SUBSET (1 .. n)
      PROVE  it[s] = IF s = {} THEN base ELSE RunsStep(it[s \ {Max(s)}], rows[Max(s)])
  <2>1. CASE s = {}
    <3> HIDE DEF n, step, base
    <3>. QED BY <1>5, <2>1 DEF Iterates
  <2>2. CASE s # {}
    <3>1. Max(s) \in 1 .. n
      <4> HIDE DEF n
      <4>. QED BY <1>1, <2>2, LastPosition
    <3>2. s \ {Max(s)} \in SUBSET (1 .. n)
      OBVIOUS
    <3>3. it[s \ {Max(s)}] \in Seq(RunsType)
      BY <3>2
    <3>4. it[s] = step[<<Max(s), it[s \ {Max(s)}]>>]
      <4> HIDE DEF n, step, base
      <4>. QED BY <1>5, <2>2 DEF Iterates
    <3>5. <<Max(s), it[s \ {Max(s)}]>> \in (1 .. n) \X Seq(RunsType)
      BY <3>1, <3>3
    <3>6. step[<<Max(s), it[s \ {Max(s)}]>>] = RunsStep(it[s \ {Max(s)}], rows[Max(s)])
      BY <3>5
    <3>. QED BY <2>2, <3>4, <3>6
  <2>. QED BY <2>1, <2>2
<1>7. RunsOf(it, rows)
  <2>1. it = [s \in SUBSET (1 .. n) |-> it[s]]
    BY <1>5
  <2>. QED BY <1>1, <1>6, <2>1 DEF RunsOf
<1>8. RunsOf(c, rows)
  BY <1>7
<1> HIDE DEF c
<1>9. \A s \in SUBSET (1 .. n) :
         c[s] = IF s = {} THEN base ELSE RunsStep(c[s \ {Max(s)}], rows[Max(s)])
  BY <1>1, <1>8 DEF RunsOf
<1> HIDE DEF base, step
<1>10. g[0] = base
  <2>1. 1 .. 0 = {} /\ 0 \in 0 .. n
    BY <1>1
  <2>. QED BY <1>9, <2>1
<1>11. ASSUME NEW k \in 1 .. n PROVE g[k] = RunsStep(g[k - 1], rows[k])
  <2>1. /\ 1 .. k \in SUBSET (1 .. n) /\ 1 .. k # {} /\ Max(1 .. k) = k
        /\ (1 .. k) \ {k} = 1 .. (k - 1)
    <3> HIDE DEF n
    <3>. QED BY <1>1, LastUpTo
  <2>2. c[1 .. k] = RunsStep(c[1 .. (k - 1)], rows[k])
    BY <1>9, <2>1
  <2>3. k \in 0 .. n /\ k - 1 \in 0 .. n
    BY <1>1
  <2>. QED BY <2>2, <2>3
<1>12. g[n] = Runs(rows)
  <2>1. Runs(rows) = c[1 .. n]
    BY <1>1, RunsIsRecursion DEF c
  <2>2. n \in 0 .. n
    BY <1>1
  <2>. QED BY <2>1, <2>2
<1>13. g \in [0 .. n -> Seq(RunsType)]
  <2> DEFINE K == {k \in 0 .. n : g[k] \in Seq(RunsType)}
  <2> HIDE DEF g, n
  <2>1. 0 \in K
    BY <1>1, <1>4, <1>10
  <2>2. ASSUME NEW k \in 1 .. n, k - 1 \in K PROVE k \in K
    <3>1. g[k - 1] \in Seq(RunsType) /\ k \in 0 .. n
      BY <1>1, <2>2
    <3>. QED BY <1>2, <1>11, <3>1
  <2> HIDE DEF K
  <2>3. 0 .. n \subseteq K
    BY <1>1, <2>1, <2>2, InductionUpTo
  <2>4. \A k \in 0 .. n : g[k] \in Seq(RunsType)
    BY <2>3 DEF K
  <2>. QED BY <2>4 DEF g
<1> HIDE DEF g
<1>. QED BY <1>10, <1>11, <1>12, <1>13 DEF base

\* The runs of the rows stand for the rows.
LEMMA RunsExpand ==
  ASSUME NEW rows \in Seq(Cells)
  PROVE  Runs(rows) \in Seq(RunsType) /\ Expand(Runs(rows)) = rows
<1> DEFINE n == Len(rows)
<1>1. PICK g \in [0 .. n -> Seq(RunsType)] :
        /\ g[0] = <<>> /\ g[n] = Runs(rows)
        /\ \A k \in 1 .. n : g[k] = RunsStep(g[k - 1], rows[k])
  BY RunsPass
<1>2. n \in Nat /\ \A k \in 1 .. n : rows[k] \in Cells
  OBVIOUS
<1> DEFINE K == {k \in 0 .. n : Expand(g[k]) = SubSeq(rows, 1, k)}
<1>3. 0 \in K
  <2>1. Expand(<<>>) = <<>>
    <3> DEFINE e == <<>>
    <3>1. DOMAIN e = {}
      OBVIOUS
    <3>2. [k \in DOMAIN e |-> Rows(e[k])] = <<>>
      OBVIOUS
    <3>. QED BY <3>2, FlattenEmpty DEF Expand
  <2>2. SubSeq(rows, 1, 0) = <<>>
    OBVIOUS
  <2>3. 0 \in 0 .. n
    BY <1>2
  <2>. QED BY <1>1, <2>1, <2>2, <2>3
<1>4. ASSUME NEW k \in 1 .. n, k - 1 \in K PROVE k \in K
  <2>1. k \in 0 .. n /\ k - 1 \in 0 .. n
    BY <1>2
  <2>2. g[k - 1] \in Seq(RunsType) /\ rows[k] \in Cells /\ g[k] = RunsStep(g[k - 1], rows[k])
    BY <1>1, <1>2, <2>1
  <2>3. Expand(g[k]) = Append(Expand(g[k - 1]), rows[k])
    BY <2>2, RunsStepFacts
  <2>4. SubSeq(rows, 1, k) = Append(SubSeq(rows, 1, k - 1), rows[k])
    OBVIOUS
  <2>5. Expand(g[k - 1]) = SubSeq(rows, 1, k - 1)
    BY <1>4
  <2>. QED BY <2>1, <2>3, <2>4, <2>5
<1>5. n \in K
  <2> HIDE DEF K
  <2>1. 0 .. n \subseteq K
    BY <1>2, <1>3, <1>4, InductionUpTo
  <2>. QED BY <1>2, <2>1
<1>6. SubSeq(rows, 1, n) = rows
  OBVIOUS
<1>7. g[n] \in Seq(RunsType)
  BY <1>2
<1>. QED BY <1>1, <1>5, <1>6, <1>7

\* No encoding of rows as runs is shorter than that of their maximal runs.
THEOREM RunsAreShortest ==
  ASSUME NEW runs \in Seq(RunsType)
  PROVE  /\ Len(Runs(Expand(runs))) <= Len(runs)
         /\ Len(RunBytes(Runs(Expand(runs)))) <= Len(RunBytes(runs))
<1> DEFINE rows == Expand(runs)
           r == Len(rows)
           n == Len(runs)
           parts == [k \in DOMAIN runs |-> Rows(runs[k])]
           codes == [k \in DOMAIN runs |-> EncodeRun(runs[k])]
<1>1. /\ n \in Nat /\ DOMAIN runs = 1 .. n /\ (\A k \in 1 .. n : runs[k] \in RunsType)
      /\ rows \in Seq(Cells) /\ parts \in Seq(Seq(Cells)) /\ Len(parts) = n
      /\ codes \in Seq(Seq(Nat)) /\ Len(codes) = n
  BY RunSeqs
<1>2. \A k \in 1 .. n : parts[k] = Rows(runs[k]) /\ codes[k] = EncodeRun(runs[k])
  BY <1>1
<1>3. rows = FlattenSeq(parts) /\ RunBytes(runs) = FlattenSeq(codes)
  BY DEF Expand, RunBytes
<1> HIDE DEF parts, codes, rows
<1>4. PICK at : LaidOut(rows, at, parts)
  BY <1>1, <1>3, FlattenLaysOut
<1>5. PICK bt : LaidOut(RunBytes(runs), bt, codes)
  BY <1>1, <1>3, FlattenLaysOut
<1>6. /\ at \in [0 .. n -> Nat] /\ at[0] = 0 /\ at[n] = r
      /\ \A k \in 1 .. n :
           /\ at[k] = at[k - 1] + runs[k].length /\ at[k] <= r
           /\ \A x \in 1 .. runs[k].length : rows[at[k - 1] + x] = runs[k].value
  <2>1. /\ at \in [0 .. n -> Nat] /\ at[0] = 0 /\ at[n] = r
        /\ \A k \in 1 .. n :
             /\ at[k] = at[k - 1] + Len(parts[k]) /\ at[k] <= r
             /\ \A x \in 1 .. Len(parts[k]) : rows[at[k - 1] + x] = parts[k][x]
    BY <1>1, <1>4 DEF LaidOut
  <2>2. \A k \in 1 .. n : Len(parts[k]) = runs[k].length
    BY <1>1, <1>2, RunFacts
  <2>3. \A k \in 1 .. n : \A x \in 1 .. runs[k].length : parts[k][x] = runs[k].value
    BY <1>2 DEF Rows
  <2>4. ASSUME NEW k \in 1 .. n
        PROVE  /\ at[k] = at[k - 1] + runs[k].length /\ at[k] <= r
               /\ \A x \in 1 .. runs[k].length : rows[at[k - 1] + x] = runs[k].value
    BY ZenonT(60), <2>1, <2>2, <2>3
  <2>. QED BY <2>1, <2>4
<1>7. /\ bt \in [0 .. n -> Nat] /\ bt[0] = 0 /\ bt[n] = Len(RunBytes(runs))
      /\ \A k \in 1 .. n : bt[k] = bt[k - 1] + RunLen(runs[k].value)
  <2>1. /\ bt \in [0 .. n -> Nat] /\ bt[0] = 0 /\ bt[n] = Len(RunBytes(runs))
        /\ \A k \in 1 .. n : bt[k] = bt[k - 1] + Len(codes[k])
    BY <1>1, <1>5 DEF LaidOut
  <2>2. \A k \in 1 .. n : Len(codes[k]) = RunLen(runs[k].value)
    BY <1>1, <1>2, RunFacts
  <2>. QED BY <2>1, <2>2
<1>8. PICK g \in [0 .. r -> Seq(RunsType)] :
        /\ g[0] = <<>> /\ g[r] = Runs(rows)
        /\ \A k \in 1 .. r : g[k] = RunsStep(g[k - 1], rows[k])
  BY <1>1, RunsPass
<1>9. r \in Nat
  BY <1>1
<1> HIDE DEF r, n
<1> DEFINE c(j) == Len(g[j])
           b(j) == Len(RunBytes(g[j]))
<1>10. ASSUME NEW j \in 0 .. r PROVE c(j) \in Nat /\ b(j) \in Nat /\ g[j] \in Seq(RunsType)
  <2>1. g[j] \in Seq(RunsType)
    OBVIOUS
  <2>2. RunBytes(g[j]) \in Seq(Nat)
    BY <2>1, RunSeqs
  <2>. QED BY <2>1, <2>2
<1>11. ASSUME NEW j \in 1 .. r, NEW v \in Cells, rows[j] = v
       PROVE  /\ EndsWith(g[j], v)
              /\ EndsWith(g[j - 1], v) => c(j) = c(j - 1) /\ b(j) = b(j - 1)
              /\ ~EndsWith(g[j - 1], v) => c(j) = c(j - 1) + 1 /\ b(j) = b(j - 1) + RunLen(v)
  <2>1. g[j - 1] \in Seq(RunsType) /\ g[j] = RunsStep(g[j - 1], v)
    BY <1>8, <1>9, <1>11
  <2> DEFINE prev == g[j - 1]
             next == g[j]
  <2>2. prev \in Seq(RunsType) /\ next = RunsStep(prev, v)
    BY <2>1
  <2> HIDE DEF prev, next
  <2>3. /\ EndsWith(next, v)
        /\ EndsWith(prev, v) => Len(next) = Len(prev) /\ Len(RunBytes(next)) = Len(RunBytes(prev))
        /\ ~EndsWith(prev, v) => Len(next) = Len(prev) + 1 /\ Len(RunBytes(next)) = Len(RunBytes(prev)) + RunLen(v)
    BY <2>2, RunsStepFacts
  <2>. QED BY <2>3 DEF prev, next
<1> HIDE DEF c, b
<1> DEFINE K == {k \in 0 .. n : c(at[k]) <= k /\ b(at[k]) <= bt[k]}
<1>12. 0 \in K
  <2>1. RunBytes(<<>>) = <<>>
    <3> DEFINE e == <<>>
    <3>1. DOMAIN e = {}
      OBVIOUS
    <3>2. [k \in DOMAIN e |-> EncodeRun(e[k])] = <<>>
      OBVIOUS
    <3>. QED BY <3>2, FlattenEmpty DEF RunBytes
  <2>2. c(0) = 0 /\ b(0) = 0
    BY <1>8, <2>1 DEF c, b
  <2>. QED BY <1>1, <1>6, <1>7, <2>2
<1>13. ASSUME NEW k \in 1 .. n, k - 1 \in K PROVE k \in K
  <2> DEFINE s == at[k - 1]
             l == runs[k].length
             v == runs[k].value
             d == RunLen(v)
             M == {m \in 0 .. l : m # 0 => EndsWith(g[s + m], v) /\ c(s + m) <= c(s) + 1 /\ b(s + m) <= b(s) + d}
  <2>1. k - 1 \in 0 .. n /\ k \in 0 .. n
    BY <1>1
  <2>2. s \in Nat /\ l \in Nat \ {0} /\ v \in Cells /\ d \in Nat /\ at[k] = s + l /\ s + l <= r
    <3>1. s \in Nat
      BY <1>6, <2>1
    <3>2. l \in Nat \ {0} /\ v \in Cells
      BY <1>1, RunFacts
    <3>3. at[k] = s + l /\ at[k] <= r
      BY <1>6
    <3>. QED BY <3>1, <3>2, <3>3 DEF RunLen
  <2>3. \A x \in 1 .. l : rows[s + x] = v
    BY <1>6
  <2> HIDE DEF s, l, v, d
  <2>4. 0 \in M
    BY <2>2
  <2>5. ASSUME NEW m \in 1 .. l, m - 1 \in M PROVE m \in M
    <3>1. /\ s + m \in 1 .. r /\ (s + m) - 1 = s + (m - 1) /\ s \in 0 .. r /\ s + m \in 0 .. r
          /\ s + (m - 1) \in 0 .. r
      BY <1>9, <2>2
    <3>2. /\ EndsWith(g[s + m], v)
          /\ EndsWith(g[s + (m - 1)], v) => c(s + m) = c(s + (m - 1)) /\ b(s + m) = b(s + (m - 1))
          /\ ~EndsWith(g[s + (m - 1)], v) => c(s + m) = c(s + (m - 1)) + 1 /\ b(s + m) = b(s + (m - 1)) + d
      BY <1>11, <2>2, <2>3, <3>1 DEF d
    <3>3. c(s) \in Nat /\ b(s) \in Nat /\ c(s + m) \in Nat /\ b(s + m) \in Nat
      BY <1>10, <3>1
    <3>4. c(s + m) <= c(s) + 1 /\ b(s + m) <= b(s) + d
      <4>1. CASE m = 1
        <5>1. s + (m - 1) = s
          BY <2>2, <4>1
        <5>. QED BY <2>2, <3>2, <3>3, <5>1
      <4>2. CASE m # 1
        <5>1. m - 1 # 0
          BY <4>2
        <5>2. /\ EndsWith(g[s + (m - 1)], v) /\ c(s + (m - 1)) <= c(s) + 1
              /\ b(s + (m - 1)) <= b(s) + d
          BY <2>5, <5>1
        <5>. QED BY <3>2, <5>2
      <4>. QED BY <4>1, <4>2
    <3>5. m \in 0 .. l
      BY <2>2
    <3>. QED BY <3>2, <3>4, <3>5
  <2>6. l \in M
    <3> HIDE DEF M
    <3>1. 0 .. l \subseteq M
      BY <2>2, <2>4, <2>5, InductionUpTo
    <3>. QED BY <2>2, <3>1
  <2>7. c(at[k]) <= c(s) + 1 /\ b(at[k]) <= b(s) + d
    BY <2>2, <2>6
  <2>8. c(s) <= k - 1 /\ b(s) <= bt[k - 1]
    BY <1>13 DEF s
  <2>9. bt[k] = bt[k - 1] + d /\ bt[k - 1] \in Nat /\ bt[k] \in Nat
    BY <1>7, <2>1 DEF d, v
  <2>10. s \in 0 .. r /\ at[k] \in 0 .. r
    BY <1>9, <2>2
  <2>11. c(s) \in Nat /\ b(s) \in Nat /\ c(at[k]) \in Nat /\ b(at[k]) \in Nat
    BY <1>10, <2>10
  <2>12. c(at[k]) <= k /\ b(at[k]) <= bt[k]
    <3> DEFINE x == bt[k - 1]
               y == bt[k]
    <3>1. b(s) <= x /\ y = x + d /\ x \in Nat /\ y \in Nat
      BY <2>8, <2>9
    <3> HIDE DEF x, y
    <3>2. c(at[k]) <= k /\ b(at[k]) <= y
      BY <2>2, <2>7, <2>8, <2>11, <3>1
    <3>. QED BY <3>2 DEF y
  <2>. QED BY <2>1, <2>12
<1>14. n \in K
  <2> HIDE DEF K
  <2>1. 0 .. n \subseteq K
    BY <1>1, <1>12, <1>13, InductionUpTo
  <2>. QED BY <1>1, <2>1
<1>15. c(r) <= n /\ b(r) <= Len(RunBytes(runs))
  BY <1>6, <1>7, <1>14
<1>. QED BY <1>8, <1>15 DEF c, b, n, rows

(***************************************************************************)
(* NullableI64RlePayloadCodec.                                             *)
(***************************************************************************)
\* The bytes of runs are bytes when their rows fit a word.
LEMMA RunBytesFit ==
  ASSUME NEW runs \in Seq(RunsType), Len(Expand(runs)) <= WordMax
  PROVE  RunBytes(runs) \in Seq(Bytes)
<1>2. \A k \in 1 .. Len(runs) : EncodeRun(runs[k]) \in Seq(Bytes)
  <2> SUFFICES ASSUME NEW k \in 1 .. Len(runs) PROVE EncodeRun(runs[k]) \in Seq(Bytes)
    OBVIOUS
  <2> DEFINE l == runs[k].length
             x == Len(Expand(runs))
  <2>1. runs[k] \in RunsType
    OBVIOUS
  <2>2. l <= x /\ l \in Nat
    BY <2>1, RunsWithin, RunFacts
  <2>3. x \in Nat /\ x <= WordMax
    <3>1. Expand(runs) \in Seq(Cells)
      BY RunSeqs
    <3>. QED BY <3>1
  <2> HIDE DEF l, x
  <2>4. l <= WordMax
    BY <2>2, <2>3, BaseFacts
  <2>. QED BY <2>1, <2>4, RunFacts DEF l
<1>3. [k \in DOMAIN runs |-> EncodeRun(runs[k])] \in Seq(Seq(Bytes))
  <2>1. DOMAIN runs = 1 .. Len(runs) /\ Len(runs) \in Nat
    OBVIOUS
  <2>. QED BY <1>2, <2>1
<1>. QED BY <1>3, FlattenLaysOut DEF RunBytes

\* The magic, the version and the two counts.
RleFixed == <<Magic, Version>>
RleHeaded(p, count, runs) == p[1] = Magic /\ p[2] = Version /\ WordAt(p, 2) = count /\ WordAt(p, 4) = runs
RleHead(count, runs) == RleFixed \o Word(count) \o Word(runs)

(* The parts of the run-length header are where the decoder looks for them. *)
LEMMA RleHeadParts ==
  ASSUME NEW count \in 0 .. WordMax, NEW runs \in 0 .. WordMax, NEW tail \in Seq(Bytes)
  PROVE  /\ RleHead(count, runs) \in Seq(Bytes) /\ Len(RleHead(count, runs)) = RleHeaderLen
         /\ RleHeaded(RleHead(count, runs) \o tail, count, runs)
<1> DEFINE a == RleFixed
           b == Word(count)
           c == Word(runs)
           h2 == a \o b
           h3 == h2 \o c
<1>1. a \in Seq(Bytes) /\ Len(a) = 2 /\ a[1] = Magic /\ a[2] = Version
  <2>1. {0, 1} \subseteq Bytes
    BY BaseFacts DEF Bytes
  <2>. QED BY <2>1 DEF RleFixed, Magic, Version
<1>2. b \in Seq(Bytes) /\ Len(b) = 2 /\ c \in Seq(Bytes) /\ Len(c) = 2
  BY WordBytes
<1>3. RleHead(count, runs) = h3
  BY DEF RleHead
<1> HIDE DEF a, b, c
<1>4. h2 \in Seq(Bytes) /\ Len(h2) = 4 /\ Holds(h2, 0, a) /\ Holds(h2, 2, b)
  <2>0. a \in Seq(Bytes) /\ b \in Seq(Bytes)
    BY <1>1, <1>2
  <2>1. h2 \in Seq(Bytes) /\ Len(h2) = Len(a) + Len(b)
    BY <2>0, ConcatAt
  <2>2. Holds(h2, Len(a), b)
    BY <2>0, HoldsLast
  <2>3. Holds(a, 0, a)
    BY <1>1 DEF Holds
  <2>4. Holds(h2, 0, a)
    BY <2>0, <2>3, HoldsLater
  <2>. QED BY <1>1, <1>2, <2>1, <2>2, <2>4
<1> HIDE DEF h2
<1>5. h3 \in Seq(Bytes) /\ Len(h3) = 6 /\ Holds(h3, 0, a) /\ Holds(h3, 2, b) /\ Holds(h3, 4, c)
  <2>0. h2 \in Seq(Bytes) /\ c \in Seq(Bytes) /\ a \in Seq(Bytes) /\ b \in Seq(Bytes) /\ 2 \in Nat
    BY <1>1, <1>2, <1>4
  <2>1. h3 \in Seq(Bytes) /\ Len(h3) = Len(h2) + Len(c)
    BY <2>0, ConcatAt
  <2>2. Holds(h3, Len(h2), c)
    BY <2>0, HoldsLast
  <2>3. Holds(h3, 0, a) /\ Holds(h3, 2, b)
    BY <1>4, <2>0, HoldsLater
  <2>. QED BY <1>2, <1>4, <2>1, <2>2, <2>3
<1> HIDE DEF h3
<1> DEFINE p == h3 \o tail
<1>6. p[1] = Magic /\ p[2] = Version /\ WordAt(p, 2) = count /\ WordAt(p, 4) = runs
  <2>0. /\ h3 \in Seq(Bytes) /\ c \in Seq(Bytes) /\ a \in Seq(Bytes) /\ b \in Seq(Bytes)
        /\ 2 \in Nat /\ 4 \in Nat
    BY <1>1, <1>2, <1>5
  <2>1. p \in Seq(Bytes)
    BY <2>0, ConcatAt
  <2>2. Holds(p, 0, a) /\ Holds(p, 2, b) /\ Holds(p, 4, c)
    BY <1>5, <2>0, HoldsLater
  <2> HIDE DEF p
  <2>3. p[0 + 1] = a[1] /\ p[0 + 2] = a[2]
    <3>1. 1 \in 1 .. Len(a) /\ 2 \in 1 .. Len(a)
      BY <1>1
    <3>. QED BY <2>2, <3>1 DEF Holds
  <2>4. WordAt(p, 2) = count /\ WordAt(p, 4) = runs
    BY <2>0, <2>1, <2>2, WordReadBack DEF b, c
  <2>5. 0 + 1 = 1 /\ 0 + 2 = 2
    OBVIOUS
  <2>. QED BY <1>1, <2>3, <2>4, <2>5
<1>7. p = RleHead(count, runs) \o tail
  BY <1>3
<1>8. Len(h3) = RleHeaderLen
  BY <1>5 DEF RleHeaderLen, WordLen
<1> HIDE DEF p
<1>9. RleHeaded(p, count, runs)
  BY <1>6 DEF RleHeaded
<1>. QED BY <1>3, <1>5, <1>7, <1>8, <1>9

\* What the decoder of run-length payloads yields, case by case.
LEMMA DecodeRleIs ==
  ASSUME NEW lim, NEW p, NEW declared, NEW runs, NEW all,
         declared = WordAt(p, 2), runs = WordAt(p, 4), all = ScanRuns(p, runs)
  PROVE  DecodeRle(lim, p) =
           IF Len(p) > lim.max_payload_len \/ Len(p) < RleHeaderLen THEN Error
           ELSE IF p[1] # Magic \/ p[2] # Version THEN Error
           ELSE IF declared > lim.max_rows \/ runs > lim.max_runs THEN Error
           ELSE IF RleHeaderLen + runs * RunHeaderLen > lim.max_payload_len THEN Error
           ELSE IF all.status # "ok" \/ all.count > lim.max_rows \/ all.count # declared THEN Error
           ELSE IF Len(p) > all.offset THEN Error
           ELSE Ok(Expand(all.runs))
<1>1. 2 + WordLen = 4
  BY DEF WordLen
<1>. QED BY <1>1 DEF DecodeRle, Expand, Rows

\* What the encoder yields.
LEMMA EncodeRleIs ==
  ASSUME NEW lim, NEW rows
  PROVE  LET runs == Runs(rows)
             p == RleHead(Len(rows), Len(runs)) \o RunBytes(runs)
         IN  EncodeRle(lim, rows) =
               IF Len(rows) > lim.max_rows \/ Len(runs) > lim.max_runs \/ Len(p) > lim.max_payload_len
               THEN Error ELSE Ok(p)
BY DEF EncodeRle, RleHead, RleFixed, RunBytes

\* The runs of rows are within a word, and so are their bytes.
LEMMA RunsFit ==
  ASSUME NEW rows \in Seq(Cells), Len(rows) <= WordMax
  PROVE  /\ Runs(rows) \in Seq(RunsType) /\ Expand(Runs(rows)) = rows
         /\ Len(rows) \in 0 .. WordMax /\ Len(Runs(rows)) \in 0 .. WordMax
         /\ 3 * Len(Runs(rows)) <= Len(RunBytes(Runs(rows)))
<1> DEFINE n == Len(rows)
           runs == Runs(rows)
           m == Len(runs)
<1>1. runs \in Seq(RunsType) /\ Expand(runs) = rows
  BY RunsExpand
<1>2. m <= Len(Expand(runs)) /\ 3 * m <= Len(RunBytes(runs))
  BY <1>1, RunsWithin
<1>3. n \in Nat /\ m \in Nat
  BY <1>1
<1>4. m <= n
  BY <1>1, <1>2
<1> HIDE DEF m, n
<1>5. n <= WordMax
  BY DEF n
<1>6. n \in 0 .. WordMax /\ m \in 0 .. WordMax
  BY <1>3, <1>4, <1>5, BaseFacts
<1>. QED BY <1>1, <1>2, <1>6 DEF m, n

(* NullableI64RlePayloadCodec reads back the rows it wrote. *)
THEOREM RleRoundTrip ==
  ASSUME NEW lim \in LimitsType, NEW rows \in Seq(Cells), Len(rows) <= WordMax,
         IsOk(EncodeRle(lim, rows))
  PROVE  /\ EncodeRle(lim, rows).value \in Seq(Bytes)
         /\ DecodeRle(lim, EncodeRle(lim, rows).value) = Ok(rows)
<1> DEFINE n == Len(rows)
           runs == Runs(rows)
           m == Len(runs)
           head == RleHead(n, m)
           tail == RunBytes(runs)
           p == head \o tail
           all == ScanRuns(p, m)
           lp == Len(p)
           lt == Len(tail)
<1>1. /\ runs \in Seq(RunsType) /\ Expand(runs) = rows
      /\ n \in 0 .. WordMax /\ m \in 0 .. WordMax /\ 3 * m <= lt
  BY RunsFit
<1>2. /\ ~(n > lim.max_rows \/ m > lim.max_runs \/ lp > lim.max_payload_len)
      /\ EncodeRle(lim, rows) = Ok(p)
  <2>1. EncodeRle(lim, rows) =
           IF n > lim.max_rows \/ m > lim.max_runs \/ lp > lim.max_payload_len THEN Error ELSE Ok(p)
    BY EncodeRleIs
  <2> HIDE DEF n, m, lp, p
  <2>. QED BY <2>1, OkFacts
<1>3a. tail \in Seq(Bytes)
  BY <1>1, RunBytesFit
<1>3. head \in Seq(Bytes) /\ Len(head) = RleHeaderLen
  BY <1>1, <1>3a, RleHeadParts
<1>4. p \in Seq(Bytes) /\ lp = RleHeaderLen + lt /\ all = RunScan(lp, n, runs)
  <2>1. Len(Expand(runs)) <= WordMax /\ Len(Expand(runs)) = n
    BY <1>1
  <2> HIDE DEF head, n
  <2>. QED BY <1>1, <1>3, <2>1, ScanRunsReads
<1>5. tail \in Seq(Bytes)
  BY <1>3a
<1>6. p[1] = Magic /\ p[2] = Version /\ WordAt(p, 2) = n /\ WordAt(p, 4) = m
  <2>1. n \in 0 .. WordMax /\ m \in 0 .. WordMax /\ tail \in Seq(Bytes)
    BY <1>1, <1>5
  <2>2. p = RleHead(n, m) \o tail
    OBVIOUS
  <2> HIDE DEF n, m, tail, p
  <2>3. RleHeaded(RleHead(n, m) \o tail, n, m)
    BY <2>1, RleHeadParts
  <2>. QED BY <2>2, <2>3 DEF RleHeaded
<1>7. /\ lim.max_rows \in Nat /\ lim.max_runs \in Nat /\ lim.max_payload_len \in Nat
      /\ n \in Nat /\ m \in Nat /\ lp \in Nat /\ lt \in Nat /\ RleHeaderLen = 6 /\ RunHeaderLen = 3
  <2>1. n \in Nat /\ m \in Nat
    BY <1>1, BaseFacts
  <2>2. lp \in Nat
    BY <1>4
  <2>3. lt \in Nat
    BY <1>5
  <2>. QED BY <2>1, <2>2, <2>3 DEF LimitsType, RleHeaderLen, RunHeaderLen, WordLen
<1> HIDE DEF p, all, n, m, lt, runs
<1>8. all.status = "ok" /\ all.count = n /\ all.offset = lp /\ all.runs = runs
  BY <1>4 DEF RunScan
<1>9. /\ ~(lp > lim.max_payload_len \/ lp < RleHeaderLen) /\ ~(n > lim.max_rows \/ m > lim.max_runs)
      /\ ~(RleHeaderLen + m * RunHeaderLen > lim.max_payload_len) /\ ~(lp > lp)
  <2> HIDE DEF lp
  <2>. QED BY <1>1, <1>2, <1>4, <1>7
<1>10. DecodeRle(lim, p) =
           IF lp > lim.max_payload_len \/ lp < RleHeaderLen THEN Error
           ELSE IF p[1] # Magic \/ p[2] # Version THEN Error
           ELSE IF n > lim.max_rows \/ m > lim.max_runs THEN Error
           ELSE IF RleHeaderLen + m * RunHeaderLen > lim.max_payload_len THEN Error
           ELSE IF all.status # "ok" \/ all.count > lim.max_rows \/ all.count # n THEN Error
           ELSE IF lp > all.offset THEN Error
           ELSE Ok(Expand(all.runs))
  <2>1. all = ScanRuns(p, m)
    BY DEF all
  <2>. QED BY <1>6, <2>1, DecodeRleIs
<1>11. DecodeRle(lim, p) = Ok(rows)
  <2> HIDE DEF lp
  <2>. QED BY <1>1, <1>6, <1>8, <1>9, <1>10
<1>. QED BY <1>2, <1>4, <1>11, OkFacts

\* A run-length payload, whatever its bytes, that is decoded: the rows can be
\* encoded again under the same limits, to no more bytes.
THEOREM RleAccepts ==
  ASSUME NEW lim \in LimitsType, NEW p \in Seq(Bytes), IsOk(DecodeRle(lim, p))
  PROVE  \E rows \in Seq(Cells) :
           /\ DecodeRle(lim, p) = Ok(rows)
           /\ IsOk(EncodeRle(lim, rows)) /\ Len(EncodeRle(lim, rows).value) <= Len(p)
<1> DEFINE declared == WordAt(p, 2)
           m == WordAt(p, 4)
           all == ScanRuns(p, m)
           lp == Len(p)
<1>1. /\ ~(lp > lim.max_payload_len \/ lp < RleHeaderLen)
      /\ ~(declared > lim.max_rows \/ m > lim.max_runs)
      /\ ~(all.status # "ok" \/ all.count > lim.max_rows \/ all.count # declared)
      /\ ~(lp > all.offset) /\ DecodeRle(lim, p) = Ok(Expand(all.runs))
  <2>1. DecodeRle(lim, p) =
           IF lp > lim.max_payload_len \/ lp < RleHeaderLen THEN Error
           ELSE IF p[1] # Magic \/ p[2] # Version THEN Error
           ELSE IF declared > lim.max_rows \/ m > lim.max_runs THEN Error
           ELSE IF RleHeaderLen + m * RunHeaderLen > lim.max_payload_len THEN Error
           ELSE IF all.status # "ok" \/ all.count > lim.max_rows \/ all.count # declared THEN Error
           ELSE IF lp > all.offset THEN Error
           ELSE Ok(Expand(all.runs))
    BY DecodeRleIs
  <2> HIDE DEF declared, m, all, lp
  <2>. QED BY <2>1, OkFacts
<1>2. lp \in Nat /\ RleHeaderLen = 6
  BY DEF RleHeaderLen, WordLen
<1>3. m \in 0 .. WordMax /\ RleHeaderLen <= lp
  <2>1. RleHeaderLen <= lp
    BY <1>1, <1>2
  <2>2. 4 + 2 <= Len(p)
    BY <1>2, <2>1
  <2>. QED BY <2>1, <2>2, WordInside
<1>4. m \in Nat
  BY <1>3, BaseFacts
<1>5. PICK D \in Seq(RunsType) :
          /\ Len(D) = m /\ Len(Expand(D)) <= WordMax /\ RleHeaderLen + Len(RunBytes(D)) <= lp
          /\ all = RunScan(RleHeaderLen + Len(RunBytes(D)), Len(Expand(D)), D)
  <2> HIDE DEF m
  <2>. QED BY <1>1, <1>3, <1>4, ScanRunsYields
<1> DEFINE rows == Expand(D)
           runs == Runs(rows)
           n == Len(rows)
           u == Len(RunBytes(D))
           w == Len(RunBytes(runs))
           k == Len(runs)
           again == RleHead(n, k) \o RunBytes(runs)
           la == Len(again)
<1>6. rows \in Seq(Cells) /\ RunBytes(D) \in Seq(Nat)
  BY RunSeqs
<1>7. k <= m /\ w <= u
  BY <1>5, RunsAreShortest
<1>8. runs \in Seq(RunsType) /\ n \in 0 .. WordMax /\ k \in 0 .. WordMax /\ Expand(runs) = rows
  BY <1>5, <1>6, RunsFit
<1>9. all.status = "ok" /\ all.runs = D /\ all.count = n
  BY <1>5 DEF RunScan
<1>10. RunBytes(runs) \in Seq(Bytes)
  BY <1>5, <1>8, RunBytesFit
<1>11. u \in Nat /\ w \in Nat /\ n \in Nat /\ k \in Nat
  <2>1. u \in Nat
    BY <1>6
  <2>2. w \in Nat
    BY <1>10
  <2>. QED BY <1>8, <2>1, <2>2, BaseFacts
<1>12. la = RleHeaderLen + w
  <2> DEFINE a == RleHead(n, k)
             b == RunBytes(runs)
  <2>1. a \in Seq(Bytes) /\ Len(a) = RleHeaderLen
    BY <1>8, <1>10, RleHeadParts
  <2>2. a \in Seq(Bytes) /\ b \in Seq(Bytes)
    BY <1>10, <2>1
  <2> HIDE DEF a, b
  <2>3. Len(a \o b) = Len(a) + Len(b)
    BY <2>2, ConcatAt
  <2>. QED BY <2>1, <2>3 DEF a, b
<1>13. EncodeRle(lim, rows) =
           IF n > lim.max_rows \/ k > lim.max_runs \/ la > lim.max_payload_len THEN Error ELSE Ok(again)
  BY EncodeRleIs
<1>14. lim.max_rows \in Nat /\ lim.max_runs \in Nat /\ lim.max_payload_len \in Nat
  BY DEF LimitsType
<1>15. ~(n > lim.max_rows \/ k > lim.max_runs \/ la > lim.max_payload_len) /\ la <= lp
  <2>1. /\ ~(lp > lim.max_payload_len) /\ ~(m > lim.max_runs) /\ ~(n > lim.max_rows)
        /\ RleHeaderLen + u <= lp
    BY <1>1, <1>5, <1>9
  <2> HIDE DEF n, k, la, w, u, lp, m
  <2>. QED BY <1>2, <1>4, <1>7, <1>11, <1>12, <1>14, <2>1
<1>16. EncodeRle(lim, rows) = Ok(again)
  <2> HIDE DEF again, n, k, la
  <2>. QED BY <1>13, <1>15
<1>17. DecodeRle(lim, p) = Ok(rows)
  BY <1>1, <1>9
<1> HIDE DEF again, rows
<1>18. Len(EncodeRle(lim, rows).value) <= Len(p)
  BY <1>15, <1>16, OkFacts
<1>. QED BY <1>6, <1>16, <1>17, <1>18, OkFacts

(***************************************************************************)
(* The files.                                                              *)
(***************************************************************************)
Envelopes == [magic : Nat, version : Nat, length : Nat, checksum : Seq(Bytes), payload : Seq(Bytes)]
Codecs == {"nullable", "rle", "table"}

(* A file that was written: its checksum is of what was saved, and it is    *)
(* the envelope of that as long as nothing altered it.                      *)
FileInv ==
  codec # "none" =>
    /\ codec \in Codecs /\ limits \in CodecLimits /\ table \in Tables
    /\ IsOk(file) =>
         /\ file = Ok(file.value) /\ file.value \in Envelopes
         /\ IsOk(Encode(codec, limits, table))
         /\ file.value.checksum = Encode(codec, limits, table).value
         /\ damage = 0 => EncodeEnvelope(limits, file.value.checksum) = Ok(file.value)

(* The limits of a codec are numbers. *)
LEMMA LimitsTyped ==
  ASSUME NEW l \in CodecLimits
  PROVE  l \in LimitsType
BY PayloadAssumption DEF LimitsType

\* What can be saved is what the round trips are about.
LEMMA TablesStored ==
  ASSUME NEW t \in Tables
  PROVE  /\ StoredTable(t) /\ ValidName(t.name) /\ Len(t.rows) <= t.row_cap
         /\ t.rows \in Seq(Cells) /\ Len(t.rows) <= WordMax /\ Len(t.rows) \in Nat
         /\ t.nullable \in BOOLEAN
         /\ t.nullable \/ \A k \in DOMAIN t.rows : t.rows[k] # Null
<1> DEFINE All == UNION {[1 .. n -> SavedValues \cup {Null}] : n \in 0 .. MaxLength}
<1>1. /\ t = [name |-> t.name, nullable |-> t.nullable, row_cap |-> t.row_cap, rows |-> t.rows]
      /\ t.name \in {<<>>, <<0>>, <<1, 0>>} /\ t.nullable \in BOOLEAN
      /\ t.row_cap \in {MaxLength, MaxLength + 1} /\ t.rows \in All
      /\ t.nullable \/ \A k \in DOMAIN t.rows : t.rows[k] # Null
  <2> HIDE DEF All
  <2>1. t \in [name : {<<>>, <<0>>, <<1, 0>>}, nullable : BOOLEAN, row_cap : {MaxLength, MaxLength + 1}, rows : All]
        /\ (t.nullable \/ \A k \in DOMAIN t.rows : t.rows[k] # Null)
    BY DEF Tables, All
  <2>. QED BY <2>1
<1>2. PICK n \in 0 .. MaxLength : t.rows \in [1 .. n -> SavedValues \cup {Null}]
  BY <1>1
<1>3. MaxLength \in Nat /\ MaxLength + 1 <= WordMax
  BY PayloadAssumption, BaseFacts DEF WordMax
<1>4. SavedValues \cup {Null} \subseteq Cells
  BY PayloadAssumption DEF Cells, WordMax
<1>5. t.rows \in Seq(Cells) /\ Len(t.rows) = n
  <2>1. t.rows \in [1 .. n -> Cells] /\ n \in Nat
    BY <1>2, <1>3, <1>4
  <2>. QED BY <2>1
<1>6. n \in Nat /\ n <= t.row_cap /\ n <= WordMax /\ t.row_cap \in 0 .. WordMax
  <2>1. n \in Nat /\ n <= MaxLength
    BY <1>3
  <2>. QED BY <1>1, <1>3, <2>1, BaseFacts
<1>7. t.name \in Seq(Bytes) /\ Len(t.name) <= WordMax
  <2>1. {0, 1} \subseteq Bytes
    BY BaseFacts DEF Bytes
  <2>2. CASE t.name = <<>>
    BY <2>2, BaseFacts
  <2>3. CASE t.name = <<0>>
    <3>1. <<0>> \in Seq(Bytes) /\ Len(<<0>>) = 1
      BY <2>1
    <3>. QED BY <2>3, <3>1, BaseFacts
  <2>4. CASE t.name = <<1, 0>>
    <3>1. <<1, 0>> \in Seq(Bytes) /\ Len(<<1, 0>>) = 2
      BY <2>1
    <3>. QED BY <2>4, <3>1, BaseFacts
  <2>. QED BY <1>1, <2>2, <2>3, <2>4
<1>8. ValidName(t.name)
  <2>1. Base - 1 # 0 /\ Base - 1 # 1
    BY BaseFacts
  <2>2. CASE t.name = <<>>
    BY <2>2 DEF ValidName
  <2>3. CASE t.name = <<0>>
    <3>1. \A k \in DOMAIN <<0>> : <<0>>[k] = 0
      OBVIOUS
    <3>. QED BY <2>1, <2>3, <3>1 DEF ValidName
  <2>4. CASE t.name = <<1, 0>>
    <3>1. \A k \in DOMAIN <<1, 0>> : <<1, 0>>[k] = 0 \/ <<1, 0>>[k] = 1
      OBVIOUS
    <3>. QED BY <2>1, <2>4, <3>1 DEF ValidName
  <2>. QED BY <1>1, <2>2, <2>3, <2>4
<1>9. StoredTable(t)
  <2>1. Len(t.rows) <= WordMax
    BY <1>5, <1>6
  <2>. QED BY <1>1, <1>5, <1>6, <1>7, <2>1, Zenon DEF StoredTable
<1>. QED BY <1>1, <1>5, <1>6, <1>8, <1>9

\* Each codec reads back what it wrote.
LEMMA CodecRoundTrip ==
  ASSUME NEW c \in Codecs, NEW l \in CodecLimits, NEW t \in Tables, IsOk(Encode(c, l, t))
  PROVE  /\ Encode(c, l, t).value \in Seq(Bytes)
         /\ Decode(c, l, Encode(c, l, t).value) = IF c = "table" THEN Ok(t) ELSE Ok(t.rows)
<1>1. l \in LimitsType
  BY LimitsTyped
<1>2. /\ StoredTable(t) /\ ValidName(t.name) /\ Len(t.rows) <= t.row_cap
      /\ t.rows \in Seq(Cells) /\ Len(t.rows) <= WordMax
  BY TablesStored
<1>3. CASE c = "nullable"
  <2>1. Encode(c, l, t) = EncodeNullable(l, t.rows) /\ \A p : Decode(c, l, p) = DecodeNullable(l, p)
    BY <1>3 DEF Encode, Decode
  <2>2. IsOk(EncodeNullable(l, t.rows))
    BY <2>1
  <2>3. /\ EncodeNullable(l, t.rows).value \in Seq(Bytes)
        /\ DecodeNullable(l, EncodeNullable(l, t.rows).value) = Ok(t.rows)
    BY <1>1, <1>2, <2>2, NullableRoundTrip
  <2>. QED BY <1>3, <2>1, <2>3
<1>4. CASE c = "rle"
  <2>1. Encode(c, l, t) = EncodeRle(l, t.rows) /\ \A p : Decode(c, l, p) = DecodeRle(l, p)
    BY <1>4 DEF Encode, Decode
  <2>2. IsOk(EncodeRle(l, t.rows))
    BY <2>1
  <2>3. /\ EncodeRle(l, t.rows).value \in Seq(Bytes)
        /\ DecodeRle(l, EncodeRle(l, t.rows).value) = Ok(t.rows)
    BY <1>1, <1>2, <2>2, RleRoundTrip
  <2>. QED BY <1>4, <2>1, <2>3
<1>5. CASE c = "table"
  <2>1. Encode(c, l, t) = EncodeTable(l, t) /\ \A p : Decode(c, l, p) = DecodeTable(l, p)
    BY <1>5 DEF Encode, Decode
  <2>2. IsOk(EncodeTable(l, t))
    BY <2>1
  <2>3. EncodeTable(l, t).value \in Seq(Bytes) /\ DecodeTable(l, EncodeTable(l, t).value) = Ok(t)
    BY <1>1, <1>2, <2>2, TableRoundTrip
  <2>. QED BY <1>5, <2>1, <2>3
<1>. QED BY <1>3, <1>4, <1>5 DEF Codecs

(* An envelope that the encoder writes, the decoder opens to the same payload. *)
LEMMA EnvelopeOf ==
  ASSUME NEW l \in LimitsType, NEW p \in Seq(Bytes), IsOk(EncodeEnvelope(l, p))
  PROVE  \E e \in Envelopes :
           /\ EncodeEnvelope(l, p) = Ok(e) /\ e.checksum = p
           /\ DecodeEnvelope(l, e) = Ok(p)
<1> DEFINE e == [magic |-> Magic, version |-> Version, length |-> Len(p), checksum |-> p, payload |-> p]
<1>1. ~(Len(p) > l.max_payload_len \/ Len(p) > WordMax) /\ EncodeEnvelope(l, p) = Ok(e)
  BY OkFacts DEF EncodeEnvelope
<1>2. e \in Envelopes
  BY DEF Envelopes, Magic, Version
<1>3. e.checksum = p /\ e.payload = p /\ e.magic = Magic /\ e.version = Version /\ e.length = Len(p)
  OBVIOUS
<1> HIDE DEF e
<1>4. DecodeEnvelope(l, e) = Ok(p)
  BY <1>1, <1>3 DEF DecodeEnvelope
<1>. QED BY <1>1, <1>2, <1>3, <1>4

\* An envelope that is decoded holds what its checksum was computed from.
LEMMA EnvelopeAccepts ==
  ASSUME NEW l, NEW e, IsOk(DecodeEnvelope(l, e))
  PROVE  DecodeEnvelope(l, e) = Ok(e.checksum)
BY OkFacts DEF DecodeEnvelope

(* No file was written yet. *)
LEMMA InitFile == Init => FileInv
BY DEF Init, FileInv

(* A saved file is the envelope of what its codec wrote. *)
LEMMA SaveFile ==
  ASSUME Save
  PROVE  FileInv'
<1>1. PICK c \in Codecs, l \in CodecLimits, t \in Tables :
         /\ codec' = c /\ limits' = l /\ table' = t
         /\ file' = IF IsOk(Encode(c, l, t)) THEN EncodeEnvelope(l, Encode(c, l, t).value) ELSE NoFile
  BY DEF Save, Codecs
<1>2. SUFFICES ASSUME IsOk(file')
               PROVE  /\ file' = Ok(file'.value) /\ file'.value \in Envelopes
                      /\ IsOk(Encode(c, l, t))
                      /\ file'.value.checksum = Encode(c, l, t).value
                      /\ damage' = 0 => EncodeEnvelope(l, file'.value.checksum) = Ok(file'.value)
  BY <1>1, Zenon DEF FileInv
<1>3. IsOk(Encode(c, l, t)) /\ file' = EncodeEnvelope(l, Encode(c, l, t).value)
  BY <1>1, <1>2, OkFacts DEF NoFile
<1> DEFINE p == Encode(c, l, t).value
<1>4. p \in Seq(Bytes) /\ l \in LimitsType /\ IsOk(EncodeEnvelope(l, p))
  BY <1>2, <1>3, CodecRoundTrip, LimitsTyped
<1> HIDE DEF p
<1>5. PICK e \in Envelopes : EncodeEnvelope(l, p) = Ok(e) /\ e.checksum = p
  BY <1>4, EnvelopeOf
<1>6. file' = Ok(e) /\ file'.value = e
  BY <1>3, <1>5, OkFacts DEF p
<1>. QED BY <1>3, <1>5, <1>6 DEF p

(* An altered payload is still bytes. *)
LEMMA AlteredTyped ==
  ASSUME NEW b \in Seq(Bytes), NEW a \in AlteredBytes(b)
  PROVE  a \in Seq(Bytes)
<1>1. CASE \E k \in DOMAIN b, v \in Bytes : a = [b EXCEPT ![k] = v]
  <2>1. PICK k \in DOMAIN b, v \in Bytes : a = [b EXCEPT ![k] = v]
    BY <1>1
  <2>2. k \in 1 .. Len(b)
    OBVIOUS
  <2>. QED BY <2>1, <2>2
<1>2. CASE \E n \in 0 .. Len(b) : a = SubSeq(b, 1, n)
  <2>1. PICK n \in 0 .. Len(b) : a = SubSeq(b, 1, n)
    BY <1>2
  <2>2. SubSeq(b, 1, n) \in Seq(Bytes)
    OBVIOUS
  <2>. QED BY <2>1, <2>2
<1>3. CASE \E v \in Bytes : a = Append(b, v)
  BY <1>3
<1>4. \/ \E k \in DOMAIN b, v \in Bytes : a = [b EXCEPT ![k] = v]
      \/ \E n \in 0 .. Len(b) : a = SubSeq(b, 1, n)
      \/ \E v \in Bytes : a = Append(b, v)
  BY DEF AlteredBytes
<1>. QED BY <1>1, <1>2, <1>3, <1>4, Zenon

(* Altering a file leaves its checksum what it was. *)
LEMMA AlterFile ==
  ASSUME FileInv, Alter
  PROVE  FileInv'
<1> DEFINE e == file.value
<1>1. /\ codec # "none" /\ damage = 0 /\ damage' = damage + 1
      /\ codec' = codec /\ limits' = limits /\ table' = table
  BY DEF Alter
<1>2. /\ codec \in Codecs /\ limits \in CodecLimits /\ table \in Tables
      /\ file = Ok(e) /\ e \in Envelopes
      /\ IsOk(Encode(codec, limits, table))
      /\ e.checksum = Encode(codec, limits, table).value
  BY DEF Alter, FileInv
<1>3. damage' # 0
  BY <1>1
<1>4. \E f \in Envelopes : file' = Ok(f) /\ f.checksum = e.checksum
  <2>1. e
            = [magic |-> e.magic, version |-> e.version, length |-> e.length, checksum |-> e.checksum, payload |-> e.payload]
        /\ e.magic \in Nat /\ e.version \in Nat /\ e.length \in Nat /\ e.checksum \in Seq(Bytes)
        /\ e.payload \in Seq(Bytes)
    BY <1>2 DEF Envelopes
  <2>2. file = [status |-> "ok", value |-> e]
    BY <1>2 DEF Ok
  <2> HIDE DEF e
  <2>3. ASSUME NEW b \in Seq(Bytes), file' = [file EXCEPT !.value.payload = b]
        PROVE  \E f \in Envelopes : file' = Ok(f) /\ f.checksum = e.checksum
    <3> DEFINE f == [e EXCEPT !.payload = b]
    <3>1. f \in Envelopes /\ f.checksum = e.checksum
      BY <1>2 DEF Envelopes
    <3>2. file' = Ok(f)
      BY <2>2, <2>3 DEF Ok
    <3>. QED BY <3>1, <3>2
  <2>4. ASSUME NEW n \in Nat, file' = [file EXCEPT !.value.magic = n]
        PROVE  \E f \in Envelopes : file' = Ok(f) /\ f.checksum = e.checksum
    <3> DEFINE f == [e EXCEPT !.magic = n]
    <3>1. f \in Envelopes /\ f.checksum = e.checksum
      BY <1>2 DEF Envelopes
    <3>2. file' = Ok(f)
      BY <2>2, <2>4 DEF Ok
    <3>. QED BY <3>1, <3>2
  <2>5. ASSUME NEW n \in Nat, file' = [file EXCEPT !.value.version = n]
        PROVE  \E f \in Envelopes : file' = Ok(f) /\ f.checksum = e.checksum
    <3> DEFINE f == [e EXCEPT !.version = n]
    <3>1. f \in Envelopes /\ f.checksum = e.checksum
      BY <1>2 DEF Envelopes
    <3>2. file' = Ok(f)
      BY <2>2, <2>5 DEF Ok
    <3>. QED BY <3>1, <3>2
  <2>6. ASSUME NEW n \in Nat, file' = [file EXCEPT !.value.length = n]
        PROVE  \E f \in Envelopes : file' = Ok(f) /\ f.checksum = e.checksum
    <3> DEFINE f == [e EXCEPT !.length = n]
    <3>1. f \in Envelopes /\ f.checksum = e.checksum
      BY <1>2 DEF Envelopes
    <3>2. file' = Ok(f)
      BY <2>2, <2>6 DEF Ok
    <3>. QED BY <3>1, <3>2
  <2>7. \/ \E b \in Seq(Bytes) : file' = [file EXCEPT !.value.payload = b]
        \/ \E n \in Nat : file' = [file EXCEPT !.value.magic = n]
        \/ \E n \in Nat : file' = [file EXCEPT !.value.version = n]
        \/ \E n \in Nat : file' = [file EXCEPT !.value.length = n]
    <3>1. {0, 2} \subseteq Nat /\ 0 .. WordMax \subseteq Nat
      BY BaseFacts
    <3>2. \A b \in AlteredBytes(file.value.payload) : b \in Seq(Bytes)
      BY <2>1, AlteredTyped DEF e
    <3>. QED BY <3>1, <3>2, Zenon DEF Alter
  <2>. QED BY <2>3, <2>4, <2>5, <2>6, <2>7
<1>5. PICK f \in Envelopes : file' = Ok(f) /\ f.checksum = e.checksum
  BY <1>4
<1>6. file'.value = f
  BY <1>5, OkFacts
<1> HIDE DEF e
<1>. QED BY <1>1, <1>2, <1>3, <1>5, <1>6 DEF FileInv

(* Every step, and a stutter, keeps the invariant. *)
LEMMA NextFile == FileInv /\ [Next]_payloadVars => FileInv'
<1> SUFFICES ASSUME FileInv, [Next]_payloadVars PROVE FileInv'
  OBVIOUS
<1>1. CASE Save
  BY <1>1, SaveFile
<1>2. CASE Alter
  BY <1>2, AlterFile
<1>3. CASE UNCHANGED payloadVars
  BY <1>3 DEF payloadVars, FileInv
<1>. QED BY <1>1, <1>2, <1>3 DEF Next

\* Rows that are appended to the empty table they were saved from.
LEMMA AppendRestores ==
  ASSUME NEW t \in Tables
  PROVE  /\ AppendBatch([t EXCEPT !.rows = <<>>], t.rows) = Ok(t)
         /\ Len(t.rows) > 1 => ~IsOk(AppendBatch([t EXCEPT !.rows = <<>>, !.row_cap = 1], t.rows))
<1> DEFINE empty == [t EXCEPT !.rows = <<>>]
           small == [t EXCEPT !.rows = <<>>, !.row_cap = 1]
<1>1. t = [name |-> t.name, nullable |-> t.nullable, row_cap |-> t.row_cap, rows |-> t.rows]
  BY TablesStored, Zenon DEF StoredTable
<1>2. /\ Len(t.rows) <= t.row_cap /\ Len(t.rows) \in Nat /\ t.row_cap \in Nat
      /\ t.nullable \/ \A k \in DOMAIN t.rows : t.rows[k] # Null
  BY TablesStored, BaseFacts DEF StoredTable
<1>3. empty = [name |-> t.name, nullable |-> t.nullable, row_cap |-> t.row_cap, rows |-> <<>>]
  BY <1>1
<1>4. small.row_cap = 1
  BY <1>1
<1>5. [empty EXCEPT !.rows = t.rows] = t
  BY <1>1, <1>3
<1> HIDE DEF small
<1>6. AppendBatch(empty, t.rows) = Ok(t)
  <2>1. empty.row_cap = t.row_cap /\ empty.nullable = t.nullable
    BY <1>3
  <2> HIDE DEF empty
  <2>2. ~(Len(t.rows) > empty.row_cap \/ (~empty.nullable /\ \E k \in DOMAIN t.rows : t.rows[k] = Null))
    BY <1>2, <2>1
  <2>. QED BY <1>5, <2>2 DEF AppendBatch
<1>7. Len(t.rows) > 1 => ~IsOk(AppendBatch(small, t.rows))
  BY <1>4, OkFacts DEF AppendBatch
<1>. QED BY <1>6, <1>7 DEF small

(* A file is read back as the table it was saved from, or refused if it was altered. *)
LEMMA FileRoundTrips == FileInv => SnapshotsRoundTrip
<1> SUFFICES ASSUME FileInv, codec # "none", IsOk(file)
             PROVE  LET same  == Restore(codec, limits, [table EXCEPT !.rows = <<>>], file.value)
                        small == Restore(codec, limits, [table EXCEPT !.rows = <<>>, !.row_cap = 1], file.value)
                    IN  /\ IF damage = 0 THEN same = Ok(table) ELSE IsOk(same) => same = Ok(table)
                        /\ codec # "table" /\ Len(table.rows) > 1 => ~IsOk(small)
  BY Zenon DEF SnapshotsRoundTrip
<1> DEFINE e == file.value
           p == e.checksum
           empty == [table EXCEPT !.rows = <<>>]
           tiny == [table EXCEPT !.rows = <<>>, !.row_cap = 1]
           same == Restore(codec, limits, empty, e)
           small == Restore(codec, limits, tiny, e)
<1>1. /\ codec \in Codecs /\ limits \in CodecLimits /\ table \in Tables
      /\ e \in Envelopes /\ IsOk(Encode(codec, limits, table))
      /\ p = Encode(codec, limits, table).value
      /\ damage = 0 => EncodeEnvelope(limits, p) = Ok(e)
  BY DEF FileInv
<1>2. /\ p \in Seq(Bytes)
      /\ Decode(codec, limits, p) = IF codec = "table" THEN Ok(table) ELSE Ok(table.rows)
  BY <1>1, CodecRoundTrip
<1>3. /\ AppendBatch(empty, table.rows) = Ok(table)
      /\ Len(table.rows) > 1 => ~IsOk(AppendBatch(tiny, table.rows))
  BY <1>1, AppendRestores
<1> HIDE DEF empty, tiny
<1> DEFINE opened == DecodeEnvelope(limits, e)
<1>4. damage = 0 => opened = Ok(p)
  <2> SUFFICES ASSUME damage = 0 PROVE opened = Ok(p)
    OBVIOUS
  <2>1. EncodeEnvelope(limits, p) = Ok(e) /\ limits \in LimitsType
    BY <1>1, LimitsTyped
  <2>2. IsOk(EncodeEnvelope(limits, p))
    BY <2>1, OkFacts
  <2>3. PICK f \in Envelopes : EncodeEnvelope(limits, p) = Ok(f) /\ DecodeEnvelope(limits, f) = Ok(p)
    BY <1>2, <2>1, <2>2, EnvelopeOf
  <2>4. f = e
    BY <2>1, <2>3, OkFacts
  <2>. QED BY <2>3, <2>4
<1>5. IsOk(opened) => opened = Ok(p)
  BY EnvelopeAccepts
<1>6. ASSUME NEW t
      PROVE  Restore(codec, limits, t, e) =
               IF ~IsOk(opened) THEN Error
               ELSE IF ~IsOk(Decode(codec, limits, opened.value))
                   \/ codec = "table" THEN Decode(codec, limits, opened.value)
               ELSE AppendBatch(t, Decode(codec, limits, opened.value).value)
  BY DEF Restore
<1> HIDE DEF opened, e
<1>7. ASSUME NEW t, IsOk(opened)
      PROVE  Restore(codec, limits, t, e)
          = IF codec = "table" THEN Ok(table) ELSE AppendBatch(t, table.rows)
  <2>1. opened.value = p
    BY <1>5, <1>7, OkFacts
  <2> DEFINE d == Decode(codec, limits, p)
  <2>2. d = IF codec = "table" THEN Ok(table) ELSE Ok(table.rows)
    BY <1>2
  <2>3. Restore(codec, limits, t, e) = IF ~IsOk(d) \/ codec = "table" THEN d ELSE AppendBatch(t, d.value)
    BY <1>6, <1>7, <2>1
  <2> HIDE DEF d
  <2>. QED BY <2>2, <2>3, OkFacts
<1>8. ASSUME NEW t, ~IsOk(opened) PROVE Restore(codec, limits, t, e) = Error
  BY <1>6, <1>8
<1>9. IsOk(opened) => same = Ok(table)
  BY <1>3, <1>7
<1>10. ~IsOk(opened) => ~IsOk(same) /\ ~IsOk(small)
  BY <1>8, OkFacts
<1>11. damage = 0 => IsOk(opened)
  BY <1>4, OkFacts
<1>12. IsOk(opened) /\ codec # "table" /\ Len(table.rows) > 1 => ~IsOk(small)
  BY <1>3, <1>7
<1> HIDE DEF same, small
<1>13. /\ IF damage = 0 THEN same = Ok(table) ELSE IsOk(same) => same = Ok(table)
       /\ codec # "table" /\ Len(table.rows) > 1 => ~IsOk(small)
  BY <1>9, <1>10, <1>11, <1>12
<1>. QED BY <1>13 DEF same, small, empty, tiny, e

(* Whatever payload is accepted, its codec would write for what it reads. *)
LEMMA FileAccepted == FileInv => AcceptedPayloadsAreMeaningful
<1> DEFINE b == file.value.payload
           d == Decode(codec, limits, b)
           again == Encode(codec, limits, IF codec = "table" THEN d.value ELSE [table EXCEPT !.rows = d.value])
<1> SUFFICES ASSUME FileInv, codec # "none", IsOk(file), IsOk(d)
             PROVE  /\ IsOk(again)
                    /\ IF codec = "rle" THEN Len(again.value) <= Len(b) ELSE again.value = b
                    /\ codec = "table" => /\ Len(d.value.rows) <= d.value.row_cap
                                          /\ d.value.nullable \/ \A k \in DOMAIN d.value.rows : d.value.rows[k] # Null
  BY Zenon DEF AcceptedPayloadsAreMeaningful
<1>1. codec \in Codecs /\ limits \in LimitsType /\ table \in Tables /\ b \in Seq(Bytes)
  <2>1. codec \in Codecs /\ limits \in CodecLimits /\ table \in Tables /\ file.value \in Envelopes
    BY DEF FileInv
  <2>. QED BY <2>1, LimitsTyped DEF Envelopes
<1>2. ASSUME NEW rows PROVE [table EXCEPT !.rows = rows].rows = rows
  <2>1. table
            = [name |-> table.name, nullable |-> table.nullable, row_cap |-> table.row_cap, rows |-> table.rows]
    BY <1>1, TablesStored, Zenon DEF StoredTable
  <2>. QED BY <2>1
<1> HIDE DEF b
<1>3. CASE codec = "nullable"
  <2>1. /\ d = DecodeNullable(limits, b)
        /\ \A t : Encode(codec, limits, t) = EncodeNullable(limits, t.rows)
    BY <1>3 DEF Encode, Decode
  <2>2. PICK rows \in Seq(Cells) : d = Ok(rows) /\ EncodeNullable(limits, rows) = Ok(b)
    BY <1>1, <2>1, NullableAccepts
  <2>3. d.value = rows
    BY <2>2, OkFacts
  <2>4. again = EncodeNullable(limits, [table EXCEPT !.rows = rows].rows)
    BY <1>3, <2>1, <2>3
  <2> HIDE DEF d, again
  <2>. QED BY <1>2, <1>3, <2>2, <2>4, OkFacts
<1>4. CASE codec = "rle"
  <2>1. d = DecodeRle(limits, b) /\ \A t : Encode(codec, limits, t) = EncodeRle(limits, t.rows)
    BY <1>4 DEF Encode, Decode
  <2>2. PICK rows \in Seq(Cells) :
          d = Ok(rows) /\ IsOk(EncodeRle(limits, rows)) /\ Len(EncodeRle(limits, rows).value) <= Len(b)
    BY <1>1, <2>1, RleAccepts
  <2>3. d.value = rows
    BY <2>2, OkFacts
  <2>4. again = EncodeRle(limits, [table EXCEPT !.rows = rows].rows)
    BY <1>4, <2>1, <2>3
  <2> HIDE DEF d, again
  <2>. QED BY <1>2, <1>4, <2>2, <2>4
<1>5. CASE codec = "table"
  <2>1. d = DecodeTable(limits, b) /\ \A t : Encode(codec, limits, t) = EncodeTable(limits, t)
    BY <1>5 DEF Encode, Decode
  <2>2. PICK t : /\ d = Ok(t) /\ EncodeTable(limits, t) = Ok(b)
                 /\ StoredTable(t) /\ Len(t.rows) <= t.row_cap
    BY <1>1, <2>1, TableAccepts
  <2>3. d.value = t
    BY <2>2, OkFacts
  <2>4. again = EncodeTable(limits, t)
    BY <1>5, <2>1, <2>3
  <2>5. t.nullable \/ \A k \in DOMAIN t.rows : t.rows[k] # Null
    BY <2>2 DEF StoredTable
  <2> HIDE DEF d, again
  <2>. QED BY <1>5, <2>2, <2>3, <2>4, <2>5, OkFacts
<1>. QED BY <1>1, <1>3, <1>4, <1>5 DEF Codecs

(* For every word size, every set of values and limits, and tables of any length:
   what was saved is read back, an altered file is refused or means the same, and
   a payload that is accepted is one that the encoder could have written. *)
THEOREM PayloadsStayExact == Spec => []PayloadsAreExact
<1>1. Spec => []FileInv
  BY InitFile, NextFile, PTL DEF Spec
<1>2. FileInv => PayloadsAreExact
  BY FileRoundTrips, FileAccepted DEF PayloadsAreExact
<1>. QED BY <1>1, <1>2, PTL
=============================================================================
