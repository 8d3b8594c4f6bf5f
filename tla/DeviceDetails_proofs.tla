------------------------- MODULE DeviceDetails_proofs -------------------------
(***************************************************************************)
(* Proofs about DeviceDetails and the DeviceCache it runs, for any number  *)
(* of devices and workers, any size and any time to live.                  *)
(***************************************************************************)
EXTENDS DeviceDetails, FiniteSetTheorems, SequenceTheorems, WellFoundedInduction, TLAPS

-----------------------------------------------------------------------------
(* Induction over numbers and sequences, with a set for the predicate *)

\* A set that has 0, and with each number the next, has them all.
LEMMA NumberInduction ==
  ASSUME NEW Good, 0 \in Good, \A n \in Nat : n \in Good => n + 1 \in Good
  PROVE  Nat \subseteq Good
<1> SUFFICES ASSUME Nat \ Good # {} PROVE FALSE
  OBVIOUS
<1>1. PICK n \in Nat \ Good : \A m \in Nat \ Good : ~ (<<m, n>> \in OpToRel(<, Nat))
  BY WFMin, NatLessThanWellFounded
<1>2. ASSUME NEW m \in Nat, m < n PROVE <<m, n>> \in OpToRel(<, Nat)
  BY <1>2, Zenon DEF OpToRel
<1>3. n # 0 /\ n - 1 \in Nat /\ n - 1 < n
  OBVIOUS
<1>4. n - 1 \in Good
  BY <1>1, <1>2, <1>3
<1>5. (n - 1) + 1 = n
  OBVIOUS
<1> QED BY <1>1, <1>3, <1>4, <1>5

\* A set that has <<>>, and with each sequence those one longer, has them all.
LEMMA SequenceInduction ==
  ASSUME NEW S, NEW Good, <<>> \in Good,
         \A s \in Seq(S), e \in S : s \in Good => Append(s, e) \in Good
  PROVE  Seq(S) \subseteq Good
<1> DEFINE Lengths == {n \in Nat : \A s \in Seq(S) : Len(s) = n => s \in Good}
<1>1. 0 \in Lengths
  BY EmptySeq
<1>2. ASSUME NEW n \in Nat, n \in Lengths PROVE n + 1 \in Lengths
  <2> SUFFICES ASSUME NEW s \in Seq(S), Len(s) = n + 1 PROVE s \in Good
    OBVIOUS
  <2>1. s # <<>>
    BY EmptySeq
  <2>2. PICK t \in Seq(S), e \in S : s = Append(t, e)
    BY <2>1, SequenceEmptyOrAppend
  <2>3. Len(t) = n
    BY <2>2, AppendProperties, LenProperties
  <2> QED BY <1>2, <2>2, <2>3
<1>3. Nat \subseteq Lengths
  <2> HIDE DEF Lengths
  <2> QED BY <1>1, <1>2, NumberInduction
<1> QED BY <1>3, LenProperties

-----------------------------------------------------------------------------
(* The recursive function in Only *)

\* The first i elements of s, without those not in K.
Kept(s, K) ==
    CHOOSE f : f = [i \in 0..Len(s) |->
        IF i = 0 THEN <<>>
        ELSE IF s[i] \in K THEN Append(f[i - 1], s[i]) ELSE f[i - 1]]

\* Only, by the function it chooses.
LEMMA OnlyIsKept == ASSUME NEW s, NEW K PROVE Only(s, K) = Kept(s, K)[Len(s)]
BY DEF Only, Kept

\* The function that the recursion describes exists.
LEMMA KeptDefined ==
  ASSUME NEW S, NEW s \in Seq(S), NEW K
  PROVE  /\ Kept(s, K)[0] = <<>>
         /\ \A i \in 1..Len(s) : Kept(s, K)[i] =
              IF s[i] \in K THEN Append(Kept(s, K)[i - 1], s[i]) ELSE Kept(s, K)[i - 1]
<1> DEFINE At(f, i) == IF i = 0 THEN <<>>
                       ELSE IF s[i] \in K THEN Append(f[i - 1], s[i]) ELSE f[i - 1]
           Good == {n \in Nat : \E f : f = [i \in 0..n |-> At(f, i)]}
<1>1. 0 \in Good
  <2> DEFINE g == [i \in 0..0 |-> <<>>]
  <2>1. g = [i \in 0..0 |-> At(g, i)]
    OBVIOUS
  <2> QED BY <2>1
<1>2. ASSUME NEW n \in Nat, n \in Good PROVE n + 1 \in Good
  <2>1. PICK f : f = [i \in 0..n |-> At(f, i)]
    BY <1>2
  <2> DEFINE g == [i \in 0..(n + 1) |-> IF i = n + 1 THEN At(f, i) ELSE f[i]]
  <2>2. \A i \in 0..n : g[i] = f[i]
    OBVIOUS
  <2>3. \A i \in 0..(n + 1) : At(g, i) = At(f, i)
    BY <2>2
  <2>4. \A i \in 0..n : f[i] = At(f, i)
    BY <2>1
  <2>5. \A i \in 0..(n + 1) : (IF i = n + 1 THEN At(f, i) ELSE f[i]) = At(g, i)
    BY <2>3, <2>4
  <2>6. g = [i \in 0..(n + 1) |-> At(g, i)]
    BY <2>5, Zenon
  <2> HIDE DEF g, At
  <2> QED BY <2>6
<1>3. Nat \subseteq Good
  <2> HIDE DEF Good
  <2> QED BY <1>1, <1>2, NumberInduction
<1>4. Len(s) \in Nat
  BY LenProperties
<1>5. \E f : f = [i \in 0..Len(s) |-> At(f, i)]
  BY <1>3, <1>4
<1>6. Kept(s, K) = [i \in 0..Len(s) |-> At(Kept(s, K), i)]
  BY <1>5, Zenon DEF Kept
<1> HIDE DEF Good
<1>7. \A i \in 0..Len(s) : Kept(s, K)[i] = At(Kept(s, K), i)
  <2> HIDE DEF At
  <2> QED BY <1>6
<1> QED BY <1>4, <1>7

-----------------------------------------------------------------------------
(* What Only does to a sequence *)

\* Only of nothing is nothing.
LEMMA OnlyNone == ASSUME NEW K PROVE Only(<<>>, K) = <<>>
BY OnlyIsKept, KeptDefined, EmptySeq

\* One element more is kept or not.
LEMMA OnlyOneMore ==
  ASSUME NEW S, NEW K, NEW s \in Seq(S), NEW e \in S
  PROVE  Only(Append(s, e), K) = IF e \in K THEN Append(Only(s, K), e) ELSE Only(s, K)
<1> DEFINE t == Append(s, e)
           n == Len(s)
           Same == {i \in Nat : i <= n => Kept(t, K)[i] = Kept(s, K)[i]}
<1>1. n \in Nat /\ t \in Seq(S) /\ Len(t) = n + 1 /\ t[n + 1] = e
      /\ \A i \in 1..n : t[i] = s[i]
  BY AppendProperties, LenProperties
<1> HIDE DEF t, n
<1>2. /\ Kept(s, K)[0] = <<>>
      /\ \A i \in 1..n : Kept(s, K)[i] =
           IF s[i] \in K THEN Append(Kept(s, K)[i - 1], s[i]) ELSE Kept(s, K)[i - 1]
  BY KeptDefined DEF n
<1>3. /\ Kept(t, K)[0] = <<>>
      /\ \A i \in 1..(n + 1) : Kept(t, K)[i] =
           IF t[i] \in K THEN Append(Kept(t, K)[i - 1], t[i]) ELSE Kept(t, K)[i - 1]
  BY <1>1, KeptDefined
<1>4. 0 \in Same
  BY <1>2, <1>3
<1>5. ASSUME NEW i \in Nat, i \in Same PROVE i + 1 \in Same
  <2>1. CASE i + 1 <= n
    <3>1. Kept(t, K)[i] = Kept(s, K)[i] /\ i + 1 \in 1..n /\ (i + 1) - 1 = i
      BY <1>1, <1>5, <2>1
    <3>2. Kept(t, K)[i + 1] = Kept(s, K)[i + 1]
      BY <1>1, <1>2, <1>3, <3>1
    <3> QED BY <3>2
  <2> QED BY <2>1
<1>6. n \in Same
  <2> HIDE DEF Same
  <2> QED BY <1>1, <1>4, <1>5, NumberInduction
<1>7. Kept(t, K)[n] = Only(s, K)
  BY <1>1, <1>6, OnlyIsKept DEF n
<1>8. Only(t, K) = Kept(t, K)[n + 1]
  BY <1>1, OnlyIsKept
<1>9. n + 1 \in 1..(n + 1) /\ (n + 1) - 1 = n
  BY <1>1
<1> QED BY <1>1, <1>3, <1>7, <1>8, <1>9 DEF t

\* Only of a sequence is a sequence.
LEMMA OnlyType == ASSUME NEW S, NEW K PROVE \A s \in Seq(S) : Only(s, K) \in Seq(S)
<1> DEFINE Good == {s \in Seq(S) : Only(s, K) \in Seq(S)}
<1>1. <<>> \in Good
  <2>1. Only(<<>>, K) = <<>> /\ <<>> \in Seq(S)
    BY OnlyNone, EmptySeq
  <2> QED BY <2>1
<1>2. ASSUME NEW s \in Seq(S), NEW e \in S, s \in Good PROVE Append(s, e) \in Good
  <2>1. Append(s, e) \in Seq(S)
    BY AppendProperties
  <2>2. Only(Append(s, e), K) = IF e \in K THEN Append(Only(s, K), e) ELSE Only(s, K)
    BY OnlyOneMore
  <2>3. Only(s, K) \in Seq(S)
    BY <1>2
  <2>4. Append(Only(s, K), e) \in Seq(S)
    BY <2>3, AppendProperties
  <2> QED BY <2>1, <2>2, <2>3, <2>4
<1>3. Seq(S) \subseteq Good
  <2> HIDE DEF Good
  <2> QED BY <1>1, <1>2, SequenceInduction
<1> QED BY <1>3

\* The elements of a sequence with one more.
LEMMA AppendedElements ==
  ASSUME NEW S, NEW s \in Seq(S), NEW e \in S
  PROVE  ToSet(Append(s, e)) = ToSet(s) \cup {e}
<1> DEFINE t == Append(s, e)
           n == Len(s)
<1>1. n \in Nat /\ DOMAIN s = 1..n /\ DOMAIN t = 1..(n + 1) /\ t[n + 1] = e
      /\ \A i \in 1..n : t[i] = s[i]
  BY AppendProperties, LenProperties
<1> HIDE DEF t, n
<1>2. ToSet(t) = {t[i] : i \in 1..(n + 1)} /\ ToSet(s) = {s[i] : i \in 1..n}
  BY <1>1 DEF ToSet
<1>3. 1..(n + 1) = 1..n \cup {n + 1}
  BY <1>1
<1>4. ToSet(t) = ToSet(s) \cup {e}
  BY <1>1, <1>2, <1>3
<1> QED BY <1>4 DEF t

\* Only keeps what is in the set, in a sequence that stays injective.
LEMMA OnlyElements ==
  ASSUME NEW S, NEW K
  PROVE  \A s \in Seq(S) : ToSet(Only(s, K)) = ToSet(s) \cap K
<1> DEFINE Good == {s \in Seq(S) : ToSet(Only(s, K)) = ToSet(s) \cap K}
<1>1. <<>> \in Good
  BY OnlyNone, EmptySeq, LenProperties DEF ToSet
<1>2. ASSUME NEW s \in Seq(S), NEW e \in S, s \in Good PROVE Append(s, e) \in Good
  <2>1. Append(s, e) \in Seq(S)
    BY AppendProperties
  <2>2. Only(Append(s, e), K) = IF e \in K THEN Append(Only(s, K), e) ELSE Only(s, K)
    BY OnlyOneMore
  <2>3. Only(s, K) \in Seq(S)
    BY OnlyType
  <2>4. ToSet(Append(s, e)) = ToSet(s) \cup {e}
        /\ ToSet(Append(Only(s, K), e)) = ToSet(Only(s, K)) \cup {e}
    BY <2>3, AppendedElements
  <2>5. ToSet(Only(s, K)) = ToSet(s) \cap K
    BY <1>2
  <2> QED BY <2>1, <2>2, <2>4, <2>5
<1>3. Seq(S) \subseteq Good
  <2> HIDE DEF Good
  <2> QED BY <1>1, <1>2, SequenceInduction
<1> QED BY <1>3

\* One element more keeps a sequence injective exactly if it is new.
LEMMA AppendedInjective ==
  ASSUME NEW S, NEW s \in Seq(S), NEW e \in S
  PROVE  IsInjective(Append(s, e)) <=> IsInjective(s) /\ e \notin ToSet(s)
<1> DEFINE t == Append(s, e)
           n == Len(s)
<1>1. n \in Nat /\ DOMAIN s = 1..n /\ DOMAIN t = 1..(n + 1) /\ t[n + 1] = e
      /\ \A i \in 1..n : t[i] = s[i]
  BY AppendProperties, LenProperties
<1> HIDE DEF t, n
<1>2. ToSet(s) = {s[i] : i \in 1..n}
  BY <1>1 DEF ToSet
<1>3. IsInjective(s) <=> \A i, j \in 1..n : s[i] = s[j] => i = j
  BY <1>1 DEF IsInjective
<1>4. IsInjective(t) <=> \A i, j \in 1..(n + 1) : t[i] = t[j] => i = j
  BY <1>1 DEF IsInjective
<1>5. IsInjective(t) => IsInjective(s) /\ e \notin ToSet(s)
  BY <1>1, <1>2, <1>3, <1>4
<1>6. IsInjective(s) /\ e \notin ToSet(s) => IsInjective(t)
  BY <1>1, <1>2, <1>3, <1>4
<1> QED BY <1>5, <1>6 DEF t

\* A sequence without repetitions has none after others are taken out.
LEMMA OnlyInjective ==
  ASSUME NEW S, NEW K
  PROVE  \A s \in Seq(S) : IsInjective(s) => IsInjective(Only(s, K))
<1> DEFINE Good == {s \in Seq(S) : IsInjective(s) => IsInjective(Only(s, K))}
<1>1. <<>> \in Good
  BY OnlyNone, EmptySeq
<1>2. ASSUME NEW s \in Seq(S), NEW e \in S, s \in Good PROVE Append(s, e) \in Good
  <2>1. Append(s, e) \in Seq(S)
    BY AppendProperties
  <2>2. Only(Append(s, e), K) = IF e \in K THEN Append(Only(s, K), e) ELSE Only(s, K)
    BY OnlyOneMore
  <2>3. Only(s, K) \in Seq(S)
    BY OnlyType
  <2>4. IsInjective(Append(s, e)) <=> IsInjective(s) /\ e \notin ToSet(s)
    BY AppendedInjective
  <2>5. IsInjective(Append(Only(s, K), e))
        <=> IsInjective(Only(s, K)) /\ e \notin ToSet(Only(s, K))
    BY <2>3, AppendedInjective
  <2>6. ToSet(Only(s, K)) = ToSet(s) \cap K
    BY OnlyElements
  <2> QED BY <1>2, <2>1, <2>2, <2>4, <2>5, <2>6
<1>3. Seq(S) \subseteq Good
  <2> HIDE DEF Good
  <2> QED BY <1>1, <1>2, SequenceInduction
<1> QED BY <1>3

\* Two selections are one.
LEMMA OnlyTwice ==
  ASSUME NEW S, NEW K, NEW L
  PROVE  \A s \in Seq(S) : Only(Only(s, K), L) = Only(s, K \cap L)
<1> DEFINE Good == {s \in Seq(S) : Only(Only(s, K), L) = Only(s, K \cap L)}
<1>1. <<>> \in Good
  BY OnlyNone, EmptySeq
<1>2. ASSUME NEW s \in Seq(S), NEW e \in S, s \in Good PROVE Append(s, e) \in Good
  <2>1. Append(s, e) \in Seq(S)
    BY AppendProperties
  <2>2. Only(Append(s, e), K) = IF e \in K THEN Append(Only(s, K), e) ELSE Only(s, K)
    BY OnlyOneMore
  <2>3. Only(s, K) \in Seq(S)
    BY OnlyType
  <2>4. Only(Append(s, e), K \cap L)
        = IF e \in K \cap L THEN Append(Only(s, K \cap L), e) ELSE Only(s, K \cap L)
    BY OnlyOneMore
  <2>5. Only(Append(Only(s, K), e), L)
        = IF e \in L THEN Append(Only(Only(s, K), L), e) ELSE Only(Only(s, K), L)
    BY <2>3, OnlyOneMore
  <2>6. Only(Only(s, K), L) = Only(s, K \cap L)
    BY <1>2
  <2>7. Only(Only(Append(s, e), K), L) = Only(Append(s, e), K \cap L)
    <3>1. CASE e \in K
      <4>1. Only(Only(Append(s, e), K), L)
            = IF e \in L THEN Append(Only(s, K \cap L), e) ELSE Only(s, K \cap L)
        BY <3>1, <2>2, <2>5, <2>6
      <4>2. e \in K \cap L <=> e \in L
        BY <3>1
      <4> QED BY <2>4, <4>1, <4>2
    <3>2. CASE e \notin K
      BY <3>2, <2>2, <2>4, <2>6
    <3> QED BY <3>1, <3>2
  <2> QED BY <2>1, <2>7
<1>3. Seq(S) \subseteq Good
  <2> HIDE DEF Good
  <2> QED BY <1>1, <1>2, SequenceInduction
<1> QED BY <1>3

\* A selection of all that is there changes nothing.
LEMMA OnlyAll ==
  ASSUME NEW S, NEW K
  PROVE  \A s \in Seq(S) : ToSet(s) \subseteq K => Only(s, K) = s
<1> DEFINE Good == {s \in Seq(S) : ToSet(s) \subseteq K => Only(s, K) = s}
<1>1. <<>> \in Good
  BY OnlyNone, EmptySeq
<1>2. ASSUME NEW s \in Seq(S), NEW e \in S, s \in Good PROVE Append(s, e) \in Good
  <2>1. Append(s, e) \in Seq(S)
    BY AppendProperties
  <2>2. Only(Append(s, e), K) = IF e \in K THEN Append(Only(s, K), e) ELSE Only(s, K)
    BY OnlyOneMore
  <2>3. ToSet(Append(s, e)) = ToSet(s) \cup {e}
    BY AppendedElements
  <2> QED BY <1>2, <2>1, <2>2, <2>3
<1>3. Seq(S) \subseteq Good
  <2> HIDE DEF Good
  <2> QED BY <1>1, <1>2, SequenceInduction
<1> QED BY <1>3

\* A sequence without one of its elements.
LEMMA RemovedAt ==
  ASSUME NEW S, NEW s \in Seq(S), NEW i \in 1..Len(s)
  PROVE  /\ RemoveAt(s, i) \in Seq(S)
         /\ Len(RemoveAt(s, i)) = Len(s) - 1
         /\ \A j \in 1..(Len(s) - 1) : RemoveAt(s, i)[j] = IF j < i THEN s[j] ELSE s[j + 1]
<1> DEFINE n == Len(s)
           before == SubSeq(s, 1, i - 1)
           after == SubSeq(s, i + 1, n)
<1>1. n \in Nat /\ i \in 1..n
  BY LenProperties
<1>2. \A j \in 1..n : s[j] \in S
  BY ElementOfSeq
<1> HIDE DEF n
<1>3. /\ before \in Seq(S) /\ Len(before) = i - 1
      /\ \A j \in 1..(i - 1) : before[j] = s[j]
  <2>1. \A j \in 1..(i - 1) : s[j] \in S
    BY <1>1, <1>2
  <2>2. 1 \in Int /\ i - 1 \in Int /\ (i - 1) - 1 + 1 = i - 1 /\ 1 <= i
    BY <1>1
  <2>3. /\ before \in Seq(S) /\ Len(before) = IF 1 <= i - 1 THEN (i - 1) - 1 + 1 ELSE 0
        /\ \A j \in 1..((i - 1) - 1 + 1) : before[j] = s[1 + j - 1]
    BY <2>1, <2>2, SubSeqProperties
  <2> QED BY <1>1, <2>2, <2>3
<1>4. /\ after \in Seq(S) /\ Len(after) = n - i
      /\ \A j \in 1..(n - i) : after[j] = s[i + j]
  <2>1. \A j \in (i + 1)..n : s[j] \in S
    BY <1>1, <1>2
  <2>2. i + 1 \in Int /\ n \in Int
    BY <1>1
  <2>3. /\ after \in Seq(S) /\ Len(after) = IF i + 1 <= n THEN n - (i + 1) + 1 ELSE 0
        /\ \A j \in 1..(n - (i + 1) + 1) : after[j] = s[(i + 1) + j - 1]
    BY <2>1, <2>2, SubSeqProperties
  <2>4. n - (i + 1) + 1 = n - i /\ Len(after) = n - i
    BY <1>1, <2>3
  <2>5. ASSUME NEW j \in 1..(n - i) PROVE after[j] = s[i + j]
    <3>1. after[j] = s[(i + 1) + j - 1]
      BY <2>3, <2>4
    <3>2. (i + 1) + j - 1 = i + j
      BY <1>1
    <3> QED BY <3>1, <3>2
  <2> QED BY <2>3, <2>4, <2>5
<1>5. RemoveAt(s, i) = before \o after
  BY DEF RemoveAt, n
<1> HIDE DEF before, after
<1>6. /\ before \o after \in Seq(S) /\ Len(before \o after) = Len(before) + Len(after)
      /\ \A j \in 1..(Len(before) + Len(after)) : (before \o after)[j] =
           IF j <= Len(before) THEN before[j] ELSE after[j - Len(before)]
  BY <1>3, <1>4, ConcatProperties
<1>7. Len(before) + Len(after) = n - 1
  BY <1>1, <1>3, <1>4
<1>8. ASSUME NEW j \in 1..(n - 1)
      PROVE  (before \o after)[j] = IF j < i THEN s[j] ELSE s[j + 1]
  <2>1. CASE j < i
    BY <1>1, <1>3, <1>6, <1>7, <2>1
  <2>2. CASE ~ (j < i)
    <3>1. j - (i - 1) \in 1..(n - i) /\ i + (j - (i - 1)) = j + 1
      BY <1>1, <2>2
    <3>2. (before \o after)[j] = after[j - (i - 1)]
      BY <1>1, <1>3, <1>6, <1>7, <2>2
    <3>3. after[j - (i - 1)] = s[i + (j - (i - 1))]
      BY <1>4, <3>1
    <3> QED BY <2>2, <3>1, <3>2, <3>3
  <2> QED BY <2>1, <2>2
<1> QED BY <1>5, <1>6, <1>7, <1>8 DEF n

\* `remove` on a deque without duplicates: all but d stay, in their order.
LEMMA FirstRemoved ==
  ASSUME NEW S, NEW d
  PROVE  \A s \in Seq(S) : IsInjective(s) => RemoveFirst(s, d) = Only(s, S \ {d})
<1> DEFINE Good == {s \in Seq(S) : IsInjective(s) => RemoveFirst(s, d) = Only(s, S \ {d})}
<1>1. ASSUME NEW s \in Seq(S), d \notin ToSet(s)
      PROVE  RemoveFirst(s, d) = s /\ Only(s, S \ {d}) = s
  <2>1. DOMAIN s = 1..Len(s) /\ \A i \in 1..Len(s) : s[i] \in S
    BY LenProperties, ElementOfSeq
  <2>2. ToSet(s) \subseteq S \ {d}
    BY <1>1, <2>1 DEF ToSet
  <2>3. ~ \E i \in 1..Len(s) : s[i] = d
    BY <1>1, <2>1 DEF ToSet
  <2> QED BY <2>2, <2>3, OnlyAll DEF RemoveFirst
<1>2. ASSUME NEW s \in Seq(S), IsInjective(s), NEW i \in 1..Len(s), s[i] = d
      PROVE  RemoveFirst(s, d) = RemoveAt(s, i)
  <2> DEFINE I == {j \in 1..Len(s) : s[j] = d}
  <2>1. DOMAIN s = 1..Len(s) /\ Len(s) \in Nat
    BY LenProperties
  <2>2. I = {i}
    BY <1>2, <2>1 DEF IsInjective
  <2>3. Min({i}) = i
    BY <2>1 DEF Min
  <2>4. SelectInSeq(s, LAMBDA v : v = d) = IF I # {} THEN Min(I) ELSE 0
    BY DEF SelectInSeq
  <2> HIDE DEF I
  <2>5. SelectInSeq(s, LAMBDA v : v = d) = i
    BY <2>2, <2>3, <2>4
  <2> QED BY <1>2, <2>5 DEF RemoveFirst
<1>3. <<>> \in Good
  <2>1. <<>> \in Seq(S) /\ Len(<<>>) = 0
    BY EmptySeq
  <2>2. DOMAIN <<>> = 1..0
    BY <2>1, LenProperties
  <2>3. d \notin ToSet(<<>>)
    BY <2>2 DEF ToSet
  <2> QED BY <1>1, <2>1, <2>3
<1>4. ASSUME NEW s \in Seq(S), NEW e \in S, s \in Good PROVE Append(s, e) \in Good
  <2> DEFINE t == Append(s, e)
             n == Len(s)
  <2> SUFFICES ASSUME IsInjective(t) PROVE RemoveFirst(t, d) = Only(t, S \ {d})
    BY AppendProperties
  <2>1. n \in Nat /\ t \in Seq(S) /\ Len(t) = n + 1 /\ t[n + 1] = e
        /\ \A i \in 1..n : t[i] = s[i]
    BY AppendProperties, LenProperties
  <2>2. ToSet(t) = ToSet(s) \cup {e} /\ IsInjective(s) /\ e \notin ToSet(s)
    BY AppendedInjective, AppendedElements
  <2>3. RemoveFirst(s, d) = Only(s, S \ {d})
    BY <1>4, <2>2
  <2>4. Only(t, S \ {d}) = IF e \in S \ {d} THEN Append(Only(s, S \ {d}), e)
                           ELSE Only(s, S \ {d})
    BY OnlyOneMore
  <2> HIDE DEF t, n
  <2>5. CASE d \notin ToSet(t)
    BY <1>1, <2>1, <2>5
  <2>6. CASE d = e
    <3>1. n + 1 \in 1..Len(t)
      BY <2>1
    <3>2. RemoveFirst(t, d) = RemoveAt(t, n + 1)
      BY <1>2, <2>1, <2>6, <3>1
    <3>3. /\ RemoveAt(t, n + 1) \in Seq(S) /\ Len(RemoveAt(t, n + 1)) = Len(t) - 1
          /\ \A j \in 1..(Len(t) - 1) :
               RemoveAt(t, n + 1)[j] = IF j < n + 1 THEN t[j] ELSE t[j + 1]
      BY <2>1, <3>1, RemovedAt
    <3>4. Len(RemoveAt(t, n + 1)) = n /\ \A j \in 1..n : RemoveAt(t, n + 1)[j] = s[j]
      BY <2>1, <3>3
    <3>5. RemoveAt(t, n + 1) = s
      BY <3>3, <3>4, SeqEqual DEF n
    <3>6. Only(s, S \ {d}) = s
      BY <1>1, <2>2, <2>6
    <3> QED BY <2>4, <2>6, <3>2, <3>5, <3>6
  <2>7. CASE d \in ToSet(s) /\ d # e
    <3>0. ToSet(s) = {s[j] : j \in 1..n}
      BY LenProperties DEF ToSet, n
    <3>1. PICK i \in 1..n : s[i] = d
      BY <2>7, <3>0
    <3>2. RemoveFirst(t, d) = RemoveAt(t, i) /\ RemoveFirst(s, d) = RemoveAt(s, i)
      BY <1>2, <2>1, <2>2, <3>1 DEF n
    <3>3. /\ RemoveAt(t, i) \in Seq(S) /\ Len(RemoveAt(t, i)) = Len(t) - 1
          /\ \A j \in 1..(Len(t) - 1) : RemoveAt(t, i)[j] = IF j < i THEN t[j] ELSE t[j + 1]
      <4>1. i \in 1..Len(t)
        BY <2>1, <3>1
      <4> QED BY <2>1, <4>1, RemovedAt
    <3>4. /\ RemoveAt(s, i) \in Seq(S) /\ Len(RemoveAt(s, i)) = n - 1
          /\ \A j \in 1..(n - 1) : RemoveAt(s, i)[j] = IF j < i THEN s[j] ELSE s[j + 1]
      BY <3>1, RemovedAt DEF n
    <3> DEFINE u == Append(RemoveAt(s, i), e)
    <3>5. u \in Seq(S) /\ Len(u) = (n - 1) + 1 /\ u[(n - 1) + 1] = e
          /\ \A j \in 1..(n - 1) : u[j] = RemoveAt(s, i)[j]
      BY <3>4, AppendProperties
    <3> HIDE DEF u
    <3>6. ASSUME NEW j \in 1..n PROVE RemoveAt(t, i)[j] = u[j]
      BY <2>1, <3>1, <3>3, <3>4, <3>5
    <3>7. Len(RemoveAt(t, i)) = Len(u) /\ Len(u) = n
      BY <2>1, <3>1, <3>3, <3>5
    <3>8. RemoveAt(t, i) = u
      BY <3>3, <3>5, <3>6, <3>7, SeqEqual
    <3> QED BY <2>3, <2>4, <2>7, <3>2, <3>8 DEF u
  <2> QED BY <2>2, <2>5, <2>6, <2>7
<1>5. Seq(S) \subseteq Good
  <2> HIDE DEF Good
  <2> QED BY <1>3, <1>4, SequenceInduction
<1> QED BY <1>5

\* A sequence without duplicates is as long as its elements are many.
LEMMA InjectiveLength ==
  ASSUME NEW S, NEW s \in Seq(S), IsInjective(s)
  PROVE  IsFiniteSet(ToSet(s)) /\ Cardinality(ToSet(s)) = Len(s)
<1>1. Len(s) \in Nat /\ DOMAIN s = 1..Len(s) /\ s \in [1..Len(s) -> S]
  BY LenProperties
<1>2. s \in Bijection(1..Len(s), ToSet(s))
  BY <1>1 DEF Bijection, Injection, Surjection, IsInjective, ToSet
<1>3. ExistsBijection(1..Len(s), ToSet(s))
  BY <1>2 DEF ExistsBijection
<1> QED BY <1>1, <1>3, FS_CountingElements, FS_NatBijection

-----------------------------------------------------------------------------
(* The cache: its deque is its keys in the order of last use *)

\* The inductive invariant: the deque holds the keys in the order of their last use, and never
\* more of them than the cache may.
CacheInv ==
    /\ cache \in [Keys -> 0..Ttl]
    /\ used \in Seq(Devices)
    /\ IsInjective(used)
    /\ Keys \subseteq ToSet(used)
    /\ OrderIsLeastRecentFirst
    /\ Cardinality(Keys) <= MaxSize

\* The elements of a sequence are of its set.
LEMMA ElementsOfSeq == ASSUME NEW S, NEW s \in Seq(S) PROVE ToSet(s) \subseteq S
<1>1. DOMAIN s = 1..Len(s) /\ \A i \in 1..Len(s) : s[i] \in S
  BY LenProperties, ElementOfSeq
<1> QED BY <1>1 DEF ToSet

\* An injective sequence of used devices, cut to some of them.
LEMMA UsedCut ==
  ASSUME CacheInv, NEW K \in SUBSET ToSet(used)
  PROVE  /\ Only(used, K) \in Seq(Devices)
         /\ IsInjective(Only(used, K))
         /\ ToSet(Only(used, K)) = K
         /\ IsFiniteSet(K) /\ Len(Only(used, K)) = Cardinality(K) /\ Cardinality(K) \in Nat
<1> USE DEF CacheInv
<1>1. Only(used, K) \in Seq(Devices) /\ IsInjective(Only(used, K))
  BY OnlyType, OnlyInjective
<1>2. ToSet(Only(used, K)) = ToSet(used) \cap K
  BY OnlyElements
<1> QED BY <1>1, <1>2, InjectiveLength, FS_CardinalityType

\* dict and deque agree, because the deque is the keys in the order of last use.
LEMMA OrderFromInv == CacheInv => OrderMatchesCache
<1> SUFFICES ASSUME CacheInv PROVE OrderMatchesCache
  OBVIOUS
<1>1. accessOrder = Only(used, Keys) /\ Keys \subseteq ToSet(used)
  BY DEF CacheInv, OrderIsLeastRecentFirst
<1> QED BY <1>1, UsedCut DEF OrderMatchesCache, CacheInv

\* A device used now comes last, and the others keep their order.
LEMMA UsedNowCut ==
  ASSUME CacheInv, NEW d \in Devices, UsedNow(d)
  PROVE  /\ used' \in Seq(Devices) /\ IsInjective(used')
         /\ ToSet(used') = ToSet(used) \cup {d}
         /\ \A K \in SUBSET Devices : d \in K =>
              Only(used', K) = Append(Only(used, K \ {d}), d)
<1> DEFINE rest == Only(used, Devices \ {d})
<1>1. used \in Seq(Devices) /\ IsInjective(used) /\ ToSet(used) \subseteq Devices
  BY ElementsOfSeq DEF CacheInv
<1>2. rest \in Seq(Devices) /\ IsInjective(rest) /\ ToSet(rest) = ToSet(used) \cap (Devices \ {d})
  BY <1>1, OnlyType, OnlyInjective, OnlyElements
<1>3. used' = Append(rest, d)
  BY DEF UsedNow
<1>4. ASSUME NEW K \in SUBSET Devices, d \in K
      PROVE  Only(used', K) = Append(Only(used, K \ {d}), d)
  <2>1. Only(Append(rest, d), K) = Append(Only(rest, K), d)
    BY <1>2, <1>4, OnlyOneMore
  <2>2. Only(rest, K) = Only(used, (Devices \ {d}) \cap K)
    BY <1>1, OnlyTwice
  <2>3. (Devices \ {d}) \cap K = K \ {d}
    OBVIOUS
  <2> QED BY <1>3, <2>1, <2>2, <2>3
<1> HIDE DEF rest
<1>5. used' \in Seq(Devices)
  BY <1>2, <1>3, AppendProperties
<1>6. IsInjective(used') /\ ToSet(used') = ToSet(rest) \cup {d}
  BY <1>2, <1>3, AppendedInjective, AppendedElements
<1>7. ToSet(used') = ToSet(used) \cup {d}
  BY <1>1, <1>2, <1>6
<1> QED BY <1>4, <1>5, <1>6, <1>7

\* `remove` on the deque, cut to some of the keys.
LEMMA CutRemoved ==
  ASSUME CacheInv, NEW K \in SUBSET ToSet(used), NEW d
  PROVE  RemoveFirst(Only(used, K), d) = Only(used, K \ {d})
<1>1. Only(used, K) \in Seq(Devices) /\ IsInjective(Only(used, K))
  BY UsedCut
<1>2. RemoveFirst(Only(used, K), d) = Only(Only(used, K), Devices \ {d})
  BY <1>1, FirstRemoved
<1>3. Only(Only(used, K), Devices \ {d}) = Only(used, K \cap (Devices \ {d}))
  BY OnlyTwice DEF CacheInv
<1>4. ToSet(used) \subseteq Devices
  BY ElementsOfSeq DEF CacheInv
<1>5. K \cap (Devices \ {d}) = K \ {d}
  BY <1>4
<1> QED BY <1>2, <1>3, <1>5

\* A hit moves its key to the end.
LEMMA HitKeepsOrder ==
  ASSUME CacheInv, NEW d \in Devices, Hit(d)
  PROVE  CacheInv'
<1>1. Keys' = Keys /\ cache' = cache /\ d \in Keys /\ UsedNow(d)
      /\ accessOrder' = Append(RemoveFirst(accessOrder, d), d)
  BY DEF Hit, Keys, Accessed
<1>2. accessOrder = Only(used, Keys) /\ Keys \subseteq ToSet(used) /\ Keys \subseteq Devices
  BY ElementsOfSeq DEF CacheInv, OrderIsLeastRecentFirst
<1>3. /\ used' \in Seq(Devices) /\ IsInjective(used')
      /\ ToSet(used') = ToSet(used) \cup {d}
      /\ Only(used', Keys) = Append(Only(used, Keys \ {d}), d)
  BY <1>1, <1>2, UsedNowCut
<1>4. RemoveFirst(accessOrder, d) = Only(used, Keys \ {d})
  BY <1>2, CutRemoved
<1>5. accessOrder' = Only(used', Keys')
  BY <1>1, <1>3, <1>4
<1> QED BY <1>1, <1>2, <1>3, <1>5 DEF CacheInv, OrderIsLeastRecentFirst

\* An expired entry takes its key out of the deque.
LEMMA MissKeepsOrder ==
  ASSUME CacheInv, NEW d \in Devices, MissExpired(d)
  PROVE  CacheInv'
<1>1. cache' = [e \in Keys \ {d} |-> cache[e]] /\ used' = used
      /\ accessOrder' = RemoveFirst(accessOrder, d)
  BY DEF MissExpired, Restrict
<1>2. Keys' = Keys \ {d} /\ cache' \in [Keys' -> 0..Ttl]
  BY <1>1 DEF Keys, CacheInv
<1>3. accessOrder = Only(used, Keys) /\ Keys \subseteq ToSet(used)
  BY DEF CacheInv, OrderIsLeastRecentFirst
<1>4. accessOrder' = Only(used', Keys')
  BY <1>1, <1>2, <1>3, CutRemoved
<1>5. Cardinality(Keys') <= Cardinality(Keys) /\ Cardinality(Keys) \in Nat
      /\ Cardinality(Keys') \in Nat
  BY <1>2, <1>3, UsedCut, FS_Subset
<1> QED BY <1>1, <1>2, <1>3, <1>4, <1>5, CacheAssumption DEF CacheInv, OrderIsLeastRecentFirst

\* What makes room in a full cache: the key that was not used for longest.
LEMMA VictimOfFull ==
  ASSUME CacheInv, Cardinality(Keys) >= MaxSize
  PROVE  Victim \in Keys /\ Victim = Head(Only(used, Keys)) /\ Cardinality(Keys) = MaxSize
<1>1. /\ accessOrder = Only(used, Keys) /\ accessOrder \in Seq(Devices)
      /\ ToSet(accessOrder) = Keys /\ Len(accessOrder) = Cardinality(Keys)
      /\ Cardinality(Keys) \in Nat
  BY UsedCut DEF CacheInv, OrderIsLeastRecentFirst
<1>2. Cardinality(Keys) = MaxSize /\ 1 \in 1..Len(accessOrder)
  BY <1>1, CacheAssumption DEF CacheInv
<1>3. DOMAIN accessOrder = 1..Len(accessOrder)
  BY <1>1, LenProperties
<1>4. Victim = accessOrder[1]
  BY <1>1, <1>2 DEF Victim
<1> QED BY <1>1, <1>2, <1>3, <1>4 DEF Victim, ToSet

\* A put evicts the first key of a full cache, and its own key comes last.
LEMMA PutKeepsOrder ==
  ASSUME CacheInv, NEW d \in Devices, Put(d)
  PROVE  CacheInv'
<1> DEFINE evicted == IF Cardinality(Keys) >= MaxSize /\ d \notin Keys THEN {Victim} ELSE {}
           stay == (Keys \ evicted) \ {d}
<1>1. /\ cache' = [e \in (Keys \ evicted) \cup {d} |-> IF e = d THEN 0 ELSE cache[e]]
      /\ accessOrder' = OrderAfterPut(Only(accessOrder, Devices \ evicted), d)
      /\ UsedNow(d)
  BY DEF Put
<1>2. accessOrder = Only(used, Keys) /\ Keys \subseteq ToSet(used)
      /\ ToSet(used) \subseteq Devices /\ used \in Seq(Devices)
  BY ElementsOfSeq DEF CacheInv, OrderIsLeastRecentFirst
<1>3. IsFiniteSet(Keys) /\ Cardinality(Keys) \in Nat /\ Cardinality(Keys) <= MaxSize
      /\ MaxSize \in Nat \ {0} /\ Ttl \in Nat
  BY <1>2, UsedCut, CacheAssumption DEF CacheInv
<1>4. Cardinality(stay) < MaxSize /\ Cardinality(stay) \in Nat /\ IsFiniteSet(stay)
  <2>1. CASE Cardinality(Keys) >= MaxSize /\ d \notin Keys
    <3>1. stay = Keys \ {Victim} /\ Victim \in Keys
      BY <2>1, VictimOfFull
    <3>2. IsFiniteSet(stay) /\ Cardinality(stay) = Cardinality(Keys) - 1
      BY <1>3, <3>1, FS_RemoveElement
    <3> HIDE DEF stay
    <3> QED BY <1>3, <3>2, FS_CardinalityType
  <2>2. CASE ~ (Cardinality(Keys) >= MaxSize) \/ d \in Keys
    <3>1. stay = Keys \ {d}
      BY <2>2
    <3>2. IsFiniteSet(stay)
          /\ Cardinality(stay) = IF d \in Keys THEN Cardinality(Keys) - 1 ELSE Cardinality(Keys)
      BY <1>3, <3>1, FS_RemoveElement
    <3> HIDE DEF stay
    <3> QED BY <1>3, <2>2, <3>2, FS_CardinalityType
  <2> QED BY <2>1, <2>2
<1>5. Keys' = stay \cup {d}
  BY <1>1 DEF Keys
<1>6. accessOrder' = Append(Only(used, stay), d)
  <2>1. Only(accessOrder, Devices \ evicted) = Only(used, Keys \cap (Devices \ evicted))
    BY <1>2, OnlyTwice
  <2>2. Keys \cap (Devices \ evicted) = Keys \ evicted /\ Keys \ evicted \subseteq ToSet(used)
        /\ stay \subseteq ToSet(used)
    BY <1>2
  <2>3. RemoveFirst(Only(used, Keys \ evicted), d) = Only(used, stay)
    BY <2>2, CutRemoved
  <2>4. Len(Only(used, stay)) < MaxSize
    BY <1>4, <2>2, UsedCut
  <2> HIDE DEF evicted, stay
  <2>5. accessOrder' = Appended(Only(used, stay), d)
    BY <1>1, <2>1, <2>2, <2>3 DEF OrderAfterPut
  <2>6. Len(Only(used, stay)) # MaxSize
    BY <1>3, <1>4, <2>2, <2>4, UsedCut
  <2> QED BY <2>5, <2>6 DEF Appended
<1>7. cache' \in [Keys' -> 0..Ttl]
  BY <1>1, <1>3, <1>5 DEF CacheInv, Keys
<1>8. /\ used' \in Seq(Devices) /\ IsInjective(used')
      /\ ToSet(used') = ToSet(used) \cup {d}
      /\ Only(used', Keys') = Append(Only(used, Keys' \ {d}), d)
  <2>1. Keys' \subseteq Devices /\ d \in Keys'
    BY <1>2, <1>5
  <2> QED BY <1>1, <2>1, UsedNowCut
<1>9. Keys' \ {d} = stay /\ Keys' \subseteq ToSet(used')
  BY <1>2, <1>5, <1>8
<1>10. Cardinality(Keys') <= MaxSize
  <2>1. d \notin stay
    OBVIOUS
  <2> HIDE DEF stay
  <2>2. Cardinality(stay \cup {d}) = Cardinality(stay) + 1
    BY <1>4, <2>1, FS_AddElement
  <2> QED BY <1>3, <1>4, <1>5, <2>2
<1> HIDE DEF stay, evicted
<1> QED BY <1>6, <1>7, <1>8, <1>9, <1>10 DEF CacheInv, OrderIsLeastRecentFirst

\* A cleared cache has no order.
LEMMA ClearKeepsOrder ==
  ASSUME CacheInv, Clear
  PROVE  CacheInv'
<1>1. Keys' = {} /\ accessOrder' = <<>> /\ used' = used /\ cache' = <<>>
  BY DEF Clear, Keys
<1>2. Only(used, {}) \in Seq(Devices) /\ Len(Only(used, {})) = Cardinality({})
  BY UsedCut
<1>3. Only(used, {}) = <<>>
  BY <1>2, FS_EmptySet, EmptySeq
<1>4. cache' \in [Keys' -> 0..Ttl]
  BY <1>1
<1> QED BY <1>1, <1>3, <1>4, FS_EmptySet, CacheAssumption DEF CacheInv, OrderIsLeastRecentFirst

\* Time passes: entries age, none is used.
LEMMA TickKeepsOrder ==
  ASSUME CacheInv, Tick
  PROVE  CacheInv'
<1>1. Keys' = Keys /\ UNCHANGED <<accessOrder, used>>
  BY DEF Tick, Keys
<1>2. cache' \in [Keys' -> 0..Ttl]
  BY <1>1, CacheAssumption DEF Tick, CacheInv
<1> QED BY <1>1, <1>2 DEF CacheInv, OrderIsLeastRecentFirst

\* The invariant of the cache.
LEMMA CacheInvariant == Spec => []CacheInv
<1>1. Init => CacheInv
  <2> SUFFICES ASSUME Init PROVE CacheInv
    OBVIOUS
  <2>1. cache = <<>> /\ accessOrder = <<>> /\ used = <<>> /\ Keys = {}
    BY DEF Init, Keys
  <2>2. cache \in [Keys -> 0..Ttl]
    BY <2>1
  <2>3. used \in Seq(Devices) /\ IsInjective(used)
    <3>1. <<>> \in Seq(Devices) /\ Len(<<>>) = 0
      BY EmptySeq
    <3>2. DOMAIN <<>> = 1..0
      BY <3>1, LenProperties
    <3> QED BY <2>1, <3>1, <3>2 DEF IsInjective
  <2> QED BY <2>1, <2>2, <2>3, OnlyNone, FS_EmptySet, CacheAssumption
          DEF CacheInv, OrderIsLeastRecentFirst
<1>2. CacheInv /\ [Next]_vars => CacheInv'
  <2> SUFFICES ASSUME CacheInv, [Next]_vars PROVE CacheInv'
    OBVIOUS
  <2>1. ASSUME NEW d \in Devices, Hit(d) PROVE CacheInv'
    BY <2>1, HitKeepsOrder
  <2>2. ASSUME NEW d \in Devices, MissExpired(d) PROVE CacheInv'
    BY <2>2, MissKeepsOrder
  <2>3. ASSUME NEW d \in Devices, Put(d) PROVE CacheInv'
    BY <2>3, PutKeepsOrder
  <2>4. CASE Clear
    BY <2>4, ClearKeepsOrder
  <2>5. CASE Tick
    BY <2>5, TickKeepsOrder
  <2>6. CASE UNCHANGED vars
    BY <2>6 DEF vars, CacheInv, Keys, OrderIsLeastRecentFirst
  <2> QED BY <2>1, <2>2, <2>3, <2>4, <2>5, <2>6 DEF Next
<1> QED BY <1>1, <1>2, PTL DEF Spec

-----------------------------------------------------------------------------
(* The workers use the cache by its operations *)

\* The places where a worker awaits, and its two ends.
Stages == {"idle", "fetching", "releasing", "writing", "comparing", "pausing", "ended"}

\* The worker is about a device.
Busy(w) == stage[w] \notin {"idle", "ended"}

\* A worker that is about something has a device in hand.
HandInv ==
    /\ stage \in [Workers -> Stages]
    /\ hand \in [Workers -> [device : Devices \cup {"none"},
                             kind : Payloads \cup {"none"}, written : BOOLEAN]]
    /\ \A w \in Workers : Busy(w) => hand[w].device \in Devices

\* The end of persist_device_data, for a worker that is about something.
LEMMA EndKeepsHand ==
  ASSUME HandInv, NEW w \in Workers, Busy(w), NEW wrote \in BOOLEAN, NEW ok \in BOOLEAN,
         PersistEnds(w, wrote, ok)
  PROVE  HandInv' /\ [Next]_vars
<1>1. stage' = [stage EXCEPT ![w] = "idle"] /\ hand' = [hand EXCEPT ![w] = Empty]
  BY DEF PersistEnds, Moves
<1>2. HandInv'
  BY <1>1 DEF HandInv, Stages, Busy, Empty
<1>3. hand[w].device \in Devices
  BY DEF HandInv
<1>4. [Next]_vars
  BY <1>3 DEF PersistEnds, Next
<1> QED BY <1>2, <1>4

\* Each step of a worker is an operation of the cache, or leaves the cache alone.
LEMMA WorkerUsesCache ==
  ASSUME HandInv, NEW w \in Workers, WorkerStep(w)
  PROVE  HandInv' /\ [Next]_vars
<1>1. ASSUME NEW d \in Devices, TakesCached(w, d) PROVE HandInv' /\ [Next]_vars
  BY <1>1 DEF TakesCached, Next, HandInv, Busy
<1>2. ASSUME NEW d \in Devices, TakesUncached(w, d) PROVE HandInv' /\ [Next]_vars
  <2>1. stage' = [stage EXCEPT ![w] = "fetching"] /\ hand' = [hand EXCEPT ![w].device = d]
    BY <1>2 DEF TakesUncached, Moves
  <2>2. [Next]_vars
    BY <1>2 DEF TakesUncached, Next
  <2> QED BY <2>1, <2>2 DEF HandInv, Stages, Busy
<1>3. CASE FetchFails(w)
  BY <1>3 DEF FetchFails, Moves, HandInv, Stages, Busy, Empty
<1>4. ASSUME NEW kind \in Payloads, Fetched(w, kind) PROVE HandInv' /\ [Next]_vars
  BY <1>4 DEF Fetched, Moves, HandInv, Stages, Busy
<1>5. CASE EventsReleased(w)
  <2>1. Busy(w)
    BY <1>5 DEF EventsReleased, Busy
  <2>2. CASE PersistEnds(w, FALSE, FALSE)
    BY <2>1, <2>2, EndKeepsHand
  <2>3. CASE UNCHANGED <<vars, hand, fate>>
             /\ Moves(w, IF hand[w].kind = "odd" THEN "pausing" ELSE "writing")
    BY <2>1, <2>3 DEF Moves, HandInv, Stages, Busy
  <2> QED BY <1>5, <2>2, <2>3 DEF EventsReleased
<1>6. CASE DetailWritten(w)
  <2>1. Busy(w)
    BY <1>6 DEF DetailWritten, Busy
  <2>2. PICK ok \in BOOLEAN : PersistEnds(w, ok, ok)
    BY <1>6 DEF DetailWritten
  <2> QED BY <2>1, <2>2, EndKeepsHand
<1>7. CASE ComparisonFollows(w)
  <2>1. PICK ok \in BOOLEAN : hand' = [hand EXCEPT ![w].written = ok]
    BY <1>7 DEF ComparisonFollows
  <2> QED BY <1>7, <2>1 DEF ComparisonFollows, Moves, HandInv, Stages, Busy
<1>8. CASE ComparisonWritten(w)
  <2>1. Busy(w) /\ hand[w].written \in BOOLEAN
    BY <1>8 DEF ComparisonWritten, Busy, HandInv
  <2>2. PICK ok \in BOOLEAN : PersistEnds(w, hand[w].written, Result(hand[w].written, ok))
    BY <1>8 DEF ComparisonWritten
  <2> QED BY <2>1, <2>2, EndKeepsHand DEF Result
<1>9. CASE PauseEnds(w)
  BY <1>9 DEF PauseEnds, Moves, HandInv, Stages, Busy, Empty
<1>10. CASE WorkerEnds(w)
  BY <1>10 DEF WorkerEnds, Moves, HandInv, Stages, Busy, Empty
<1> QED BY <1>1, <1>2, <1>3, <1>4, <1>5, <1>6, <1>7, <1>8, <1>9, <1>10 DEF WorkerStep

\* Every step of the workers is an operation of the cache, or leaves it alone.
LEMMA StepUsesCache == HandInv /\ [DetailsNext]_detailVars => HandInv' /\ [Next]_vars
<1> SUFFICES ASSUME HandInv, [DetailsNext]_detailVars PROVE HandInv' /\ [Next]_vars
  OBVIOUS
<1>1. ASSUME NEW w \in Workers, WorkerStep(w) PROVE HandInv' /\ [Next]_vars
  BY <1>1, WorkerUsesCache
<1>2. CASE Cleared
  BY <1>2 DEF Cleared, Next, HandInv, Busy
<1>3. CASE Time
  BY <1>3 DEF Time, Next, HandInv, Busy
<1>4. CASE UNCHANGED detailVars
  BY <1>4 DEF detailVars, HandInv, Busy
<1> QED BY <1>1, <1>2, <1>3, <1>4 DEF DetailsNext

\* A worker that is about something has a device in hand, always.
LEMMA HandInvariant == DetailsSpec => []HandInv
<1>1. DetailsInit => HandInv
  BY DEF DetailsInit, HandInv, Stages, Busy, Empty
<1> QED BY <1>1, StepUsesCache, PTL DEF DetailsSpec

\* Whatever the workers do is an operation of the cache, or leaves it alone.
THEOREM CacheUsed == DetailsSpec => Spec
<1>1. DetailsInit => Init
  BY DEF DetailsInit
<1> QED BY <1>1, HandInvariant, StepUsesCache, PTL DEF Spec, DetailsSpec

\* dict and deque agree: no `remove` or `popleft` raises, the deque's maxlen never drops an
\* entry, and the cache never grows beyond its size.
THEOREM CacheAgrees == DetailsSpec => []OrderMatchesCache
BY CacheUsed, CacheInvariant, OrderFromInv, PTL

\* The deque is in the order of last use, over all that was ever used.
THEOREM CacheOrdered == DetailsSpec => []OrderIsLeastRecentFirst
<1>1. CacheInv => OrderIsLeastRecentFirst
  BY DEF CacheInv
<1> QED BY <1>1, CacheUsed, CacheInvariant, PTL

-----------------------------------------------------------------------------
(* What leaves the cache *)

\* What an operation takes away while it is good, it takes to make room.
LEMMA GoodDetailStays ==
  ASSUME CacheInv, [Next]_vars, NEW d \in Keys, cache[d] < Ttl, ~Clear, d \notin DOMAIN cache'
  PROVE  Cardinality(Keys) = MaxSize /\ d = Head(Only(used, Keys))
<1>1. ASSUME NEW e \in Devices, Hit(e) PROVE FALSE
  BY <1>1 DEF Hit, Keys
<1>2. ASSUME NEW e \in Devices, MissExpired(e) PROVE FALSE
  <2>1. DOMAIN cache' = Keys \ {e} /\ cache[e] >= Ttl
    BY <1>2 DEF MissExpired, Restrict
  <2>2. d = e
    BY <2>1
  <2> QED BY <2>1, <2>2, CacheAssumption DEF CacheInv
<1>3. ASSUME NEW e \in Devices, Put(e)
      PROVE  Cardinality(Keys) = MaxSize /\ d = Head(Only(used, Keys))
  <2> DEFINE evicted == IF Cardinality(Keys) >= MaxSize /\ e \notin Keys THEN {Victim} ELSE {}
  <2>1. DOMAIN cache' = (Keys \ evicted) \cup {e}
    BY <1>3 DEF Put
  <2>2. d \in evicted
    BY <2>1
  <2>3. d = Victim /\ Cardinality(Keys) >= MaxSize
    BY <2>2
  <2> QED BY <2>3, VictimOfFull
<1>4. CASE Tick
  BY <1>4 DEF Tick
<1>5. CASE UNCHANGED vars
  BY <1>5 DEF vars, Keys
<1> QED BY <1>1, <1>2, <1>3, <1>4, <1>5 DEF Next

\* A detail that is still good leaves the cache only when all is cleared, or as the least
\* recently used of a full cache.
THEOREM GoodStay == DetailsSpec => GoodDetailsStay
<1>1. CacheInv /\ [Next]_vars =>
        [\A d \in Keys : cache[d] < Ttl /\ ~Clear /\ d \notin DOMAIN cache' =>
           /\ Cardinality(Keys) = MaxSize
           /\ d = Head(Only(used, Keys))]_vars
  BY GoodDetailStays
<1> QED BY <1>1, CacheUsed, CacheInvariant, PTL DEF Spec, GoodDetailsStay

-----------------------------------------------------------------------------
(* What a cached detail stands for *)

\* Exactly the cached details have a fate, and it is a good one.
FateInv == DOMAIN fate = Keys /\ CachedMeansDealtWith

\* A put keeps the fates of the other details, and gives the new one its own.
LEMMA EndKeepsFate ==
  ASSUME FateInv, NEW w \in Workers, NEW wrote \in BOOLEAN, NEW ok \in BOOLEAN, ok => wrote,
         PersistEnds(w, wrote, ok)
  PROVE  FateInv'
<1> DEFINE d == hand[w].device
           kind == hand[w].kind
<1>1. CASE DealtWith(kind, ok)
  <2>1. Put(d)
        /\ fate' = [e \in DOMAIN cache' |->
                      IF e # d THEN fate[e] ELSE IF wrote THEN "written" ELSE kind]
    BY <1>1 DEF PersistEnds
  <2>2. DOMAIN cache' \subseteq Keys \cup {d}
    BY <2>1 DEF Put
  <2>3. wrote \/ kind \in {"useless", "no_list"}
    BY <1>1 DEF DealtWith
  <2> HIDE DEF d, kind
  <2> QED BY <2>1, <2>2, <2>3 DEF FateInv, CachedMeansDealtWith, Keys
<1>2. CASE ~ DealtWith(kind, ok)
  BY <1>2 DEF PersistEnds, vars, FateInv, CachedMeansDealtWith, Keys
<1> QED BY <1>1, <1>2

\* Fates go with the details they are of.
LEMMA FewerFates ==
  ASSUME FateInv, DOMAIN cache' \subseteq Keys, FatesKept
  PROVE  FateInv'
BY DEF FateInv, FatesKept, CachedMeansDealtWith, Keys, Restrict

\* A worker adds a fate with each put, and takes one away with each entry.
LEMMA WorkerKeepsFate ==
  ASSUME HandInv, FateInv, NEW w \in Workers, WorkerStep(w)
  PROVE  FateInv'
<1> USE DEF FateInv, CachedMeansDealtWith, Keys
<1>1. ASSUME NEW d \in Devices, TakesCached(w, d) PROVE FateInv'
  BY <1>1 DEF TakesCached, Hit
<1>2. ASSUME NEW d \in Devices, TakesUncached(w, d) PROVE FateInv'
  <2>1. DOMAIN cache' \subseteq Keys /\ FatesKept
    BY <1>2 DEF TakesUncached, MissExpired, Restrict, vars
  <2> QED BY <2>1, FewerFates
<1>3. CASE FetchFails(w) \/ \E kind \in Payloads : Fetched(w, kind)
  BY <1>3 DEF FetchFails, Fetched, vars
<1>4. CASE EventsReleased(w)
  <2>1. PersistEnds(w, FALSE, FALSE) \/ UNCHANGED <<vars, hand, fate>>
    BY <1>4 DEF EventsReleased
  <2>2. CASE PersistEnds(w, FALSE, FALSE)
    BY <2>2, EndKeepsFate
  <2> QED BY <2>1, <2>2 DEF vars
<1>5. CASE DetailWritten(w)
  <2>1. PICK ok \in BOOLEAN : PersistEnds(w, ok, ok)
    BY <1>5 DEF DetailWritten
  <2> QED BY <2>1, EndKeepsFate
<1>6. CASE ComparisonWritten(w)
  <2>1. PICK ok \in BOOLEAN : PersistEnds(w, hand[w].written, hand[w].written)
    BY <1>6 DEF ComparisonWritten, Result
  <2>2. hand[w].written \in BOOLEAN
    BY DEF HandInv
  <2> QED BY <2>1, <2>2, EndKeepsFate
<1>7. CASE ComparisonFollows(w) \/ PauseEnds(w) \/ WorkerEnds(w)
  BY <1>7 DEF ComparisonFollows, PauseEnds, WorkerEnds, vars
<1> QED BY <1>1, <1>2, <1>3, <1>4, <1>5, <1>6, <1>7 DEF WorkerStep

\* Whatever the writes of several workers for one device came to, a hit stands for a detail
\* that was written, or that cannot be.
THEOREM CachedDealtWith == DetailsSpec => []CachedMeansDealtWith
<1>1. DetailsInit => FateInv
  BY DEF DetailsInit, Init, FateInv, CachedMeansDealtWith, Keys
<1>2. HandInv /\ FateInv /\ [DetailsNext]_detailVars => FateInv'
  <2> SUFFICES ASSUME HandInv, FateInv, [DetailsNext]_detailVars PROVE FateInv'
    OBVIOUS
  <2>1. ASSUME NEW w \in Workers, WorkerStep(w) PROVE FateInv'
    BY <2>1, WorkerKeepsFate
  <2>2. CASE Cleared
    BY <2>2, FewerFates DEF Cleared, Clear
  <2>3. CASE Time
    BY <2>3 DEF Time, Tick, FateInv, CachedMeansDealtWith, Keys
  <2>4. CASE UNCHANGED detailVars
    BY <2>4 DEF detailVars, vars, FateInv, CachedMeansDealtWith, Keys
  <2> QED BY <2>1, <2>2, <2>3, <2>4 DEF DetailsNext
<1>3. FateInv => CachedMeansDealtWith
  BY DEF FateInv
<1> QED BY <1>1, <1>2, <1>3, HandInvariant, PTL DEF DetailsSpec
=============================================================================
