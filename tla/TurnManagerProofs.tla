-------------------------- MODULE TurnManagerProofs --------------------------
(***************************************************************************)
(* However many chats, messages, reports and turns there are, nothing that *)
(* was written or reported is lost or doubled, nobody waits for a turn     *)
(* that is over, and turns that wait for their turn do not overlap.        *)
(***************************************************************************)
EXTENDS TurnManager, SequenceTheorems, FiniteSetTheorems, WellFoundedInduction, TLAPS

-----------------------------------------------------------------------------
(* Sequences.                                                              *)

\* A set of numbers has a least one.
LEMMA LeastOf ==
  ASSUME NEW T, T \subseteq Nat, T # {}
  PROVE  \E i \in T : \A j \in T : i <= j
<1>1. PICK R : R = OpToRel(<, Nat)
  OBVIOUS
<1>2. IsWellFoundedOn(R, Nat)
  BY <1>1, NatLessThanWellFounded
<1>3. \A i, j \in Nat : <<j, i>> \in R <=> j < i
  BY <1>1 DEF OpToRel
<1>4. PICK i \in T : \A j \in T : ~(<<j, i>> \in R)
  BY <1>2, WFMin
<1>5. ASSUME NEW j \in T
      PROVE  i <= j
  <2>1. i \in Nat /\ j \in Nat /\ ~(<<j, i>> \in R)
    BY <1>4
  <2>2. ~(j < i)
    BY <1>3, <2>1
  <2> QED
    BY <2>1, <2>2
<1> QED
  BY <1>5

\* RemoveFirst takes an element out at one of its places.
LEMMA FirstOf ==
  ASSUME NEW S, NEW s \in Seq(S), NEW e, Contains(s, e)
  PROVE  /\ \E i \in 1..Len(s) : s[i] = e /\ RemoveFirst(s, e) = RemoveAt(s, i)
<1> DEFINE I == {i \in 1..Len(s) : s[i] = e}
<1>1. I # {} /\ I \subseteq Nat
  BY DEF Contains
<1>2. PICK i \in I : i = Min(I)
  <2>1. \E i \in I : \A j \in I : i <= j
    BY <1>1, LeastOf
  <2> QED
    BY <2>1 DEF Min
<1>3. SelectInSeq(s, LAMBDA v : v = e) = Min(I)
  BY <1>1 DEF SelectInSeq
<1> QED
  BY <1>1, <1>2, <1>3 DEF RemoveFirst

LEMMA AtRemoved ==
  ASSUME NEW S, NEW s \in Seq(S), NEW i \in 1..Len(s)
  PROVE  /\ RemoveAt(s, i) \in Seq(S) /\ Len(RemoveAt(s, i)) = Len(s) - 1
         /\ \A j \in 1..(Len(s) - 1) : RemoveAt(s, i)[j] = IF j < i THEN s[j] ELSE s[j + 1]
<1> DEFINE a == SubSeq(s, 1, i - 1)
           b == SubSeq(s, i + 1, Len(s))
<1>1. /\ a \in Seq(S) /\ Len(a) = i - 1
      /\ \A j \in 1..(i - 1) : a[j] = s[j]
  BY SubSeqProperties
<1>2. /\ b \in Seq(S) /\ Len(b) = Len(s) - i
      /\ \A j \in 1..(Len(s) - i) : b[j] = s[i + j]
  <2>1. /\ b \in Seq(S) /\ Len(b) = IF i + 1 <= Len(s) THEN Len(s) - (i + 1) + 1 ELSE 0
        /\ \A j \in 1..(Len(s) - (i + 1) + 1) : b[j] = s[(i + 1) + j - 1]
    BY SubSeqProperties
  <2> QED
    BY <2>1
<1>3. RemoveAt(s, i) = a \o b
  BY DEF RemoveAt
<1> HIDE DEF a, b
<1>4. /\ a \o b \in Seq(S) /\ Len(a \o b) = Len(a) + Len(b)
      /\ \A j \in 1..(Len(a) + Len(b)) : (a \o b)[j] = IF j <= Len(a) THEN a[j] ELSE b[j - Len(a)]
  BY <1>1, <1>2, ConcatProperties
<1>5. Len(s) \in Nat /\ Len(a \o b) = Len(s) - 1
  BY <1>1, <1>2, <1>4, LenProperties
<1>6. ASSUME NEW j \in 1..(Len(s) - 1)
      PROVE  (a \o b)[j] = IF j < i THEN s[j] ELSE s[j + 1]
  <2>1. j \in 1..(Len(a) + Len(b)) /\ j \in Nat /\ i \in Nat
    BY <1>1, <1>2, <1>5
  <2>2. CASE j < i
    BY <1>1, <1>4, <2>1, <2>2
  <2>3. CASE ~(j < i)
    <3>1. j - Len(a) \in 1..(Len(s) - i) /\ i + (j - Len(a)) = j + 1
      BY <1>1, <1>5, <2>1, <2>3
    <3> QED
      BY <1>1, <1>2, <1>4, <2>1, <2>3, <3>1
  <2> QED
    BY <2>2, <2>3
<1> QED
  BY <1>3, <1>4, <1>5, <1>6

\* What a sequence holds after one of the changes the manager makes, and that it still
\* holds everything once.
LEMMA Emptied ==
  ASSUME NEW y
  PROVE  ~Contains(<<>>, y) /\ IsInjective(<<>>)
BY DEF Contains, IsInjective

LEMMA Appended ==
  ASSUME NEW S, NEW s \in Seq(S), NEW x \in S
  PROVE  /\ Append(s, x) \in Seq(S)
         /\ \A y : Contains(Append(s, x), y) <=> y = x \/ Contains(s, y)
         /\ IsInjective(s) /\ ~Contains(s, x) => IsInjective(Append(s, x))
<1> DEFINE a == Append(s, x)
<1>1. /\ a \in Seq(S) /\ Len(a) = Len(s) + 1 /\ Len(s) \in Nat
      /\ \A i \in 1..Len(s) : a[i] = s[i]
      /\ a[Len(s) + 1] = x
  BY AppendProperties, LenProperties
<1>2. DOMAIN a = 1..(Len(s) + 1) /\ DOMAIN s = 1..Len(s)
  BY <1>1, LenProperties
<1> HIDE DEF a
<1>3. \A y : Contains(a, y) <=> y = x \/ Contains(s, y)
  BY <1>1 DEF Contains
<1>4. IsInjective(s) /\ ~Contains(s, x) => IsInjective(a)
  BY <1>1, <1>2 DEF Contains, IsInjective
<1> QED
  BY <1>1, <1>3, <1>4 DEF a

LEMMA Joined ==
  ASSUME NEW S, NEW s \in Seq(S), NEW t \in Seq(S)
  PROVE  /\ s \o t \in Seq(S)
         /\ \A y : Contains(s \o t, y) <=> Contains(s, y) \/ Contains(t, y)
         /\ IsInjective(s) /\ IsInjective(t) /\ (\A y : ~(Contains(s, y) /\ Contains(t, y)))
              => IsInjective(s \o t)
<1> DEFINE a == s \o t
<1>1. /\ a \in Seq(S) /\ Len(a) = Len(s) + Len(t) /\ Len(s) \in Nat /\ Len(t) \in Nat
      /\ \A i \in 1..(Len(s) + Len(t)) : a[i] = IF i <= Len(s) THEN s[i] ELSE t[i - Len(s)]
  BY ConcatProperties, LenProperties
<1>2. DOMAIN a = 1..(Len(s) + Len(t)) /\ DOMAIN s = 1..Len(s) /\ DOMAIN t = 1..Len(t)
  BY <1>1, LenProperties
<1> HIDE DEF a
<1>3. \A i \in 1..Len(s) : i \in 1..(Len(s) + Len(t)) /\ a[i] = s[i]
  BY <1>1
<1>4. ASSUME NEW i \in 1..Len(t)
      PROVE  Len(s) + i \in 1..(Len(s) + Len(t)) /\ a[Len(s) + i] = t[i]
  <2>1. i \in Nat /\ Len(s) + i \in 1..(Len(s) + Len(t)) /\ ~(Len(s) + i <= Len(s)) /\ (Len(s) + i) - Len(s) = i
    BY <1>1
  <2> QED
    BY <1>1, <2>1
<1>5. ASSUME NEW i \in 1..(Len(s) + Len(t)), ~(i \in 1..Len(s))
      PROVE  i - Len(s) \in 1..Len(t)
  <2>1. i \in Int /\ i >= 1 /\ i <= Len(s) + Len(t) /\ i > Len(s)
    BY <1>1, <1>5
  <2> QED
    BY <1>1, <2>1
<1>6. ASSUME NEW y
      PROVE  Contains(a, y) <=> Contains(s, y) \/ Contains(t, y)
  <2>1. Contains(a, y) => Contains(s, y) \/ Contains(t, y)
    BY <1>1, <1>5 DEF Contains
  <2>2. Contains(s, y) \/ Contains(t, y) => Contains(a, y)
    BY <1>1, <1>3, <1>4 DEF Contains
  <2> QED
    BY <2>1, <2>2
<1>7. ASSUME IsInjective(s), IsInjective(t), \A y : ~(Contains(s, y) /\ Contains(t, y))
      PROVE  IsInjective(a)
  <2>1. SUFFICES ASSUME NEW i \in 1..(Len(s) + Len(t)), NEW j \in 1..(Len(s) + Len(t)), a[i] = a[j]
                 PROVE  i = j
    BY <1>2 DEF IsInjective
  <2>2. CASE i <= Len(s) /\ j <= Len(s)
    BY <1>1, <1>2, <1>7, <2>1, <2>2 DEF IsInjective
  <2>3. CASE ~(i <= Len(s)) /\ ~(j <= Len(s))
    <3>1. /\ i - Len(s) \in 1..Len(t) /\ j - Len(s) \in 1..Len(t)
          /\ t[i - Len(s)] = t[j - Len(s)]
      BY <1>1, <2>1, <2>3
    <3>2. i - Len(s) = j - Len(s)
      BY <1>2, <1>7, <3>1 DEF IsInjective
    <3> QED
      BY <1>1, <3>2
  <2>4. ASSUME NEW k \in 1..Len(s), NEW l \in 1..Len(t)
        PROVE  s[k] # t[l]
    BY <1>7 DEF Contains
  <2>5. CASE (i <= Len(s)) # (j <= Len(s))
    BY <1>1, <1>5, <2>1, <2>4, <2>5, SMTT(30)
  <2> QED
    BY <2>2, <2>3, <2>5
<1> QED
  BY <1>1, <1>6, <1>7 DEF a

LEMMA Removed ==
  ASSUME NEW S, NEW s \in Seq(S), NEW i \in 1..Len(s)
  PROVE  /\ RemoveAt(s, i) \in Seq(S)
         /\ \A y : Contains(RemoveAt(s, i), y) => Contains(s, y)
         /\ \A y : y # s[i] /\ Contains(s, y) => Contains(RemoveAt(s, i), y)
         /\ IsInjective(s) => IsInjective(RemoveAt(s, i)) /\ ~Contains(RemoveAt(s, i), s[i])
<1> DEFINE a == RemoveAt(s, i)
<1>1. /\ a \in Seq(S) /\ Len(a) = Len(s) - 1 /\ Len(s) \in Nat
      /\ \A j \in 1..(Len(s) - 1) : a[j] = IF j < i THEN s[j] ELSE s[j + 1]
  BY AtRemoved, LenProperties
<1>2. DOMAIN a = 1..(Len(s) - 1) /\ DOMAIN s = 1..Len(s)
  BY <1>1, LenProperties
<1> HIDE DEF a
<1>3. ASSUME NEW j \in 1..(Len(s) - 1)
      PROVE  \E k \in 1..Len(s) : k # i /\ k = (IF j < i THEN j ELSE j + 1) /\ a[j] = s[k]
  <2> DEFINE k == IF j < i THEN j ELSE j + 1
  <2>1. k \in 1..Len(s) /\ k # i
    BY <1>1
  <2>2. a[j] = s[k]
    BY <1>1
  <2> QED
    BY <2>1, <2>2
<1>4. ASSUME NEW k \in 1..Len(s), k # i
      PROVE  \E j \in 1..(Len(s) - 1) : a[j] = s[k]
  <2>1. CASE k < i
    <3>1. k \in 1..(Len(s) - 1)
      BY <1>1, <2>1
    <3> QED
      BY <1>1, <2>1, <3>1
  <2>2. CASE ~(k < i)
    <3>1. k - 1 \in 1..(Len(s) - 1) /\ ~(k - 1 < i) /\ (k - 1) + 1 = k
      BY <1>1, <1>4, <2>2
    <3> QED
      BY <1>1, <3>1
  <2> QED
    BY <2>1, <2>2
<1>5. \A y : Contains(a, y) => Contains(s, y)
  BY <1>1, <1>3 DEF Contains
<1>6. \A y : y # s[i] /\ Contains(s, y) => Contains(a, y)
  BY <1>1, <1>4 DEF Contains
<1>7. ASSUME IsInjective(s)
      PROVE  IsInjective(a) /\ ~Contains(a, s[i])
  <2>1. ~Contains(a, s[i])
    BY <1>1, <1>2, <1>3, <1>7 DEF Contains, IsInjective
  <2>2. ASSUME NEW j \in 1..(Len(s) - 1), NEW l \in 1..(Len(s) - 1), a[j] = a[l]
        PROVE  j = l
    <3>1. PICK k \in 1..Len(s) : k # i /\ k = (IF j < i THEN j ELSE j + 1) /\ a[j] = s[k]
      BY <1>3
    <3>2. PICK n \in 1..Len(s) : n # i /\ n = (IF l < i THEN l ELSE l + 1) /\ a[l] = s[n]
      BY <1>3
    <3>3. k = n
      BY <1>2, <1>7, <2>2, <3>1, <3>2 DEF IsInjective
    <3> QED
      BY <3>1, <3>2, <3>3
  <2> QED
    BY <1>2, <2>1, <2>2 DEF IsInjective
<1> QED
  BY <1>1, <1>5, <1>6, <1>7 DEF a

LEMMA Shortened ==
  ASSUME NEW S, NEW s \in Seq(S), s # <<>>
  PROVE  /\ Tail(s) \in Seq(S) /\ Head(s) \in S /\ Contains(s, Head(s))
         /\ \A y : Contains(Tail(s), y) => Contains(s, y)
         /\ \A y : y # Head(s) /\ Contains(s, y) => Contains(Tail(s), y)
         /\ IsInjective(s) => IsInjective(Tail(s)) /\ ~Contains(Tail(s), Head(s))
<1> DEFINE a == Tail(s)
<1>1. /\ a \in Seq(S) /\ Len(a) = Len(s) - 1 /\ Len(s) \in Nat \ {0} /\ Head(s) = s[1] /\ Head(s) \in S
      /\ \A j \in 1..Len(a) : a[j] = s[j + 1]
  BY HeadTailProperties, EmptySeq
<1>2. DOMAIN a = 1..(Len(s) - 1) /\ DOMAIN s = 1..Len(s)
  BY <1>1, LenProperties
<1> HIDE DEF a
<1>3. ASSUME NEW j \in 1..(Len(s) - 1)
      PROVE  j + 1 \in 1..Len(s) /\ j + 1 # 1 /\ a[j] = s[j + 1]
  BY <1>1
<1>4. ASSUME NEW k \in 1..Len(s), k # 1
      PROVE  k - 1 \in 1..(Len(s) - 1) /\ a[k - 1] = s[k]
  <2>1. k - 1 \in 1..(Len(s) - 1) /\ (k - 1) + 1 = k
    BY <1>1, <1>4
  <2> QED
    BY <1>1, <2>1
<1>5. \A y : Contains(a, y) => Contains(s, y)
  BY <1>1, <1>3 DEF Contains
<1>6. \A y : y # s[1] /\ Contains(s, y) => Contains(a, y)
  BY <1>1, <1>4 DEF Contains
<1>7. ASSUME IsInjective(s)
      PROVE  IsInjective(a) /\ ~Contains(a, s[1])
  <2>1. 1 \in 1..Len(s)
    BY <1>1
  <2>2. ~Contains(a, s[1])
    BY <1>1, <1>2, <1>3, <1>7, <2>1 DEF Contains, IsInjective
  <2>3. ASSUME NEW j \in 1..(Len(s) - 1), NEW l \in 1..(Len(s) - 1), a[j] = a[l]
        PROVE  j = l
    <3>1. j + 1 = l + 1
      BY <1>2, <1>3, <1>7, <2>3 DEF IsInjective
    <3> QED
      BY <3>1
  <2> QED
    BY <1>2, <2>2, <2>3 DEF IsInjective
<1>8. Contains(s, s[1])
  BY <1>1 DEF Contains
<1> QED
  BY <1>1, <1>5, <1>6, <1>7, <1>8 DEF a

LEMMA Inserted ==
  ASSUME NEW S, NEW s \in Seq(S), NEW i \in 1..(Len(s) + 1), NEW x \in S
  PROVE  /\ InsertAt(s, i, x) \in Seq(S)
         /\ \A y : Contains(InsertAt(s, i, x), y) <=> y = x \/ Contains(s, y)
         /\ IsInjective(s) /\ ~Contains(s, x) => IsInjective(InsertAt(s, i, x))
<1> DEFINE a == SubSeq(s, 1, i - 1)
           b == SubSeq(s, i, Len(s))
<1>0. Len(s) \in Nat /\ DOMAIN s = 1..Len(s) /\ \A j \in 1..Len(s) : s[j] \in S
  BY LenProperties, ElementOfSeq
<1>1. /\ a \in Seq(S) /\ Len(a) = i - 1
      /\ \A j \in 1..(i - 1) : a[j] = s[j]
  <2>1. \A j \in 1..(i - 1) : s[j] \in S
    BY <1>0
  <2>2. /\ a \in Seq(S) /\ Len(a) = IF 1 <= i - 1 THEN (i - 1) - 1 + 1 ELSE 0
        /\ \A j \in 1..((i - 1) - 1 + 1) : a[j] = s[1 + j - 1]
    BY <2>1, SubSeqProperties, <1>0
  <2> QED
    BY <1>0, <2>2
<1>2. /\ b \in Seq(S) /\ Len(b) = Len(s) - i + 1
      /\ \A j \in 1..(Len(s) - i + 1) : b[j] = s[i + j - 1]
  <2>1. \A j \in i..Len(s) : s[j] \in S
    BY <1>0
  <2>2. /\ b \in Seq(S) /\ Len(b) = IF i <= Len(s) THEN Len(s) - i + 1 ELSE 0
        /\ \A j \in 1..(Len(s) - i + 1) : b[j] = s[i + j - 1]
    BY <2>1, SubSeqProperties, <1>0
  <2> QED
    BY <1>0, <2>2
<1>3. InsertAt(s, i, x) = a \o <<x>> \o b /\ Append(a, x) = a \o <<x>>
  BY <1>1, AppendIsConcat DEF InsertAt
<1>4. DOMAIN a = 1..(i - 1) /\ DOMAIN b = 1..(Len(s) - i + 1)
  BY <1>1, <1>2, LenProperties
<1> HIDE DEF a, b
<1>5. \A y : Contains(a, y) \/ Contains(b, y) <=> Contains(s, y)
  <2>1. ASSUME NEW y, Contains(a, y) \/ Contains(b, y)
        PROVE  Contains(s, y)
    <3>1. CASE Contains(a, y)
      BY <1>0, <1>1, <3>1 DEF Contains
    <3>2. CASE Contains(b, y)
      <4>1. PICK j \in 1..(Len(s) - i + 1) : s[i + j - 1] = y
        BY <1>2, <3>2 DEF Contains
      <4>2. i + j - 1 \in 1..Len(s)
        BY <1>0
      <4> QED
        BY <4>1, <4>2 DEF Contains
    <3> QED
      BY <2>1, <3>1, <3>2
  <2>2. ASSUME NEW y, NEW k \in 1..Len(s), s[k] = y
        PROVE  Contains(a, y) \/ Contains(b, y)
    <3>1. CASE k < i
      <4>1. k \in 1..(i - 1)
        BY <1>0, <3>1
      <4> QED
        BY <1>1, <2>2, <4>1 DEF Contains
    <3>2. CASE ~(k < i)
      <4>1. k - i + 1 \in 1..(Len(s) - i + 1) /\ i + (k - i + 1) - 1 = k
        BY <1>0, <3>2
      <4>2. b[k - i + 1] = y
        BY <1>2, <2>2, <4>1
      <4> QED
        BY <1>2, <4>1, <4>2 DEF Contains
    <3> QED
      BY <3>1, <3>2
  <2> QED
    BY <2>1, <2>2 DEF Contains
<1>6. /\ Append(a, x) \in Seq(S) /\ \A y : Contains(Append(a, x), y) <=> y = x \/ Contains(a, y)
      /\ IsInjective(a) /\ ~Contains(a, x) => IsInjective(Append(a, x))
  BY <1>1, Appended
<1>7. IsInjective(s) => /\ IsInjective(a) /\ IsInjective(b)
                        /\ \A y : ~(Contains(a, y) /\ Contains(b, y))
  <2>1. SUFFICES ASSUME \A k, n \in 1..Len(s) : s[k] = s[n] => k = n
                 PROVE  /\ IsInjective(a) /\ IsInjective(b)
                        /\ \A y : ~(Contains(a, y) /\ Contains(b, y))
    BY <1>0 DEF IsInjective
  <2>2. \A j \in 1..(i - 1) : j \in 1..Len(s) /\ a[j] = s[j] /\ j < i
    BY <1>0, <1>1
  <2>3. \A j \in 1..(Len(s) - i + 1) : i + j - 1 \in 1..Len(s) /\ b[j] = s[i + j - 1] /\ ~(i + j - 1 < i)
    BY <1>0, <1>2
  <2>4. IsInjective(a)
    BY <1>4, <2>1, <2>2 DEF IsInjective
  <2>5. ASSUME NEW j \in 1..(Len(s) - i + 1), NEW l \in 1..(Len(s) - i + 1), b[j] = b[l]
        PROVE  j = l
    <3>1. i + j - 1 = i + l - 1
      BY <2>1, <2>3, <2>5
    <3> QED
      BY <1>0, <3>1
  <2>6. \A y : ~(Contains(a, y) /\ Contains(b, y))
    <3>1. SUFFICES ASSUME NEW j \in 1..(i - 1), NEW l \in 1..(Len(s) - i + 1), a[j] = b[l]
                   PROVE  FALSE
      BY <1>1, <1>2 DEF Contains
    <3>2. j = i + l - 1
      BY <2>1, <2>2, <2>3, <3>1
    <3> QED
      BY <2>2, <2>3, <3>2
  <2> QED
    BY <1>4, <2>4, <2>5, <2>6 DEF IsInjective
<1>8. Append(a, x) \o b = InsertAt(s, i, x)
  BY <1>3
<1>9. /\ Append(a, x) \o b \in Seq(S)
      /\ \A y : Contains(Append(a, x) \o b, y) <=> Contains(Append(a, x), y) \/ Contains(b, y)
      /\ IsInjective(Append(a, x)) /\ IsInjective(b) /\ (\A y : ~(Contains(Append(a, x), y) /\ Contains(b, y)))
           => IsInjective(Append(a, x) \o b)
  BY <1>2, <1>6, Joined
<1>10. ASSUME IsInjective(s), ~Contains(s, x)
       PROVE  IsInjective(Append(a, x) \o b)
  BY <1>5, <1>6, <1>7, <1>9, <1>10
<1> QED
  BY <1>5, <1>6, <1>8, <1>9, <1>10

\* A finite set in some order.
LEMMA InOrder ==
  ASSUME NEW S, NEW T \in SUBSET S, IsFiniteSet(T)
  PROVE  /\ SetToSeq(T) \in Seq(S) /\ IsInjective(SetToSeq(T))
         /\ \A y : Contains(SetToSeq(T), y) <=> y \in T
<1> DEFINE n == Cardinality(T)
<1>1. n \in Nat /\ IsFiniteSet(1..n) /\ Cardinality(1..n) = n
  BY FS_CardinalityType, FS_Interval
<1>2. PICK f \in [1..n -> T] : IsInjective(f) /\ f = SetToSeq(T)
  <2>1. \E f \in [1..n -> T] : IsInjective(f)
    BY FS_CardinalityType DEF ExistsBijection, Bijection, Injection
  <2> QED
    BY <2>1 DEF SetToSeq
<1>3. f \in Injection(1..n, T)
  BY <1>2 DEF Injection
<1>4. f \in Surjection(1..n, T)
  BY <1>1, <1>3, FS_Injection
<1>5. f \in Seq(T) /\ f \in Seq(S) /\ Len(f) = n
  BY <1>1, <1>2
<1> QED
  BY <1>2, <1>4, <1>5 DEF Surjection, Contains

\* The line without one chat, and without its first ones.
LEMMA LineLeft ==
  ASSUME NEW S, NEW s \in Seq(S), NEW x
  PROVE  /\ RemoveFirst(s, x) \in Seq(S)
         /\ \A y : Contains(RemoveFirst(s, x), y) => Contains(s, y)
         /\ \A y : y # x /\ Contains(s, y) => Contains(RemoveFirst(s, x), y)
<1>1. CASE Contains(s, x)
  <2>1. PICK i \in 1..Len(s) : s[i] = x /\ RemoveFirst(s, x) = RemoveAt(s, i)
    BY <1>1, FirstOf
  <2> QED
    BY <2>1, Removed
<1>2. CASE ~Contains(s, x)
  <2>1. RemoveFirst(s, x) = s
    BY <1>2 DEF RemoveFirst, Contains
  <2> QED
    BY <2>1
<1> QED
  BY <1>1, <1>2

LEMMA LineRest ==
  ASSUME NEW S, NEW s \in Seq(S), NEW i \in 1..Len(s)
  PROVE  /\ SubSeq(s, i + 1, Len(s)) \in Seq(S)
         /\ \A y : Contains(SubSeq(s, i + 1, Len(s)), y) => Contains(s, y)
         /\ \A j \in 1..Len(s) : j > i => Contains(SubSeq(s, i + 1, Len(s)), s[j])
<1> DEFINE b == SubSeq(s, i + 1, Len(s))
<1>0. Len(s) \in Nat /\ \A j \in 1..Len(s) : s[j] \in S
  BY LenProperties, ElementOfSeq
<1>1. /\ b \in Seq(S) /\ Len(b) = Len(s) - i
      /\ \A j \in 1..(Len(s) - i) : b[j] = s[i + j]
  <2>1. /\ b \in Seq(S) /\ Len(b) = IF i + 1 <= Len(s) THEN Len(s) - (i + 1) + 1 ELSE 0
        /\ \A j \in 1..(Len(s) - (i + 1) + 1) : b[j] = s[(i + 1) + j - 1]
    BY <1>0, SubSeqProperties
  <2> QED
    BY <1>0, <2>1
<1> HIDE DEF b
<1>2. \A j \in 1..(Len(s) - i) : i + j \in 1..Len(s)
  BY <1>0
<1>3. ASSUME NEW j \in 1..Len(s), j > i
      PROVE  Contains(b, s[j])
  <2>1. j - i \in 1..(Len(s) - i) /\ i + (j - i) = j
    BY <1>0, <1>3
  <2>2. b[j - i] = s[j]
    BY <1>1, <2>1
  <2> QED
    BY <1>1, <2>1, <2>2 DEF Contains
<1> QED
  BY <1>1, <1>2, <1>3 DEF b, Contains

-----------------------------------------------------------------------------
(* The manager.                                                            *)

TurnType ==
  [chat : Chat \cup {0}, image : BOOLEAN, aborted : BOOLEAN,
   step : {"free", "unwind", "fold", "engine", "ask", "backoff", "draw"},
   after : Turn \cup {0}, late : BOOLEAN, waits : BOOLEAN, tries : 0..Retries, barged : BOOLEAN]

Item == Message \cup Report
Manager ==
  [turn : [Turn -> TurnType], runs : [Chat -> Turn \cup {0}], settling : [Chat -> Turn \cup {0}],
   queue : [Chat -> Seq(Item)], steers : [Chat -> Seq(Item)], parked : [Chat -> Item \cup {0}],
   line : Seq(Chat), folds : SUBSET Chat, stopped : SUBSET Chat, wakes : [Chat -> Nat],
   inbox : [Chat -> SUBSET Report], replies : [Chat -> SUBSET SUBSET Report],
   told : [Chat -> SUBSET Item], dropped : SUBSET Item, window : 0..Windows]

\* A chat's turn is one of its own, and under way.
Owned(s) ==
  /\ \A t \in Turn : s.turn[t].step # "free" => s.turn[t].chat \in Chat
  /\ \A c \in Chat : s.runs[c] # 0 => s.turn[s.runs[c]].chat = c /\ s.turn[s.runs[c]].step # "free"

\* Two turns that did not barge in are one.
Solo(s) ==
  \A c, d \in Running(s) : ~s.turn[s.runs[c]].barged /\ ~s.turn[s.runs[d]].barged => c = d

\* A parked message has its place in the line, and what the user wrote for a turn waits
\* beside one that reads notes.
Lined(s) == \A c \in Chat : s.parked[c] # 0 => Contains(s.line, c)
Noted(s) ==
  \A c \in Chat, x \in Message : Contains(s.steers[c], x) =>
    s.runs[c] # 0 /\ ~s.turn[s.runs[c]].image

Base(s) == s \in Manager /\ Owned(s) /\ Solo(s) /\ Lined(s) /\ Noted(s)

\* The line does not wait for nobody.
Served(s) == Running(s) = {} => s.line = <<>>

\* What a step leaves alone
SameTurn(r, s, t) ==
  /\ r.turn[t].chat = s.turn[t].chat /\ r.turn[t].step = s.turn[t].step
  /\ r.turn[t].image = s.turn[t].image /\ r.turn[t].barged = s.turn[t].barged
SameNotes(r, s) ==
  /\ r.queue = s.queue /\ r.steers = s.steers /\ r.parked = s.parked /\ r.inbox = s.inbox
  /\ r.replies = s.replies /\ r.told = s.told /\ r.dropped = s.dropped

LEMMA Zero == 0 \notin Turn /\ 0 \notin Item /\ Message \cap Report = {}
BY ConstantsAssumption DEF Turn, Item, Message, Report

LEMMA Aborts ==
  ASSUME NEW s \in Manager, NEW c \in Chat
  PROVE  /\ Abort(s, c) \in Manager /\ Abort(s, c).runs = s.runs /\ Abort(s, c).line = s.line
         /\ Abort(s, c).settling = s.settling
         /\ SameNotes(Abort(s, c), s) /\ \A t \in Turn : SameTurn(Abort(s, c), s, t)
<1> DEFINE new(t) == [s.turn[t] EXCEPT !.aborted = @ \/ t = s.runs[c]]
<1>1. \A t \in Turn : s.turn[t] \in TurnType
  BY DEF Manager
<1>2. \A t \in Turn : /\ new(t) \in TurnType /\ new(t).chat = s.turn[t].chat /\ new(t).step = s.turn[t].step
                      /\ new(t).image = s.turn[t].image /\ new(t).barged = s.turn[t].barged
  BY <1>1 DEF TurnType
<1>3. Abort(s, c) = [s EXCEPT !.turn = [t \in Turn |-> new(t)]]
  BY DEF Abort
<1> HIDE DEF new
<1>4. [t \in Turn |-> new(t)] \in [Turn -> TurnType]
  BY <1>2
<1> QED
  BY <1>2, <1>3, <1>4, ZenonT(60) DEF Manager, SameNotes, SameTurn

\* A turn begins on a free one, and replaces the chat's.
Begun(r, s, c, w) ==
  \E t \in Turn :
    /\ s.turn[t].step = "free" /\ r.runs = [s.runs EXCEPT ![c] = t]
    /\ r.turn[t].chat = c /\ r.turn[t].step # "free" /\ ~r.turn[t].image
    /\ ~w => r.turn[t].barged
    /\ \A u \in Turn : u # t => SameTurn(r, s, u)

LEMMA RunShape ==
  ASSUME NEW s \in Manager, NEW c \in Chat, NEW w \in BOOLEAN, Free(s) # {}, NEW r, r = Run(s, c, w)
  PROVE  /\ r \in Manager /\ SameNotes(r, s) /\ r.line = s.line
         /\ Begun(r, s, c, w)
<1>1. PICK t \in Turn : t = (CHOOSE x \in Free(s) : TRUE) /\ s.turn[t].step = "free"
  BY DEF Free
<1> DEFINE turn == [FreeTurn EXCEPT !.chat = c, !.after = s.settling[c], !.tries = Retries,
                                    !.waits = w /\ c \in s.folds, !.barged = ~w]
           new == [turn EXCEPT !.step = IF turn.after # 0 THEN "unwind" ELSE AfterUnwinding(turn)]
           a == Abort(s, c)
<1>2. turn \in TurnType /\ turn.chat = c /\ ~turn.image /\ (~w => turn.barged)
  <2>1. PICK barged \in BOOLEAN : barged = ~w
    OBVIOUS
  <2>2. PICK waits \in BOOLEAN : waits = (w /\ c \in s.folds)
    OBVIOUS
  <2>3. s.settling[c] \in Turn \cup {0} /\ Retries \in 0..Retries
    BY ConstantsAssumption DEF Manager
  <2>4. turn = [FreeTurn EXCEPT !.chat = c, !.after = s.settling[c], !.tries = Retries,
                                !.waits = waits, !.barged = barged]
    BY <2>1, <2>2
  <2> HIDE DEF turn
  <2>5. turn \in TurnType /\ turn.chat = c /\ turn.image = FALSE /\ turn.barged = barged
    BY <2>3, <2>4 DEF TurnType, FreeTurn
  <2> QED
    BY <2>1, <2>5
<1>3. new \in TurnType /\ new.chat = c /\ ~new.image /\ (~w => new.barged) /\ new.step # "free"
  <2> HIDE DEF turn
  <2>1. AfterUnwinding(turn) \in {"fold", "engine"}
    BY DEF AfterUnwinding
  <2> QED
    BY <1>2, <2>1 DEF TurnType
<1>4. r = [a EXCEPT !.runs[c] = t, !.settling[c] = t, !.turn[t] = new]
  BY <1>1 DEF Run
<1>5. /\ a \in Manager /\ a.runs = s.runs /\ a.line = s.line /\ a.settling = s.settling
      /\ SameNotes(a, s) /\ \A u \in Turn : SameTurn(a, s, u)
  BY Aborts
<1> HIDE DEF turn, new, a
<1>6. r = [a EXCEPT !.runs = [a.runs EXCEPT ![c] = t], !.settling = [a.settling EXCEPT ![c] = t],
                    !.turn = [a.turn EXCEPT ![t] = new]]
  BY <1>4, <1>5 DEF Manager
<1>7. /\ [a.runs EXCEPT ![c] = t] \in [Chat -> Turn \cup {0}]
      /\ [a.settling EXCEPT ![c] = t] \in [Chat -> Turn \cup {0}]
      /\ [a.turn EXCEPT ![t] = new] \in [Turn -> TurnType] /\ [a.turn EXCEPT ![t] = new][t] = new
      /\ \A u \in Turn : u # t => [a.turn EXCEPT ![t] = new][u] = a.turn[u]
  BY <1>3, <1>5 DEF Manager
<1>8. /\ r \in Manager /\ SameNotes(r, a) /\ r.line = a.line
      /\ r.runs = [a.runs EXCEPT ![c] = t] /\ r.turn = [a.turn EXCEPT ![t] = new]
  <2> DEFINE runs == [a.runs EXCEPT ![c] = t]
             settling == [a.settling EXCEPT ![c] = t]
             turns == [a.turn EXCEPT ![t] = new]
  <2>1. r = [a EXCEPT !.runs = runs, !.settling = settling, !.turn = turns]
    BY <1>6
  <2>2. runs \in [Chat -> Turn \cup {0}] /\ settling \in [Chat -> Turn \cup {0}] /\ turns \in [Turn -> TurnType]
    BY <1>7
  <2> HIDE DEF runs, settling, turns
  <2>3. r \in Manager /\ r.runs = runs /\ r.turn = turns /\ r.line = a.line
    BY <1>5, <2>1, <2>2, ZenonT(60) DEF Manager
  <2>4. SameNotes(r, a)
    BY <1>5, <2>1 DEF Manager, SameNotes
  <2> QED
    BY <2>3, <2>4 DEF runs, turns
<1>9. r.runs = [s.runs EXCEPT ![c] = t] /\ SameNotes(r, s) /\ r.line = s.line
  BY <1>5, <1>8 DEF SameNotes
<1>10. \A u \in Turn : u # t => SameTurn(r, s, u)
  BY <1>5, <1>7, <1>8 DEF SameTurn
<1>11. r.turn[t].chat = c /\ r.turn[t].step # "free" /\ ~r.turn[t].image /\ (~w => r.turn[t].barged)
  BY <1>3, <1>7, <1>8
<1>12. Begun(r, s, c, w)
  BY <1>1, <1>9, <1>10, <1>11 DEF Begun
<1> QED
  BY <1>8, <1>9, <1>12

-----------------------------------------------------------------------------
(* Where an item is.                                                       *)

Kind == {"queue", "steers", "parked", "inbox", "reply", "told", "dropped"}
Spot == Chat \cup {0}

Lies(s, x, k, c) ==
  \/ k = "queue" /\ c \in Chat /\ Contains(s.queue[c], x)
  \/ k = "steers" /\ c \in Chat /\ Contains(s.steers[c], x)
  \/ k = "parked" /\ c \in Chat /\ s.parked[c] = x
  \/ k = "inbox" /\ c \in Chat /\ x \in s.inbox[c]
  \/ k = "reply" /\ c \in Chat /\ \E items \in s.replies[c] : x \in items
  \/ k = "told" /\ c \in Chat /\ x \in s.told[c]
  \/ k = "dropped" /\ c = 0 /\ x \in s.dropped

Distinct(s) ==
  \A c \in Chat : /\ IsInjective(s.queue[c]) /\ IsInjective(s.steers[c])
                  /\ \A a, b \in s.replies[c] : a # b => a \cap b = {}

Only(s, x, k, c) == \A l \in Kind, d \in Spot : Lies(s, x, l, d) <=> l = k /\ d = c
Stays(r, s, x) == \A k \in Kind, c \in Spot : Lies(r, x, k, c) <=> Lies(s, x, k, c)

\* Each of X is in one place, and nothing else is anywhere.
Once(s, X) ==
  /\ Distinct(s)
  /\ \A x \in Item : IF x \in X THEN \E k \in Kind, c \in Spot : Only(s, x, k, c)
                     ELSE \A k \in Kind, c \in Spot : ~Lies(s, x, k, c)

LEMMA SamePlaces ==
  ASSUME NEW s, NEW r, SameNotes(r, s)
  PROVE  \A X : Once(s, X) => Once(r, X)
<1>1. \A x, k, c : Lies(r, x, k, c) <=> Lies(s, x, k, c)
  BY DEF SameNotes, Lies
<1>2. Distinct(r) <=> Distinct(s)
  BY DEF SameNotes, Distinct
<1>3. \A x, k, c : Only(r, x, k, c) <=> Only(s, x, k, c)
  BY <1>1 DEF Only
<1> HIDE DEF Lies, Only
<1> QED
  BY <1>1, <1>2, <1>3 DEF Once

\* Some items come to one place, the others stay.
LEMMA ComeTo ==
  ASSUME NEW s, NEW r, NEW X, NEW Y, Once(s, X), NEW I \in SUBSET Item, NEW k \in Kind, NEW c \in Spot,
         Distinct(r), \A x \in Item \ I : Stays(r, s, x), \A x \in I : Only(r, x, k, c),
         \A x \in Item : x \in Y <=> x \in X \/ x \in I
  PROVE  Once(r, Y)
<1>1. ASSUME NEW x \in I
      PROVE  x \in Y /\ \E l \in Kind, d \in Spot : Only(r, x, l, d)
  OBVIOUS
<1>2. ASSUME NEW x \in Item \ I, x \in Y
      PROVE  \E l \in Kind, d \in Spot : Only(r, x, l, d)
  <2>1. PICK l \in Kind, d \in Spot : Only(s, x, l, d)
    BY <1>2 DEF Once
  <2>2. Only(r, x, l, d)
    BY <2>1 DEF Only, Stays
  <2> QED
    BY <2>2
<1>3. ASSUME NEW x \in Item \ I, x \notin Y
      PROVE  \A l \in Kind, d \in Spot : ~Lies(r, x, l, d)
  BY <1>3 DEF Once, Stays
<1> QED
  BY <1>1, <1>2, <1>3 DEF Once

LEMMA OneComesTo ==
  ASSUME NEW s, NEW r, NEW X, Once(s, X), NEW x \in Item, NEW k \in Kind, NEW c \in Spot,
         Distinct(r), \A y \in Item \ {x} : Stays(r, s, y), Only(r, x, k, c)
  PROVE  Once(r, X \cup {x})
<1> DEFINE I == {x}
           Y == X \cup {x}
<1>1. I \in SUBSET Item /\ (\A y \in I : Only(r, y, k, c)) /\ \A y \in Item \ I : Stays(r, s, y)
  OBVIOUS
<1>2. \A y \in Item : y \in Y <=> y \in X \/ y \in I
  OBVIOUS
<1> HIDE DEF I, Y
<1>3. Once(r, Y)
  BY <1>1, <1>2, ComeTo
<1> QED
  BY <1>3 DEF Y

LEMMA OneLeaves ==
  ASSUME NEW s, NEW r, NEW X, Once(s, X), NEW x \in Item,
         Distinct(r), \A y \in Item \ {x} : Stays(r, s, y), \A k \in Kind, c \in Spot : ~Lies(r, x, k, c)
  PROVE  Once(r, X \ {x})
<1>1. ASSUME NEW y \in Item \ {x}, y \in X
      PROVE  \E l \in Kind, d \in Spot : Only(r, y, l, d)
  <2>1. PICK l \in Kind, d \in Spot : Only(s, y, l, d)
    BY <1>1 DEF Once
  <2>2. Only(r, y, l, d)
    BY <2>1 DEF Only, Stays
  <2> QED
    BY <2>2
<1>2. ASSUME NEW y \in Item \ {x}, y \notin X
      PROVE  \A l \in Kind, d \in Spot : ~Lies(r, y, l, d)
  BY <1>2 DEF Once, Stays
<1> QED
  BY <1>1, <1>2 DEF Once

\* What is somewhere is nowhere else.
LEMMA OnlyThere ==
  ASSUME NEW s, NEW X, Once(s, X), NEW x \in Item, NEW k \in Kind, NEW c \in Spot, Lies(s, x, k, c)
  PROVE  x \in X /\ Only(s, x, k, c)
<1>1. x \in X
  BY DEF Once
<1>2. PICK l \in Kind, d \in Spot : Only(s, x, l, d)
  BY <1>1 DEF Once
<1>3. l = k /\ d = c
  BY <1>2 DEF Only
<1> QED
  BY <1>1, <1>2, <1>3

-----------------------------------------------------------------------------
(* Turns that begin.                                                       *)

\* Whoever else runs has barged in.
Calm(s, c) == \A d \in Running(s) \ {c} : s.turn[s.runs[d]].barged

\* One turn at most has begun.
TakesOne(r, s) == \E t : Free(s) \ {t} \subseteq Free(r)

LEMMA Untouched ==
  ASSUME NEW s, Base(s), NEW r \in Manager, r.turn = s.turn, r.runs = s.runs, Lined(r), Noted(r)
  PROVE  /\ Base(r) /\ Running(r) = Running(s) /\ Free(r) = Free(s)
         /\ \A c \in Chat : Calm(r, c) <=> Calm(s, c)
BY DEF Base, Owned, Solo, Running, Free, Calm

LEMMA RunKeeps ==
  ASSUME NEW s, Base(s), NEW c \in Chat, NEW w \in BOOLEAN, Free(s) # {}, w => Calm(s, c),
         NEW r, r = Run(s, c, w)
  PROVE  /\ Base(r) /\ SameNotes(r, s) /\ r.line = s.line
         /\ Running(r) = Running(s) \cup {c} /\ r.runs[c] # 0
         /\ TakesOne(r, s)
<1>0. s \in Manager /\ Owned(s) /\ Solo(s) /\ Lined(s) /\ Noted(s) /\ 0 \notin Turn
  BY Zero DEF Base
<1>1. /\ r \in Manager /\ SameNotes(r, s) /\ r.line = s.line
      /\ Begun(r, s, c, w)
  BY <1>0, RunShape
<1>2. PICK t \in Turn :
        /\ s.turn[t].step = "free" /\ r.runs = [s.runs EXCEPT ![c] = t]
        /\ r.turn[t].chat = c /\ r.turn[t].step # "free" /\ ~r.turn[t].image
        /\ ~w => r.turn[t].barged
        /\ \A u \in Turn : u # t => SameTurn(r, s, u)
  BY <1>1 DEF Begun
<1>3. r.runs[c] = t /\ t # 0 /\ \A d \in Chat \ {c} : r.runs[d] = s.runs[d]
  BY <1>0, <1>2 DEF Manager
<1>4. \A d \in Chat : s.runs[d] # 0 => s.runs[d] \in Turn /\ s.runs[d] # t /\ SameTurn(r, s, s.runs[d])
  BY <1>0, <1>2 DEF Manager, Owned
<1>5. Owned(r)
  <2>1. ASSUME NEW u \in Turn, r.turn[u].step # "free"
        PROVE  r.turn[u].chat \in Chat
    BY <1>0, <1>2, <2>1 DEF Owned, SameTurn
  <2>2. ASSUME NEW d \in Chat, r.runs[d] # 0
        PROVE  r.turn[r.runs[d]].chat = d /\ r.turn[r.runs[d]].step # "free"
    BY <1>0, <1>2, <1>3, <1>4, <2>2 DEF Owned, SameTurn
  <2> QED
    BY <2>1, <2>2 DEF Owned
<1>6. Running(r) = Running(s) \cup {c}
  BY <1>3 DEF Running
<1>7. Solo(r)
  <2>1. SUFFICES ASSUME NEW d \in Running(r), NEW e \in Running(r), d # e,
                        ~r.turn[r.runs[d]].barged, ~r.turn[r.runs[e]].barged
                 PROVE  FALSE
    BY DEF Solo
  <2>2. \A f \in Chat \ {c} : f \in Running(r) =>
          f \in Running(s) /\ r.turn[r.runs[f]].barged = s.turn[s.runs[f]].barged
    BY <1>3, <1>4 DEF Running, SameTurn
  <2>3. CASE d # c /\ e # c
    BY <1>0, <2>1, <2>2, <2>3 DEF Running, Solo
  <2>4. CASE d = c \/ e = c
    <3>1. w
      BY <1>2, <1>3, <2>1, <2>4
    <3> QED
      BY <2>1, <2>2, <2>4, <3>1 DEF Running, Calm
  <2> QED
    BY <2>3, <2>4
<1>8. Lined(r)
  BY <1>0, <1>1 DEF Lined, SameNotes
<1>9. Noted(r)
  <2>1. SUFFICES ASSUME NEW d \in Chat, NEW x \in Message, Contains(s.steers[d], x)
                 PROVE  r.runs[d] # 0 /\ ~r.turn[r.runs[d]].image
    BY <1>1 DEF Noted, SameNotes
  <2> QED
    BY <1>0, <1>2, <1>3, <1>4, <2>1 DEF Noted, SameTurn
<1>10. TakesOne(r, s)
  BY <1>2 DEF Free, SameTurn, TakesOne
<1> QED
  BY <1>1, <1>3, <1>5, <1>6, <1>7, <1>8, <1>9, <1>10 DEF Base

\* A message, or what has ended, is written into a chat and answered at once.
LEMMA DeliverKeeps ==
  ASSUME NEW s, Base(s), NEW c \in Chat, NEW items \in SUBSET Item, Free(s) # {}, Calm(s, c),
         NEW r, r = Deliver(s, c, items)
  PROVE  /\ Base(r) /\ r.line = s.line /\ Running(r) = Running(s) \cup {c} /\ r.runs[c] # 0
         /\ TakesOne(r, s)
         /\ \A X : Once(s, X) /\ items \cap X = {} => Once(r, X \cup items)
<1> DEFINE p == [s EXCEPT !.told[c] = @ \cup items]
<1>0. s \in Manager /\ Lined(s) /\ Noted(s)
  BY DEF Base
<1>1. /\ p \in Manager /\ p.turn = s.turn /\ p.runs = s.runs /\ p.line = s.line
      /\ p.queue = s.queue /\ p.steers = s.steers /\ p.parked = s.parked /\ p.inbox = s.inbox
      /\ p.replies = s.replies /\ p.dropped = s.dropped
      /\ \A d \in Chat : p.told[d] = IF d = c THEN s.told[c] \cup items ELSE s.told[d]
  <2>1. s.told \in [Chat -> SUBSET Item]
    BY <1>0 DEF Manager
  <2>2. [s.told EXCEPT ![c] = @ \cup items] \in [Chat -> SUBSET Item]
    BY <2>1
  <2> QED
    BY <1>0, <2>1, <2>2 DEF Manager
<1>2. r = Run(p, c, TRUE)
  BY DEF Deliver
<1> HIDE DEF p
<1>3. Lined(p) /\ Noted(p)
  BY <1>0, <1>1 DEF Lined, Noted
<1>4. Base(p) /\ Running(p) = Running(s) /\ Free(p) = Free(s) /\ Calm(p, c)
  BY <1>1, <1>3, Untouched
<1>5. /\ Base(r) /\ SameNotes(r, p) /\ r.line = p.line
      /\ Running(r) = Running(p) \cup {c} /\ r.runs[c] # 0
      /\ TakesOne(r, p)
  BY <1>2, <1>4, RunKeeps
<1>7. TakesOne(r, s)
  BY <1>4, <1>5 DEF TakesOne
<1>6. ASSUME NEW X, Once(s, X), items \cap X = {}
      PROVE  Once(r, X \cup items)
  <2>1. Distinct(p)
    BY <1>1, <1>6 DEF Once, Distinct
  <2>2. \A x \in Item \ items : Stays(p, s, x)
    BY <1>1 DEF Stays, Lies
  <2>3. \A x \in items : \A k \in Kind, d \in Spot : ~Lies(s, x, k, d)
    BY <1>6 DEF Once
  <2>4. \A x \in items : Only(p, x, "told", c)
    BY <1>1, <2>3 DEF Only, Lies
  <2>5. Once(p, X \cup items)
    <3>1. "told" \in Kind /\ c \in Spot
      BY DEF Kind, Spot
    <3> QED
      BY <1>6, <2>1, <2>2, <2>4, <3>1, ComeTo
  <2> QED
    BY <1>5, <2>5, SamePlaces
<1> QED
  BY <1>1, <1>4, <1>5, <1>6, <1>7

LEMMA LineUp ==
  ASSUME NEW s \in Manager, NEW c \in Chat, NEW r, r = WaitForTurn(s, c)
  PROVE  /\ r \in Manager /\ SameNotes(r, s) /\ r.turn = s.turn /\ r.runs = s.runs
         /\ Contains(r.line, c) /\ \A d : Contains(s.line, d) => Contains(r.line, d)
<1>1. CASE Contains(s.line, c)
  <2>1. r = s
    BY <1>1 DEF WaitForTurn
  <2> QED
    BY <1>1, <2>1 DEF SameNotes
<1>2. CASE ~Contains(s.line, c)
  <2>1. r = [s EXCEPT !.line = Append(s.line, c)] /\ s.line \in Seq(Chat)
    BY <1>2 DEF WaitForTurn, Manager
  <2>2. Append(s.line, c) \in Seq(Chat) /\ \A y : Contains(Append(s.line, c), y) <=> y = c \/ Contains(s.line, y)
    BY <2>1, Appended
  <2>3. r \in Manager /\ r.line = Append(s.line, c)
    BY <2>1, <2>2 DEF Manager
  <2>4. SameNotes(r, s) /\ r.turn = s.turn /\ r.runs = s.runs
    BY <2>1 DEF Manager, SameNotes
  <2> QED
    BY <2>2, <2>3, <2>4
<1> QED
  BY <1>1, <1>2

\* Where a turn would begin there is room for it, and nobody it would overlap with.
MayStart(s, c) == Running(s) = {} \/ s.runs[c] # 0 => Free(s) # {} /\ Calm(s, c)

LEMMA SendKeeps ==
  ASSUME NEW s, Base(s), NEW c \in Chat, NEW x \in Item, MayStart(s, c), NEW r, r = Send(s, c, x)
  PROVE  /\ Base(r) /\ Running(r) # {} /\ TakesOne(r, s)
         /\ Running(s) = {} => Running(r) = {c}
         /\ \A X : Once(s, X) /\ x \notin X => Once(r, X \cup {x})
<1> DEFINE p == [s EXCEPT !.wakes[c] = 0, !.stopped = @ \ {c}]
<1>0. s \in Manager /\ Lined(s) /\ Noted(s) /\ 0 \notin Item
  BY Zero DEF Base
<1>1. /\ p \in Manager /\ SameNotes(p, s) /\ p.turn = s.turn /\ p.runs = s.runs /\ p.line = s.line
  BY <1>0 DEF Manager, SameNotes
<1>2. Base(p) /\ Running(p) = Running(s) /\ Free(p) = Free(s) /\ (Calm(p, c) <=> Calm(s, c))
  <2> HIDE DEF p
  <2>1. Lined(p) /\ Noted(p)
    BY <1>0, <1>1 DEF Lined, Noted, SameNotes
  <2> QED
    BY <1>1, <2>1, Untouched
<1>3. CASE Running(s) = {} \/ s.runs[c] # 0
  <2>1. r = Deliver(p, c, {x})
    BY <1>3 DEF Send
  <2> HIDE DEF p
  <2>2. /\ Base(r) /\ Running(r) = Running(p) \cup {c} /\ TakesOne(r, p)
        /\ \A X : Once(p, X) /\ {x} \cap X = {} => Once(r, X \cup {x})
    BY <1>2, <1>3, <2>1, DeliverKeeps DEF MayStart
  <2>3. TakesOne(r, s)
    BY <1>2, <2>2 DEF TakesOne
  <2>4. ASSUME NEW X, Once(s, X), x \notin X
        PROVE  Once(r, X \cup {x})
    BY <1>1, <2>2, <2>4, SamePlaces
  <2> QED
    BY <1>2, <2>2, <2>3, <2>4
<1>4. CASE ~(Running(s) = {} \/ s.runs[c] # 0)
  <2> DEFINE q == IF Held(s, c) THEN [p EXCEPT !.queue[c] = Append(@, x)] ELSE [p EXCEPT !.parked[c] = x]
  <2>1. r = WaitForTurn(q, c)
    BY <1>4 DEF Send
  <2>2. /\ q \in Manager /\ q.turn = s.turn /\ q.runs = s.runs /\ q.line = s.line
        /\ q.steers = s.steers /\ q.inbox = s.inbox /\ q.replies = s.replies /\ q.told = s.told
        /\ q.dropped = s.dropped
        /\ \A d \in Chat \ {c} : q.queue[d] = s.queue[d] /\ q.parked[d] = s.parked[d]
        /\ Held(s, c) => q.queue[c] = Append(s.queue[c], x) /\ q.parked[c] = s.parked[c]
        /\ ~Held(s, c) => q.queue[c] = s.queue[c] /\ q.parked[c] = x
    <3> HIDE DEF p
    <3>1. /\ p.queue = s.queue /\ p.steers = s.steers /\ p.parked = s.parked /\ p.inbox = s.inbox
          /\ p.replies = s.replies /\ p.told = s.told /\ p.dropped = s.dropped
      BY <1>1 DEF SameNotes
    <3>2. CASE Held(s, c)
      <4>1. s.queue \in [Chat -> Seq(Item)] /\ Append(s.queue[c], x) \in Seq(Item)
        BY <1>0, Appended DEF Manager
      <4>2. PICK v : v = [s.queue EXCEPT ![c] = Append(s.queue[c], x)]
        OBVIOUS
      <4>3. /\ v \in [Chat -> Seq(Item)] /\ v[c] = Append(s.queue[c], x)
            /\ \A d \in Chat \ {c} : v[d] = s.queue[d]
        BY <4>1, <4>2
      <4>4. q = [p EXCEPT !.queue = v]
        BY <3>1, <3>2, <4>2
      <4> HIDE DEF q
      <4> QED
        BY <1>1, <3>1, <3>2, <4>3, <4>4 DEF Manager
    <3>3. CASE ~Held(s, c)
      <4>1. s.parked \in [Chat -> Item \cup {0}]
        BY <1>0 DEF Manager
      <4>2. PICK v : v = [s.parked EXCEPT ![c] = x]
        OBVIOUS
      <4>3. /\ v \in [Chat -> Item \cup {0}] /\ v[c] = x
            /\ \A d \in Chat \ {c} : v[d] = s.parked[d]
        BY <4>1, <4>2
      <4>4. q = [p EXCEPT !.parked = v]
        BY <3>1, <3>3, <4>2
      <4> HIDE DEF q
      <4> QED
        BY <1>1, <3>1, <3>3, <4>3, <4>4 DEF Manager
    <3> QED
      BY <3>2, <3>3
  <2> HIDE DEF p, q
  <2>3. /\ r \in Manager /\ SameNotes(r, q) /\ r.turn = q.turn /\ r.runs = q.runs
        /\ Contains(r.line, c) /\ \A d : Contains(q.line, d) => Contains(r.line, d)
    BY <2>1, <2>2, LineUp
  <2>4. Lined(r)
    BY <1>0, <2>2, <2>3 DEF Lined, SameNotes
  <2>5. Noted(r)
    BY <1>0, <2>2, <2>3 DEF Noted, SameNotes
  <2>6. Base(r) /\ Running(r) = Running(s) /\ Free(r) = Free(s)
    BY <2>2, <2>3, <2>4, <2>5, Untouched
  <2>7. ASSUME NEW X, Once(s, X), x \notin X
        PROVE  Once(r, X \cup {x})
    <3>1. \A k \in Kind, d \in Spot : ~Lies(s, x, k, d)
      BY <2>7 DEF Once
    <3>2. \A y \in Item \ {x} : Stays(q, s, y)
      <4>1. \A y \in Item \ {x} : Held(s, c) => (Contains(q.queue[c], y) <=> Contains(s.queue[c], y))
        <5>1. s.queue[c] \in Seq(Item)
          BY <1>0 DEF Manager
        <5>2. \A y : Contains(Append(s.queue[c], x), y) <=> y = x \/ Contains(s.queue[c], y)
          BY <5>1, Appended
        <5> QED
          BY <2>2, <5>2
      <4>2. \A y \in Item \ {x} : \A d \in Chat : Contains(q.queue[d], y) <=> Contains(s.queue[d], y)
        BY <2>2, <4>1
      <4>3. \A y \in Item \ {x} : \A d \in Chat : q.parked[d] = y <=> s.parked[d] = y
        BY <1>0, <2>2 DEF Held
      <4> QED
        BY <2>2, <4>2, <4>3 DEF Stays, Lies
    <3>3. CASE Held(s, c)
      <4>1. /\ IsInjective(q.queue[c]) /\ \A y : Contains(q.queue[c], y) <=> y = x \/ Contains(s.queue[c], y)
        <5>1. IsInjective(s.queue[c]) /\ ~Contains(s.queue[c], x)
          BY <2>7, <3>1 DEF Once, Distinct, Lies, Kind, Spot
        <5>2. s.queue[c] \in Seq(Item)
          BY <1>0 DEF Manager
        <5>3. /\ IsInjective(Append(s.queue[c], x))
              /\ \A y : Contains(Append(s.queue[c], x), y) <=> y = x \/ Contains(s.queue[c], y)
          BY <5>1, <5>2, Appended
        <5> QED
          BY <2>2, <3>3, <5>3
      <4>2. Distinct(q)
        BY <2>2, <2>7, <4>1 DEF Once, Distinct
      <4>3. Only(q, x, "queue", c)
        BY <2>2, <3>1, <3>3, <4>1 DEF Only, Lies
      <4>4. Once(q, X \cup {x})
        <5>1. "queue" \in Kind /\ c \in Spot
          BY DEF Kind, Spot
        <5> QED
          BY <2>7, <3>2, <4>2, <4>3, <5>1, OneComesTo
      <4> QED
        BY <2>3, <4>4, SamePlaces
    <3>4. CASE ~Held(s, c)
      <4>2. Distinct(q)
        BY <2>2, <2>7, <3>4 DEF Once, Distinct
      <4>3. Only(q, x, "parked", c)
        BY <2>2, <3>1, <3>4 DEF Only, Lies
      <4>4. Once(q, X \cup {x})
        <5>1. "parked" \in Kind /\ c \in Spot
          BY DEF Kind, Spot
        <5> QED
          BY <2>7, <3>2, <4>2, <4>3, <5>1, OneComesTo
      <4> QED
        BY <2>3, <4>4, SamePlaces
    <3> QED
      BY <3>3, <3>4
  <2>8. TakesOne(r, s)
    BY <2>6 DEF TakesOne
  <2> QED
    BY <1>4, <2>6, <2>7, <2>8
<1> QED
  BY <1>3, <1>4

\* A chat's queue is another one.
Requeued(r, s, c, q) ==
  /\ r.turn = s.turn /\ r.runs = s.runs /\ r.line = s.line
  /\ r.steers = s.steers /\ r.parked = s.parked /\ r.inbox = s.inbox
  /\ r.replies = s.replies /\ r.told = s.told /\ r.dropped = s.dropped
  /\ r.queue[c] = q /\ \A d \in Chat \ {c} : r.queue[d] = s.queue[d]

LEMMA Requeue ==
  ASSUME NEW s \in Manager, NEW c \in Chat, NEW q \in Seq(Item), NEW r, r = [s EXCEPT !.queue[c] = q]
  PROVE  r \in Manager /\ Requeued(r, s, c, q)
<1>1. s.queue \in [Chat -> Seq(Item)]
  BY DEF Manager
<1>2. PICK v : v = [s.queue EXCEPT ![c] = q]
  OBVIOUS
<1>3. v \in [Chat -> Seq(Item)] /\ v[c] = q /\ \A d \in Chat \ {c} : v[d] = s.queue[d]
  BY <1>1, <1>2
<1>4. r = [s EXCEPT !.queue = v]
  BY <1>2
<1> QED
  BY <1>3, <1>4 DEF Manager, Requeued

LEMMA RequeueKeeps ==
  ASSUME NEW s, Base(s), NEW c \in Chat, NEW q, NEW r \in Manager, Requeued(r, s, c, q)
  PROVE  /\ Base(r) /\ Running(r) = Running(s) /\ Free(r) = Free(s) /\ r.runs = s.runs
         /\ \A d \in Chat : MayStart(r, d) <=> MayStart(s, d)
<1>1. Lined(r) /\ Noted(r)
  BY DEF Base, Lined, Noted, Requeued
<1>2. r.turn = s.turn /\ r.runs = s.runs
  BY DEF Requeued
<1>3. Base(r) /\ Running(r) = Running(s) /\ Free(r) = Free(s) /\ \A d \in Chat : Calm(r, d) <=> Calm(s, d)
  BY <1>1, <1>2, Untouched
<1> QED
  BY <1>2, <1>3 DEF MayStart

LEMMA Queued ==
  ASSUME NEW s, NEW c \in Chat, NEW x \in Item, NEW q, NEW r, Requeued(r, s, c, q),
         \A y : Contains(q, y) <=> y = x \/ Contains(s.queue[c], y),
         IsInjective(s.queue[c]) /\ ~Contains(s.queue[c], x) => IsInjective(q),
         NEW X, Once(s, X), x \notin X
  PROVE  Once(r, X \cup {x})
<1>0. "queue" \in Kind /\ c \in Spot
  BY DEF Kind, Spot
<1>1. \A k \in Kind, d \in Spot : ~Lies(s, x, k, d)
  BY DEF Once
<1>2. \A y \in Item \ {x} : Stays(r, s, y)
  BY DEF Requeued, Stays, Lies
<1>3. Distinct(r)
  <2>1. IsInjective(s.queue[c]) /\ ~Contains(s.queue[c], x)
    BY <1>0, <1>1 DEF Once, Distinct, Lies
  <2> QED
    BY <2>1 DEF Once, Distinct, Requeued
<1>4. Only(r, x, "queue", c)
  BY <1>1 DEF Only, Lies, Requeued
<1> QED
  BY <1>0, <1>2, <1>3, <1>4, OneComesTo

LEMMA Dequeued ==
  ASSUME NEW s, NEW c \in Chat, NEW x \in Item, NEW q, NEW r, Requeued(r, s, c, q),
         Contains(s.queue[c], x), \A y : Contains(q, y) => Contains(s.queue[c], y),
         \A y : y # x /\ Contains(s.queue[c], y) => Contains(q, y),
         IsInjective(s.queue[c]) => IsInjective(q) /\ ~Contains(q, x),
         NEW X, Once(s, X)
  PROVE  x \in X /\ Once(r, X \ {x})
<1>0. "queue" \in Kind /\ c \in Spot
  BY DEF Kind, Spot
<1>1. x \in X /\ Only(s, x, "queue", c)
  <2>1. Lies(s, x, "queue", c)
    BY DEF Lies
  <2> QED
    BY <1>0, <2>1, OnlyThere
<1>2. \A y \in Item \ {x} : Stays(r, s, y)
  BY DEF Requeued, Stays, Lies
<1>3. IsInjective(q) /\ ~Contains(q, x)
  BY DEF Once, Distinct
<1>4. Distinct(r)
  BY <1>3 DEF Once, Distinct, Requeued
<1>5. \A k \in Kind, d \in Spot : ~Lies(r, x, k, d)
  BY <1>1, <1>3 DEF Only, Lies, Requeued
<1> QED
  BY <1>1, <1>2, <1>4, <1>5, OneLeaves

LEMMA EnqueueKeeps ==
  ASSUME NEW s, Base(s), NEW c \in Chat, NEW x \in Item, s.runs[c] = 0 => MayStart(s, c),
         NEW r, r = Enqueue(s, c, x)
  PROVE  /\ Base(r) /\ Running(r) # {}
         /\ \A X : Once(s, X) /\ x \notin X => Once(r, X \cup {x})
<1>1. CASE s.runs[c] = 0
  <2>1. r = Send(s, c, x)
    BY <1>1 DEF Enqueue
  <2> QED
    BY <1>1, <2>1, SendKeeps
<1>2. CASE s.runs[c] # 0
  <2> DEFINE q == Append(s.queue[c], x)
  <2>1. s.queue[c] \in Seq(Item) /\ s \in Manager
    BY DEF Base, Manager
  <2>2. /\ q \in Seq(Item) /\ \A y : Contains(q, y) <=> y = x \/ Contains(s.queue[c], y)
        /\ IsInjective(s.queue[c]) /\ ~Contains(s.queue[c], x) => IsInjective(q)
    BY <2>1, Appended
  <2>3. r = [s EXCEPT !.queue[c] = q]
    BY <1>2 DEF Enqueue
  <2> HIDE DEF q
  <2>4. r \in Manager /\ Requeued(r, s, c, q)
    BY <2>1, <2>2, <2>3, Requeue
  <2>5. Base(r) /\ Running(r) = Running(s)
    BY <2>4, RequeueKeeps
  <2>6. ASSUME NEW X, Once(s, X), x \notin X
        PROVE  Once(r, X \cup {x})
    BY <2>2, <2>4, <2>6, Queued
  <2> QED
    BY <1>2, <2>5, <2>6 DEF Running
<1> QED
  BY <1>1, <1>2

\* What a chat has waiting goes on: its parked message, or the head of its queue.  It has
\* just been taken out of the line.
LEMMA DispatchNextKeeps ==
  ASSUME NEW s \in Manager, Owned(s), Solo(s), Noted(s), NEW c \in Chat,
         \A d \in Chat \ {c} : s.parked[d] # 0 => Contains(s.line, d),
         Held(s, c), s.runs[c] = 0, Running(s) = {} => Free(s) # {}, s.parked[c] # 0 => Running(s) = {},
         NEW r, r = DispatchNext(s, c)
  PROVE  /\ Base(r) /\ Running(r) # {} /\ TakesOne(r, s)
         /\ Running(s) = {} => Running(r) = {c}
         /\ \A X : Once(s, X) => Once(r, X)
<1>0. 0 \notin Item
  BY Zero
<1>1. CASE s.parked[c] # 0
  <2> DEFINE x == s.parked[c]
             p == [s EXCEPT !.parked[c] = 0]
  <2>1. /\ p \in Manager /\ p.turn = s.turn /\ p.runs = s.runs /\ p.line = s.line
        /\ p.queue = s.queue /\ p.steers = s.steers /\ p.inbox = s.inbox
        /\ p.replies = s.replies /\ p.told = s.told /\ p.dropped = s.dropped
        /\ p.parked[c] = 0 /\ \A d \in Chat \ {c} : p.parked[d] = s.parked[d]
    <3>1. s.parked \in [Chat -> Item \cup {0}]
      BY DEF Manager
    <3>2. PICK v : v = [s.parked EXCEPT ![c] = 0]
      OBVIOUS
    <3>3. v \in [Chat -> Item \cup {0}] /\ v[c] = 0 /\ \A d \in Chat \ {c} : v[d] = s.parked[d]
      BY <3>1, <3>2
    <3>4. p = [s EXCEPT !.parked = v]
      BY <3>2
    <3> HIDE DEF p
    <3> QED
      BY <3>3, <3>4 DEF Manager
  <2>2. r = Deliver(p, c, {x}) /\ x \in Item
    BY <1>1 DEF DispatchNext, Manager
  <2> HIDE DEF p, x
  <2>3. Base(p) /\ Running(p) = {} /\ Free(p) # {} /\ Free(p) = Free(s) /\ Calm(p, c)
    BY <1>1, <2>1 DEF Base, Owned, Solo, Noted, Lined, Running, Free, Calm
  <2>4. /\ Base(r) /\ Running(r) = {c} /\ TakesOne(r, p)
        /\ \A X : Once(p, X) /\ {x} \cap X = {} => Once(r, X \cup {x})
    <3>1. {x} \in SUBSET Item
      BY <2>2
    <3>2. /\ Base(r) /\ Running(r) = Running(p) \cup {c} /\ TakesOne(r, p)
          /\ \A X : Once(p, X) /\ {x} \cap X = {} => Once(r, X \cup {x})
      BY <2>2, <2>3, <3>1, DeliverKeeps
    <3> QED
      BY <2>3, <3>2
  <2>5. ASSUME NEW X, Once(s, X)
        PROVE  Once(r, X)
    <3>1. x \in X /\ Only(s, x, "parked", c)
      <4>1. Lies(s, x, "parked", c) /\ "parked" \in Kind /\ c \in Spot
        BY DEF Lies, x, Kind, Spot
      <4> QED
        BY <2>2, <2>5, <4>1, OnlyThere
    <3>2. Distinct(p)
      BY <2>1, <2>5 DEF Once, Distinct
    <3>3. \A y \in Item \ {x} : Stays(p, s, y)
      <4>1. \A y \in Item \ {x}, d \in Chat : p.parked[d] = y <=> s.parked[d] = y
        BY <1>0, <2>1 DEF x
      <4> QED
        BY <2>1, <4>1 DEF Stays, Lies
    <3>4. \A k \in Kind, d \in Spot : ~Lies(p, x, k, d)
      BY <1>0, <2>1, <2>2, <3>1 DEF Only, Lies
    <3>5. Once(p, X \ {x})
      BY <2>2, <2>5, <3>2, <3>3, <3>4, OneLeaves
    <3>6. Once(r, (X \ {x}) \cup {x}) /\ (X \ {x}) \cup {x} = X
      BY <2>4, <3>1, <3>5
    <3> QED
      BY <3>6
  <2>6. TakesOne(r, s)
    BY <2>3, <2>4 DEF TakesOne
  <2> QED
    BY <2>4, <2>5, <2>6
<1>2. CASE s.parked[c] = 0
  <2> DEFINE q == Tail(s.queue[c])
             x == Head(s.queue[c])
             p == [s EXCEPT !.queue[c] = q]
  <2>1. s.queue[c] \in Seq(Item) /\ s.queue[c] # <<>>
    BY <1>2 DEF Manager, Held
  <2>2. /\ q \in Seq(Item) /\ x \in Item /\ Contains(s.queue[c], x)
        /\ \A y : Contains(q, y) => Contains(s.queue[c], y)
        /\ \A y : y # x /\ Contains(s.queue[c], y) => Contains(q, y)
        /\ IsInjective(s.queue[c]) => IsInjective(q) /\ ~Contains(q, x)
    BY <2>1, Shortened
  <2>3. r = Send(p, c, x)
    BY <1>2 DEF DispatchNext
  <2> HIDE DEF q, x
  <2>4. p \in Manager /\ Requeued(p, s, c, q)
    BY <2>2, Requeue
  <2>5. Base(s)
    BY <1>2 DEF Base, Lined
  <2> HIDE DEF p
  <2>6. /\ Base(p) /\ Running(p) = Running(s) /\ Free(p) = Free(s)
        /\ (MayStart(p, c) <=> MayStart(s, c))
    BY <2>4, <2>5, RequeueKeeps
  <2>7. MayStart(s, c)
    BY DEF MayStart, Calm
  <2>8. /\ Base(r) /\ Running(r) # {} /\ TakesOne(r, p)
        /\ Running(p) = {} => Running(r) = {c}
        /\ \A X : Once(p, X) /\ x \notin X => Once(r, X \cup {x})
    BY <2>2, <2>3, <2>6, <2>7, SendKeeps
  <2>9. ASSUME NEW X, Once(s, X)
        PROVE  Once(r, X)
    <3>1. x \in X /\ Once(p, X \ {x})
      BY <2>2, <2>4, <2>9, Dequeued
    <3>2. Once(r, (X \ {x}) \cup {x}) /\ (X \ {x}) \cup {x} = X
      BY <2>8, <3>1
    <3> QED
      BY <3>2
  <2>10. TakesOne(r, s)
    BY <2>6, <2>8 DEF TakesOne
  <2> QED
    BY <2>6, <2>8, <2>9, <2>10
<1> QED
  BY <1>1, <1>2

\* The line is served: its first chat with something to say has its turn, and the chats
\* before it leave the line.
LEMMA DispatchWaitingKeeps ==
  ASSUME NEW s, Base(s), Running(s) = {}, Free(s) # {}, NEW r, r = DispatchWaiting(s)
  PROVE  /\ Base(r) /\ Served(r) /\ TakesOne(r, s)
         /\ Running(r) = {} => Free(r) # {}
         /\ \A d \in Running(r) : Contains(s.line, d) /\ Running(r) = {d}
         /\ \A X : Once(s, X) => Once(r, X)
<1> DEFINE ready == {i \in DOMAIN s.line : Held(s, s.line[i])}
           first == CHOOSE i \in ready : \A j \in ready : i <= j
<1>0. s \in Manager /\ Owned(s) /\ Solo(s) /\ Lined(s) /\ Noted(s) /\ s.line \in Seq(Chat)
  BY DEF Base, Manager
<1>1. DOMAIN s.line = 1..Len(s.line) /\ Len(s.line) \in Nat /\ \A i \in 1..Len(s.line) : s.line[i] \in Chat
  BY <1>0, LenProperties, ElementOfSeq
<1>2. CASE ready = {}
  <2>1. r = [s EXCEPT !.line = <<>>]
    BY <1>2 DEF DispatchWaiting
  <2>2. \A d \in Chat : s.parked[d] = 0
    <3>1. SUFFICES ASSUME NEW d \in Chat, s.parked[d] # 0
                   PROVE  FALSE
      OBVIOUS
    <3>2. PICK i \in 1..Len(s.line) : s.line[i] = d
      BY <1>0, <3>1 DEF Lined, Contains
    <3> QED
      BY <1>1, <1>2, <3>1, <3>2 DEF Held
  <2>3. /\ r \in Manager /\ r.turn = s.turn /\ r.runs = s.runs /\ r.line = <<>> /\ SameNotes(r, s)
    <3>1. <<>> \in Seq(Chat)
      BY EmptySeq
    <3> QED
      BY <1>0, <2>1, <3>1 DEF Manager, SameNotes
  <2>4. Lined(r) /\ Noted(r)
    BY <1>0, <2>2, <2>3 DEF Lined, Noted, SameNotes
  <2>5. Base(r) /\ Running(r) = Running(s) /\ Free(r) = Free(s)
    BY <2>3, <2>4, Untouched
  <2>6. \A X : Once(s, X) => Once(r, X)
    BY <2>3, SamePlaces
  <2>7. TakesOne(r, s) /\ Served(r)
    BY <2>3, <2>5 DEF TakesOne, Served
  <2> QED
    BY <2>5, <2>6, <2>7
<1>3. CASE ready # {}
  <2>1. ready \subseteq Nat
    BY <1>1
  <2>2. first \in ready /\ \A j \in ready : first <= j
    <3>1. \E i \in ready : \A j \in ready : i <= j
      BY <1>3, <2>1, LeastOf
    <3> QED
      BY <3>1
  <2> DEFINE c == s.line[first]
             p == [s EXCEPT !.line = SubSeq(s.line, first + 1, Len(s.line))]
  <2>3. r = DispatchNext(p, c)
    BY <1>3 DEF DispatchWaiting
  <2> HIDE DEF first
  <2>4. first \in 1..Len(s.line) /\ c \in Chat /\ Held(s, c) /\ Contains(s.line, c)
    BY <1>1, <2>2 DEF Contains
  <2>5. /\ SubSeq(s.line, first + 1, Len(s.line)) \in Seq(Chat)
        /\ \A j \in 1..Len(s.line) : j > first => Contains(SubSeq(s.line, first + 1, Len(s.line)), s.line[j])
    BY <1>0, <2>4, LineRest
  <2>6. /\ p \in Manager /\ p.turn = s.turn /\ p.runs = s.runs /\ SameNotes(p, s)
        /\ p.line = SubSeq(s.line, first + 1, Len(s.line))
    <3> DEFINE v == SubSeq(s.line, first + 1, Len(s.line))
    <3>1. p = [s EXCEPT !.line = v] /\ v \in Seq(Chat)
      BY <2>5
    <3> HIDE DEF v, p
    <3>2. p \in Manager /\ p.turn = s.turn /\ p.runs = s.runs /\ SameNotes(p, s) /\ p.line = v
      BY <1>0, <3>1 DEF Manager, SameNotes
    <3> QED
      BY <3>2 DEF v
  <2> HIDE DEF p
  <2>7. ASSUME NEW d \in Chat \ {c}, p.parked[d] # 0
        PROVE  Contains(p.line, d)
    <3>1. s.parked[d] # 0
      BY <2>6, <2>7 DEF SameNotes
    <3>2. PICK j \in 1..Len(s.line) : s.line[j] = d
      BY <1>0, <3>1 DEF Lined, Contains
    <3>3. j \in ready
      BY <1>1, <3>1, <3>2 DEF Held
    <3>4. first <= j /\ j # first /\ first \in Nat /\ j \in Nat
      BY <1>1, <2>2, <2>4, <2>7, <3>2, <3>3
    <3>5. j > first
      BY <3>4
    <3> QED
      BY <2>5, <2>6, <3>2, <3>5
  <2>8. /\ Owned(p) /\ Solo(p) /\ Noted(p) /\ Running(p) = {} /\ Free(p) # {} /\ Free(p) = Free(s)
        /\ Held(p, c) /\ p.runs[c] = 0
    BY <1>0, <2>4, <2>6 DEF Owned, Solo, Noted, Running, Free, Held, SameNotes
  <2> HIDE DEF c
  <2>9. /\ Base(r) /\ Running(r) # {} /\ TakesOne(r, p)
        /\ Running(p) = {} => Running(r) = {c}
        /\ \A X : Once(p, X) => Once(r, X)
    BY <2>3, <2>4, <2>6, <2>7, <2>8, DispatchNextKeeps
  <2>10. \A X : Once(s, X) => Once(r, X)
    BY <2>6, <2>9, SamePlaces
  <2>11. TakesOne(r, s) /\ Served(r)
    BY <2>8, <2>9 DEF TakesOne, Served
  <2> QED
    BY <2>4, <2>8, <2>9, <2>10, <2>11
<1> QED
  BY <1>2, <1>3

LEMMA ServeKeeps ==
  ASSUME NEW s, Base(s), NEW w \in BOOLEAN, Running(s) = {} /\ w => Free(s) # {},
         Running(s) = {} /\ ~w => s.line = <<>>, NEW r, r = Serve(s, w)
  PROVE  /\ Base(r) /\ Served(r) /\ TakesOne(r, s)
         /\ Running(s) # {} => r = s
         /\ Running(s) = {} /\ w => /\ Running(r) = {} => Free(r) # {}
                                    /\ \A d \in Running(r) : Contains(s.line, d) /\ Running(r) = {d}
         /\ \A X : Once(s, X) => Once(r, X)
<1>1. CASE Running(s) = {} /\ w
  <2>1. r = DispatchWaiting(s)
    BY <1>1 DEF Serve
  <2> QED
    BY <1>1, <2>1, DispatchWaitingKeeps
<1>2. CASE ~(Running(s) = {} /\ w)
  <2>1. r = s
    BY <1>2 DEF Serve
  <2> QED
    BY <1>2, <2>1 DEF Served, TakesOne
<1> QED
  BY <1>1, <1>2

-----------------------------------------------------------------------------
(* Turns that end.                                                         *)

\* Steps that leave the turns and what waits for one alone
Still(r, s) ==
  /\ r.turn = s.turn /\ r.runs = s.runs /\ r.line = s.line
  /\ r.parked = s.parked /\ r.steers = s.steers /\ r.queue = s.queue
  /\ r.told = s.told /\ r.dropped = s.dropped

LEMMA StillKeeps ==
  ASSUME NEW s, Base(s), NEW r \in Manager, Still(r, s)
  PROVE  /\ Base(r) /\ Running(r) = Running(s) /\ Free(r) = Free(s) /\ r.line = s.line
         /\ Served(s) => Served(r)
<1>1. Lined(r) /\ Noted(r) /\ r.turn = s.turn /\ r.runs = s.runs /\ r.line = s.line
  BY DEF Base, Lined, Noted, Still
<1> QED
  BY <1>1, Untouched DEF Served

\* The main process hands out what has ended.
LEMMA WakeKeeps ==
  ASSUME NEW s \in Manager, NEW c \in Chat, NEW r, r = WakeForEnded(s, c)
  PROVE  r \in Manager /\ Still(r, s) /\ \A X : Once(s, X) => Once(r, X)
<1>1. CASE r = s
  BY <1>1 DEF Still
<1>2. CASE r # s
  <2> DEFINE B == s.inbox[c]
  <2>1. r = [s EXCEPT !.inbox[c] = {}, !.replies[c] = @ \cup {B}]
    BY <1>2 DEF WakeForEnded
  <2>2. s.inbox \in [Chat -> SUBSET Report] /\ s.replies \in [Chat -> SUBSET SUBSET Report] /\ B \in SUBSET Report
    BY DEF Manager
  <2>3. PICK v : v = [s.inbox EXCEPT ![c] = {}]
    OBVIOUS
  <2>4. PICK w : w = [s.replies EXCEPT ![c] = s.replies[c] \cup {B}]
    OBVIOUS
  <2>5. /\ v \in [Chat -> SUBSET Report] /\ v[c] = {} /\ \A d \in Chat \ {c} : v[d] = s.inbox[d]
        /\ w \in [Chat -> SUBSET SUBSET Report] /\ w[c] = s.replies[c] \cup {B}
        /\ \A d \in Chat \ {c} : w[d] = s.replies[d]
    BY <2>2, <2>3, <2>4
  <2>6. r = [s EXCEPT !.inbox = v, !.replies = w]
    BY <2>1, <2>3, <2>4
  <2> HIDE DEF B
  <2>7. r \in Manager /\ r.inbox = v /\ r.replies = w /\ Still(r, s)
    BY <2>5, <2>6 DEF Manager, Still
  <2>8. ASSUME NEW X, Once(s, X)
        PROVE  Once(r, X)
    <3>1. B \in SUBSET Item /\ "inbox" \in Kind /\ "reply" \in Kind /\ c \in Spot
      BY <2>2 DEF Item, Kind, Spot
    <3>2. \A x \in B : x \in X /\ Only(s, x, "inbox", c)
      <4>1. \A x \in B : Lies(s, x, "inbox", c)
        BY DEF Lies, B
      <4> QED
        BY <2>8, <3>1, <4>1, OnlyThere
    <3>3. Distinct(r)
      <4>1. \A a \in s.replies[c] : a \cap B = {}
        <5>1. SUFFICES ASSUME NEW a \in s.replies[c], NEW x \in a, x \in B
                       PROVE  FALSE
          OBVIOUS
        <5>2. Lies(s, x, "reply", c)
          BY <5>1 DEF Lies
        <5> QED
          BY <3>1, <3>2, <5>1, <5>2 DEF Only
      <4>2. /\ \A d \in Chat : IsInjective(s.queue[d]) /\ IsInjective(s.steers[d])
            /\ \A d \in Chat : \A a, b \in s.replies[d] : a # b => a \cap b = {}
        BY <2>8 DEF Once, Distinct
      <4>3. \A a, b \in w[c] : a # b => a \cap b = {}
        BY <2>5, <4>1, <4>2
      <4> QED
        BY <2>5, <2>7, <4>2, <4>3 DEF Distinct, Still
    <3>4. \A x \in Item \ B : Stays(r, s, x)
      <4>1. \A x \in Item \ B, d \in Chat : x \in v[d] <=> x \in s.inbox[d]
        BY <2>5 DEF B
      <4>2. \A x \in Item \ B, d \in Chat : (\E a \in w[d] : x \in a) <=> \E a \in s.replies[d] : x \in a
        BY <2>5
      <4> QED
        BY <2>7, <4>1, <4>2 DEF Stays, Lies, Still
    <3>5. \A x \in B : Only(r, x, "reply", c)
      <4>1. SUFFICES ASSUME NEW x \in B, NEW k \in Kind, NEW d \in Spot
                     PROVE  Lies(r, x, k, d) <=> k = "reply" /\ d = c
        BY DEF Only
      <4>2. Lies(s, x, k, d) <=> k = "inbox" /\ d = c
        BY <3>2 DEF Only
      <4>3. CASE k = "reply"
        <5>1. d \in Chat => ((\E a \in w[d] : x \in a) <=> d = c)
          BY <2>5, <4>2, <4>3 DEF Lies
        <5> QED
          BY <2>7, <4>3, <5>1 DEF Lies
      <4>4. CASE k = "inbox"
        BY <2>5, <2>7, <4>2, <4>4 DEF Lies
      <4>5. CASE k \notin {"reply", "inbox"}
        BY <2>7, <4>2, <4>5 DEF Lies, Still
      <4> QED
        BY <4>3, <4>4, <4>5
    <3>6. \A x \in Item : x \in X <=> x \in X \/ x \in B
      BY <3>2
    <3> QED
      BY <2>8, <3>1, <3>3, <3>4, <3>5, <3>6, ComeTo
  <2> QED
    BY <2>7, <2>8
<1> QED
  BY <1>1, <1>2

LEMMA RestKeeps ==
  ASSUME NEW s \in Manager, NEW c \in Chat, NEW failed \in BOOLEAN, NEW r \in Rest(s, c, failed)
  PROVE  r \in Manager /\ Still(r, s) /\ \A X : Once(s, X) => Once(r, X)
<1>1. CASE r = [s EXCEPT !.folds = @ \cup {c}]
  <2>1. r \in Manager /\ Still(r, s) /\ SameNotes(r, s)
    BY <1>1 DEF Manager, Still, SameNotes
  <2> QED
    BY <2>1, SamePlaces
<1>2. CASE r = s
  BY <1>2 DEF Still
<1>3. CASE r = WakeForEnded(s, c)
  BY <1>3, WakeKeeps
<1> QED
  BY <1>1, <1>2, <1>3 DEF Rest

\* What a turn leaves to do, once it is off the record.
LEMMA OnwardKeeps ==
  ASSUME NEW s, Base(s), NEW c \in Chat, s.runs[c] = 0, Free(s) # {},
         NEW failed \in BOOLEAN, NEW cut \in BOOLEAN, NEW r \in Onward(s, c, failed, cut)
  PROVE  /\ Base(r)
         /\ Running(r) = {} => Free(r) # {} /\ (s.line = <<>> => r.line = <<>>)
         /\ \A X : Once(s, X) => Once(r, X)
<1>0. s \in Manager /\ Owned(s) /\ Solo(s) /\ Lined(s) /\ Noted(s)
  BY DEF Base
<1>1. CASE ~failed /\ cut /\ s.window > 0
  <2> DEFINE p == [s EXCEPT !.window = @ - 1]
  <2>1. r = Run(p, c, FALSE)
    BY <1>1 DEF Onward
  <2>2. p \in Manager /\ Still(p, s) /\ SameNotes(p, s)
    <3>1. s.window \in 0..Windows /\ Windows \in Nat
      BY <1>0, ConstantsAssumption DEF Manager
    <3>2. PICK v : v = s.window - 1
      OBVIOUS
    <3>3. v \in 0..Windows /\ p = [s EXCEPT !.window = v]
      BY <1>1, <3>1, <3>2
    <3> HIDE DEF p
    <3> QED
      BY <1>0, <3>3 DEF Manager, Still, SameNotes
  <2> HIDE DEF p
  <2>3. Base(p) /\ Free(p) # {}
    BY <2>2, StillKeeps
  <2>4. /\ Base(r) /\ SameNotes(r, p) /\ Running(r) = Running(p) \cup {c}
    BY <2>1, <2>3, RunKeeps
  <2>5. ASSUME NEW X, Once(s, X)
        PROVE  Once(r, X)
    BY <2>2, <2>4, <2>5, SamePlaces
  <2> QED
    BY <2>4, <2>5
<1>2. CASE s.line # <<>> /\ r = WaitForTurn(s, c)
  <2>1. /\ r \in Manager /\ SameNotes(r, s) /\ r.turn = s.turn /\ r.runs = s.runs
        /\ \A d : Contains(s.line, d) => Contains(r.line, d)
    BY <1>0, <1>2, LineUp
  <2>2. Lined(r) /\ Noted(r)
    BY <1>0, <2>1 DEF Lined, Noted, SameNotes
  <2>3. Base(r) /\ Free(r) = Free(s)
    BY <2>1, <2>2, Untouched
  <2> QED
    BY <1>2, <2>1, <2>3, SamePlaces
<1>3. CASE r = s
  BY <1>3
<1>4. CASE s.line = <<>> /\ ~failed /\ Held(s, c) /\ r = DispatchNext(s, c)
  <2>1. s.parked[c] = 0
    BY <1>0, <1>4, Emptied DEF Lined
  <2>2. /\ Base(r) /\ Running(r) # {} /\ \A X : Once(s, X) => Once(r, X)
    <3>1. \A d \in Chat \ {c} : s.parked[d] # 0 => Contains(s.line, d)
      BY <1>0 DEF Lined
    <3> QED
      BY <1>0, <1>4, <2>1, <3>1, DispatchNextKeeps
  <2> QED
    BY <2>2
<1>5. CASE r \in Rest(s, c, failed)
  <2>1. r \in Manager /\ Still(r, s) /\ \A X : Once(s, X) => Once(r, X)
    BY <1>0, <1>5, RestKeeps
  <2>2. Base(r) /\ Free(r) = Free(s) /\ r.line = s.line
    BY <2>1, StillKeeps
  <2> QED
    BY <2>1, <2>2
<1> QED
  BY <1>1, <1>2, <1>3, <1>4, <1>5 DEF Onward

\* Fewer turns run, and those that do are the same.
LikeTurn(r, s, t) ==
  /\ r.turn[t].chat = s.turn[t].chat /\ (r.turn[t].step = "free" <=> s.turn[t].step = "free")
  /\ r.turn[t].image = s.turn[t].image /\ r.turn[t].barged = s.turn[t].barged

LEMMA FewerKeeps ==
  ASSUME NEW s, Base(s), NEW r \in Manager, Lined(r), Noted(r),
         \A d \in Chat : r.runs[d] \in {0, s.runs[d]},
         \A t \in Turn : LikeTurn(r, s, t) \/ (r.turn[t].step = "free" /\ \A d \in Chat : r.runs[d] # t)
  PROVE  Base(r)
<1>0. s \in Manager /\ Owned(s) /\ Solo(s)
  BY DEF Base
<1>1. \A d \in Chat : r.runs[d] # 0 => /\ r.runs[d] = s.runs[d] /\ r.runs[d] \in Turn
                                       /\ LikeTurn(r, s, r.runs[d])
  BY DEF Manager
<1>2. Owned(r)
  BY <1>0, <1>1 DEF Owned, LikeTurn
<1>3. Solo(r)
  BY <1>0, <1>1 DEF Solo, Running, LikeTurn
<1> QED
  BY <1>2, <1>3 DEF Base

LEMMA SettleKeeps ==
  ASSUME NEW s \in Manager, NEW t \in Turn, NEW r, r = Settle(s, t)
  PROVE  /\ r \in Manager /\ SameNotes(r, s) /\ r.runs = s.runs /\ r.line = s.line
         /\ r.turn[t].step = "free" /\ \A u \in Turn : u # t => SameTurn(r, s, u)
<1>1. FreeTurn \in TurnType /\ FreeTurn.step = "free"
  BY ConstantsAssumption DEF FreeTurn, TurnType
<1>2. ASSUME NEW u \in Turn
      PROVE  /\ LetGo(s.turn[u], t) \in TurnType
             /\ LetGo(s.turn[u], t).chat = s.turn[u].chat /\ LetGo(s.turn[u], t).step = s.turn[u].step
             /\ LetGo(s.turn[u], t).image = s.turn[u].image /\ LetGo(s.turn[u], t).barged = s.turn[u].barged
  <2>1. s.turn[u] \in TurnType
    BY DEF Manager
  <2> QED
    BY <2>1 DEF LetGo, TurnType
<1>3. PICK v : v = [u \in Turn |-> IF u = t THEN FreeTurn ELSE LetGo(s.turn[u], t)]
  OBVIOUS
<1>4. PICK w : w = [c \in Chat |-> IF s.settling[c] = t THEN 0 ELSE s.settling[c]]
  OBVIOUS
<1>5. v \in [Turn -> TurnType] /\ v[t] = FreeTurn /\ \A u \in Turn : u # t => v[u] = LetGo(s.turn[u], t)
  BY <1>1, <1>2, <1>3
<1>6. w \in [Chat -> Turn \cup {0}]
  BY <1>4 DEF Manager
<1>7. r = [s EXCEPT !.turn = v, !.settling = w]
  BY <1>3, <1>4 DEF Settle
<1>8. r \in Manager /\ SameNotes(r, s) /\ r.runs = s.runs /\ r.line = s.line /\ r.turn = v
  BY <1>5, <1>6, <1>7 DEF Manager, SameNotes
<1> QED
  BY <1>1, <1>2, <1>5, <1>8 DEF SameTurn

\* The notes nobody read go to the front of the queue.
LEMMA UnreadKeeps ==
  ASSUME NEW s \in Manager, NEW c \in Chat, NEW r, r = Unread(s, c)
  PROVE  /\ r \in Manager /\ r.turn = s.turn /\ r.line = s.line /\ r.parked = s.parked
         /\ r.runs[c] = 0 /\ \A d \in Chat \ {c} : r.runs[d] = s.runs[d]
         /\ r.steers[c] = <<>> /\ \A d \in Chat \ {c} : r.steers[d] = s.steers[d]
         /\ \A X : Once(s, X) => Once(r, X)
<1>1. /\ s.queue \in [Chat -> Seq(Item)] /\ s.steers \in [Chat -> Seq(Item)] /\ s.runs \in [Chat -> Turn \cup {0}]
      /\ s.queue[c] \in Seq(Item) /\ s.steers[c] \in Seq(Item) /\ <<>> \in Seq(Item)
  BY EmptySeq DEF Manager
<1> DEFINE q == s.steers[c] \o s.queue[c]
<1>2. /\ q \in Seq(Item)
      /\ \A y : Contains(q, y) <=> Contains(s.steers[c], y) \/ Contains(s.queue[c], y)
      /\ IsInjective(s.steers[c]) /\ IsInjective(s.queue[c])
           /\ (\A y : ~(Contains(s.steers[c], y) /\ Contains(s.queue[c], y))) => IsInjective(q)
  BY <1>1, Joined
<1>3. r = [s EXCEPT !.runs[c] = 0, !.queue[c] = q, !.steers[c] = <<>>]
  BY DEF Unread
<1> HIDE DEF q
<1>4. PICK f : f = [s.runs EXCEPT ![c] = 0]
  OBVIOUS
<1>5. PICK g : g = [s.queue EXCEPT ![c] = q]
  OBVIOUS
<1>6. PICK h : h = [s.steers EXCEPT ![c] = <<>>]
  OBVIOUS
<1>7. /\ f \in [Chat -> Turn \cup {0}] /\ f[c] = 0 /\ \A d \in Chat \ {c} : f[d] = s.runs[d]
      /\ g \in [Chat -> Seq(Item)] /\ g[c] = q /\ \A d \in Chat \ {c} : g[d] = s.queue[d]
      /\ h \in [Chat -> Seq(Item)] /\ h[c] = <<>> /\ \A d \in Chat \ {c} : h[d] = s.steers[d]
  BY <1>1, <1>2, <1>4, <1>5, <1>6
<1>8. r = [s EXCEPT !.runs = f, !.queue = g, !.steers = h]
  BY <1>3, <1>4, <1>5, <1>6
<1>9. /\ r \in Manager /\ r.turn = s.turn /\ r.line = s.line /\ r.parked = s.parked
      /\ r.runs = f /\ r.queue = g /\ r.steers = h
      /\ r.inbox = s.inbox /\ r.replies = s.replies /\ r.told = s.told /\ r.dropped = s.dropped
  BY <1>7, <1>8, ZenonT(60) DEF Manager
<1>10. ASSUME NEW X, Once(s, X)
       PROVE  Once(r, X)
  <2> DEFINE I == {x \in Item : Contains(s.steers[c], x)}
  <2>0. I \in SUBSET Item /\ "queue" \in Kind /\ "steers" \in Kind /\ c \in Spot
    BY DEF Kind, Spot
  <2>1. ASSUME NEW x \in I
        PROVE  x \in X /\ Only(s, x, "steers", c)
    <3>1. Lies(s, x, "steers", c)
      BY DEF Lies
    <3> QED
      BY <1>10, <2>0, <3>1, OnlyThere
  <2>2. IsInjective(q)
    <3>1. IsInjective(s.steers[c]) /\ IsInjective(s.queue[c])
      BY <1>10 DEF Once, Distinct
    <3>2. ASSUME NEW y, Contains(s.steers[c], y), Contains(s.queue[c], y)
          PROVE  FALSE
      <4>1. y \in Item
        <5>1. PICK i \in 1..Len(s.steers[c]) : s.steers[c][i] = y
          BY <3>2 DEF Contains
        <5> QED
          BY <1>1, <5>1, ElementOfSeq
      <4>2. Lies(s, y, "queue", c) /\ Only(s, y, "steers", c)
        BY <2>1, <3>2, <4>1 DEF Lies
      <4> QED
        BY <2>0, <4>2 DEF Only
    <3> QED
      BY <1>2, <3>1, <3>2
  <2>3. Distinct(r)
    <3>1. \A d \in Chat : IsInjective(g[d]) /\ IsInjective(h[d])
      BY <1>7, <1>10, <2>2, Emptied DEF Once, Distinct
    <3> QED
      BY <1>9, <1>10, <3>1 DEF Once, Distinct
  <2>4. \A x \in Item : \A d \in Chat :
          /\ Contains(g[d], x) <=> Contains(s.queue[d], x) \/ (d = c /\ x \in I)
          /\ Contains(h[d], x) <=> Contains(s.steers[d], x) /\ d # c
    BY <1>2, <1>7, Emptied
  <2> HIDE DEF I
  <2>5. \A x \in Item \ I : Stays(r, s, x)
    <3>1. \A x \in Item \ I : \A d \in Chat :
            (Contains(g[d], x) <=> Contains(s.queue[d], x)) /\ (Contains(h[d], x) <=> Contains(s.steers[d], x))
      BY <2>4 DEF I
    <3> QED
      BY <1>9, <3>1 DEF Stays, Lies
  <2>6. \A x \in I : Only(r, x, "queue", c)
    <3>1. SUFFICES ASSUME NEW x \in I, NEW k \in Kind, NEW d \in Spot
                   PROVE  Lies(r, x, k, d) <=> k = "queue" /\ d = c
      BY DEF Only
    <3>2. /\ x \in Item /\ (Lies(s, x, k, d) <=> k = "steers" /\ d = c)
          /\ Lies(s, x, "queue", d) => FALSE
          /\ Lies(s, x, "steers", d) => d = c
      BY <2>0, <2>1 DEF Only
    <3>3. CASE k = "queue"
      BY <1>9, <2>4, <3>2, <3>3 DEF Lies
    <3>4. CASE k = "steers"
      BY <1>9, <2>4, <3>2, <3>4 DEF Lies
    <3>5. CASE k \notin {"queue", "steers"}
      BY <1>9, <3>2, <3>5 DEF Lies
    <3> QED
      BY <3>3, <3>4, <3>5
  <2>7. \A x \in Item : x \in X <=> x \in X \/ x \in I
    BY <2>1
  <2> QED
    BY <1>10, <2>0, <2>3, <2>5, <2>6, <2>7, ComeTo
<1> QED
  BY <1>7, <1>9, <1>10

\* A turn ends, and hands on.
LEMMA FinallyKeeps ==
  ASSUME NEW s, Base(s), Served(s), NEW t \in Turn, s.turn[t].step # "free",
         NEW failed \in BOOLEAN, NEW cut \in BOOLEAN, NEW r \in Finally(s, t, failed, cut)
  PROVE  /\ Base(r) /\ Served(r)
         /\ \A X : Once(s, X) => Once(r, X)
<1>0. s \in Manager /\ Owned(s) /\ Solo(s) /\ Lined(s) /\ Noted(s)
  BY DEF Base
<1> DEFINE c == s.turn[t].chat
           p == Settle(s, t)
<1>1. c \in Chat
  BY <1>0 DEF Owned
<1>2. /\ p \in Manager /\ SameNotes(p, s) /\ p.runs = s.runs /\ p.line = s.line
      /\ p.turn[t].step = "free" /\ \A u \in Turn : u # t => SameTurn(p, s, u)
  BY <1>0, SettleKeeps
<1>3. \/ s.runs[c] # t /\ r = p
      \/ s.runs[c] = t /\ s.turn[t].image /\ r = Serve([p EXCEPT !.runs[c] = 0], TRUE)
      \/ /\ s.runs[c] = t /\ ~s.turn[t].image
         /\ \E o \in Onward(Unread(p, c), c, failed, cut) : r = Serve(o, s.line # <<>>)
  BY DEF Finally
<1> HIDE DEF p, c
<1>4. \A d \in Chat : s.runs[d] = t => d = c
  BY <1>0, Zero DEF Owned, c
<1>5. CASE s.runs[c] # t /\ r = p
  <2>1. \A d \in Chat : s.runs[d] # t
    BY <1>4, <1>5
  <2>2. \A d \in Chat : s.runs[d] # 0 => s.runs[d] \in Turn
    BY <1>0 DEF Manager
  <2>3. Lined(p)
    BY <1>0, <1>2 DEF Lined, SameNotes
  <2>4. Noted(p)
    BY <1>0, <1>2, <2>1, <2>2 DEF Noted, SameNotes, SameTurn
  <2>5. Base(p)
    BY <1>2, <2>1, <2>3, <2>4, FewerKeeps DEF LikeTurn, SameTurn
  <2>6. Served(p)
    BY <1>2 DEF Served, Running
  <2> QED
    BY <1>2, <1>5, <2>5, <2>6, SamePlaces
<1>6. CASE s.runs[c] = t /\ s.turn[t].image /\ r = Serve([p EXCEPT !.runs[c] = 0], TRUE)
  <2> DEFINE q == [p EXCEPT !.runs[c] = 0]
  <2>1. /\ q \in Manager /\ SameNotes(q, p) /\ q.line = p.line /\ q.turn = p.turn
        /\ q.runs[c] = 0 /\ \A d \in Chat \ {c} : q.runs[d] = p.runs[d]
    <3>1. PICK f : f = [p.runs EXCEPT ![c] = 0]
      OBVIOUS
    <3>2. f \in [Chat -> Turn \cup {0}] /\ f[c] = 0 /\ \A d \in Chat \ {c} : f[d] = p.runs[d]
      BY <1>1, <1>2, <3>1 DEF Manager
    <3>3. q = [p EXCEPT !.runs = f]
      BY <3>1
    <3> HIDE DEF q
    <3> QED
      BY <1>2, <3>2, <3>3 DEF Manager, SameNotes
  <2>2. r = Serve(q, TRUE)
    BY <1>6
  <2> HIDE DEF q
  <2>3. \A d \in Chat \ {c} : s.runs[d] # t /\ q.runs[d] = s.runs[d] /\ (s.runs[d] # 0 => s.runs[d] \in Turn)
    BY <1>0, <1>2, <1>4, <2>1 DEF Manager
  <2>4. Lined(q)
    BY <1>0, <1>2, <2>1 DEF Lined, SameNotes
  <2>5. \A x \in Message : ~Contains(s.steers[c], x)
    BY <1>0, <1>1, <1>6 DEF Noted
  <2>6. Noted(q)
    <3>1. SUFFICES ASSUME NEW d \in Chat, NEW x \in Message, Contains(s.steers[d], x)
                   PROVE  q.runs[d] # 0 /\ ~q.turn[q.runs[d]].image
      BY <1>2, <2>1 DEF Noted, SameNotes
    <3>2. d # c /\ s.runs[d] # 0 /\ ~s.turn[s.runs[d]].image
      BY <1>0, <2>5, <3>1 DEF Noted
    <3> QED
      BY <1>2, <2>1, <2>3, <3>2 DEF SameTurn
  <2>7. Base(q)
    <3>1. \A d \in Chat : q.runs[d] \in {0, s.runs[d]} /\ q.runs[d] # t
      BY <1>2, <2>1, <2>3, Zero
    <3>2. \A u \in Turn : LikeTurn(q, s, u) \/ (q.turn[u].step = "free" /\ \A d \in Chat : q.runs[d] # u)
      BY <1>2, <2>1, <3>1 DEF LikeTurn, SameTurn
    <3> QED
      BY <2>1, <2>4, <2>6, <3>1, <3>2, FewerKeeps
  <2>8. Free(q) # {}
    BY <1>2, <2>1 DEF Free
  <2>9. Base(r) /\ Served(r) /\ \A X : Once(q, X) => Once(r, X)
    BY <2>2, <2>7, <2>8, ServeKeeps
  <2>10. ASSUME NEW X, Once(s, X)
         PROVE  Once(r, X)
    <3>1. Once(p, X)
      BY <1>2, <2>10, SamePlaces
    <3>2. Once(q, X)
      BY <2>1, <3>1, SamePlaces
    <3> QED
      BY <2>9, <3>2
  <2> QED
    BY <2>9, <2>10
<1>7. CASE /\ s.runs[c] = t /\ ~s.turn[t].image
           /\ \E o \in Onward(Unread(p, c), c, failed, cut) : r = Serve(o, s.line # <<>>)
  <2> DEFINE q == Unread(p, c)
  <2>1. PICK o \in Onward(q, c, failed, cut) : r = Serve(o, s.line # <<>>)
    BY <1>7
  <2>2. /\ q \in Manager /\ q.turn = p.turn /\ q.line = p.line /\ q.parked = p.parked
        /\ q.runs[c] = 0 /\ \A d \in Chat \ {c} : q.runs[d] = p.runs[d]
        /\ q.steers[c] = <<>> /\ \A d \in Chat \ {c} : q.steers[d] = p.steers[d]
        /\ \A X : Once(p, X) => Once(q, X)
    BY <1>1, <1>2, UnreadKeeps
  <2> HIDE DEF q
  <2>3. \A d \in Chat \ {c} : s.runs[d] # t /\ q.runs[d] = s.runs[d] /\ (s.runs[d] # 0 => s.runs[d] \in Turn)
    BY <1>0, <1>2, <1>4, <2>2 DEF Manager
  <2>4. Lined(q)
    BY <1>0, <1>2, <2>2 DEF Lined, SameNotes
  <2>6. Noted(q)
    <3>1. SUFFICES ASSUME NEW d \in Chat, NEW x \in Message, Contains(q.steers[d], x)
                   PROVE  q.runs[d] # 0 /\ ~q.turn[q.runs[d]].image
      BY DEF Noted
    <3>2. d # c /\ Contains(s.steers[d], x)
      BY <1>2, <2>2, <3>1, Emptied DEF SameNotes
    <3>3. s.runs[d] # 0 /\ ~s.turn[s.runs[d]].image
      BY <1>0, <3>2 DEF Noted
    <3> QED
      BY <1>2, <2>2, <2>3, <3>2, <3>3 DEF SameTurn
  <2>7. Base(q)
    <3>1. \A d \in Chat : q.runs[d] \in {0, s.runs[d]} /\ q.runs[d] # t
      BY <1>2, <2>2, <2>3, Zero
    <3>2. \A u \in Turn : LikeTurn(q, s, u) \/ (q.turn[u].step = "free" /\ \A d \in Chat : q.runs[d] # u)
      BY <1>2, <2>2, <3>1 DEF LikeTurn, SameTurn
    <3> QED
      BY <2>2, <2>4, <2>6, <3>1, <3>2, FewerKeeps
  <2>8. Free(q) # {}
    BY <1>2, <2>2 DEF Free
  <2>9. /\ Base(o) /\ (Running(o) = {} => Free(o) # {} /\ (q.line = <<>> => o.line = <<>>))
        /\ \A X : Once(q, X) => Once(o, X)
    BY <1>1, <2>1, <2>2, <2>7, <2>8, OnwardKeeps
  <2>10. PICK w \in BOOLEAN : w = (s.line # <<>>)
    OBVIOUS
  <2>11. Base(r) /\ Served(r) /\ \A X : Once(o, X) => Once(r, X)
    <3>1. r = Serve(o, w)
      BY <2>1, <2>10
    <3>2. Running(o) = {} /\ ~w => o.line = <<>>
      BY <1>2, <2>2, <2>9, <2>10
    <3> QED
      BY <2>9, <3>1, <3>2, ServeKeeps
  <2>12. ASSUME NEW X, Once(s, X)
         PROVE  Once(r, X)
    <3>1. Once(p, X)
      BY <1>2, <2>12, SamePlaces
    <3> QED
      BY <2>2, <2>9, <2>11, <3>1
  <2> QED
    BY <2>11, <2>12
<1> QED
  BY <1>3, <1>5, <1>6, <1>7

-----------------------------------------------------------------------------
(* The user stops a chat, and writes into it.                              *)

LEMMA AsSet ==
  ASSUME NEW S, NEW s \in Seq(S)
  PROVE  ToSet(s) \in SUBSET S /\ \A y : y \in ToSet(s) <=> Contains(s, y)
<1>1. DOMAIN s = 1..Len(s) /\ \A i \in 1..Len(s) : s[i] \in S
  BY LenProperties, ElementOfSeq
<1> QED
  BY <1>1 DEF ToSet, Contains

\* Questions are answered and the notes of the turn dropped.
Quietened(s, c) ==
  [RefuseWaiting(s, c) EXCEPT !.stopped = @ \cup {c}, !.steers[c] = <<>>, !.dropped = @ \cup ToSet(s.steers[c])]

LEMMA QuietenedKeeps ==
  ASSUME NEW s, Base(s), NEW c \in Chat, NEW r, r = Quietened(s, c)
  PROVE  /\ Base(r) /\ r.runs = s.runs /\ r.line = s.line /\ r.parked = s.parked
         /\ Free(r) = Free(s) /\ r.steers[c] = <<>>
         /\ \A X : Once(s, X) => Once(r, X)
<1>0. s \in Manager /\ Lined(s) /\ Noted(s)
  BY DEF Base
<1>1. \A t \in Turn : s.turn[t] \in TurnType
  BY <1>0 DEF Manager
<1>2. PICK f : f = [t \in Turn |-> IF s.turn[t].chat = c /\ s.turn[t].step = "ask"
                                   THEN [s.turn[t] EXCEPT !.step = "engine"] ELSE s.turn[t]]
  OBVIOUS
<1>3. /\ f \in [Turn -> TurnType]
      /\ \A t \in Turn : /\ f[t].chat = s.turn[t].chat /\ (f[t].step = "free" <=> s.turn[t].step = "free")
                         /\ f[t].image = s.turn[t].image /\ f[t].barged = s.turn[t].barged
  <2>1. ASSUME NEW t \in Turn
        PROVE  /\ f[t] \in TurnType
               /\ f[t].chat = s.turn[t].chat /\ (f[t].step = "free" <=> s.turn[t].step = "free")
               /\ f[t].image = s.turn[t].image /\ f[t].barged = s.turn[t].barged
    <3>1. s.turn[t] \in TurnType
      BY <1>1
    <3>2. f[t] = IF s.turn[t].chat = c /\ s.turn[t].step = "ask"
                 THEN [s.turn[t] EXCEPT !.step = "engine"] ELSE s.turn[t]
      BY <1>2
    <3> QED
      BY <3>1, <3>2 DEF TurnType
  <2>2. f = [t \in Turn |-> f[t]]
    BY <1>2
  <2> QED
    BY <2>1, <2>2
<1>4. s.steers \in [Chat -> Seq(Item)] /\ s.steers[c] \in Seq(Item) /\ <<>> \in Seq(Item)
  BY <1>0, EmptySeq DEF Manager
<1>5. PICK h : h = [s.steers EXCEPT ![c] = <<>>]
  OBVIOUS
<1>6. h \in [Chat -> Seq(Item)] /\ h[c] = <<>> /\ \A d \in Chat \ {c} : h[d] = s.steers[d]
  BY <1>4, <1>5
<1> DEFINE I == ToSet(s.steers[c])
<1>7. I \in SUBSET Item /\ \A y : y \in I <=> Contains(s.steers[c], y)
  BY <1>4, AsSet
<1>8. r = [s EXCEPT !.turn = f, !.stopped = s.stopped \cup {c}, !.steers = h, !.dropped = s.dropped \cup I]
  BY <1>2, <1>5 DEF Quietened, RefuseWaiting
<1> HIDE DEF I
<1>9. /\ r \in Manager /\ r.runs = s.runs /\ r.line = s.line /\ r.parked = s.parked /\ r.turn = f
      /\ r.steers = h /\ r.dropped = s.dropped \cup I /\ r.queue = s.queue /\ r.inbox = s.inbox
      /\ r.replies = s.replies /\ r.told = s.told
  <2>1. s.stopped \cup {c} \in SUBSET Chat /\ s.dropped \cup I \in SUBSET Item
    BY <1>0, <1>7 DEF Manager
  <2>2. PICK a : a = s.stopped \cup {c}
    OBVIOUS
  <2>3. PICK b : b = s.dropped \cup I
    OBVIOUS
  <2> QED
    BY <1>0, <1>3, <1>6, <1>8, <2>1, <2>2, <2>3, ZenonT(60) DEF Manager
<1>10. Lined(r) /\ Noted(r)
  <2>1. Lined(r)
    BY <1>0, <1>9 DEF Lined
  <2>2. SUFFICES ASSUME NEW d \in Chat, NEW x \in Message, Contains(h[d], x)
                 PROVE  r.runs[d] # 0 /\ ~f[r.runs[d]].image
    BY <1>9, <2>1 DEF Noted
  <2>3. d # c /\ Contains(s.steers[d], x)
    BY <1>6, <2>2, Emptied
  <2>4. s.runs[d] # 0 /\ ~s.turn[s.runs[d]].image
    BY <1>0, <2>3 DEF Noted
  <2>5. s.runs[d] \in Turn
    BY <1>0, <2>4 DEF Manager
  <2> QED
    BY <1>3, <1>9, <2>4, <2>5
<1>11. \A t \in Turn : LikeTurn(r, s, t)
  BY <1>3, <1>9 DEF LikeTurn
<1>12. Base(r)
  BY <1>9, <1>10, <1>11, FewerKeeps
<1>13. Free(r) = Free(s)
  BY <1>3, <1>9 DEF Free
<1>14. ASSUME NEW X, Once(s, X)
       PROVE  Once(r, X)
  <2>0. "steers" \in Kind /\ "dropped" \in Kind /\ c \in Spot /\ 0 \in Spot /\ 0 \notin Chat
    BY ConstantsAssumption DEF Kind, Spot
  <2>1. ASSUME NEW x \in I
        PROVE  x \in Item /\ x \in X /\ Only(s, x, "steers", c)
    <3>1. x \in Item /\ Lies(s, x, "steers", c)
      BY <1>7 DEF Lies
    <3> QED
      BY <1>14, <2>0, <3>1, OnlyThere
  <2>2. Distinct(r)
    <3>1. \A d \in Chat : IsInjective(h[d])
      BY <1>6, <1>14, Emptied DEF Once, Distinct
    <3> QED
      BY <1>9, <1>14, <3>1 DEF Once, Distinct
  <2>3. \A x \in Item, d \in Chat : Contains(h[d], x) <=> Contains(s.steers[d], x) /\ d # c
    BY <1>6, Emptied
  <2>4. \A x \in Item \ I : Stays(r, s, x)
    <3>1. \A x \in Item \ I, d \in Chat : Contains(h[d], x) <=> Contains(s.steers[d], x)
      BY <1>7, <2>3
    <3> QED
      BY <1>9, <3>1 DEF Stays, Lies
  <2>5. \A x \in I : Only(r, x, "dropped", 0)
    <3>1. SUFFICES ASSUME NEW x \in I, NEW k \in Kind, NEW d \in Spot
                   PROVE  Lies(r, x, k, d) <=> k = "dropped" /\ d = 0
      BY DEF Only
    <3>2. x \in Item /\ (Lies(s, x, k, d) <=> k = "steers" /\ d = c)
      BY <2>1 DEF Only
    <3>3. CASE k = "dropped"
      BY <1>9, <3>3 DEF Lies
    <3>4. CASE k = "steers"
      BY <1>9, <2>3, <3>2, <3>4 DEF Lies
    <3>5. CASE k \notin {"dropped", "steers"}
      BY <1>9, <3>2, <3>5 DEF Lies
    <3> QED
      BY <3>3, <3>4, <3>5
  <2>6. \A x \in Item : x \in X <=> x \in X \/ x \in I
    BY <2>1
  <2> QED
    BY <1>7, <1>14, <2>0, <2>2, <2>4, <2>5, <2>6, ComeTo
<1> QED
  BY <1>6, <1>9, <1>12, <1>13, <1>14

LEMMA CancelKeeps ==
  ASSUME NEW s, Base(s), NEW c \in Chat, NEW r, r = CancelParked(s, c)
  PROVE  /\ Base(r) /\ r.turn = s.turn /\ r.runs = s.runs /\ r.steers = s.steers
         /\ \A d : Contains(r.line, d) => Contains(s.line, d)
         /\ Served(s) => Served(r)
         /\ \A X : Once(s, X) => Once(r, X)
<1>0. s \in Manager /\ Lined(s) /\ Noted(s) /\ 0 \notin Item
  BY Zero DEF Base
<1>1. CASE s.parked[c] = 0
  <2>1. r = s
    BY <1>1 DEF CancelParked
  <2> QED
    BY <2>1
<1>2. CASE s.parked[c] # 0
  <2> DEFINE x == s.parked[c]
  <2>1. x \in Item /\ s.line \in Seq(Chat)
    BY <1>0, <1>2 DEF Manager
  <2>2. PICK l : l = RemoveFirst(s.line, c)
    OBVIOUS
  <2>3. /\ l \in Seq(Chat) /\ \A y : Contains(l, y) => Contains(s.line, y)
        /\ \A y : y # c /\ Contains(s.line, y) => Contains(l, y)
    BY <2>1, <2>2, LineLeft
  <2>4. PICK f : f = [s.parked EXCEPT ![c] = 0]
    OBVIOUS
  <2>5. PICK g : g = [s.told EXCEPT ![c] = s.told[c] \cup {x}]
    OBVIOUS
  <2>6. /\ f \in [Chat -> Item \cup {0}] /\ f[c] = 0 /\ \A d \in Chat \ {c} : f[d] = s.parked[d]
        /\ g \in [Chat -> SUBSET Item] /\ g[c] = s.told[c] \cup {x} /\ \A d \in Chat \ {c} : g[d] = s.told[d]
    <3>1. s.parked \in [Chat -> Item \cup {0}] /\ s.told \in [Chat -> SUBSET Item]
      BY <1>0 DEF Manager
    <3> QED
      BY <2>1, <2>4, <2>5, <3>1
  <2>7. r = [s EXCEPT !.parked = f, !.told = g, !.line = l]
    BY <1>2, <2>2, <2>4, <2>5 DEF CancelParked
  <2> HIDE DEF x
  <2>8. /\ r \in Manager /\ r.turn = s.turn /\ r.runs = s.runs /\ r.steers = s.steers
        /\ r.parked = f /\ r.told = g /\ r.line = l /\ r.queue = s.queue /\ r.inbox = s.inbox
        /\ r.replies = s.replies /\ r.dropped = s.dropped
    BY <1>0, <2>3, <2>6, <2>7, ZenonT(60) DEF Manager
  <2>9. Lined(r) /\ Noted(r)
    BY <1>0, <2>3, <2>6, <2>8 DEF Lined, Noted
  <2>10. Base(r) /\ Running(r) = Running(s)
    BY <2>8, <2>9, Untouched
  <2>11. Served(s) => Served(r)
    <3>1. s.line # <<>>
      BY <1>0, <1>2, Emptied DEF Lined
    <3> QED
      BY <2>10, <3>1 DEF Served
  <2>12. ASSUME NEW X, Once(s, X)
         PROVE  Once(r, X)
    <3>0. "parked" \in Kind /\ "told" \in Kind /\ c \in Spot
      BY DEF Kind, Spot
    <3>1. x \in X /\ Only(s, x, "parked", c)
      <4>1. Lies(s, x, "parked", c)
        BY DEF Lies, x
      <4> QED
        BY <2>1, <2>12, <3>0, <4>1, OnlyThere
    <3>2. Distinct(r)
      BY <2>8, <2>12 DEF Once, Distinct
    <3>3. \A y \in Item \ {x} : Stays(r, s, y)
      <4>1. \A y \in Item \ {x}, d \in Chat : (f[d] = y <=> s.parked[d] = y) /\ (y \in g[d] <=> y \in s.told[d])
        BY <1>0, <2>6 DEF x
      <4> QED
        BY <2>8, <4>1 DEF Stays, Lies
    <3>4. Only(r, x, "told", c)
      <4>1. SUFFICES ASSUME NEW k \in Kind, NEW d \in Spot
                     PROVE  Lies(r, x, k, d) <=> k = "told" /\ d = c
        BY DEF Only
      <4>2. Lies(s, x, k, d) <=> k = "parked" /\ d = c
        BY <3>1 DEF Only
      <4>3. CASE k = "told"
        BY <2>6, <2>8, <4>2, <4>3 DEF Lies
      <4>4. CASE k = "parked"
        BY <1>0, <2>1, <2>6, <2>8, <4>2, <4>4 DEF Lies
      <4>5. CASE k \notin {"told", "parked"}
        BY <2>8, <4>2, <4>5 DEF Lies
      <4> QED
        BY <4>3, <4>4, <4>5
    <3>5. Once(r, X \cup {x}) /\ X \cup {x} = X
      BY <2>1, <2>12, <3>0, <3>1, <3>2, <3>3, <3>4, OneComesTo
    <3> QED
      BY <3>5
  <2> QED
    BY <2>3, <2>8, <2>10, <2>11, <2>12
<1> QED
  BY <1>1, <1>2

\* The chat's turn, if it has one, is over and the line is served.
LEMMA StopTurnKeeps ==
  ASSUME NEW s, Base(s), Served(s), Free(s) # {}, NEW c \in Chat, s.steers[c] = <<>>, NEW r, r = StopTurn(s, c)
  PROVE  /\ Base(r) /\ Served(r) /\ TakesOne(r, s)
         /\ Running(r) = {} => Free(r) # {}
         /\ r.runs[c] # 0 /\ s.runs[c] # 0 => Contains(s.line, c) /\ Running(r) = {c}
         /\ s.runs[c] = 0 => r = s
         /\ \A X : Once(s, X) => Once(r, X)
<1>0. s \in Manager /\ Owned(s) /\ Lined(s) /\ Noted(s)
  BY DEF Base
<1>1. CASE s.runs[c] = 0
  <2>1. r = s
    BY <1>1 DEF StopTurn
  <2> QED
    BY <1>1, <2>1 DEF TakesOne
<1>2. CASE s.runs[c] # 0
  <2> DEFINE a == Abort(s, c)
             p == [a EXCEPT !.runs[c] = 0]
  <2>1. r = Serve(p, TRUE)
    BY <1>2 DEF StopTurn
  <2>2. /\ a \in Manager /\ a.runs = s.runs /\ a.line = s.line /\ SameNotes(a, s)
        /\ \A t \in Turn : SameTurn(a, s, t)
    BY <1>0, Aborts
  <2> HIDE DEF a
  <2>3. /\ p \in Manager /\ SameNotes(p, a) /\ p.line = a.line /\ p.turn = a.turn
        /\ p.runs[c] = 0 /\ \A d \in Chat \ {c} : p.runs[d] = a.runs[d]
    <3>1. PICK f : f = [a.runs EXCEPT ![c] = 0]
      OBVIOUS
    <3>2. f \in [Chat -> Turn \cup {0}] /\ f[c] = 0 /\ \A d \in Chat \ {c} : f[d] = a.runs[d]
      BY <2>2, <3>1 DEF Manager
    <3>3. p = [a EXCEPT !.runs = f]
      BY <3>1
    <3> HIDE DEF p
    <3> QED
      BY <2>2, <3>2, <3>3 DEF Manager, SameNotes
  <2> HIDE DEF p
  <2>4. Lined(p)
    BY <1>0, <2>2, <2>3 DEF Lined, SameNotes
  <2>5. Noted(p)
    <3>1. SUFFICES ASSUME NEW d \in Chat, NEW x \in Message, Contains(s.steers[d], x)
                   PROVE  p.runs[d] # 0 /\ ~p.turn[p.runs[d]].image
      BY <2>2, <2>3 DEF Noted, SameNotes
    <3>2. d # c
      BY <3>1, Emptied
    <3>3. s.runs[d] # 0 /\ ~s.turn[s.runs[d]].image /\ s.runs[d] \in Turn
      BY <1>0, <3>1 DEF Noted, Manager
    <3> QED
      BY <2>2, <2>3, <3>2, <3>3 DEF SameTurn
  <2>6. Base(p)
    <3>1. \A d \in Chat : p.runs[d] \in {0, s.runs[d]}
      BY <2>2, <2>3
    <3>2. \A t \in Turn : LikeTurn(p, s, t)
      BY <2>2, <2>3 DEF LikeTurn, SameTurn
    <3> QED
      BY <2>3, <2>4, <2>5, <3>1, <3>2, FewerKeeps
  <2>7. Free(p) = Free(s)
    BY <2>2, <2>3 DEF Free, SameTurn
  <2>8. /\ Base(r) /\ Served(r) /\ TakesOne(r, p)
        /\ Running(p) # {} => r = p
        /\ Running(p) = {} => /\ Running(r) = {} => Free(r) # {}
                              /\ \A d \in Running(r) : Contains(p.line, d) /\ Running(r) = {d}
        /\ \A X : Once(p, X) => Once(r, X)
    BY <2>1, <2>6, <2>7, ServeKeeps
  <2>9. TakesOne(r, s)
    BY <2>7, <2>8 DEF TakesOne
  <2>10. r.runs[c] # 0 => Contains(s.line, c) /\ Running(r) = {c}
    <3>1. SUFFICES ASSUME r.runs[c] # 0
                   PROVE  Contains(s.line, c) /\ Running(r) = {c}
      OBVIOUS
    <3>2. c \in Running(r) /\ Running(p) = {}
      BY <2>3, <2>8, <3>1 DEF Running
    <3> QED
      BY <2>2, <2>3, <2>8, <3>2
  <2>11. ASSUME NEW X, Once(s, X)
         PROVE  Once(r, X)
    <3>1. Once(a, X)
      BY <2>2, <2>11, SamePlaces
    <3>2. Once(p, X)
      BY <2>3, <3>1, SamePlaces
    <3> QED
      BY <2>8, <3>2
  <2> QED
    BY <1>2, <2>8, <2>9, <2>10, <2>11
<1> QED
  BY <1>1, <1>2

LEMMA StopChatKeeps ==
  ASSUME NEW s, Base(s), Served(s), Free(s) # {}, NEW c \in Chat, NEW r, r = StopChat(s, c)
  PROVE  /\ Base(r) /\ Served(r) /\ TakesOne(r, s)
         /\ Running(r) = {} => Free(r) # {}
         /\ r.runs[c] # 0 /\ s.runs[c] # 0 => Contains(s.line, c) /\ Running(r) = {c}
         /\ \A X : Once(s, X) => Once(r, X)
<1> DEFINE p == Quietened(s, c)
           q == CancelParked(p, c)
           u == StopTurn(q, c)
<1>1. r = [u EXCEPT !.folds = @ \ {c}]
  BY DEF StopChat, Quietened
<1>2. /\ Base(p) /\ p.runs = s.runs /\ p.line = s.line /\ p.parked = s.parked
      /\ Free(p) = Free(s) /\ p.steers[c] = <<>>
      /\ \A X : Once(s, X) => Once(p, X)
  BY QuietenedKeeps
<1>3. Served(p)
  BY <1>2 DEF Served, Running
<1> HIDE DEF p
<1>4. /\ Base(q) /\ q.turn = p.turn /\ q.runs = p.runs /\ q.steers = p.steers
      /\ \A d : Contains(q.line, d) => Contains(p.line, d)
      /\ Served(q) /\ \A X : Once(p, X) => Once(q, X)
  BY <1>2, <1>3, CancelKeeps
<1>5. Free(q) = Free(p)
  BY <1>4 DEF Free
<1> HIDE DEF q
<1>6. /\ Base(u) /\ Served(u) /\ TakesOne(u, q)
      /\ Running(u) = {} => Free(u) # {}
      /\ u.runs[c] # 0 /\ q.runs[c] # 0 => Contains(q.line, c) /\ Running(u) = {c}
      /\ \A X : Once(q, X) => Once(u, X)
  BY <1>2, <1>4, <1>5, StopTurnKeeps
<1> HIDE DEF u
<1>7. r \in Manager /\ Still(r, u) /\ SameNotes(r, u)
  BY <1>1, <1>6, ZenonT(60) DEF Base, Manager, Still, SameNotes
<1>8. Base(r) /\ Running(r) = Running(u) /\ Free(r) = Free(u) /\ Served(r) /\ r.runs = u.runs
  BY <1>6, <1>7, StillKeeps DEF Still
<1>9. TakesOne(r, s)
  BY <1>2, <1>5, <1>6, <1>8 DEF TakesOne
<1>10. r.runs[c] # 0 /\ s.runs[c] # 0 => Contains(s.line, c) /\ Running(r) = {c}
  BY <1>2, <1>4, <1>6, <1>8
<1>11. ASSUME NEW X, Once(s, X)
       PROVE  Once(r, X)
  BY <1>2, <1>4, <1>6, <1>7, <1>11, SamePlaces
<1> QED
  BY <1>6, <1>8, <1>9, <1>10, <1>11

\* There is a turn free for what a call begins, and a second one where it may begin two.
Roomy(s, c) ==
  /\ Free(s) # {}
  /\ s.runs[c] # 0 /\ Contains(s.line, c) => \A t : Free(s) \ {t} # {}

LEMMA RoomIs ==
  ASSUME Room, NEW c \in Chat
  PROVE  Roomy(m, c)
<1>1. IsFiniteSet(Free(m))
  <2>1. IsFiniteSet(Turn) /\ Free(m) \subseteq Turn
    BY FS_Interval, ConstantsAssumption DEF Turn, Free
  <2> QED
    BY <2>1, FS_Subset
<1>2. Cardinality(Free(m)) \in Nat
  BY <1>1, FS_CardinalityType
<1>3. Free(m) # {}
  <2>1. Cardinality(Free(m)) > 0
    BY <1>2 DEF Room
  <2> QED
    BY <2>1, FS_EmptySet
<1>4. ASSUME m.runs[c] # 0, Contains(m.line, c), NEW t, Free(m) \ {t} = {}
      PROVE  FALSE
  <2>1. Cardinality(Free(m)) > 1
    BY <1>2, <1>4 DEF Room, Running
  <2>2. IsFiniteSet({t}) /\ Cardinality({t}) = 1 /\ Free(m) \subseteq {t}
    BY <1>4, FS_Singleton
  <2>3. Cardinality(Free(m)) <= Cardinality({t})
    BY <2>2, FS_Subset
  <2> QED
    BY <1>2, <2>1, <2>2, <2>3
<1> QED
  BY <1>3, <1>4 DEF Roomy

LEMMA SendNowKeeps ==
  ASSUME NEW s, Base(s), Served(s), NEW c \in Chat, NEW x \in Item, Roomy(s, c), NEW r, r = SendNow(s, c, x)
  PROVE  /\ Base(r) /\ Running(r) # {}
         /\ \A X : Once(s, X) /\ x \notin X => Once(r, X \cup {x})
<1>1. CASE s.runs[c] = 0
  <2>1. r = Send(s, c, x)
    BY <1>1 DEF SendNow
  <2>2. MayStart(s, c)
    BY <1>1 DEF MayStart, Roomy, Calm
  <2> QED
    BY <2>1, <2>2, SendKeeps
<1>2. CASE s.runs[c] # 0
  <2> DEFINE p == StopChat(s, c)
  <2>1. r = Send(p, c, x)
    BY <1>2 DEF SendNow
  <2>2. /\ Base(p) /\ Served(p) /\ TakesOne(p, s)
        /\ Running(p) = {} => Free(p) # {}
        /\ p.runs[c] # 0 => Contains(s.line, c) /\ Running(p) = {c}
        /\ \A X : Once(s, X) => Once(p, X)
    BY <1>2, StopChatKeeps DEF Roomy
  <2> HIDE DEF p
  <2>3. MayStart(p, c)
    <3>1. Running(p) = {} => Calm(p, c)
      BY DEF Calm
    <3>2. p.runs[c] # 0 => Calm(p, c) /\ Free(p) # {}
      BY <1>2, <2>2 DEF Calm, TakesOne, Roomy
    <3> QED
      BY <2>2, <3>1, <3>2 DEF MayStart
  <2> QED
    BY <2>1, <2>2, <2>3, SendKeeps
<1> QED
  BY <1>1, <1>2

\* A chat's notes are others.
Renoted(r, s, c, q) ==
  /\ r.turn = s.turn /\ r.runs = s.runs /\ r.line = s.line
  /\ r.queue = s.queue /\ r.parked = s.parked /\ r.inbox = s.inbox
  /\ r.replies = s.replies /\ r.told = s.told /\ r.dropped = s.dropped
  /\ r.steers[c] = q /\ \A d \in Chat \ {c} : r.steers[d] = s.steers[d]

LEMMA Renote ==
  ASSUME NEW s \in Manager, NEW c \in Chat, NEW q \in Seq(Item), NEW r, r = [s EXCEPT !.steers[c] = q]
  PROVE  r \in Manager /\ Renoted(r, s, c, q)
<1>1. s.steers \in [Chat -> Seq(Item)]
  BY DEF Manager
<1>2. PICK h : h = [s.steers EXCEPT ![c] = q]
  OBVIOUS
<1>3. h \in [Chat -> Seq(Item)] /\ h[c] = q /\ \A d \in Chat \ {c} : h[d] = s.steers[d]
  BY <1>1, <1>2
<1>4. r = [s EXCEPT !.steers = h]
  BY <1>2
<1> QED
  BY <1>3, <1>4 DEF Manager, Renoted

\* The user's own notes wait only while a turn of the chat reads them.
ReadHere(s, c, q) ==
  \A x \in Message : Contains(q, x) => s.runs[c] # 0 /\ ~s.turn[s.runs[c]].image

LEMMA NotesKeep ==
  ASSUME NEW s, Base(s), NEW c \in Chat, NEW q, ReadHere(s, c, q), NEW r \in Manager, Renoted(r, s, c, q)
  PROVE  Base(r) /\ Running(r) = Running(s) /\ Free(r) = Free(s)
<1>1. Lined(r)
  BY DEF Base, Lined, Renoted
<1>2. Noted(r)
  <2>1. SUFFICES ASSUME NEW d \in Chat, NEW x \in Message, Contains(r.steers[d], x)
                 PROVE  s.runs[d] # 0 /\ ~s.turn[s.runs[d]].image
    BY DEF Noted, Renoted
  <2>2. CASE d = c
    BY <2>1, <2>2 DEF Renoted, ReadHere
  <2>3. CASE d # c
    BY <2>1, <2>3 DEF Base, Noted, Renoted
  <2> QED
    BY <2>2, <2>3
<1>3. r.turn = s.turn /\ r.runs = s.runs
  BY DEF Renoted
<1> QED
  BY <1>1, <1>2, <1>3, Untouched

\* x is new: now it is in c's notes, in its queue, or what it sends.
LEMMA SteerKeeps ==
  ASSUME NEW s, Base(s), NEW c \in Chat, NEW x \in Item, s.runs[c] = 0 => MayStart(s, c),
         NEW r, r = Steer(s, c, x)
  PROVE  /\ Base(r) /\ Running(r) # {}
         /\ \A X : Once(s, X) /\ x \notin X => Once(r, X \cup {x})
<1>1. CASE s.runs[c] = 0 \/ s.turn[s.runs[c]].image
  <2>1. r = Enqueue(s, c, x)
    BY <1>1 DEF Steer
  <2> QED
    BY <2>1, EnqueueKeeps
<1>2. CASE ~(s.runs[c] = 0 \/ s.turn[s.runs[c]].image)
  <2> DEFINE q == Append(s.steers[c], x)
  <2>1. s.steers[c] \in Seq(Item) /\ s \in Manager
    BY DEF Base, Manager
  <2>2. /\ q \in Seq(Item) /\ \A y : Contains(q, y) <=> y = x \/ Contains(s.steers[c], y)
        /\ IsInjective(s.steers[c]) /\ ~Contains(s.steers[c], x) => IsInjective(q)
    BY <2>1, Appended
  <2>3. r = [s EXCEPT !.steers[c] = q]
    BY <1>2 DEF Steer
  <2>0. ReadHere(s, c, q)
    BY <1>2 DEF ReadHere
  <2> HIDE DEF q
  <2>7. r \in Manager /\ Renoted(r, s, c, q)
    BY <2>1, <2>2, <2>3, Renote
  <2>4. Base(r) /\ Running(r) = Running(s)
    BY <2>0, <2>7, NotesKeep
  <2>5. ASSUME NEW X, Once(s, X), x \notin X
        PROVE  Once(r, X \cup {x})
    <3>0. "steers" \in Kind /\ c \in Spot
      BY DEF Kind, Spot
    <3>1. \A k \in Kind, d \in Spot : ~Lies(s, x, k, d)
      BY <2>5 DEF Once
    <3>2. \A y \in Item \ {x} : Stays(r, s, y)
      BY <2>2, <2>7 DEF Stays, Lies, Renoted
    <3>3. Distinct(r)
      <4>1. IsInjective(s.steers[c]) /\ ~Contains(s.steers[c], x)
        BY <2>5, <3>0, <3>1 DEF Once, Distinct, Lies
      <4> QED
        BY <2>2, <2>5, <2>7, <4>1 DEF Once, Distinct, Renoted
    <3>4. Only(r, x, "steers", c)
      BY <2>2, <2>7, <3>1 DEF Only, Lies, Renoted
    <3> QED
      BY <2>5, <3>0, <3>2, <3>3, <3>4, OneComesTo
  <2>6. Running(s) # {}
    BY <1>2 DEF Running
  <2> QED
    BY <2>4, <2>5, <2>6
<1> QED
  BY <1>1, <1>2

-----------------------------------------------------------------------------
(* The actions of a turn.                                                  *)

\* A step after which everything is still somewhere, once.
Kept(r, s) == Base(r) /\ Served(r) /\ \A X : Once(s, X) => Once(r, X)

AsTurn(a, b) ==
  /\ a.chat = b.chat /\ (a.step = "free" <=> b.step = "free")
  /\ a.image = b.image /\ a.barged = b.barged

LEMMA StepsKeep ==
  ASSUME NEW s, Base(s), Served(s), NEW f \in [Turn -> TurnType], \A t \in Turn : AsTurn(f[t], s.turn[t]),
         NEW r, r = [s EXCEPT !.turn = f]
  PROVE  Kept(r, s)
<1>0. s \in Manager /\ Lined(s) /\ Noted(s)
  BY DEF Base
<1>1. /\ r \in Manager /\ r.turn = f /\ r.runs = s.runs /\ r.line = s.line
      /\ SameNotes(r, s)
  BY <1>0 DEF Manager, SameNotes
<1>2. Lined(r)
  BY <1>0, <1>1 DEF Lined, SameNotes
<1>3. Noted(r)
  <2>1. SUFFICES ASSUME NEW c \in Chat, NEW x \in Message, Contains(s.steers[c], x)
                 PROVE  s.runs[c] # 0 /\ ~f[s.runs[c]].image
    BY <1>1 DEF Noted, SameNotes
  <2>2. s.runs[c] # 0 /\ ~s.turn[s.runs[c]].image
    BY <1>0, <2>1 DEF Noted
  <2>3. s.runs[c] \in Turn
    BY <1>0, <2>2 DEF Manager
  <2> QED
    BY <2>2, <2>3 DEF AsTurn
<1>4. \A t \in Turn : LikeTurn(r, s, t)
  BY <1>1 DEF LikeTurn, AsTurn
<1>5. Base(r)
  BY <1>1, <1>2, <1>3, <1>4, FewerKeeps
<1>6. Served(r)
  BY <1>1 DEF Served, Running
<1> QED
  BY <1>1, <1>5, <1>6, SamePlaces DEF Kept

\* One turn goes on to its next await.
LEMMA StepKeeps ==
  ASSUME NEW s, Base(s), Served(s), NEW t \in Turn, NEW new \in TurnType, AsTurn(new, s.turn[t]),
         NEW r, r = [s EXCEPT !.turn[t] = new]
  PROVE  Kept(r, s)
<1>1. s.turn \in [Turn -> TurnType]
  BY DEF Base, Manager
<1>2. PICK f : f = [s.turn EXCEPT ![t] = new]
  OBVIOUS
<1>3. f \in [Turn -> TurnType] /\ f[t] = new /\ \A u \in Turn : u # t => f[u] = s.turn[u]
  BY <1>1, <1>2
<1>4. \A u \in Turn : AsTurn(f[u], s.turn[u])
  BY <1>3 DEF AsTurn
<1>5. r = [s EXCEPT !.turn = f]
  BY <1>2
<1> QED
  BY <1>3, <1>4, <1>5, StepsKeep

LEMMA BecomesKeeps ==
  ASSUME NEW s, Base(s), Served(s), NEW t \in Turn, s.turn[t].step # "free",
         NEW step \in {"unwind", "fold", "engine", "ask", "backoff", "draw"},
         NEW r, r = [s EXCEPT !.turn[t].step = step]
  PROVE  Kept(r, s)
<1>1. s.turn[t] \in TurnType
  BY DEF Base, Manager
<1>2. PICK new : new = [s.turn[t] EXCEPT !.step = step]
  OBVIOUS
<1>3. new \in TurnType /\ AsTurn(new, s.turn[t])
  BY <1>1, <1>2 DEF TurnType, AsTurn
<1>4. r = [s EXCEPT !.turn[t] = new]
  BY <1>2
<1> QED
  BY <1>3, <1>4, StepKeeps

\* The next request takes the notes and the reports of its chat along.
LEMMA ReadsNotesKeeps ==
  ASSUME NEW s, Base(s), Served(s), NEW c \in Chat,
         NEW r, r = [s EXCEPT !.told[c] = @ \cup ToSet(s.steers[c]) \cup s.inbox[c],
                              !.steers[c] = <<>>, !.inbox[c] = {}]
  PROVE  Kept(r, s)
<1> DEFINE I == ToSet(s.steers[c]) \cup s.inbox[c]
<1>0. s \in Manager /\ Lined(s) /\ Noted(s)
  BY DEF Base
<1>1. /\ s.steers \in [Chat -> Seq(Item)] /\ s.steers[c] \in Seq(Item) /\ <<>> \in Seq(Item)
      /\ s.inbox \in [Chat -> SUBSET Report] /\ s.told \in [Chat -> SUBSET Item]
  BY <1>0, EmptySeq DEF Manager
<1>2. I \in SUBSET Item /\ \A y : y \in I <=> Contains(s.steers[c], y) \/ y \in s.inbox[c]
  BY <1>1, AsSet DEF Item
<1>3. PICK h : h = [s.steers EXCEPT ![c] = <<>>]
  OBVIOUS
<1>4. PICK b : b = [s.inbox EXCEPT ![c] = {}]
  OBVIOUS
<1>5. PICK w : w = [s.told EXCEPT ![c] = s.told[c] \cup I]
  OBVIOUS
<1>6. h \in [Chat -> Seq(Item)] /\ h[c] = <<>> /\ \A d \in Chat \ {c} : h[d] = s.steers[d]
  BY <1>1, <1>3
<1>7. b \in [Chat -> SUBSET Report] /\ b[c] = {} /\ \A d \in Chat \ {c} : b[d] = s.inbox[d]
  BY <1>1, <1>4
<1>8. w \in [Chat -> SUBSET Item] /\ w[c] = s.told[c] \cup I /\ \A d \in Chat \ {c} : w[d] = s.told[d]
  <2>1. s.told[c] \cup I \in SUBSET Item
    BY <1>1, <1>2
  <2> QED
    BY <1>1, <1>5, <2>1
<1>9. r = [s EXCEPT !.told = w, !.steers = h, !.inbox = b]
  <2>1. s.told[c] \cup ToSet(s.steers[c]) \cup s.inbox[c] = s.told[c] \cup I
    OBVIOUS
  <2> QED
    BY <1>0, <1>3, <1>4, <1>5, <2>1 DEF Manager
<1> HIDE DEF I
<1>10. /\ r \in Manager /\ r.turn = s.turn /\ r.runs = s.runs /\ r.line = s.line /\ r.queue = s.queue
       /\ r.parked = s.parked /\ r.replies = s.replies /\ r.dropped = s.dropped
       /\ r.told = w /\ r.steers = h /\ r.inbox = b
  BY <1>0, <1>6, <1>7, <1>8, <1>9, ZenonT(60) DEF Manager
<1>11. \A x, d : d \in Chat => (Contains(h[d], x) <=> Contains(s.steers[d], x) /\ d # c)
  BY <1>6, Emptied
<1>12. Lined(r) /\ Noted(r)
  BY <1>0, <1>10, <1>11 DEF Lined, Noted
<1>13. Base(r) /\ Running(r) = Running(s)
  BY <1>10, <1>12, Untouched
<1>14. ASSUME NEW X, Once(s, X)
       PROVE  Once(r, X)
  <2>0. {"steers", "inbox", "told"} \subseteq Kind /\ c \in Spot
    BY DEF Kind, Spot
  <2>1. ASSUME NEW x \in I
        PROVE  x \in Item /\ x \in X /\ (Only(s, x, "steers", c) \/ Only(s, x, "inbox", c))
    <3>1. x \in Item /\ (Lies(s, x, "steers", c) \/ Lies(s, x, "inbox", c))
      BY <1>2 DEF Lies
    <3> QED
      BY <1>14, <2>0, <3>1, OnlyThere
  <2>2. Distinct(r)
    <3>1. \A d \in Chat : IsInjective(h[d])
      BY <1>6, <1>14, Emptied DEF Once, Distinct
    <3> QED
      BY <1>10, <1>14, <3>1 DEF Once, Distinct
  <2>3. \A x \in Item \ I : Stays(r, s, x)
    <3>1. \A x \in Item \ I, d \in Chat : /\ Contains(h[d], x) <=> Contains(s.steers[d], x)
                                          /\ x \in b[d] <=> x \in s.inbox[d]
                                          /\ x \in w[d] <=> x \in s.told[d]
      BY <1>2, <1>7, <1>8, <1>11
    <3> QED
      BY <1>10, <3>1 DEF Stays, Lies
  <2>4. \A x \in I : Only(r, x, "told", c)
    <3>1. SUFFICES ASSUME NEW x \in I, NEW k \in Kind, NEW d \in Spot
                   PROVE  Lies(r, x, k, d) <=> k = "told" /\ d = c
      BY DEF Only
    <3>2. /\ x \in Item
          /\ \/ Lies(s, x, k, d) <=> k = "steers" /\ d = c
             \/ Lies(s, x, k, d) <=> k = "inbox" /\ d = c
      BY <2>1 DEF Only
    <3>3. CASE k = "told"
      BY <1>8, <1>10, <3>2, <3>3 DEF Lies
    <3>4. CASE k = "steers"
      BY <1>10, <1>11, <3>2, <3>4 DEF Lies
    <3>5. CASE k = "inbox"
      BY <1>7, <1>10, <3>2, <3>5 DEF Lies
    <3>6. CASE k \notin {"told", "steers", "inbox"}
      BY <1>10, <3>2, <3>6 DEF Lies
    <3> QED
      BY <3>3, <3>4, <3>5, <3>6
  <2>5. \A x \in Item : x \in X <=> x \in X \/ x \in I
    BY <2>1
  <2> QED
    BY <1>2, <1>14, <2>0, <2>2, <2>3, <2>4, <2>5, ComeTo
<1> QED
  BY <1>10, <1>13, <1>14 DEF Kept, Served

LEMMA TurnKeeps ==
  ASSUME Base(m), Served(m), NEW t \in Turn, TurnStep(t) \/ Asks(t) \/ UserAnswers(t)
  PROVE  Kept(m', m)
<1>0. /\ m.turn[t] \in TurnType /\ AfterUnwinding(m.turn[t]) \in {"fold", "engine"}
      /\ m.turn[t].step # "free" => m.turn[t].chat \in Chat
  BY DEF Base, Owned, Manager, AfterUnwinding
<1>1. ASSUME NEW step \in {"fold", "engine", "ask", "backoff"}, m.turn[t].step # "free", Becomes(t, step)
      PROVE  Kept(m', m)
  <2>1. m' = [m EXCEPT !.turn[t].step = step] /\ step \in {"unwind", "fold", "engine", "ask", "backoff", "draw"}
    BY <1>1 DEF Becomes
  <2> QED
    BY <1>1, <2>1, BecomesKeeps
<1>2. ASSUME NEW failed \in BOOLEAN, NEW cut \in BOOLEAN, m.turn[t].step # "free", Ends(t, failed, cut)
      PROVE  Kept(m', m)
  <2>1. m' \in Finally(m, t, failed, cut)
    BY <1>2 DEF Ends
  <2>2. Base(m') /\ Served(m') /\ \A X : Once(m, X) => Once(m', X)
    BY <1>2, <2>1, FinallyKeeps
  <2> QED
    BY <2>2 DEF Kept
<1>3. CASE Unwound(t)
  BY <1>0, <1>1, <1>3 DEF Unwound, At
<1>4. CASE GivesUp(t)
  <2>1. PICK f : f = [u \in Turn |->
             IF u = t THEN [m.turn[u] EXCEPT !.step = AfterUnwinding(m.turn[t])]
             ELSE [m.turn[u] EXCEPT !.late = m.turn[u].late \/ m.turn[u].chat = m.turn[t].chat]]
    OBVIOUS
  <2>2. ASSUME NEW u \in Turn
        PROVE  f[u] \in TurnType /\ AsTurn(f[u], m.turn[u])
    <3>1. m.turn[u] \in TurnType
      BY DEF Base, Manager
    <3>2. CASE u = t
      BY <1>0, <1>4, <2>1, <3>1, <3>2 DEF GivesUp, At, TurnType, AsTurn
    <3>3. CASE u # t
      <4>1. PICK b \in BOOLEAN : b = (m.turn[u].late \/ m.turn[u].chat = m.turn[t].chat)
        OBVIOUS
      <4>2. f[u] = [m.turn[u] EXCEPT !.late = b]
        BY <2>1, <3>3, <4>1
      <4> QED
        BY <3>1, <4>2 DEF TurnType, AsTurn
    <3> QED
      BY <3>2, <3>3
  <2>3. f \in [Turn -> TurnType]
    <3>1. f = [u \in Turn |-> f[u]]
      BY <2>1
    <3> QED
      BY <2>2, <3>1
  <2>4. m' = [m EXCEPT !.turn = f]
    BY <1>4, <2>1 DEF GivesUp
  <2> QED
    BY <2>2, <2>3, <2>4, StepsKeep
<1>5. CASE NoticesAbort(t)
  BY <1>2, <1>5 DEF NoticesAbort
<1>6. CASE Folded(t)
  BY <1>1, <1>6 DEF Folded, At
<1>7. CASE ReadsNotes(t)
  <2> DEFINE c == m.turn[t].chat
  <2>1. c \in Chat
    BY <1>0, <1>7 DEF ReadsNotes, At
  <2>2. m' = [m EXCEPT !.told[c] = @ \cup ToSet(m.steers[c]) \cup m.inbox[c], !.steers[c] = <<>>, !.inbox[c] = {}]
    BY <1>7 DEF ReadsNotes
  <2> HIDE DEF c
  <2> QED
    BY <2>1, <2>2, ReadsNotesKeeps
<1>8. CASE EngineReturns(t)
  <2>1. CASE /\ m.turn[t].tries > 0
             /\ m' = [m EXCEPT !.turn[t].step = "backoff", !.turn[t].tries = @ - 1]
    <3>1. PICK new : new = [m.turn[t] EXCEPT !.step = "backoff", !.tries = @ - 1]
      OBVIOUS
    <3>2. new \in TurnType /\ AsTurn(new, m.turn[t])
      <4>1. m.turn[t].tries - 1 \in 0..Retries
        BY <1>0, <2>1, ConstantsAssumption DEF TurnType
      <4> QED
        BY <1>0, <1>8, <3>1, <4>1 DEF EngineReturns, At, TurnType, AsTurn
    <3>3. m' = [m EXCEPT !.turn[t] = new]
      BY <2>1, <3>1 DEF Base, Manager
    <3> QED
      BY <3>2, <3>3, StepKeeps
  <2> QED
    BY <1>2, <1>8, <2>1 DEF EngineReturns, At
<1>9. CASE TriesAgain(t)
  BY <1>1, <1>9 DEF TriesAgain, At
<1>10. CASE Drawn(t)
  BY <1>2, <1>10 DEF Drawn, At
<1>11. CASE Asks(t)
  BY <1>1, <1>11 DEF Asks, At
<1>12. CASE UserAnswers(t)
  BY <1>1, <1>12 DEF UserAnswers, At
<1> QED
  BY <1>3, <1>4, <1>5, <1>6, <1>7, <1>8, <1>9, <1>10, <1>11, <1>12 DEF TurnStep

-----------------------------------------------------------------------------
(* Background tasks.                                                       *)

LEMMA Steady ==
  ASSUME NEW s, Base(s), Served(s), NEW r \in Manager, Still(r, s), \A X : Once(s, X) => Once(r, X)
  PROVE  Kept(r, s)
BY StillKeeps DEF Kept

LEMMA FoldsKeep ==
  ASSUME NEW s, Base(s), Served(s), NEW f \in SUBSET Chat, NEW r, r = [s EXCEPT !.folds = f]
  PROVE  Kept(r, s)
<1>1. r \in Manager /\ Still(r, s) /\ SameNotes(r, s)
  BY DEF Base, Manager, Still, SameNotes
<1> QED
  BY <1>1, SamePlaces, Steady

\* A task that ends is new in the inbox of its chat.
LEMMA TaskEndsKeeps ==
  ASSUME NEW s, Base(s), Served(s), NEW c \in Chat, NEW x \in Report,
         NEW r, r = WakeForEnded([s EXCEPT !.inbox[c] = @ \cup {x}], c)
  PROVE  /\ Base(r) /\ Served(r)
         /\ \A X : Once(s, X) /\ x \notin X => Once(r, X \cup {x})
<1> DEFINE p == [s EXCEPT !.inbox[c] = @ \cup {x}]
<1>0. s \in Manager /\ x \in Item
  BY DEF Base, Item
<1>1. PICK b : b = [s.inbox EXCEPT ![c] = @ \cup {x}]
  OBVIOUS
<1>2. s.inbox \in [Chat -> SUBSET Report]
  BY <1>0 DEF Manager
<1>3. b \in [Chat -> SUBSET Report] /\ b[c] = s.inbox[c] \cup {x} /\ \A d \in Chat \ {c} : b[d] = s.inbox[d]
  BY <1>1, <1>2
<1>4. p = [s EXCEPT !.inbox = b]
  BY <1>1
<1>5. /\ p \in Manager /\ Still(p, s) /\ p.inbox = b /\ p.replies = s.replies
  BY <1>0, <1>3, <1>4 DEF Manager, Still
<1>6. r = WakeForEnded(p, c)
  OBVIOUS
<1> HIDE DEF p
<1>7. r \in Manager /\ Still(r, p) /\ \A X : Once(p, X) => Once(r, X)
  BY <1>5, <1>6, WakeKeeps
<1>8. Base(r) /\ Served(r)
  <2>1. Base(p) /\ Served(p)
    BY <1>5, StillKeeps
  <2> QED
    BY <1>7, <2>1, StillKeeps
<1>9. ASSUME NEW X, Once(s, X), x \notin X
      PROVE  Once(r, X \cup {x})
  <2>0. "inbox" \in Kind /\ c \in Spot
    BY DEF Kind, Spot
  <2>1. \A k \in Kind, d \in Spot : ~Lies(s, x, k, d)
    BY <1>0, <1>9 DEF Once
  <2>2. Distinct(p)
    BY <1>5, <1>9 DEF Once, Distinct, Still
  <2>3. \A y \in Item \ {x} : Stays(p, s, y)
    <3>1. \A y \in Item \ {x}, d \in Chat : y \in b[d] <=> y \in s.inbox[d]
      BY <1>3
    <3> QED
      BY <1>5, <3>1 DEF Stays, Lies, Still
  <2>4. Only(p, x, "inbox", c)
    BY <1>3, <1>5, <2>1 DEF Only, Lies, Still
  <2>5. Once(p, X \cup {x})
    BY <1>0, <1>9, <2>0, <2>2, <2>3, <2>4, OneComesTo
  <2> QED
    BY <1>7, <2>5
<1> QED
  BY <1>8, <1>9

\* Some items leave their place.
LEMMA Leave ==
  ASSUME NEW s, NEW r, NEW X, Once(s, X), NEW I \in SUBSET Item,
         Distinct(r), \A y \in Item \ I : Stays(r, s, y), \A x \in I : \A k \in Kind, c \in Spot : ~Lies(r, x, k, c)
  PROVE  Once(r, X \ I)
<1>1. ASSUME NEW y \in Item \ I, y \in X
      PROVE  \E l \in Kind, d \in Spot : Only(r, y, l, d)
  <2>1. PICK l \in Kind, d \in Spot : Only(s, y, l, d)
    BY <1>1 DEF Once
  <2>2. Only(r, y, l, d)
    BY <2>1 DEF Only, Stays
  <2> QED
    BY <2>2
<1>2. ASSUME NEW y \in Item \ I, y \notin X
      PROVE  \A l \in Kind, d \in Spot : ~Lies(r, y, l, d)
  BY <1>2 DEF Once, Stays
<1> QED
  BY <1>1, <1>2 DEF Once

\* A reply of the main process is taken out of those under way.
LEMMA ReplyTaken ==
  ASSUME NEW s, Base(s), NEW c \in Chat, NEW items \in s.replies[c],
         NEW r, r = [s EXCEPT !.replies[c] = @ \ {items}]
  PROVE  /\ r \in Manager /\ Still(r, s) /\ r.inbox = s.inbox /\ items \in SUBSET Report
         /\ \A X : Once(s, X) => items \subseteq X /\ Once(r, X \ items)
<1>0. s \in Manager /\ s.replies \in [Chat -> SUBSET SUBSET Report]
  BY DEF Base, Manager
<1>1. PICK w : w = [s.replies EXCEPT ![c] = @ \ {items}]
  OBVIOUS
<1>2. w \in [Chat -> SUBSET SUBSET Report] /\ w[c] = s.replies[c] \ {items} /\ \A d \in Chat \ {c} : w[d] = s.replies[d]
  BY <1>0, <1>1
<1>3. r = [s EXCEPT !.replies = w]
  BY <1>1
<1>4. /\ r \in Manager /\ Still(r, s) /\ r.inbox = s.inbox /\ r.replies = w
  BY <1>0, <1>2, <1>3 DEF Manager, Still
<1>5. items \in SUBSET Report /\ items \in SUBSET Item
  BY <1>0 DEF Item
<1>6. ASSUME NEW X, Once(s, X)
      PROVE  items \subseteq X /\ Once(r, X \ items)
  <2>0. "reply" \in Kind /\ c \in Spot
    BY DEF Kind, Spot
  <2>1. ASSUME NEW x \in items
        PROVE  x \in Item /\ x \in X /\ Only(s, x, "reply", c)
    <3>1. x \in Item /\ Lies(s, x, "reply", c)
      BY <1>5 DEF Lies
    <3> QED
      BY <1>6, <2>0, <3>1, OnlyThere
  <2>2. Distinct(r)
    <3>1. \A d \in Chat : w[d] \subseteq s.replies[d]
      BY <1>2
    <3> QED
      BY <1>4, <1>6, <3>1 DEF Once, Distinct, Still
  <2>3. \A x \in Item \ items : Stays(r, s, x)
    <3>1. ASSUME NEW x \in Item \ items, NEW d \in Chat
          PROVE  (\E i \in w[d] : x \in i) <=> (\E i \in s.replies[d] : x \in i)
      BY <1>2
    <3> QED
      BY <1>4, <3>1 DEF Stays, Lies, Still
  <2>4. ASSUME NEW x \in items, NEW k \in Kind, NEW d \in Spot
        PROVE  ~Lies(r, x, k, d)
    <3>1. Lies(s, x, k, d) <=> k = "reply" /\ d = c
      BY <2>1 DEF Only
    <3>2. CASE k = "reply" /\ d = c
      <4>1. \A i \in w[c] : x \notin i
        BY <1>2, <1>6 DEF Once, Distinct
      <4> QED
        BY <1>4, <3>2, <4>1 DEF Lies
    <3>3. CASE k = "reply" /\ d # c
      BY <1>2, <1>4, <3>1, <3>3 DEF Lies
    <3>4. CASE k # "reply"
      BY <1>4, <3>1, <3>4 DEF Lies, Still
    <3> QED
      BY <3>2, <3>3, <3>4
  <2> QED
    BY <1>5, <1>6, <2>1, <2>2, <2>3, <2>4, Leave
<1> QED
  BY <1>4, <1>5, <1>6

\* Reports come to a turn as notes.
LEMMA ReportsNoted ==
  ASSUME NEW s, Base(s), NEW c \in Chat, NEW items \in SUBSET Report,
         NEW r, r = [s EXCEPT !.steers[c] = @ \o SetToSeq(items)]
  PROVE  /\ Base(r) /\ Running(r) = Running(s)
         /\ \A X : Once(s, X) /\ items \cap X = {} => Once(r, X \cup items)
<1> DEFINE o == SetToSeq(items)
           q == s.steers[c] \o o
<1>0. s \in Manager /\ s.steers[c] \in Seq(Item) /\ items \in SUBSET Item /\ \A x \in Message : x \notin items
  BY Zero DEF Base, Manager, Item
<1>1. o \in Seq(Item) /\ IsInjective(o) /\ \A y : Contains(o, y) <=> y \in items
  <2>1. IsFiniteSet(items)
    <3>1. IsFiniteSet(Report)
      <4>1. MaxMsgs + 1 \in Int /\ MaxMsgs + MaxReports \in Int
        BY ConstantsAssumption
      <4> QED
        BY <4>1, FS_Interval DEF Report
    <3> QED
      BY <3>1, FS_Subset
  <2> QED
    BY <1>0, <2>1, InOrder
<1>2. r = [s EXCEPT !.steers[c] = q]
  OBVIOUS
<1> HIDE DEF o
<1>3. /\ q \in Seq(Item) /\ \A y : Contains(q, y) <=> Contains(s.steers[c], y) \/ Contains(o, y)
      /\ IsInjective(s.steers[c]) /\ IsInjective(o) /\ (\A y : ~(Contains(s.steers[c], y) /\ Contains(o, y)))
           => IsInjective(q)
  BY <1>0, <1>1, Joined
<1> HIDE DEF q
<1>4. r \in Manager /\ Renoted(r, s, c, q)
  BY <1>0, <1>2, <1>3, Renote
<1>5. ReadHere(s, c, q)
  BY <1>0, <1>1, <1>3 DEF ReadHere, Base, Noted
<1>6. Base(r) /\ Running(r) = Running(s)
  BY <1>4, <1>5, NotesKeep
<1>7. ASSUME NEW X, Once(s, X), items \cap X = {}
      PROVE  Once(r, X \cup items)
  <2>0. "steers" \in Kind /\ c \in Spot
    BY DEF Kind, Spot
  <2>1. \A x \in items : \A k \in Kind, d \in Spot : ~Lies(s, x, k, d)
    BY <1>0, <1>7 DEF Once
  <2>2. Distinct(r)
    <3>1. \A y : ~(Contains(s.steers[c], y) /\ Contains(o, y))
      BY <1>0, <1>1, <2>0, <2>1 DEF Lies
    <3>2. IsInjective(q)
      BY <1>1, <1>3, <1>7, <3>1 DEF Once, Distinct
    <3> QED
      BY <1>4, <1>7, <3>2 DEF Once, Distinct, Renoted
  <2>6. \A y, d : d \in Chat =>
          (Contains(r.steers[d], y) <=> Contains(s.steers[d], y) \/ (d = c /\ y \in items))
    BY <1>1, <1>3, <1>4 DEF Renoted
  <2>7. /\ r.queue = s.queue /\ r.parked = s.parked /\ r.inbox = s.inbox /\ r.replies = s.replies
        /\ r.told = s.told /\ r.dropped = s.dropped
    BY <1>4 DEF Renoted
  <2>3. \A x \in Item \ items : Stays(r, s, x)
    BY <2>6, <2>7 DEF Stays, Lies
  <2>4. \A x \in items : Only(r, x, "steers", c)
    BY <2>1, <2>6, <2>7 DEF Only, Lies
  <2>5. \A x \in Item : x \in X \cup items <=> x \in X \/ x \in items
    OBVIOUS
  <2> QED
    BY <1>0, <1>7, <2>0, <2>2, <2>3, <2>4, <2>5, ComeTo
<1> QED
  BY <1>6, <1>7

LEMMA WakesKeep ==
  ASSUME NEW s, Base(s), NEW c \in Chat, NEW r, r = [s EXCEPT !.wakes[c] = @ + 1]
  PROVE  r \in Manager /\ Still(r, s) /\ SameNotes(r, s)
<1>1. s \in Manager /\ s.wakes \in [Chat -> Nat]
  BY DEF Base, Manager
<1>2. PICK w : w = [s.wakes EXCEPT ![c] = @ + 1]
  OBVIOUS
<1>3. w \in [Chat -> Nat]
  BY <1>1, <1>2
<1>4. r = [s EXCEPT !.wakes = w]
  BY <1>2
<1> QED
  BY <1>1, <1>3, <1>4 DEF Manager, Still, SameNotes

\* Where nothing runs, they are answered in a turn of their own.
LEMMA ReportsAnswered ==
  ASSUME NEW s, Base(s), Running(s) = {}, Free(s) # {}, NEW c \in Chat, NEW items \in SUBSET Item,
         NEW r, r = Deliver(s, c, items)
  PROVE  /\ Base(r) /\ Running(r) # {}
         /\ \A X : Once(s, X) /\ items \cap X = {} => Once(r, X \cup items)
<1>1. Calm(s, c)
  BY DEF Calm
<1> QED
  BY <1>1, DeliverKeeps

LEMMA ArrivesKeeps ==
  ASSUME NEW s, Base(s), Served(s), Free(s) # {}, NEW c \in Chat, NEW items \in s.replies[c],
         NEW r, r = Arrives([s EXCEPT !.replies[c] = @ \ {items}], c, items)
  PROVE  Kept(r, s)
<1> DEFINE p == [s EXCEPT !.replies[c] = @ \ {items}]
<1>1. /\ p \in Manager /\ Still(p, s) /\ items \in SUBSET Report
      /\ \A X : Once(s, X) => items \subseteq X /\ Once(p, X \ items)
  BY ReplyTaken
<1>2. r = Arrives(p, c, items)
  OBVIOUS
<1> HIDE DEF p
<1>3. Base(p) /\ Running(p) = Running(s) /\ Free(p) = Free(s) /\ Served(p)
  BY <1>1, StillKeeps
<1>4. /\ Base(r) /\ Served(r)
      /\ \A X : Once(p, X) /\ items \cap X = {} => Once(r, X \cup items)
  <2>1. CASE Running(p) # {}
    <3>1. r = [p EXCEPT !.steers[c] = @ \o SetToSeq(items)]
      BY <1>2, <2>1 DEF Arrives
    <3>2. /\ Base(r) /\ Running(r) = Running(p)
          /\ \A X : Once(p, X) /\ items \cap X = {} => Once(r, X \cup items)
      BY <1>1, <1>3, <3>1, ReportsNoted
    <3> QED
      BY <2>1, <3>2 DEF Served
  <2>2. CASE Running(p) = {}
    <3>1. PICK w : w = [p EXCEPT !.wakes[c] = @ + 1]
      OBVIOUS
    <3>2. r = Deliver(w, c, items)
      BY <1>2, <2>2, <3>1 DEF Arrives
    <3>3. w \in Manager /\ Still(w, p) /\ SameNotes(w, p)
      BY <1>3, <3>1, WakesKeep
    <3>4. Base(w) /\ Running(w) = {} /\ Free(w) # {}
      BY <1>3, <2>2, <3>3, StillKeeps
    <3>5. items \in SUBSET Item
      BY <1>1 DEF Item
    <3>6. /\ Base(r) /\ Running(r) # {}
          /\ \A X : Once(w, X) /\ items \cap X = {} => Once(r, X \cup items)
      BY <3>2, <3>4, <3>5, ReportsAnswered
    <3> QED
      BY <3>3, <3>6, SamePlaces DEF Served
  <2> QED
    BY <2>1, <2>2
<1>5. ASSUME NEW X, Once(s, X)
      PROVE  Once(r, X)
  <2>1. items \subseteq X /\ Once(p, X \ items) /\ items \cap (X \ items) = {}
    BY <1>1, <1>5
  <2>2. Once(r, (X \ items) \cup items)
    BY <1>4, <2>1
  <2>3. (X \ items) \cup items = X
    BY <2>1
  <2> QED
    BY <2>2, <2>3
<1> QED
  BY <1>4, <1>5 DEF Kept

-----------------------------------------------------------------------------
(* What the user does.                                                     *)

LEMMA WritesKeeps ==
  ASSUME NEW s, Base(s), Served(s), NEW c \in Chat, NEW x \in Item, Roomy(s, c),
         NEW r \in IF Generating(s, c) THEN {Enqueue(s, c, x), Steer(s, c, x), SendNow(s, c, x)}
                                       ELSE {Send(s, c, x)}
  PROVE  /\ Base(r) /\ Served(r)
         /\ \A X : Once(s, X) /\ x \notin X => Once(r, X \cup {x})
<1>1. s.runs[c] = 0 => MayStart(s, c)
  BY DEF MayStart, Roomy, Calm
<1>2. CASE r = Enqueue(s, c, x)
  BY <1>1, <1>2, EnqueueKeeps DEF Served
<1>3. CASE r = Steer(s, c, x)
  BY <1>1, <1>3, SteerKeeps DEF Served
<1>4. CASE r = SendNow(s, c, x)
  BY <1>4, SendNowKeeps DEF Served
<1>5. CASE ~Generating(s, c) /\ r = Send(s, c, x)
  <2>1. MayStart(s, c)
    BY <1>1, <1>5 DEF Generating
  <2> QED
    BY <1>5, <2>1, SendKeeps DEF Served
<1> QED
  BY <1>2, <1>3, <1>4, <1>5

\* A turn at once, whatever runs.
LEMMA BargesIn ==
  ASSUME NEW s, Base(s), NEW c \in Chat, Free(s) # {}, NEW r, r = Run(s, c, FALSE)
  PROVE  Kept(r, s)
<1>1. FALSE \in BOOLEAN /\ (FALSE => Calm(s, c))
  OBVIOUS
<1>2. Base(r) /\ SameNotes(r, s) /\ Running(r) = Running(s) \cup {c}
  BY <1>1, RunKeeps
<1>3. Served(r)
  BY <1>2 DEF Served
<1> QED
  BY <1>2, <1>3, SamePlaces DEF Kept

LEMMA EditKeeps ==
  ASSUME NEW s, Base(s), Served(s), NEW c \in Chat, Free(s) # {},
         NEW r, r = Run([s EXCEPT !.told[c] = @ \cup ({s.parked[c]} \ {0})], c, FALSE)
  PROVE  Base(r) /\ Served(r) /\ (s.parked[c] = 0 => Kept(r, s))
<1> DEFINE I == {s.parked[c]} \ {0}
<1>0. s \in Manager /\ s.told \in [Chat -> SUBSET Item] /\ s.parked[c] \in Item \cup {0}
  BY DEF Base, Manager
<1>1. PICK w : w = [s.told EXCEPT ![c] = @ \cup I]
  OBVIOUS
<1>2. w \in [Chat -> SUBSET Item]
  <2>1. I \in SUBSET Item
    BY <1>0
  <2> HIDE DEF I
  <2> QED
    BY <1>0, <1>1, <2>1
<1>3. s.parked[c] = 0 => w = s.told
  BY <1>0, <1>1
<1>4. PICK p : p = [s EXCEPT !.told = w]
  OBVIOUS
<1>5. r = Run(p, c, FALSE)
  BY <1>1, <1>4
<1>6. /\ p \in Manager /\ p.turn = s.turn /\ p.runs = s.runs /\ p.line = s.line /\ p.steers = s.steers
      /\ p.parked = s.parked
      /\ s.parked[c] = 0 => SameNotes(p, s)
  BY <1>0, <1>2, <1>3, <1>4 DEF Manager, SameNotes
<1>7. Lined(p) /\ Noted(p)
  BY <1>6 DEF Base, Lined, Noted
<1>8. Base(p) /\ Free(p) = Free(s)
  BY <1>6, <1>7, Untouched
<1>9. Kept(r, p)
  BY <1>5, <1>8, BargesIn
<1> QED
  BY <1>6, <1>9, SamePlaces DEF Kept

LEMMA ImageKeeps ==
  ASSUME NEW s, Base(s), NEW c \in Chat, s.runs[c] = 0, NEW t \in Free(s),
         NEW r, r = [s EXCEPT !.runs[c] = t,
                              !.turn[t] = [FreeTurn EXCEPT !.chat = c, !.step = "draw", !.image = TRUE,
                                                           !.barged = TRUE]]
  PROVE  Kept(r, s)
<1>0. /\ s \in Manager /\ Owned(s) /\ Solo(s) /\ Lined(s) /\ Noted(s) /\ 0 \notin Turn
      /\ t \in Turn /\ s.turn[t].step = "free"
  BY Zero DEF Base, Free
<1>1. PICK new : new = [FreeTurn EXCEPT !.chat = c, !.step = "draw", !.image = TRUE, !.barged = TRUE]
  OBVIOUS
<1>2. new \in TurnType /\ new.chat = c /\ new.step = "draw" /\ new.barged
  <2>1. FreeTurn \in TurnType
    BY ConstantsAssumption DEF FreeTurn, TurnType
  <2> QED
    BY <1>1, <2>1 DEF TurnType
<1>3. PICK f : f = [s.turn EXCEPT ![t] = new]
  OBVIOUS
<1>4. PICK v : v = [s.runs EXCEPT ![c] = t]
  OBVIOUS
<1>5. f \in [Turn -> TurnType] /\ f[t] = new /\ \A u \in Turn : u # t => f[u] = s.turn[u]
  BY <1>0, <1>2, <1>3 DEF Manager
<1>6. v \in [Chat -> Turn \cup {0}] /\ v[c] = t /\ \A d \in Chat \ {c} : v[d] = s.runs[d]
  BY <1>0, <1>4 DEF Manager
<1>7. r = [s EXCEPT !.runs = v, !.turn = f]
  BY <1>1, <1>3, <1>4
<1>8. /\ r \in Manager /\ r.turn = f /\ r.runs = v /\ r.line = s.line /\ SameNotes(r, s)
  BY <1>0, <1>5, <1>6, <1>7, ZenonT(60) DEF Manager, SameNotes
<1>9. \A d \in Chat \ {c} : s.runs[d] # 0 => s.runs[d] \in Turn /\ s.runs[d] # t /\ f[s.runs[d]] = s.turn[s.runs[d]]
  BY <1>0, <1>5 DEF Manager, Owned
<1>10. Owned(r)
  <2>1. ASSUME NEW u \in Turn, f[u].step # "free"
        PROVE  f[u].chat \in Chat
    BY <1>0, <1>2, <1>5, <2>1 DEF Owned
  <2>2. ASSUME NEW d \in Chat, v[d] # 0
        PROVE  f[v[d]].chat = d /\ f[v[d]].step # "free"
    <3>1. CASE d = c
      BY <1>2, <1>5, <1>6, <3>1
    <3>2. CASE d # c
      BY <1>0, <1>6, <1>9, <2>2, <3>2 DEF Owned
    <3> QED
      BY <3>1, <3>2
  <2> QED
    BY <1>8, <2>1, <2>2 DEF Owned
<1>11. Solo(r)
  <2>1. \A d \in Chat : v[d] # 0 /\ ~f[v[d]].barged => s.runs[d] # 0 /\ ~s.turn[s.runs[d]].barged
    BY <1>2, <1>5, <1>6, <1>9
  <2> QED
    BY <1>0, <1>8, <2>1 DEF Solo, Running
<1>12. Lined(r)
  BY <1>0, <1>8 DEF Lined, SameNotes
<1>13. Noted(r)
  BY <1>0, <1>6, <1>8, <1>9 DEF Noted, SameNotes
<1>14. Served(r)
  BY <1>0, <1>6, <1>8 DEF Served, Running
<1>15. Base(r)
  BY <1>8, <1>10, <1>11, <1>12, <1>13 DEF Base
<1> QED
  BY <1>8, <1>14, <1>15, SamePlaces DEF Kept

LEMMA StopKeeps ==
  ASSUME NEW s, Base(s), Served(s), Free(s) # {}, NEW c \in Chat, NEW r, r = StopChat(s, c)
  PROVE  Kept(r, s)
BY StopChatKeeps DEF Kept

\* A message of the queue is taken out, and dropped, sent at once or put in at another place.
Taken(r, s, c, x) ==
  /\ Base(r) /\ Running(r) = Running(s) /\ Free(r) = Free(s) /\ r.runs = s.runs /\ r.line = s.line
  /\ \A X : Once(s, X) => x \in X /\ Once(r, X \ {x})

LEMMA TakenOut ==
  ASSUME NEW s, Base(s), NEW c \in Chat, NEW i \in 1..Len(s.queue[c]), NEW x, x = s.queue[c][i],
         NEW q, q = RemoveAt(s.queue[c], i), NEW r, r = [s EXCEPT !.queue[c] = q]
  PROVE  Taken(r, s, c, x) /\ x \in Item /\ Len(r.queue[c]) = Len(s.queue[c]) - 1
<1>0. s \in Manager /\ s.queue[c] \in Seq(Item)
  BY DEF Base, Manager
<1>1. x \in Item /\ Contains(s.queue[c], x)
  BY <1>0, ElementOfSeq DEF Contains
<1>2. /\ q \in Seq(Item)
      /\ \A y : Contains(q, y) => Contains(s.queue[c], y)
      /\ \A y : y # x /\ Contains(s.queue[c], y) => Contains(q, y)
      /\ IsInjective(s.queue[c]) => IsInjective(q) /\ ~Contains(q, x)
  BY <1>0, Removed
<1>3. Len(q) = Len(s.queue[c]) - 1
  BY <1>0, AtRemoved
<1>4. r \in Manager /\ Requeued(r, s, c, q)
  BY <1>0, <1>2, Requeue
<1>5. Base(r) /\ Running(r) = Running(s) /\ Free(r) = Free(s) /\ r.runs = s.runs
  BY <1>4, RequeueKeeps
<1>6. ASSUME NEW X, Once(s, X)
      PROVE  x \in X /\ Once(r, X \ {x})
  BY <1>1, <1>2, <1>4, <1>6, Dequeued
<1>7. r.queue[c] = q /\ r.line = s.line
  BY <1>4 DEF Requeued
<1> QED
  BY <1>1, <1>3, <1>5, <1>6, <1>7 DEF Taken

LEMMA DroppedKeeps ==
  ASSUME NEW s, Base(s), NEW x \in Item, NEW r, r = [s EXCEPT !.dropped = s.dropped \cup {x}]
  PROVE  /\ Base(r) /\ Running(r) = Running(s) /\ r.line = s.line
         /\ \A X : Once(s, X) /\ x \notin X => Once(r, X \cup {x})
<1>0. s \in Manager /\ s.dropped \in SUBSET Item
  BY DEF Base, Manager
<1>1. PICK D \in SUBSET Item : D = s.dropped \cup {x}
  BY <1>0
<1>2. r = [s EXCEPT !.dropped = D]
  BY <1>1
<1>3. /\ r \in Manager /\ r.turn = s.turn /\ r.runs = s.runs /\ r.line = s.line
      /\ r.queue = s.queue /\ r.steers = s.steers /\ r.parked = s.parked /\ r.inbox = s.inbox
      /\ r.replies = s.replies /\ r.told = s.told /\ r.dropped = D
  BY <1>0, <1>2 DEF Manager
<1>4. Lined(r) /\ Noted(r)
  BY <1>3 DEF Base, Lined, Noted
<1>5. Base(r) /\ Running(r) = Running(s)
  BY <1>3, <1>4, Untouched
<1>6. ASSUME NEW X, Once(s, X), x \notin X
      PROVE  Once(r, X \cup {x})
  <2>0. "dropped" \in Kind /\ 0 \in Spot
    BY DEF Kind, Spot
  <2>1. \A k \in Kind, d \in Spot : ~Lies(s, x, k, d)
    BY <1>6 DEF Once
  <2>2. Distinct(r)
    BY <1>3, <1>6 DEF Once, Distinct
  <2>3. \A y \in Item \ {x} : Stays(r, s, y)
    BY <1>1, <1>3 DEF Stays, Lies
  <2>4. Only(r, x, "dropped", 0)
    BY <1>1, <1>3, <2>1 DEF Only, Lies
  <2> QED
    BY <1>6, <2>0, <2>2, <2>3, <2>4, OneComesTo
<1> QED
  BY <1>3, <1>5, <1>6

LEMMA PutIn ==
  ASSUME NEW s, Base(s), NEW c \in Chat, NEW x \in Item, NEW j \in 1..(Len(s.queue[c]) + 1),
         NEW q, q = InsertAt(s.queue[c], j, x), NEW r, r = [s EXCEPT !.queue[c] = q]
  PROVE  /\ Base(r) /\ Running(r) = Running(s) /\ r.line = s.line
         /\ \A X : Once(s, X) /\ x \notin X => Once(r, X \cup {x})
<1>0. s \in Manager /\ s.queue[c] \in Seq(Item)
  BY DEF Base, Manager
<1>1. /\ q \in Seq(Item) /\ \A y : Contains(q, y) <=> y = x \/ Contains(s.queue[c], y)
      /\ IsInjective(s.queue[c]) /\ ~Contains(s.queue[c], x) => IsInjective(q)
  BY <1>0, Inserted
<1>3. r \in Manager /\ Requeued(r, s, c, q)
  BY <1>0, <1>1, Requeue
<1>4. Base(r) /\ Running(r) = Running(s)
  BY <1>3, RequeueKeeps
<1>5. ASSUME NEW X, Once(s, X), x \notin X
      PROVE  Once(r, X \cup {x})
  BY <1>1, <1>3, <1>5, Queued
<1>6. r.line = s.line
  BY <1>3 DEF Requeued
<1> QED
  BY <1>4, <1>5, <1>6

\* What was taken out is somewhere again.
Back(r, p, x) == Base(r) /\ Served(r) /\ \A X : Once(p, X) /\ x \notin X => Once(r, X \cup {x})

LEMMA OutAndBack ==
  ASSUME NEW s, NEW c, NEW x, NEW p, Taken(p, s, c, x), NEW r, Back(r, p, x)
  PROVE  Kept(r, s)
<1>1. ASSUME NEW X, Once(s, X)
      PROVE  Once(r, X)
  <2>1. x \in X /\ Once(p, X \ {x}) /\ x \notin X \ {x}
    BY <1>1 DEF Taken
  <2>2. Once(r, (X \ {x}) \cup {x})
    BY <2>1 DEF Back
  <2>3. (X \ {x}) \cup {x} = X
    BY <2>1
  <2> QED
    BY <2>2, <2>3
<1> QED
  BY <1>1 DEF Kept, Back

LEMMA QueueKeeps ==
  ASSUME NEW s, Base(s), Served(s), NEW c \in Chat, Roomy(s, c), NEW x \in Item, NEW p, Taken(p, s, c, x)
  PROVE  /\ \A r : r = [p EXCEPT !.dropped = p.dropped \cup {x}] => Kept(r, s)
         /\ \A r : r = SendNow(p, c, x) => Kept(r, s)
         /\ \A j \in 1..(Len(p.queue[c]) + 1) : \A q, r :
              q = InsertAt(p.queue[c], j, x) /\ r = [p EXCEPT !.queue[c] = q] => Kept(r, s)
<1>1. Base(p) /\ Served(p) /\ Roomy(p, c)
  BY DEF Served, Roomy, Taken
<1>2. ASSUME NEW r, r = [p EXCEPT !.dropped = p.dropped \cup {x}]
      PROVE  Kept(r, s)
  <2>1. /\ Base(r) /\ Running(r) = Running(p) /\ r.line = p.line
        /\ \A X : Once(p, X) /\ x \notin X => Once(r, X \cup {x})
    BY <1>1, <1>2, DroppedKeeps
  <2>2. Back(r, p, x)
    BY <1>1, <2>1 DEF Back, Served
  <2> QED
    BY <2>2, OutAndBack
<1>3. ASSUME NEW r, r = SendNow(p, c, x)
      PROVE  Kept(r, s)
  <2>1. /\ Base(r) /\ Running(r) # {}
        /\ \A X : Once(p, X) /\ x \notin X => Once(r, X \cup {x})
    BY <1>1, <1>3, SendNowKeeps
  <2>2. Back(r, p, x)
    BY <2>1 DEF Back, Served
  <2> QED
    BY <2>2, OutAndBack
<1>4. ASSUME NEW j \in 1..(Len(p.queue[c]) + 1), NEW q, NEW r, q = InsertAt(p.queue[c], j, x),
             r = [p EXCEPT !.queue[c] = q]
      PROVE  Kept(r, s)
  <2>1. /\ Base(r) /\ Running(r) = Running(p) /\ r.line = p.line
        /\ \A X : Once(p, X) /\ x \notin X => Once(r, X \cup {x})
    BY <1>1, <1>4, PutIn
  <2>2. Back(r, p, x)
    BY <1>1, <2>1 DEF Back, Served
  <2> QED
    BY <2>2, OutAndBack
<1> QED
  BY <1>2, <1>3, <1>4

-----------------------------------------------------------------------------
(* The specification.                                                      *)

\* What has been written and reported so far
Written(g, e) == 1..g \cup ((MaxMsgs + 1)..(MaxMsgs + e))

Counted == given \in 0..MaxMsgs /\ ended \in 0..MaxReports /\ left \in Nat

LEMMA OneMore ==
  ASSUME Counted
  PROVE  /\ given < MaxMsgs => /\ Written(given + 1, ended) = Written(given, ended) \cup {given + 1}
                               /\ given + 1 \notin Written(given, ended) /\ given + 1 \in Message
         /\ ended < MaxReports =>
              /\ Written(given, ended + 1) = Written(given, ended) \cup {MaxMsgs + (ended + 1)}
              /\ MaxMsgs + (ended + 1) \notin Written(given, ended) /\ MaxMsgs + (ended + 1) \in Report
<1>1. /\ given \in Nat /\ ended \in Nat /\ MaxMsgs \in Nat /\ MaxReports \in Nat
      /\ given <= MaxMsgs /\ ended <= MaxReports
  BY ConstantsAssumption DEF Counted
<1> QED
  BY <1>1 DEF Written, Message, Report

\* Writing and a task that ends add one; everything else keeps what there is.
Onceness == Once(m, Written(given, ended)) => Once(m', Written(given', ended'))

LEMMA ChatKeeps ==
  ASSUME Base(m), Served(m), Counted, NEW c \in Chat, ChatStep(c)
  PROVE  /\ Base(m') /\ Served(m') /\ Counted'
         /\ ~EditWaits => Onceness
<1>0. Room => Roomy(m, c) /\ Free(m) # {}
  BY RoomIs DEF Roomy
<1>1. ASSUME Kept(m', m), UNCHANGED <<given, ended>>, left' = left \/ (left > 0 /\ left' = left - 1)
      PROVE  Base(m') /\ Served(m') /\ Counted' /\ Onceness
  BY <1>1 DEF Kept, Counted, Onceness
<1>2. CASE FoldEnds(c)
  <2>1. m.folds \ {c} \in SUBSET Chat
    BY DEF Base, Manager
  <2>2. m' = [m EXCEPT !.folds = m.folds \ {c}]
    BY <1>2 DEF FoldEnds
  <2>3. Kept(m', m)
    BY <2>1, <2>2, FoldsKeep
  <2> QED
    BY <1>1, <1>2, <2>3 DEF FoldEnds
<1>3. CASE TaskEnds(c)
  <2>1. /\ ended < MaxReports /\ left > 0 /\ ended' = ended + 1 /\ left' = left - 1 /\ given' = given
        /\ m' = WakeForEnded([m EXCEPT !.inbox[c] = @ \cup {MaxMsgs + (ended + 1)}], c)
    BY <1>3 DEF TaskEnds
  <2>2. PICK x \in Report : x = MaxMsgs + (ended + 1)
    BY <2>1, OneMore
  <2>3. m' = WakeForEnded([m EXCEPT !.inbox[c] = @ \cup {x}], c)
    BY <2>1, <2>2
  <2>4. /\ Base(m') /\ Served(m')
        /\ \A X : Once(m, X) /\ x \notin X => Once(m', X \cup {x})
    BY <2>3, TaskEndsKeeps
  <2>5. Written(given', ended') = Written(given, ended) \cup {x} /\ x \notin Written(given, ended)
    BY <2>1, <2>2, OneMore
  <2>6. Counted'
    BY <2>1, ConstantsAssumption DEF Counted
  <2> QED
    BY <2>4, <2>5, <2>6 DEF Onceness
<1>4. CASE ReportsArrive(c)
  <2>1. PICK items \in m.replies[c] : m' = Arrives([m EXCEPT !.replies[c] = @ \ {items}], c, items)
    BY <1>4 DEF ReportsArrive
  <2>2. Kept(m', m)
    BY <1>0, <1>4, <2>1, ArrivesKeeps DEF ReportsArrive
  <2> QED
    BY <1>1, <1>4, <2>2 DEF ReportsArrive
<1>5. CASE Writes(c)
  <2> DEFINE x == given + 1
  <2>1. /\ given < MaxMsgs /\ Room /\ given' = x /\ ended' = ended /\ left' = left
        /\ m' \in IF Generating(m, c) THEN {Enqueue(m, c, x), Steer(m, c, x), SendNow(m, c, x)}
                                      ELSE {Send(m, c, x)}
    BY <1>5 DEF Writes
  <2>2. /\ Written(given', ended') = Written(given, ended) \cup {x} /\ x \notin Written(given, ended)
        /\ x \in Item
    BY <2>1, OneMore DEF Item
  <2>3. Counted'
    BY <2>1, ConstantsAssumption DEF Counted
  <2> HIDE DEF x
  <2>4. /\ Base(m') /\ Served(m')
        /\ \A X : Once(m, X) /\ x \notin X => Once(m', X \cup {x})
    BY <1>0, <2>1, <2>2, WritesKeeps
  <2> QED
    BY <2>2, <2>3, <2>4 DEF Onceness
<1>6. CASE Again(c)
  <2>1. Kept(m', m)
    BY <1>0, <1>6, BargesIn DEF Again, Spend
  <2> QED
    BY <1>1, <1>6, <2>1 DEF Again, Spend
<1>7. CASE Edit(c)
  <2>1. m' = Run([m EXCEPT !.told[c] = @ \cup ({m.parked[c]} \ {0})], c, FALSE) /\ Free(m) # {}
    BY <1>0, <1>7 DEF Edit, Spend
  <2>2. Base(m') /\ Served(m') /\ (m.parked[c] = 0 => Kept(m', m))
    BY <2>1, EditKeeps
  <2>3. Counted'
    BY <1>7 DEF Edit, Spend, Counted
  <2>4. ~EditWaits => Onceness
    BY <1>1, <1>7, <2>2 DEF Edit, Spend
  <2> QED
    BY <2>2, <2>3, <2>4
<1>8. CASE Image(c)
  <2>1. PICK t : t = CHOOSE u \in Free(m) : TRUE
    OBVIOUS
  <2>2. t \in Free(m)
    BY <1>0, <1>8, <2>1 DEF Image, Spend
  <2>3. /\ m.runs[c] = 0
        /\ m' = [m EXCEPT !.runs[c] = t,
                          !.turn[t] = [FreeTurn EXCEPT !.chat = c, !.step = "draw", !.image = TRUE,
                                                       !.barged = TRUE]]
    BY <1>8, <2>1 DEF Image, Generating
  <2>4. Kept(m', m)
    BY <2>2, <2>3, ImageKeeps
  <2> QED
    BY <1>1, <1>8, <2>4 DEF Image, Spend
<1>9. CASE Compact(c)
  <2>1. m.folds \cup {c} \in SUBSET Chat
    BY DEF Base, Manager
  <2>2. m' = [m EXCEPT !.folds = m.folds \cup {c}]
    BY <1>9 DEF Compact
  <2>3. Kept(m', m)
    BY <2>1, <2>2, FoldsKeep
  <2> QED
    BY <1>1, <1>9, <2>3 DEF Compact, Spend
<1>10. CASE Stop(c)
  <2>1. Kept(m', m)
    BY <1>0, <1>10, StopKeeps DEF Stop, Spend
  <2> QED
    BY <1>1, <1>10, <2>1 DEF Stop, Spend
<1>11. CASE EditQueue(c)
  <2>1. PICK i \in DOMAIN m.queue[c] :
          LET x == m.queue[c][i]
              r == [m EXCEPT !.queue[c] = RemoveAt(@, i)]
          IN \/ m' = [r EXCEPT !.dropped = @ \cup {x}]
             \/ m' = SendNow(r, c, x)
             \/ \E j \in DOMAIN m.queue[c] \ {i} : m' = [r EXCEPT !.queue[c] = InsertAt(@, j, x)]
    BY <1>11 DEF EditQueue
  <2>2. PICK q : q = RemoveAt(m.queue[c], i)
    OBVIOUS
  <2>3. PICK p : p = [m EXCEPT !.queue[c] = q]
    OBVIOUS
  <2>4. PICK x : x = m.queue[c][i]
    OBVIOUS
  <2>5. DOMAIN m.queue[c] = 1..Len(m.queue[c]) /\ Len(m.queue[c]) \in Nat
    BY LenProperties DEF Base, Manager
  <2>6. Taken(p, m, c, x) /\ x \in Item /\ Len(p.queue[c]) = Len(m.queue[c]) - 1
    BY <2>2, <2>3, <2>4, <2>5, TakenOut
  <2>7. \/ m' = [p EXCEPT !.dropped = p.dropped \cup {x}]
        \/ m' = SendNow(p, c, x)
        \/ \E j \in DOMAIN m.queue[c] : m' = [p EXCEPT !.queue[c] = InsertAt(p.queue[c], j, x)]
    BY <2>1, <2>2, <2>3, <2>4
  <2>8. Roomy(m, c)
    BY <1>0, <1>11 DEF EditQueue, Spend
  <2>9. Kept(m', m)
    <3>1. CASE m' = [p EXCEPT !.dropped = p.dropped \cup {x}]
      BY <2>6, <2>8, <3>1, QueueKeeps
    <3>2. CASE m' = SendNow(p, c, x)
      BY <2>6, <2>8, <3>2, QueueKeeps
    <3>3. CASE \E j \in DOMAIN m.queue[c] : m' = [p EXCEPT !.queue[c] = InsertAt(p.queue[c], j, x)]
      <4>1. PICK j \in DOMAIN m.queue[c] : m' = [p EXCEPT !.queue[c] = InsertAt(p.queue[c], j, x)]
        BY <3>3
      <4>2. PICK v : v = InsertAt(p.queue[c], j, x)
        OBVIOUS
      <4>3. m' = [p EXCEPT !.queue[c] = v] /\ j \in 1..(Len(p.queue[c]) + 1)
        BY <2>5, <2>6, <4>1, <4>2
      <4> QED
        BY <2>6, <2>8, <4>2, <4>3, QueueKeeps
    <3> QED
      BY <2>7, <3>1, <3>2, <3>3
  <2> QED
    BY <1>1, <1>11, <2>9 DEF EditQueue, Spend
<1> QED
  BY <1>2, <1>3, <1>4, <1>5, <1>6, <1>7, <1>8, <1>9, <1>10, <1>11 DEF ChatStep

LEMMA Initial ==
  ASSUME Init
  PROVE  Base(m) /\ Served(m) /\ Counted /\ Once(m, Written(given, ended))
<1>1. FreeTurn \in TurnType /\ FreeTurn.step = "free"
  BY ConstantsAssumption DEF FreeTurn, TurnType
<1>2. /\ m.turn = [t \in Turn |-> FreeTurn] /\ m.runs = [c \in Chat |-> 0] /\ m.line = <<>>
      /\ m.queue = [c \in Chat |-> <<>>] /\ m.steers = [c \in Chat |-> <<>>] /\ m.parked = [c \in Chat |-> 0]
      /\ m.inbox = [c \in Chat |-> {}] /\ m.replies = [c \in Chat |-> {}] /\ m.told = [c \in Chat |-> {}]
      /\ m.dropped = {} /\ given = 0 /\ ended = 0 /\ left = MaxOps
  BY DEF Init
<1>3. m \in Manager
  <2>1. [t \in Turn |-> FreeTurn] \in [Turn -> TurnType]
    BY <1>1
  <2>2. /\ [c \in Chat |-> 0] \in [Chat -> Turn \cup {0}] /\ [c \in Chat |-> 0] \in [Chat -> Item \cup {0}]
        /\ [c \in Chat |-> 0] \in [Chat -> Nat]
    OBVIOUS
  <2>3. [c \in Chat |-> <<>>] \in [Chat -> Seq(Item)] /\ <<>> \in Seq(Chat)
    BY EmptySeq
  <2>4. /\ [c \in Chat |-> {}] \in [Chat -> SUBSET Report] /\ [c \in Chat |-> {}] \in [Chat -> SUBSET Item]
        /\ [c \in Chat |-> {}] \in [Chat -> SUBSET SUBSET Report]
    OBVIOUS
  <2>5. Windows \in 0..Windows
    BY ConstantsAssumption
  <2> QED
    BY <2>1, <2>2, <2>3, <2>4, <2>5 DEF Init, Manager
<1>4. Running(m) = {}
  BY <1>2 DEF Running
<1>5. Base(m) /\ Served(m)
  <2>1. Owned(m)
    BY <1>1, <1>2 DEF Owned
  <2>2. Solo(m)
    BY <1>4 DEF Solo
  <2>3. Lined(m)
    BY <1>2 DEF Lined
  <2>4. Noted(m)
    BY <1>2, Emptied DEF Noted
  <2> QED
    BY <1>2, <1>3, <2>1, <2>2, <2>3, <2>4 DEF Base, Served
<1>6. Counted
  BY <1>2, ConstantsAssumption DEF Counted
<1>7. Once(m, Written(given, ended))
  <2>1. \A x : x \notin Written(given, ended)
    <3>1. MaxMsgs \in Nat
      BY ConstantsAssumption
    <3> QED
      BY <1>2, <3>1 DEF Written
  <2>2. Distinct(m)
    BY <1>2, Emptied DEF Distinct
  <2>3. ASSUME NEW x \in Item, NEW k \in Kind, NEW c \in Spot
        PROVE  ~Lies(m, x, k, c)
    BY <1>2, Emptied, Zero DEF Lies
  <2> QED
    BY <2>1, <2>2, <2>3 DEF Once
<1> QED
  BY <1>5, <1>6, <1>7

ManagerInv == Base(m) /\ Served(m) /\ Counted

LEMMA StepsKeepAll ==
  ASSUME ManagerInv, [Next]_vars
  PROVE  ManagerInv' /\ (~EditWaits => Onceness)
<1>1. CASE Next
  <2>1. ASSUME NEW t \in Turn, TurnStep(t) \/ Asks(t) \/ UserAnswers(t)
        PROVE  ManagerInv' /\ Onceness
    <3>1. Kept(m', m)
      BY <2>1, TurnKeeps DEF ManagerInv
    <3>2. UNCHANGED <<given, ended, left>>
      BY <2>1 DEF TurnStep, Unwound, GivesUp, NoticesAbort, Folded, ReadsNotes, Asks, UserAnswers,
                  EngineReturns, TriesAgain, Drawn, Becomes, Ends
    <3> QED
      BY <3>1, <3>2 DEF Kept, ManagerInv, Counted, Onceness
  <2>2. ASSUME NEW c \in Chat, ChatStep(c)
        PROVE  ManagerInv' /\ (~EditWaits => Onceness)
    BY <2>2, ChatKeeps DEF ManagerInv
  <2> QED
    BY <1>1, <2>1, <2>2 DEF Next
<1>2. CASE UNCHANGED vars
  BY <1>2 DEF vars, ManagerInv, Base, Manager, Owned, Solo, Lined, Noted, Served, Counted, Onceness
<1> QED
  BY <1>1, <1>2

\* The manager's state is what it is declared to be; a chat's turn is one of its own and
\* under way; two turns that did not barge in are one; what waits has its place in the
\* line, and the line does not wait for nobody.
THEOREM Invariance == Spec => []ManagerInv
<1>1. Init => ManagerInv
  BY Initial DEF ManagerInv
<1>2. ManagerInv /\ [Next]_vars => ManagerInv'
  BY StepsKeepAll
<1> QED
  BY <1>1, <1>2, PTL DEF Spec

\* The line is served whenever nothing runs any more, a parked message is in it, and what
\* the user typed for a turn waits beside one: nobody waits for a turn that is over.
THEOREM NobodyStranded == Spec => []NothingStranded
<1>1. ManagerInv => NothingStranded
  <2>1. SUFFICES ASSUME ManagerInv
                 PROVE  NothingStranded
    OBVIOUS
  <2>2. ASSUME NEW c \in Chat, ToSet(m.steers[c]) \cap Message # {}
        PROVE  m.runs[c] # 0
    <3>1. m.steers[c] \in Seq(Item)
      BY <2>1 DEF ManagerInv, Base, Manager
    <3>2. PICK x \in Message : Contains(m.steers[c], x)
      BY <2>2, <3>1, AsSet
    <3> QED
      BY <2>1, <3>2 DEF ManagerInv, Base, Noted
  <2> QED
    BY <2>1, <2>2 DEF ManagerInv, Base, Served, Lined, NothingStranded
<1> QED
  BY <1>1, Invariance, PTL

\* Turns that waited for their turn never overlap, in however many chats.
THEOREM TurnsDoNotOverlap == Spec => []OneAtATime
<1>1. ManagerInv => OneAtATime
  <2>1. SUFFICES ASSUME ManagerInv
                 PROVE  OneAtATime
    OBVIOUS
  <2> DEFINE S == {c \in Running(m) : ~m.turn[m.runs[c]].barged}
  <2>2. \A c, d \in S : c = d
    BY <2>1 DEF ManagerInv, Base, Solo
  <2>3. CASE S = {}
    BY <2>3, FS_EmptySet DEF OneAtATime
  <2>4. CASE S # {}
    <3>1. PICK c : S = {c}
      BY <2>2, <2>4
    <3> QED
      BY <3>1, FS_Singleton DEF OneAtATime
  <2> QED
    BY <2>3, <2>4
<1> QED
  BY <1>1, Invariance, PTL

\* What is in one place is counted once.
LEMMA CountedOnce ==
  ASSUME NEW x \in Item, NEW k \in Kind, NEW e \in Spot, Only(m, x, k, e)
  PROVE  Places(x) = 1
<1> DEFINE n(l) == IF l = k THEN 1 ELSE 0
<1>0. \A l \in Kind, d \in Spot : Lies(m, x, l, d) <=> l = k /\ d = e
  BY DEF Only
<1>1. 0 \notin Chat /\ 0 \in Spot /\ \A c \in Chat : c \in Spot
  BY ConstantsAssumption DEF Spot
<1>2. ASSUME NEW l \in Kind, NEW T, \A d : d \in T <=> d \in Spot /\ Lies(m, x, l, d)
      PROVE  Cardinality(T) = n(l)
  <2>1. CASE l = k
    <3>1. T = {e}
      BY <1>0, <1>2, <2>1
    <3> QED
      BY <2>1, <3>1, FS_Singleton
  <2>2. CASE l # k
    <3>1. T = {}
      BY <1>0, <1>2, <2>2
    <3> QED
      BY <2>2, <3>1, FS_EmptySet
  <2> QED
    BY <2>1, <2>2
<1> HIDE DEF n
<1>3. Cardinality({c \in Chat : Contains(m.queue[c], x)}) = n("queue")
  BY <1>1, <1>2 DEF Lies, Kind
<1>4. Cardinality({c \in Chat : Contains(m.steers[c], x)}) = n("steers")
  BY <1>1, <1>2 DEF Lies, Kind
<1>5. Cardinality({c \in Chat : m.parked[c] = x}) = n("parked")
  BY <1>1, <1>2 DEF Lies, Kind
<1>6. Cardinality({c \in Chat : x \in m.inbox[c]}) = n("inbox")
  BY <1>1, <1>2 DEF Lies, Kind
<1>7. Cardinality({c \in Chat : \E items \in m.replies[c] : x \in items}) = n("reply")
  BY <1>1, <1>2 DEF Lies, Kind
<1>8. Cardinality({c \in Chat : x \in m.told[c]}) = n("told")
  BY <1>1, <1>2 DEF Lies, Kind
<1>9. Cardinality(m.dropped \cap {x}) = n("dropped")
  <2>1. CASE x \in m.dropped
    <3>1. m.dropped \cap {x} = {x} /\ Lies(m, x, "dropped", 0)
      BY <2>1 DEF Lies
    <3>2. "dropped" = k
      BY <1>0, <1>1, <3>1 DEF Kind
    <3> QED
      BY <3>1, <3>2, FS_Singleton DEF n
  <2>2. CASE x \notin m.dropped
    <3>1. m.dropped \cap {x} = {} /\ ~Lies(m, x, "dropped", 0) /\ \A c \in Chat : ~Lies(m, x, "dropped", c)
      BY <1>1, <2>2 DEF Lies
    <3>2. "dropped" # k
      BY <1>0, <3>1 DEF Spot
    <3> QED
      BY <3>1, <3>2, FS_EmptySet DEF n
  <2> QED
    BY <2>1, <2>2
<1>10. Places(x) = n("queue") + n("steers") + n("parked") + n("inbox") + n("reply") + n("told") + n("dropped")
  BY <1>3, <1>4, <1>5, <1>6, <1>7, <1>8, <1>9 DEF Places
<1>11. n("queue") + n("steers") + n("parked") + n("inbox") + n("reply") + n("told") + n("dropped") = 1
  BY DEF n, Kind
<1> QED
  BY <1>10, <1>11

OnceInv == Once(m, Written(given, ended))

LEMMA PlacesOf == ManagerInv /\ OnceInv => OnePlace
<1>1. SUFFICES ASSUME ManagerInv, OnceInv
               PROVE  OnePlace
  OBVIOUS
<1>2. ASSUME NEW x \in Written(given, ended)
      PROVE  Places(x) = 1
  <2>1. x \in Item
    <3>1. given \in Nat /\ ended \in Nat /\ MaxMsgs \in Nat /\ MaxReports \in Nat /\ given <= MaxMsgs /\ ended <= MaxReports
      BY <1>1, ConstantsAssumption DEF ManagerInv, Counted
    <3> QED
      BY <3>1 DEF Written, Item, Message, Report
  <2>2. PICK k \in Kind, e \in Spot : Only(m, x, k, e)
    BY <1>1, <2>1 DEF OnceInv, Once
  <2> QED
    BY <2>1, <2>2, CountedOnce
<1>3. ASSUME NEW c \in Chat
      PROVE  IsInjective(m.queue[c] \o m.steers[c])
  <2>1. m.queue[c] \in Seq(Item) /\ m.steers[c] \in Seq(Item)
    BY <1>1 DEF ManagerInv, Base, Manager
  <2>2. IsInjective(m.queue[c]) /\ IsInjective(m.steers[c])
    BY <1>1 DEF OnceInv, Once, Distinct
  <2>3. ASSUME NEW y, Contains(m.queue[c], y), Contains(m.steers[c], y)
        PROVE  FALSE
    <3>1. y \in Item
      BY <2>1, <2>3, ElementOfSeq DEF Contains
    <3>2. {"queue", "steers"} \subseteq Kind /\ c \in Spot /\ Lies(m, y, "queue", c) /\ Lies(m, y, "steers", c)
      BY <2>3 DEF Kind, Spot, Lies
    <3>3. Only(m, y, "queue", c)
      BY <1>1, <3>1, <3>2, OnlyThere DEF OnceInv
    <3> QED
      BY <3>2, <3>3 DEF Only
  <2> QED
    BY <2>1, <2>2, <2>3, Joined
<1> QED
  BY <1>2, <1>3 DEF OnePlace, Written

\* Whatever is written and every report of a background task is in exactly one place, from
\* the moment it is there, as long as a chat whose message waits for its turn is not edited.
THEOREM EverythingOnce ==
  ASSUME ~EditWaits
  PROVE  Spec => []OnePlace
<1>1. Init => OnceInv
  BY Initial DEF OnceInv
<1>2. ManagerInv /\ OnceInv /\ [Next]_vars => OnceInv'
  BY StepsKeepAll DEF OnceInv, Onceness
<1>3. ManagerInv /\ OnceInv => OnePlace
  BY PlacesOf
<1> QED
  BY <1>1, <1>2, <1>3, Invariance, PTL DEF Spec
=============================================================================
