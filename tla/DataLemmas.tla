----------------------------- MODULE DataLemmas -----------------------------
(***************************************************************************)
(* Lemmas about the operators of the libraries that the models use.        *)
(***************************************************************************)
EXTENDS Integers, SequencesExt, SequenceTheorems, WellFoundedInduction, TLAPS

\* The order of the naturals, as a relation.
Less == {p \in Nat \X Nat : p[1] < p[2]}

\* Every set of natural numbers that is not empty has a least element.
LEMMA LeastExists ==
  ASSUME NEW T, T \subseteq Nat, T # {}
  PROVE  \E x \in T : \A y \in T : x <= y
<1>1. IsWellFoundedOn(Less, Nat)
  BY NatLessThanWellFounded DEF OpToRel, Less
<1>2. PICK x \in T : \A y \in T : ~ (<<y, x>> \in Less)
  BY <1>1, WFMin
<1>3. \A y \in T : ~ (y < x)
  BY <1>2 DEF Less
<1> QED
  BY <1>3

\* RemoveAt takes out one place, and what is behind it moves up.
LEMMA RemoveAtIs ==
  ASSUME NEW S, NEW s \in Seq(S), NEW m \in 1..Len(s)
  PROVE  /\ RemoveAt(s, m) \in Seq(S) /\ Len(RemoveAt(s, m)) = Len(s) - 1
         /\ \A k \in 1..(Len(s) - 1) : RemoveAt(s, m)[k] = s[IF k < m THEN k ELSE k + 1]
<1> DEFINE u == SubSeq(s, 1, m-1)
           v == SubSeq(s, m+1, Len(s))
<1>1. Len(s) \in Nat /\ m \in Int /\ 1 <= m /\ m <= Len(s) /\ \A i \in 1..Len(s) : s[i] \in S
  BY LenProperties, ElementOfSeq
<1>2. u \in Seq(S) /\ Len(u) = m - 1 /\ \A i \in 1..(m-1) : u[i] = s[i]
  <2>1. \A i \in 1..(m-1) : s[i] \in S
    BY <1>1
  <2>2. /\ u \in Seq(S) /\ Len(u) = IF 1 <= m-1 THEN m-1-1+1 ELSE 0
        /\ \A i \in 1..(m-1-1+1) : u[i] = s[1+i-1]
    BY <1>1, <2>1, SubSeqProperties
  <2> HIDE DEF u
  <2> QED
    BY <1>1, <2>2
<1>3. v \in Seq(S) /\ Len(v) = Len(s) - m /\ \A i \in 1..(Len(s)-m) : v[i] = s[m+i]
  <2>1. \A i \in (m+1)..Len(s) : s[i] \in S
    BY <1>1
  <2>2. /\ v \in Seq(S) /\ Len(v) = IF m+1 <= Len(s) THEN Len(s)-(m+1)+1 ELSE 0
        /\ \A i \in 1..(Len(s)-(m+1)+1) : v[i] = s[m+1+i-1]
    BY <1>1, <2>1, SubSeqProperties
  <2> HIDE DEF v
  <2> QED
    BY <1>1, <2>2
<1>4. RemoveAt(s, m) = u \o v
  BY DEF RemoveAt
<1> HIDE DEF u, v
<1>5. /\ u \o v \in Seq(S) /\ Len(u \o v) = Len(s) - 1
      /\ \A i \in 1..(Len(s) - 1) : (u \o v)[i] = IF i <= m - 1 THEN u[i] ELSE v[i - (m - 1)]
  <2>1. /\ u \o v \in Seq(S) /\ Len(u \o v) = Len(u) + Len(v)
        /\ \A i \in 1..(Len(u) + Len(v)) :
             (u \o v)[i] = IF i <= Len(u) THEN u[i] ELSE v[i - Len(u)]
    BY <1>2, <1>3, ConcatProperties
  <2>2. Len(u) = m - 1 /\ Len(u) + Len(v) = Len(s) - 1
    BY <1>1, <1>2, <1>3
  <2> QED
    BY <2>1, <2>2
<1>6. ASSUME NEW k \in 1..(Len(s) - 1) PROVE (u \o v)[k] = s[IF k < m THEN k ELSE k + 1]
  <2>1. CASE k < m
    BY <1>1, <1>2, <1>5, <2>1
  <2>2. CASE ~ (k < m)
    <3>1. k - (m - 1) \in 1..(Len(s) - m) /\ m + (k - (m - 1)) = k + 1 /\ ~ (k <= m - 1)
      BY <1>1, <2>2
    <3>2. (u \o v)[k] = v[k - (m - 1)] /\ v[k - (m - 1)] = s[k + 1]
      BY <1>3, <1>5, <3>1
    <3> QED
      BY <2>2, <3>2
  <2> QED
    BY <2>1, <2>2
<1> QED
  BY <1>4, <1>5, <1>6

\* RemoveFirst takes out one entry: what it returns is a sequence over the
\* same set, and every other element is still there.
LEMMA RemoveFirstKeeps ==
  ASSUME NEW S, NEW s \in Seq(S), NEW e
  PROVE  /\ RemoveFirst(s, e) \in Seq(S)
         /\ \A c \in ToSet(s) : c # e => c \in ToSet(RemoveFirst(s, e))
         /\ ToSet(RemoveFirst(s, e)) \subseteq ToSet(s)
<1>1. CASE ~ \E i \in 1..Len(s) : s[i] = e
  BY <1>1 DEF RemoveFirst
<1>2. CASE \E i \in 1..Len(s) : s[i] = e
  <2> DEFINE I == {i \in 1..Len(s) : s[i] = e}
             m == SelectInSeq(s, LAMBDA v : v = e)
  <2>1. m \in I
    <3>1. m = CHOOSE x \in I : \A y \in I : x <= y
      BY <1>2 DEF SelectInSeq, Min
    <3>2. \E x \in I : \A y \in I : x <= y
      <4>1. I \subseteq Nat /\ I # {}
        BY <1>2
      <4> HIDE DEF I
      <4> QED
        BY <4>1, LeastExists
    <3> QED
      BY <3>1, <3>2
  <2>2. m \in 1..Len(s) /\ s[m] = e
    BY <2>1
  <2> DEFINE t == RemoveAt(s, m)
  <2>3. RemoveFirst(s, e) = t
    BY <1>2 DEF RemoveFirst
  <2> HIDE DEF m, I
  <2>4. /\ t \in Seq(S) /\ Len(t) = Len(s) - 1 /\ Len(s) \in Nat /\ m \in Int
        /\ DOMAIN s = 1..Len(s) /\ DOMAIN t = 1..(Len(s) - 1)
        /\ \A k \in 1..(Len(s) - 1) : t[k] = s[IF k < m THEN k ELSE k + 1]
    BY <2>2, RemoveAtIs, LenProperties
  <2> HIDE DEF t
  <2>5. ASSUME NEW i \in DOMAIN s, s[i] # e PROVE \E k \in DOMAIN t : t[k] = s[i]
    <3>1. i # m
      BY <2>2, <2>5
    <3>2. CASE i < m
      <4>1. i \in DOMAIN t /\ t[i] = s[i]
        BY <2>2, <2>4, <3>2
      <4> QED
        BY <4>1
    <3>3. CASE i > m
      <4>1. i - 1 \in DOMAIN t /\ ~ (i - 1 < m) /\ (i - 1) + 1 = i
        BY <2>2, <2>4, <3>3
      <4>2. t[i - 1] = s[i]
        BY <2>4, <4>1
      <4> QED
        BY <4>1, <4>2
    <3> QED
      BY <2>2, <2>4, <3>1, <3>2, <3>3
  <2>6. ASSUME NEW k \in DOMAIN t PROVE t[k] \in ToSet(s)
    <3>1. (IF k < m THEN k ELSE k + 1) \in DOMAIN s
      BY <2>2, <2>4
    <3> QED
      BY <2>4, <3>1 DEF ToSet
  <2> QED
    BY <2>3, <2>4, <2>5, <2>6 DEF ToSet
<1> QED
  BY <1>1, <1>2

\* What is put at the end of a sequence is the one element that is new.
LEMMA AppendSet ==
  ASSUME NEW S, NEW s \in Seq(S), NEW e \in S
  PROVE  /\ Append(s, e) \in Seq(S)
         /\ ToSet(Append(s, e)) = ToSet(s) \cup {e}
<1>1. /\ Append(s, e) \in Seq(S) /\ Len(Append(s, e)) = Len(s) + 1
      /\ \A i \in 1..Len(s) : Append(s, e)[i] = s[i]
      /\ Append(s, e)[Len(s) + 1] = e
  BY AppendProperties
<1>2. Len(s) \in Nat /\ DOMAIN s = 1..Len(s) /\ DOMAIN Append(s, e) = 1..(Len(s) + 1)
  BY <1>1, LenProperties
<1>3. DOMAIN Append(s, e) = DOMAIN s \cup {Len(s) + 1}
  BY <1>2
<1> QED
  BY <1>1, <1>2, <1>3 DEF ToSet

\* The head of a sequence is one of its elements, and so are those of its
\* tail.
LEMMA HeadTailSet ==
  ASSUME NEW S, NEW s \in Seq(S), s # <<>>
  PROVE  /\ Head(s) \in S /\ Head(s) \in ToSet(s)
         /\ Tail(s) \in Seq(S) /\ ToSet(Tail(s)) \subseteq ToSet(s)
<1>1. /\ Len(s) \in Nat /\ DOMAIN s = 1..Len(s) /\ Len(s) # 0
  BY LenProperties, EmptySeq
<1>2. /\ Head(s) \in S /\ Tail(s) \in Seq(S) /\ Len(Tail(s)) = Len(s) - 1
      /\ \A i \in 1..Len(Tail(s)) : Tail(s)[i] = s[i+1]
  BY HeadTailProperties
<1>3. Head(s) = s[1] /\ 1 \in DOMAIN s
  BY <1>1
<1>4. DOMAIN Tail(s) = 1..(Len(s) - 1)
  BY <1>2, LenProperties
<1>5. \A i \in 1..(Len(s) - 1) : i+1 \in DOMAIN s /\ Tail(s)[i] = s[i+1]
  BY <1>1, <1>2
<1> QED
  BY <1>2, <1>3, <1>4, <1>5 DEF ToSet

\* A function on the first n numbers is a sequence, and what is appended to it is its
\* value at the next one.
LEMMA RowsAreSeq ==
  ASSUME NEW S, NEW n \in Nat, NEW f \in [1..n -> S]
  PROVE  /\ f \in Seq(S) /\ Len(f) = n /\ DOMAIN f = 1..n
         /\ \A e \in S : Append(f, e) = [b \in 1..(n + 1) |-> IF b = n + 1 THEN e ELSE f[b]]
<1>1. f \in Seq(S)
  BY DEF Seq
<1>2. Len(f) \in Nat /\ 1..Len(f) = 1..n
  BY <1>1, LenProperties
<1>3. Len(f) = n
  BY <1>2
<1>4. ASSUME NEW e \in S
      PROVE  Append(f, e) = [b \in 1..(n + 1) |-> IF b = n + 1 THEN e ELSE f[b]]
  <2>1. PICK g : g = Append(f, e)
    OBVIOUS
  <2>2. /\ g \in Seq(S) /\ Len(g) = n + 1 /\ \A i \in 1..n : g[i] = f[i]
        /\ g[n + 1] = e
    BY <1>1, <1>3, <2>1, AppendProperties
  <2>3. g \in [1..(n + 1) -> S]
    BY <2>2, LenProperties
  <2>4. g = [b \in 1..(n + 1) |-> IF b = n + 1 THEN e ELSE f[b]]
    BY <2>2, <2>3
  <2> QED
    BY <2>1, <2>4
<1> QED
  BY <1>1, <1>3, <1>4
=============================================================================
