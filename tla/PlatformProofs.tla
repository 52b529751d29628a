--------------------------- MODULE PlatformProofs ---------------------------
(***************************************************************************)
(* Proofs about the two parts of the platform that MCPlatform checks: the  *)
(* agent's own log and the incidents (Incidents), and the permission       *)
(* groups and sessions of members (Accounts).                              *)
(***************************************************************************)
EXTENDS Platform, DataLemmas

-----------------------------------------------------------------------------
(***************************************************************************)
(* The agent's own log.  The buffer always holds the lines written last,   *)
(* and a batch in hand either goes before them without a gap, or lines     *)
(* were dropped since, and then the buffer is full: it stays as it is when *)
(* the batch comes back.                                                   *)
(***************************************************************************)
OwnTyped ==
  /\ own = [written |-> own.written, buf |-> own.buf, batch |-> own.batch, sent |-> own.sent]
  /\ own.written \in Nat /\ own.sent \subseteq Nat
  /\ own.buf \in Seq(Nat) /\ Len(own.buf) <= MaxBuffer /\ Len(own.buf) <= own.written
  /\ own.batch \in Seq(Nat) /\ Len(own.batch) <= MaxBatch

\* The line before the buffer.
Before == own.written - Len(own.buf)

\* Lines of sequence s are numbered without a gap, and the last one is n.
EndsAt(s, n) == Len(s) <= n /\ \A i \in 1..Len(s) : s[i] = n - Len(s) + i

BatchFits ==
  \/ EndsAt(own.batch, Before)
  \/ Len(own.buf) = MaxBuffer /\ \A i \in 1..Len(own.batch) : own.batch[i] <= Before
SentFirst ==
  /\ \A n \in own.sent : n <= Before
  /\ \A n \in own.sent : \A i \in 1..Len(own.batch) : n < own.batch[i]

\* The inductive invariant of the agent's own log.
OwnInv == OwnTyped /\ EndsAt(own.buf, own.written) /\ BatchFits /\ SentFirst

LEMMA LastOfIs ==
  ASSUME NEW S, NEW s \in Seq(S), NEW n \in Nat
  PROVE  /\ LastOf(s, n) \in Seq(S)
         /\ Len(LastOf(s, n)) = IF Len(s) <= n THEN Len(s) ELSE n
         /\ \A i \in 1..Len(LastOf(s, n)) : LastOf(s, n)[i] = s[Len(s) - Len(LastOf(s, n)) + i]
<1>1. Len(s) \in Nat /\ \A i \in 1..Len(s) : s[i] \in S
  BY LenProperties, ElementOfSeq
<1>2. CASE Len(s) <= n
  BY <1>1, <1>2 DEF LastOf
<1>3. CASE ~ (Len(s) <= n)
  <2> DEFINE t == SubSeq(s, Len(s) - n + 1, Len(s))
  <2>1. \A i \in (Len(s) - n + 1)..Len(s) : s[i] \in S
    BY <1>1, <1>3
  <2>2. /\ t \in Seq(S)
        /\ Len(t) = IF Len(s) - n + 1 <= Len(s) THEN Len(s) - (Len(s) - n + 1) + 1 ELSE 0
        /\ \A i \in 1..(Len(s) - (Len(s) - n + 1) + 1) : t[i] = s[Len(s) - n + 1 + i - 1]
    BY <1>1, <1>3, <2>1, SubSeqProperties
  <2> HIDE DEF t
  <2>3. Len(t) = n /\ \A i \in 1..n : t[i] = s[Len(s) - n + i]
    BY <1>1, <1>3, <2>2
  <2>4. LastOf(s, n) = t
    BY <1>3 DEF LastOf, t
  <2> QED
    BY <1>3, <2>2, <2>3, <2>4
<1> QED
  BY <1>2, <1>3

\* What LastOf leaves of lines without a gap ends where they ended.
LEMMA LastOfEndsAt ==
  ASSUME NEW s \in Seq(Nat), NEW n \in Nat, NEW w \in Nat, EndsAt(s, w)
  PROVE  /\ LastOf(s, n) \in Seq(Nat) /\ EndsAt(LastOf(s, n), w)
         /\ Len(LastOf(s, n)) = IF Len(s) <= n THEN Len(s) ELSE n
<1> DEFINE t == LastOf(s, n)
<1>1. /\ t \in Seq(Nat) /\ Len(t) = IF Len(s) <= n THEN Len(s) ELSE n
      /\ \A i \in 1..Len(t) : t[i] = s[Len(s) - Len(t) + i]
  BY LastOfIs
<1>2. Len(s) \in Nat /\ Len(t) \in Nat
  BY <1>1, LenProperties
<1> HIDE DEF t
<1>3. ASSUME NEW i \in 1..Len(t) PROVE t[i] = w - Len(t) + i
  <2>1. Len(s) - Len(t) + i \in 1..Len(s)
    BY <1>1, <1>2
  <2>2. s[Len(s) - Len(t) + i] = w - Len(s) + (Len(s) - Len(t) + i)
    BY <2>1 DEF EndsAt
  <2>3. t[i] = s[Len(s) - Len(t) + i]
    BY <1>1
  <2>4. w - Len(s) + (Len(s) - Len(t) + i) = w - Len(t) + i
    BY <1>2
  <2> QED
    BY <2>2, <2>3, <2>4
<1>4. Len(t) <= w
  <2>1. Len(s) <= w
    BY DEF EndsAt
  <2> QED
    BY <1>1, <1>2, <2>1
<1>5. EndsAt(t, w)
  BY <1>3, <1>4 DEF EndsAt
<1> QED
  BY <1>1, <1>5 DEF t

\* So does what is added, and a batch that is put before.
LEMMA AppendEndsAt ==
  ASSUME NEW v \in Seq(Nat), NEW w \in Nat, EndsAt(v, w)
  PROVE  EndsAt(Append(v, w + 1), w + 1)
<1>1. PICK b \in Nat : b = Len(v)
  BY LenProperties
<1>2. b <= w /\ \A i \in 1..b : v[i] = w - b + i
  BY <1>1 DEF EndsAt
<1>3. PICK s : s = Append(v, w + 1)
  OBVIOUS
<1>4. Len(s) = b + 1 /\ s[b + 1] = w + 1 /\ \A i \in 1..b : s[i] = v[i]
  BY <1>1, <1>3, AppendProperties
<1>5. ASSUME NEW i \in 1..(b + 1) PROVE s[i] = (w + 1) - (b + 1) + i
  <2>1. CASE i \in 1..b
    <3>1. s[i] = w - b + i
      BY <1>2, <1>4, <2>1
    <3> QED
      BY <3>1
  <2>2. CASE i = b + 1
    BY <1>4, <2>2
  <2> QED
    BY <2>1, <2>2
<1> QED
  BY <1>2, <1>3, <1>4, <1>5 DEF EndsAt

LEMMA ConcatEndsAt ==
  ASSUME NEW u \in Seq(Nat), NEW v \in Seq(Nat), NEW w \in Nat, NEW b \in Nat, b = Len(v),
         EndsAt(v, w), EndsAt(u, w - b)
  PROVE  EndsAt(u \o v, w)
<1>1. PICK k \in Nat : k = Len(u)
  BY LenProperties
<1>2. PICK s : s = u \o v
  OBVIOUS
<1>3. Len(s) = k + b /\ \A i \in 1..(k + b) : s[i] = IF i <= k THEN u[i] ELSE v[i - k]
  BY <1>1, <1>2, ConcatProperties
<1>4. b <= w /\ \A i \in 1..b : v[i] = w - b + i
  BY DEF EndsAt
<1>5. k <= w - b /\ \A i \in 1..k : u[i] = (w - b) - k + i
  BY <1>1 DEF EndsAt
<1>6. ASSUME NEW i \in 1..(k + b) PROVE s[i] = w - (k + b) + i
  <2>1. CASE i <= k
    <3>1. s[i] = (w - b) - k + i
      BY <1>3, <1>5, <2>1
    <3> QED
      BY <3>1
  <2>2. CASE ~ (i <= k)
    <3>1. i - k \in 1..b /\ s[i] = v[i - k]
      BY <1>3, <2>2
    <3>2. v[i - k] = w - b + (i - k)
      BY <1>4, <3>1
    <3> QED
      BY <3>1, <3>2
  <2> QED
    BY <2>1, <2>2
<1>7. k + b <= w
  BY <1>5
<1> QED
  BY <1>2, <1>3, <1>6, <1>7 DEF EndsAt

\* A full buffer stays as it is when a batch is put before it.
LEMMA LastOfFull ==
  ASSUME NEW u \in Seq(Nat), NEW v \in Seq(Nat), NEW n \in Nat, n = Len(v)
  PROVE  /\ LastOf(u \o v, n) \in Seq(Nat) /\ Len(LastOf(u \o v, n)) = n
         /\ \A i \in 1..n : LastOf(u \o v, n)[i] = v[i]
<1>1. PICK k \in Nat : k = Len(u)
  BY LenProperties
<1>2. PICK s \in Seq(Nat) : s = u \o v
  BY ConcatProperties
<1>3. Len(s) = k + n /\ \A i \in 1..(k + n) : s[i] = IF i <= k THEN u[i] ELSE v[i - k]
  BY <1>1, <1>2, ConcatProperties
<1>4. PICK t : t = LastOf(s, n)
  OBVIOUS
<1>5. /\ t \in Seq(Nat) /\ Len(t) = IF Len(s) <= n THEN Len(s) ELSE n
      /\ \A i \in 1..Len(t) : t[i] = s[Len(s) - Len(t) + i]
  BY <1>4, LastOfIs
<1>6. Len(t) = n
  BY <1>3, <1>5
<1>7. ASSUME NEW i \in 1..n PROVE t[i] = v[i]
  <2>1. (k + n) - n + i = k + i /\ k + i \in 1..(k + n) /\ ~ (k + i <= k) /\ (k + i) - k = i
    OBVIOUS
  <2>2. t[i] = s[k + i]
    BY <1>3, <1>5, <1>6, <2>1
  <2> QED
    BY <1>3, <2>1, <2>2
<1> QED
  BY <1>2, <1>4, <1>5, <1>6, <1>7

LEMMA WriteStep ==
  ASSUME OwnInv, Write
  PROVE  OwnInv'
<1> DEFINE w == own.written
           s == Append(own.buf, w + 1)
           t == LastOf(s, MaxBuffer)
<1>1. /\ w \in Nat /\ w + 1 \in Nat /\ w < MaxOwn /\ MaxBuffer \in Nat \ {0} /\ MaxOwn \in Nat
      /\ own.buf \in Seq(Nat) /\ Len(own.buf) \in Nat /\ Len(own.batch) \in Nat
      /\ own.batch \in Seq(Nat)
  BY LenProperties, LogShipAssumption DEF OwnInv, OwnTyped, Write
<1>2. /\ own'.written = w + 1 /\ own'.buf = t
      /\ own'.batch = own.batch /\ own'.sent = own.sent
      /\ own' = [written |-> own'.written, buf |-> own'.buf, batch |-> own'.batch,
                 sent |-> own'.sent]
  BY DEF Write, OwnInv, OwnTyped
<1>3. /\ s \in Seq(Nat) /\ Len(s) = Len(own.buf) + 1
      /\ \A i \in 1..Len(own.buf) : s[i] = own.buf[i]
      /\ s[Len(own.buf) + 1] = w + 1
  BY <1>1, AppendProperties
<1> HIDE DEF s, w
<1>4. EndsAt(s, w + 1)
  BY <1>1, AppendEndsAt DEF s, w, OwnInv
<1>5. /\ t \in Seq(Nat) /\ EndsAt(t, w + 1)
      /\ Len(t) = IF Len(own.buf) + 1 <= MaxBuffer THEN Len(own.buf) + 1 ELSE MaxBuffer
  BY <1>1, <1>3, <1>4, LastOfEndsAt
<1> HIDE DEF t
<1>6. OwnTyped' /\ EndsAt(own.buf, own.written)'
  <2>1. own.sent \subseteq Nat /\ Len(own.batch) <= MaxBatch /\ Len(own.buf) <= w
    BY DEF OwnInv, OwnTyped, w
  <2>2. Len(t) <= MaxBuffer /\ Len(t) <= w + 1
    BY <1>1, <1>5, <2>1
  <2> QED
    BY <1>1, <1>2, <1>5, <2>1, <2>2 DEF OwnTyped, EndsAt
<1>7. /\ Len(own.buf) <= MaxBuffer /\ Before = w - Len(own.buf)
      /\ (Before)' = w + 1 - Len(t)
  BY <1>2 DEF OwnInv, OwnTyped, Before, w
<1>8. CASE Len(own.buf) < MaxBuffer
  <2>1. (Before)' = Before
    <3>1. Len(own.buf) + 1 <= MaxBuffer
      BY <1>1, <1>8
    <3>2. Len(t) = Len(own.buf) + 1
      BY <1>5, <3>1
    <3>3. w + 1 - (Len(own.buf) + 1) = w - Len(own.buf)
      BY <1>1
    <3> QED
      BY <1>7, <3>2, <3>3
  <2>2. EndsAt(own.batch, Before)
    BY <1>8 DEF OwnInv, BatchFits
  <2> QED
    BY <1>2, <1>6, <2>1, <2>2 DEF OwnInv, BatchFits, SentFirst, EndsAt
<1>9. CASE Len(own.buf) = MaxBuffer
  <2>1. (Before)' = Before + 1 /\ Len(t) = MaxBuffer /\ Before \in Int
    BY <1>1, <1>5, <1>7, <1>9
  <2>2. \A i \in 1..Len(own.batch) : own.batch[i] \in Nat /\ own.batch[i] <= Before
    <3>1. \A i \in 1..Len(own.batch) : own.batch[i] \in Nat
      BY <1>1, ElementOfSeq
    <3>2. CASE EndsAt(own.batch, Before)
      <4>1. ASSUME NEW i \in 1..Len(own.batch) PROVE own.batch[i] <= Before
        <5>1. own.batch[i] = Before - Len(own.batch) + i /\ i <= Len(own.batch)
          BY <1>1, <3>2 DEF EndsAt
        <5> QED
          BY <1>1, <2>1, <5>1
      <4> QED
        BY <3>1, <4>1
    <3> QED
      BY <3>1, <3>2 DEF OwnInv, BatchFits
  <2>3. \A i \in 1..Len(own.batch) : own.batch[i] <= Before + 1
    BY <2>1, <2>2
  <2>4. \A n \in own.sent : n \in Int /\ n <= Before + 1
    BY <1>1, <2>1 DEF OwnInv, SentFirst, OwnTyped
  <2>5. BatchFits'
    BY <1>2, <2>1, <2>3 DEF BatchFits
  <2>6. SentFirst'
    BY <1>2, <2>1, <2>4 DEF OwnInv, SentFirst
  <2> QED
    BY <1>6, <2>5, <2>6 DEF OwnInv
<1> QED
  BY <1>1, <1>7, <1>8, <1>9

LEMMA DetachStep ==
  ASSUME OwnInv, DetachBatch
  PROVE  OwnInv'
<1> DEFINE n == IF Len(own.buf) > MaxBatch THEN MaxBatch ELSE Len(own.buf)
           u == SubSeq(own.buf, 1, n)
           v == SubSeq(own.buf, n + 1, Len(own.buf))
           b == Len(own.buf)
           w == own.written
<1>1. /\ w \in Nat /\ own.buf \in Seq(Nat) /\ b \in Nat /\ MaxBatch \in Nat /\ MaxBuffer \in Nat
      /\ b <= w /\ b <= MaxBuffer /\ own.batch = <<>>
      /\ \A i \in 1..b : own.buf[i] = w - b + i
  BY LenProperties, LogShipAssumption DEF OwnInv, OwnTyped, DetachBatch, EndsAt
<1>2. n \in 0..b /\ n <= MaxBatch
  BY <1>1
<1>3. /\ own'.written = w /\ own'.buf = v /\ own'.batch = u /\ own'.sent = own.sent
      /\ own' = [written |-> own'.written, buf |-> own'.buf, batch |-> own'.batch,
                 sent |-> own'.sent]
  BY DEF DetachBatch, OwnInv, OwnTyped
<1> HIDE DEF n
<1>4. u \in Seq(Nat) /\ Len(u) = n /\ \A i \in 1..n : u[i] = own.buf[i]
  <2>1. \A i \in 1..n : own.buf[i] \in Nat
    BY <1>1, <1>2
  <2>2. /\ u \in Seq(Nat) /\ Len(u) = IF 1 <= n THEN n - 1 + 1 ELSE 0
        /\ \A i \in 1..(n - 1 + 1) : u[i] = own.buf[1 + i - 1]
    BY <1>1, <1>2, <2>1, SubSeqProperties
  <2>3. Len(u) = n
    BY <1>2, <2>2
  <2>4. \A i \in 1..n : u[i] = own.buf[i]
    <3> TAKE i \in 1..n
    <3>1. 1 + i - 1 = i /\ i \in 1..(n - 1 + 1)
      BY <1>2
    <3>2. u[i] = own.buf[1 + i - 1]
      BY <2>2, <3>1
    <3> QED
      BY <3>1, <3>2
  <2> QED
    BY <2>2, <2>3, <2>4
<1>5. v \in Seq(Nat) /\ Len(v) = b - n /\ \A i \in 1..(b - n) : v[i] = own.buf[n + i]
  <2>1. \A i \in (n + 1)..b : own.buf[i] \in Nat
    BY <1>1, <1>2
  <2>2. /\ v \in Seq(Nat) /\ Len(v) = IF n + 1 <= b THEN b - (n + 1) + 1 ELSE 0
        /\ \A i \in 1..(b - (n + 1) + 1) : v[i] = own.buf[n + 1 + i - 1]
    BY <1>1, <1>2, <2>1, SubSeqProperties
  <2>3. Len(v) = b - n
    BY <1>1, <1>2, <2>2
  <2>4. \A i \in 1..(b - n) : v[i] = own.buf[n + i]
    <3> TAKE i \in 1..(b - n)
    <3>1. n + 1 + i - 1 = n + i /\ i \in 1..(b - (n + 1) + 1)
      BY <1>1, <1>2
    <3>2. v[i] = own.buf[n + 1 + i - 1]
      BY <2>2, <3>1
    <3> QED
      BY <3>1, <3>2
  <2> QED
    BY <2>2, <2>3, <2>4
<1>6. own.sent \subseteq Nat /\ \A m \in own.sent : m <= w - b
  BY DEF OwnInv, OwnTyped, SentFirst, Before
<1> HIDE DEF u, v, b, w
<1>7. OwnTyped'
  BY <1>1, <1>2, <1>3, <1>4, <1>5, <1>6 DEF OwnTyped
<1>8. EndsAt(v, w)
  <2>1. ASSUME NEW i \in 1..(b - n) PROVE v[i] = w - (b - n) + i
    <3>1. n + i \in 1..b
      BY <1>1, <1>2
    <3>2. v[i] = w - b + (n + i)
      BY <1>1, <1>5, <3>1
    <3> QED
      BY <1>1, <1>2, <3>2
  <2>2. b - n <= w
    BY <1>1, <1>2
  <2> QED
    BY <1>5, <2>1, <2>2 DEF EndsAt
<1>9. (Before)' = w - (b - n)
  BY <1>3, <1>5 DEF Before
<1>10. EndsAt(u, w - (b - n))
  <2>1. ASSUME NEW i \in 1..n PROVE u[i] = w - (b - n) - n + i
    <3>1. i \in 1..b
      BY <1>1, <1>2
    <3>2. u[i] = w - b + i
      BY <1>1, <1>4, <3>1
    <3> QED
      BY <1>1, <1>2, <3>2
  <2>2. n <= w - (b - n)
    BY <1>1, <1>2
  <2> QED
    BY <1>4, <2>1, <2>2 DEF EndsAt
<1>11. BatchFits' /\ EndsAt(own.buf, own.written)'
  BY <1>3, <1>8, <1>9, <1>10 DEF BatchFits, EndsAt
<1>12. SentFirst'
  <2>1. ASSUME NEW m \in own.sent PROVE m <= w - (b - n) /\ \A i \in 1..n : m < u[i]
    <3>1. m \in Int /\ m <= w - b
      BY <1>6
    <3>2. \A i \in 1..n : u[i] = w - (b - n) - n + i
      BY <1>4, <1>10 DEF EndsAt
    <3> QED
      BY <1>1, <1>2, <3>1, <3>2
  <2> QED
    BY <1>3, <1>4, <1>9, <2>1 DEF SentFirst
<1> QED
  BY <1>7, <1>11, <1>12 DEF OwnInv

LEMMA SendStep ==
  ASSUME OwnInv, SendAgentLog
  PROVE  OwnInv'
<1>1. /\ own.written \in Nat /\ own.buf \in Seq(Nat) /\ own.batch \in Seq(Nat)
      /\ own.sent \subseteq Nat /\ EndsAt(own.buf, own.written) /\ BatchFits /\ SentFirst
      /\ Len(own.buf) <= MaxBuffer /\ Len(own.buf) <= own.written
      /\ MaxBuffer \in Nat /\ MaxBatch \in Nat
  BY LogShipAssumption DEF OwnInv, OwnTyped
<1>2. PICK w \in Nat, u \in Seq(Nat), v \in Seq(Nat) :
        w = own.written /\ u = own.batch /\ v = own.buf
  BY <1>1
<1>3. PICK b \in Nat, k \in Nat : b = Len(v) /\ k = Len(u)
  BY LenProperties
<1>4. PICK full \in Nat : full = MaxBuffer
  BY <1>1
<1>5. /\ Before = w - b /\ b <= w /\ b <= full /\ EndsAt(v, w)
      /\ DOMAIN u = 1..k /\ \A i \in 1..k : u[i] \in Nat
  BY <1>1, <1>2, <1>3, <1>4, LenProperties, ElementOfSeq DEF Before
<1>6. EndsAt(u, w - b) \/ (b = full /\ \A i \in 1..k : u[i] <= w - b)
  BY <1>1, <1>2, <1>3, <1>4, <1>5 DEF BatchFits
<1>7. \A n \in own.sent : n \in Nat /\ n <= w - b /\ \A i \in 1..k : n < u[i]
  BY <1>1, <1>2, <1>3, <1>5 DEF SentFirst
<1>8. <<>> \in Seq(Nat) /\ Len(<<>>) = 0
  OBVIOUS
\* An empty batch fits.
<1>9. ASSUME NEW t \in Seq(Nat), EndsAt(t, w), Len(t) <= full,
             own'.written = w, own'.buf = t, own'.batch = <<>>, own'.sent \subseteq Nat,
             own' = [written |-> own'.written, buf |-> own'.buf, batch |-> own'.batch,
                     sent |-> own'.sent],
             \A n \in own'.sent : n <= w - Len(t)
      PROVE  OwnInv'
  <2>1. PICK l \in Nat : l = Len(t)
    BY LenProperties
  <2>2. l <= w /\ l <= full /\ w - l \in Nat
    BY <1>9, <2>1 DEF EndsAt
  <2>3. (Before)' = w - l
    BY <1>9, <2>1 DEF Before
  <2>4. OwnTyped' /\ EndsAt(own.buf, own.written)'
    BY <1>1, <1>4, <1>8, <1>9, <2>1, <2>2 DEF OwnTyped
  <2>5. BatchFits'
    BY <1>8, <1>9, <2>2, <2>3 DEF BatchFits, EndsAt
  <2>6. SentFirst'
    BY <1>8, <1>9, <2>1, <2>3 DEF SentFirst
  <2> QED
    BY <2>4, <2>5, <2>6 DEF OwnInv
<1>10. CASE connected
  <2>1. /\ own'.written = w /\ own'.buf = v /\ own'.batch = <<>>
        /\ own'.sent = own.sent \cup {u[i] : i \in 1..k}
        /\ own' = [written |-> own'.written, buf |-> own'.buf, batch |-> own'.batch,
                   sent |-> own'.sent]
    BY <1>2, <1>5, <1>10 DEF SendAgentLog, OwnInv, OwnTyped, ToSet
  <2>2. ASSUME NEW i \in 1..k PROVE u[i] <= w - b
    <3>1. CASE EndsAt(u, w - b)
      <4>1. u[i] = (w - b) - k + i
        BY <1>3, <3>1 DEF EndsAt
      <4> QED
        BY <4>1
    <3> QED
      BY <1>6, <3>1
  <2>3. own'.sent \subseteq Nat /\ \A n \in own'.sent : n <= w - b
    BY <1>1, <1>5, <1>7, <2>1, <2>2
  <2> QED
    BY <1>3, <1>5, <1>9, <2>1, <2>3
\* The batch comes back: before the buffer, or it is what was dropped since.
<1>11. CASE ~connected
  <2>1. PICK t : t = LastOf(u \o v, full)
    OBVIOUS
  <2>2. /\ own'.written = w /\ own'.buf = t /\ own'.batch = <<>> /\ own'.sent = own.sent
        /\ own' = [written |-> own'.written, buf |-> own'.buf, batch |-> own'.batch,
                   sent |-> own'.sent]
    BY <1>2, <1>4, <1>11, <2>1 DEF SendAgentLog, OwnInv, OwnTyped, Requeue
  <2>3. CASE EndsAt(u, w - b)
    <3>1. PICK s \in Seq(Nat) : s = u \o v
      BY ConcatProperties
    <3>2. Len(s) = k + b
      BY <1>3, <3>1, ConcatProperties
    <3>3. EndsAt(s, w)
      BY <1>3, <1>5, <2>3, <3>1, ConcatEndsAt
    <3>4. /\ t \in Seq(Nat) /\ EndsAt(t, w)
          /\ Len(t) = IF k + b <= full THEN k + b ELSE full
      BY <2>1, <3>1, <3>2, <3>3, LastOfEndsAt
    <3>5. PICK l \in Nat : l = Len(t)
      BY <3>4
    <3>6. l <= full /\ l <= k + b
      BY <3>4, <3>5
    <3>7. ASSUME NEW n \in own.sent PROVE n <= w - l
      <4>1. n \in Nat /\ n <= w - b
        BY <1>7
      <4>2. CASE k = 0
        BY <3>6, <4>1, <4>2
      <4>3. CASE k > 0
        <5>1. 1 \in 1..k /\ u[1] = (w - b) - k + 1
          BY <1>3, <2>3, <4>3 DEF EndsAt
        <5>2. n < u[1]
          BY <1>7, <5>1
        <5> QED
          BY <3>6, <4>1, <5>1, <5>2
      <4> QED
        BY <4>2, <4>3
    <3> QED
      BY <1>1, <1>9, <2>2, <3>4, <3>5, <3>6, <3>7
  <2>4. CASE b = full
    <3>1. t \in Seq(Nat) /\ Len(t) = b /\ \A i \in 1..b : t[i] = v[i]
      <4>1. t = LastOf(u \o v, b)
        BY <2>1, <2>4
      <4> QED
        BY <1>3, <4>1, LastOfFull
    <3>2. EndsAt(t, w)
      BY <1>3, <1>5, <3>1 DEF EndsAt
    <3> QED
      BY <1>1, <1>5, <1>7, <1>9, <2>2, <3>1, <3>2
  <2> QED
    BY <1>6, <2>3, <2>4
<1> QED
  BY <1>10, <1>11

LEMMA OwnStays ==
  ASSUME OwnInv, UNCHANGED own
  PROVE  OwnInv'
BY DEF OwnInv, OwnTyped, EndsAt, BatchFits, SentFirst, Before

LEMMA AgentRestartStep ==
  ASSUME OwnInv, AgentRestart
  PROVE  OwnInv'
<1>1. /\ own'.written = own.written /\ own'.buf = <<>> /\ own'.batch = <<>>
      /\ own'.sent = own.sent
      /\ own' = [written |-> own'.written, buf |-> own'.buf, batch |-> own'.batch,
                 sent |-> own'.sent]
  BY DEF AgentRestart, OwnInv, OwnTyped
<1>2. PICK w \in Nat, b \in Nat : w = own.written /\ b = Len(own.buf) /\ b <= w
  BY LenProperties DEF OwnInv, OwnTyped
<1>3. <<>> \in Seq(Nat) /\ Len(<<>>) = 0
  OBVIOUS
<1>4. own.sent \subseteq Nat /\ \A n \in own.sent : n <= w - b
  BY <1>2 DEF OwnInv, OwnTyped, SentFirst, Before
<1>5. OwnTyped' /\ EndsAt(own.buf, own.written)'
  BY <1>1, <1>2, <1>3, <1>4, LogShipAssumption DEF OwnTyped, EndsAt
<1>6. (Before)' = w
  BY <1>1, <1>2, <1>3 DEF Before
<1>7. BatchFits' /\ \A n \in own.sent : n <= w
  BY <1>1, <1>2, <1>3, <1>4, <1>6 DEF BatchFits, EndsAt
<1> QED
  BY <1>1, <1>3, <1>5, <1>6, <1>7 DEF OwnInv, SentFirst

LEMMA OwnInit ==
  ASSUME IncidentsInit
  PROVE  OwnInv
<1>1. PICK n \in Nat : own = [written |-> n, buf |-> <<>>, batch |-> <<>>, sent |-> 1..n]
  BY LogShipAssumption DEF IncidentsInit, ShipInit
<1>2. <<>> \in Seq(Nat) /\ Len(<<>>) = 0
  OBVIOUS
<1>3. Before = n
  BY <1>1, <1>2 DEF Before
<1>4. OwnTyped
  BY <1>1, <1>2, LogShipAssumption DEF OwnTyped
<1>5. EndsAt(own.buf, own.written) /\ BatchFits /\ SentFirst
  BY <1>1, <1>2, <1>3 DEF EndsAt, BatchFits, SentFirst
<1> QED
  BY <1>4, <1>5 DEF OwnInv

LEMMA OwnInvStep ==
  ASSUME OwnInv, [IncidentsNext]_incidentsVars
  PROVE  OwnInv'
<1>1. CASE Agent
  BY <1>1, WriteStep, DetachStep, SendStep, OwnStays DEF Agent, ShipStep, Hello, PullHistory,
     ShipLine, Follow, FollowLine, FollowEnds, QuietEnds, Flush, OwnStep, AppStep, PrintsError,
     PrintsCause, Prints, Ends, Starts, stream
<1>2. CASE Handle \/ ResolveStaleIncidents
  BY <1>2, OwnStays DEF Handle, Receive, Select, UpdateOrInsert, ResolveStaleIncidents, logship
<1>3. ASSUME NEW n \in DOMAIN incidents,
             GetsOld(n) \/ Delete(n) \/ \E s \in Status : UpdateStatus(n, s)
      PROVE  OwnInv'
  BY <1>3, OwnStays DEF GetsOld, Delete, UpdateStatus, Edited, logship
<1>4. CASE Fault
  BY <1>4, AgentRestartStep, OwnStays DEF Fault, ShipFault, StreamFails, Break, ApiRestart,
     HandlerFails, logship
<1>5. CASE UNCHANGED incidentsVars
  BY <1>5, OwnStays DEF incidentsVars, logship
<1> QED
  BY <1>1, <1>2, <1>3, <1>4, <1>5 DEF IncidentsNext

LEMMA OwnInvDropsOldest ==
  ASSUME OwnInv
  PROVE  DropsOldest
<1>1. /\ own.written \in Nat /\ own.buf \in Seq(Nat) /\ own.batch \in Seq(Nat)
      /\ own.sent \subseteq Nat /\ EndsAt(own.buf, own.written) /\ BatchFits /\ SentFirst
  BY DEF OwnInv, OwnTyped
<1>2. PICK w \in Nat, u \in Seq(Nat), v \in Seq(Nat) :
        w = own.written /\ u = own.batch /\ v = own.buf
  BY <1>1
<1>3. PICK b \in Nat, k \in Nat : b = Len(v) /\ k = Len(u)
  BY LenProperties
<1>4. /\ Before = w - b /\ b <= w /\ DOMAIN u = 1..k /\ DOMAIN v = 1..b
      /\ \A i \in 1..b : v[i] = w - b + i
  BY <1>1, <1>2, <1>3, LenProperties DEF Before, EndsAt
<1>5. \A i \in 1..k : u[i] \in Nat
  BY <1>3, ElementOfSeq
<1>6. ASSUME NEW i \in 1..k PROVE u[i] <= w - b
  <2>1. CASE EndsAt(u, w - b)
    <3>1. u[i] = (w - b) - k + i
      BY <1>3, <2>1 DEF EndsAt
    <3> QED
      BY <3>1
  <2> QED
    BY <1>1, <1>2, <1>3, <1>4, <2>1 DEF BatchFits
<1>7. \A i \in 1..k, j \in 1..b : u[i] < v[j]
  BY <1>4, <1>5, <1>6
<1>8. \A n \in own.sent : n \in Nat /\ n <= w - b /\ \A i \in 1..k : n < u[i]
  BY <1>1, <1>2, <1>3, <1>4 DEF SentFirst
<1>9. \A n \in own.sent, j \in 1..b : n < v[j]
  BY <1>4, <1>8
<1> QED
  BY <1>2, <1>3, <1>4, <1>7, <1>8, <1>9 DEF DropsOldest

\* The agent's own lines leave in their order, and what the bound drops is the oldest,
\* for any bounds, breaks and restarts (selflog.Shipper: Write, flush, requeue).
THEOREM DropsTheOldest == IncidentsSpec => []DropsOldest
<1>1. IncidentsInit => OwnInv
  BY OwnInit
<1>2. OwnInv /\ [IncidentsNext]_incidentsVars => OwnInv'
  BY OwnInvStep
<1>3. OwnInv => DropsOldest
  BY OwnInvDropsOldest
<1> QED
  BY <1>1, <1>2, <1>3, PTL DEF IncidentsSpec

-----------------------------------------------------------------------------
(***************************************************************************)
(* Incidents.  The handler looks for a row and inserts one in a second     *)
(* statement; in between only another handler, which inserts a row that    *)
(* was not there, or a user makes a row of the failure active.             *)
(***************************************************************************)
Row == [fp : Line, status : Status \cup {"deleted"}, stale : BOOLEAN, reopened : BOOLEAN,
        met : BOOLEAN]
Handler == [fp : Line, pc : {"select", "write"}, row : Nat, seen : Nat]

\* A row that OneActive speaks of.
Alive(row) == row.status \in Active /\ ~row.reopened

FramesTyped ==
  /\ incidents \in Seq(Row) /\ handlers \in Seq(Handler) /\ net \in Seq(Line)
  /\ \A h \in DOMAIN handlers :
       handlers[h].row <= Len(incidents) /\ handlers[h].seen <= Len(incidents)

\* What a handler looked at and found missing is still missing when it inserts.
StillMissing ==
  \A h \in DOMAIN handlers, n \in DOMAIN incidents :
    /\ handlers[h].pc = "write" /\ handlers[h].row = 0 /\ n <= handlers[h].seen
    /\ incidents[n].fp = handlers[h].fp
    => ~Alive(incidents[n])

\* The inductive invariant of OneActive.
OneInv == FramesTyped /\ StillMissing /\ OneActive

LEMMA OneActiveAlive ==
  OneActive <=> \A m, n \in DOMAIN incidents :
                  /\ m < n /\ incidents[m].fp = incidents[n].fp
                  /\ Alive(incidents[m]) /\ Alive(incidents[n])
                  => incidents[n].met
BY DEF OneActive, Alive

\* Calls of the handler end, none begins or goes on.
FewerHandlers ==
  /\ handlers' \in Seq(Handler)
  /\ \A g \in DOMAIN handlers' : \E h \in DOMAIN handlers : handlers'[g] = handlers[h]

LEMMA HandlersLess ==
  ASSUME FramesTyped, UNCHANGED handlers \/ handlers' = <<>>
                      \/ \E h \in DOMAIN handlers : handlers' = RemoveAt(handlers, h)
  PROVE  FewerHandlers
<1>1. handlers \in Seq(Handler) /\ DOMAIN handlers = 1..Len(handlers) /\ Len(handlers) \in Nat
  BY LenProperties DEF FramesTyped
<1>2. CASE UNCHANGED handlers
  BY <1>1, <1>2 DEF FewerHandlers
<1>3. CASE handlers' = <<>>
  <2>1. <<>> \in Seq(Handler) /\ DOMAIN <<>> = {}
    BY EmptySeq
  <2> QED
    BY <1>3, <2>1 DEF FewerHandlers
<1>4. ASSUME NEW h \in DOMAIN handlers, handlers' = RemoveAt(handlers, h)
      PROVE  FewerHandlers
  <2>1. /\ handlers' \in Seq(Handler) /\ Len(handlers') = Len(handlers) - 1
        /\ \A k \in 1..(Len(handlers) - 1) :
             handlers'[k] = handlers[IF k < h THEN k ELSE k + 1]
    BY <1>1, <1>4, RemoveAtIs
  <2>2. DOMAIN handlers' = 1..(Len(handlers) - 1)
    BY <1>1, <2>1, LenProperties
  <2>3. ASSUME NEW g \in DOMAIN handlers'
        PROVE  \E k \in DOMAIN handlers : handlers'[g] = handlers[k]
    <3>1. PICK k \in 1..Len(handlers) : k = IF g < h THEN g ELSE g + 1
      BY <1>1, <2>2
    <3> QED
      BY <1>1, <2>1, <2>2, <3>1
  <2> QED
    BY <2>1, <2>3 DEF FewerHandlers
<1> QED
  BY <1>2, <1>3, <1>4

\* Rows that only cease to be active disturb nothing.
LEMMA RowsCease ==
  ASSUME OneInv,
         incidents' \in Seq(Row), DOMAIN incidents' = DOMAIN incidents,
         Len(incidents') = Len(incidents),
         \A n \in DOMAIN incidents : /\ incidents'[n].fp = incidents[n].fp
                                     /\ incidents'[n].met = incidents[n].met
                                     /\ Alive(incidents'[n]) => Alive(incidents[n]),
         FewerHandlers, net' \in Seq(Line)
  PROVE  OneInv'
<1>1. FramesTyped'
  BY DEF OneInv, FramesTyped, FewerHandlers
<1>2. StillMissing'
  BY DEF OneInv, StillMissing, FewerHandlers
<1>3. \A m, n \in DOMAIN incidents :
        /\ m < n /\ incidents[m].fp = incidents[n].fp
        /\ Alive(incidents[m]) /\ Alive(incidents[n])
        => incidents[n].met
  BY OneActiveAlive DEF OneInv
<1>4. OneActive'
  <2>1. \A m, n \in DOMAIN incidents' :
          /\ m < n /\ incidents'[m].fp = incidents'[n].fp
          /\ Alive(incidents'[m]) /\ Alive(incidents'[n])
          => incidents'[n].met
    BY <1>3
  <2> QED
    BY <2>1 DEF OneActive, Alive
<1> QED
  BY <1>1, <1>2, <1>4 DEF OneInv

LEMMA FramesStay ==
  ASSUME OneInv, UNCHANGED <<incidents, handlers>>, net' \in Seq(Line)
  PROVE  OneInv'
<1>1. FewerHandlers
  BY HandlersLess DEF OneInv
<1> QED
  BY <1>1, RowsCease DEF OneInv, FramesTyped

LEMMA FlushFrame ==
  ASSUME OneInv, Flush(InFlight), Apart
  PROVE  OneInv'
<1>1. UNCHANGED <<incidents, handlers>>
  BY DEF Apart, platform
<1>2. Fingerprint(burst) \in Line
  BY DEF Fingerprint, Line
<1>3. net' \in Seq(Line)
  BY <1>2, AppendProperties DEF Flush, OneInv, FramesTyped
<1> QED
  BY <1>1, <1>3, FramesStay

LEMMA BreakFrames ==
  ASSUME OneInv, Break, UNCHANGED <<incidents, handlers>>
  PROVE  OneInv'
<1>1. PICK n \in 0..Len(net) : net' = SubSeq(net, 1, n)
  BY DEF Break
<1>2. Len(net) \in Nat /\ net \in Seq(Line) /\ \A i \in 1..Len(net) : net[i] \in Line
  BY LenProperties, ElementOfSeq DEF OneInv, FramesTyped
<1>3. \A i \in 1..n : net[i] \in Line
  BY <1>2
<1>4. net' \in Seq(Line)
  BY <1>1, <1>2, <1>3, SubSeqProperties
<1> QED
  BY <1>4, FramesStay

LEMMA ReceiveFrame ==
  ASSUME OneInv, Receive
  PROVE  OneInv'
<1> DEFINE job == [fp |-> Head(net), pc |-> "select", row |-> 0, seen |-> 0]
<1>1. /\ net \in Seq(Line) /\ net # <<>>
      /\ Len(handlers) \in Nat /\ DOMAIN handlers = 1..Len(handlers)
      /\ handlers \in Seq(Handler) /\ incidents \in Seq(Row) /\ Len(incidents) \in Nat
  BY LenProperties DEF OneInv, FramesTyped, Receive
<1>2. Head(net) \in Line /\ Tail(net) \in Seq(Line)
  BY <1>1, HeadTailProperties
<1>3. job \in Handler /\ job.pc = "select" /\ job.row = 0 /\ job.seen = 0
  BY <1>2 DEF Handler
<1>4. /\ handlers' = Append(handlers, job) /\ net' = Tail(net) /\ incidents' = incidents
  BY DEF Receive
<1> HIDE DEF job
<1>5. /\ handlers' \in Seq(Handler) /\ Len(handlers') = Len(handlers) + 1
      /\ \A h \in 1..Len(handlers) : handlers'[h] = handlers[h]
      /\ handlers'[Len(handlers) + 1] = job
      /\ DOMAIN handlers' = 1..(Len(handlers) + 1)
  BY <1>1, <1>3, <1>4, AppendProperties, LenProperties
<1>6. \A h \in DOMAIN handlers' : \/ h \in DOMAIN handlers /\ handlers'[h] = handlers[h]
                                  \/ handlers'[h] = job
  BY <1>1, <1>5
<1>7. FramesTyped'
  BY <1>1, <1>2, <1>3, <1>4, <1>5, <1>6 DEF OneInv, FramesTyped
<1>8. StillMissing'
  BY <1>3, <1>4, <1>6 DEF OneInv, StillMissing
<1>9. OneActive'
  BY <1>4 DEF OneInv, OneActive
<1> QED
  BY <1>7, <1>8, <1>9 DEF OneInv

LEMMA SelectRow ==
  ASSUME OneInv, NEW h \in DOMAIN handlers, Select(h)
  PROVE  OneInv'
<1>1. PICK row \in IF Existing(handlers[h].fp) = {} THEN {0} ELSE Existing(handlers[h].fp) :
        handlers' = [handlers EXCEPT ![h].pc = "write", ![h].row = row,
                                     ![h].seen = IF row = 0 THEN Len(incidents) ELSE 0]
  BY DEF Select
<1>2. /\ handlers \in Seq(Handler) /\ incidents \in Seq(Row) /\ Len(incidents) \in Nat
      /\ DOMAIN incidents = 1..Len(incidents) /\ DOMAIN handlers = 1..Len(handlers)
      /\ Len(handlers) \in Nat
  BY LenProperties DEF OneInv, FramesTyped
<1>3. handlers[h] \in Handler
  BY <1>2, ElementOfSeq
<1>4. row \in Nat /\ row <= Len(incidents)
  BY <1>2 DEF Existing
<1>5. PICK seen \in Nat : seen = (IF row = 0 THEN Len(incidents) ELSE 0) /\ seen <= Len(incidents)
  <2>1. (IF row = 0 THEN Len(incidents) ELSE 0) \in Nat
        /\ (IF row = 0 THEN Len(incidents) ELSE 0) <= Len(incidents)
    BY <1>2
  <2> QED
    BY <2>1
<1> DEFINE job == [handlers[h] EXCEPT !.pc = "write", !.row = row, !.seen = seen]
<1>6. job \in Handler /\ job.fp = handlers[h].fp /\ job.row = row /\ job.seen = seen
  BY <1>3, <1>4 DEF Handler
<1>7. handlers' = [handlers EXCEPT ![h] = job]
  BY <1>1, <1>5
<1> HIDE DEF job
<1>8. handlers' \in Seq(Handler) /\ Len(handlers') = Len(handlers)
      /\ DOMAIN handlers' = DOMAIN handlers
      /\ \A g \in DOMAIN handlers : handlers'[g] = IF g = h THEN job ELSE handlers[g]
  BY <1>2, <1>6, <1>7, ExceptSeq, LenProperties
<1>9. UNCHANGED <<incidents, net>>
  BY DEF Select, logship
<1>10. FramesTyped'
  BY <1>4, <1>5, <1>6, <1>8, <1>9 DEF OneInv, FramesTyped
<1>11. StillMissing'
  <2>1. ASSUME row = 0, NEW n \in DOMAIN incidents, incidents[n].fp = job.fp, Alive(incidents[n])
        PROVE  FALSE
    <3>1. n \in Existing(handlers[h].fp)
      BY <1>6, <2>1 DEF Existing, Alive
    <3>2. row \in Existing(handlers[h].fp)
      BY <3>1
    <3> QED
      BY <1>2, <2>1, <3>2 DEF Existing
  <2> QED
    BY <1>6, <1>8, <1>9, <2>1 DEF OneInv, StillMissing
<1>12. OneActive'
  BY <1>9 DEF OneInv, OneActive
<1> QED
  BY <1>10, <1>11, <1>12 DEF OneInv

\* One row changes, and it is no more active than before.
LEMMA RowCeases ==
  ASSUME OneInv, NEW n \in DOMAIN incidents, NEW row \in Row,
         row.fp = incidents[n].fp, row.met = incidents[n].met,
         Alive(row) => Alive(incidents[n]),
         incidents' = [incidents EXCEPT ![n] = row],
         FewerHandlers, net' = net
  PROVE  OneInv'
<1>1. incidents \in Seq(Row) /\ DOMAIN incidents = 1..Len(incidents) /\ net \in Seq(Line)
  BY LenProperties DEF OneInv, FramesTyped
<1>2. /\ incidents' \in Seq(Row) /\ Len(incidents') = Len(incidents)
      /\ \A m \in DOMAIN incidents : incidents'[m] = IF m = n THEN row ELSE incidents[m]
  BY <1>1, ExceptSeq
<1>3. DOMAIN incidents' = DOMAIN incidents
  BY <1>1, <1>2, LenProperties
<1>4. \A m \in DOMAIN incidents : /\ incidents'[m].fp = incidents[m].fp
                                  /\ incidents'[m].met = incidents[m].met
                                  /\ Alive(incidents'[m]) => Alive(incidents[m])
  BY <1>2
<1> QED
  BY <1>1, <1>2, <1>3, <1>4, RowsCease

LEMMA HandlerEnds ==
  ASSUME OneInv, NEW h \in DOMAIN handlers, HandlerFails(h)
  PROVE  OneInv'
<1>1. FewerHandlers
  BY HandlersLess DEF HandlerFails, OneInv
<1>2. UNCHANGED <<incidents, net>>
  BY DEF HandlerFails, logship
<1> QED
  BY <1>1, <1>2, RowsCease DEF OneInv, FramesTyped

LEMMA InsertRow ==
  ASSUME OneInv, NEW h \in DOMAIN handlers, handlers[h].pc = "write", handlers[h].row = 0,
         incidents' = Append(incidents, NewIncident(handlers[h].fp, Met(h))),
         handlers' = RemoveAt(handlers, h), net' = net
  PROVE  OneInv'
<1> DEFINE fp == handlers[h].fp
           row == NewIncident(fp, Met(h))
           k == Len(incidents)
<1>1. /\ handlers \in Seq(Handler) /\ incidents \in Seq(Row) /\ k \in Nat
      /\ DOMAIN incidents = 1..k /\ DOMAIN handlers = 1..Len(handlers)
      /\ net \in Seq(Line)
  BY LenProperties DEF OneInv, FramesTyped
<1>2. handlers[h] \in Handler
  BY <1>1, ElementOfSeq
<1>3. row \in Row /\ row.fp = fp /\ row.met = Met(h)
  <2>1. Met(h) \in BOOLEAN
    BY DEF Met
  <2> QED
    BY <1>2, <2>1 DEF Handler, Row, NewIncident, Status
<1> HIDE DEF row
<1>4. /\ incidents' \in Seq(Row) /\ Len(incidents') = k + 1 /\ DOMAIN incidents' = 1..(k + 1)
      /\ \A n \in 1..k : incidents'[n] = incidents[n]
      /\ incidents'[k + 1] = row
  BY <1>1, <1>3, AppendProperties, LenProperties DEF row
<1>5. FewerHandlers
  BY HandlersLess DEF OneInv
<1>6. \A g \in DOMAIN handlers' :
        handlers'[g] \in Handler /\ handlers'[g].row <= k /\ handlers'[g].seen <= k
  BY <1>1, <1>5, ElementOfSeq DEF FewerHandlers, OneInv, FramesTyped
<1>7. FramesTyped'
  <2>1. ASSUME NEW g \in DOMAIN handlers'
        PROVE  handlers'[g].row <= k + 1 /\ handlers'[g].seen <= k + 1
    BY <1>1, <1>6, <2>1 DEF Handler
  <2> QED
    BY <1>1, <1>4, <1>5, <2>1 DEF FramesTyped, FewerHandlers
<1>8. StillMissing'
  <2> SUFFICES ASSUME NEW g \in DOMAIN handlers', NEW n \in DOMAIN incidents',
                      handlers'[g].pc = "write", handlers'[g].row = 0, n <= handlers'[g].seen,
                      incidents'[n].fp = handlers'[g].fp
               PROVE  ~Alive(incidents'[n])
    BY DEF StillMissing
  <2>1. n \in 1..k
    BY <1>1, <1>4, <1>6 DEF Handler
  <2> QED
    BY <1>1, <1>4, <1>5, <2>1 DEF OneInv, StillMissing, FewerHandlers
<1>9. ASSUME NEW m \in 1..k, incidents[m].fp = fp, Alive(incidents[m])
      PROVE  Met(h)
  <2>1. ~(m <= handlers[h].seen)
    BY <1>1, <1>9 DEF OneInv, StillMissing
  <2>2. m > handlers[h].seen
    BY <1>2, <2>1 DEF Handler
  <2> QED
    BY <1>1, <1>9, <2>2 DEF Met
<1>10. \A m, n \in 1..k :
        /\ m < n /\ incidents[m].fp = incidents[n].fp
        /\ Alive(incidents[m]) /\ Alive(incidents[n])
        => incidents[n].met
  BY <1>1, OneActiveAlive DEF OneInv
<1> HIDE DEF fp
<1>11. ASSUME NEW m \in 1..(k + 1), NEW n \in 1..(k + 1), m < n,
              incidents'[m].fp = incidents'[n].fp, Alive(incidents'[m]), Alive(incidents'[n])
       PROVE  incidents'[n].met
  <2>1. m \in 1..k
    BY <1>1, <1>11
  <2>2. CASE n \in 1..k
    BY <1>4, <1>10, <1>11, <2>1, <2>2
  <2>3. CASE n = k + 1
    BY <1>3, <1>4, <1>9, <1>11, <2>1, <2>3
  <2> QED
    BY <1>1, <2>2, <2>3
<1>12. OneActive'
  BY <1>4, <1>11 DEF OneActive, Alive
<1> QED
  BY <1>7, <1>8, <1>12 DEF OneInv

LEMMA WriteRow ==
  ASSUME OneInv, NEW h \in DOMAIN handlers, UpdateOrInsert(h)
  PROVE  OneInv'
<1> DEFINE row == handlers[h].row
<1>1. /\ handlers \in Seq(Handler) /\ incidents \in Seq(Row) /\ Len(incidents) \in Nat
      /\ DOMAIN incidents = 1..Len(incidents) /\ DOMAIN handlers = 1..Len(handlers)
      /\ net \in Seq(Line) /\ row <= Len(incidents)
  BY LenProperties DEF OneInv, FramesTyped
<1>2. handlers[h] \in Handler
  BY <1>1, ElementOfSeq
<1>3. row \in Nat
  BY <1>2 DEF Handler
<1>4. handlers[h].pc = "write" /\ handlers' = RemoveAt(handlers, h) /\ net' = net
  BY DEF UpdateOrInsert, logship
<1>5. FewerHandlers
  BY <1>4, HandlersLess DEF OneInv
<1>6. CASE row = 0
  BY <1>4, <1>6, InsertRow DEF UpdateOrInsert
<1>7. CASE row # 0 /\ incidents[row].status = "deleted"
  <2>1. incidents' = incidents
    BY <1>7 DEF UpdateOrInsert
  <2> QED
    BY <1>1, <1>4, <1>5, <2>1, RowsCease
<1>8. CASE row # 0 /\ incidents[row].status # "deleted"
  <2> DEFINE new == [incidents[row] EXCEPT !.stale = FALSE]
  <2>1. row \in DOMAIN incidents
    BY <1>1, <1>3, <1>8
  <2>2. incidents[row] \in Row
    BY <1>1, <2>1, ElementOfSeq
  <2>3. incidents' = [incidents EXCEPT ![row] = new]
    BY <1>8 DEF UpdateOrInsert, Bump
  <2>4. /\ new \in Row /\ new.fp = incidents[row].fp /\ new.met = incidents[row].met
        /\ Alive(new) => Alive(incidents[row])
    BY <2>2 DEF Row, Alive
  <2> HIDE DEF new, row
  <2> QED
    BY <1>4, <1>5, <2>1, <2>3, <2>4, RowCeases
<1> QED
  BY <1>6, <1>7, <1>8

LEMMA SweepRows ==
  ASSUME OneInv, ResolveStaleIncidents
  PROVE  OneInv'
<1>1. /\ incidents \in Seq(Row) /\ DOMAIN incidents = 1..Len(incidents) /\ Len(incidents) \in Nat
      /\ net \in Seq(Line)
  BY LenProperties DEF OneInv, FramesTyped
<1>2. \A n \in DOMAIN incidents : incidents[n] \in Row
  BY <1>1, ElementOfSeq
<1>3. /\ DOMAIN incidents' = DOMAIN incidents /\ UNCHANGED <<handlers, net>>
      /\ \A n \in DOMAIN incidents :
           incidents'[n] = IF Swept(incidents[n])
                           THEN [incidents[n] EXCEPT !.status = "resolved"] ELSE incidents[n]
      /\ incidents' = [n \in 1..Len(incidents) |-> incidents'[n]]
  BY <1>1 DEF ResolveStaleIncidents, logship
<1>4. \A n \in DOMAIN incidents :
        /\ incidents'[n] \in Row /\ incidents'[n].fp = incidents[n].fp
        /\ incidents'[n].met = incidents[n].met
        /\ Alive(incidents'[n]) => Alive(incidents[n])
  BY <1>2, <1>3 DEF Row, Alive, Active, Status
<1>5. incidents' \in Seq(Row) /\ Len(incidents') = Len(incidents)
  <2>1. \A n \in 1..Len(incidents) : incidents'[n] \in Row
    BY <1>1, <1>4
  <2>2. incidents' \in Seq(Row)
    BY <1>1, <1>3, <2>1, IsASeq
  <2> QED
    BY <1>1, <1>3, <2>2, LenProperties
<1>6. FewerHandlers
  BY <1>3, HandlersLess DEF OneInv
<1> QED
  BY <1>1, <1>3, <1>4, <1>5, <1>6, RowsCease

LEMMA UserEdits ==
  ASSUME OneInv, NEW n \in DOMAIN incidents,
         GetsOld(n) \/ Delete(n) \/ \E s \in Status : UpdateStatus(n, s)
  PROVE  OneInv'
<1>1. incidents \in Seq(Row) /\ DOMAIN incidents = 1..Len(incidents)
  BY LenProperties DEF OneInv, FramesTyped
<1>2. incidents[n] \in Row
  BY <1>1, ElementOfSeq
<1>3. FewerHandlers /\ UNCHANGED net
  BY HandlersLess DEF GetsOld, Delete, UpdateStatus, Edited, logship, OneInv
<1>4. CASE GetsOld(n)
  <2> DEFINE new == [incidents[n] EXCEPT !.stale = TRUE]
  <2>1. incidents' = [incidents EXCEPT ![n] = new]
    BY <1>4 DEF GetsOld
  <2>2. /\ new \in Row /\ new.fp = incidents[n].fp /\ new.met = incidents[n].met
        /\ (Alive(new) => Alive(incidents[n]))
    BY <1>2 DEF Row, Alive
  <2> HIDE DEF new
  <2> QED
    BY <1>1, <1>3, <2>1, <2>2, RowCeases
<1>5. CASE Delete(n)
  <2> DEFINE new == [incidents[n] EXCEPT !.status = "deleted"]
  <2>1. incidents' = [incidents EXCEPT ![n] = new]
    BY <1>5 DEF Delete
  <2>2. /\ new \in Row /\ new.fp = incidents[n].fp /\ new.met = incidents[n].met
        /\ (Alive(new) => Alive(incidents[n]))
    BY <1>2 DEF Row, Alive, Active
  <2> HIDE DEF new
  <2> QED
    BY <1>1, <1>3, <2>1, <2>2, RowCeases
<1>6. ASSUME NEW s \in Status, UpdateStatus(n, s) PROVE OneInv'
  <2> DEFINE back == incidents[n].reopened \/ (s \in Active /\ incidents[n].status \notin Active)
             new == [incidents[n] EXCEPT !.status = s, !.reopened = back]
  <2>1. incidents' = [incidents EXCEPT ![n] = new]
    BY <1>1, <1>2, <1>6 DEF UpdateStatus, Row
  <2>2. back \in BOOLEAN
    BY <1>2 DEF Row
  <2>3. /\ new \in Row /\ new.fp = incidents[n].fp /\ new.met = incidents[n].met
        /\ new.status = s /\ new.reopened = back
    <3> HIDE DEF back
    <3> QED
      BY <1>2, <1>6, <2>2 DEF Row
  <2>4. Alive(new) => Alive(incidents[n])
    BY <2>3 DEF Alive
  <2> HIDE DEF new
  <2> QED
    BY <1>1, <1>3, <2>1, <2>3, <2>4, RowCeases
<1> QED
  BY <1>4, <1>5, <1>6

LEMMA OneInvInit ==
  ASSUME IncidentsInit
  PROVE  OneInv
<1>1. incidents = <<>> /\ handlers = <<>> /\ net = <<>>
  BY DEF IncidentsInit, ShipInit
<1>2. \A S : <<>> \in Seq(S) /\ Len(<<>>) = 0 /\ DOMAIN <<>> = {}
  BY EmptySeq
<1> QED
  BY <1>1, <1>2 DEF OneInv, FramesTyped, StillMissing, OneActive

LEMMA OneInvStep ==
  ASSUME OneInv, [IncidentsNext]_incidentsVars
  PROVE  OneInv'
<1>1. net \in Seq(Line) /\ Len(net) \in Nat
  BY LenProperties DEF OneInv, FramesTyped
<1>2. ASSUME UNCHANGED <<incidents, handlers, net>> PROVE OneInv'
  BY <1>1, <1>2, FramesStay
<1>3. CASE Agent /\ Apart
  <2>1. CASE Flush(InFlight)
    BY <1>3, <2>1, FlushFrame
  <2>2. CASE ~ Flush(InFlight)
    <3>1. net' = net
      BY <1>3, <2>2 DEF Agent, ShipStep, Hello, PullHistory, ShipLine, Follow, FollowLine,
         FollowEnds, QuietEnds, OwnStep, DetachBatch, SendAgentLog, AppStep, PrintsError,
         PrintsCause, Prints, Ends, Starts, Write
    <3> QED
      BY <1>2, <1>3, <3>1 DEF Apart, platform
  <2> QED
    BY <2>1, <2>2
<1>4. CASE Handle
  BY <1>4, ReceiveFrame, SelectRow, WriteRow DEF Handle
<1>5. CASE ResolveStaleIncidents
  BY <1>5, SweepRows
<1>6. ASSUME NEW n \in DOMAIN incidents,
             GetsOld(n) \/ Delete(n) \/ \E s \in Status : UpdateStatus(n, s)
      PROVE  OneInv'
  BY <1>6, UserEdits
<1>7. CASE Fault
  <2>1. CASE ShipFault /\ UNCHANGED platform
    <3>1. UNCHANGED <<incidents, handlers>>
      BY <2>1 DEF platform
    <3>2. CASE Break
      BY <3>1, <3>2, BreakFrames
    <3>3. CASE StreamFails \/ AgentRestart
      BY <1>2, <3>1, <3>3 DEF StreamFails, AgentRestart
    <3> QED
      BY <2>1, <3>2, <3>3 DEF ShipFault
  <2>2. CASE ApiRestart
    <3>1. /\ incidents' = incidents /\ handlers' = <<>> /\ net' = <<>>
      BY <2>2 DEF ApiRestart
    <3>2. <<>> \in Seq(Line) /\ Len(<<>>) = 0
      BY EmptySeq
    <3>3. FewerHandlers
      BY <3>1, HandlersLess DEF OneInv
    <3> QED
      BY <3>1, <3>2, <3>3, RowsCease DEF OneInv, FramesTyped
  <2>3. ASSUME NEW h \in DOMAIN handlers, HandlerFails(h) PROVE OneInv'
    BY <2>3, HandlerEnds
  <2> QED
    BY <1>7, <2>1, <2>2, <2>3 DEF Fault
<1>8. CASE UNCHANGED incidentsVars
  BY <1>2, <1>8 DEF incidentsVars, logship
<1> QED
  BY <1>3, <1>4, <1>5, <1>6, <1>7, <1>8 DEF IncidentsNext

\* However many frames of a failure are in flight and handled at once: of two active rows
\* of its fingerprint a user brought one back, or the handler that inserted the newer one
\* had looked before the older one was there (upsertIncident).
THEOREM OneIncidentPerFailure == IncidentsSpec => []OneActive
<1>1. IncidentsInit => OneInv
  BY OneInvInit
<1>2. OneInv /\ [IncidentsNext]_incidentsVars => OneInv'
  BY OneInvStep
<1>3. OneInv => OneActive
  BY DEF OneInv
<1> QED
  BY <1>1, <1>2, <1>3, PTL DEF IncidentsSpec

-----------------------------------------------------------------------------
(***************************************************************************)
(* The types of Incidents: of the stream and the sender, of the frames in  *)
(* whatever number, and of the agent's own log, whose batch holds numbers  *)
(* of lines that were written.                                             *)
(***************************************************************************)
Reads == [pc : {"none", "history", "ship", "attach", "follow", "ended"}, lines : Seq(Line)]

TailTyped ==
  /\ tail \in Reads /\ (tail.pc \notin {"ship", "follow"} => tail.lines = <<>>)
  /\ (runtime = "docker" => tail.pc \in {"none", "follow", "ended"})
LogTyped ==
  /\ app \in {"absent", "runs", "fails", "down"}
  /\ log \in Seq(Line) /\ Len(log) <= History
  /\ same \in BOOLEAN /\ pulled \in BOOLEAN
SenderTyped ==
  /\ burst \subseteq Line /\ (burst # {} => "error" \in burst)
  /\ quiet \in BOOLEAN /\ connected \in BOOLEAN
StreamTyped == runtime \in Runtime /\ TailTyped /\ LogTyped /\ SenderTyped

QueuesTyped ==
  /\ incidents \in Seq(Row) /\ handlers \in Seq(Handler) /\ net \in Seq(Line)
  /\ Len(net) + Len(handlers) <= MaxFrames
  /\ \A h \in DOMAIN handlers :
       handlers[h].row <= Len(incidents) /\ handlers[h].seen <= Len(incidents)

NumbersTyped ==
  /\ own.written <= MaxOwn /\ own.sent \subseteq 1..own.written
  /\ \A i \in 1..Len(own.batch) : own.batch[i] \in 1..own.written

Counted == events \in 0..MaxEvents /\ faults \in 0..MaxFaults

\* The inductive invariant of the types, with that of the agent's own log.
TypesInv == StreamTyped /\ QueuesTyped /\ OwnInv /\ NumbersTyped /\ Counted

\* What LastOf leaves of the log is a log.
LEMMA LastOfLog ==
  ASSUME NEW s \in Seq(Line)
  PROVE  LastOf(s, History) \in Seq(Line) /\ Len(LastOf(s, History)) <= History
<1>1. History \in Nat
  BY LogShipAssumption
<1>2. /\ LastOf(s, History) \in Seq(Line)
      /\ Len(LastOf(s, History)) = IF Len(s) <= History THEN Len(s) ELSE History
  BY <1>1, LastOfIs
<1> QED
  BY <1>1, <1>2, LenProperties

\* The goroutine reads on: what it has in hand, and what the backend allows.
LEMMA ReadsOnTyped ==
  ASSUME NEW pc \in {"none", "history", "ship", "attach", "follow", "ended"},
         NEW lines \in Seq(Line), ReadsOn(pc, lines), UNCHANGED runtime,
         pc \notin {"ship", "follow"} => lines = <<>>,
         runtime = "docker" => pc \in {"none", "follow", "ended"}
  PROVE  TailTyped'
<1>1. tail' = [pc |-> pc, lines |-> lines]
  BY DEF ReadsOn
<1>2. tail' \in Reads /\ tail'.pc = pc /\ tail'.lines = lines
  BY <1>1 DEF Reads
<1> QED
  BY <1>2 DEF TailTyped

LEMMA PrintsTyped ==
  ASSUME StreamTyped, NEW line \in Line, Prints(line),
         app' \in {"absent", "runs", "fails", "down"}
  PROVE  StreamTyped'
<1>1. /\ log \in Seq(Line) /\ tail \in Reads /\ tail.lines \in Seq(Line)
  BY DEF StreamTyped, LogTyped, TailTyped, Reads
<1>2. log' \in Seq(Line) /\ Len(log') <= History
  <2>1. Append(log, line) \in Seq(Line)
    BY <1>1, AppendProperties
  <2> QED
    BY <2>1, LastOfLog DEF Prints
<1>3. TailTyped'
  <2>1. CASE tail.pc = "follow"
    <3>1. Append(tail.lines, line) \in Seq(Line)
      BY <1>1, AppendProperties
    <3>2. tail' = [tail EXCEPT !.lines = Append(tail.lines, line)] /\ runtime' = runtime
      BY <2>1 DEF Prints
    <3>3. tail' \in Reads /\ tail'.pc = "follow"
      BY <1>1, <2>1, <3>1, <3>2 DEF Reads
    <3> QED
      BY <3>2, <3>3 DEF TailTyped
  <2>2. CASE tail.pc # "follow"
    BY <2>2 DEF Prints, StreamTyped, TailTyped
  <2> QED
    BY <2>1, <2>2
<1>4. same' \in BOOLEAN
  BY DEF Prints
<1> QED
  BY <1>2, <1>3, <1>4 DEF StreamTyped, LogTyped, SenderTyped, Prints, sender

\* Only the goroutine, the mark of what was shipped and the burst change.
LEMMA ReadingTyped ==
  ASSUME StreamTyped, TailTyped', UNCHANGED <<runtime, app, log>>,
         same' \in BOOLEAN, pulled' \in BOOLEAN, SenderTyped'
  PROVE  StreamTyped'
BY DEF StreamTyped, LogTyped

LEMMA CollectTyped ==
  ASSUME SenderTyped, NEW line \in Line, Collect(line), UNCHANGED <<quiet, connected>>
  PROVE  SenderTyped'
BY DEF SenderTyped, Collect

LEMMA StreamInit ==
  ASSUME ShipInit
  PROVE  StreamTyped
<1>1. /\ log = <<>> /\ tail = [pc |-> "none", lines |-> <<>>]
  BY DEF ShipInit
<1>2. <<>> \in Seq(Line) /\ Len(<<>>) = 0 /\ 0 <= History
  BY LogShipAssumption, EmptySeq
<1>3. TailTyped
  BY <1>1, <1>2 DEF TailTyped, Reads
<1> QED
  BY <1>1, <1>2, <1>3 DEF ShipInit, StreamTyped, LogTyped, SenderTyped

LEMMA ShipStepTyped ==
  ASSUME StreamTyped, ShipStep
  PROVE  StreamTyped'
<1>1. /\ runtime \in {"docker", "kubernetes"} /\ TailTyped /\ LogTyped /\ SenderTyped
      /\ log \in Seq(Line) /\ tail \in Reads /\ tail.lines \in Seq(Line)
      /\ <<>> \in Seq(Line)
  BY LogShipAssumption, EmptySeq DEF StreamTyped, TailTyped, LogTyped, Reads
<1>2. CASE Hello
  <2>1. /\ UNCHANGED <<runtime, app, log, same, pulled, burst, quiet>> /\ connected' = TRUE
    BY <1>2 DEF Hello, sender
  <2>2. TailTyped'
    <3>1. CASE tail.pc # "none"
      BY <1>1, <1>2, <2>1, <3>1 DEF Hello, TailTyped
    <3>2. CASE tail.pc = "none" /\ runtime = "kubernetes"
      <4>1. CASE app = "absent"
        <5>1. ReadsOn("none", <<>>)
          BY <1>2, <3>2, <4>1 DEF Hello
        <5> QED
          BY <1>1, <2>1, <5>1, ReadsOnTyped
      <4>2. CASE app # "absent"
        <5>1. ReadsOn("history", <<>>)
          BY <1>2, <3>2, <4>2 DEF Hello
        <5> QED
          BY <1>1, <2>1, <3>2, <5>1, ReadsOnTyped
      <4> QED
        BY <4>1, <4>2
    <3>3. CASE tail.pc = "none" /\ runtime = "docker"
      <4>1. CASE app \in {"absent", "down"}
        <5>1. ReadsOn("ended", <<>>)
          BY <1>2, <3>3, <4>1 DEF Hello
        <5> QED
          BY <1>1, <2>1, <5>1, ReadsOnTyped
      <4>2. CASE app \notin {"absent", "down"}
        <5>1. ReadsOn("follow", log)
          BY <1>2, <3>3, <4>2 DEF Hello
        <5> QED
          BY <1>1, <2>1, <5>1, ReadsOnTyped
      <4> QED
        BY <4>1, <4>2
    <3> QED
      BY <1>1, <3>1, <3>2, <3>3
  <2>3. SenderTyped'
    BY <1>1, <2>1 DEF SenderTyped
  <2> QED
    BY <1>1, <2>1, <2>2, <2>3, ReadingTyped DEF LogTyped
<1>3. CASE PullHistory
  <2>1. /\ UNCHANGED <<runtime, app, log, burst, quiet, connected>> /\ runtime = "kubernetes"
        /\ pulled' \in BOOLEAN
    BY <1>3 DEF PullHistory, sender
  <2>2. TailTyped' /\ same' \in BOOLEAN
    <3>1. CASE log # <<>> /\ ~same
      <4>1. ReadsOn("ship", log) /\ same' = TRUE
        BY <1>3, <3>1 DEF PullHistory
      <4> QED
        BY <1>1, <2>1, <4>1, ReadsOnTyped
    <3>2. CASE ~ (log # <<>> /\ ~same)
      <4>1. ReadsOn("attach", <<>>) /\ same' = same
        BY <1>3, <3>2 DEF PullHistory
      <4> QED
        BY <1>1, <2>1, <4>1, ReadsOnTyped DEF LogTyped
    <3> QED
      BY <3>1, <3>2
  <2>3. SenderTyped'
    BY <1>1, <2>1 DEF SenderTyped
  <2> QED
    BY <2>1, <2>2, <2>3, ReadingTyped
<1>4. CASE ShipLine
  <2>1. /\ UNCHANGED <<runtime, app, log, same, pulled, quiet, connected>>
        /\ runtime = "kubernetes"
    BY <1>1, <1>4 DEF ShipLine, TailTyped
  <2>2. TailTyped' /\ SenderTyped'
    <3>1. CASE tail.lines = <<>>
      <4>1. ReadsOn("attach", <<>>) /\ burst' = burst
        BY <1>4, <3>1 DEF ShipLine
      <4>2. SenderTyped'
        BY <1>1, <2>1, <4>1 DEF SenderTyped
      <4> QED
        BY <1>1, <2>1, <4>1, <4>2, ReadsOnTyped
    <3>2. CASE tail.lines # <<>>
      <4>1. ReadsOn("ship", Tail(tail.lines)) /\ Collect(Head(tail.lines))
        BY <1>4, <3>2 DEF ShipLine
      <4>2. Head(tail.lines) \in Line /\ Tail(tail.lines) \in Seq(Line)
        BY <1>1, <3>2, HeadTailProperties
      <4>3. SenderTyped'
        BY <1>1, <2>1, <4>1, <4>2, CollectTyped
      <4> QED
        BY <2>1, <4>1, <4>2, <4>3, ReadsOnTyped
    <3> QED
      BY <3>1, <3>2
  <2> QED
    BY <1>1, <2>1, <2>2, ReadingTyped DEF LogTyped
<1>5. CASE Follow
  <2>1. /\ UNCHANGED <<runtime, app, log, same, pulled, burst, quiet, connected>>
    BY <1>5 DEF Follow, sender
  <2>2. PICK n \in 0..Len(log) : ReadsOn("follow", LastOf(log, n))
    BY <1>5 DEF Follow
  <2>3. n \in Nat /\ LastOf(log, n) \in Seq(Line)
    BY <1>1, <2>2, LastOfIs, LenProperties
  <2>4. TailTyped'
    BY <2>1, <2>2, <2>3, ReadsOnTyped
  <2>5. SenderTyped'
    BY <1>1, <2>1 DEF SenderTyped
  <2> QED
    BY <1>1, <2>1, <2>4, <2>5, ReadingTyped DEF LogTyped
<1>6. CASE FollowLine
  <2>1. /\ UNCHANGED <<runtime, app, log, same, pulled, quiet, connected>>
        /\ tail.lines # <<>> /\ Collect(Head(tail.lines))
    BY <1>6 DEF FollowLine
  <2>2. Head(tail.lines) \in Line /\ Tail(tail.lines) \in Seq(Line)
    BY <1>1, <2>1, HeadTailProperties
  <2>3. TailTyped'
    <3>1. CASE ReadsOn("ended", <<>>)
      BY <1>1, <2>1, <3>1, ReadsOnTyped
    <3>2. CASE ReadsOn("follow", Tail(tail.lines))
      BY <2>1, <2>2, <3>2, ReadsOnTyped
    <3> QED
      BY <1>6, <3>1, <3>2 DEF FollowLine
  <2>4. SenderTyped'
    BY <1>1, <2>1, <2>2, CollectTyped
  <2> QED
    BY <1>1, <2>1, <2>3, <2>4, ReadingTyped DEF LogTyped
<1>7. CASE FollowEnds
  <2>1. /\ UNCHANGED <<runtime, app, log, same, pulled, burst, quiet, connected>>
        /\ ReadsOn(AfterFollow, <<>>)
    BY <1>7 DEF FollowEnds, sender
  <2>2. TailTyped'
    BY <1>1, <2>1, ReadsOnTyped DEF AfterFollow
  <2>3. SenderTyped'
    BY <1>1, <2>1 DEF SenderTyped
  <2> QED
    BY <1>1, <2>1, <2>2, <2>3, ReadingTyped DEF LogTyped
<1>8. CASE QuietEnds
  BY <1>8 DEF QuietEnds, StreamTyped, TailTyped, LogTyped, SenderTyped, stream
<1> QED
  BY <1>2, <1>3, <1>4, <1>5, <1>6, <1>7, <1>8 DEF ShipStep

LEMMA AppStepTyped ==
  ASSUME StreamTyped, AppStep
  PROVE  StreamTyped'
<1>1. CASE PrintsError \/ PrintsCause
  BY <1>1, PrintsTyped DEF PrintsError, PrintsCause, Line
<1>2. CASE Ends
  BY <1>2 DEF Ends, StreamTyped, TailTyped, LogTyped, SenderTyped, sender
<1>3. CASE Starts
  <2>1. <<>> \in Seq(Line) /\ Len(<<>>) <= History
    BY LogShipAssumption, EmptySeq
  <2>2. log' \in Seq(Line) /\ Len(log') <= History /\ same' \in BOOLEAN
    BY <1>3, <2>1 DEF Starts, StreamTyped, LogTyped
  <2> QED
    BY <1>3, <2>2 DEF Starts, StreamTyped, TailTyped, LogTyped, SenderTyped, sender
<1> QED
  BY <1>1, <1>2, <1>3 DEF AppStep

LEMMA ShipFaultTyped ==
  ASSUME StreamTyped, ShipFault
  PROVE  StreamTyped'
<1>1. /\ runtime \in {"docker", "kubernetes"} /\ TailTyped /\ LogTyped /\ SenderTyped
      /\ <<>> \in Seq(Line)
  BY LogShipAssumption, EmptySeq DEF StreamTyped
<1>2. CASE StreamFails
  <2>1. UNCHANGED <<runtime, app, log, same, pulled, burst, quiet, connected>>
    BY <1>2 DEF StreamFails, sender
  <2>2. TailTyped'
    <3>1. CASE tail.pc = "history"
      <4>1. ReadsOn("attach", <<>>) /\ runtime # "docker"
        BY <1>1, <1>2, <3>1 DEF StreamFails, TailTyped
      <4> QED
        BY <1>1, <2>1, <4>1, ReadsOnTyped
    <3>2. CASE tail.pc \in {"attach", "follow"}
      <4>1. ReadsOn(AfterFollow, <<>>)
        BY <1>2, <3>2 DEF StreamFails
      <4> QED
        BY <1>1, <2>1, <4>1, ReadsOnTyped DEF AfterFollow
    <3> QED
      BY <1>2, <3>1, <3>2 DEF StreamFails
  <2>3. SenderTyped'
    BY <1>1, <2>1 DEF SenderTyped
  <2> QED
    BY <1>1, <2>1, <2>2, <2>3, ReadingTyped DEF LogTyped
<1>3. CASE Break
  BY <1>3 DEF Break, StreamTyped, TailTyped, LogTyped, SenderTyped, stream, sender
<1>4. CASE AgentRestart
  <2>1. /\ UNCHANGED <<runtime, app, log, pulled>> /\ ReadsOn("none", <<>>)
        /\ same' = FALSE /\ SenderTyped'
    BY <1>4 DEF AgentRestart, SenderTyped
  <2>2. TailTyped'
    BY <1>1, <2>1, ReadsOnTyped
  <2> QED
    BY <1>1, <2>1, <2>2, ReadingTyped DEF LogTyped
<1> QED
  BY <1>2, <1>3, <1>4 DEF ShipFault

LEMMA StreamTypedStep ==
  ASSUME StreamTyped, [IncidentsNext]_incidentsVars
  PROVE  StreamTyped'
<1>1. ASSUME UNCHANGED <<runtime, app, stream, sender, connected>> PROVE StreamTyped'
  BY <1>1 DEF StreamTyped, TailTyped, LogTyped, SenderTyped, stream, sender
<1>2. CASE Agent
  <2>1. CASE Flush(InFlight)
    BY <2>1 DEF Flush, StreamTyped, TailTyped, LogTyped, SenderTyped, stream
  <2>2. CASE OwnStep \/ Write
    BY <1>1, <2>2 DEF OwnStep, DetachBatch, SendAgentLog, Write
  <2> QED
    BY <1>2, <2>1, <2>2, ShipStepTyped, AppStepTyped DEF Agent
<1>3. CASE Handle \/ ResolveStaleIncidents
  BY <1>1, <1>3 DEF Handle, Receive, Select, UpdateOrInsert, ResolveStaleIncidents, logship
<1>4. ASSUME NEW n \in DOMAIN incidents,
             GetsOld(n) \/ Delete(n) \/ \E s \in Status : UpdateStatus(n, s)
      PROVE  StreamTyped'
  BY <1>1, <1>4 DEF GetsOld, Delete, UpdateStatus, Edited, logship
<1>5. CASE Fault
  <2>1. CASE ApiRestart
    BY <2>1 DEF ApiRestart, StreamTyped, TailTyped, LogTyped, SenderTyped, stream, sender
  <2>2. ASSUME NEW h \in DOMAIN handlers, HandlerFails(h) PROVE StreamTyped'
    BY <1>1, <2>2 DEF HandlerFails, logship
  <2> QED
    BY <1>5, <2>1, <2>2, ShipFaultTyped DEF Fault
<1>6. CASE UNCHANGED incidentsVars
  BY <1>1, <1>6 DEF incidentsVars, logship
<1> QED
  BY <1>2, <1>3, <1>4, <1>5, <1>6 DEF IncidentsNext

-----------------------------------------------------------------------------
\* Rows change one at a time or all, and none goes away.
LEMMA RowsStayTyped ==
  ASSUME QueuesTyped, incidents' \in Seq(Row), Len(incidents) <= Len(incidents'),
         handlers' = handlers \/ handlers' = <<>>, net' \in Seq(Line), Len(net') <= Len(net)
  PROVE  QueuesTyped'
<1>1. /\ Len(net') \in Nat /\ Len(net) \in Nat /\ Len(handlers) \in Nat /\ MaxFrames \in Nat
      /\ Len(incidents) \in Nat /\ Len(incidents') \in Nat
      /\ handlers \in Seq(Handler) /\ DOMAIN handlers = 1..Len(handlers)
      /\ Len(net) + Len(handlers) <= MaxFrames
  BY LenProperties, LogShipAssumption DEF QueuesTyped
<1>2. \A h \in DOMAIN handlers : /\ handlers[h].row \in Nat /\ handlers[h].row <= Len(incidents)
                               /\ handlers[h].seen \in Nat /\ handlers[h].seen <= Len(incidents)
  <2>1. \A h \in DOMAIN handlers : handlers[h] \in Handler
    BY <1>1, ElementOfSeq
  <2> QED
    BY <2>1 DEF QueuesTyped, Handler
<1>3. CASE handlers' = handlers
  BY <1>1, <1>2, <1>3 DEF QueuesTyped
<1>4. CASE handlers' = <<>>
  <2>1. <<>> \in Seq(Handler) /\ Len(<<>>) = 0 /\ DOMAIN <<>> = {}
    BY EmptySeq
  <2> QED
    BY <1>1, <1>4, <2>1 DEF QueuesTyped
<1> QED
  BY <1>3, <1>4

LEMMA RowTyped ==
  ASSUME QueuesTyped, NEW n \in DOMAIN incidents, NEW row \in Row,
         incidents' = [incidents EXCEPT ![n] = row], UNCHANGED <<handlers, net>>
  PROVE  QueuesTyped'
<1>1. incidents \in Seq(Row) /\ DOMAIN incidents = 1..Len(incidents) /\ net \in Seq(Line)
      /\ Len(incidents) \in Nat /\ Len(net) \in Nat
  BY LenProperties DEF QueuesTyped
<1>2. incidents' \in Seq(Row) /\ Len(incidents') = Len(incidents)
  BY <1>1, ExceptSeq
<1> QED
  BY <1>1, <1>2, RowsStayTyped

LEMMA FlushTyped ==
  ASSUME QueuesTyped, Flush(InFlight), UNCHANGED <<incidents, handlers>>
  PROVE  QueuesTyped'
<1>1. /\ net \in Seq(Line) /\ Len(net) \in Nat /\ Len(handlers) \in Nat /\ MaxFrames \in Nat
      /\ Len(net) + Len(handlers) < MaxFrames
  BY LenProperties, LogShipAssumption DEF QueuesTyped, Flush, InFlight
<1>2. Fingerprint(burst) \in Line
  BY DEF Fingerprint, Line
<1>3. net' \in Seq(Line) /\ Len(net') + Len(handlers) <= MaxFrames
  BY <1>1, <1>2, AppendProperties DEF Flush
<1> QED
  BY <1>3 DEF QueuesTyped

LEMMA BreakTyped ==
  ASSUME QueuesTyped, Break, UNCHANGED <<incidents, handlers>>
  PROVE  QueuesTyped'
<1>1. PICK n \in 0..Len(net) : net' = SubSeq(net, 1, n)
  BY DEF Break
<1>2. /\ Len(net) \in Nat /\ Len(incidents) \in Nat /\ incidents \in Seq(Row)
      /\ \A i \in 1..n : net[i] \in Line
  BY LenProperties, ElementOfSeq DEF QueuesTyped
<1>3. net' \in Seq(Line) /\ Len(net') = IF 1 <= n THEN n - 1 + 1 ELSE 0
  BY <1>1, <1>2, SubSeqProperties
<1>4. Len(net') <= Len(net)
  BY <1>2, <1>3
<1> QED
  BY <1>2, <1>3, <1>4, RowsStayTyped

LEMMA ReceiveTyped ==
  ASSUME QueuesTyped, Receive
  PROVE  QueuesTyped'
<1> DEFINE job == [fp |-> Head(net), pc |-> "select", row |-> 0, seen |-> 0]
<1>1. /\ net \in Seq(Line) /\ net # <<>> /\ Len(net) \in Nat /\ Len(handlers) \in Nat
      /\ handlers \in Seq(Handler) /\ DOMAIN handlers = 1..Len(handlers)
      /\ incidents \in Seq(Row) /\ Len(incidents) \in Nat /\ MaxFrames \in Nat
      /\ Len(net) + Len(handlers) <= MaxFrames
  BY LenProperties, LogShipAssumption DEF QueuesTyped, Receive
<1>2. Head(net) \in Line /\ Tail(net) \in Seq(Line) /\ Len(Tail(net)) = Len(net) - 1
  BY <1>1, HeadTailProperties
<1>3. job \in Handler /\ job.row = 0 /\ job.seen = 0
  BY <1>2 DEF Handler
<1>4. handlers' = Append(handlers, job) /\ net' = Tail(net) /\ incidents' = incidents
  BY DEF Receive
<1> HIDE DEF job
<1>5. /\ handlers' \in Seq(Handler) /\ Len(handlers') = Len(handlers) + 1
      /\ DOMAIN handlers' = 1..(Len(handlers) + 1) /\ handlers'[Len(handlers) + 1] = job
      /\ \A h \in 1..Len(handlers) : handlers'[h] = handlers[h]
  BY <1>1, <1>3, <1>4, AppendProperties, LenProperties
<1>6. ASSUME NEW h \in DOMAIN handlers'
      PROVE  handlers'[h].row <= Len(incidents) /\ handlers'[h].seen <= Len(incidents)
  <2>1. CASE h \in 1..Len(handlers)
    BY <1>1, <1>5, <2>1 DEF QueuesTyped
  <2>2. CASE h = Len(handlers) + 1
    BY <1>1, <1>3, <1>5, <2>2
  <2> QED
    BY <1>1, <1>5, <2>1, <2>2
<1>7. Len(net') + Len(handlers') <= MaxFrames
  BY <1>1, <1>2, <1>4, <1>5
<1> QED
  BY <1>1, <1>2, <1>4, <1>5, <1>6, <1>7 DEF QueuesTyped

LEMMA SelectTyped ==
  ASSUME QueuesTyped, NEW h \in DOMAIN handlers, Select(h)
  PROVE  QueuesTyped'
<1>1. PICK row \in IF Existing(handlers[h].fp) = {} THEN {0} ELSE Existing(handlers[h].fp) :
        handlers' = [handlers EXCEPT ![h].pc = "write", ![h].row = row,
                                     ![h].seen = IF row = 0 THEN Len(incidents) ELSE 0]
  BY DEF Select
<1>2. /\ handlers \in Seq(Handler) /\ incidents \in Seq(Row) /\ Len(incidents) \in Nat
      /\ DOMAIN incidents = 1..Len(incidents) /\ DOMAIN handlers = 1..Len(handlers)
  BY LenProperties DEF QueuesTyped
<1>3. handlers[h] \in Handler
  BY <1>2, ElementOfSeq
<1>4. row \in Nat /\ row <= Len(incidents)
  BY <1>2 DEF Existing
<1>9. PICK seen \in Nat : seen = (IF row = 0 THEN Len(incidents) ELSE 0) /\ seen <= Len(incidents)
  <2>1. (IF row = 0 THEN Len(incidents) ELSE 0) \in Nat
        /\ (IF row = 0 THEN Len(incidents) ELSE 0) <= Len(incidents)
    BY <1>2
  <2> QED
    BY <2>1
<1> DEFINE job == [handlers[h] EXCEPT !.pc = "write", !.row = row, !.seen = seen]
<1>5. job \in Handler /\ job.row = row /\ job.seen = seen
  BY <1>3, <1>4 DEF Handler
<1>6. handlers' = [handlers EXCEPT ![h] = job]
  BY <1>1, <1>9
<1> HIDE DEF job
<1>7. /\ handlers' \in Seq(Handler) /\ Len(handlers') = Len(handlers)
      /\ DOMAIN handlers' = DOMAIN handlers
      /\ \A g \in DOMAIN handlers : handlers'[g] = IF g = h THEN job ELSE handlers[g]
  BY <1>2, <1>5, <1>6, ExceptSeq, LenProperties
<1>8. \A g \in DOMAIN handlers :
        handlers'[g].row <= Len(incidents) /\ handlers'[g].seen <= Len(incidents)
  BY <1>4, <1>5, <1>7, <1>9 DEF QueuesTyped
<1> QED
  BY <1>7, <1>8 DEF QueuesTyped, Select, logship

\* A handler that ends leaves the others as they were.
LEMMA EndedTyped ==
  ASSUME QueuesTyped, NEW h \in DOMAIN handlers, handlers' = RemoveAt(handlers, h),
         incidents' \in Seq(Row), Len(incidents) <= Len(incidents'), net' = net
  PROVE  QueuesTyped'
<1>1. /\ handlers \in Seq(Handler) /\ DOMAIN handlers = 1..Len(handlers)
      /\ Len(handlers) \in Nat /\ Len(net) \in Nat /\ MaxFrames \in Nat
      /\ Len(incidents) \in Nat /\ Len(incidents') \in Nat
      /\ Len(net) + Len(handlers) <= MaxFrames
  BY LenProperties, LogShipAssumption DEF QueuesTyped
<1>2. /\ handlers' \in Seq(Handler) /\ Len(handlers') = Len(handlers) - 1
      /\ DOMAIN handlers' = 1..(Len(handlers) - 1)
      /\ \A k \in 1..(Len(handlers) - 1) : handlers'[k] = handlers[IF k < h THEN k ELSE k + 1]
  BY <1>1, RemoveAtIs, LenProperties
<1>3. ASSUME NEW k \in DOMAIN handlers'
      PROVE  handlers'[k].row <= Len(incidents') /\ handlers'[k].seen <= Len(incidents')
  <2>1. PICK g \in DOMAIN handlers : handlers'[k] = handlers[g]
    <3>1. (IF k < h THEN k ELSE k + 1) \in DOMAIN handlers
      BY <1>1, <1>2
    <3> QED
      BY <1>2, <3>1
  <2>2. handlers[g] \in Handler
    BY <1>1, ElementOfSeq
  <2>3. /\ handlers[g].row \in Nat /\ handlers[g].row <= Len(incidents)
        /\ handlers[g].seen \in Nat /\ handlers[g].seen <= Len(incidents)
    BY <2>2 DEF QueuesTyped, Handler
  <2> QED
    BY <1>1, <2>1, <2>3
<1>4. Len(net') + Len(handlers') <= MaxFrames
  BY <1>1, <1>2
<1> QED
  BY <1>2, <1>3, <1>4 DEF QueuesTyped

LEMMA UpdateOrInsertTyped ==
  ASSUME QueuesTyped, NEW h \in DOMAIN handlers, UpdateOrInsert(h)
  PROVE  QueuesTyped'
<1> DEFINE row == handlers[h].row
<1>1. /\ handlers \in Seq(Handler) /\ incidents \in Seq(Row) /\ Len(incidents) \in Nat
      /\ DOMAIN incidents = 1..Len(incidents) /\ DOMAIN handlers = 1..Len(handlers)
      /\ row <= Len(incidents)
  BY LenProperties DEF QueuesTyped
<1>2. handlers[h] \in Handler
  BY <1>1, ElementOfSeq
<1>3. row \in Nat /\ handlers[h].fp \in Line
  BY <1>2 DEF Handler
<1>4. incidents' \in Seq(Row) /\ Len(incidents) <= Len(incidents')
  <2>1. CASE row = 0
    <3>1. NewIncident(handlers[h].fp, Met(h)) \in Row
      <4>1. Met(h) \in BOOLEAN
        BY DEF Met
      <4> QED
        BY <1>3, <4>1 DEF Row, NewIncident, Status
    <3>2. incidents' = Append(incidents, NewIncident(handlers[h].fp, Met(h)))
      BY <2>1 DEF UpdateOrInsert
    <3> QED
      BY <1>1, <3>1, <3>2, AppendProperties
  <2>2. CASE row # 0 /\ incidents[row].status = "deleted"
    BY <1>1, <2>2 DEF UpdateOrInsert
  <2>3. CASE row # 0 /\ incidents[row].status # "deleted"
    <3> DEFINE new == [incidents[row] EXCEPT !.stale = FALSE]
    <3>1. row \in 1..Len(incidents)
      BY <1>1, <1>3, <2>3
    <3>2. incidents[row] \in Row
      BY <1>1, <3>1, ElementOfSeq
    <3>3. incidents' = [incidents EXCEPT ![row] = new]
      BY <2>3 DEF UpdateOrInsert, Bump
    <3>4. new \in Row
      BY <3>2 DEF Row
    <3> HIDE DEF new, row
    <3> QED
      BY <1>1, <3>1, <3>3, <3>4, ExceptSeq
  <2> QED
    BY <2>1, <2>2, <2>3
<1> QED
  BY <1>4, EndedTyped DEF UpdateOrInsert, logship

LEMMA SweepTyped ==
  ASSUME QueuesTyped, ResolveStaleIncidents
  PROVE  QueuesTyped'
<1>1. /\ incidents \in Seq(Row) /\ DOMAIN incidents = 1..Len(incidents) /\ Len(incidents) \in Nat
      /\ net \in Seq(Line) /\ Len(net) \in Nat
  BY LenProperties DEF QueuesTyped
<1>2. /\ DOMAIN incidents' = DOMAIN incidents /\ UNCHANGED <<handlers, net>>
      /\ \A n \in DOMAIN incidents :
           incidents'[n] = IF Swept(incidents[n])
                           THEN [incidents[n] EXCEPT !.status = "resolved"] ELSE incidents[n]
      /\ incidents' = [n \in 1..Len(incidents) |-> incidents'[n]]
  BY <1>1 DEF ResolveStaleIncidents, logship
<1>3. \A n \in 1..Len(incidents) : incidents'[n] \in Row
  <2> TAKE n \in 1..Len(incidents)
  <2>1. incidents[n] \in Row
    BY <1>1, ElementOfSeq
  <2>2. [incidents[n] EXCEPT !.status = "resolved"] \in Row
    BY <2>1 DEF Row, Status
  <2> QED
    BY <1>1, <1>2, <2>1, <2>2
<1>4. incidents' \in Seq(Row)
  BY <1>1, <1>2, <1>3, IsASeq
<1>5. Len(incidents') = Len(incidents)
  BY <1>1, <1>2, <1>4, LenProperties
<1> QED
  BY <1>1, <1>2, <1>4, <1>5, RowsStayTyped

LEMMA EditTyped ==
  ASSUME QueuesTyped, NEW n \in DOMAIN incidents,
         GetsOld(n) \/ Delete(n) \/ \E s \in Status : UpdateStatus(n, s)
  PROVE  QueuesTyped'
<1>1. incidents \in Seq(Row) /\ DOMAIN incidents = 1..Len(incidents)
  BY LenProperties DEF QueuesTyped
<1>2. incidents[n] \in Row
  BY <1>1, ElementOfSeq
<1>3. UNCHANGED <<handlers, net>>
  BY DEF GetsOld, Delete, UpdateStatus, Edited, logship
<1>4. PICK row \in Row : incidents' = [incidents EXCEPT ![n] = row]
  <2>1. CASE GetsOld(n)
    <3>1. [incidents[n] EXCEPT !.stale = TRUE] \in Row
      BY <1>2 DEF Row
    <3> QED
      BY <2>1, <3>1 DEF GetsOld
  <2>2. CASE Delete(n)
    <3>1. [incidents[n] EXCEPT !.status = "deleted"] \in Row
      BY <1>2 DEF Row
    <3> QED
      BY <2>2, <3>1 DEF Delete
  <2>3. ASSUME NEW s \in Status, UpdateStatus(n, s)
        PROVE  \E row \in Row : incidents' = [incidents EXCEPT ![n] = row]
    <3> DEFINE back == incidents[n].reopened \/ (s \in Active /\ incidents[n].status \notin Active)
               new == [incidents[n] EXCEPT !.status = s, !.reopened = back]
    <3>1. incidents' = [incidents EXCEPT ![n] = new]
      BY <1>1, <1>2, <2>3 DEF UpdateStatus, Row
    <3>2. back \in BOOLEAN
      BY <1>2 DEF Row
    <3>3. new \in Row
      <4> HIDE DEF back
      <4> QED
        BY <1>2, <3>2 DEF Row
    <3> QED
      BY <3>1, <3>3
  <2> QED
    BY <2>1, <2>2, <2>3
<1> QED
  BY <1>3, <1>4, RowTyped

LEMMA QueuesTypedStep ==
  ASSUME QueuesTyped, [IncidentsNext]_incidentsVars
  PROVE  QueuesTyped'
<1>1. ASSUME UNCHANGED <<incidents, handlers, net>> PROVE QueuesTyped'
  BY <1>1 DEF QueuesTyped
<1>2. CASE Agent /\ Apart
  <2>1. CASE Flush(InFlight)
    BY <1>2, <2>1, FlushTyped DEF Apart, platform
  <2>2. CASE ~ Flush(InFlight)
    <3>1. net' = net
      BY <1>2, <2>2 DEF Agent, ShipStep, Hello, PullHistory, ShipLine, Follow, FollowLine,
         FollowEnds, QuietEnds, OwnStep, DetachBatch, SendAgentLog, AppStep, PrintsError,
         PrintsCause, Prints, Ends, Starts, Write
    <3> QED
      BY <1>1, <1>2, <3>1 DEF Apart, platform
  <2> QED
    BY <2>1, <2>2
<1>3. CASE Handle
  BY <1>3, ReceiveTyped, SelectTyped, UpdateOrInsertTyped DEF Handle
<1>4. CASE ResolveStaleIncidents
  BY <1>4, SweepTyped
<1>5. ASSUME NEW n \in DOMAIN incidents,
             GetsOld(n) \/ Delete(n) \/ \E s \in Status : UpdateStatus(n, s)
      PROVE  QueuesTyped'
  BY <1>5, EditTyped
<1>6. CASE Fault
  <2>1. CASE ShipFault /\ UNCHANGED platform
    <3>1. UNCHANGED <<incidents, handlers>>
      BY <2>1 DEF platform
    <3>2. CASE StreamFails \/ AgentRestart
      BY <1>1, <3>1, <3>2 DEF StreamFails, AgentRestart
    <3> QED
      BY <2>1, <3>1, <3>2, BreakTyped DEF ShipFault
  <2>2. CASE ApiRestart
    <3>1. <<>> \in Seq(Line) /\ Len(<<>>) = 0 /\ Len(net) \in Nat /\ Len(incidents) \in Nat
      BY EmptySeq, LenProperties DEF QueuesTyped
    <3>2. incidents' = incidents /\ handlers' = <<>> /\ net' = <<>>
      BY <2>2 DEF ApiRestart
    <3> QED
      BY <3>1, <3>2, RowsStayTyped DEF QueuesTyped
  <2>3. ASSUME NEW h \in DOMAIN handlers, HandlerFails(h) PROVE QueuesTyped'
    <3>1. Len(incidents) \in Nat
      BY LenProperties DEF QueuesTyped
    <3> QED
      BY <2>3, <3>1, EndedTyped DEF HandlerFails, logship, QueuesTyped
  <2> QED
    BY <1>6, <2>1, <2>2, <2>3 DEF Fault
<1>7. CASE UNCHANGED incidentsVars
  BY <1>1, <1>7 DEF incidentsVars, logship
<1> QED
  BY <1>2, <1>3, <1>4, <1>5, <1>6, <1>7 DEF IncidentsNext

LEMMA NumbersTypedStep ==
  ASSUME OwnInv, NumbersTyped, [IncidentsNext]_incidentsVars
  PROVE  NumbersTyped'
<1>1. /\ own = [written |-> own.written, buf |-> own.buf, batch |-> own.batch, sent |-> own.sent]
      /\ own.written \in Nat /\ own.buf \in Seq(Nat) /\ own.batch \in Seq(Nat)
      /\ MaxOwn \in Nat /\ EndsAt(own.buf, own.written)
  BY LogShipAssumption DEF OwnInv, OwnTyped
<1>2. ASSUME UNCHANGED own PROVE NumbersTyped'
  BY <1>2 DEF NumbersTyped
<1>3. <<>> \in Seq(Nat) /\ Len(<<>>) = 0 /\ 1..0 = {}
  BY EmptySeq
<1>4. CASE Write
  <2>1. /\ own'.written = own.written + 1 /\ own'.batch = own.batch /\ own'.sent = own.sent
        /\ own.written < MaxOwn
    BY <1>1, <1>4 DEF Write
  <2>2. own.written + 1 <= MaxOwn /\ 1..own.written \subseteq 1..(own.written + 1)
    BY <1>1, <2>1
  <2> QED
    BY <2>1, <2>2 DEF NumbersTyped
<1>5. CASE DetachBatch
  <2> DEFINE n == IF Len(own.buf) > MaxBatch THEN MaxBatch ELSE Len(own.buf)
             u == SubSeq(own.buf, 1, n)
  <2>1. own'.written = own.written /\ own'.batch = u /\ own'.sent = own.sent
    BY <1>1, <1>5 DEF DetachBatch
  <2>2. Len(own.buf) \in Nat /\ MaxBatch \in Nat /\ n \in 0..Len(own.buf)
    BY <1>1, LenProperties, LogShipAssumption
  <2>3. \A i \in 1..Len(own.buf) : own.buf[i] \in 1..own.written
    BY <1>1, <2>2 DEF EndsAt
  <2> HIDE DEF n
  <2>4. \A i \in 1..n : own.buf[i] \in 1..own.written
    BY <2>2, <2>3
  <2>5. u \in Seq(1..own.written)
    BY <2>2, <2>4, SubSeqProperties
  <2> HIDE DEF u
  <2>6. \A i \in 1..Len(u) : u[i] \in 1..own.written
    BY <2>5, ElementOfSeq
  <2> QED
    BY <2>1, <2>6 DEF NumbersTyped
<1>6. CASE SendAgentLog
  <2>1. /\ own'.written = own.written /\ own'.batch = <<>>
        /\ own'.sent = own.sent \/ own'.sent = own.sent \cup ToSet(own.batch)
    BY <1>1, <1>6 DEF SendAgentLog
  <2>2. ToSet(own.batch) \subseteq 1..own.written
    BY <1>1, LenProperties DEF ToSet, NumbersTyped
  <2> QED
    BY <1>3, <2>1, <2>2 DEF NumbersTyped
<1>7. CASE AgentRestart
  <2>1. own'.written = own.written /\ own'.batch = <<>> /\ own'.sent = own.sent
    BY <1>1, <1>7 DEF AgentRestart
  <2> QED
    BY <1>3, <2>1 DEF NumbersTyped
<1>8. CASE Agent
  BY <1>2, <1>4, <1>5, <1>6, <1>8 DEF Agent, ShipStep, Hello, PullHistory, ShipLine, Follow,
     FollowLine, FollowEnds, QuietEnds, Flush, OwnStep, AppStep, PrintsError, PrintsCause, Prints,
     Ends, Starts
<1>9. CASE Handle \/ ResolveStaleIncidents
  BY <1>2, <1>9 DEF Handle, Receive, Select, UpdateOrInsert, ResolveStaleIncidents, logship
<1>10. ASSUME NEW n \in DOMAIN incidents,
              GetsOld(n) \/ Delete(n) \/ \E s \in Status : UpdateStatus(n, s)
       PROVE  NumbersTyped'
  BY <1>2, <1>10 DEF GetsOld, Delete, UpdateStatus, Edited, logship
<1>11. CASE Fault
  BY <1>2, <1>7, <1>11 DEF Fault, ShipFault, StreamFails, Break, ApiRestart, HandlerFails, logship
<1>12. CASE UNCHANGED incidentsVars
  BY <1>2, <1>12 DEF incidentsVars, logship
<1> QED
  BY <1>8, <1>9, <1>10, <1>11, <1>12 DEF IncidentsNext

LEMMA CountedStep ==
  ASSUME Counted, [IncidentsNext]_incidentsVars
  PROVE  Counted'
<1>1. MaxEvents \in Nat /\ MaxFaults \in Nat /\ events \in 0..MaxEvents /\ faults \in 0..MaxFaults
  BY IncidentsAssumption DEF Counted
<1>2. CASE (Agent /\ Apart) \/ UNCHANGED incidentsVars
  BY <1>1, <1>2 DEF Apart, platform, incidentsVars, Counted
<1>3. CASE Handle \/ ResolveStaleIncidents
  BY <1>1, <1>3 DEF Handle, Receive, Select, UpdateOrInsert, ResolveStaleIncidents, Counted
<1>4. ASSUME NEW n \in DOMAIN incidents,
             GetsOld(n) \/ Delete(n) \/ \E s \in Status : UpdateStatus(n, s)
      PROVE  Counted'
  <2>1. Edited
    BY <1>4 DEF GetsOld, Delete, UpdateStatus
  <2> QED
    BY <1>1, <2>1 DEF Edited, Counted
<1>5. CASE Fault
  <2>1. faults < MaxFaults /\ faults' = faults + 1 /\ events' = events
    BY <1>5 DEF Fault, platform, ApiRestart, HandlerFails
  <2> QED
    BY <1>1, <2>1 DEF Counted
<1> QED
  BY <1>2, <1>3, <1>4, <1>5 DEF IncidentsNext

LEMMA TypesInvInit ==
  ASSUME IncidentsInit
  PROVE  TypesInv
<1>1. /\ ShipInit /\ incidents = <<>> /\ handlers = <<>> /\ net = <<>>
      /\ events = 0 /\ faults = 0
  BY DEF IncidentsInit, ShipInit
<1>2. \A S : <<>> \in Seq(S) /\ Len(<<>>) = 0 /\ DOMAIN <<>> = {}
  BY EmptySeq
<1>3. MaxFrames \in Nat /\ MaxOwn \in Nat /\ MaxEvents \in Nat /\ MaxFaults \in Nat
  BY LogShipAssumption, IncidentsAssumption
<1>4. QueuesTyped
  BY <1>1, <1>2, <1>3 DEF QueuesTyped
<1>5. NumbersTyped
  <2>1. PICK n \in {0, MaxOwn} :
          own = [written |-> n, buf |-> <<>>, batch |-> <<>>, sent |-> 1..n]
    BY <1>1 DEF ShipInit
  <2>2. own.written = n /\ own.batch = <<>> /\ own.sent = 1..n /\ n <= MaxOwn
    BY <1>3, <2>1
  <2>3. Len(own.batch) = 0
    BY <1>2, <2>2
  <2> QED
    BY <2>2, <2>3 DEF NumbersTyped
<1> QED
  BY <1>1, <1>3, <1>4, <1>5, StreamInit, OwnInit DEF TypesInv, Counted

LEMMA TypesInvTypes ==
  ASSUME TypesInv
  PROVE  IncidentsTypeOK
<1> DEFINE Job == [fp : Line, pc : {"select", "write"}, row : 0..Len(incidents),
                  seen : 0..Len(incidents)]
<1>1. /\ handlers \in Seq(Handler) /\ incidents \in Seq(Row) /\ net \in Seq(Line)
      /\ Len(incidents) \in Nat /\ Len(handlers) \in Nat /\ Len(net) \in Nat /\ MaxFrames \in Nat
      /\ DOMAIN handlers = 1..Len(handlers)
      /\ handlers = [h \in 1..Len(handlers) |-> handlers[h]]
  BY LenProperties, LogShipAssumption DEF TypesInv, QueuesTyped
<1>2. \A h \in 1..Len(handlers) : handlers[h] \in Job
  <2> TAKE h \in 1..Len(handlers)
  <2>1. /\ handlers[h] \in Handler
        /\ handlers[h].row <= Len(incidents) /\ handlers[h].seen <= Len(incidents)
    BY <1>1, ElementOfSeq DEF TypesInv, QueuesTyped
  <2> QED
    BY <1>1, <2>1 DEF Handler
<1>3. handlers \in Seq(Job)
  <2> HIDE DEF Job
  <2> QED
    BY <1>1, <1>2, IsASeq
<1>4. Len(net) <= MaxFrames
  BY <1>1 DEF TypesInv, QueuesTyped
<1>5. tail.pc \in {"none", "history", "ship", "attach", "follow", "ended"}
      /\ tail.lines \in Seq(Line)
  BY DEF TypesInv, StreamTyped, TailTyped, Reads
<1>6. own.written \in 0..MaxOwn /\ own.sent \subseteq 1..own.written
  BY LogShipAssumption DEF TypesInv, OwnInv, OwnTyped, NumbersTyped
<1> QED
  BY <1>1, <1>3, <1>4, <1>5, <1>6 DEF TypesInv, StreamTyped, TailTyped, LogTyped, SenderTyped,
     OwnInv, OwnTyped, Counted, Row, IncidentsTypeOK

\* The log, the burst, the frames, the rows and the handlers keep their types and their
\* bounds, a burst that is open holds an error, and a handler writes to a row that exists or
\* to none, for any number of frames in flight (k8slog, logship.Sender, upsertIncident).
THEOREM IncidentsTypeCorrect == IncidentsSpec => []IncidentsTypeOK
<1>1. IncidentsInit => TypesInv
  BY TypesInvInit
<1>2. TypesInv /\ [IncidentsNext]_incidentsVars => TypesInv'
  BY StreamTypedStep, QueuesTypedStep, OwnInvStep, NumbersTypedStep, CountedStep DEF TypesInv
<1>3. TypesInv => IncidentsTypeOK
  BY TypesInvTypes
<1> QED
  BY <1>1, <1>2, <1>3, PTL DEF IncidentsSpec

-----------------------------------------------------------------------------
(***************************************************************************)
(* Accounts.  What a call in progress holds, and what a step of one does   *)
(* to the others: it goes on with a new record or ends.                    *)
(***************************************************************************)
Pc == {"admin", "config", "backfill", "role", "swap", "grant", "clear", "custom", "upsert", "join",
       "wipe", "leave", "session", "switch", "move", "delete"}

Task ==
  [pc : Pc, at : Pair \cup {AboutAll}, role : Role \cup {None},
   custom : {None, Team, "nothing", "guest"}, row : Session \cup {None}, alone : BOOLEAN,
   read : SUBSET ((Pair \X (Role \cup {None})) \cup (Session \X Tenant))]

\* What a call holds, by the step it is at; what a boot has read is still there.
CallTyped(c) ==
  /\ c.at = AboutAll <=> c.pc = "backfill"
  /\ c.pc \in {"role", "swap", "grant", "upsert", "join"} => c.role \in Role
  /\ c.pc = "admin" => c.at[1] = Default
  /\ c.pc = "switch" => c.row \in Session
  /\ c.pc = "backfill" => \A r \in c.read : r \in Pair \X (Role \cup {None}) /\ r[1][1] \in tenants

\* The sessions a deletion moves are of its tenant, and go to another one.
MoveSound(c) ==
  c.pc = "delete" =>
    \A m \in c.read : /\ m \in Session \X tenants /\ m[2] # c.at[1]
                      /\ sessions[m[1]].tenant = c.at[1]

\* No two deletions move a session.
HeldOnce ==
  \A i, j \in DOMAIN calls :
    i # j /\ calls[i].pc = "delete" /\ calls[j].pc = "delete" =>
      \A m \in calls[i].read, n \in calls[j].read : m[1] # n[1]

Opened == [user : User, tenant : tenants, guest : BOOLEAN]

RowsTyped ==
  /\ setup \in BOOLEAN /\ tenants \subseteq Tenant /\ seeded \subseteq tenants /\ teams \subseteq tenants
  /\ member \in [Pair -> Role \cup {None}] /\ \A p \in Pair : member[p] # None => p[1] \in tenants
  /\ groups \subseteq Pair \X (Role \cup {Team})
  /\ \A r \in groups : r[1][1] \in IF r[2] = Team THEN teams ELSE seeded
  /\ sessions \in [Session -> {NoSession} \cup Opened]
  /\ unsure \subseteq Pair /\ left \subseteq Pair
  /\ started \in 0..MaxCalls /\ failures \in 0..MaxFailures

CallsTyped ==
  /\ calls \in Seq(Task) /\ Len(calls) <= MaxActive
  /\ \A c \in ToSet(calls) : CallTyped(c) /\ MoveSound(c)

\* The types of Accounts, inductive.
AccountsTyped == RowsTyped /\ CallsTyped /\ HeldOnce

LEMMA AccountsTypedTypeOK ==
  ASSUME AccountsTyped
  PROVE  TypeOK
BY DEF AccountsTyped, RowsTyped, CallsTyped, Opened, TypeOK

LEMMA NamesApart ==
  /\ None \notin Role /\ Team \notin Role /\ AboutAll \notin Pair /\ NoSession.tenant \notin Tenant
  /\ NoSession \notin Opened
BY AccountsAssumption DEF BuiltinRole, None, Team, AboutAll, Pair, NoSession, Opened

\* The calls but the one at i.
Rest(i) == {calls[j] : j \in DOMAIN calls \ {i}}

\* A step of call i: the others stay, in their order, and it goes on as N says, or ends.
Carries(i, N) ==
  \E pos \in [DOMAIN calls' -> DOMAIN calls] :
    /\ \A k, l \in DOMAIN calls' : pos[k] = pos[l] => k = l
    /\ \A j \in DOMAIN calls \ {i} : \E k \in DOMAIN calls' : pos[k] = j
    /\ \A k \in DOMAIN calls' : IF pos[k] = i THEN calls'[k] \in N ELSE calls'[k] = calls[pos[k]]
    /\ \A c \in N : \E k \in DOMAIN calls' : calls'[k] = c

LEMMA CallAt ==
  ASSUME calls \in Seq(Task), NEW i \in DOMAIN calls
  PROVE  calls[i] \in Task /\ calls[i] \in ToSet(calls)
BY LenProperties, ElementOfSeq DEF ToSet

LEMMA RestIs ==
  ASSUME calls \in Seq(Task), NEW i \in DOMAIN calls
  PROVE  /\ ToSet(calls) = Rest(i) \cup {calls[i]} /\ Rest(i) \subseteq Task /\ ToSet(calls) \subseteq Task
<1>1. \A j \in DOMAIN calls : calls[j] \in Task
  BY CallAt
<1> QED
  BY <1>1 DEF Rest, ToSet

LEMMA EndCarries ==
  ASSUME calls \in Seq(Task), NEW i \in DOMAIN calls, End(i)
  PROVE  Carries(i, {}) /\ calls' \in Seq(Task) /\ Len(calls') <= Len(calls)
<1>1. PICK n \in Nat : n = Len(calls) /\ DOMAIN calls = 1..n
  BY LenProperties
<1>2. PICK t : t = RemoveAt(calls, i)
  OBVIOUS
<1>3. /\ t \in Seq(Task) /\ Len(t) = n - 1 /\ DOMAIN t = 1..(n - 1)
      /\ \A k \in 1..(n - 1) : t[k] = calls[IF k < i THEN k ELSE k + 1]
  <2>1. /\ t \in Seq(Task) /\ Len(t) = Len(calls) - 1
        /\ \A k \in 1..(Len(calls) - 1) : t[k] = calls[IF k < i THEN k ELSE k + 1]
    BY <1>1, <1>2, RemoveAtIs
  <2> QED
    BY <1>1, <2>1, LenProperties
<1>4. calls' = t
  BY <1>2 DEF End
<1> DEFINE pos == [k \in 1..(n - 1) |-> IF k < i THEN k ELSE k + 1]
<1>5. /\ pos \in [DOMAIN t -> DOMAIN calls]
      /\ \A k \in 1..(n - 1) : pos[k] # i /\ t[k] = calls[pos[k]]
      /\ \A k, l \in 1..(n - 1) : pos[k] = pos[l] => k = l
  BY <1>1, <1>3
<1>6. ASSUME NEW j \in DOMAIN calls \ {i} PROVE \E k \in 1..(n - 1) : pos[k] = j
  <2>1. CASE j < i
    <3>1. j \in 1..(n - 1) /\ pos[j] = j
      BY <1>1, <2>1
    <3> QED
      BY <3>1
  <2>2. CASE ~ (j < i)
    <3>1. j - 1 \in 1..(n - 1) /\ ~ (j - 1 < i) /\ (j - 1) + 1 = j
      BY <1>1, <2>2
    <3>2. pos[j - 1] = j
      BY <3>1
    <3> QED
      BY <3>1, <3>2
  <2> QED
    BY <2>1, <2>2
<1> HIDE DEF pos
<1>7. Carries(i, {})
  <2>1. \A k \in DOMAIN calls' :
          IF pos[k] = i THEN calls'[k] \in {} ELSE calls'[k] = calls[pos[k]]
    BY <1>3, <1>4, <1>5
  <2>2. /\ \A k, l \in DOMAIN calls' : pos[k] = pos[l] => k = l
        /\ \A j \in DOMAIN calls \ {i} : \E k \in DOMAIN calls' : pos[k] = j
    BY <1>3, <1>4, <1>5, <1>6
  <2>3. pos \in [DOMAIN calls' -> DOMAIN calls]
    BY <1>4, <1>5
  <2> QED
    BY <2>1, <2>2, <2>3 DEF Carries
<1> QED
  BY <1>1, <1>3, <1>4, <1>7

LEMMA BecomeCarries ==
  ASSUME calls \in Seq(Task), NEW i \in DOMAIN calls, NEW new \in Task,
         calls' = [calls EXCEPT ![i] = new]
  PROVE  Carries(i, {new}) /\ calls' \in Seq(Task) /\ Len(calls') <= Len(calls)
<1>1. PICK n \in Nat : n = Len(calls) /\ DOMAIN calls = 1..n
  BY LenProperties
<1>2. /\ calls' \in Seq(Task) /\ Len(calls') = n /\ DOMAIN calls' = 1..n
      /\ \A k \in 1..n : calls'[k] = IF k = i THEN new ELSE calls[k]
  BY <1>1, ExceptSeq, LenProperties
<1> DEFINE pos == [k \in 1..n |-> k]
<1>3. pos \in [DOMAIN calls' -> DOMAIN calls] /\ \A k \in 1..n : pos[k] = k
  BY <1>1, <1>2
<1> HIDE DEF pos
<1>4. Carries(i, {new})
  <2>1. \A k \in DOMAIN calls' :
          IF pos[k] = i THEN calls'[k] \in {new} ELSE calls'[k] = calls[pos[k]]
    BY <1>2, <1>3
  <2>2. \A c \in {new} : \E k \in DOMAIN calls' : calls'[k] = c
    BY <1>1, <1>2
  <2>3. /\ \A k, l \in DOMAIN calls' : pos[k] = pos[l] => k = l
        /\ \A j \in DOMAIN calls \ {i} : \E k \in DOMAIN calls' : pos[k] = j
    BY <1>1, <1>2, <1>3
  <2> QED
    BY <1>3, <2>1, <2>2, <2>3 DEF Carries
<1> QED
  BY <1>1, <1>2, <1>4

LEMMA CarriedSet ==
  ASSUME calls \in Seq(Task), NEW i \in DOMAIN calls, NEW N, Carries(i, N)
  PROVE  ToSet(calls)' = Rest(i) \cup N
<1>1. PICK pos \in [DOMAIN calls' -> DOMAIN calls] :
        /\ \A j \in DOMAIN calls \ {i} : \E k \in DOMAIN calls' : pos[k] = j
        /\ \A k \in DOMAIN calls' :
             IF pos[k] = i THEN calls'[k] \in N ELSE calls'[k] = calls[pos[k]]
        /\ \A c \in N : \E k \in DOMAIN calls' : calls'[k] = c
  BY DEF Carries
<1>2. \A k \in DOMAIN calls' : calls'[k] \in Rest(i) \cup N
  BY <1>1 DEF Rest
<1>3. \A c \in Rest(i) \cup N : \E k \in DOMAIN calls' : calls'[k] = c
  BY <1>1 DEF Rest
<1>4. ToSet(calls)' = {calls'[k] : k \in DOMAIN calls'}
  BY DEF ToSet
<1> QED
  BY <1>2, <1>3, <1>4

\* What is left of the calls when one begins.
LEMMA BeginIs ==
  ASSUME calls \in Seq(Task), NEW c \in Task, Begin(c)
  PROVE  /\ calls' \in Seq(Task) /\ Len(calls') <= MaxActive
         /\ Len(calls) + 1 \notin DOMAIN calls
         /\ DOMAIN calls' = DOMAIN calls \cup {Len(calls) + 1}
         /\ \A k \in DOMAIN calls :
              /\ calls'[k] \in Task
              /\ calls'[k] = [calls[k] EXCEPT !.alone = calls[k].alone /\ ~Meet(c, calls[k])]
         /\ calls'[Len(calls) + 1]
              = [c EXCEPT !.alone = \A k \in DOMAIN calls : ~Meet(c, calls[k])]
<1> DEFINE met == {i \in DOMAIN calls : Meet(c, calls[i])}
           old == [i \in DOMAIN calls |-> [calls[i] EXCEPT !.alone = @ /\ i \notin met]]
           new == [c EXCEPT !.alone = (met = {})]
<1>1. PICK n \in Nat : n = Len(calls) /\ DOMAIN calls = 1..n
  BY LenProperties
<1>2. \A k \in DOMAIN calls : calls[k] \in Task
  BY CallAt
<1>3. \A k \in DOMAIN calls :
        old[k] = [calls[k] EXCEPT !.alone = calls[k].alone /\ ~Meet(c, calls[k])]
  BY <1>2 DEF Task
<1>4. \A k \in 1..n : old[k] \in Task
  BY <1>1, <1>2 DEF Task
<1>5. new \in Task
  BY DEF Task
<1>6. new = [c EXCEPT !.alone = \A k \in DOMAIN calls : ~Meet(c, calls[k])]
  <2>1. (met = {}) = \A k \in DOMAIN calls : ~Meet(c, calls[k])
    OBVIOUS
  <2> QED
    BY <2>1
<1>7. calls' = Append(old, new) /\ Len(calls) < MaxActive
  BY DEF Begin
<1>8. old \in Seq(Task)
  <2>1. old = [k \in 1..n |-> old[k]]
    BY <1>1
  <2> HIDE DEF old
  <2> QED
    BY <1>4, <2>1, IsASeq
<1>9. DOMAIN old = 1..n
  BY <1>1
<1> HIDE DEF old, new, met
<1>10. Len(old) = n
  BY <1>1, <1>8, <1>9, LenProperties
<1>11. /\ calls' \in Seq(Task) /\ Len(calls') = n + 1 /\ DOMAIN calls' = 1..(n + 1)
       /\ \A k \in 1..n : calls'[k] = old[k]
       /\ calls'[n + 1] = new
  <2>1. /\ Append(old, new) \in Seq(Task) /\ Len(Append(old, new)) = Len(old) + 1
        /\ \A k \in 1..Len(old) : Append(old, new)[k] = old[k]
        /\ Append(old, new)[Len(old) + 1] = new
    BY <1>5, <1>8, AppendProperties
  <2> QED
    BY <1>7, <1>10, <2>1, LenProperties
<1>12. n + 1 <= MaxActive /\ n + 1 \notin 1..n /\ 1..(n + 1) = 1..n \cup {n + 1}
  BY <1>1, <1>7, AccountsAssumption
<1> QED
  BY <1>1, <1>3, <1>4, <1>6, <1>11, <1>12

\* What a call holds is still sound after a step that takes no tenant away and moves
\* no session.
LEMMA SoundStays ==
  ASSUME tenants \subseteq tenants', sessions' = sessions,
         NEW c, CallTyped(c), MoveSound(c)
  PROVE  CallTyped(c)' /\ MoveSound(c)'
BY DEF CallTyped, MoveSound

LEMMA BeginTyped ==
  ASSUME AccountsTyped, NEW c \in Task, CallTyped(c), c.pc # "delete", Begin(c),
         started' \in 0..MaxCalls
  PROVE  AccountsTyped'
<1>1. UNCHANGED <<setup, rows, history, failures>>
  BY DEF Begin
<1>2. RowsTyped'
  BY <1>1 DEF AccountsTyped, RowsTyped, rows, history, Opened
<1>3. calls \in Seq(Task) /\ \A d \in ToSet(calls) : CallTyped(d) /\ MoveSound(d)
  BY DEF AccountsTyped, CallsTyped
<1> DEFINE n == Len(calls) + 1
<1>4. /\ calls' \in Seq(Task) /\ Len(calls') <= MaxActive
      /\ n \notin DOMAIN calls /\ DOMAIN calls' = DOMAIN calls \cup {n}
      /\ \A k \in DOMAIN calls : \E a \in BOOLEAN : calls'[k] = [calls[k] EXCEPT !.alone = a]
      /\ \E a \in BOOLEAN : calls'[n] = [c EXCEPT !.alone = a]
  BY <1>3, BeginIs
<1> HIDE DEF n
<1>5. \A k \in DOMAIN calls : /\ calls[k] \in Task /\ CallTyped(calls[k]) /\ MoveSound(calls[k])
  BY <1>3, CallAt
<1>6. ASSUME NEW d \in Task, NEW a \in BOOLEAN, NEW e, e = [d EXCEPT !.alone = a],
             CallTyped(d), MoveSound(d)
      PROVE  /\ CallTyped(e)' /\ MoveSound(e)' /\ e.pc = d.pc /\ e.read = d.read
  <2>1. e.pc = d.pc /\ e.read = d.read /\ e.at = d.at /\ e.role = d.role /\ e.row = d.row
    BY <1>6 DEF Task
  <2>2. CallTyped(e) /\ MoveSound(e)
    BY <1>6, <2>1 DEF CallTyped, MoveSound
  <2> QED
    BY <1>1, <2>1, <2>2, SoundStays DEF rows
<1>7. MoveSound(c)
  BY DEF MoveSound
<1>8. \A k \in DOMAIN calls :
        /\ calls'[k].pc = calls[k].pc /\ calls'[k].read = calls[k].read
        /\ \A e : e = calls'[k] => CallTyped(e)' /\ MoveSound(e)'
  <2> TAKE k \in DOMAIN calls
  <2>1. PICK a \in BOOLEAN : calls'[k] = [calls[k] EXCEPT !.alone = a]
    BY <1>4
  <2> QED
    BY <1>5, <1>6, <2>1
<1>9. /\ calls'[n].pc = c.pc
      /\ \A e : e = calls'[n] => CallTyped(e)' /\ MoveSound(e)'
  <2>1. PICK a \in BOOLEAN : calls'[n] = [c EXCEPT !.alone = a]
    BY <1>4
  <2> QED
    BY <1>6, <1>7, <2>1
<1>10. CallsTyped'
  <2>1. ToSet(calls)' = {calls'[k] : k \in DOMAIN calls'}
    BY DEF ToSet
  <2>2. \A e \in ToSet(calls)' : CallTyped(e)' /\ MoveSound(e)'
    BY <1>4, <1>8, <1>9, <2>1
  <2> QED
    BY <1>4, <2>2 DEF CallsTyped
<1>11. HeldOnce'
  <2>1. \A k \in DOMAIN calls' : calls'[k].pc = "delete" => k \in DOMAIN calls
    BY <1>4, <1>9
  <2> QED
    BY <1>8, <2>1 DEF AccountsTyped, HeldOnce
<1> QED
  BY <1>2, <1>10, <1>11 DEF AccountsTyped

LEMMA CarriesTyped ==
  ASSUME AccountsTyped, NEW i \in DOMAIN calls, NEW N, Carries(i, N),
         calls' \in Seq(Task), Len(calls') <= Len(calls), RowsTyped',
         \A c \in Rest(i) : CallTyped(c)' /\ MoveSound(c)',
         \A c \in N : CallTyped(c)' /\ MoveSound(c)',
         \A c \in N : c.pc = "delete" => \A m \in c.read : ~Held(m[1])
  PROVE  AccountsTyped'
<1>1. calls \in Seq(Task) /\ Len(calls) <= MaxActive /\ HeldOnce
  BY DEF AccountsTyped, CallsTyped
<1>2. ToSet(calls)' = Rest(i) \cup N
  BY <1>1, CarriedSet
<1>3. CallsTyped'
  <2>1. Len(calls') <= MaxActive
    BY <1>1, LenProperties, AccountsAssumption
  <2> QED
    BY <1>2, <2>1 DEF CallsTyped
<1>4. PICK pos \in [DOMAIN calls' -> DOMAIN calls] :
        /\ \A k, l \in DOMAIN calls' : pos[k] = pos[l] => k = l
        /\ \A k \in DOMAIN calls' :
             IF pos[k] = i THEN calls'[k] \in N ELSE calls'[k] = calls[pos[k]]
  BY DEF Carries
<1>5. ASSUME NEW k \in DOMAIN calls', NEW l \in DOMAIN calls', k # l,
             calls'[k].pc = "delete", calls'[l].pc = "delete",
             NEW m \in calls'[k].read, NEW n \in calls'[l].read
      PROVE  m[1] # n[1]
  <2>1. pos[k] # pos[l] /\ pos[k] \in DOMAIN calls /\ pos[l] \in DOMAIN calls
    BY <1>4, <1>5
  <2>2. CASE pos[k] = i
    <3>1. ~Held(m[1]) /\ calls'[l] = calls[pos[l]]
      BY <1>4, <1>5, <2>1, <2>2
    <3> QED
      BY <1>5, <2>1, <3>1 DEF Held
  <2>3. CASE pos[l] = i
    <3>1. ~Held(n[1]) /\ calls'[k] = calls[pos[k]]
      BY <1>4, <1>5, <2>1, <2>3
    <3> QED
      BY <1>5, <2>1, <3>1 DEF Held
  <2>4. CASE pos[k] # i /\ pos[l] # i
    <3>1. calls'[k] = calls[pos[k]] /\ calls'[l] = calls[pos[l]]
      BY <1>4, <2>4
    <3> QED
      BY <1>1, <1>5, <2>1, <3>1 DEF HeldOnce
  <2> QED
    BY <2>2, <2>3, <2>4
<1>6. HeldOnce'
  BY <1>5 DEF HeldOnce
<1> QED
  BY <1>3, <1>6 DEF AccountsTyped

\* A call that ends, and one that goes on, while tenants and sessions stay.
LEMMA EndTyped ==
  ASSUME AccountsTyped, NEW i \in DOMAIN calls, End(i), RowsTyped',
         tenants \subseteq tenants', sessions' = sessions
  PROVE  AccountsTyped'
<1>1. calls \in Seq(Task) /\ \A c \in ToSet(calls) : CallTyped(c) /\ MoveSound(c)
  BY DEF AccountsTyped, CallsTyped
<1>2. Carries(i, {}) /\ calls' \in Seq(Task) /\ Len(calls') <= Len(calls)
  BY <1>1, EndCarries
<1>3. \A c \in Rest(i) : CallTyped(c)' /\ MoveSound(c)'
  <2>1. Rest(i) \subseteq ToSet(calls)
    BY DEF Rest, ToSet
  <2> QED
    BY <1>1, <2>1, SoundStays
<1> QED
  BY <1>2, <1>3, CarriesTyped

LEMMA BecomeTyped ==
  ASSUME AccountsTyped, NEW i \in DOMAIN calls, NEW new \in Task,
         calls' = [calls EXCEPT ![i] = new], RowsTyped',
         tenants \subseteq tenants', sessions' = sessions, CallTyped(new)', new.pc # "delete"
  PROVE  AccountsTyped'
<1>1. calls \in Seq(Task) /\ \A c \in ToSet(calls) : CallTyped(c) /\ MoveSound(c)
  BY DEF AccountsTyped, CallsTyped
<1>2. Carries(i, {new}) /\ calls' \in Seq(Task) /\ Len(calls') <= Len(calls)
  BY <1>1, BecomeCarries
<1>3. \A c \in Rest(i) : CallTyped(c)' /\ MoveSound(c)'
  <2>1. Rest(i) \subseteq ToSet(calls)
    BY DEF Rest, ToSet
  <2> QED
    BY <1>1, <2>1, SoundStays
<1>4. MoveSound(new)'
  BY DEF MoveSound
<1> QED
  BY <1>2, <1>3, <1>4, CarriesTyped

\* A call that goes on as it is.
LEMMA ToIs ==
  ASSUME calls \in Seq(Task), NEW i \in DOMAIN calls, NEW pc \in Pc, To(i, pc)
  PROVE  \E new \in Task :
           /\ calls' = [calls EXCEPT ![i] = new] /\ new.pc = pc
           /\ new.at = calls[i].at /\ new.role = calls[i].role /\ new.custom = calls[i].custom
           /\ new.row = calls[i].row /\ new.alone = calls[i].alone /\ new.read = calls[i].read
<1> DEFINE new == [calls[i] EXCEPT !.pc = pc]
<1>1. calls[i] \in Task
  BY CallAt
<1>2. /\ new \in Task /\ new.pc = pc
      /\ new.at = calls[i].at /\ new.role = calls[i].role /\ new.custom = calls[i].custom
      /\ new.row = calls[i].row /\ new.alone = calls[i].alone /\ new.read = calls[i].read
  BY <1>1 DEF Task
<1>3. calls' = [calls EXCEPT ![i] = new]
  BY DEF To
<1> QED
  BY <1>2, <1>3

LEMMA CallHolds ==
  ASSUME AccountsTyped, NEW i \in DOMAIN calls
  PROVE  /\ calls \in Seq(Task) /\ calls[i] \in Task /\ CallTyped(calls[i]) /\ MoveSound(calls[i])
         /\ calls[i].pc # "backfill" => calls[i].at \in Pair
BY CallAt DEF AccountsTyped, CallsTyped, CallTyped, Task

LEMMA ToTyped ==
  ASSUME AccountsTyped, NEW i \in DOMAIN calls, calls[i].pc # "backfill",
         NEW pc \in Pc \ {"delete", "backfill", "admin", "switch"}, To(i, pc),
         pc \in {"role", "swap", "grant", "upsert", "join"} => calls[i].role \in Role,
         RowsTyped', tenants \subseteq tenants', sessions' = sessions
  PROVE  AccountsTyped'
<1>1. calls \in Seq(Task) /\ CallTyped(calls[i])
  BY CallHolds
<1>2. PICK new \in Task :
        /\ calls' = [calls EXCEPT ![i] = new] /\ new.pc = pc
        /\ new.at = calls[i].at /\ new.role = calls[i].role
  BY <1>1, ToIs
<1>3. CallTyped(new)'
  BY <1>1, <1>2 DEF CallTyped
<1> QED
  BY <1>2, <1>3, BecomeTyped

\* The rows of sessions stay well typed while tenants come.
LEMMA SessionRows ==
  ASSUME AccountsTyped, tenants \subseteq tenants', sessions' = sessions
  PROVE  sessions' \in [Session -> {NoSession} \cup Opened']
<1>1. Opened \subseteq Opened'
  BY DEF Opened
<1> QED
  BY <1>1 DEF AccountsTyped, RowsTyped

LEMMA SetupTyped ==
  ASSUME AccountsTyped, NEW i \in DOMAIN calls, SetupAdmin(i) \/ WriteConfig(i)
  PROVE  AccountsTyped'
<1>1. CASE SetupAdmin(i)
  <2>1. calls[i].at \in Pair /\ calls[i].at[1] = Default /\ "owner" \in Role /\ Default \in Tenant
    BY <1>1, CallHolds, AccountsAssumption DEF SetupAdmin, CallTyped
  <2>2. /\ tenants' = tenants \cup {Default} /\ sessions' = sessions
        /\ member' = [member EXCEPT ![calls[i].at] = "owner"] /\ To(i, "config")
        /\ left' = left \ {calls[i].at} /\ unsure' \subseteq unsure \cup {calls[i].at}
        /\ UNCHANGED <<setup, seeded, teams, groups, started, failures>>
    BY <1>1 DEF SetupAdmin, Same
  <2>3. sessions' \in [Session -> {NoSession} \cup Opened']
    BY <2>2, SessionRows
  <2>4. RowsTyped'
    BY <2>1, <2>2, <2>3 DEF AccountsTyped, RowsTyped
  <2> QED
    BY <1>1, <2>2, <2>4, ToTyped DEF SetupAdmin, Pc
<1>2. CASE WriteConfig(i)
  <2>1. setup' = FALSE /\ UNCHANGED <<rows, history, started, failures>> /\ End(i)
    BY <1>2 DEF WriteConfig
  <2>2. RowsTyped'
    BY <2>1 DEF AccountsTyped, RowsTyped, rows, history, Opened
  <2> QED
    BY <2>1, <2>2, EndTyped DEF rows
<1> QED
  BY <1>1, <1>2

LEMMA BootTyped ==
  ASSUME AccountsTyped, NEW i \in DOMAIN calls, EnsureCoreSchema(i)
  PROVE  AccountsTyped'
<1> DEFINE read == calls[i].read
           now == seeded \cup Seeded({r[1][1] : r \in read})
<1>1. \A r \in read : r \in Pair \X (Role \cup {None}) /\ r[1][1] \in tenants
  BY CallHolds DEF EnsureCoreSchema, CallTyped
<1>2. /\ seeded' = now /\ groups' = groups \cup {r \in read : r[2] # None /\ r[1][1] \in now}
      /\ End(i) /\ UNCHANGED <<setup, started, failures, tenants, teams, member, sessions, history>>
  BY DEF EnsureCoreSchema, Same
<1>3. seeded \subseteq now /\ now \subseteq tenants
  BY <1>1 DEF Seeded, AccountsTyped, RowsTyped
<1> HIDE DEF now
<1>4. groups' \subseteq Pair \X (Role \cup {Team})
  BY <1>1, <1>2 DEF AccountsTyped, RowsTyped
<1>5. \A r \in groups' : r[1][1] \in IF r[2] = Team THEN teams ELSE now
  <2> TAKE r \in groups'
  <2>1. CASE r \in groups
    BY <1>3, <2>1 DEF AccountsTyped, RowsTyped
  <2>2. CASE r \in read /\ r[2] # None /\ r[1][1] \in now
    BY <1>1, <2>2, NamesApart
  <2> QED
    BY <1>2, <2>1, <2>2
<1>6. RowsTyped'
  BY <1>2, <1>3, <1>4, <1>5 DEF AccountsTyped, RowsTyped, history, Opened
<1> QED
  BY <1>2, <1>6, EndTyped

LEMMA RoleTyped ==
  ASSUME AccountsTyped, NEW i \in DOMAIN calls,
         UpdateRole(i) \/ DropBuiltin(i) \/ GrantBuiltin(i) \/ ClearCustom(i) \/ GrantCustom(i)
  PROVE  AccountsTyped'
<1>1. /\ calls[i].pc \in {"role", "swap", "grant", "clear", "custom"} /\ calls[i].at \in Pair
      /\ calls[i].pc \in {"role", "swap", "grant"} => calls[i].role \in Role
      /\ UNCHANGED <<setup, started, failures, tenants, seeded, teams, sessions>>
      /\ tenants \subseteq tenants'
  BY CallHolds DEF UpdateRole, DropBuiltin, GrantBuiltin, ClearCustom, GrantCustom, CallTyped, Same
<1>2. calls[i].pc # "backfill"
  BY <1>1
<1>3. CASE UpdateRole(i)
  <2>1. UNCHANGED <<groups, history>>
    BY <1>3 DEF UpdateRole
  <2>2. CASE member[calls[i].at] = None
    <3>1. End(i) /\ UNCHANGED member
      BY <1>3, <2>2 DEF UpdateRole
    <3>2. RowsTyped'
      BY <1>1, <2>1, <3>1 DEF AccountsTyped, RowsTyped, history, Opened
    <3> QED
      BY <1>1, <3>1, <3>2, EndTyped
  <2>3. CASE member[calls[i].at] # None
    <3>1. To(i, "swap") /\ member' = [member EXCEPT ![calls[i].at] = calls[i].role]
      BY <1>3, <2>3 DEF UpdateRole
    <3>2. calls[i].role \in Role
      BY <1>1, <1>3 DEF UpdateRole
    <3>3. RowsTyped'
      BY <1>1, <2>1, <2>3, <3>1, <3>2 DEF AccountsTyped, RowsTyped, history, Opened
    <3> QED
      BY <1>1, <1>2, <3>1, <3>2, <3>3, ToTyped DEF Pc
  <2> QED
    BY <2>2, <2>3
<1>4. CASE DropBuiltin(i)
  <2>1. groups' \subseteq groups /\ UNCHANGED <<member, history>> /\ To(i, "grant")
    BY <1>4 DEF DropBuiltin
  <2>2. RowsTyped'
    BY <1>1, <2>1 DEF AccountsTyped, RowsTyped, history, Opened
  <2> QED
    BY <1>1, <1>2, <1>4, <2>1, <2>2, ToTyped DEF Pc, DropBuiltin
<1>5. CASE GrantBuiltin(i)
  <2>1. /\ groups' = Grant(calls[i].at, calls[i].role) /\ UNCHANGED <<member, left>>
        /\ unsure' \subseteq unsure \cup {calls[i].at} /\ calls[i].role \in Role
        /\ End(i) \/ To(i, "clear")
    BY <1>1, <1>5 DEF GrantBuiltin, Settled
  <2>2. /\ groups' \subseteq Pair \X (Role \cup {Team})
        /\ \A r \in groups' : r[1][1] \in IF r[2] = Team THEN teams ELSE seeded
    BY <1>1, <2>1, NamesApart DEF AccountsTyped, RowsTyped, Grant
  <2>3. RowsTyped'
    BY <1>1, <2>1, <2>2 DEF AccountsTyped, RowsTyped, Opened
  <2>4. CASE End(i)
    BY <1>1, <2>3, <2>4, EndTyped
  <2>5. CASE To(i, "clear")
    BY <1>1, <1>2, <2>3, <2>5, ToTyped DEF Pc
  <2> QED
    BY <2>1, <2>4, <2>5
<1>6. CASE ClearCustom(i)
  <2>1. groups' \subseteq groups /\ UNCHANGED <<member, history>> /\ To(i, "custom")
    BY <1>6 DEF ClearCustom
  <2>2. RowsTyped'
    BY <1>1, <2>1 DEF AccountsTyped, RowsTyped, history, Opened
  <2> QED
    BY <1>1, <1>2, <2>1, <2>2, ToTyped DEF Pc
<1>7. CASE GrantCustom(i)
  <2>1. /\ groups' = groups \/ (calls[i].at[1] \in teams /\ groups' = groups \cup {<<calls[i].at, Team>>})
        /\ UNCHANGED <<member, history>> /\ End(i)
    BY <1>7 DEF GrantCustom
  <2>2. RowsTyped'
    BY <1>1, <2>1 DEF AccountsTyped, RowsTyped, history, Opened
  <2> QED
    BY <1>1, <2>1, <2>2, EndTyped
<1> QED
  BY <1>3, <1>4, <1>5, <1>6, <1>7

\* A member is added: the call is not alone any more if it changes a role.
LEMMA UpsertIs ==
  ASSUME AccountsTyped, NEW i \in DOMAIN calls, UpsertMember(i), calls[i].at[1] \in tenants
  PROVE  \E new \in Task :
           /\ calls' = [calls EXCEPT ![i] = new] /\ new.pc = "join"
           /\ new.at = calls[i].at /\ new.role = calls[i].role /\ new.read = calls[i].read
           /\ new.alone => calls[i].alone /\ member[calls[i].at] \in {None, calls[i].role}
<1> DEFINE c == calls[i]
           a == c.alone /\ member[c.at] \in {None, c.role}
           new == [c EXCEPT !.pc = "join", !.alone = a]
<1>1. c \in Task
  BY CallHolds
<1>2. a \in BOOLEAN
  BY <1>1 DEF Task
<1>3. calls' = [calls EXCEPT ![i] = new]
  BY <1>1 DEF UpsertMember, Task
<1> HIDE DEF a
<1>4. /\ new \in Task /\ new.pc = "join" /\ new.at = c.at /\ new.role = c.role
      /\ new.read = c.read /\ new.alone = a
  BY <1>1, <1>2 DEF Task, Pc
<1> QED
  BY <1>3, <1>4 DEF a

LEMMA MemberTyped ==
  ASSUME AccountsTyped, NEW i \in DOMAIN calls,
         UpsertMember(i) \/ Join(i) \/ DeleteGroups(i) \/ DeleteMembership(i)
  PROVE  AccountsTyped'
<1>1. /\ calls[i].pc \in {"upsert", "join", "wipe", "leave"} /\ calls[i].at \in Pair
      /\ calls[i].pc \in {"upsert", "join"} => calls[i].role \in Role
      /\ UNCHANGED <<setup, started, failures, tenants, seeded, teams, sessions>>
      /\ tenants \subseteq tenants'
  BY CallHolds DEF UpsertMember, Join, DeleteGroups, DeleteMembership, CallTyped, Same
<1>2. calls[i].pc # "backfill"
  BY <1>1
<1>3. CASE UpsertMember(i)
  <2>1. UNCHANGED <<groups, unsure>> /\ calls[i].role \in Role
    BY <1>1, <1>3 DEF UpsertMember
  <2>2. CASE calls[i].at[1] \notin tenants
    <3>1. End(i) /\ UNCHANGED <<member, left>>
      BY <1>3, <2>2 DEF UpsertMember
    <3>2. RowsTyped'
      BY <1>1, <2>1, <3>1 DEF AccountsTyped, RowsTyped, Opened
    <3> QED
      BY <1>1, <3>1, <3>2, EndTyped
  <2>3. CASE calls[i].at[1] \in tenants
    <3>1. calls[i] \in Task /\ CallTyped(calls[i])
      BY CallHolds
    <3>2. PICK new \in Task : /\ calls' = [calls EXCEPT ![i] = new] /\ new.pc = "join"
                              /\ new.at = calls[i].at /\ new.role = calls[i].role
      BY <1>3, <2>3, <3>1, UpsertIs
    <3>4. /\ member' = [member EXCEPT ![calls[i].at] = calls[i].role]
          /\ left' = left \ {calls[i].at}
      BY <1>3, <2>3 DEF UpsertMember
    <3>5. RowsTyped'
      BY <1>1, <2>1, <2>3, <3>4 DEF AccountsTyped, RowsTyped, Opened
    <3>6. CallTyped(new)'
      BY <1>2, <2>1, <3>1, <3>2 DEF CallTyped
    <3> QED
      BY <1>1, <3>2, <3>5, <3>6, BecomeTyped
  <2> QED
    BY <2>2, <2>3
<1>4. CASE Join(i)
  <2>1. /\ groups' = Grant(calls[i].at, calls[i].role) /\ UNCHANGED <<member, left>>
        /\ unsure' \subseteq unsure \cup {calls[i].at} /\ calls[i].role \in Role /\ End(i)
    BY <1>1, <1>4 DEF Join
  <2>2. /\ groups' \subseteq Pair \X (Role \cup {Team})
        /\ \A r \in groups' : r[1][1] \in IF r[2] = Team THEN teams ELSE seeded
    BY <1>1, <2>1, NamesApart DEF AccountsTyped, RowsTyped, Grant
  <2>3. RowsTyped'
    BY <1>1, <2>1, <2>2 DEF AccountsTyped, RowsTyped, Opened
  <2> QED
    BY <1>1, <2>1, <2>3, EndTyped
<1>5. CASE DeleteGroups(i)
  <2>1. groups' \subseteq groups /\ UNCHANGED <<member, history>> /\ To(i, "leave")
    BY <1>5 DEF DeleteGroups
  <2>2. RowsTyped'
    BY <1>1, <2>1 DEF AccountsTyped, RowsTyped, history, Opened
  <2> QED
    BY <1>1, <1>2, <2>1, <2>2, ToTyped DEF Pc
<1>6. CASE DeleteMembership(i)
  <2>1. /\ member' = [member EXCEPT ![calls[i].at] = None] /\ UNCHANGED groups /\ End(i)
        /\ unsure' \subseteq unsure \cup {calls[i].at} /\ left' \subseteq left \cup {calls[i].at}
    BY <1>6 DEF DeleteMembership, Settled
  <2>2. RowsTyped'
    BY <1>1, <2>1 DEF AccountsTyped, RowsTyped, Opened
  <2> QED
    BY <1>1, <2>1, <2>2, EndTyped
<1> QED
  BY <1>3, <1>4, <1>5, <1>6

\* The other calls hold what they held, if the sessions and tenants they refer to are
\* left alone.
LEMMA RestSound ==
  ASSUME AccountsTyped, NEW i \in DOMAIN calls,
         \A c \in Rest(i) : c.pc = "delete" =>
           \A m \in c.read : sessions'[m[1]] = sessions[m[1]] /\ m[2] \in tenants',
         \A c \in Rest(i) : c.pc = "backfill" => \A r \in c.read : r[1][1] \in tenants'
  PROVE  \A c \in Rest(i) : CallTyped(c)' /\ MoveSound(c)'
<1> TAKE c \in Rest(i)
<1>1. CallTyped(c) /\ MoveSound(c)
  BY DEF AccountsTyped, CallsTyped, Rest, ToSet
<1> QED
  BY <1>1 DEF CallTyped, MoveSound

\* A session that a deletion moves is there.
LEMMA MovedIsThere ==
  ASSUME AccountsTyped, NEW c \in ToSet(calls), c.pc = "delete", NEW m \in c.read
  PROVE  /\ m \in Session \X tenants /\ m[1] \in Session /\ m[2] \in tenants
         /\ sessions[m[1]] \in Opened /\ sessions[m[1]] # NoSession
         /\ sessions[m[1]].tenant = c.at[1] /\ m[2] # c.at[1] /\ c.at \in Pair
<1>1. calls \in Seq(Task) /\ CallTyped(c) /\ MoveSound(c)
  BY DEF AccountsTyped, CallsTyped
<1>2. c \in Task
  BY <1>1, CallAt DEF ToSet
<1>3. c.at \in Pair
  BY <1>1, <1>2 DEF CallTyped, Task
<1>4. m \in Session \X tenants /\ m[2] # c.at[1] /\ sessions[m[1]].tenant = c.at[1]
  BY <1>1 DEF MoveSound
<1>5. sessions[m[1]] \in {NoSession} \cup Opened /\ c.at[1] \in Tenant
  BY <1>3, <1>4 DEF AccountsTyped, RowsTyped, Pair
<1> QED
  BY <1>3, <1>4, <1>5, NamesApart

LEMMA RestIn ==
  ASSUME NEW i
  PROVE  Rest(i) \subseteq ToSet(calls)
BY DEF Rest, ToSet

LEMMA HeldRest ==
  ASSUME NEW i, NEW x, ~Held(x)
  PROVE  \A c \in Rest(i) : c.pc = "delete" => \A m \in c.read : m[1] # x
BY DEF Rest, Held

LEMMA UnusedIs ==
  ASSUME AccountsTyped, Unused # {}
  PROVE  /\ (CHOOSE x \in Unused : TRUE) \in Session
         /\ sessions[CHOOSE x \in Unused : TRUE] = NoSession
         /\ \A i \in DOMAIN calls :
              calls[i].pc = "switch" => calls[i].row # (CHOOSE x \in Unused : TRUE)
<1>1. (CHOOSE x \in Unused : TRUE) \in Unused
  OBVIOUS
<1> QED
  BY <1>1 DEF Unused

LEMMA SessionTyped ==
  ASSUME AccountsTyped, NEW i \in DOMAIN calls, CreateSession(i)
  PROVE  AccountsTyped'
<1>1. /\ UNCHANGED <<setup, started, failures, tenants, seeded, teams, member, groups, history>>
      /\ End(i) /\ tenants \subseteq tenants'
      /\ calls \in Seq(Task) /\ calls[i] \in Task /\ calls[i].at \in Pair
  BY CallHolds DEF CreateSession, Same
<1>2. CASE calls[i].at[1] \notin tenants
  <2>1. sessions' = sessions
    BY <1>2 DEF CreateSession
  <2>2. RowsTyped'
    BY <1>1, <2>1 DEF AccountsTyped, RowsTyped, history, Opened
  <2> QED
    BY <1>1, <2>1, <2>2, EndTyped
<1>3. CASE calls[i].at[1] \in tenants
  <2>1. PICK x \in Session, row \in Opened :
          sessions[x] = NoSession /\ sessions' = [sessions EXCEPT ![x] = row]
    <3>1. Unused # {}
      BY <1>3 DEF CreateSession
    <3>2. PICK x : x = CHOOSE y \in Unused : TRUE
      OBVIOUS
    <3>3. x \in Session /\ sessions[x] = NoSession
      BY <3>1, <3>2, UnusedIs
    <3>4. PICK row : row = [user |-> calls[i].at[2], tenant |-> calls[i].at[1],
                            guest |-> calls[i].custom = "guest"]
      OBVIOUS
    <3>5. row \in Opened
      BY <1>1, <1>3, <3>4 DEF Opened, Pair
    <3>6. sessions' = [sessions EXCEPT ![x] = row]
      BY <1>3, <3>2, <3>4 DEF CreateSession
    <3> QED
      BY <3>3, <3>5, <3>6
  <2>2. RowsTyped'
    BY <1>1, <2>1 DEF AccountsTyped, RowsTyped, history, Opened
  <2>3. \A c \in Rest(i) : CallTyped(c)' /\ MoveSound(c)'
    <3>1. \A c \in Rest(i) : c.pc = "delete" =>
            \A m \in c.read : sessions'[m[1]] = sessions[m[1]] /\ m[2] \in tenants'
      BY <1>1, <2>1, MovedIsThere, RestIn DEF AccountsTyped, RowsTyped
    <3>2. \A c \in Rest(i) : c.pc = "backfill" => \A r \in c.read : r[1][1] \in tenants'
      BY <1>1, RestIn DEF AccountsTyped, CallsTyped, CallTyped
    <3> QED
      BY <3>1, <3>2, RestSound
  <2>4. Carries(i, {}) /\ calls' \in Seq(Task) /\ Len(calls') <= Len(calls)
    BY <1>1, EndCarries
  <2> QED
    BY <2>2, <2>3, <2>4, CarriesTyped
<1> QED
  BY <1>2, <1>3

LEMMA SwitchTyped ==
  ASSUME AccountsTyped, NEW i \in DOMAIN calls, UpdateSessionTenant(i)
  PROVE  AccountsTyped'
<1> DEFINE x == calls[i].row
<1>1. /\ UNCHANGED <<setup, started, failures, tenants, seeded, teams, member, groups, history>>
      /\ End(i) /\ tenants \subseteq tenants' /\ ~Held(x)
      /\ calls \in Seq(Task) /\ calls[i].at \in Pair /\ x \in Session
  BY CallHolds DEF UpdateSessionTenant, Same, CallTyped
<1>2. CASE ~ (sessions[x] # NoSession /\ calls[i].at[1] \in tenants)
  <2>1. sessions' = sessions
    BY <1>2 DEF UpdateSessionTenant
  <2>2. RowsTyped'
    BY <1>1, <2>1 DEF AccountsTyped, RowsTyped, history, Opened
  <2> QED
    BY <1>1, <2>1, <2>2, EndTyped
<1>3. CASE sessions[x] # NoSession /\ calls[i].at[1] \in tenants
  <2>1. sessions[x] \in Opened
    BY <1>1, <1>3 DEF AccountsTyped, RowsTyped
  <2>2. PICK row \in Opened : row = [sessions[x] EXCEPT !.tenant = calls[i].at[1], !.guest = FALSE]
    BY <1>3, <2>1 DEF Opened
  <2>3. sessions' = [sessions EXCEPT ![x] = row]
    BY <1>3, <2>2 DEF UpdateSessionTenant
  <2> HIDE DEF x
  <2>4. RowsTyped'
    BY <1>1, <2>2, <2>3 DEF AccountsTyped, RowsTyped, history, Opened
  <2>5. \A c \in Rest(i) : CallTyped(c)' /\ MoveSound(c)'
    <3>1. \A c \in Rest(i) : c.pc = "delete" =>
            \A m \in c.read : sessions'[m[1]] = sessions[m[1]] /\ m[2] \in tenants'
      BY <1>1, <2>3, MovedIsThere, RestIn, HeldRest DEF AccountsTyped, RowsTyped
    <3>2. \A c \in Rest(i) : c.pc = "backfill" => \A r \in c.read : r[1][1] \in tenants'
      BY <1>1, RestIn DEF AccountsTyped, CallsTyped, CallTyped
    <3> QED
      BY <3>1, <3>2, RestSound
  <2>6. Carries(i, {}) /\ calls' \in Seq(Task) /\ Len(calls') <= Len(calls)
    BY <1>1, EndCarries
  <2> QED
    BY <2>4, <2>5, <2>6, CarriesTyped
<1> QED
  BY <1>2, <1>3

\* What a deletion begins to move.
LEMMA MoveIs ==
  ASSUME AccountsTyped, NEW i \in DOMAIN calls, MoveSessions(i)
  PROVE  \/ End(i)
         \/ \E new \in Task :
              /\ calls' = [calls EXCEPT ![i] = new] /\ new.pc = "delete" /\ new.at = calls[i].at
              /\ \A m \in new.read :
                   /\ m \in Session \X tenants /\ sessions[m[1]].tenant = new.at[1]
                   /\ m[2] \in Elsewhere(sessions[m[1]].user, new.at[1]) /\ ~Held(m[1])
<1> DEFINE t == calls[i].at[1]
           moved == {x \in Session : sessions[x].tenant = t /\ Elsewhere(sessions[x].user, t) # {}}
<1>1. calls[i] \in Task /\ calls \in Seq(Task) /\ tenants \subseteq Tenant
  BY CallHolds DEF AccountsTyped, RowsTyped
<1>2. CASE t \in tenants /\ member[calls[i].at] \in {"owner", "admin"}
  <2>1. /\ \A x \in moved : ~Held(x)
        /\ \E to \in [moved -> tenants] :
             /\ \A x \in moved : to[x] \in Elsewhere(sessions[x].user, t)
             /\ calls' = [calls EXCEPT ![i].pc = "delete", ![i].read = {<<x, to[x]>> : x \in moved}]
    BY <1>2 DEF MoveSessions
  <2>2. PICK to \in [moved -> tenants] :
             /\ \A x \in moved : to[x] \in Elsewhere(sessions[x].user, t)
             /\ calls' = [calls EXCEPT ![i].pc = "delete", ![i].read = {<<x, to[x]>> : x \in moved}]
    BY <2>1
  <2>3. \A x \in moved : x \in Session /\ to[x] \in tenants /\ sessions[x].tenant = t /\ ~Held(x)
    BY <2>1
  <2> HIDE DEF moved
  <2>4. PICK read : read = {<<x, to[x]>> : x \in moved}
    OBVIOUS
  <2>5. \A m \in read : /\ m \in Session \X tenants /\ sessions[m[1]].tenant = t
                        /\ m[2] \in Elsewhere(sessions[m[1]].user, t) /\ ~Held(m[1])
    <3> TAKE m \in read
    <3>1. PICK x \in moved : m = <<x, to[x]>>
      BY <2>4
    <3>2. m[1] = x /\ m[2] = to[x]
      BY <3>1
    <3>3. m \in Session \X tenants
      BY <2>3, <3>1
    <3> QED
      BY <2>2, <2>3, <3>2, <3>3
  <2>6. read \in SUBSET ((Pair \X (Role \cup {None})) \cup (Session \X Tenant))
    BY <1>1, <2>5
  <2>7. PICK new : new = [calls[i] EXCEPT !.pc = "delete", !.read = read]
    OBVIOUS
  <2>8. new \in Task /\ new.pc = "delete" /\ new.at = calls[i].at /\ new.read = read
    BY <1>1, <2>6, <2>7 DEF Task, Pc
  <2>9. calls' = [calls EXCEPT ![i] = new]
    BY <2>2, <2>4, <2>7
  <2> QED
    BY <2>5, <2>8, <2>9
<1>3. CASE ~ (t \in tenants /\ member[calls[i].at] \in {"owner", "admin"})
  BY <1>3 DEF MoveSessions
<1> QED
  BY <1>2, <1>3

LEMMA MoveTyped ==
  ASSUME AccountsTyped, NEW i \in DOMAIN calls, MoveSessions(i)
  PROVE  AccountsTyped'
<1>1. UNCHANGED <<setup, started, failures, rows, history>>
  BY DEF MoveSessions, Same
<1>2. RowsTyped'
  BY <1>1 DEF AccountsTyped, RowsTyped, rows, history, Opened
<1>3. sessions' = sessions /\ tenants' = tenants /\ tenants \subseteq tenants'
  BY <1>1 DEF rows
<1>4. CASE End(i)
  BY <1>2, <1>3, <1>4, EndTyped
<1>5. ASSUME NEW new \in Task,
             calls' = [calls EXCEPT ![i] = new], new.pc = "delete", new.at = calls[i].at,
             \A m \in new.read :
               /\ m \in Session \X tenants /\ sessions[m[1]].tenant = new.at[1]
               /\ m[2] \in Elsewhere(sessions[m[1]].user, new.at[1]) /\ ~Held(m[1])
      PROVE  AccountsTyped'
  <2>1. calls \in Seq(Task) /\ CallTyped(calls[i]) /\ calls[i].pc = "move"
    BY CallHolds DEF MoveSessions
  <2>2. Carries(i, {new}) /\ calls' \in Seq(Task) /\ Len(calls') <= Len(calls)
    BY <1>5, <2>1, BecomeCarries
  <2>3. CallTyped(new)'
    BY <1>5, <2>1 DEF CallTyped
  <2>4. MoveSound(new)'
    BY <1>3, <1>5 DEF MoveSound, Elsewhere
  <2>5. \A c \in Rest(i) : CallTyped(c)' /\ MoveSound(c)'
    BY <1>3, RestIn, SoundStays DEF AccountsTyped, CallsTyped
  <2> QED
    BY <1>2, <1>5, <2>2, <2>3, <2>4, <2>5, CarriesTyped
<1> QED
  BY <1>4, <1>5, MoveIs

\* What DeleteTenant does to a session.
LEMMA DeleteIs ==
  ASSUME AccountsTyped, NEW i \in DOMAIN calls, DeleteTenant(i)
  PROVE  /\ calls[i].pc = "delete" /\ calls[i].at \in Pair /\ calls[i].at[1] \in tenants
         /\ \A x \in Session :
              \/ \E m \in calls[i].read :
                   /\ m[1] = x /\ m[2] \in tenants \ {calls[i].at[1]} /\ sessions[x] \in Opened
                   /\ sessions'[x] = [sessions[x] EXCEPT !.tenant = m[2], !.guest = FALSE]
              \/ /\ sessions[x].tenant = calls[i].at[1] /\ ~Held(x) /\ sessions'[x] = NoSession
              \/ /\ sessions[x].tenant # calls[i].at[1] /\ sessions'[x] = sessions[x]
         /\ sessions' = [x \in Session |-> sessions'[x]]
<1> DEFINE t == calls[i].at[1]
           moved == {x \in Session : \E m \in calls[i].read : m[1] = x}
           to(x) == (CHOOSE m \in calls[i].read : m[1] = x)[2]
<1>1. calls[i].pc = "delete" /\ calls[i].at \in Pair /\ t \in tenants /\ calls[i] \in ToSet(calls)
  BY CallHolds DEF DeleteTenant, ToSet
<1>2. /\ \A x \in Session \ moved : sessions[x].tenant = t => ~Held(x)
      /\ sessions' = [x \in Session |->
           CASE x \in moved -> [sessions[x] EXCEPT !.tenant = to(x), !.guest = FALSE]
             [] sessions[x].tenant = t /\ x \notin moved -> NoSession
             [] OTHER -> sessions[x]]
  BY DEF DeleteTenant
<1>3. ASSUME NEW x \in Session
      PROVE  \/ \E m \in calls[i].read :
                  /\ m[1] = x /\ m[2] \in tenants \ {t} /\ sessions[x] \in Opened
                  /\ sessions'[x] = [sessions[x] EXCEPT !.tenant = m[2], !.guest = FALSE]
             \/ sessions[x].tenant = t /\ ~Held(x) /\ sessions'[x] = NoSession
             \/ sessions[x].tenant # t /\ sessions'[x] = sessions[x]
  <2>1. CASE x \in moved
    <3>1. PICK m : m = CHOOSE n \in calls[i].read : n[1] = x
      OBVIOUS
    <3>2. m \in calls[i].read /\ m[1] = x
      BY <2>1, <3>1
    <3>3. m[2] \in tenants \ {t} /\ sessions[x] \in Opened
      BY <1>1, <3>2, MovedIsThere
    <3>4. sessions'[x] = [sessions[x] EXCEPT !.tenant = m[2], !.guest = FALSE]
      BY <1>2, <2>1, <3>1
    <3> QED
      BY <3>2, <3>3, <3>4
  <2>2. CASE x \notin moved /\ sessions[x].tenant = t
    <3>1. sessions'[x] = NoSession
      BY <1>2, <2>2
    <3> QED
      BY <1>2, <2>2, <3>1
  <2>3. CASE x \notin moved /\ sessions[x].tenant # t
    <3>1. sessions'[x] = sessions[x]
      BY <1>2, <2>3
    <3> QED
      BY <2>3, <3>1
  <2> QED
    BY <2>1, <2>2, <2>3
<1>4. sessions' = [x \in Session |-> sessions'[x]]
  BY <1>2
<1> QED
  BY <1>1, <1>3, <1>4

\* The sessions another deletion moves are not touched.
LEMMA DeleteSparesOthers ==
  ASSUME AccountsTyped, NEW i \in DOMAIN calls, DeleteTenant(i),
         NEW c \in Rest(i), c.pc = "delete", NEW m \in c.read
  PROVE  sessions'[m[1]] = sessions[m[1]]
<1>1. PICK j \in DOMAIN calls \ {i} : c = calls[j]
  BY DEF Rest
<1>2. m[1] \in Session
  BY MovedIsThere, RestIn
<1>3. calls[i].pc = "delete" /\ HeldOnce
  BY DeleteIs DEF AccountsTyped
<1>4. \A n \in calls[i].read : n[1] # m[1]
  BY <1>1, <1>3 DEF HeldOnce
<1>5. Held(m[1])
  BY <1>1 DEF Held
<1>6. PICK x \in Session : x = m[1]
  BY <1>2
<1>7. \/ \E n \in calls[i].read :
           /\ n[1] = x /\ n[2] \in tenants \ {calls[i].at[1]} /\ sessions[x] \in Opened
           /\ sessions'[x] = [sessions[x] EXCEPT !.tenant = n[2], !.guest = FALSE]
      \/ sessions[x].tenant = calls[i].at[1] /\ ~Held(x) /\ sessions'[x] = NoSession
      \/ sessions[x].tenant # calls[i].at[1] /\ sessions'[x] = sessions[x]
  BY DeleteIs
<1> QED
  BY <1>4, <1>5, <1>6, <1>7

LEMMA DeleteTyped ==
  ASSUME AccountsTyped, NEW i \in DOMAIN calls, DeleteTenant(i)
  PROVE  AccountsTyped'
<1>1. PICK t : t = calls[i].at[1]
  OBVIOUS
<1>2. /\ calls[i].pc = "delete" /\ calls[i].at \in Pair /\ t \in tenants /\ t \in Tenant
      /\ calls \in Seq(Task) /\ tenants \subseteq Tenant
  BY <1>1, CallHolds, DeleteIs DEF AccountsTyped, RowsTyped
<1>3. /\ tenants' = tenants \ {t} /\ seeded' = seeded \ {t} /\ teams' = teams \ {t}
      /\ groups' = {r \in groups : r[1][1] # t}
      /\ left' = left \cup {p \in Pair : p[1] = t /\ member[p] # None}
      /\ member' = [p \in Pair |-> IF p[1] = t THEN None ELSE member[p]]
      /\ UNCHANGED <<setup, started, failures, unsure>> /\ End(i) /\ ~Referred(t, i)
  BY <1>1 DEF DeleteTenant, Same
<1>4. \A x \in Session : sessions'[x] \in {NoSession} \cup Opened'
  <2> TAKE x \in Session
  <2>1. sessions[x] \in {NoSession} \cup Opened
    BY DEF AccountsTyped, RowsTyped
  <2>2. CASE \E m \in calls[i].read :
               /\ m[2] \in tenants \ {t} /\ sessions[x] \in Opened
               /\ sessions'[x] = [sessions[x] EXCEPT !.tenant = m[2], !.guest = FALSE]
    BY <1>3, <2>2 DEF Opened
  <2>3. CASE sessions'[x] = NoSession
    BY <2>3
  <2>4. CASE sessions[x].tenant # t /\ sessions'[x] = sessions[x]
    BY <1>3, <2>1, <2>4 DEF Opened
  <2>5. \/ \E m \in calls[i].read :
             /\ m[1] = x /\ m[2] \in tenants \ {calls[i].at[1]} /\ sessions[x] \in Opened
             /\ sessions'[x] = [sessions[x] EXCEPT !.tenant = m[2], !.guest = FALSE]
        \/ sessions[x].tenant = calls[i].at[1] /\ ~Held(x) /\ sessions'[x] = NoSession
        \/ sessions[x].tenant # calls[i].at[1] /\ sessions'[x] = sessions[x]
    BY DeleteIs
  <2> QED
    BY <1>1, <2>2, <2>3, <2>4, <2>5
<1>5. sessions' \in [Session -> {NoSession} \cup Opened']
  BY <1>4, DeleteIs
<1>6. RowsTyped'
  BY <1>2, <1>3, <1>5 DEF AccountsTyped, RowsTyped
<1>7. \A c \in Rest(i) : c.pc = "delete" =>
        \A m \in c.read : sessions'[m[1]] = sessions[m[1]] /\ m[2] \in tenants'
  <2> TAKE c \in Rest(i)
  <2> SUFFICES ASSUME c.pc = "delete" PROVE \A m \in c.read : sessions'[m[1]] = sessions[m[1]] /\ m[2] \in tenants'
    OBVIOUS
  <2> TAKE m \in c.read
  <2>1. m[2] \in tenants
    BY MovedIsThere, RestIn
  <2>2. m[2] # t
    BY <1>3 DEF Rest, Referred
  <2> QED
    BY <1>3, <2>1, <2>2, DeleteSparesOthers
<1>8. \A c \in Rest(i) : c.pc = "backfill" => \A r \in c.read : r[1][1] \in tenants'
  <2> TAKE c \in Rest(i)
  <2>1. CallTyped(c)
    BY RestIn DEF AccountsTyped, CallsTyped
  <2>2. c.pc = "backfill" => \A r \in c.read : r[1][1] # t
    BY <1>3 DEF Rest, Referred
  <2> QED
    BY <1>3, <2>1, <2>2 DEF CallTyped
<1>9. \A c \in Rest(i) : CallTyped(c)' /\ MoveSound(c)'
  BY <1>7, <1>8, RestSound
<1>10. Carries(i, {}) /\ calls' \in Seq(Task) /\ Len(calls') <= Len(calls)
  BY <1>2, <1>3, EndCarries
<1> QED
  BY <1>6, <1>9, <1>10, CarriesTyped

LEMMA FailTyped ==
  ASSUME AccountsTyped, NEW i \in DOMAIN calls, DeletionEnds(i) \/ CallFails(i)
  PROVE  AccountsTyped'
<1>1. UNCHANGED <<setup, started, rows, left>> /\ End(i)
  BY DEF DeletionEnds, CallFails, Same, history
<1>2. failures' \in 0..MaxFailures
  BY AccountsAssumption DEF DeletionEnds, CallFails, Same, AccountsTyped, RowsTyped
<1>3. unsure' \subseteq Pair
  <2>1. CASE DeletionEnds(i)
    BY <2>1 DEF DeletionEnds, history, AccountsTyped, RowsTyped
  <2>2. CASE CallFails(i)
    BY <2>2, CallHolds DEF CallFails, AccountsTyped, RowsTyped
  <2> QED
    BY <2>1, <2>2
<1>4. RowsTyped'
  BY <1>1, <1>2, <1>3 DEF AccountsTyped, RowsTyped, rows, Opened
<1> QED
  BY <1>1, <1>4, EndTyped DEF rows

\* Steps of no call.
LEMMA EventTyped ==
  ASSUME AccountsTyped, Event, RowsTyped',
         \A c \in ToSet(calls) : CallTyped(c)' /\ MoveSound(c)'
  PROVE  AccountsTyped'
<1>1. calls' = calls
  BY DEF Event
<1>2. ToSet(calls)' = ToSet(calls)
  BY <1>1 DEF ToSet
<1>3. CallsTyped'
  BY <1>1, <1>2 DEF AccountsTyped, CallsTyped
<1>4. HeldOnce'
  BY <1>1 DEF AccountsTyped, HeldOnce
<1> QED
  BY <1>3, <1>4 DEF AccountsTyped

LEMMA ResolvesIs ==
  ASSUME AccountsTyped, NEW x \in Session, Resolves(x)
  PROVE  /\ sessions[x] # NoSession /\ sessions[x] \in Opened
         /\ sessions[x].tenant \in tenants /\ sessions[x].tenant \in Tenant
         /\ sessions[x].user \in User
BY DEF AccountsTyped, RowsTyped, Opened, Resolves

LEMMA CreateTyped ==
  ASSUME AccountsTyped, NEW x \in Session, NEW t \in Tenant, CreateTenant(x, t)
  PROVE  AccountsTyped'
<1>1. sessions[x] \in Opened /\ sessions[x].user \in User /\ ~Held(x) /\ t \notin tenants
  BY ResolvesIs DEF CreateTenant
<1>2. PICK p \in Pair : p = <<t, sessions[x].user>> /\ p[1] = t
  <2>1. PICK u \in User : u = sessions[x].user
    BY <1>1
  <2>2. <<t, u>> \in Pair /\ <<t, u>>[1] = t
    BY DEF Pair
  <2> QED
    BY <2>1, <2>2
<1>3. /\ tenants' = tenants \cup {t} /\ member' = [member EXCEPT ![p] = "owner"]
      /\ left' = left \ {p} /\ UNCHANGED <<setup, seeded, teams, groups, unsure, failures>>
      /\ started' = started + 1 /\ started < MaxCalls /\ Event
  BY <1>2 DEF CreateTenant, Event
<1>4. PICK row \in Opened' : row = [sessions[x] EXCEPT !.tenant = t, !.guest = FALSE]
  BY <1>1, <1>3 DEF Opened
<1>5. sessions' = [sessions EXCEPT ![x] = row]
  BY <1>4 DEF CreateTenant
<1>6. Opened \subseteq Opened' /\ started' \in 0..MaxCalls /\ "owner" \in Role
  BY <1>3, AccountsAssumption DEF Opened, AccountsTyped, RowsTyped
<1>7. sessions' \in [Session -> {NoSession} \cup Opened']
  BY <1>5, <1>6 DEF AccountsTyped, RowsTyped
<1>8. RowsTyped'
  BY <1>2, <1>3, <1>6, <1>7 DEF AccountsTyped, RowsTyped
<1>9. ASSUME NEW c \in ToSet(calls) PROVE CallTyped(c)' /\ MoveSound(c)'
  <2>1. CallTyped(c) /\ MoveSound(c)
    BY DEF AccountsTyped, CallsTyped
  <2>2. c.pc = "delete" => \A m \in c.read : m[1] # x /\ m[1] \in Session
    BY <1>1, MovedIsThere DEF Held, ToSet
  <2>3. c.pc = "delete" => \A m \in c.read : sessions'[m[1]] = sessions[m[1]]
    BY <1>5, <2>2 DEF AccountsTyped, RowsTyped
  <2> QED
    BY <1>3, <2>1, <2>3 DEF CallTyped, MoveSound
<1> QED
  BY <1>3, <1>8, <1>9, EventTyped

LEMMA GroupTyped ==
  ASSUME AccountsTyped, NEW x \in Session, CreateGroup(x) \/ DeleteGroup(x)
  PROVE  AccountsTyped'
<1>1. sessions[x].tenant \in tenants
  BY ResolvesIs DEF CreateGroup, DeleteGroup, Manages
<1>2. /\ Event /\ started' \in 0..MaxCalls
      /\ UNCHANGED <<setup, tenants, seeded, member, sessions, history, failures>>
  BY AccountsAssumption DEF CreateGroup, DeleteGroup, Event, AccountsTyped, RowsTyped
<1>3. /\ teams' \subseteq tenants /\ groups' \subseteq groups
      /\ \A r \in groups' : r[1][1] \in IF r[2] = Team THEN teams' ELSE seeded
  BY <1>1 DEF CreateGroup, DeleteGroup, AccountsTyped, RowsTyped
<1>4. RowsTyped'
  BY <1>2, <1>3 DEF AccountsTyped, RowsTyped, history, Opened
<1>5. \A c \in ToSet(calls) : CallTyped(c)' /\ MoveSound(c)'
  BY <1>2, SoundStays DEF AccountsTyped, CallsTyped
<1> QED
  BY <1>2, <1>4, <1>5, EventTyped

-----------------------------------------------------------------------------
\* The calls that begin.
LEMMA CallIs ==
  ASSUME NEW pc \in Pc, NEW at \in Pair \cup {AboutAll}, NEW role \in Role \cup {None},
         NEW custom \in {None, Team, "nothing", "guest"}, NEW row \in Session \cup {None}
  PROVE  /\ Call(pc, at, role, custom, row) \in Task
         /\ Call(pc, at, role, custom, row).pc = pc /\ Call(pc, at, role, custom, row).at = at
         /\ Call(pc, at, role, custom, row).role = role
         /\ Call(pc, at, role, custom, row).custom = custom
         /\ Call(pc, at, role, custom, row).row = row
BY DEF Call, Task

\* Every call that begins is a task of its own, not yet at a step that changes a row.
Fitting(c) ==
  /\ c \in Task /\ CallTyped(c)
  /\ c.pc \notin {"swap", "grant", "join", "leave", "delete"}
  /\ c.pc = "backfill" => \A r \in c.read : r[2] = member[r[1]]
  /\ c.pc = "switch" => c.row \in Session /\ sessions[c.row].user = c.at[2]
  /\ c.pc = "switch" \/ (c.pc = "session" /\ c.custom # "guest") => member[c.at] # None

Enters(c) == Fitting(c) /\ Begin(c) /\ started' \in 0..MaxCalls

LEMMA StartedOf ==
  ASSUME AccountsTyped, NEW c, Start(c)
  PROVE  Begin(c) /\ started' \in 0..MaxCalls
BY AccountsAssumption DEF AccountsTyped, RowsTyped, Start

LEMMA UserStarts ==
  ASSUME AccountsTyped, NEW u \in User, StartSetup(u) \/ StartLogin(u) \/ StartOAuth(u)
  PROVE  \E c \in Task : Enters(c)
<1>1. "owner" \in Role /\ Default \in Tenant
  BY AccountsAssumption
<1>2. CASE StartSetup(u)
  <2>1. PICK c : c = Call("admin", <<Default, u>>, "owner", None, None)
    OBVIOUS
  <2>2. <<Default, u>> \in Pair /\ <<Default, u>>[1] = Default
    BY <1>1 DEF Pair
  <2>3. c \in Task /\ c.pc = "admin" /\ c.at = <<Default, u>>
    BY <1>1, <2>1, <2>2, CallIs DEF Pc
  <2>4. Fitting(c)
    BY <2>2, <2>3, NamesApart DEF Fitting, CallTyped
  <2>5. Begin(c) /\ started' \in 0..MaxCalls
    BY <1>2, <2>1, StartedOf DEF StartSetup
  <2> QED
    BY <2>3, <2>4, <2>5 DEF Enters
<1>3. CASE StartLogin(u)
  <2>1. PICK t \in MembershipsOf(u) : Start(Call("session", <<t, u>>, None, None, None))
    BY <1>3 DEF StartLogin
  <2>2. PICK c : c = Call("session", <<t, u>>, None, None, None)
    OBVIOUS
  <2>3. <<t, u>> \in Pair /\ member[<<t, u>>] # None
    BY <2>1 DEF Pair, MembershipsOf, AccountsTyped, RowsTyped
  <2>4. c \in Task /\ c.pc = "session" /\ c.at = <<t, u>>
    BY <2>2, <2>3, CallIs DEF Pc
  <2>5. Fitting(c)
    BY <2>3, <2>4, NamesApart DEF Fitting, CallTyped
  <2>6. Begin(c) /\ started' \in 0..MaxCalls
    BY <2>1, <2>2, StartedOf
  <2> QED
    BY <2>4, <2>5, <2>6 DEF Enters
<1>4. CASE StartOAuth(u)
  <2>1. PICK c : c = Call("session", <<Default, u>>, None, "guest", None)
    OBVIOUS
  <2>2. <<Default, u>> \in Pair
    BY <1>1 DEF Pair
  <2>3. c \in Task /\ c.pc = "session" /\ c.at = <<Default, u>> /\ c.custom = "guest"
    BY <2>1, <2>2, CallIs DEF Pc
  <2>4. Fitting(c)
    BY <2>2, <2>3, NamesApart DEF Fitting, CallTyped
  <2>5. Begin(c) /\ started' \in 0..MaxCalls
    BY <1>4, <2>1, StartedOf DEF StartOAuth
  <2> QED
    BY <2>3, <2>4, <2>5 DEF Enters
<1> QED
  BY <1>2, <1>3, <1>4

LEMMA AdminStarts ==
  ASSUME AccountsTyped, NEW x \in Session, Users(x)
  PROVE  \E c \in Task : Enters(c)
<1>1. PICK u \in User :
        \/ StartRemove(x, u)
        \/ \E role \in Role : StartAdd(x, u, role)
        \/ \E role \in Role \cup {None}, custom \in {None, Team, "nothing"} :
             StartPatch(x, u, role, custom)
  BY DEF Users
<1>2. Manages(x)
  BY <1>1 DEF StartRemove, StartAdd, StartPatch
<1>3. PICK p \in Pair : p = <<sessions[x].tenant, u>>
  BY <1>2, ResolvesIs DEF Manages, Pair
<1>4. CASE StartRemove(x, u)
  <2>1. PICK c : c = Call("wipe", p, None, None, None)
    OBVIOUS
  <2>2. c \in Task /\ c.pc = "wipe" /\ c.at = p
    BY <2>1, CallIs DEF Pc
  <2>3. Fitting(c)
    BY <2>2, NamesApart DEF Fitting, CallTyped
  <2>4. Begin(c) /\ started' \in 0..MaxCalls
    BY <1>3, <1>4, <2>1, StartedOf DEF StartRemove
  <2> QED
    BY <2>2, <2>3, <2>4 DEF Enters
<1>5. ASSUME NEW role \in Role, StartAdd(x, u, role) PROVE \E c \in Task : Enters(c)
  <2>1. PICK c : c = Call("upsert", p, role, None, None)
    OBVIOUS
  <2>2. c \in Task /\ c.pc = "upsert" /\ c.at = p /\ c.role = role
    BY <2>1, CallIs DEF Pc
  <2>3. Fitting(c)
    BY <2>2, NamesApart DEF Fitting, CallTyped
  <2>4. Begin(c) /\ started' \in 0..MaxCalls
    BY <1>3, <1>5, <2>1, StartedOf DEF StartAdd
  <2> QED
    BY <2>2, <2>3, <2>4 DEF Enters
<1>6. ASSUME NEW role \in Role \cup {None}, NEW custom \in {None, Team, "nothing"},
             StartPatch(x, u, role, custom)
      PROVE  \E c \in Task : Enters(c)
  <2>1. PICK pc \in {"clear", "role"} : pc = IF role = None THEN "clear" ELSE "role"
    OBVIOUS
  <2>2. PICK c : c = Call(pc, p, role, custom, None)
    OBVIOUS
  <2>3. c \in Task /\ c.pc = pc /\ c.at = p /\ c.role = role
    BY <2>2, CallIs DEF Pc
  <2>4. Fitting(c)
    BY <2>1, <2>3, NamesApart DEF Fitting, CallTyped
  <2>5. Begin(c) /\ started' \in 0..MaxCalls
    BY <1>3, <1>6, <2>1, <2>2, StartedOf DEF StartPatch
  <2> QED
    BY <2>3, <2>4, <2>5 DEF Enters
<1> QED
  BY <1>1, <1>4, <1>5, <1>6

LEMMA TenantStarts ==
  ASSUME AccountsTyped, NEW x \in Session, NEW t \in Tenant, StartSwitch(x, t) \/ StartDelete(x, t)
  PROVE  \E c \in Task : Enters(c)
<1>1. sessions[x].user \in User
  BY ResolvesIs DEF StartSwitch, StartDelete
<1>2. PICK p \in Pair : p = <<t, sessions[x].user>> /\ p[2] = sessions[x].user
  <2>1. PICK u \in User : u = sessions[x].user
    BY <1>1
  <2>2. <<t, u>> \in Pair /\ <<t, u>>[2] = u
    BY DEF Pair
  <2> QED
    BY <2>1, <2>2
<1>3. CASE StartSwitch(x, t)
  <2>1. PICK c : c = Call("switch", p, None, None, x)
    OBVIOUS
  <2>2. c \in Task /\ c.pc = "switch" /\ c.at = p /\ c.row = x
    BY <2>1, CallIs DEF Pc
  <2>3. member[p] # None
    BY <1>2, <1>3 DEF StartSwitch, MembershipsOf
  <2>4. Fitting(c)
    BY <1>2, <2>2, <2>3, NamesApart DEF Fitting, CallTyped
  <2>5. Begin(c) /\ started' \in 0..MaxCalls
    BY <1>2, <1>3, <2>1, StartedOf DEF StartSwitch
  <2> QED
    BY <2>2, <2>4, <2>5 DEF Enters
<1>4. CASE StartDelete(x, t)
  <2>1. PICK c : c = Call("move", p, None, None, None)
    OBVIOUS
  <2>2. c \in Task /\ c.pc = "move" /\ c.at = p
    BY <2>1, CallIs DEF Pc
  <2>3. Fitting(c)
    BY <2>2, NamesApart DEF Fitting, CallTyped
  <2>4. Begin(c) /\ started' \in 0..MaxCalls
    BY <1>2, <1>4, <2>1, StartedOf DEF StartDelete
  <2> QED
    BY <2>2, <2>3, <2>4 DEF Enters
<1> QED
  BY <1>3, <1>4

LEMMA BootStarts ==
  ASSUME AccountsTyped, StartBoot
  PROVE  \E c \in Task : Enters(c) /\ c.pc = "backfill"
<1> DEFINE b == Call("backfill", AboutAll, None, None, None)
           read == {<<<<t, u>>, member[<<t, u>>]>> : t \in tenants, u \in User}
<1>1. tenants \subseteq Tenant /\ member \in [Pair -> Role \cup {None}]
  BY DEF AccountsTyped, RowsTyped
<1>2. b \in Task /\ b.pc = "backfill" /\ b.at = AboutAll
  BY CallIs DEF Pc
<1>3. ASSUME NEW r \in read
      PROVE  r \in Pair \X (Role \cup {None}) /\ r[1][1] \in tenants /\ r[2] = member[r[1]]
  <2>1. PICK t \in tenants, u \in User : r = <<<<t, u>>, member[<<t, u>>]>>
    OBVIOUS
  <2>2. PICK p \in Pair : p = <<t, u>> /\ p[1] = t
    <3>1. <<t, u>> \in Pair /\ <<t, u>>[1] = t
      BY <1>1 DEF Pair
    <3> QED
      BY <3>1
  <2>3. r = <<p, member[p]>> /\ member[p] \in Role \cup {None}
    BY <1>1, <2>1, <2>2
  <2> QED
    BY <2>2, <2>3
<1> HIDE DEF read
<1>4. read \in SUBSET ((Pair \X (Role \cup {None})) \cup (Session \X Tenant))
  BY <1>3
<1>5. started' = started /\ Begin([b EXCEPT !.read = read])
  BY DEF StartBoot, read
<1> HIDE DEF b
<1>6. PICK c : c = [b EXCEPT !.read = read]
  OBVIOUS
<1>7. c \in Task /\ c.pc = "backfill" /\ c.at = AboutAll /\ c.read = read
  BY <1>2, <1>4, <1>6 DEF Task
<1>8. Fitting(c)
  BY <1>3, <1>7 DEF Fitting, CallTyped
<1> QED
  BY <1>5, <1>6, <1>7, <1>8 DEF Enters, AccountsTyped, RowsTyped

LEMMA EmptyCalls ==
  <<>> \in Seq(Task) /\ Len(<<>>) = 0 /\ DOMAIN <<>> = {}
BY EmptySeq

LEMMA AccountsTypedInit ==
  ASSUME Init
  PROVE  AccountsTyped
<1>1. /\ setup \in BOOLEAN /\ calls = <<>> /\ unsure = {} /\ left = {} /\ started = 0 /\ failures = 0
      /\ seeded \subseteq tenants /\ teams \subseteq tenants
      /\ groups = {<<p, member[p]>> : p \in {q \in Pair : member[q] # None /\ q[1] \in seeded}}
  BY DEF Init
<1>2. /\ tenants \subseteq Tenant /\ member \in [Pair -> Role \cup {None}]
      /\ \A p \in Pair : member[p] # None => p[1] \in tenants
      /\ sessions \in [Session -> {NoSession} \cup Opened]
  <2>1. CASE Fresh
    BY <2>1 DEF Fresh
  <2>2. CASE Installed
    <3>1. tenants \subseteq Tenant
      BY <2>2 DEF Installed
    <3>2. member \in [Pair -> Role \cup {None}] /\ \A p \in Pair : p[1] \notin tenants => member[p] = None
      BY <2>2 DEF Installed
    <3>3. [user : User, tenant : tenants, guest : {FALSE}] \subseteq Opened
      BY DEF Opened
    <3>4. sessions \in [Session -> {NoSession} \cup [user : User, tenant : tenants, guest : {FALSE}]]
      BY <2>2 DEF Installed
    <3>5. sessions \in [Session -> {NoSession} \cup Opened]
      BY <3>3, <3>4
    <3> QED
      BY <3>1, <3>2, <3>5
  <2> QED
    BY <2>1, <2>2 DEF Init
<1>3. ASSUME NEW r \in groups
      PROVE  /\ r \in Pair \X (Role \cup {Team}) /\ r[2] # Team /\ r[1][1] \in seeded
             /\ r[2] = member[r[1]]
  <2>1. PICK p \in Pair : member[p] # None /\ p[1] \in seeded /\ r = <<p, member[p]>>
    BY <1>1
  <2>2. member[p] \in Role
    BY <1>2, <2>1
  <2> QED
    BY <2>1, <2>2, NamesApart
<1>4. 0 \in 0..MaxCalls /\ 0 \in 0..MaxFailures /\ 0 <= MaxActive
  BY AccountsAssumption
<1>5. RowsTyped
  BY <1>1, <1>2, <1>3, <1>4 DEF RowsTyped
<1>6. CallsTyped /\ HeldOnce
  BY <1>1, <1>4, EmptyCalls DEF CallsTyped, HeldOnce, ToSet
<1> QED
  BY <1>5, <1>6 DEF AccountsTyped

LEMMA EnterTyped ==
  ASSUME AccountsTyped, NEW c \in Task, Enters(c)
  PROVE  AccountsTyped'
BY BeginTyped DEF Enters, Fitting

LEMMA AccountsTypedStep ==
  ASSUME AccountsTyped, [Next]_vars
  PROVE  AccountsTyped'
<1>1. ASSUME NEW u \in User, StartSetup(u) \/ StartLogin(u) \/ StartOAuth(u) PROVE AccountsTyped'
  BY <1>1, UserStarts, EnterTyped
<1>2. ASSUME NEW x \in Session, Users(x) PROVE AccountsTyped'
  BY <1>2, AdminStarts, EnterTyped
<1>3. ASSUME NEW x \in Session, Tenants(x) PROVE AccountsTyped'
  BY <1>3, TenantStarts, EnterTyped, CreateTyped DEF Tenants
<1>4. ASSUME NEW x \in Session, CreateGroup(x) \/ DeleteGroup(x) PROVE AccountsTyped'
  BY <1>4, GroupTyped
<1>5. CASE StartBoot
  BY <1>5, BootStarts, EnterTyped
<1>6. ASSUME NEW i \in DOMAIN calls, CallStep(i) \/ CallFails(i) PROVE AccountsTyped'
  BY <1>6, SetupTyped, BootTyped, RoleTyped, MemberTyped, SessionTyped, SwitchTyped, MoveTyped,
     DeleteTyped, FailTyped DEF CallStep
<1>7. CASE UNCHANGED vars
  <2>1. UNCHANGED <<setup, rows, calls, history, started, failures>>
    BY <1>7 DEF vars
  <2>2. RowsTyped'
    BY <2>1 DEF AccountsTyped, RowsTyped, rows, history, Opened
  <2>3. CallsTyped' /\ HeldOnce'
    BY <2>1, SoundStays DEF AccountsTyped, CallsTyped, HeldOnce, rows, ToSet
  <2> QED
    BY <2>2, <2>3 DEF AccountsTyped
<1> QED
  BY <1>1, <1>2, <1>3, <1>4, <1>5, <1>6, <1>7 DEF Next

\* The types of the rows of accounts, for any users, tenants, sessions, calls and
\* failures; in particular no membership, group or session of a tenant that is gone.
THEOREM AccountsTypeCorrect == Spec => []TypeOK
<1>1. Init => AccountsTyped
  BY AccountsTypedInit
<1>2. AccountsTyped /\ [Next]_vars => AccountsTyped'
  BY AccountsTypedStep
<1>3. AccountsTyped => TypeOK
  BY AccountsTypedTypeOK
<1> QED
  BY <1>1, <1>2, <1>3, PTL DEF Spec

-----------------------------------------------------------------------------
(***************************************************************************)
(* The built-in groups of members.  They fit the role of a member nobody   *)
(* works on, unless the history says that a failure or an overlap left     *)
(* them open.  The argument is about calls that met no other: what one of  *)
(* them has done so far, nobody else has undone.                           *)
(***************************************************************************)
Builtins(p) == {g \in Role : <<p, g>> \in groups}
Fits(p) == Builtins(p) \subseteq {member[p]}

\* Calls between the two statements of a change of groups.
Midway == {"swap", "grant", "join"}
Working(p) == \E c \in ToSet(calls) : c.at = p /\ c.pc \in Midway

\* What a call that met no other has reached.
AloneSound(c) ==
  c.alone =>
    /\ c.pc \in Midway => member[c.at] = c.role \/ c.at[1] \notin seeded
    /\ c.pc \in {"grant", "leave"} => Builtins(c.at) = {}
    /\ c.pc = "join" /\ c.at \notin unsure => Builtins(c.at) \subseteq {c.role}

\* Who meets another call is not alone any more.
Meets ==
  \A i, j \in DOMAIN calls : i # j /\ Meet(calls[i], calls[j]) => ~calls[i].alone

Follows == \A p \in Pair : p \notin unsure /\ ~Working(p) => Fits(p)

\* What a boot has read is the role still.
ReadSound(c) ==
  c.pc = "backfill" =>
    \A r \in c.read : r[2] # None /\ r[1] \notin unsure /\ ~Working(r[1]) => r[2] = member[r[1]]

\* The inductive invariant of GroupsFollowRole.
GroupsInv ==
  /\ AccountsTyped /\ Meets /\ Follows
  /\ \A c \in ToSet(calls) : AloneSound(c) /\ ReadSound(c)

LEMMA GroupsInvFollow ==
  ASSUME GroupsInv
  PROVE  GroupsFollowRole
<1> SUFFICES ASSUME NEW p \in Pair, p \notin unsure, Idle(p)
             PROVE  GroupsOf(p, Role) \subseteq {<<p, member[p]>>}
  BY DEF GroupsFollowRole
<1>1. ~Working(p)
  BY DEF Working, Idle, ToSet
<1>2. Fits(p)
  BY <1>1 DEF GroupsInv, Follows
<1>3. ASSUME NEW r \in GroupsOf(p, Role) PROVE r = <<p, member[p]>>
  <2>1. r \in groups /\ r[1] = p /\ r[2] \in Role
    BY DEF GroupsOf
  <2>2. r \in Pair \X (Role \cup {Team})
    BY <2>1 DEF GroupsInv, AccountsTyped, RowsTyped
  <2>3. r = <<p, r[2]>>
    BY <2>1, <2>2
  <2>4. r[2] \in Builtins(p)
    BY <2>1, <2>3 DEF Builtins
  <2> QED
    BY <1>2, <2>3, <2>4 DEF Fits
<1> QED
  BY <1>3

LEMMA MeetsRest ==
  ASSUME Meets, NEW i \in DOMAIN calls, NEW c \in Rest(i),
         c.at = calls[i].at \/ c.at = AboutAll \/ calls[i].at = AboutAll
  PROVE  ~c.alone /\ ~calls[i].alone
<1>1. PICK j \in DOMAIN calls \ {i} : c = calls[j]
  BY DEF Rest
<1>2. Meet(calls[i], calls[j]) /\ Meet(calls[j], calls[i])
  BY <1>1 DEF Meet
<1> QED
  BY <1>1, <1>2 DEF Meets

LEMMA CarriesMeets ==
  ASSUME Meets, NEW i \in DOMAIN calls, NEW N, Carries(i, N),
         \A c \in N : c.at = calls[i].at /\ (c.alone => calls[i].alone)
  PROVE  Meets'
<1>1. PICK pos \in [DOMAIN calls' -> DOMAIN calls] :
        /\ \A k, l \in DOMAIN calls' : pos[k] = pos[l] => k = l
        /\ \A k \in DOMAIN calls' :
             IF pos[k] = i THEN calls'[k] \in N ELSE calls'[k] = calls[pos[k]]
  BY DEF Carries
<1>2. \A k \in DOMAIN calls' : /\ calls'[k].at = calls[pos[k]].at
                               /\ calls'[k].alone => calls[pos[k]].alone
  BY <1>1
<1>3. ASSUME NEW k \in DOMAIN calls', NEW l \in DOMAIN calls', k # l,
             calls'[k].at = calls'[l].at \/ AboutAll \in {calls'[k].at, calls'[l].at}
      PROVE  ~calls'[k].alone
  <2>1. pos[k] \in DOMAIN calls /\ pos[l] \in DOMAIN calls /\ pos[k] # pos[l]
    BY <1>1, <1>3
  <2>2. Meet(calls[pos[k]], calls[pos[l]])
    BY <1>2, <1>3 DEF Meet
  <2> QED
    BY <1>2, <2>1, <2>2 DEF Meets
<1> QED
  BY <1>3 DEF Meets, Meet

\* A step of a call about p that changes nothing about other members.
LEMMA LocalStep ==
  ASSUME GroupsInv, AccountsTyped', NEW i \in DOMAIN calls, NEW N, Carries(i, N),
         NEW p \in Pair, calls[i].at = p,
         \A c \in N : /\ c.at = p /\ (c.alone => calls[i].alone) /\ c.pc # "backfill"
                      /\ AloneSound(c)',
         seeded' = seeded,
         \A q \in Pair : q # p => /\ Builtins(q)' = Builtins(q) /\ member'[q] = member[q]
                                  /\ q \in unsure' <=> q \in unsure,
         p \notin unsure' /\ ~Working(p)' => Fits(p)',
         p \notin unsure' /\ ~Working(p)' =>
           \A c \in Rest(i) : c.pc = "backfill" =>
             \A r \in c.read : r[1] = p /\ r[2] # None => r[2] = member'[p]
  PROVE  GroupsInv'
<1>1. /\ calls \in Seq(Task) /\ Meets /\ Follows
      /\ \A c \in ToSet(calls) : CallTyped(c) /\ AloneSound(c) /\ ReadSound(c)
  BY DEF GroupsInv, AccountsTyped, CallsTyped
<1>2. /\ ToSet(calls)' = Rest(i) \cup N /\ ToSet(calls) = Rest(i) \cup {calls[i]}
      /\ Rest(i) \subseteq Task
  BY <1>1, CarriedSet, RestIs
<1>3. Meets'
  BY <1>1, CarriesMeets
<1>4. ASSUME NEW q \in Pair, q # p PROVE Working(q)' <=> Working(q)
  BY <1>2, <1>4 DEF Working
<1>5. ASSUME NEW c \in Rest(i) PROVE AloneSound(c)'
  <2>1. CASE c.at = p \/ c.at = AboutAll
    BY <1>1, <2>1, MeetsRest DEF AloneSound
  <2>2. CASE ~ (c.at = p \/ c.at = AboutAll)
    <3>1. c \in Task /\ AloneSound(c)
      BY <1>1, <1>2
    <3>2. c.at \in Pair /\ c.at # p
      BY <2>2, <3>1 DEF Task
    <3>3. PICK q \in Pair : q = c.at
      BY <3>2
    <3>4. Builtins(q)' = Builtins(q) /\ member'[q] = member[q] /\ (q \in unsure' <=> q \in unsure)
      BY <3>2, <3>3
    <3> QED
      BY <3>1, <3>3, <3>4 DEF AloneSound
  <2> QED
    BY <2>1, <2>2
<1>6. Follows'
  <2> SUFFICES ASSUME NEW q \in Pair, q \notin unsure', ~Working(q)' PROVE Fits(q)'
    BY DEF Follows
  <2>1. CASE q = p
    BY <2>1
  <2>2. CASE q # p
    <3>1. Fits(q)
      BY <1>1, <1>4, <2>2 DEF Follows
    <3> QED
      BY <2>2, <3>1 DEF Fits
  <2> QED
    BY <2>1, <2>2
<1>7. ASSUME NEW c \in Rest(i) PROVE ReadSound(c)'
  <2> SUFFICES ASSUME c.pc = "backfill", NEW r \in c.read, r[2] # None, r[1] \notin unsure',
                      ~Working(r[1])'
               PROVE  r[2] = member'[r[1]]
    BY DEF ReadSound
  <2>1. CallTyped(c) /\ ReadSound(c)
    BY <1>1, <1>2
  <2>2. PICK q \in Pair : q = r[1]
    BY <2>1 DEF CallTyped
  <2>3. CASE q = p
    BY <2>2, <2>3
  <2>4. CASE q # p
    BY <1>4, <2>1, <2>2, <2>4 DEF ReadSound
  <2> QED
    BY <2>3, <2>4
<1>8. \A c \in N : AloneSound(c)' /\ ReadSound(c)'
  BY DEF ReadSound
<1> QED
  BY <1>2, <1>3, <1>5, <1>6, <1>7, <1>8 DEF GroupsInv

\* The same for a step that leaves roles and built-in groups as they are.
LEMMA AsideStep ==
  ASSUME GroupsInv, AccountsTyped', NEW i \in DOMAIN calls, NEW N, Carries(i, N),
         calls[i].pc \notin Midway \cup {"backfill"},
         \A c \in N : /\ c.at = calls[i].at /\ (c.alone => calls[i].alone)
                      /\ c.pc \notin Midway \cup {"backfill", "leave"},
         seeded' = seeded, member' = member, unsure' = unsure,
         \A q \in Pair : Builtins(q)' = Builtins(q)
  PROVE  GroupsInv'
<1>1. PICK p \in Pair : p = calls[i].at
  BY CallHolds DEF GroupsInv
<1>2. calls \in Seq(Task) /\ Follows /\ \A c \in ToSet(calls) : ReadSound(c)
  BY DEF GroupsInv, AccountsTyped, CallsTyped
<1>3. /\ ToSet(calls)' = Rest(i) \cup N /\ ToSet(calls) = Rest(i) \cup {calls[i]}
  BY <1>2, CarriedSet, RestIs
<1>4. Working(p)' <=> Working(p)
  BY <1>3 DEF Working
<1>5. p \notin unsure' /\ ~Working(p)' => Fits(p)'
  BY <1>2, <1>4 DEF Follows, Fits
<1>6. p \notin unsure' /\ ~Working(p)' =>
        \A c \in Rest(i) : c.pc = "backfill" =>
          \A r \in c.read : r[1] = p /\ r[2] # None => r[2] = member'[p]
  BY <1>2, <1>3, <1>4 DEF ReadSound
<1>7. \A c \in N : AloneSound(c)'
  BY DEF AloneSound, Midway
<1> QED
  BY <1>1, <1>5, <1>6, <1>7, LocalStep

\* What is done to the groups of one member.
LEMMA DropOf ==
  ASSUME NEW p \in Pair, NEW K, groups' = groups \ GroupsOf(p, K)
  PROVE  /\ \A q \in Pair : q # p => Builtins(q)' = Builtins(q)
         /\ Role \subseteq K => Builtins(p)' = {}
         /\ (\A g \in K : g \notin Role) => Builtins(p)' = Builtins(p)
BY DEF Builtins, GroupsOf

LEMMA GrantOf ==
  ASSUME NEW p \in Pair, NEW role \in Role, groups' = Grant(p, role)
  PROVE  /\ \A q \in Pair : q # p => Builtins(q)' = Builtins(q)
         /\ Builtins(p)' \subseteq Builtins(p) \cup {role}
         /\ p[1] \notin seeded => Builtins(p)' = Builtins(p)
BY DEF Builtins, Grant

LEMMA GroupsStay ==
  ASSUME UNCHANGED groups
  PROVE  \A q \in Pair : Builtins(q)' = Builtins(q)
BY DEF Builtins

LEMMA NoneUnseeded ==
  ASSUME AccountsTyped, NEW p \in Pair, p[1] \notin seeded
  PROVE  Builtins(p) = {}
<1>1. ASSUME NEW g \in Role, <<p, g>> \in groups PROVE FALSE
  <2>1. g # Team
    BY NamesApart
  <2>2. <<p, g>>[1] = p /\ <<p, g>>[2] = g
    OBVIOUS
  <2> QED
    BY <1>1, <2>1, <2>2 DEF AccountsTyped, RowsTyped
<1> QED
  BY <1>1 DEF Builtins

LEMMA GroupsFacts ==
  ASSUME GroupsInv, NEW i \in DOMAIN calls
  PROVE  /\ AccountsTyped /\ calls \in Seq(Task) /\ Meets /\ Follows
         /\ calls[i] \in Task /\ CallTyped(calls[i]) /\ AloneSound(calls[i]) /\ ReadSound(calls[i])
         /\ calls[i].pc # "backfill" => calls[i].at \in Pair
         /\ \A c \in Rest(i) : /\ c \in ToSet(calls) /\ CallTyped(c) /\ AloneSound(c) /\ ReadSound(c)
BY CallHolds, CallAt, RestIn DEF GroupsInv, AccountsTyped, CallsTyped

\* A boot that is under way meets every call.
LEMMA AloneNoBoot ==
  ASSUME GroupsInv, NEW i \in DOMAIN calls, calls[i].alone, NEW c \in Rest(i)
  PROVE  c.pc # "backfill" /\ c.at # calls[i].at
<1>1. Meets /\ CallTyped(c)
  BY GroupsFacts
<1> QED
  BY <1>1, MeetsRest DEF CallTyped

LEMMA SetupGroups ==
  ASSUME GroupsInv, AccountsTyped', NEW i \in DOMAIN calls, SetupAdmin(i)
  PROVE  GroupsInv'
<1>1. PICK p \in Pair : p = calls[i].at
  BY GroupsFacts DEF SetupAdmin
<1>2. /\ calls \in Seq(Task) /\ Follows /\ calls[i].pc = "admin"
      /\ \A c \in Rest(i) : ReadSound(c)
  BY GroupsFacts DEF SetupAdmin
<1>3. /\ To(i, "config") /\ UNCHANGED <<seeded, groups>>
      /\ unsure' = IF member[p] \in {None, "owner"} THEN unsure ELSE unsure \cup {p}
      /\ member' = [member EXCEPT ![p] = "owner"]
      /\ member \in [Pair -> Role \cup {None}]
  BY <1>1 DEF SetupAdmin, Same, GroupsInv, AccountsTyped, RowsTyped
<1>4. PICK new \in Task :
        /\ calls' = [calls EXCEPT ![i] = new] /\ new.pc = "config"
        /\ new.at = p /\ new.alone = calls[i].alone
  BY <1>1, <1>2, <1>3, ToIs DEF Pc
<1>5. Carries(i, {new}) /\ ToSet(calls)' = Rest(i) \cup {new}
      /\ ToSet(calls) = Rest(i) \cup {calls[i]}
  BY <1>2, <1>4, BecomeCarries, CarriedSet, RestIs
<1>6. \A q \in Pair : Builtins(q)' = Builtins(q)
  BY <1>3, GroupsStay
<1>7. Working(p)' <=> Working(p)
  BY <1>2, <1>4, <1>5 DEF Working, Midway
<1>8. p \notin unsure' => p \notin unsure /\ member[p] \in {None, "owner"} /\ member'[p] = "owner"
  BY <1>3
<1>9. p \notin unsure' /\ ~Working(p)' => Fits(p)'
  <2> SUFFICES ASSUME p \notin unsure', ~Working(p)' PROVE Fits(p)'
    OBVIOUS
  <2>1. Builtins(p) \subseteq {member[p]} /\ Builtins(p) \subseteq Role
    BY <1>2, <1>7, <1>8 DEF Follows, Fits, Builtins
  <2>2. Builtins(p) \subseteq {"owner"}
    BY <1>8, <2>1, NamesApart
  <2> QED
    BY <1>6, <1>8, <2>2 DEF Fits
<1>10. p \notin unsure' /\ ~Working(p)' =>
         \A c \in Rest(i) : c.pc = "backfill" =>
           \A r \in c.read : r[1] = p /\ r[2] # None => r[2] = member'[p]
  BY <1>2, <1>7, <1>8 DEF ReadSound
<1>11. AloneSound(new)'
  BY <1>4 DEF AloneSound, Midway
<1>12. \A q \in Pair : q # p => member'[q] = member[q] /\ (q \in unsure' <=> q \in unsure)
  BY <1>3
<1> QED
  BY <1>1, <1>3, <1>4, <1>5, <1>6, <1>9, <1>10, <1>11, <1>12, LocalStep

LEMMA UpdateGroups ==
  ASSUME GroupsInv, AccountsTyped', NEW i \in DOMAIN calls, UpdateRole(i)
  PROVE  GroupsInv'
<1>1. PICK p \in Pair : p = calls[i].at
  BY GroupsFacts DEF UpdateRole
<1>2. /\ calls \in Seq(Task) /\ calls[i].pc = "role" /\ member \in [Pair -> Role \cup {None}]
      /\ UNCHANGED <<seeded, groups, unsure>>
  BY GroupsFacts DEF UpdateRole, history, GroupsInv, AccountsTyped, RowsTyped
<1>3. \A q \in Pair : Builtins(q)' = Builtins(q)
  BY <1>2, GroupsStay
<1>4. CASE member[p] = None
  <2>1. End(i) /\ UNCHANGED member
    BY <1>1, <1>4 DEF UpdateRole
  <2>2. Carries(i, {})
    BY <1>2, <2>1, EndCarries
  <2> QED
    BY <1>2, <1>3, <2>1, <2>2, AsideStep DEF Midway
<1>5. CASE member[p] # None
  <2>1. To(i, "swap") /\ member' = [member EXCEPT ![p] = calls[i].role]
    BY <1>1, <1>5 DEF UpdateRole
  <2>2. PICK new \in Task :
          /\ calls' = [calls EXCEPT ![i] = new] /\ new.pc = "swap"
          /\ new.at = p /\ new.role = calls[i].role /\ new.alone = calls[i].alone
    BY <1>1, <1>2, <2>1, ToIs DEF Pc
  <2>3. Carries(i, {new}) /\ ToSet(calls)' = Rest(i) \cup {new}
    BY <1>2, <2>2, BecomeCarries, CarriedSet
  <2>4. Working(p)'
    BY <2>2, <2>3 DEF Working, Midway
  <2>5. member'[p] = new.role
    BY <1>2, <2>1, <2>2
  <2>6. AloneSound(new)'
    BY <2>2, <2>5 DEF AloneSound, Midway
  <2>7. \A q \in Pair : q # p => member'[q] = member[q]
    BY <1>2, <2>1
  <2> QED
    BY <1>1, <1>2, <1>3, <2>2, <2>3, <2>4, <2>6, <2>7, LocalStep
<1> QED
  BY <1>4, <1>5

LEMMA SwapGroups ==
  ASSUME GroupsInv, AccountsTyped', NEW i \in DOMAIN calls, DropBuiltin(i)
  PROVE  GroupsInv'
<1>1. PICK p \in Pair : p = calls[i].at
  BY GroupsFacts DEF DropBuiltin
<1>2. /\ calls \in Seq(Task) /\ calls[i].pc = "swap" /\ AloneSound(calls[i])
      /\ groups' = groups \ GroupsOf(p, Role) /\ To(i, "grant")
      /\ UNCHANGED <<seeded, member, unsure>>
  BY <1>1, GroupsFacts DEF DropBuiltin, Swapped, history
<1>3. Builtins(p)' = {} /\ \A q \in Pair : q # p => Builtins(q)' = Builtins(q)
  BY <1>2, DropOf
<1>4. PICK new \in Task :
        /\ calls' = [calls EXCEPT ![i] = new] /\ new.pc = "grant"
        /\ new.at = p /\ new.role = calls[i].role /\ new.alone = calls[i].alone
  BY <1>1, <1>2, ToIs DEF Pc
<1>5. Carries(i, {new}) /\ ToSet(calls)' = Rest(i) \cup {new}
  BY <1>2, <1>4, BecomeCarries, CarriedSet
<1>6. Working(p)'
  BY <1>4, <1>5 DEF Working, Midway
<1>7. AloneSound(new)'
  <2>1. calls[i].alone => member[p] = calls[i].role \/ p[1] \notin seeded
    BY <1>1, <1>2 DEF AloneSound, Midway
  <2> QED
    BY <1>2, <1>3, <1>4, <2>1 DEF AloneSound, Midway
<1> QED
  BY <1>1, <1>2, <1>3, <1>4, <1>5, <1>6, <1>7, LocalStep

LEMMA GrantGroups ==
  ASSUME GroupsInv, AccountsTyped', NEW i \in DOMAIN calls, GrantBuiltin(i)
  PROVE  GroupsInv'
<1>1. PICK p \in Pair : p = calls[i].at
  BY GroupsFacts DEF GrantBuiltin
<1>2. /\ AccountsTyped /\ calls \in Seq(Task) /\ calls[i].pc = "grant" /\ AloneSound(calls[i])
      /\ calls[i].role \in Role /\ groups' = Grant(p, calls[i].role)
      /\ UNCHANGED <<seeded, member>>
      /\ unsure' = IF calls[i].alone THEN unsure \ {p} ELSE unsure \cup {p}
      /\ End(i) \/ To(i, "clear")
  BY <1>1, GroupsFacts DEF GrantBuiltin, Settled, CallTyped
<1>3. /\ Builtins(p)' \subseteq Builtins(p) \cup {calls[i].role}
      /\ p[1] \notin seeded => Builtins(p)' = Builtins(p)
      /\ \A q \in Pair : q # p => Builtins(q)' = Builtins(q)
  BY <1>2, GrantOf
<1>4. p \notin unsure' => Fits(p)'
  <2> SUFFICES ASSUME calls[i].alone PROVE Fits(p)'
    BY <1>2
  <2>1. Builtins(p) = {} /\ (member[p] = calls[i].role \/ p[1] \notin seeded)
    BY <1>1, <1>2 DEF AloneSound, Midway
  <2> QED
    BY <1>2, <1>3, <2>1 DEF Fits
<1>5. p \notin unsure' =>
        \A c \in Rest(i) : c.pc = "backfill" =>
          \A r \in c.read : r[1] = p /\ r[2] # None => r[2] = member'[p]
  BY <1>2, AloneNoBoot
<1>6. \A q \in Pair : q # p => (q \in unsure' <=> q \in unsure)
  BY <1>2
<1>7. CASE End(i)
  <2>1. Carries(i, {})
    BY <1>2, <1>7, EndCarries
  <2> QED
    BY <1>1, <1>2, <1>3, <1>4, <1>5, <1>6, <2>1, LocalStep
<1>8. CASE To(i, "clear")
  <2>1. PICK new \in Task :
          /\ calls' = [calls EXCEPT ![i] = new] /\ new.pc = "clear"
          /\ new.at = p /\ new.alone = calls[i].alone
    BY <1>1, <1>2, <1>8, ToIs DEF Pc
  <2>2. Carries(i, {new})
    BY <1>2, <2>1, BecomeCarries
  <2>3. AloneSound(new)'
    BY <2>1 DEF AloneSound, Midway
  <2> QED
    BY <1>1, <1>2, <1>3, <1>4, <1>5, <1>6, <2>1, <2>2, <2>3, LocalStep
<1> QED
  BY <1>2, <1>7, <1>8

LEMMA UpsertGroups ==
  ASSUME GroupsInv, AccountsTyped', NEW i \in DOMAIN calls, UpsertMember(i)
  PROVE  GroupsInv'
<1>1. PICK p \in Pair : p = calls[i].at
  BY GroupsFacts DEF UpsertMember
<1>2. /\ AccountsTyped /\ calls \in Seq(Task) /\ calls[i].pc = "upsert" /\ Follows
      /\ member \in [Pair -> Role \cup {None}] /\ UNCHANGED <<seeded, groups, unsure>>
  BY GroupsFacts DEF UpsertMember, AccountsTyped, RowsTyped
<1>3. \A q \in Pair : Builtins(q)' = Builtins(q)
  BY <1>2, GroupsStay
<1>4. CASE p[1] \notin tenants
  <2>1. End(i) /\ UNCHANGED member
    BY <1>1, <1>4 DEF UpsertMember
  <2>2. Carries(i, {})
    BY <1>2, <2>1, EndCarries
  <2> QED
    BY <1>2, <1>3, <2>1, <2>2, AsideStep DEF Midway
<1>5. CASE p[1] \in tenants
  <2>1. member' = [member EXCEPT ![p] = calls[i].role]
    BY <1>1, <1>5 DEF UpsertMember
  <2>2. PICK new \in Task :
          /\ calls' = [calls EXCEPT ![i] = new] /\ new.pc = "join"
          /\ new.at = p /\ new.role = calls[i].role
          /\ new.alone => calls[i].alone /\ member[p] \in {None, calls[i].role}
    BY <1>1, <1>2, <1>5, UpsertIs
  <2>3. Carries(i, {new}) /\ ToSet(calls)' = Rest(i) \cup {new}
    BY <1>2, <2>2, BecomeCarries, CarriedSet
  <2>4. Working(p)'
    BY <2>2, <2>3 DEF Working, Midway
  <2>5. member'[p] = new.role
    BY <1>2, <2>1, <2>2
  <2>6. ASSUME new.alone, p \notin unsure PROVE Builtins(p) \subseteq {new.role}
    <3>1. calls[i].alone /\ member[p] \in {None, new.role}
      BY <2>2, <2>6
    <3>2. ToSet(calls) = Rest(i) \cup {calls[i]}
      BY <1>2, RestIs
    <3>3. ~Working(p)
      BY <1>1, <1>2, <3>1, <3>2, AloneNoBoot DEF Working, Midway
    <3>4. Builtins(p) \subseteq {member[p]} /\ Builtins(p) \subseteq Role
      BY <1>2, <2>6, <3>3 DEF Follows, Fits, Builtins
    <3> QED
      BY <3>1, <3>4, NamesApart
  <2>7. AloneSound(new)'
    BY <1>2, <1>3, <2>2, <2>5, <2>6 DEF AloneSound, Midway
  <2>8. \A q \in Pair : q # p => member'[q] = member[q]
    BY <1>2, <2>1
  <2> QED
    BY <1>1, <1>2, <1>3, <2>2, <2>3, <2>4, <2>7, <2>8, LocalStep
<1> QED
  BY <1>4, <1>5

LEMMA JoinGroups ==
  ASSUME GroupsInv, AccountsTyped', NEW i \in DOMAIN calls, Join(i)
  PROVE  GroupsInv'
<1>1. PICK p \in Pair : p = calls[i].at
  BY GroupsFacts DEF Join
<1>2. /\ AccountsTyped /\ calls \in Seq(Task) /\ calls[i].pc = "join" /\ AloneSound(calls[i])
      /\ calls[i].role \in Role /\ groups' = Grant(p, calls[i].role)
      /\ UNCHANGED <<seeded, member>>
      /\ unsure' = IF calls[i].alone THEN unsure ELSE unsure \cup {p}
      /\ End(i)
  BY <1>1, GroupsFacts DEF Join, CallTyped
<1>3. /\ Builtins(p)' \subseteq Builtins(p) \cup {calls[i].role}
      /\ p[1] \notin seeded => Builtins(p)' = Builtins(p)
      /\ \A q \in Pair : q # p => Builtins(q)' = Builtins(q)
  BY <1>2, GrantOf
<1>4. p \notin unsure' => Fits(p)'
  <2> SUFFICES ASSUME calls[i].alone, p \notin unsure PROVE Fits(p)'
    BY <1>2
  <2>1. /\ Builtins(p) \subseteq {calls[i].role}
        /\ member[p] = calls[i].role \/ p[1] \notin seeded
    BY <1>1, <1>2 DEF AloneSound, Midway
  <2>2. p[1] \notin seeded => Builtins(p) = {}
    BY <1>2, NoneUnseeded
  <2> QED
    BY <1>2, <1>3, <2>1, <2>2 DEF Fits
<1>5. p \notin unsure' =>
        \A c \in Rest(i) : c.pc = "backfill" =>
          \A r \in c.read : r[1] = p /\ r[2] # None => r[2] = member'[p]
  BY <1>2, AloneNoBoot
<1>6. \A q \in Pair : q # p => (q \in unsure' <=> q \in unsure)
  BY <1>2
<1>7. Carries(i, {})
  BY <1>2, EndCarries
<1> QED
  BY <1>1, <1>2, <1>3, <1>4, <1>5, <1>6, <1>7, LocalStep

LEMMA WipeGroups ==
  ASSUME GroupsInv, AccountsTyped', NEW i \in DOMAIN calls, DeleteGroups(i)
  PROVE  GroupsInv'
<1>1. PICK p \in Pair : p = calls[i].at
  BY GroupsFacts DEF DeleteGroups
<1>2. /\ calls \in Seq(Task) /\ calls[i].pc = "wipe" /\ \A c \in Rest(i) : ReadSound(c)
      /\ groups' = groups \ GroupsOf(p, Role \cup {Team}) /\ To(i, "leave")
      /\ UNCHANGED <<seeded, member, unsure>>
  BY <1>1, GroupsFacts DEF DeleteGroups, history
<1>3. Builtins(p)' = {} /\ \A q \in Pair : q # p => Builtins(q)' = Builtins(q)
  BY <1>2, DropOf
<1>4. PICK new \in Task :
        /\ calls' = [calls EXCEPT ![i] = new] /\ new.pc = "leave"
        /\ new.at = p /\ new.alone = calls[i].alone
  BY <1>1, <1>2, ToIs DEF Pc
<1>5. /\ Carries(i, {new}) /\ ToSet(calls)' = Rest(i) \cup {new}
      /\ ToSet(calls) = Rest(i) \cup {calls[i]}
  BY <1>2, <1>4, BecomeCarries, CarriedSet, RestIs
<1>6. Working(p)' <=> Working(p)
  BY <1>2, <1>4, <1>5 DEF Working, Midway
<1>7. Fits(p)'
  BY <1>3 DEF Fits
<1>8. AloneSound(new)'
  BY <1>3, <1>4 DEF AloneSound, Midway
<1>9. p \notin unsure' /\ ~Working(p)' =>
        \A c \in Rest(i) : c.pc = "backfill" =>
          \A r \in c.read : r[1] = p /\ r[2] # None => r[2] = member'[p]
  BY <1>2, <1>6 DEF ReadSound
<1> QED
  BY <1>1, <1>2, <1>3, <1>4, <1>5, <1>7, <1>8, <1>9, LocalStep

LEMMA LeaveGroups ==
  ASSUME GroupsInv, AccountsTyped', NEW i \in DOMAIN calls, DeleteMembership(i)
  PROVE  GroupsInv'
<1>1. PICK p \in Pair : p = calls[i].at
  BY GroupsFacts DEF DeleteMembership
<1>2. /\ calls \in Seq(Task) /\ calls[i].pc = "leave" /\ AloneSound(calls[i])
      /\ member' = [member EXCEPT ![p] = None] /\ member \in [Pair -> Role \cup {None}]
      /\ unsure' = IF calls[i].alone THEN unsure \ {p} ELSE unsure \cup {p}
      /\ UNCHANGED <<seeded, groups>> /\ End(i)
  BY <1>1, GroupsFacts DEF DeleteMembership, Settled, AccountsTyped, RowsTyped
<1>3. \A q \in Pair : Builtins(q)' = Builtins(q)
  BY <1>2, GroupsStay
<1>4. p \notin unsure' => Fits(p)'
  BY <1>1, <1>2, <1>3 DEF AloneSound, Fits
<1>5. p \notin unsure' =>
        \A c \in Rest(i) : c.pc = "backfill" =>
          \A r \in c.read : r[1] = p /\ r[2] # None => r[2] = member'[p]
  BY <1>2, AloneNoBoot
<1>6. \A q \in Pair : q # p => member'[q] = member[q] /\ (q \in unsure' <=> q \in unsure)
  BY <1>2
<1>7. Carries(i, {})
  BY <1>2, EndCarries
<1> QED
  BY <1>1, <1>2, <1>3, <1>4, <1>5, <1>6, <1>7, LocalStep

\* A boot ends: it may have added the groups it read.
LEMMA BackfillEnds ==
  ASSUME GroupsInv, AccountsTyped', NEW i \in DOMAIN calls, calls[i].pc = "backfill", End(i),
         member' = member, unsure' = unsure,
         \A q \in Pair : \A g \in Builtins(q)' : g \in Builtins(q) \/ <<q, g>> \in calls[i].read
  PROVE  GroupsInv'
<1>1. /\ calls \in Seq(Task) /\ Meets /\ Follows /\ calls[i].at = AboutAll /\ ReadSound(calls[i])
      /\ \A c \in Rest(i) : ReadSound(c)
  BY GroupsFacts DEF CallTyped
<1>2. Carries(i, {}) /\ ToSet(calls)' = Rest(i) /\ ToSet(calls) = Rest(i) \cup {calls[i]}
  <2>1. Carries(i, {})
    BY <1>1, EndCarries
  <2>2. ToSet(calls)' = Rest(i) \cup {}
    BY <1>1, <2>1, CarriedSet
  <2>3. ToSet(calls) = Rest(i) \cup {calls[i]}
    BY <1>1, RestIs
  <2> QED
    BY <2>1, <2>2, <2>3
<1>3. Meets'
  BY <1>1, <1>2, CarriesMeets
<1>4. \A q : Working(q)' <=> Working(q)
  BY <1>2 DEF Working, Midway
<1>5. \A c \in Rest(i) : AloneSound(c)'
  BY <1>1, MeetsRest DEF AloneSound
<1>6. \A c \in Rest(i) : ReadSound(c)'
  BY <1>1, <1>4 DEF ReadSound
<1>7. Follows'
  <2> SUFFICES ASSUME NEW q \in Pair, q \notin unsure, ~Working(q)' PROVE Fits(q)'
    BY DEF Follows
  <2>1. Fits(q) /\ ~Working(q)
    BY <1>1, <1>4 DEF Follows
  <2>2. ASSUME NEW g \in Builtins(q)' PROVE g = member[q]
    <3>1. g \in Role /\ g # None
      BY NamesApart DEF Builtins
    <3>2. CASE g \in Builtins(q)
      BY <2>1, <3>2 DEF Fits
    <3>3. CASE <<q, g>> \in calls[i].read
      <4>1. PICK r \in calls[i].read : r = <<q, g>> /\ r[1] = q /\ r[2] = g
        BY <3>3
      <4> QED
        BY <1>1, <2>1, <3>1, <4>1 DEF ReadSound
    <3> QED
      BY <3>2, <3>3
  <2> QED
    BY <2>2 DEF Fits
<1> QED
  BY <1>2, <1>3, <1>5, <1>6, <1>7 DEF GroupsInv

LEMMA BootGroups ==
  ASSUME GroupsInv, AccountsTyped', NEW i \in DOMAIN calls, EnsureCoreSchema(i)
  PROVE  GroupsInv'
<1>1. /\ calls[i].pc = "backfill" /\ End(i) /\ UNCHANGED <<member, unsure>>
      /\ groups' \subseteq groups \cup calls[i].read
  BY DEF EnsureCoreSchema, history
<1>2. \A q \in Pair : \A g \in Builtins(q)' : g \in Builtins(q) \/ <<q, g>> \in calls[i].read
  BY <1>1 DEF Builtins
<1> QED
  BY <1>1, <1>2, BackfillEnds

LEMMA FailGroups ==
  ASSUME GroupsInv, AccountsTyped', NEW i \in DOMAIN calls, CallFails(i)
  PROVE  GroupsInv'
<1>1. /\ calls \in Seq(Task) /\ End(i) /\ UNCHANGED <<member, groups, seeded>>
      /\ unsure' = IF calls[i].pc \in {"swap", "grant", "join", "leave"}
                   THEN unsure \cup {calls[i].at} ELSE unsure
  BY GroupsFacts DEF CallFails, rows
<1>2. Carries(i, {}) /\ \A q \in Pair : Builtins(q)' = Builtins(q)
  BY <1>1, EndCarries, GroupsStay
<1>3. CASE calls[i].pc = "backfill"
  BY <1>1, <1>2, <1>3, BackfillEnds
<1>4. CASE calls[i].pc \in {"swap", "grant", "join", "leave"}
  <2>1. PICK p \in Pair : p = calls[i].at
    BY <1>4, GroupsFacts
  <2>2. p \in unsure' /\ \A q \in Pair : q # p => (q \in unsure' <=> q \in unsure)
    BY <1>1, <1>4, <2>1
  <2> QED
    BY <1>1, <1>2, <2>1, <2>2, LocalStep
<1>5. CASE calls[i].pc \notin Midway \cup {"leave", "backfill"}
  BY <1>1, <1>2, <1>5, AsideStep DEF Midway
<1> QED
  BY <1>3, <1>4, <1>5 DEF Midway

\* The steps of calls that leave roles and built-in groups alone.
LEMMA AsideGroups ==
  ASSUME GroupsInv, AccountsTyped', NEW i \in DOMAIN calls,
         \/ WriteConfig(i) \/ ClearCustom(i) \/ GrantCustom(i)
         \/ CreateSession(i) \/ UpdateSessionTenant(i) \/ MoveSessions(i) \/ DeletionEnds(i)
  PROVE  GroupsInv'
<1>1. /\ AccountsTyped /\ calls \in Seq(Task) /\ UNCHANGED <<seeded, member, unsure>>
      /\ calls[i].pc \notin Midway \cup {"backfill"}
  BY GroupsFacts DEF WriteConfig, ClearCustom, GrantCustom, CreateSession, UpdateSessionTenant,
     MoveSessions, DeletionEnds, rows, history, Midway
<1>2. \A q \in Pair : Builtins(q)' = Builtins(q)
  <2>1. CASE UNCHANGED groups
    BY <2>1, GroupsStay
  <2>2. CASE ClearCustom(i)
    <3>1. PICK p \in Pair : p = calls[i].at
      BY <2>2, GroupsFacts DEF ClearCustom
    <3>2. groups' = groups \ GroupsOf(p, {Team}) /\ \A g \in {Team} : g \notin Role
      BY <2>2, <3>1, NamesApart DEF ClearCustom
    <3> QED
      BY <3>2, DropOf
  <2>3. CASE GrantCustom(i)
    <3>1. groups' = groups \/ groups' = groups \cup {<<calls[i].at, Team>>}
      BY <2>3 DEF GrantCustom
    <3> QED
      BY <3>1, NamesApart DEF Builtins
  <2> QED
    BY <2>1, <2>2, <2>3 DEF WriteConfig, CreateSession, UpdateSessionTenant, MoveSessions,
       DeletionEnds, rows
<1>3. CASE End(i)
  <2>1. Carries(i, {})
    BY <1>1, <1>3, EndCarries
  <2> QED
    BY <1>1, <1>2, <2>1, AsideStep
<1>4. CASE To(i, "custom")
  <2>1. PICK new \in Task :
          /\ calls' = [calls EXCEPT ![i] = new] /\ new.pc = "custom"
          /\ new.at = calls[i].at /\ new.alone = calls[i].alone
    BY <1>1, <1>4, ToIs DEF Pc
  <2>2. Carries(i, {new})
    BY <1>1, <2>1, BecomeCarries
  <2> QED
    BY <1>1, <1>2, <2>1, <2>2, AsideStep DEF Midway
<1>5. CASE MoveSessions(i) /\ ~End(i)
  <2>1. PICK new \in Task :
          /\ calls' = [calls EXCEPT ![i] = new] /\ new.pc = "delete"
          /\ new.at = calls[i].at /\ new.alone = calls[i].alone
    <3>1. PICK read : calls' = [calls EXCEPT ![i].pc = "delete", ![i].read = read]
      BY <1>5 DEF MoveSessions
    <3>2. PICK new : new = [calls[i] EXCEPT !.pc = "delete", !.read = read]
      OBVIOUS
    <3>3. calls' = [calls EXCEPT ![i] = new]
      BY <3>1, <3>2
    <3>4. calls[i] \in Task
      BY GroupsFacts
    <3>5. calls' \in Seq(Task) /\ DOMAIN calls' = DOMAIN calls
      BY <3>3 DEF AccountsTyped, CallsTyped
    <3>6. calls'[i] = new /\ calls'[i] \in Task
      BY <3>3, <3>5, LenProperties, ElementOfSeq
    <3>7. new.pc = "delete" /\ new.at = calls[i].at /\ new.alone = calls[i].alone
      BY <3>2, <3>4 DEF Task
    <3> QED
      BY <3>3, <3>6, <3>7
  <2>2. Carries(i, {new})
    BY <1>1, <2>1, BecomeCarries
  <2> QED
    BY <1>1, <1>2, <2>1, <2>2, AsideStep DEF Midway
<1> QED
  BY <1>3, <1>4, <1>5 DEF WriteConfig, ClearCustom, GrantCustom, CreateSession,
     UpdateSessionTenant, DeletionEnds

\* With a tenant go its members and their groups, and no boot knows them.
LEMMA DeleteGroupsOf ==
  ASSUME GroupsInv, AccountsTyped', NEW i \in DOMAIN calls, DeleteTenant(i)
  PROVE  GroupsInv'
<1>1. PICK t : t = calls[i].at[1]
  OBVIOUS
<1>2. /\ AccountsTyped /\ calls \in Seq(Task) /\ Meets /\ Follows /\ calls[i].pc = "delete"
      /\ \A c \in Rest(i) : CallTyped(c) /\ AloneSound(c) /\ ReadSound(c)
      /\ Rest(i) \subseteq Task
  BY GroupsFacts, RestIs DEF DeleteTenant
<1>3. /\ seeded' = seeded \ {t} /\ groups' = {r \in groups : r[1][1] # t}
      /\ member' = [p \in Pair |-> IF p[1] = t THEN None ELSE member[p]]
      /\ unsure' = unsure /\ End(i) /\ ~Referred(t, i)
  BY <1>1 DEF DeleteTenant
<1>4. /\ Carries(i, {}) /\ ToSet(calls)' = Rest(i) /\ ToSet(calls) = Rest(i) \cup {calls[i]}
  <2>1. Carries(i, {})
    BY <1>2, <1>3, EndCarries
  <2>2. ToSet(calls)' = Rest(i) \cup {}
    BY <1>2, <2>1, CarriedSet
  <2>3. ToSet(calls) = Rest(i) \cup {calls[i]}
    BY <1>2, RestIs
  <2> QED
    BY <2>1, <2>2, <2>3
<1>5. Meets'
  BY <1>2, <1>4, CarriesMeets
<1>6. \A q : Working(q)' <=> Working(q)
  BY <1>2, <1>4 DEF Working, Midway
<1>7. \A q \in Pair : q[1] = t => Builtins(q)' = {} /\ q[1] \notin seeded'
  BY <1>3 DEF Builtins
<1>8. \A q \in Pair : q[1] # t => /\ Builtins(q)' = Builtins(q) /\ member'[q] = member[q]
                                  /\ q[1] \in seeded' <=> q[1] \in seeded
  BY <1>3 DEF Builtins
<1>9. ASSUME NEW c \in Rest(i) PROVE AloneSound(c)'
  <2>1. CASE c.at = AboutAll
    BY <1>2, <2>1, MeetsRest DEF AloneSound
  <2>2. CASE c.at # AboutAll
    <3>1. PICK q \in Pair : q = c.at
      BY <1>2, <2>2 DEF Task
    <3>2. CASE q[1] = t
      BY <1>7, <3>1, <3>2 DEF AloneSound
    <3>3. CASE q[1] # t
      BY <1>2, <1>3, <1>8, <3>1, <3>3 DEF AloneSound
    <3> QED
      BY <3>2, <3>3
  <2> QED
    BY <2>1, <2>2
<1>10. ASSUME NEW c \in Rest(i) PROVE ReadSound(c)'
  <2> SUFFICES ASSUME c.pc = "backfill", NEW r \in c.read, r[2] # None, r[1] \notin unsure,
                      ~Working(r[1])'
               PROVE  r[2] = member'[r[1]]
    BY <1>3 DEF ReadSound
  <2>1. PICK q \in Pair : q = r[1]
    BY <1>2 DEF CallTyped
  <2>2. q[1] # t
    BY <1>3, <2>1 DEF Rest, Referred
  <2> QED
    BY <1>2, <1>6, <1>8, <2>1, <2>2 DEF ReadSound
<1>11. Follows'
  <2> SUFFICES ASSUME NEW q \in Pair, q \notin unsure, ~Working(q)' PROVE Fits(q)'
    BY <1>3 DEF Follows
  <2>1. Fits(q)
    BY <1>2, <1>6 DEF Follows
  <2> QED
    BY <1>7, <1>8, <2>1 DEF Fits
<1> QED
  BY <1>4, <1>5, <1>9, <1>10, <1>11 DEF GroupsInv

\* Steps of no call: a tenant comes with its owner, a custom group comes or goes.
LEMMA EventGroups ==
  ASSUME GroupsInv, AccountsTyped', calls' = calls, seeded' = seeded, unsure' = unsure,
         NEW p \in Pair, p[1] \notin tenants \/ member'[p] = member[p],
         \A q \in Pair : q # p => member'[q] = member[q],
         \A q \in Pair : Builtins(q)' = Builtins(q)
  PROVE  GroupsInv'
<1>1. /\ AccountsTyped /\ calls \in Seq(Task) /\ ToSet(calls)' = ToSet(calls) /\ Meets' /\ Follows
      /\ \A c \in ToSet(calls) : c \in Task /\ CallTyped(c) /\ AloneSound(c) /\ ReadSound(c)
      /\ seeded \subseteq tenants
  BY CallAt DEF GroupsInv, AccountsTyped, CallsTyped, RowsTyped, Meets, ToSet
<1>2. \A q : Working(q)' <=> Working(q)
  BY <1>1 DEF Working
<1>3. p[1] \notin tenants => p[1] \notin seeded /\ Builtins(p) = {}
  BY <1>1, NoneUnseeded
<1>4. ASSUME NEW c \in ToSet(calls) PROVE AloneSound(c)'
  <2>1. CASE c.pc \in Midway \cup {"leave"}
    <3>1. PICK q \in Pair : q = c.at
      BY <1>1, <2>1 DEF Task, CallTyped, Midway
    <3>2. CASE q = p /\ p[1] \notin tenants
      BY <1>1, <1>3, <3>1, <3>2 DEF AloneSound
    <3>3. CASE member'[q] = member[q]
      BY <1>1, <3>1, <3>3 DEF AloneSound
    <3> QED
      BY <3>2, <3>3
  <2>2. CASE c.pc \notin Midway \cup {"leave"}
    BY <2>2 DEF AloneSound, Midway
  <2> QED
    BY <2>1, <2>2
<1>5. ASSUME NEW c \in ToSet(calls) PROVE ReadSound(c)'
  <2> SUFFICES ASSUME c.pc = "backfill", NEW r \in c.read, r[2] # None, r[1] \notin unsure,
                      ~Working(r[1])'
               PROVE  r[2] = member'[r[1]]
    BY DEF ReadSound
  <2>1. PICK q \in Pair : q = r[1] /\ q[1] \in tenants
    BY <1>1 DEF CallTyped
  <2>2. member'[q] = member[q]
    BY <2>1
  <2> QED
    BY <1>1, <1>2, <2>1, <2>2 DEF ReadSound
<1>6. Follows'
  <2> SUFFICES ASSUME NEW q \in Pair, q \notin unsure, ~Working(q)' PROVE Fits(q)'
    BY DEF Follows
  <2>1. Fits(q)
    BY <1>1, <1>2 DEF Follows
  <2> QED
    BY <1>3, <2>1 DEF Fits
<1> QED
  BY <1>1, <1>4, <1>5, <1>6 DEF GroupsInv

LEMMA CreateGroups ==
  ASSUME GroupsInv, AccountsTyped', NEW x \in Session, NEW t \in Tenant, CreateTenant(x, t)
  PROVE  GroupsInv'
<1>1. sessions[x].user \in User /\ t \notin tenants
  BY ResolvesIs DEF CreateTenant, GroupsInv
<1>2. PICK p \in Pair : p = <<t, sessions[x].user>> /\ p[1] = t
  <2>1. PICK u \in User : u = sessions[x].user
    BY <1>1
  <2>2. <<t, u>> \in Pair /\ <<t, u>>[1] = t
    BY DEF Pair
  <2> QED
    BY <2>1, <2>2
<1>3. /\ member' = [member EXCEPT ![p] = "owner"] /\ member \in [Pair -> Role \cup {None}]
      /\ UNCHANGED <<calls, seeded, groups, unsure>>
  BY <1>2 DEF CreateTenant, Event, GroupsInv, AccountsTyped, RowsTyped
<1>4. \A q \in Pair : Builtins(q)' = Builtins(q)
  BY <1>3, GroupsStay
<1>5. \A q \in Pair : q # p => member'[q] = member[q]
  BY <1>3
<1> QED
  BY <1>1, <1>2, <1>3, <1>4, <1>5, EventGroups

LEMMA TeamGroups ==
  ASSUME GroupsInv, AccountsTyped', NEW x \in Session, CreateGroup(x) \/ DeleteGroup(x)
  PROVE  GroupsInv'
<1>1. PICK p \in Pair : p = <<sessions[x].tenant, sessions[x].user>>
  BY ResolvesIs DEF CreateGroup, DeleteGroup, Manages, GroupsInv, Pair
<1>2. UNCHANGED <<calls, seeded, unsure, member>>
  BY DEF CreateGroup, DeleteGroup, Event, history
<1>3. \A q \in Pair : Builtins(q)' = Builtins(q)
  BY NamesApart DEF CreateGroup, DeleteGroup, Builtins
<1> QED
  BY <1>1, <1>2, <1>3, EventGroups

LEMMA EnterGroups ==
  ASSUME GroupsInv, AccountsTyped', NEW c \in Task, Enters(c)
  PROVE  GroupsInv'
<1>1. /\ AccountsTyped /\ calls \in Seq(Task) /\ Meets /\ Follows
      /\ \A k \in DOMAIN calls : /\ calls[k] \in Task /\ CallTyped(calls[k])
                                 /\ AloneSound(calls[k]) /\ ReadSound(calls[k])
  <2>1. AccountsTyped /\ calls \in Seq(Task) /\ Meets /\ Follows
    BY DEF GroupsInv, AccountsTyped, CallsTyped
  <2>2. ASSUME NEW k \in DOMAIN calls
        PROVE  /\ calls[k] \in Task /\ CallTyped(calls[k])
               /\ AloneSound(calls[k]) /\ ReadSound(calls[k])
    BY GroupsFacts
  <2> QED
    BY <2>1, <2>2
<1>2. /\ UNCHANGED <<member, seeded, groups, unsure>> /\ Begin(c) /\ CallTyped(c)
      /\ c.pc \notin Midway \cup {"leave"}
      /\ c.pc = "backfill" => \A r \in c.read : r[2] = member[r[1]]
  BY DEF Enters, Fitting, Begin, rows, history, Midway
<1>3. PICK n : n = Len(calls) + 1
  OBVIOUS
<1>4. /\ calls' \in Seq(Task) /\ n \notin DOMAIN calls /\ DOMAIN calls' = DOMAIN calls \cup {n}
      /\ \A k \in DOMAIN calls :
           calls'[k] = [calls[k] EXCEPT !.alone = calls[k].alone /\ ~Meet(c, calls[k])]
      /\ calls'[n] = [c EXCEPT !.alone = \A k \in DOMAIN calls : ~Meet(c, calls[k])]
  BY <1>1, <1>2, <1>3, BeginIs
<1>5. \A k \in DOMAIN calls :
        /\ calls'[k].pc = calls[k].pc /\ calls'[k].at = calls[k].at
        /\ calls'[k].role = calls[k].role /\ calls'[k].read = calls[k].read
        /\ calls'[k].alone <=> (calls[k].alone /\ ~Meet(c, calls[k]))
  <2> TAKE k \in DOMAIN calls
  <2>1. PICK a \in BOOLEAN : a <=> (calls[k].alone /\ ~Meet(c, calls[k]))
    OBVIOUS
  <2>2. (calls[k].alone /\ ~Meet(c, calls[k])) \in BOOLEAN
    OBVIOUS
  <2>3. a = (calls[k].alone /\ ~Meet(c, calls[k]))
    BY <2>1, <2>2
  <2>4. calls'[k] = [calls[k] EXCEPT !.alone = a] /\ calls[k] \in Task
    BY <1>1, <1>4, <2>3
  <2> QED
    BY <2>1, <2>4 DEF Task
<1>6. /\ calls'[n].pc = c.pc /\ calls'[n].at = c.at /\ calls'[n].read = c.read
      /\ calls'[n].alone <=> \A k \in DOMAIN calls : ~Meet(c, calls[k])
  <2>1. PICK a \in BOOLEAN : a <=> \A k \in DOMAIN calls : ~Meet(c, calls[k])
    OBVIOUS
  <2>2. (\A k \in DOMAIN calls : ~Meet(c, calls[k])) \in BOOLEAN
    OBVIOUS
  <2>3. a = (\A k \in DOMAIN calls : ~Meet(c, calls[k]))
    BY <2>1, <2>2
  <2>4. calls'[n] = [c EXCEPT !.alone = a]
    BY <1>4, <2>3
  <2> QED
    BY <2>1, <2>4 DEF Task
<1>7. ASSUME NEW k \in DOMAIN calls', NEW l \in DOMAIN calls', k # l,
             Meet(calls'[k], calls'[l])
      PROVE  ~calls'[k].alone
  <2>1. CASE k \in DOMAIN calls /\ l \in DOMAIN calls
    <3>1. Meet(calls[k], calls[l])
      BY <1>5, <1>7, <2>1 DEF Meet
    <3> QED
      BY <1>1, <1>5, <1>7, <2>1, <3>1 DEF Meets
  <2>2. CASE k \in DOMAIN calls /\ l = n
    <3>1. Meet(c, calls[k])
      BY <1>5, <1>6, <1>7, <2>2 DEF Meet
    <3> QED
      BY <1>5, <2>2, <3>1
  <2>3. CASE k = n /\ l \in DOMAIN calls
    <3>1. Meet(c, calls[l])
      BY <1>5, <1>6, <1>7, <2>3 DEF Meet
    <3> QED
      BY <1>6, <2>3, <3>1
  <2> QED
    BY <1>4, <1>7, <2>1, <2>2, <2>3
<1>8. Meets'
  <2>1. \A k, l \in DOMAIN calls' : k # l /\ Meet(calls'[k], calls'[l]) => ~calls'[k].alone
    BY <1>7
  <2> QED
    BY <2>1 DEF Meets, Meet
<1>9. ASSUME NEW q PROVE Working(q)' <=> Working(q)
  <2>1. Working(q) <=> \E k \in DOMAIN calls : calls[k].at = q /\ calls[k].pc \in Midway
    BY DEF Working, ToSet
  <2>2. Working(q)' <=> \E k \in DOMAIN calls' : calls'[k].at = q /\ calls'[k].pc \in Midway
    BY DEF Working, ToSet
  <2>3. calls'[n].pc \notin Midway
    BY <1>2, <1>6
  <2>4. ASSUME NEW k \in DOMAIN calls'
        PROVE  calls'[k].at = q /\ calls'[k].pc \in Midway
                 <=> k \in DOMAIN calls /\ calls[k].at = q /\ calls[k].pc \in Midway
    <3>1. CASE k = n
      BY <1>4, <2>3, <3>1
    <3>2. CASE k # n
      BY <1>4, <1>5, <3>2
    <3> QED
      BY <3>1, <3>2
  <2>5. DOMAIN calls \subseteq DOMAIN calls'
    BY <1>4
  <2> QED
    BY <2>1, <2>2, <2>4, <2>5
<1>10. \A q \in Pair : Builtins(q)' = Builtins(q)
  BY <1>2, GroupsStay
<1>11. Follows'
  BY <1>1, <1>2, <1>9, <1>10 DEF Follows, Fits
<1>12. ASSUME NEW k \in DOMAIN calls, NEW d, d = calls'[k]
       PROVE  AloneSound(d)' /\ ReadSound(d)'
  <2>1. AloneSound(calls[k]) /\ ReadSound(calls[k]) /\ CallTyped(calls[k]) /\ calls[k] \in Task
    BY <1>1
  <2>2. ReadSound(d)'
    BY <1>2, <1>5, <1>9, <1>12, <2>1 DEF ReadSound
  <2>3. CASE d.pc \in Midway \cup {"leave"}
    <3>1. PICK q \in Pair : q = calls[k].at
      BY <1>5, <1>12, <2>1, <2>3 DEF CallTyped, Task, Midway
    <3>2. d.at = q /\ d.pc = calls[k].pc /\ d.role = calls[k].role /\ (d.alone => calls[k].alone)
      BY <1>5, <1>12, <3>1
    <3> QED
      BY <1>2, <1>10, <2>1, <2>2, <3>1, <3>2 DEF AloneSound
  <2>4. CASE d.pc \notin Midway \cup {"leave"}
    BY <2>2, <2>4 DEF AloneSound, Midway
  <2> QED
    BY <2>3, <2>4
<1>13. ASSUME NEW d, d = calls'[n] PROVE AloneSound(d)' /\ ReadSound(d)'
  BY <1>2, <1>6, <1>13 DEF AloneSound, ReadSound, Midway
<1>14. \A d \in ToSet(calls)' : AloneSound(d)' /\ ReadSound(d)'
  <2>1. ToSet(calls)' = {calls'[k] : k \in DOMAIN calls'}
    BY DEF ToSet
  <2> QED
    BY <1>4, <1>12, <1>13, <2>1
<1> QED
  BY <1>8, <1>11, <1>14 DEF GroupsInv

LEMMA GroupsInvInit ==
  ASSUME Init
  PROVE  GroupsInv
<1>1. AccountsTyped /\ calls = <<>> /\ member \in [Pair -> Role \cup {None}]
      /\ groups = {<<p, member[p]>> : p \in {q \in Pair : member[q] # None /\ q[1] \in seeded}}
  BY AccountsTypedInit DEF AccountsTyped, RowsTyped, Init
<1>2. DOMAIN calls = {} /\ ToSet(calls) = {}
  BY <1>1, EmptyCalls DEF ToSet
<1>3. ASSUME NEW p \in Pair, NEW g \in Role, <<p, g>> \in groups PROVE g = member[p]
  <2>1. PICK q \in Pair : <<p, g>> = <<q, member[q]>>
    BY <1>1, <1>3
  <2> QED
    BY <2>1
<1>4. Follows
  BY <1>3 DEF Follows, Fits, Builtins
<1> QED
  BY <1>1, <1>2, <1>4 DEF GroupsInv, Meets

LEMMA GroupsInvStep ==
  ASSUME GroupsInv, [Next]_vars
  PROVE  GroupsInv'
<1>1. AccountsTyped /\ AccountsTyped'
  BY AccountsTypedStep DEF GroupsInv
<1>2. ASSUME NEW u \in User, StartSetup(u) \/ StartLogin(u) \/ StartOAuth(u) PROVE GroupsInv'
  BY <1>1, <1>2, UserStarts, EnterGroups
<1>3. ASSUME NEW x \in Session, Users(x) PROVE GroupsInv'
  BY <1>1, <1>3, AdminStarts, EnterGroups
<1>4. ASSUME NEW x \in Session, Tenants(x) PROVE GroupsInv'
  BY <1>1, <1>4, TenantStarts, EnterGroups, CreateGroups DEF Tenants
<1>5. ASSUME NEW x \in Session, CreateGroup(x) \/ DeleteGroup(x) PROVE GroupsInv'
  BY <1>1, <1>5, TeamGroups
<1>6. CASE StartBoot
  BY <1>1, <1>6, BootStarts, EnterGroups
<1>7. ASSUME NEW i \in DOMAIN calls, CallStep(i) \/ CallFails(i) PROVE GroupsInv'
  BY <1>1, <1>7, SetupGroups, BootGroups, UpdateGroups, SwapGroups, GrantGroups, UpsertGroups,
     JoinGroups, WipeGroups, LeaveGroups, DeleteGroupsOf, AsideGroups, FailGroups DEF CallStep
<1>8. CASE UNCHANGED vars
  <2>1. UNCHANGED <<calls, member, seeded, groups, unsure>>
    BY <1>8 DEF vars, rows, history
  <2>2. ToSet(calls)' = ToSet(calls) /\ \A q : Working(q)' <=> Working(q)
    BY <2>1 DEF Working, ToSet
  <2>3. \A q : Builtins(q)' = Builtins(q)
    BY <2>1 DEF Builtins
  <2>4. \A c \in ToSet(calls) : AloneSound(c)' /\ ReadSound(c)'
    BY <2>1, <2>2, <2>3 DEF GroupsInv, AloneSound, ReadSound
  <2>5. Meets' /\ Follows'
    BY <2>1, <2>2, <2>3 DEF GroupsInv, Meets, Follows, Fits
  <2> QED
    BY <1>1, <2>2, <2>4, <2>5 DEF GroupsInv
<1> QED
  BY <1>2, <1>3, <1>4, <1>5, <1>6, <1>7, <1>8 DEF Next

\* The built-in group of a member follows his role, for any users, tenants, calls that
\* meet, boots and failures, unless the history says that his groups were left open
\* (setMemberRole, addTenantMemberByEmail, removeTenantMember, ensureCoreSchema).
THEOREM GroupsFollow == Spec => []GroupsFollowRole
<1>1. Init => GroupsInv
  BY GroupsInvInit
<1>2. GroupsInv /\ [Next]_vars => GroupsInv'
  BY GroupsInvStep
<1>3. GroupsInv => GroupsFollowRole
  BY GroupsInvFollow
<1> QED
  BY <1>1, <1>2, <1>3, PTL DEF Spec

-----------------------------------------------------------------------------
(***************************************************************************)
(* Sessions.  A membership that was seen once is there, or it is in the    *)
(* history; every tenant a session has or is about to get is of a          *)
(* membership that was seen.                                               *)
(***************************************************************************)
Seen(p) == member[p] # None \/ p \in left

\* What a call is about to do to a session.
SwitchSound(c) ==
  /\ c.pc = "switch" => sessions[c.row] = NoSession \/ sessions[c.row].user = c.at[2]
  /\ c.pc = "switch" \/ (c.pc = "session" /\ c.custom # "guest") => Seen(c.at)
  /\ c.pc = "delete" => \A m \in c.read : Seen(<<m[2], sessions[m[1]].user>>)

SessionsSound == \A x \in Session : sessions[x] = NoSession \/ sessions[x].guest \/ Seen(At(x))

\* The inductive invariant of SessionsResolve.
SessionsInv ==
  AccountsTyped /\ SessionsSound /\ \A c \in ToSet(calls) : SwitchSound(c)

LEMMA SessionsInvResolve ==
  ASSUME SessionsInv
  PROVE  SessionsResolve
<1> SUFFICES ASSUME NEW x \in Session, sessions[x] # NoSession, ~sessions[x].guest,
                    At(x) \notin left
             PROVE  Resolves(x)
  BY DEF SessionsResolve
<1>1. member[At(x)] # None
  BY DEF SessionsInv, SessionsSound, Seen
<1>2. sessions[x] \in Opened
  BY DEF SessionsInv, AccountsTyped, RowsTyped
<1> QED
  BY <1>1, <1>2 DEF Resolves, MembershipsOf, At, Opened

\* What was seen stays seen.
LEMMA SeenStays ==
  ASSUME member \in [Pair -> Role \cup {None}], NEW p \in Pair, Seen(p),
         \/ UNCHANGED <<member, left>>
         \/ \E q \in Pair, role \in Role :
              member' = [member EXCEPT ![q] = role] /\ left' = left \ {q}
         \/ \E q \in Pair, role \in Role :
              member[q] # None /\ member' = [member EXCEPT ![q] = role] /\ left' = left
         \/ \E Q \in SUBSET Pair : /\ member' = [q \in Pair |-> IF q \in Q THEN None ELSE member[q]]
                                   /\ left' = left \cup {q \in Q : member[q] # None}
  PROVE  Seen(p)'
BY NamesApart DEF Seen

LEMMA SeenKept ==
  ASSUME AccountsTyped, [Next]_vars, NEW p \in Pair, Seen(p)
  PROVE  Seen(p)'
<1>1. member \in [Pair -> Role \cup {None}]
  BY DEF AccountsTyped, RowsTyped
<1>2. ASSUME UNCHANGED <<member, left>> PROVE Seen(p)'
  BY <1>1, <1>2, SeenStays
<1>3. ASSUME NEW c \in Task, Enters(c) PROVE Seen(p)'
  BY <1>2, <1>3 DEF Enters, Begin, rows, history
<1>4. ASSUME NEW x \in Session, NEW t \in Tenant, CreateTenant(x, t) PROVE Seen(p)'
  <2>1. sessions[x].user \in User
    BY <1>4, ResolvesIs DEF CreateTenant
  <2>2. PICK q \in Pair : q = <<t, sessions[x].user>>
    BY <2>1 DEF Pair
  <2>3. /\ member' = [member EXCEPT ![q] = "owner"] /\ left' = left \ {q} /\ "owner" \in Role
    BY <1>4, <2>2, AccountsAssumption DEF CreateTenant
  <2> QED
    BY <1>1, <2>3, SeenStays
<1>5. ASSUME NEW x \in Session, CreateGroup(x) \/ DeleteGroup(x) PROVE Seen(p)'
  BY <1>2, <1>5 DEF CreateGroup, DeleteGroup, history
<1>6. ASSUME NEW i \in DOMAIN calls, CallStep(i) \/ CallFails(i) PROVE Seen(p)'
  <2>1. /\ calls[i] \in Task /\ CallTyped(calls[i])
        /\ calls[i].pc # "backfill" => calls[i].at \in Pair
    BY CallHolds
  <2>2. CASE SetupAdmin(i)
    <3>1. PICK q \in Pair : q = calls[i].at
      BY <2>1, <2>2 DEF SetupAdmin
    <3>2. member' = [member EXCEPT ![q] = "owner"] /\ left' = left \ {q} /\ "owner" \in Role
      BY <2>2, <3>1, AccountsAssumption DEF SetupAdmin
    <3> QED
      BY <1>1, <3>2, SeenStays
  <2>3. CASE UpdateRole(i)
    <3>1. PICK q \in Pair : q = calls[i].at
      BY <2>1, <2>3 DEF UpdateRole
    <3>2. CASE member[q] = None
      BY <1>2, <2>3, <3>1, <3>2 DEF UpdateRole, history
    <3>3. CASE member[q] # None
      <4>1. PICK role \in Role : role = calls[i].role
        BY <2>1, <2>3 DEF UpdateRole, CallTyped
      <4>2. member' = [member EXCEPT ![q] = role] /\ left' = left
        BY <2>3, <3>1, <3>3, <4>1 DEF UpdateRole, history
      <4> QED
        BY <1>1, <3>3, <4>2, SeenStays
    <3> QED
      BY <3>2, <3>3
  <2>4. CASE UpsertMember(i)
    <3>1. PICK q \in Pair : q = calls[i].at
      BY <2>1, <2>4 DEF UpsertMember
    <3>2. CASE q[1] \notin tenants
      BY <1>2, <2>4, <3>1, <3>2 DEF UpsertMember
    <3>3. CASE q[1] \in tenants
      <4>1. PICK role \in Role : role = calls[i].role
        BY <2>1, <2>4 DEF UpsertMember, CallTyped
      <4>2. member' = [member EXCEPT ![q] = role] /\ left' = left \ {q}
        BY <2>4, <3>1, <3>3, <4>1 DEF UpsertMember
      <4> QED
        BY <1>1, <4>2, SeenStays
    <3> QED
      BY <3>2, <3>3
  <2>5. CASE DeleteMembership(i)
    <3>1. PICK q \in Pair : q = calls[i].at
      BY <2>1, <2>5 DEF DeleteMembership
    <3>2. /\ member' = [member EXCEPT ![q] = None]
          /\ left' = left \cup {r \in {q} : member[r] # None}
      BY <2>5, <3>1 DEF DeleteMembership
    <3>3. member' = [r \in Pair |-> IF r \in {q} THEN None ELSE member[r]]
      BY <1>1, <3>2
    <3> QED
      BY <1>1, <3>2, <3>3, SeenStays
  <2>6. CASE DeleteTenant(i)
    <3>1. PICK t : t = calls[i].at[1]
      OBVIOUS
    <3>2. /\ member' = [q \in Pair |-> IF q[1] = t THEN None ELSE member[q]]
          /\ left' = left \cup {q \in Pair : q[1] = t /\ member[q] # None}
      BY <2>6, <3>1 DEF DeleteTenant
    <3> QED
      BY <1>1, <3>2 DEF Seen
  <2>7. CASE UNCHANGED <<member, left>>
    BY <1>2, <2>7
  <2> QED
    BY <1>6, <2>2, <2>3, <2>4, <2>5, <2>6, <2>7 DEF CallStep, WriteConfig, EnsureCoreSchema,
       DropBuiltin, GrantBuiltin, ClearCustom, GrantCustom, Join, DeleteGroups, CreateSession,
       UpdateSessionTenant, MoveSessions, DeletionEnds, CallFails, rows, history
<1>7. CASE UNCHANGED vars
  BY <1>2, <1>7 DEF vars, rows, history
<1>8. ASSUME NEW x \in Session, Tenants(x) PROVE Seen(p)'
  BY <1>3, <1>4, <1>8, TenantStarts DEF Tenants
<1>9. ASSUME NEW u \in User, StartSetup(u) \/ StartLogin(u) \/ StartOAuth(u) PROVE Seen(p)'
  BY <1>3, <1>9, UserStarts
<1>10. ASSUME NEW x \in Session, Users(x) PROVE Seen(p)'
  BY <1>3, <1>10, AdminStarts
<1>11. CASE StartBoot
  BY <1>3, <1>11, BootStarts
<1> QED
  BY <1>5, <1>6, <1>7, <1>8, <1>9, <1>10, <1>11 DEF Next

\* The calls but one, after a step that leaves the sessions they know to their users.
LEMMA RestSwitch ==
  ASSUME SessionsInv, AccountsTyped', \A p \in Pair : Seen(p) => Seen(p)',
         NEW c \in ToSet(calls), NEW d,
         d.pc = c.pc, d.at = c.at, d.custom = c.custom, d.row = c.row, d.read = c.read,
         c.pc = "switch" => \/ sessions'[c.row] = NoSession
                            \/ /\ sessions[c.row] # NoSession
                               /\ sessions'[c.row].user = sessions[c.row].user,
         c.pc = "delete" => \A m \in c.read : sessions'[m[1]].user = sessions[m[1]].user
  PROVE  SwitchSound(d)'
<1>1. AccountsTyped /\ SwitchSound(c) /\ c \in Task /\ CallTyped(c)
  BY CallAt DEF SessionsInv, AccountsTyped, CallsTyped, ToSet
<1>2. c.pc = "switch" => sessions'[c.row] = NoSession \/ sessions'[c.row].user = c.at[2]
  BY <1>1 DEF SwitchSound
<1>3. c.pc = "switch" \/ (c.pc = "session" /\ c.custom # "guest") => Seen(c.at)'
  <2> SUFFICES ASSUME c.pc = "switch" \/ (c.pc = "session" /\ c.custom # "guest")
               PROVE  Seen(c.at)'
    OBVIOUS
  <2>1. PICK p \in Pair : p = c.at
    BY <1>1 DEF CallTyped, Task
  <2>2. Seen(p)
    BY <1>1, <2>1 DEF SwitchSound
  <2> QED
    BY <2>1, <2>2
<1>4. ASSUME c.pc = "delete", NEW m \in c.read
      PROVE  Seen(<<m[2], sessions[m[1]].user>>)'
  <2>1. /\ m[2] \in Tenant /\ sessions[m[1]].user \in User
    BY <1>1, <1>4, MovedIsThere DEF AccountsTyped, RowsTyped, Opened
  <2>2. PICK p \in Pair : p = <<m[2], sessions[m[1]].user>>
    BY <2>1 DEF Pair
  <2>3. Seen(p)
    BY <1>1, <1>4, <2>2 DEF SwitchSound
  <2>4. <<m[2], sessions'[m[1]].user>> = p /\ Seen(p)'
    BY <1>4, <2>2, <2>3
  <2> QED
    BY <2>4 DEF Seen
<1> QED
  BY <1>2, <1>3, <1>4 DEF SwitchSound

\* The rows of sessions after a step that leaves them alone.
LEMMA SessionsStay ==
  ASSUME SessionsInv, \A p \in Pair : Seen(p) => Seen(p)', sessions' = sessions
  PROVE  SessionsSound'
<1> SUFFICES ASSUME NEW x \in Session, sessions[x] # NoSession, ~sessions[x].guest
             PROVE  Seen(At(x))'
  BY DEF SessionsSound
<1>1. sessions[x] \in Opened /\ tenants \subseteq Tenant /\ Seen(At(x))
  BY DEF SessionsInv, SessionsSound, AccountsTyped, RowsTyped
<1>2. PICK p \in Pair : p = At(x)
  BY <1>1 DEF Opened, Pair, At
<1>3. At(x)' = p /\ Seen(p)'
  BY <1>1, <1>2 DEF At
<1> QED
  BY <1>3 DEF Seen

\* A step of a call that leaves the rows of sessions alone.
LEMMA CallSessions ==
  ASSUME SessionsInv, AccountsTyped', \A p \in Pair : Seen(p) => Seen(p)',
         NEW i \in DOMAIN calls, NEW N, Carries(i, N), sessions' = sessions,
         \A c \in N : SwitchSound(c)'
  PROVE  SessionsInv'
<1>1. calls \in Seq(Task) /\ \A c \in ToSet(calls) : SwitchSound(c)
  BY DEF SessionsInv, AccountsTyped, CallsTyped
<1>2. ToSet(calls)' = Rest(i) \cup N
  BY <1>1, CarriedSet
<1>3. ASSUME NEW c \in Rest(i) PROVE SwitchSound(c)'
  <2>1. c \in ToSet(calls)
    BY RestIn
  <2>2. c.pc = "switch" => \/ sessions'[c.row] = NoSession
                           \/ /\ sessions[c.row] # NoSession
                              /\ sessions'[c.row].user = sessions[c.row].user
    OBVIOUS
  <2> QED
    BY <2>1, <2>2, RestSwitch
<1>4. SessionsSound'
  BY SessionsStay
<1> QED
  BY <1>2, <1>3, <1>4 DEF SessionsInv

LEMMA AsideSessions ==
  ASSUME SessionsInv, AccountsTyped', \A p \in Pair : Seen(p) => Seen(p)',
         NEW i \in DOMAIN calls, sessions' = sessions,
         End(i) \/ \E new \in Task : /\ calls' = [calls EXCEPT ![i] = new]
                                     /\ new.pc \notin {"switch", "session", "delete"}
  PROVE  SessionsInv'
<1>1. calls \in Seq(Task)
  BY DEF SessionsInv, AccountsTyped, CallsTyped
<1>2. CASE End(i)
  <2>1. Carries(i, {})
    BY <1>1, <1>2, EndCarries
  <2> QED
    BY <2>1, CallSessions
<1>3. ASSUME NEW new \in Task, calls' = [calls EXCEPT ![i] = new],
             new.pc \notin {"switch", "session", "delete"}
      PROVE  SessionsInv'
  <2>1. Carries(i, {new})
    BY <1>1, <1>3, BecomeCarries
  <2>2. \A c \in {new} : SwitchSound(c)'
    BY <1>3 DEF SwitchSound
  <2> QED
    BY <2>1, <2>2, CallSessions
<1> QED
  BY <1>2, <1>3

\* A deletion moves sessions only to tenants their users are members of.
LEMMA MoveSessionsOf ==
  ASSUME SessionsInv, AccountsTyped', \A p \in Pair : Seen(p) => Seen(p)',
         NEW i \in DOMAIN calls, MoveSessions(i)
  PROVE  SessionsInv'
<1>1. AccountsTyped /\ calls \in Seq(Task) /\ UNCHANGED <<rows, history>>
  BY DEF SessionsInv, AccountsTyped, CallsTyped, MoveSessions
<1>2. UNCHANGED <<sessions, member, left>>
  BY <1>1 DEF rows, history
<1>3. CASE End(i)
  BY <1>2, <1>3, AsideSessions
<1>4. ASSUME NEW new \in Task, calls' = [calls EXCEPT ![i] = new], new.pc = "delete",
             \A m \in new.read : m[2] \in Elsewhere(sessions[m[1]].user, new.at[1])
      PROVE  SessionsInv'
  <2>1. Carries(i, {new})
    BY <1>1, <1>4, BecomeCarries
  <2>2. \A m \in new.read : Seen(<<m[2], sessions[m[1]].user>>)
    BY <1>4 DEF Elsewhere, MembershipsOf, Seen
  <2>3. SwitchSound(new)'
    BY <1>2, <1>4, <2>2 DEF SwitchSound, Seen
  <2> QED
    BY <1>2, <2>1, <2>3, CallSessions
<1> QED
  BY <1>1, <1>3, <1>4, MoveIs

\* A session of its own row, for a membership that was seen or for a guest.
LEMMA OpenSessions ==
  ASSUME SessionsInv, AccountsTyped', \A p \in Pair : Seen(p) => Seen(p)',
         NEW i \in DOMAIN calls, CreateSession(i)
  PROVE  SessionsInv'
<1>1. /\ AccountsTyped /\ calls \in Seq(Task) /\ calls[i].at \in Pair /\ calls[i].pc = "session"
      /\ End(i) /\ SwitchSound(calls[i])
  <2>1. AccountsTyped /\ calls[i].pc = "session" /\ End(i)
    BY DEF SessionsInv, CreateSession
  <2> QED
    BY <2>1, CallHolds, CallAt DEF SessionsInv
<1>2. CASE calls[i].at[1] \notin tenants
  BY <1>1, <1>2, AsideSessions DEF CreateSession
<1>3. CASE calls[i].at[1] \in tenants
  <2>1. PICK x : x = CHOOSE y \in Unused : TRUE
    OBVIOUS
  <2>2. /\ x \in Session /\ sessions[x] = NoSession
        /\ \A j \in DOMAIN calls : calls[j].pc = "switch" => calls[j].row # x
    <3>1. Unused # {}
      BY <1>3 DEF CreateSession
    <3> QED
      BY <1>1, <2>1, <3>1, UnusedIs
  <2>3. PICK p \in Pair : p = calls[i].at /\ p = <<p[1], p[2]>>
    BY <1>1 DEF Pair
  <2>4. PICK row : row = [user |-> p[2], tenant |-> p[1], guest |-> calls[i].custom = "guest"]
    OBVIOUS
  <2>5. sessions' = [sessions EXCEPT ![x] = row] /\ DOMAIN sessions = Session
    BY <1>1, <1>3, <2>1, <2>3, <2>4 DEF CreateSession, AccountsTyped, RowsTyped
  <2>6. ~row.guest => Seen(p)'
    BY <1>1, <2>3, <2>4 DEF SwitchSound
  <2>7. SessionsSound'
    <3> SUFFICES ASSUME NEW y \in Session, sessions'[y] # NoSession, ~sessions'[y].guest
                 PROVE  Seen(At(y))'
      BY DEF SessionsSound
    <3>1. CASE y = x
      <4>1. sessions'[y] = row
        BY <2>2, <2>5, <3>1
      <4>2. At(y)' = p /\ Seen(p)'
        BY <2>3, <2>4, <2>6, <4>1 DEF At
      <4> QED
        BY <4>2 DEF Seen
    <3>2. CASE y # x
      <4>1. sessions'[y] = sessions[y]
        BY <2>5, <3>2
      <4>2. sessions[y] \in Opened /\ tenants \subseteq Tenant /\ Seen(At(y))
        BY <1>1, <4>1 DEF SessionsInv, SessionsSound, AccountsTyped, RowsTyped
      <4>3. PICK q \in Pair : q = At(y)
        BY <4>2 DEF Opened, Pair, At
      <4>4. At(y)' = q /\ Seen(q)'
        BY <4>1, <4>2, <4>3 DEF At
      <4> QED
        BY <4>4 DEF Seen
    <3> QED
      BY <3>1, <3>2
  <2>8. ASSUME NEW c \in Rest(i) PROVE SwitchSound(c)'
    <3>1. c \in ToSet(calls) /\ CallTyped(c) /\ SwitchSound(c)
      BY RestIn DEF SessionsInv, AccountsTyped, CallsTyped
    <3>2. c.pc = "switch" => c.row # x /\ c.row \in Session
      BY <2>2, <3>1 DEF Rest, CallTyped
    <3>3. c.pc = "switch" => sessions'[c.row] = sessions[c.row]
      BY <2>5, <3>2
    <3>4. c.pc = "delete" => \A m \in c.read : m[1] \in Session /\ m[1] # x
      BY <1>1, <2>2, <3>1, MovedIsThere
    <3>5. c.pc = "delete" => \A m \in c.read : sessions'[m[1]].user = sessions[m[1]].user
      BY <2>5, <3>4
    <3>6. c.pc = "switch" => \/ sessions'[c.row] = NoSession
                             \/ /\ sessions[c.row] # NoSession
                                /\ sessions'[c.row].user = sessions[c.row].user
      BY <3>3
    <3> QED
      BY <3>1, <3>5, <3>6, RestSwitch
  <2>9. ToSet(calls)' = Rest(i) \cup {}
    BY <1>1, EndCarries, CarriedSet
  <2> QED
    BY <2>7, <2>8, <2>9 DEF SessionsInv
<1> QED
  BY <1>2, <1>3

\* A session that changes its tenant, by a switch or the creation of one: its user
\* stays, and was seen in the new tenant.
LEMMA TurnSession ==
  ASSUME SessionsInv, AccountsTyped', \A p \in Pair : Seen(p) => Seen(p)',
         NEW x \in Session, sessions[x] # NoSession, ~Held(x), NEW p \in Pair, Seen(p)',
         sessions[x].user = p[2],
         sessions' = [sessions EXCEPT ![x].tenant = p[1], ![x].guest = FALSE]
  PROVE  /\ SessionsSound'
         /\ \A c \in ToSet(calls) : (c.pc = "delete" => \A m \in c.read : m[1] # x) => SwitchSound(c)'
<1>1. AccountsTyped /\ DOMAIN sessions = Session /\ sessions[x] \in Opened /\ p = <<p[1], p[2]>>
  BY DEF SessionsInv, AccountsTyped, RowsTyped, Pair
<1>2. PICK row : row = [sessions[x] EXCEPT !.tenant = p[1], !.guest = FALSE]
  OBVIOUS
<1>3. row.user = p[2] /\ row.tenant = p[1]
  BY <1>1, <1>2 DEF Opened
<1>4. sessions'[x] = row /\ \A y \in Session : y # x => sessions'[y] = sessions[y]
  BY <1>1, <1>2
<1>5. SessionsSound'
  <2> SUFFICES ASSUME NEW y \in Session, sessions'[y] # NoSession, ~sessions'[y].guest
               PROVE  Seen(At(y))'
    BY DEF SessionsSound
  <2>1. CASE y = x
    <3>1. At(y)' = p
      BY <1>1, <1>3, <1>4, <2>1 DEF At
    <3> QED
      BY <3>1 DEF Seen
  <2>2. CASE y # x
    <3>1. sessions'[y] = sessions[y]
      BY <1>4, <2>2
    <3>2. sessions[y] \in Opened /\ tenants \subseteq Tenant /\ Seen(At(y))
      BY <1>1, <3>1 DEF SessionsInv, SessionsSound, AccountsTyped, RowsTyped
    <3>3. PICK q \in Pair : q = At(y)
      BY <3>2 DEF Opened, Pair, At
    <3>4. At(y)' = q /\ Seen(q)'
      BY <3>1, <3>2, <3>3 DEF At
    <3> QED
      BY <3>4 DEF Seen
  <2> QED
    BY <2>1, <2>2
<1>6. ASSUME NEW c \in ToSet(calls), c.pc = "delete" => \A m \in c.read : m[1] # x
      PROVE  SwitchSound(c)'
  <2>1. CallTyped(c)
    BY DEF SessionsInv, AccountsTyped, CallsTyped
  <2>2. c.pc = "switch" => \/ sessions'[c.row] = NoSession
                           \/ /\ sessions[c.row] # NoSession
                              /\ sessions'[c.row].user = sessions[c.row].user
    <3>1. CASE c.row = x
      BY <1>3, <1>4, <3>1
    <3>2. CASE c.pc = "switch" /\ c.row # x
      BY <1>4, <2>1, <3>2 DEF CallTyped
    <3> QED
      BY <3>1, <3>2
  <2>3. c.pc = "delete" => \A m \in c.read : sessions'[m[1]].user = sessions[m[1]].user
    BY <1>1, <1>4, <1>6, MovedIsThere
  <2> QED
    BY <2>2, <2>3, RestSwitch
<1> QED
  BY <1>5, <1>6

LEMMA SwitchSessions ==
  ASSUME SessionsInv, AccountsTyped', \A p \in Pair : Seen(p) => Seen(p)',
         NEW i \in DOMAIN calls, UpdateSessionTenant(i)
  PROVE  SessionsInv'
<1>1. PICK x : x = calls[i].row
  OBVIOUS
<1>2. /\ AccountsTyped /\ calls \in Seq(Task) /\ calls[i].pc = "switch" /\ End(i) /\ ~Held(x)
      /\ calls[i].at \in Pair /\ x \in Session /\ SwitchSound(calls[i])
  <2>1. AccountsTyped /\ calls[i].pc = "switch" /\ End(i) /\ ~Held(x)
    BY <1>1 DEF SessionsInv, UpdateSessionTenant
  <2> QED
    BY <1>1, <2>1, CallHolds, CallAt DEF SessionsInv, CallTyped
<1>3. CASE ~ (sessions[x] # NoSession /\ calls[i].at[1] \in tenants)
  <2>1. sessions' = sessions
    BY <1>1, <1>3 DEF UpdateSessionTenant
  <2> QED
    BY <1>2, <2>1, AsideSessions
<1>4. CASE sessions[x] # NoSession /\ calls[i].at[1] \in tenants
  <2>1. PICK p \in Pair : p = calls[i].at
    BY <1>2
  <2>2. sessions[x].user = p[2] /\ Seen(p)'
    BY <1>1, <1>2, <1>4, <2>1 DEF SwitchSound
  <2>3. sessions' = [sessions EXCEPT ![x].tenant = p[1], ![x].guest = FALSE]
    BY <1>1, <1>4, <2>1 DEF UpdateSessionTenant
  <2>4. /\ SessionsSound'
        /\ \A c \in ToSet(calls) :
             (c.pc = "delete" => \A m \in c.read : m[1] # x) => SwitchSound(c)'
    BY <1>2, <1>4, <2>2, <2>3, TurnSession
  <2>5. \A c \in Rest(i) : SwitchSound(c)'
    BY <1>2, <2>4, RestIn, HeldRest
  <2>6. ToSet(calls)' = Rest(i) \cup {}
    BY <1>2, EndCarries, CarriedSet
  <2> QED
    BY <2>4, <2>5, <2>6 DEF SessionsInv
<1> QED
  BY <1>3, <1>4

LEMMA CreateSessions ==
  ASSUME SessionsInv, AccountsTyped', \A p \in Pair : Seen(p) => Seen(p)',
         NEW x \in Session, NEW t \in Tenant, CreateTenant(x, t)
  PROVE  SessionsInv'
<1>1. sessions[x] # NoSession /\ sessions[x].user \in User /\ ~Held(x)
  BY ResolvesIs DEF CreateTenant, SessionsInv
<1>2. PICK p \in Pair : p = <<t, sessions[x].user>> /\ p[1] = t /\ p[2] = sessions[x].user
  <2>1. PICK u \in User : u = sessions[x].user
    BY <1>1
  <2>2. <<t, u>> \in Pair /\ <<t, u>>[1] = t /\ <<t, u>>[2] = u
    BY DEF Pair
  <2> QED
    BY <2>1, <2>2
<1>3. /\ member' = [member EXCEPT ![p] = "owner"] /\ member \in [Pair -> Role \cup {None}]
      /\ "owner" \in Role /\ calls' = calls
      /\ sessions' = [sessions EXCEPT ![x].tenant = p[1], ![x].guest = FALSE]
  BY <1>2, AccountsAssumption DEF CreateTenant, Event, SessionsInv, AccountsTyped, RowsTyped
<1>4. Seen(p)'
  BY <1>3, NamesApart DEF Seen
<1>5. /\ SessionsSound'
      /\ \A c \in ToSet(calls) : (c.pc = "delete" => \A m \in c.read : m[1] # x) => SwitchSound(c)'
  BY <1>1, <1>2, <1>3, <1>4, TurnSession
<1>6. \A c \in ToSet(calls) : c.pc = "delete" => \A m \in c.read : m[1] # x
  BY <1>1 DEF Held, ToSet
<1>7. ToSet(calls)' = ToSet(calls)
  BY <1>3 DEF ToSet
<1> QED
  BY <1>5, <1>6, <1>7 DEF SessionsInv

\* The sessions of a deleted tenant go where their users are members, or are gone.
LEMMA DeleteSessions ==
  ASSUME SessionsInv, AccountsTyped', \A p \in Pair : Seen(p) => Seen(p)',
         NEW i \in DOMAIN calls, DeleteTenant(i)
  PROVE  SessionsInv'
<1>1. /\ AccountsTyped /\ calls \in Seq(Task) /\ calls[i].pc = "delete" /\ End(i)
      /\ SwitchSound(calls[i]) /\ tenants \subseteq Tenant
  <2>1. AccountsTyped /\ calls[i].pc = "delete" /\ End(i)
    BY DEF SessionsInv, DeleteTenant
  <2> QED
    BY <2>1, CallHolds, CallAt DEF SessionsInv, AccountsTyped, RowsTyped
<1>2. ASSUME NEW x \in Session
      PROVE  \/ \E m \in calls[i].read :
                  /\ m[1] = x /\ m[2] \in tenants /\ sessions[x] \in Opened
                  /\ sessions'[x] = [sessions[x] EXCEPT !.tenant = m[2], !.guest = FALSE]
             \/ sessions'[x] = NoSession
             \/ sessions'[x] = sessions[x]
  <2>1. \/ \E m \in calls[i].read :
             /\ m[1] = x /\ m[2] \in tenants \ {calls[i].at[1]} /\ sessions[x] \in Opened
             /\ sessions'[x] = [sessions[x] EXCEPT !.tenant = m[2], !.guest = FALSE]
        \/ /\ sessions[x].tenant = calls[i].at[1] /\ ~Held(x) /\ sessions'[x] = NoSession
        \/ /\ sessions[x].tenant # calls[i].at[1] /\ sessions'[x] = sessions[x]
    BY <1>1, DeleteIs
  <2> QED
    BY <2>1
<1>3. SessionsSound'
  <2> SUFFICES ASSUME NEW x \in Session, sessions'[x] # NoSession, ~sessions'[x].guest
               PROVE  Seen(At(x))'
    BY DEF SessionsSound
  <2>1. ASSUME NEW m \in calls[i].read, m[1] = x, m[2] \in tenants, sessions[x] \in Opened,
               sessions'[x] = [sessions[x] EXCEPT !.tenant = m[2], !.guest = FALSE]
        PROVE  Seen(At(x))'
    <3>1. PICK p \in Pair : p = <<m[2], sessions[x].user>>
      BY <1>1, <2>1 DEF Opened, Pair
    <3>2. Seen(p)'
      BY <1>1, <2>1, <3>1 DEF SwitchSound
    <3>3. At(x)' = p
      BY <2>1, <3>1 DEF Opened, At
    <3> QED
      BY <3>2, <3>3 DEF Seen
  <2>2. CASE sessions'[x] = sessions[x]
    <3>1. sessions[x] \in Opened /\ Seen(At(x))
      BY <1>1, <2>2 DEF SessionsInv, SessionsSound, AccountsTyped, RowsTyped
    <3>2. PICK q \in Pair : q = At(x)
      BY <1>1, <3>1 DEF Opened, Pair, At
    <3>3. At(x)' = q /\ Seen(q)'
      BY <2>2, <3>1, <3>2 DEF At
    <3> QED
      BY <3>3 DEF Seen
  <2> QED
    BY <1>2, <2>1, <2>2
<1>4. ASSUME NEW c \in Rest(i) PROVE SwitchSound(c)'
  <2>1. c \in ToSet(calls) /\ CallTyped(c)
    BY RestIn DEF SessionsInv, AccountsTyped, CallsTyped
  <2>2. c.pc = "switch" => \/ sessions'[c.row] = NoSession
                           \/ /\ sessions[c.row] # NoSession
                              /\ sessions'[c.row].user = sessions[c.row].user
    <3> SUFFICES ASSUME c.pc = "switch" PROVE \/ sessions'[c.row] = NoSession
                                              \/ /\ sessions[c.row] # NoSession
                                                 /\ sessions'[c.row].user = sessions[c.row].user
      OBVIOUS
    <3>1. PICK x \in Session : x = c.row
      BY <2>1 DEF CallTyped
    <3>2. ASSUME NEW m \in calls[i].read, sessions[x] \in Opened,
                 sessions'[x] = [sessions[x] EXCEPT !.tenant = m[2], !.guest = FALSE]
          PROVE  sessions[x] # NoSession /\ sessions'[x].user = sessions[x].user
      BY <3>2, NamesApart DEF Opened
    <3> QED
      BY <1>2, <3>1, <3>2
  <2>3. c.pc = "delete" => \A m \in c.read : sessions'[m[1]].user = sessions[m[1]].user
    BY <1>1, DeleteSparesOthers
  <2> QED
    BY <2>1, <2>2, <2>3, RestSwitch
<1>5. ToSet(calls)' = Rest(i) \cup {}
  BY <1>1, EndCarries, CarriedSet
<1> QED
  BY <1>3, <1>4, <1>5 DEF SessionsInv

LEMMA EnterSessions ==
  ASSUME SessionsInv, AccountsTyped', \A p \in Pair : Seen(p) => Seen(p)',
         NEW c \in Task, Enters(c)
  PROVE  SessionsInv'
<1>1. /\ calls \in Seq(Task) /\ Begin(c) /\ Fitting(c)
      /\ \A k \in DOMAIN calls : calls[k] \in Task /\ calls[k] \in ToSet(calls)
  BY CallAt DEF SessionsInv, AccountsTyped, CallsTyped, Enters
<1>2. UNCHANGED <<sessions, member, left>>
  BY <1>1 DEF Begin, rows, history
<1>3. PICK n : n = Len(calls) + 1
  OBVIOUS
<1>4. /\ DOMAIN calls' = DOMAIN calls \cup {n}
      /\ \A k \in DOMAIN calls :
           calls'[k] = [calls[k] EXCEPT !.alone = calls[k].alone /\ ~Meet(c, calls[k])]
      /\ calls'[n] = [c EXCEPT !.alone = \A k \in DOMAIN calls : ~Meet(c, calls[k])]
  BY <1>1, <1>3, BeginIs
<1>5. ASSUME NEW k \in DOMAIN calls, NEW d, d = calls'[k] PROVE SwitchSound(d)'
  <2>1. PICK e : e = calls[k]
    OBVIOUS
  <2>2. e \in Task /\ e \in ToSet(calls)
    BY <1>1, <2>1
  <2>3. PICK a : d = [e EXCEPT !.alone = a]
    BY <1>4, <1>5, <2>1
  <2>4. d.pc = e.pc /\ d.at = e.at /\ d.custom = e.custom /\ d.row = e.row /\ d.read = e.read
    BY <2>2, <2>3 DEF Task
  <2>5. e.pc = "switch" => \/ sessions'[e.row] = NoSession
                           \/ /\ sessions[e.row] # NoSession
                              /\ sessions'[e.row].user = sessions[e.row].user
    BY <1>2
  <2>6. e.pc = "delete" => \A m \in e.read : sessions'[m[1]].user = sessions[m[1]].user
    BY <1>2
  <2> QED
    BY <2>2, <2>4, <2>5, <2>6, RestSwitch
<1>6. ASSUME NEW d, d = calls'[n] PROVE SwitchSound(d)'
  <2>1. PICK a : d = [c EXCEPT !.alone = a]
    BY <1>4, <1>6
  <2>2. d.pc = c.pc /\ d.at = c.at /\ d.custom = c.custom /\ d.row = c.row
    BY <2>1 DEF Task
  <2> QED
    BY <1>1, <1>2, <2>2 DEF Fitting, SwitchSound, Seen
<1>7. \A d \in ToSet(calls)' : SwitchSound(d)'
  <2>1. ToSet(calls)' = {calls'[k] : k \in DOMAIN calls'}
    BY DEF ToSet
  <2> QED
    BY <1>4, <1>5, <1>6, <2>1
<1>8. SessionsSound'
  BY <1>2, SessionsStay
<1> QED
  BY <1>7, <1>8 DEF SessionsInv

\* The other steps of a call: none of them touches a session, and none leads to a step
\* that does.
LEMMA OtherSessions ==
  ASSUME SessionsInv, AccountsTyped', \A p \in Pair : Seen(p) => Seen(p)',
         NEW i \in DOMAIN calls,
         \/ SetupAdmin(i) \/ WriteConfig(i) \/ EnsureCoreSchema(i)
         \/ UpdateRole(i) \/ DropBuiltin(i) \/ GrantBuiltin(i) \/ ClearCustom(i) \/ GrantCustom(i)
         \/ UpsertMember(i) \/ Join(i) \/ DeleteGroups(i) \/ DeleteMembership(i)
         \/ DeletionEnds(i) \/ CallFails(i)
  PROVE  SessionsInv'
<1>1. AccountsTyped /\ calls \in Seq(Task)
  BY DEF SessionsInv, AccountsTyped, CallsTyped
<1>2. sessions' = sessions
  BY DEF SetupAdmin, WriteConfig, EnsureCoreSchema, UpdateRole, DropBuiltin, GrantBuiltin,
     ClearCustom, GrantCustom, UpsertMember, Join, DeleteGroups, DeleteMembership, DeletionEnds,
     CallFails, rows
<1>3. CASE End(i)
  BY <1>2, <1>3, AsideSessions
<1>4. ASSUME NEW pc \in {"config", "swap", "grant", "clear", "custom", "leave"}, To(i, pc)
      PROVE  SessionsInv'
  <2>1. PICK new \in Task : calls' = [calls EXCEPT ![i] = new] /\ new.pc = pc
    BY <1>1, <1>4, ToIs DEF Pc
  <2>2. new.pc \notin {"switch", "session", "delete"}
    BY <1>4, <2>1
  <2> QED
    BY <1>2, <2>1, <2>2, AsideSessions
<1>5. CASE UpsertMember(i) /\ calls[i].at[1] \in tenants
  <2>1. PICK new \in Task : calls' = [calls EXCEPT ![i] = new] /\ new.pc = "join"
    BY <1>1, <1>5, UpsertIs
  <2>2. new.pc \notin {"switch", "session", "delete"}
    BY <2>1
  <2> QED
    BY <1>2, <2>1, <2>2, AsideSessions
<1>6. \/ End(i)
      \/ \E pc \in {"config", "swap", "grant", "clear", "custom", "leave"} : To(i, pc)
      \/ UpsertMember(i) /\ calls[i].at[1] \in tenants
  BY DEF SetupAdmin, WriteConfig, EnsureCoreSchema, UpdateRole, DropBuiltin, GrantBuiltin,
     ClearCustom, GrantCustom, UpsertMember, Join, DeleteGroups, DeleteMembership, DeletionEnds,
     CallFails
<1> QED
  BY <1>3, <1>4, <1>5, <1>6

LEMMA IdleSessions ==
  ASSUME SessionsInv, AccountsTyped', \A p \in Pair : Seen(p) => Seen(p)',
         UNCHANGED <<calls, sessions>>
  PROVE  SessionsInv'
<1>1. ToSet(calls)' = ToSet(calls)
  BY DEF ToSet
<1>2. ASSUME NEW c \in ToSet(calls) PROVE SwitchSound(c)'
  <2>1. c.pc = "switch" => \/ sessions'[c.row] = NoSession
                           \/ /\ sessions[c.row] # NoSession
                              /\ sessions'[c.row].user = sessions[c.row].user
    OBVIOUS
  <2> QED
    BY <2>1, RestSwitch
<1>3. SessionsSound'
  BY SessionsStay
<1> QED
  BY <1>1, <1>2, <1>3 DEF SessionsInv

LEMMA SessionsInvInit ==
  ASSUME Init
  PROVE  SessionsInv
<1>1. AccountsTyped /\ calls = <<>>
  BY AccountsTypedInit DEF Init
<1>2. ToSet(calls) = {}
  BY <1>1, EmptyCalls DEF ToSet
<1>3. \A x \in Session : sessions[x] = NoSession \/ Resolves(x)
  BY DEF Init, Fresh, Installed
<1>4. SessionsSound
  BY <1>3 DEF SessionsSound, Seen, Resolves, MembershipsOf, At
<1> QED
  BY <1>1, <1>2, <1>4 DEF SessionsInv

LEMMA SessionsInvStep ==
  ASSUME SessionsInv, [Next]_vars
  PROVE  SessionsInv'
<1>1. AccountsTyped /\ AccountsTyped' /\ \A p \in Pair : Seen(p) => Seen(p)'
  BY AccountsTypedStep, SeenKept DEF SessionsInv
<1>2. ASSUME NEW u \in User, StartSetup(u) \/ StartLogin(u) \/ StartOAuth(u) PROVE SessionsInv'
  BY <1>1, <1>2, UserStarts, EnterSessions
<1>3. ASSUME NEW x \in Session, Users(x) PROVE SessionsInv'
  BY <1>1, <1>3, AdminStarts, EnterSessions
<1>4. ASSUME NEW x \in Session, Tenants(x) PROVE SessionsInv'
  BY <1>1, <1>4, TenantStarts, EnterSessions, CreateSessions DEF Tenants
<1>5. ASSUME NEW x \in Session, CreateGroup(x) \/ DeleteGroup(x) PROVE SessionsInv'
  <2>1. UNCHANGED <<calls, sessions>>
    BY <1>5 DEF CreateGroup, DeleteGroup, Event
  <2> QED
    BY <1>1, <2>1, IdleSessions
<1>6. CASE StartBoot
  BY <1>1, <1>6, BootStarts, EnterSessions
<1>7. ASSUME NEW i \in DOMAIN calls, CallStep(i) \/ CallFails(i) PROVE SessionsInv'
  BY <1>1, <1>7, OtherSessions, OpenSessions, SwitchSessions, MoveSessionsOf, DeleteSessions
     DEF CallStep
<1>8. CASE UNCHANGED vars
  <2>1. UNCHANGED <<calls, sessions>>
    BY <1>8 DEF vars, rows
  <2> QED
    BY <1>1, <2>1, IdleSessions
<1> QED
  BY <1>2, <1>3, <1>4, <1>5, <1>6, <1>7, <1>8 DEF Next

\* No deletion, creation or change of a tenant strands a session, for any users, tenants,
\* sessions, calls and failures: one that does not resolve is of somebody whose membership
\* ended, or of a guest (deleteTenantForUser, createTenantAsUser, updateSessionTenant).
THEOREM SessionsFollow == Spec => []SessionsResolve
<1>1. Init => SessionsInv
  BY SessionsInvInit
<1>2. SessionsInv /\ [Next]_vars => SessionsInv'
  BY SessionsInvStep
<1>3. SessionsInv => SessionsResolve
  BY SessionsInvResolve
<1> QED
  BY <1>1, <1>2, <1>3, PTL DEF Spec

-----------------------------------------------------------------------------
\* What is stored is well typed in both parts: no membership, group or session of a tenant
\* that is gone, no write to an incident that was never there (accounts, upsertIncident).
THEOREM TypesCorrect == PlatformSpec => []TypesOK
BY AccountsTypeCorrect, IncidentsTypeCorrect, PTL DEF PlatformSpec, TypesOK
=============================================================================
