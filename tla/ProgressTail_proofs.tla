------------------------- MODULE ProgressTail_proofs -------------------------
(***************************************************************************)
(* Theorems about how a user sees what a worker does, for any number of    *)
(* events, notes and reports.                                              *)
(***************************************************************************)
EXTENDS ProgressTail, SequenceTheorems, WellFoundedInduction, TLAPS

(***************************************************************************)
(* The least and the greatest element.                                     *)
(***************************************************************************)
LEMMA MinOfNaturals ==
  ASSUME NEW S, S \subseteq Nat, S # {}
  PROVE  Min(S) \in S /\ \A x \in S : Min(S) <= x
<1> DEFINE Less == {ss \in Nat \X Nat : ss[1] < ss[2]}
<1>0. IsWellFoundedOn(Less, Nat)
  BY NatLessThanWellFounded, Zenon DEF OpToRel
<1> HIDE DEF Less
<1>1. PICK x \in S : \A y \in S : ~ (<<y, x>> \in Less)
  BY <1>0, WFMin
<1>2. \A y \in S : x <= y
  <2> TAKE y \in S
  <2>1. ~ (y < x)
    BY <1>1 DEF Less
  <2> QED
    BY <2>1
<1> QED
  BY <1>2 DEF Min

LEMMA MaxOfNaturals ==
  ASSUME NEW n \in Nat, NEW S, S \subseteq 0..n, S # {}
  PROVE  Max(S) \in S /\ \A x \in S : Max(S) >= x
<1> DEFINE Below == {n - x : x \in S}
<1>1. Below \subseteq Nat /\ Below # {}
  OBVIOUS
<1>2. Min(Below) \in Below /\ \A x \in Below : Min(Below) <= x
  BY <1>1, MinOfNaturals
<1>3. PICK top \in S : Min(Below) = n - top
  BY <1>2
<1>4. \A x \in S : top >= x
  <2> TAKE x \in S
  <2>1. n - top <= n - x
    BY <1>2, <1>3
  <2> QED
    BY <2>1
<1> QED
  BY <1>4 DEF Max

(***************************************************************************)
(* The file, the last newline that was read, and who counts what.          *)
(***************************************************************************)

\* The halves of a line follow each other, and the lines are in order.
Ordered(data) ==
  \A i, j \in 1..Len(data) : i < j =>
    \/ data[i].n < data[j].n
    \/ data[i].n = data[j].n /\ ~data[i].last /\ data[j].last

WholeAt(data, i) ==
  /\ i \in 1..Len(data) - 1
  /\ i = 1 \/ data[i - 1].last
  /\ ~data[i].last /\ data[i + 1] = [data[i] EXCEPT !.last = TRUE]

WholeUpTo(p) == {file[i].n : i \in {k \in 1..p : WholeAt(file, k)}}

\* The file is read up to offset, and its lines up to the last newline there.
ReadTo == offset - Len(pending)

ReadWell ==
  /\ ReadTo \in 0..offset
  /\ ReadTo = 0 \/ file[ReadTo].last
  /\ pending = SubSeq(file, ReadTo + 1, offset)
  /\ \A k \in ReadTo + 1..offset : ~file[k].last

InHand(who, n) == IF n \in hand[who] THEN 1 ELSE 0

CountedOnce ==
  \A n \in Events :
    seen[n] + InHand("thread", n) + InHand("host", n) = (IF n \in WholeUpTo(ReadTo) THEN 1 ELSE 0)

HandsEmpty ==
  /\ host = "starting" => thread = "none"
  /\ thread # "emitting" => hand["thread"] = {}
  /\ host # "emitting" => hand["host"] = {}

ReadToEnd == host \in {"emitting", "reporting", "done"} => offset = Len(file)

ReportsLeft == host # "done" => reports > 0

TailInvariant ==
  /\ ProgressTypeOK /\ Ordered(file) /\ ReadWell /\ CountedOnce /\ HandsEmpty
  /\ ReadToEnd /\ ReportsLeft

LEMMA LastEndOf ==
  ASSUME NEW data \in Seq(Half)
  PROVE  /\ LastEnd(data) \in 0..Len(data)
         /\ LastEnd(data) = 0 \/ data[LastEnd(data)].last
         /\ \A i \in LastEnd(data) + 1..Len(data) : ~data[i].last
<1> DEFINE Ends == {i \in DOMAIN data : data[i].last}
<1>1. Len(data) \in Nat /\ DOMAIN data = 1..Len(data)
  BY LenProperties
<1>2. {0} \cup Ends \subseteq 0..Len(data) /\ {0} \cup Ends # {}
  BY <1>1
<1>3. /\ LastEnd(data) \in {0} \cup Ends
      /\ \A i \in {0} \cup Ends : LastEnd(data) >= i
  BY <1>1, <1>2, MaxOfNaturals DEF LastEnd
<1>4. LastEnd(data) \in 0..Len(data)
  BY <1>2, <1>3
<1>5. ASSUME NEW i \in LastEnd(data) + 1..Len(data) PROVE ~data[i].last
  <2>1. i \in 1..Len(data) /\ ~ (LastEnd(data) >= i)
    BY <1>1, <1>4
  <2> QED
    BY <1>1, <1>3, <2>1
<1> QED
  BY <1>3, <1>4, <1>5

LEMMA TailNumbers ==
  ASSUME ProgressTypeOK
  PROVE  /\ Len(file) \in Nat /\ Len(pending) \in Nat /\ offset \in 0..Len(file)
         /\ ReadTo \in Int
         /\ \A i \in 1..Len(file) : file[i] \in Half
BY LenProperties, ElementOfSeq DEF ProgressTypeOK, ReadTo

LEMMA Slice ==
  ASSUME NEW S, NEW s \in Seq(S), NEW m \in Nat, NEW n \in Nat, m <= n, n <= Len(s)
  PROVE  /\ SubSeq(s, m + 1, n) \in Seq(S)
         /\ Len(SubSeq(s, m + 1, n)) = n - m
         /\ \A i \in 1..n - m : SubSeq(s, m + 1, n)[i] = s[m + i]
<1>1. Len(s) \in Nat
  BY LenProperties
<1>2. \A i \in m + 1..n : s[i] \in S
  <2> TAKE i \in m + 1..n
  <2>1. i \in 1..Len(s)
    BY <1>1
  <2> QED
    BY <2>1, ElementOfSeq
<1>3. /\ SubSeq(s, m + 1, n) \in Seq(S)
      /\ Len(SubSeq(s, m + 1, n)) = IF m + 1 <= n THEN n - (m + 1) + 1 ELSE 0
      /\ \A i \in 1..n - (m + 1) + 1 : SubSeq(s, m + 1, n)[i] = s[m + 1 + i - 1]
  BY <1>2, SubSeqProperties
<1>4. \A i \in 1..n - m : i \in 1..n - (m + 1) + 1 /\ m + 1 + i - 1 = m + i
  OBVIOUS
<1> QED
  BY <1>3, <1>4

LEMMA SlicesJoin ==
  ASSUME NEW S, NEW s \in Seq(S), NEW a \in Nat, NEW b \in Nat, NEW c \in Nat,
         a <= b, b <= c, c <= Len(s)
  PROVE  SubSeq(s, a + 1, b) \o SubSeq(s, b + 1, c) = SubSeq(s, a + 1, c)
<1> DEFINE left == SubSeq(s, a + 1, b)
           right == SubSeq(s, b + 1, c)
           all == SubSeq(s, a + 1, c)
<1>1. Len(s) \in Nat
  BY LenProperties
<1>2. /\ left \in Seq(S) /\ Len(left) = b - a
      /\ \A i \in 1..b - a : left[i] = s[a + i]
  BY <1>1, Slice
<1>3. /\ right \in Seq(S) /\ Len(right) = c - b
      /\ \A i \in 1..c - b : right[i] = s[b + i]
  BY <1>1, Slice
<1>4. /\ all \in Seq(S) /\ Len(all) = c - a
      /\ \A i \in 1..c - a : all[i] = s[a + i]
  BY <1>1, Slice
<1> HIDE DEF left, right, all
<1>5. /\ left \o right \in Seq(S) /\ Len(left \o right) = c - a
      /\ \A i \in 1..c - a :
           (left \o right)[i] = IF i <= b - a THEN left[i] ELSE right[i - (b - a)]
  <2>1. /\ left \o right \in Seq(S) /\ Len(left \o right) = Len(left) + Len(right)
        /\ \A i \in 1..Len(left) + Len(right) :
             (left \o right)[i] = IF i <= Len(left) THEN left[i] ELSE right[i - Len(left)]
    BY <1>2, <1>3, ConcatProperties
  <2>2. Len(left) + Len(right) = c - a
    BY <1>2, <1>3
  <2> QED
    BY <1>2, <2>1, <2>2
<1>6. \A i \in 1..c - a : (left \o right)[i] = all[i]
  <2> TAKE i \in 1..c - a
  <2>1. CASE i <= b - a
    <3>1. i \in 1..b - a
      BY <2>1
    <3> QED
      BY <1>2, <1>4, <1>5, <2>1, <3>1
  <2>2. CASE ~ (i <= b - a)
    <3> DEFINE k == i - (b - a)
    <3>1. k \in 1..c - b /\ b + k = a + i
      BY <2>2
    <3> HIDE DEF k
    <3>2. right[k] = s[a + i]
      BY <1>3, <3>1
    <3>3. (left \o right)[i] = right[k]
      BY <1>5, <2>2 DEF k
    <3> QED
      BY <1>4, <3>2, <3>3
  <2> QED
    BY <2>1, <2>2
<1>7. left \o right = all
  BY <1>4, <1>5, <1>6, SeqEqual
<1> QED
  BY <1>7 DEF left, right, all

LEMMA SliceOfLonger ==
  ASSUME NEW S, NEW s \in Seq(S), NEW elt \in S, NEW a \in Nat, NEW b \in Nat,
         a <= b, b <= Len(s)
  PROVE  SubSeq(Append(s, elt), a + 1, b) = SubSeq(s, a + 1, b)
<1> DEFINE longer == Append(s, elt)
           new == SubSeq(longer, a + 1, b)
           old == SubSeq(s, a + 1, b)
<1>1. /\ Len(s) \in Nat /\ longer \in Seq(S) /\ b <= Len(longer)
      /\ \A i \in 1..Len(s) : longer[i] = s[i]
  BY LenProperties, AppendProperties
<1> HIDE DEF longer
<1>2. /\ old \in Seq(S) /\ Len(old) = b - a
      /\ \A i \in 1..b - a : old[i] = s[a + i]
  BY <1>1, Slice
<1>3. /\ new \in Seq(S) /\ Len(new) = b - a
      /\ \A i \in 1..b - a : new[i] = longer[a + i]
  BY <1>1, Slice
<1> HIDE DEF new, old
<1>4. \A i \in 1..b - a : new[i] = old[i]
  <2> TAKE i \in 1..b - a
  <2>1. a + i \in 1..Len(s)
    BY <1>1
  <2> QED
    BY <1>1, <1>2, <1>3, <2>1
<1>5. new = old
  BY <1>2, <1>3, <1>4, SeqEqual
<1> QED
  BY <1>5 DEF new, old, longer

\* A poll looks at the file from the last newline it read.
LEMMA ReadFromNewline ==
  ASSUME ProgressTypeOK, ReadWell
  PROVE  pending \o SubSeq(file, offset + 1, Len(file)) = SubSeq(file, ReadTo + 1, Len(file))
<1>1. /\ file \in Seq(Half) /\ Len(file) \in Nat /\ offset \in 0..Len(file)
      /\ ReadTo \in 0..offset /\ pending = SubSeq(file, ReadTo + 1, offset)
  BY TailNumbers DEF ReadWell, ProgressTypeOK
<1>2. ReadTo \in Nat /\ offset \in Nat /\ ReadTo <= offset /\ offset <= Len(file) /\ Len(file) <= Len(file)
  BY <1>1
<1>3. SubSeq(file, ReadTo + 1, offset) \o SubSeq(file, offset + 1, Len(file))
        = SubSeq(file, ReadTo + 1, Len(file))
  BY <1>1, <1>2, SlicesJoin
<1> QED
  BY <1>1, <1>3

WholeWithin(p, q) == {file[i].n : i \in {k \in p + 1..q : WholeAt(file, k)}}

\* A poll finds the whole lines up to the newline it moves to, and keeps the rest.
LEMMA ReadMoves ==
  ASSUME ProgressTypeOK, ReadWell, NEW who \in Pollers, Read(who), file' = file
  PROVE  /\ ReadWell' /\ pending' \in Seq(Half) /\ offset' = Len(file)
         /\ ReadTo' \in ReadTo..Len(file)
         /\ hand' = [hand EXCEPT ![who] = WholeWithin(ReadTo, ReadTo')]
<1> DEFINE p == ReadTo
           data == SubSeq(file, p + 1, Len(file))
           e == LastEnd(data)
<1>1. Len(file) \in Nat /\ p \in Nat /\ p <= Len(file) /\ file \in Seq(Half)
  BY TailNumbers DEF ReadWell, ProgressTypeOK
<1>2. /\ data \in Seq(Half) /\ Len(data) = Len(file) - p
      /\ \A i \in 1..Len(file) - p : data[i] = file[p + i]
  <2> HIDE DEF p
  <2> QED
    BY <1>1, Slice
<1>3. /\ pending' = SubSeq(data, e + 1, Len(data))
      /\ offset' = Len(file) /\ hand' = [hand EXCEPT ![who] = WholeIn(data)]
  <2>1. pending \o SubSeq(file, offset + 1, Len(file)) = data
    BY ReadFromNewline
  <2> HIDE DEF data, e
  <2> QED
    BY <2>1 DEF Read, Rest, e
<1> HIDE DEF data
<1>4. /\ e \in 0..Len(data) /\ (e = 0 \/ data[e].last)
      /\ \A i \in e + 1..Len(data) : ~data[i].last
  BY <1>2, LastEndOf
<1> HIDE DEF e, p
<1>5. /\ pending' \in Seq(Half) /\ Len(pending') = Len(data) - e
      /\ \A i \in 1..Len(data) - e : pending'[i] = data[e + i]
  <2>1. e \in Nat /\ Len(data) \in Nat /\ e <= Len(data)
    BY <1>1, <1>2, <1>4
  <2> QED
    BY <1>2, <1>3, <2>1, Slice
<1>6. ReadTo' = p + e /\ p + e \in p..Len(file)
  <2>1. ReadTo' = Len(file) - (Len(data) - e)
    BY <1>3, <1>5 DEF ReadTo
  <2> QED
    BY <1>1, <1>2, <1>4, <2>1
<1>7. p + e = 0 \/ file[p + e].last
  <2>1. CASE e = 0
    BY <1>1, <2>1 DEF ReadWell, p
  <2>2. CASE e # 0
    <3>1. e \in 1..Len(file) - p
      BY <1>1, <1>2, <1>4, <2>2
    <3> QED
      BY <1>2, <1>4, <2>2, <3>1
  <2> QED
    BY <2>1, <2>2
<1>8. \A k \in p + e + 1..Len(file) : ~file[k].last
  <2> TAKE k \in p + e + 1..Len(file)
  <2> DEFINE i == k - p
  <2>1. i \in e + 1..Len(data) /\ i \in 1..Len(file) - p /\ k = p + i
    BY <1>1, <1>2, <1>4
  <2> HIDE DEF i
  <2> QED
    BY <1>2, <1>4, <2>1
<1>9. pending' = SubSeq(file, p + e + 1, Len(file))
  <2> DEFINE tail == SubSeq(file, p + e + 1, Len(file))
  <2>1. p + e \in Nat /\ p + e <= Len(file) /\ Len(file) - (p + e) = Len(data) - e
    BY <1>1, <1>2, <1>4
  <2>2. /\ tail \in Seq(Half) /\ Len(tail) = Len(file) - (p + e)
        /\ \A i \in 1..Len(file) - (p + e) : tail[i] = file[p + e + i]
    BY <1>1, <2>1, Slice
  <2> HIDE DEF tail
  <2>3. \A i \in 1..Len(data) - e : pending'[i] = tail[i]
    <3> TAKE i \in 1..Len(data) - e
    <3> DEFINE k == e + i
    <3>1. k \in 1..Len(file) - p /\ p + k = p + e + i
      BY <1>1, <1>2, <1>4
    <3>2. pending'[i] = data[k]
      BY <1>5
    <3> HIDE DEF k
    <3>3. data[k] = file[p + e + i]
      BY <1>2, <3>1
    <3> QED
      BY <2>1, <2>2, <3>2, <3>3
  <2>4. pending' = tail
    BY <1>5, <2>1, <2>2, <2>3, SeqEqual
  <2> QED
    BY <2>4 DEF tail
<1>10. WholeIn(data) = WholeWithin(p, p + e)
  <2>1. \A i \in 1..Len(data) - 1 :
          WholeAt(file, p + i)
            <=> /\ i = 1 \/ data[i - 1].last
                /\ ~data[i].last /\ data[i + 1] = [data[i] EXCEPT !.last = TRUE]
    <3> TAKE i \in 1..Len(data) - 1
    <3>1. /\ i \in 1..Len(file) - p /\ i + 1 \in 1..Len(file) - p
          /\ p + (i + 1) = p + i + 1 /\ p + i \in 1..Len(file) - 1
      BY <1>1, <1>2
    <3>2. data[i] = file[p + i] /\ data[i + 1] = file[p + i + 1]
      BY <1>2, <3>1
    <3>3. (p + i = 1 \/ file[(p + i) - 1].last) <=> (i = 1 \/ data[i - 1].last)
      <4>1. CASE i = 1
        <5>1. (p + i) - 1 = p
          BY <1>1, <4>1
        <5>2. p = 0 \/ file[p].last
          BY DEF ReadWell, p
        <5> QED
          BY <1>1, <4>1, <5>1, <5>2
      <4>2. CASE i # 1
        <5>1. i - 1 \in 1..Len(file) - p /\ p + (i - 1) = (p + i) - 1 /\ p + i # 1
          BY <1>1, <1>2, <4>2
        <5>2. data[i - 1] = file[(p + i) - 1]
          BY <1>2, <5>1
        <5> QED
          BY <4>2, <5>1, <5>2
      <4> QED
        BY <4>1, <4>2
    <3> DEFINE j == p + i
    <3>4. j \in 1..Len(file) - 1 /\ data[i] = file[j] /\ data[i + 1] = file[j + 1]
      BY <3>1, <3>2
    <3>5. (j = 1 \/ file[j - 1].last) <=> (i = 1 \/ data[i - 1].last)
      BY <3>3
    <3> HIDE DEF j
    <3>6. WholeAt(file, j) <=>
            /\ i = 1 \/ data[i - 1].last
            /\ ~data[i].last /\ data[i + 1] = [data[i] EXCEPT !.last = TRUE]
      BY <3>4, <3>5 DEF WholeAt
    <3> QED
      BY <3>6, Zenon DEF j
  <2>2. ASSUME NEW n \in WholeIn(data) PROVE n \in WholeWithin(p, p + e)
    <3>1. PICK i \in 1..Len(data) - 1 :
            /\ i = 1 \/ data[i - 1].last
            /\ ~data[i].last /\ data[i + 1] = [data[i] EXCEPT !.last = TRUE]
            /\ n = data[i].n
      BY <2>2 DEF WholeIn
    <3>2. i \in 1..Len(file) - p /\ i + 1 \in 1..Len(data)
      BY <1>1, <1>2
    <3>3. data[i] \in Half
      BY <1>2, <3>2, ElementOfSeq
    <3>4. data[i + 1].last
      BY <3>1, <3>3 DEF Half
    <3>5. i + 1 <= e
      <4>1. i + 1 \notin e + 1..Len(data)
        BY <1>4, <3>4
      <4> QED
        BY <1>1, <1>2, <1>4, <3>2, <4>1
    <3>6. p + i \in p + 1..p + e
      BY <1>1, <1>2, <1>4, <3>5
    <3>7. WholeAt(file, p + i) /\ n = file[p + i].n
      BY <1>2, <2>1, <3>1, <3>2
    <3> QED
      BY <3>6, <3>7 DEF WholeWithin
  <2>3. ASSUME NEW n \in WholeWithin(p, p + e) PROVE n \in WholeIn(data)
    <3>1. PICK k \in p + 1..p + e : WholeAt(file, k) /\ n = file[k].n
      BY <2>3 DEF WholeWithin
    <3> DEFINE i == k - p
    <3>2. i \in 1..Len(data) - 1 /\ i \in 1..Len(file) - p /\ k = p + i
      <4>1. k \in 1..Len(file) - 1
        BY <3>1 DEF WholeAt
      <4> QED
        BY <1>1, <1>2, <1>4, <4>1
    <3> HIDE DEF i
    <3>3. data[i].n = n
      BY <1>2, <3>1, <3>2
    <3>4. /\ i = 1 \/ data[i - 1].last
          /\ ~data[i].last /\ data[i + 1] = [data[i] EXCEPT !.last = TRUE]
      BY <2>1, <3>1, <3>2
    <3> QED
      BY <3>2, <3>3, <3>4 DEF WholeIn
  <2> QED
    BY <2>2, <2>3
<1>11. ReadWell'
  <2>1. ReadTo' \in 0..offset'
    BY <1>1, <1>3, <1>6
  <2> QED
    BY <1>3, <1>6, <1>7, <1>8, <1>9, <2>1 DEF ReadWell
<1> QED
  BY <1>3, <1>5, <1>6, <1>10, <1>11 DEF p

LEMMA NextInHand ==
  ASSUME ProgressTypeOK, NEW who \in Pollers, hand[who] # {}
  PROVE  Min(hand[who]) \in hand[who] /\ Min(hand[who]) \in Events
<1>1. hand[who] \subseteq Events /\ Events \subseteq Nat
  BY ProgressDeclarations DEF ProgressTypeOK, Events
<1> QED
  BY <1>1, MinOfNaturals

LEMMA StreamTyped ==
  ASSUME ProgressTypeOK, NEW who \in Pollers,
         TakeNumber(who) \/ Appended(who) \/ AppendFails(who) \/ UNCHANGED streamVars
  PROVE  slot' \in [Pollers -> Nat] /\ counter' \in Nat /\ stream' \in Seq(ProgressEvent)
<1>1. CASE Appended(who)
  <2>1. [id |-> slot[who], by |-> who] \in ProgressEvent
    BY DEF ProgressTypeOK, ProgressEvent
  <2>2. stream' \in Seq(ProgressEvent)
    BY <1>1, <2>1, AppendProperties DEF Appended, ProgressTypeOK
  <2> QED
    BY <1>1, <2>2 DEF Appended, ProgressTypeOK
<1>2. CASE TakeNumber(who)
  BY <1>2 DEF TakeNumber, ProgressTypeOK
<1>3. CASE AppendFails(who)
  BY <1>3 DEF AppendFails, ProgressTypeOK
<1>4. CASE UNCHANGED streamVars
  BY <1>4 DEF streamVars, ProgressTypeOK
<1> QED
  BY <1>1, <1>2, <1>3, <1>4

LEMMA ProgressTypeInit == ProgressInit => ProgressTypeOK
<1> SUFFICES ASSUME ProgressInit PROVE ProgressTypeOK
  OBVIOUS
<1>1. file \in Seq(Half) /\ 0 \in 0..Len(file)
  <2> DEFINE begun == [n |-> 0, last |-> FALSE]
             ended == [n |-> 0, last |-> TRUE]
  <2>1. begun \in Half /\ ended \in Half
    BY ProgressDeclarations DEF Half, Events
  <2>2. file \in {<<>>, <<begun>>, <<begun, ended>>}
    BY DEF ProgressInit
  <2> HIDE DEF begun, ended
  <2>3. <<>> \in Seq(Half) /\ <<begun>> \in Seq(Half) /\ <<begun, ended>> \in Seq(Half)
    BY <2>1
  <2>4. file \in Seq(Half)
    BY <2>2, <2>3
  <2> QED
    BY <2>4, LenProperties
<1>2. stream \in Seq(ProgressEvent)
  <2> DEFINE earlier == [id |-> 0, by |-> "host"]
  <2>1. earlier \in ProgressEvent
    BY DEF ProgressEvent, Pollers
  <2>2. stream \in {<<>>, <<earlier>>}
    BY DEF ProgressInit
  <2> HIDE DEF earlier
  <2>3. <<>> \in Seq(ProgressEvent) /\ <<earlier>> \in Seq(ProgressEvent)
    BY <2>1
  <2> QED
    BY <2>2, <2>3
<1>3. Len(stream) \in Nat
  BY <1>2, LenProperties
<1> QED
  BY <1>1, <1>2, <1>3, ProgressDeclarations DEF ProgressInit, ProgressTypeOK

\* What a reader of the stream prints are events.
LEMMA RenderTyped ==
  ASSUME ProgressTypeOK, Rendered
  PROVE  rendered' \in Nat /\ printed' \in Seq(ProgressEvent)
<1>1. CASE torn
  BY <1>1 DEF Rendered, ProgressTypeOK
<1>2. CASE ~torn
  <2>1. Len(stream) \in Nat /\ rendered \in Nat
    BY LenProperties DEF ProgressTypeOK
  <2>2. \A i \in rendered + 1..Len(stream) : stream[i] \in ProgressEvent
    <3> TAKE i \in rendered + 1..Len(stream)
    <3>1. i \in 1..Len(stream)
      BY <2>1
    <3> QED
      BY <3>1, ElementOfSeq DEF ProgressTypeOK
  <2>3. SubSeq(stream, rendered + 1, Len(stream)) \in Seq(ProgressEvent)
    BY <2>1, <2>2, SubSeqProperties
  <2>4. printed' \in Seq(ProgressEvent)
    <3>1. printed' = printed \o SubSeq(stream, rendered + 1, Len(stream))
      BY <1>2 DEF Rendered
    <3>2. printed \in Seq(ProgressEvent)
      BY DEF ProgressTypeOK
    <3> QED
      BY <2>3, <3>1, <3>2, ConcatProperties
  <2> QED
    BY <1>2, <2>1, <2>4 DEF Rendered
<1> QED
  BY <1>1, <1>2

LEMMA NextHalfTyped ==
  ASSUME ProgressTypeOK, NextHalf.n <= Lines
  PROVE  NextHalf \in Half
<1>1. \A n \in Nat, b \in BOOLEAN :
        NextHalf = [n |-> n, last |-> b] => NextHalf \in Half
  BY ProgressDeclarations DEF Half, Events
<1>2. CASE file = <<>>
  <2>1. NextHalf = [n |-> 1, last |-> FALSE]
    BY <1>2 DEF NextHalf
  <2> QED
    BY <1>1, <2>1
<1>3. CASE file # <<>>
  <2> DEFINE end == file[Len(file)]
  <2>1. end \in Half
    <3>1. Len(file) \in 1..Len(file)
      BY <1>3, LenProperties, EmptySeq DEF ProgressTypeOK
    <3> QED
      BY <3>1, ElementOfSeq DEF ProgressTypeOK
  <2>2. /\ end.n = 0 => NextHalf = [n |-> 1, last |-> FALSE]
        /\ end.n # 0 /\ end.last => NextHalf = [n |-> end.n + 1, last |-> FALSE]
        /\ end.n # 0 /\ ~end.last => NextHalf = [end EXCEPT !.last = TRUE]
    BY <1>3 DEF NextHalf
  <2> HIDE DEF end
  <2>3. end.n \in Nat /\ [end EXCEPT !.last = TRUE] \in Half
    <3>1. end.n \in Events /\ end \in [n : Events, last : BOOLEAN]
      BY <2>1 DEF Half
    <3>2. [end EXCEPT !.last = TRUE] \in [n : Events, last : BOOLEAN]
      BY <3>1
    <3> QED
      BY <3>1, <3>2, ProgressDeclarations DEF Half, Events
  <2>4. CASE end.n # 0 /\ end.last
    <3>1. end.n + 1 \in Nat
      BY <2>3
    <3> QED
      BY <1>1, <2>2, <2>4, <3>1
  <2> QED
    BY <1>1, <2>2, <2>3, <2>4
<1> QED
  BY <1>2, <1>3

\* The bounds hold too: a report is made only while one is left.
LEMMA ProgressTypeNext ==
  ASSUME ProgressTypeOK, ReadWell, ReportsLeft, [ProgressNext]_progressVars
  PROVE  ProgressTypeOK'
<1> USE DEF ProgressTypeOK, tailVars, streamVars, screenVars
<1> HIDE DEF Half, ProgressEvent
<1>1. ASSUME WorkerWrites PROVE ProgressTypeOK'
  <2>1. NextHalf \in Half
    BY <1>1, NextHalfTyped DEF WorkerWrites
  <2>2. file' \in Seq(Half) /\ Len(file') = Len(file) + 1
    BY <1>1, <2>1, AppendProperties DEF WorkerWrites
  <2>3. offset \in 0..Len(file')
    BY <2>2, LenProperties
  <2> QED
    BY <1>1, <2>2, <2>3 DEF WorkerWrites
<1>2. ASSUME WorkerGone PROVE ProgressTypeOK'
  BY <1>2 DEF WorkerGone
<1>3. ASSUME Start PROVE ProgressTypeOK'
  <2>1. slot' \in [Pollers -> Nat] /\ counter' \in Nat /\ stream' \in Seq(ProgressEvent)
    BY <1>3, StreamTyped DEF Start, Pollers
  <2> QED
    BY <1>3, <2>1 DEF Start
<1>4. ASSUME Loop PROVE ProgressTypeOK'
  BY <1>4 DEF Loop
<1>5. ASSUME Join PROVE ProgressTypeOK'
  BY <1>5 DEF Join
<1>6. ASSUME NEW who \in Pollers, Read(who), file' = file
      PROVE  offset' \in 0..Len(file') /\ pending' \in Seq(Half)
             /\ hand' \in [Pollers -> SUBSET Events] /\ seen' = seen
  <2>1. pending' \in Seq(Half) /\ offset' = Len(file)
        /\ hand' = [hand EXCEPT ![who] = WholeWithin(ReadTo, ReadTo')]
    BY <1>6, ReadMoves
  <2>2. WholeWithin(ReadTo, ReadTo') \subseteq Events
    <3> SUFFICES ASSUME NEW k, WholeAt(file, k) PROVE file[k].n \in Events
      BY DEF WholeWithin
    <3>1. k \in 1..Len(file)
      BY LenProperties DEF WholeAt
    <3>2. file[k] \in Half
      BY <3>1, ElementOfSeq
    <3> QED
      BY <3>2 DEF Half
  <2>3. Len(file) \in 0..Len(file')
    BY <1>6, LenProperties
  <2> QED
    BY <1>6, <2>1, <2>2, <2>3 DEF Read
<1>7. ASSUME ThreadReads PROVE ProgressTypeOK'
  BY <1>6, <1>7 DEF ThreadReads, Pollers
<1>8. ASSUME HostReads PROVE ProgressTypeOK'
  BY <1>6, <1>8 DEF HostReads, Pollers
<1>9. ASSUME NEW who \in Pollers, HandOn(who) PROVE ProgressTypeOK'
  <2>1. slot' \in [Pollers -> Nat] /\ counter' \in Nat /\ stream' \in Seq(ProgressEvent)
    BY <1>9, StreamTyped DEF HandOn
  <2>2. Min(hand[who]) \in Events
    BY <1>9, NextInHand DEF HandOn
  <2>3. seen' \in [Events -> Nat] /\ hand' \in [Pollers -> SUBSET Events]
    BY <1>9, <2>2 DEF HandOn
  <2> QED
    BY <1>9, <2>1, <2>3 DEF HandOn
<1>10. ASSUME NEW who \in Pollers, Note(who) PROVE ProgressTypeOK'
  <2>1. slot' \in [Pollers -> Nat] /\ counter' \in Nat /\ stream' \in Seq(ProgressEvent)
    BY <1>10, StreamTyped DEF Note
  <2>2. notes' \in 0..Notes
    BY <1>10, ProgressDeclarations DEF Note
  <2> QED
    BY <1>10, <2>1, <2>2 DEF Note
<1>11. ASSUME NEW who \in Pollers, Handed(who) PROVE ProgressTypeOK'
  <2>1. slot' \in [Pollers -> Nat] /\ counter' \in Nat /\ stream' \in Seq(ProgressEvent)
    BY <1>11, StreamTyped DEF Handed
  <2> QED
    BY <1>11, <2>1 DEF Handed
<1>12. ASSUME NEW who \in Pollers, PollEnds(who) PROVE ProgressTypeOK'
  BY <1>12 DEF PollEnds
<1>13. ASSUME Report PROVE ProgressTypeOK'
  <2>1. slot' \in [Pollers -> Nat] /\ counter' \in Nat /\ stream' \in Seq(ProgressEvent)
    BY <1>13, StreamTyped DEF Report, Pollers
  <2>2. reports' \in 0..Reports
    BY <1>13, ProgressDeclarations DEF Report, ReportsLeft
  <2> QED
    BY <1>13, <2>1, <2>2 DEF Report
<1>14. ASSUME Render PROVE ProgressTypeOK'
  BY <1>14, RenderTyped DEF Render
<1>15. ASSUME LastRender PROVE ProgressTypeOK'
  BY <1>15, RenderTyped DEF LastRender
<1>16. CASE UNCHANGED progressVars
  BY <1>16 DEF progressVars
<1> QED
  BY <1>1, <1>2, <1>3, <1>4, <1>5, <1>7, <1>8, <1>9, <1>10, <1>11, <1>12, <1>13, <1>14,
     <1>15, <1>16 DEF ProgressNext

(***************************************************************************)
(* The invariant of the tail, step by step.                                *)
(***************************************************************************)
LEMMA WholeOnce ==
  ASSUME Ordered(file), file \in Seq(Half),
         NEW i, WholeAt(file, i), NEW j, WholeAt(file, j), file[i].n = file[j].n
  PROVE  i = j
<1>1. Len(file) \in Nat /\ i \in 1..Len(file) /\ j \in 1..Len(file)
  BY LenProperties DEF WholeAt
<1>2. file[i].n \in Int /\ file[j].n \in Int
  <2>1. file[i] \in Half /\ file[j] \in Half
    BY <1>1, ElementOfSeq
  <2> QED
    BY <2>1, ProgressDeclarations DEF Half, Events
<1>3. ~file[i].last /\ ~file[j].last
  BY DEF WholeAt
<1>4. ~ (i < j) /\ ~ (j < i)
  BY <1>1, <1>2, <1>3 DEF Ordered
<1> QED
  BY <1>1, <1>4

LEMMA ReadCounts ==
  ASSUME TailInvariant, NEW who \in Pollers, Read(who), file' = file, hand[who] = {}
  PROVE  CountedOnce'
<1> DEFINE p == ReadTo
           q == ReadTo'
<1>1. /\ q \in p..Len(file) /\ p \in Nat /\ Len(file) \in Nat
      /\ hand' = [hand EXCEPT ![who] = WholeWithin(p, q)]
  BY ReadMoves, TailNumbers DEF TailInvariant, ReadWell
<1>2. hand \in [Pollers -> SUBSET Events] /\ seen' = seen /\ seen \in [Events -> Nat]
  BY DEF TailInvariant, ProgressTypeOK, Read
<1>3. WholeUpTo(q) = WholeUpTo(p) \cup WholeWithin(p, q)
  <2> HIDE DEF p, q
  <2>1. \A k : k \in 1..q <=> k \in 1..p \/ k \in p + 1..q
    BY <1>1
  <2> QED
    BY <2>1 DEF WholeUpTo, WholeWithin
<1>4. WholeUpTo(p) \cap WholeWithin(p, q) = {}
  <2> SUFFICES ASSUME NEW i \in 1..p, NEW j \in p + 1..q, WholeAt(file, i), WholeAt(file, j),
                      file[i].n = file[j].n
               PROVE  FALSE
    BY DEF WholeUpTo, WholeWithin
  <2>1. i = j
    BY WholeOnce DEF TailInvariant, ProgressTypeOK
  <2> HIDE DEF p, q
  <2> QED
    BY <1>1, <2>1
<1>5. WholeUpTo(ReadTo)' = WholeUpTo(q)
  BY Zenon DEF WholeUpTo, WholeAt
<1> SUFFICES ASSUME NEW n \in Events
             PROVE  seen'[n] + InHand("thread", n)' + InHand("host", n)' =
                      (IF n \in WholeUpTo(q) THEN 1 ELSE 0)
  BY <1>5 DEF CountedOnce
<1>6. seen[n] + InHand("thread", n) + InHand("host", n) = (IF n \in WholeUpTo(p) THEN 1 ELSE 0)
  BY DEF TailInvariant, CountedOnce
<1> HIDE DEF p, q
<1>7. InHand(who, n) = 0 /\ InHand(who, n)' = (IF n \in WholeWithin(p, q) THEN 1 ELSE 0)
  BY <1>1, <1>2 DEF InHand
<1>8. \A other \in Pollers \ {who} : InHand(other, n)' = InHand(other, n)
  BY <1>1, <1>2 DEF InHand
<1>9. seen[n] \in Nat /\ InHand("thread", n) \in Nat /\ InHand("host", n) \in Nat
  BY <1>2 DEF InHand
<1>10. CASE who = "thread"
  BY <1>2, <1>3, <1>4, <1>6, <1>7, <1>8, <1>9, <1>10 DEF Pollers
<1>11. CASE who = "host"
  BY <1>2, <1>3, <1>4, <1>6, <1>7, <1>8, <1>9, <1>11 DEF Pollers
<1> QED
  BY <1>10, <1>11 DEF Pollers

LEMMA HandOnCounts ==
  ASSUME TailInvariant, NEW who \in Pollers, HandOn(who)
  PROVE  CountedOnce'
<1> DEFINE next == Min(hand[who])
<1>1. next \in hand[who] /\ next \in Events
  BY NextInHand DEF TailInvariant, HandOn
<1> HIDE DEF next
<1>2. hand \in [Pollers -> SUBSET Events] /\ seen \in [Events -> Nat]
  BY DEF TailInvariant, ProgressTypeOK
<1>3. /\ hand' = [hand EXCEPT ![who] = hand[who] \ {next}]
      /\ seen' = [seen EXCEPT ![next] = seen[next] + 1]
      /\ file' = file /\ offset' = offset /\ pending' = pending
  BY DEF HandOn, next
<1>4. WholeUpTo(ReadTo)' = WholeUpTo(ReadTo)
  BY <1>3 DEF WholeUpTo, WholeAt, ReadTo
<1> SUFFICES ASSUME NEW n \in Events
             PROVE  seen'[n] + InHand("thread", n)' + InHand("host", n)' =
                      seen[n] + InHand("thread", n) + InHand("host", n)
  BY <1>4 DEF TailInvariant, CountedOnce
<1>5. \A other \in Pollers \ {who} : InHand(other, n)' = InHand(other, n)
  BY <1>2, <1>3 DEF InHand
<1>6. seen[n] \in Nat /\ InHand("thread", n) \in Nat /\ InHand("host", n) \in Nat
  BY <1>2 DEF InHand
<1>7. /\ InHand(who, n)' = (IF n = next THEN 0 ELSE InHand(who, n))
      /\ n = next => InHand(who, n) = 1
  BY <1>1, <1>2, <1>3 DEF InHand
<1>8. seen'[n] = IF n = next THEN seen[n] + 1 ELSE seen[n]
  BY <1>1, <1>2, <1>3
<1>9. CASE who = "thread"
  BY <1>5, <1>6, <1>7, <1>8, <1>9 DEF Pollers
<1>10. CASE who = "host"
  BY <1>5, <1>6, <1>7, <1>8, <1>10 DEF Pollers
<1> QED
  BY <1>9, <1>10 DEF Pollers

\* What the worker appends lies behind what is read.
LEMMA WriteKeepsRead ==
  ASSUME TailInvariant, WorkerWrites
  PROVE  Ordered(file)' /\ ReadWell' /\ CountedOnce'
<1> DEFINE half == NextHalf
<1>1. /\ Len(file) \in Nat /\ file \in Seq(Half) /\ offset \in 0..Len(file)
      /\ ReadTo \in 0..offset /\ half \in Half
  BY TailNumbers, NextHalfTyped DEF TailInvariant, ProgressTypeOK, ReadWell, WorkerWrites
<1>2. file' = Append(file, half) /\ UNCHANGED <<offset, pending, hand, seen>>
  BY DEF WorkerWrites, tailVars
<1>3. /\ file' \in Seq(Half) /\ Len(file') = Len(file) + 1
      /\ \A i \in 1..Len(file) : file'[i] = file[i]
      /\ file'[Len(file) + 1] = half
  <2> HIDE DEF half
  <2> QED
    BY <1>1, <1>2, AppendProperties
<1>4. Ordered(file)'
  <2>1. ASSUME NEW i \in 1..Len(file)
        PROVE  file[i].n < half.n \/ (file[i].n = half.n /\ ~file[i].last /\ half.last)
    <3> DEFINE end == file[Len(file)]
    <3>1. Len(file) \in 1..Len(file) /\ file # <<>>
      BY <1>1, EmptySeq
    <3>2. end \in Half /\ file[i] \in Half
      BY <1>1, <3>1, ElementOfSeq
    <3>3. end.n \in Nat /\ file[i].n \in Nat
      BY <3>2, ProgressDeclarations DEF Half, Events
    <3>4. \/ file[i] = end
          \/ file[i].n < end.n
          \/ file[i].n = end.n /\ ~file[i].last /\ end.last
      BY <1>1, <3>1, <3>3 DEF TailInvariant, Ordered
    <3>5. /\ end.n = 0 => half = [n |-> 1, last |-> FALSE]
          /\ end.n # 0 /\ end.last => half = [n |-> end.n + 1, last |-> FALSE]
          /\ end.n # 0 /\ ~end.last => half = [end EXCEPT !.last = TRUE]
      BY <3>1 DEF NextHalf
    <3>6. end.n # 0 /\ ~end.last => half.n = end.n /\ half.last
      BY <3>2, <3>5 DEF Half
    <3> HIDE DEF end, half
    <3>7. CASE end.n = 0
      BY <3>3, <3>4, <3>5, <3>7
    <3>8. CASE end.n # 0 /\ end.last
      BY <3>3, <3>4, <3>5, <3>8
    <3>9. CASE end.n # 0 /\ ~end.last
      BY <3>3, <3>4, <3>6, <3>9
    <3> QED
      BY <3>7, <3>8, <3>9
  <2>2. ASSUME NEW i \in 1..Len(file) + 1, NEW j \in 1..Len(file) + 1, i < j
        PROVE  \/ file'[i].n < file'[j].n
               \/ file'[i].n = file'[j].n /\ ~file'[i].last /\ file'[j].last
    <3>1. i \in 1..Len(file) /\ (j \in 1..Len(file) \/ j = Len(file) + 1)
      BY <1>1, <2>2
    <3> HIDE DEF half
    <3>2. CASE j \in 1..Len(file)
      BY <1>3, <2>2, <3>1, <3>2 DEF TailInvariant, Ordered
    <3>3. CASE j = Len(file) + 1
      BY <1>3, <2>1, <3>1, <3>3
    <3> QED
      BY <3>1, <3>2, <3>3
  <2> QED
    BY <1>3, <2>2 DEF Ordered
<1> HIDE DEF half
<1>5. ReadTo' = ReadTo
  BY <1>2 DEF ReadTo
<1>6. SubSeq(file', ReadTo + 1, offset) = SubSeq(file, ReadTo + 1, offset)
  BY <1>1, <1>2, SliceOfLonger
<1>7. \A k \in 1..offset : file'[k] = file[k]
  BY <1>1, <1>3
<1>8. ReadWell'
  <2>1. /\ ReadTo = 0 \/ file[ReadTo].last
        /\ pending = SubSeq(file, ReadTo + 1, offset)
        /\ \A k \in ReadTo + 1..offset : ~file[k].last
    BY DEF TailInvariant, ReadWell
  <2>2. ReadTo = 0 \/ file'[ReadTo].last
    <3>1. ReadTo = 0 \/ ReadTo \in 1..offset
      BY <1>1
    <3> QED
      BY <1>7, <2>1, <3>1
  <2>3. \A k \in ReadTo + 1..offset : ~file'[k].last
    <3> TAKE k \in ReadTo + 1..offset
    <3>1. k \in 1..offset
      BY <1>1
    <3> QED
      BY <1>7, <2>1, <3>1
  <2> HIDE DEF ReadTo
  <2> QED
    BY <1>1, <1>2, <1>5, <1>6, <2>1, <2>2, <2>3 DEF ReadWell
<1>9. \A k \in 1..ReadTo : WholeAt(file', k) <=> WholeAt(file, k)
  <2> TAKE k \in 1..ReadTo
  <2>1. CASE k = ReadTo
    <3>1. file[k].last /\ file'[k].last
      <4>1. ReadTo # 0 /\ k \in 1..Len(file)
        BY <1>1, <2>1
      <4> QED
        BY <1>3, <2>1, <4>1 DEF TailInvariant, ReadWell
    <3> QED
      BY <3>1 DEF WholeAt
  <2>2. CASE k # ReadTo
    <3>1. /\ k \in 1..Len(file) - 1 /\ k \in 1..Len(file') - 1
          /\ k \in 1..Len(file) /\ k + 1 \in 1..Len(file)
          /\ k # 1 => k - 1 \in 1..Len(file)
      BY <1>1, <1>3, <2>2
    <3>2. /\ file'[k] = file[k] /\ file'[k + 1] = file[k + 1]
          /\ k # 1 => file'[k - 1] = file[k - 1]
      BY <1>3, <3>1
    <3> QED
      BY <3>1, <3>2 DEF WholeAt
  <2> QED
    BY <2>1, <2>2
<1>10. WholeUpTo(ReadTo)' = WholeUpTo(ReadTo)
  <2>1. WholeUpTo(ReadTo)' = {file'[i].n : i \in {k \in 1..ReadTo : WholeAt(file', k)}}
    BY <1>5 DEF WholeUpTo, WholeAt
  <2>2. \A k \in 1..ReadTo : file'[k] = file[k]
    BY <1>1, <1>3
  <2> QED
    BY <1>9, <2>1, <2>2 DEF WholeUpTo
<1>11. CountedOnce'
  BY <1>2, <1>10 DEF TailInvariant, CountedOnce, InHand
<1> QED
  BY <1>4, <1>8, <1>11

LEMMA TailInit == ProgressInit => TailInvariant
<1> SUFFICES ASSUME ProgressInit PROVE TailInvariant
  OBVIOUS
<1>1. ProgressTypeOK
  BY ProgressTypeInit
<1>2. Ordered(file)
  <2> DEFINE begun == [n |-> 0, last |-> FALSE]
             ended == [n |-> 0, last |-> TRUE]
  <2>1. begun.n = ended.n /\ ~begun.last /\ ended.last
    OBVIOUS
  <2>2. file \in {<<>>, <<begun>>, <<begun, ended>>}
    BY DEF ProgressInit
  <2> HIDE DEF begun, ended
  <2>3. CASE file = <<>>
    BY <2>3 DEF Ordered
  <2>4. CASE file = <<begun>>
    BY <2>4 DEF Ordered
  <2>5. CASE file = <<begun, ended>>
    <3>1. Len(file) = 2 /\ file[1] = begun /\ file[2] = ended
      BY <2>5
    <3>2. \A i, j \in 1..2 : i < j => i = 1 /\ j = 2
      OBVIOUS
    <3> QED
      BY <2>1, <3>1, <3>2 DEF Ordered
  <2> QED
    BY <2>2, <2>3, <2>4, <2>5
<1>4. offset = 0 /\ pending = <<>> /\ ReadTo = 0
  <2>1. offset = 0 /\ pending = <<>>
    BY DEF ProgressInit
  <2>2. Len(pending) = 0
    BY <2>1
  <2>3. ReadTo = 0 - 0
    BY <2>1, <2>2 DEF ReadTo
  <2> QED
    BY <2>1, <2>3
<1>5. ReadWell
  <2>1. SubSeq(file, 1, 0) = <<>>
    BY SubSeqEmpty
  <2> QED
    BY <1>4, <2>1 DEF ReadWell
<1>6. CountedOnce
  <2>1. WholeUpTo(ReadTo) = {}
    BY <1>4 DEF WholeUpTo
  <2> QED
    BY <2>1 DEF ProgressInit, CountedOnce, InHand, Pollers
<1> QED
  BY <1>1, <1>2, <1>5, <1>6, ProgressDeclarations
     DEF ProgressInit, TailInvariant, HandsEmpty, ReadToEnd, ReportsLeft, Pollers

LEMMA TailKept ==
  ASSUME TailInvariant, UNCHANGED <<file, tailVars>>
  PROVE  Ordered(file)' /\ ReadWell' /\ CountedOnce'
BY DEF TailInvariant, tailVars, Ordered, ReadWell, ReadTo, CountedOnce, InHand, WholeUpTo, WholeAt

LEMMA TailNext == TailInvariant /\ [ProgressNext]_progressVars => TailInvariant'
<1> SUFFICES ASSUME TailInvariant, [ProgressNext]_progressVars PROVE TailInvariant'
  OBVIOUS
<1> DEFINE Progress == HandsEmpty' /\ ReadToEnd' /\ ReportsLeft'
           Tailed == Ordered(file)' /\ ReadWell' /\ CountedOnce'
<1>1. ProgressTypeOK'
  BY ProgressTypeNext DEF TailInvariant
<1>2. /\ HandsEmpty /\ ReadToEnd /\ ReportsLeft
      /\ hand \in [Pollers -> SUBSET Events] /\ reports \in Nat
      /\ "thread" \in Pollers /\ "host" \in Pollers
  BY ProgressDeclarations DEF TailInvariant, ProgressTypeOK, Pollers
<1> USE DEF tailVars, streamVars, screenVars, HandsEmpty, ReadToEnd, ReportsLeft
<1>3. ASSUME WorkerWrites PROVE Tailed /\ Progress
  BY <1>2, <1>3, WriteKeepsRead DEF WorkerWrites
<1>4. ASSUME WorkerGone PROVE Tailed /\ Progress
  BY <1>2, <1>4, TailKept DEF WorkerGone
<1>5. ASSUME Start PROVE Tailed /\ Progress
  <2>1. Tailed
    BY <1>5, TailKept DEF Start
  <2>2. /\ host = "starting"
        /\ \/ host' = host /\ thread' = thread
           \/ host' = "running" /\ thread' = "looping"
        /\ file' = file /\ hand' = hand /\ offset' = offset /\ reports' = reports
    BY <1>5 DEF Start
  <2>3. HandsEmpty'
    BY <1>2, <2>2
  <2>4. ReadToEnd' /\ ReportsLeft'
    BY <1>2, <2>2
  <2> QED
    BY <2>1, <2>3, <2>4
<1>6. ASSUME Loop PROVE Tailed /\ Progress
  BY <1>2, <1>6, TailKept DEF Loop
<1>7. ASSUME Join PROVE Tailed /\ Progress
  BY <1>2, <1>7, TailKept DEF Join
<1>8. ASSUME NEW who \in Pollers, Read(who), file' = file, hand[who] = {}
      PROVE  /\ Tailed /\ offset' = Len(file)
             /\ \A other \in Pollers \ {who} : hand'[other] = hand[other]
  <2>1. Ordered(file)'
    BY <1>8 DEF TailInvariant, Ordered
  <2>2. ReadWell' /\ offset' = Len(file)
    BY <1>8, ReadMoves DEF TailInvariant
  <2>3. CountedOnce'
    BY <1>8, ReadCounts
  <2> QED
    BY <1>2, <1>8, <2>1, <2>2, <2>3 DEF Read
<1>9. ASSUME ThreadReads PROVE Tailed /\ Progress
  BY <1>2, <1>8, <1>9 DEF ThreadReads, Pollers
<1>10. ASSUME HostReads PROVE Tailed /\ Progress
  BY <1>2, <1>8, <1>10 DEF HostReads, Pollers
<1>11. ASSUME NEW who \in Pollers, HandOn(who) PROVE Tailed /\ Progress
  <2>1. Ordered(file)' /\ ReadWell'
    BY <1>11 DEF HandOn, TailInvariant, Ordered, ReadWell, ReadTo
  <2>2. CountedOnce'
    BY <1>11, HandOnCounts
  <2>3. Progress
    BY <1>2, <1>11 DEF HandOn, Emitting, Pollers
  <2> QED
    BY <2>1, <2>2, <2>3
<1>12. ASSUME NEW who \in Pollers, Note(who) PROVE Tailed /\ Progress
  BY <1>2, <1>12, TailKept DEF Note
<1>13. ASSUME NEW who \in Pollers, Handed(who) PROVE Tailed /\ Progress
  BY <1>2, <1>13, TailKept DEF Handed
<1>14. ASSUME NEW who \in Pollers, PollEnds(who) PROVE Tailed /\ Progress
  BY <1>2, <1>14, TailKept DEF PollEnds, Emitting, Pollers
<1>15. ASSUME Report PROVE Tailed /\ Progress
  BY <1>2, <1>15, TailKept DEF Report
<1>16. ASSUME Render PROVE Tailed /\ Progress
  BY <1>2, <1>16, TailKept DEF Render
<1>17. ASSUME LastRender PROVE Tailed /\ Progress
  BY <1>2, <1>17, TailKept DEF LastRender
<1>18. ASSUME UNCHANGED progressVars PROVE Tailed /\ Progress
  <2>1. /\ file' = file /\ hand' = hand /\ offset' = offset /\ reports' = reports
        /\ host' = host /\ thread' = thread
    BY <1>18 DEF progressVars
  <2>2. Tailed
    BY <1>18, TailKept DEF progressVars
  <2>3. HandsEmpty'
    BY <1>2, <2>1
  <2>4. ReadToEnd' /\ ReportsLeft'
    BY <1>2, <2>1
  <2> QED
    BY <2>2, <2>3, <2>4
<1> HIDE DEF Tailed, Progress
<1>19. Tailed /\ Progress
  BY <1>3, <1>4, <1>5, <1>6, <1>7, <1>9, <1>10, <1>11, <1>12, <1>13, <1>14, <1>15, <1>16,
     <1>17, <1>18 DEF ProgressNext
<1> QED
  BY <1>1, <1>19 DEF TailInvariant, Tailed, Progress

\* The variables of the tail, of the stream and of the view keep their types and
\* bounds: the notes, the reports and the last line of the worker are counted down
\* to the bound and never past it.
THEOREM ProgressTypeCorrect == ProgressSpec => []ProgressTypeOK
<1>1. TailInvariant => ProgressTypeOK
  BY DEF TailInvariant
<1> QED
  BY <1>1, TailInit, TailNext, PTL DEF ProgressSpec

\* After the last poll each whole line of the worker's file was handed on exactly
\* once: what was read as half a line is completed by a later poll and never read
\* again, whichever of the thread and the host polls (poll_once, stop).
THEOREM EveryLineTailedOnce == ProgressSpec => []TailedOnce
<1>1. TailInvariant => TailedOnce
  <2> SUFFICES ASSUME TailInvariant, host \in {"reporting", "done"}, NEW n \in WholeIn(file)
               PROVE  seen[n] + InHand("thread", n) = 1
    BY DEF TailedOnce, InHand
  <2>1. /\ offset = Len(file) /\ Len(file) \in Nat /\ file \in Seq(Half) /\ ReadTo \in 0..Len(file)
        /\ \A k \in ReadTo + 1..Len(file) : ~file[k].last
        /\ ReadTo = 0 \/ file[ReadTo].last
    BY TailNumbers DEF TailInvariant, ReadToEnd, ReadWell, ProgressTypeOK
  <2>2. PICK i \in 1..Len(file) - 1 : WholeAt(file, i) /\ n = file[i].n
    BY DEF WholeIn, WholeAt
  <2>3. i \in 1..Len(file) /\ i + 1 \in 1..Len(file)
    BY <2>1
  <2>4. file[i] \in Half
    BY <2>1, <2>3, ElementOfSeq
  <2>5. file[i + 1].last /\ n \in Events
    BY <2>2, <2>4 DEF WholeAt, Half
  <2>6. i + 1 \notin ReadTo + 1..Len(file)
    BY <2>1, <2>5
  <2>7. i \in 1..ReadTo
    BY <2>1, <2>3, <2>6
  <2>8. n \in WholeUpTo(ReadTo)
    BY <2>2, <2>7 DEF WholeUpTo
  <2>9. InHand("host", n) = 0
    BY DEF TailInvariant, HandsEmpty, InHand
  <2>10. seen[n] + InHand("thread", n) + InHand("host", n) = 1
    BY <2>5, <2>8 DEF TailInvariant, CountedOnce
  <2>11. seen[n] \in Nat /\ InHand("thread", n) \in Nat
    BY <2>5 DEF TailInvariant, ProgressTypeOK, InHand
  <2> QED
    BY <2>9, <2>10, <2>11
<1> QED
  BY <1>1, TailInit, TailNext, PTL DEF ProgressSpec

(***************************************************************************)
(* The stream and what is printed of it.                                   *)
(***************************************************************************)
OneWriter ==
  \A who \in Pollers : slot[who] # 0 =>
    /\ slot[who] = counter
    /\ \A other \in Pollers \ {who} : slot[other] = 0

Numbered ==
  /\ \A i \in 1..Len(stream) :
       /\ stream[i].id <= counter
       /\ (\E who \in Pollers : slot[who] # 0) => stream[i].id < counter
  /\ \A i, j \in 1..Len(stream) : i < j => stream[i].id < stream[j].id

PrintedPrefix ==
  IF torn THEN rendered = 0 /\ printed = <<>>
  ELSE /\ rendered \in Earlier..Len(stream)
       /\ printed = SubSeq(stream, Earlier + 1, rendered)

ClosedAtEnd ==
  viewer = "closed" =>
    /\ host = "done"
    /\ ~torn => \A i \in rendered + 1..Len(stream) : stream[i].by # "host"

ViewInvariant == OneWriter /\ Numbered /\ PrintedPrefix /\ ClosedAtEnd

LEMMA ViewNumbers ==
  ASSUME ProgressTypeOK
  PROVE  /\ Len(stream) \in Nat /\ Earlier \in {0, 1} /\ Earlier <= Len(stream)
         /\ rendered \in Nat /\ counter \in Nat
         /\ \A i \in 1..Len(stream) : stream[i] \in ProgressEvent /\ stream[i].id \in Nat
<1>1. Len(stream) \in Nat
  BY LenProperties DEF ProgressTypeOK
<1>2. stream # <<>> => Len(stream) # 0
  BY EmptySeq DEF ProgressTypeOK
<1>3. \A i \in 1..Len(stream) : stream[i] \in ProgressEvent
  BY ElementOfSeq DEF ProgressTypeOK
<1>4. \A event \in ProgressEvent : event.id \in Nat
  BY DEF ProgressEvent
<1> QED
  BY <1>1, <1>2, <1>3, <1>4 DEF Earlier, ProgressTypeOK

LEMMA ViewInit == ProgressInit => ViewInvariant
<1> SUFFICES ASSUME ProgressInit PROVE ViewInvariant
  OBVIOUS
<1> DEFINE earlier == [id |-> 0, by |-> "host"]
<1>1. /\ counter = 0 /\ \A who \in Pollers : slot[who] = 0
      /\ stream \in {<<>>, <<earlier>>}
      /\ rendered = IF torn THEN 0 ELSE Len(stream)
      /\ printed = <<>> /\ viewer = "open"
  BY DEF ProgressInit
<1>2. earlier.id = 0
  OBVIOUS
<1> HIDE DEF earlier
<1>3. \/ Len(stream) = 0 /\ stream = <<>>
      \/ Len(stream) = 1 /\ stream[1] = earlier /\ stream # <<>>
  BY <1>1
<1>4. OneWriter
  BY <1>1 DEF OneWriter
<1>5. Numbered
  BY <1>1, <1>2, <1>3 DEF Numbered
<1>6. PrintedPrefix
  <2>1. Earlier = Len(stream) /\ Len(stream) \in Nat
    BY <1>2, <1>3 DEF Earlier
  <2>2. SubSeq(stream, Len(stream) + 1, Len(stream)) = <<>>
    BY <2>1, SubSeqEmpty
  <2> QED
    BY <1>1, <2>1, <2>2 DEF PrintedPrefix
<1>7. ClosedAtEnd
  BY <1>1 DEF ClosedAtEnd
<1> QED
  BY <1>4, <1>5, <1>6, <1>7 DEF ViewInvariant

\* An append only lengthens the stream: what was printed of it stays printed.
LEMMA StreamGrows ==
  ASSUME ProgressTypeOK, ViewInvariant, NEW who \in Pollers, Appended(who),
         UNCHANGED <<rendered, printed, torn>>
  PROVE  OneWriter' /\ Numbered' /\ PrintedPrefix'
<1> DEFINE event == [id |-> slot[who], by |-> who]
<1>1. /\ slot[who] # 0 /\ slot[who] = counter /\ counter' = counter
      /\ stream' = Append(stream, event)
      /\ \A other \in Pollers : slot'[other] = 0
  BY DEF ViewInvariant, OneWriter, Appended, ProgressTypeOK
<1>2. event \in ProgressEvent /\ event.id = slot[who]
  BY DEF ProgressTypeOK, ProgressEvent
<1> HIDE DEF event
<1>3. /\ Len(stream) \in Nat /\ counter \in Nat /\ rendered \in Nat
      /\ stream \in Seq(ProgressEvent)
      /\ \A i \in 1..Len(stream) : stream[i].id \in Nat
  BY ViewNumbers DEF ProgressTypeOK
<1>4. /\ stream' \in Seq(ProgressEvent) /\ Len(stream') = Len(stream) + 1
      /\ \A i \in 1..Len(stream) : stream'[i] = stream[i]
      /\ stream'[Len(stream) + 1] = event
      /\ stream' # <<>>
  BY <1>1, <1>2, <1>3, AppendProperties
<1>5. \A i \in 1..Len(stream) : stream[i].id < counter
  BY <1>1 DEF ViewInvariant, Numbered
<1>6. Numbered'
  <2>1. ASSUME NEW i \in 1..Len(stream')
        PROVE  stream'[i].id <= counter
    <3>1. i \in 1..Len(stream) \/ i = Len(stream) + 1
      BY <1>3, <1>4
    <3> QED
      BY <1>1, <1>2, <1>3, <1>4, <1>5, <3>1
  <2>2. ASSUME NEW i \in 1..Len(stream'), NEW j \in 1..Len(stream'), i < j
        PROVE  stream'[i].id < stream'[j].id
    <3>1. i \in 1..Len(stream) /\ (j \in 1..Len(stream) \/ j = Len(stream) + 1)
      BY <1>3, <1>4, <2>2
    <3>2. CASE j \in 1..Len(stream)
      BY <1>4, <2>2, <3>1, <3>2 DEF ViewInvariant, Numbered
    <3>3. CASE j = Len(stream) + 1
      BY <1>1, <1>2, <1>4, <1>5, <3>1, <3>3
    <3> QED
      BY <3>1, <3>2, <3>3
  <2> QED
    BY <1>1, <2>1, <2>2 DEF Numbered
<1>7. Earlier' = Earlier
  <2>1. CASE stream = <<>>
    <3>1. Len(stream) = 0
      BY <2>1
    <3>2. stream'[1].id # 0
      BY <1>1, <1>2, <1>4, <3>1
    <3> QED
      BY <2>1, <3>2 DEF Earlier
  <2>2. CASE stream # <<>>
    <3>1. 1 \in 1..Len(stream)
      BY <1>3, <2>2, EmptySeq
    <3> QED
      BY <1>4, <2>2, <3>1 DEF Earlier
  <2> QED
    BY <2>1, <2>2
<1>8. PrintedPrefix'
  <2>1. Earlier \in Nat
    BY ViewNumbers
  <2>2. CASE ~torn
    <3>1. rendered \in Earlier..Len(stream) /\ printed = SubSeq(stream, Earlier + 1, rendered)
      BY <2>2 DEF ViewInvariant, PrintedPrefix
    <3>2. SubSeq(stream', Earlier + 1, rendered) = SubSeq(stream, Earlier + 1, rendered)
      BY <1>1, <1>2, <1>3, <2>1, <3>1, SliceOfLonger
    <3>3. rendered \in Earlier..Len(stream')
      BY <1>3, <1>4, <2>1, <3>1
    <3> QED
      BY <1>7, <2>2, <3>1, <3>2, <3>3 DEF PrintedPrefix
  <2>3. CASE torn
    BY <2>3 DEF ViewInvariant, PrintedPrefix
  <2> QED
    BY <2>2, <2>3
<1> QED
  BY <1>1, <1>6, <1>8 DEF OneWriter

LEMMA StreamKeeps ==
  ASSUME ProgressTypeOK, ViewInvariant, NEW who \in Pollers,
         TakeNumber(who) \/ Appended(who) \/ AppendFails(who) \/ UNCHANGED streamVars,
         UNCHANGED <<rendered, printed, torn>>
  PROVE  OneWriter' /\ Numbered' /\ PrintedPrefix'
<1>1. CASE Appended(who)
  BY <1>1, StreamGrows
<1>2. ASSUME stream' = stream PROVE PrintedPrefix'
  BY <1>2 DEF ViewInvariant, PrintedPrefix, Earlier
<1>3. CASE TakeNumber(who)
  <2>1. /\ \A other \in Pollers : slot[other] = 0
        /\ counter' = counter + 1 /\ stream' = stream
        /\ slot' = [slot EXCEPT ![who] = counter + 1]
    BY <1>3 DEF TakeNumber, Free
  <2>2. OneWriter'
    BY <2>1 DEF OneWriter, ProgressTypeOK
  <2>3. Numbered'
    <3>1. \A i \in 1..Len(stream) : stream[i].id < counter + 1 /\ stream[i].id <= counter + 1
      BY ViewNumbers DEF ViewInvariant, Numbered
    <3> QED
      BY <2>1, <3>1 DEF ViewInvariant, Numbered
  <2> QED
    BY <1>2, <2>1, <2>2, <2>3
<1>4. CASE AppendFails(who)
  <2>1. /\ counter' = counter /\ stream' = stream
        /\ slot' = [slot EXCEPT ![who] = 0]
    BY <1>4 DEF AppendFails
  <2>2. \A other \in Pollers : slot'[other] # 0 => slot[other] # 0 /\ slot'[other] = slot[other]
    BY <2>1 DEF ProgressTypeOK
  <2>3. OneWriter'
    BY <2>1, <2>2 DEF OneWriter, ViewInvariant, ProgressTypeOK
  <2>4. Numbered'
    BY <2>1, <2>2 DEF ViewInvariant, Numbered
  <2> QED
    BY <1>2, <2>1, <2>3, <2>4
<1>5. CASE UNCHANGED streamVars
  BY <1>2, <1>5 DEF streamVars, ViewInvariant, OneWriter, Numbered
<1> QED
  BY <1>1, <1>3, <1>4, <1>5

\* A look at the stream prints what the one before had not seen.
LEMMA RenderKeeps ==
  ASSUME ProgressTypeOK, ViewInvariant, Rendered, UNCHANGED <<streamVars, torn>>
  PROVE  OneWriter' /\ Numbered' /\ PrintedPrefix' /\ (~torn => rendered' = Len(stream))
<1>1. slot' = slot /\ counter' = counter /\ stream' = stream /\ torn' = torn
  BY DEF streamVars
<1>2. OneWriter' /\ Numbered' /\ Earlier' = Earlier
  BY <1>1 DEF ViewInvariant, OneWriter, Numbered, Earlier
<1>3. CASE torn
  BY <1>1, <1>2, <1>3 DEF Rendered, ViewInvariant, PrintedPrefix
<1>4. CASE ~torn
  <2>1. /\ printed' = printed \o SubSeq(stream, rendered + 1, Len(stream))
        /\ rendered' = Len(stream)
    BY <1>4 DEF Rendered
  <2>2. /\ rendered \in Earlier..Len(stream) /\ Earlier \in Nat /\ Len(stream) \in Nat
        /\ printed = SubSeq(stream, Earlier + 1, rendered) /\ Earlier <= Len(stream)
    BY <1>4, ViewNumbers DEF ViewInvariant, PrintedPrefix
  <2>3. printed' = SubSeq(stream, Earlier + 1, Len(stream))
    <3>1. rendered \in Nat /\ Earlier <= rendered /\ rendered <= Len(stream) /\ Len(stream) <= Len(stream)
          /\ stream \in Seq(ProgressEvent)
      BY <2>2 DEF ProgressTypeOK
    <3>2. SubSeq(stream, Earlier + 1, rendered) \o SubSeq(stream, rendered + 1, Len(stream))
            = SubSeq(stream, Earlier + 1, Len(stream))
      BY <2>2, <3>1, SlicesJoin
    <3> QED
      BY <2>1, <2>2, <3>2
  <2>4. rendered' \in Earlier..Len(stream)
    BY <2>1, <2>2
  <2> QED
    <3>1. stream' = stream /\ Earlier' = Earlier /\ ~torn'
      BY <1>1, <1>2, <1>4
    <3>2. rendered' \in Earlier'..Len(stream')
      BY <2>4, <3>1
    <3>3. printed' = SubSeq(stream', Earlier' + 1, rendered')
      BY <2>1, <2>3, <3>1
    <3>4. PrintedPrefix'
      BY <3>1, <3>2, <3>3 DEF PrintedPrefix
    <3> QED
      BY <1>2, <2>1, <3>4
<1> QED
  BY <1>3, <1>4

LEMMA ViewNext == ProgressTypeOK /\ ViewInvariant /\ [ProgressNext]_progressVars => ViewInvariant'
<1> SUFFICES ASSUME ProgressTypeOK, ViewInvariant, [ProgressNext]_progressVars
             PROVE  ViewInvariant'
  OBVIOUS
<1> DEFINE Streamed == OneWriter' /\ Numbered' /\ PrintedPrefix'
<1>1. ClosedAtEnd /\ Len(stream) \in Nat /\ "thread" \in Pollers /\ "host" \in Pollers
  BY ViewNumbers DEF ViewInvariant, Pollers
<1>2. ASSUME UNCHANGED <<streamVars, torn, screenVars>>, host = "done" => host' = "done"
      PROVE  Streamed /\ ClosedAtEnd'
  <2>1. Streamed
    BY <1>1, <1>2, StreamKeeps DEF screenVars
  <2>2. stream' = stream /\ torn' = torn /\ rendered' = rendered /\ viewer' = viewer
    BY <1>2 DEF streamVars, screenVars
  <2> QED
    BY <1>1, <1>2, <2>1, <2>2 DEF ClosedAtEnd
<1>3. ASSUME NEW who \in Pollers, UNCHANGED <<torn, screenVars>>, host = "done" => host' = "done",
             TakeNumber(who) \/ Appended(who) \/ AppendFails(who) \/ UNCHANGED streamVars,
             Appended(who) => host # "done" \/ who = "thread"
      PROVE  Streamed /\ ClosedAtEnd'
  <2>1. Streamed
    BY <1>3, StreamKeeps DEF screenVars
  <2>2. torn' = torn /\ rendered' = rendered /\ viewer' = viewer
    BY <1>3 DEF screenVars
  <2>3. CASE Appended(who)
    <3> DEFINE event == [id |-> slot[who], by |-> who]
    <3>1. stream' = Append(stream, event) /\ event \in ProgressEvent /\ event.by = who
      BY <2>3 DEF Appended, ProgressTypeOK, ProgressEvent
    <3> HIDE DEF event
    <3>2. /\ Len(stream') = Len(stream) + 1
          /\ \A i \in 1..Len(stream) : stream'[i] = stream[i]
          /\ stream'[Len(stream) + 1] = event
      BY <3>1, AppendProperties DEF ProgressTypeOK
    <3>3. ASSUME viewer = "closed", ~torn, NEW i \in rendered + 1..Len(stream')
          PROVE  stream'[i].by # "host"
      <4>1. i \in rendered + 1..Len(stream) \/ i = Len(stream) + 1
        BY <1>1, <3>2, <3>3, ViewNumbers
      <4>2. i \in rendered + 1..Len(stream) => i \in 1..Len(stream)
        BY <1>1, ViewNumbers
      <4>3. who = "thread"
        BY <1>1, <1>3, <2>3, <3>3 DEF ClosedAtEnd
      <4> QED
        BY <1>1, <3>1, <3>2, <3>3, <4>1, <4>2, <4>3 DEF ClosedAtEnd
    <3> QED
      BY <1>1, <1>3, <2>1, <2>2, <3>3 DEF ClosedAtEnd
  <2>4. CASE ~Appended(who)
    <3>1. stream' = stream
      BY <1>3, <2>4 DEF TakeNumber, AppendFails, streamVars
    <3> QED
      BY <1>1, <1>3, <2>1, <2>2, <3>1 DEF ClosedAtEnd
  <2> QED
    BY <2>3, <2>4
<1>4. ASSUME WorkerWrites \/ WorkerGone \/ Loop \/ Join \/ ThreadReads \/ HostReads
      PROVE  Streamed /\ ClosedAtEnd'
  BY <1>2, <1>4 DEF WorkerWrites, WorkerGone, Loop, Join, ThreadReads, HostReads
<1>5. ASSUME Start PROVE Streamed /\ ClosedAtEnd'
  BY <1>1, <1>3, <1>5 DEF Start
<1>6. ASSUME NEW who \in Pollers, HandOn(who) PROVE Streamed /\ ClosedAtEnd'
  BY <1>3, <1>6 DEF HandOn, TakeNumber, Appended, streamVars
<1>7. ASSUME NEW who \in Pollers, Note(who) PROVE Streamed /\ ClosedAtEnd'
  BY <1>3, <1>7 DEF Note, TakeNumber, Appended
<1>8. ASSUME NEW who \in Pollers, Handed(who) PROVE Streamed /\ ClosedAtEnd'
  <2>1. who = "thread" \/ host # "done"
    BY <1>8 DEF Handed, Emitting
  <2> QED
    BY <1>3, <1>8, <2>1 DEF Handed
<1>9. ASSUME NEW who \in Pollers, PollEnds(who) PROVE Streamed /\ ClosedAtEnd'
  <2>1. host = "done" => host' = "done"
    BY <1>9 DEF PollEnds, Emitting, Pollers
  <2> QED
    BY <1>2, <1>9, <2>1 DEF PollEnds
<1>10. ASSUME Report PROVE Streamed /\ ClosedAtEnd'
  BY <1>1, <1>3, <1>10 DEF Report
<1>11. ASSUME Render PROVE Streamed /\ ClosedAtEnd'
  <2>1. Streamed
    BY <1>11, RenderKeeps DEF Render
  <2> QED
    BY <1>1, <1>11, <2>1 DEF Render, ClosedAtEnd
<1>12. ASSUME LastRender PROVE Streamed /\ ClosedAtEnd'
  <2>1. Streamed /\ (~torn => rendered' = Len(stream))
    BY <1>12, RenderKeeps DEF LastRender
  <2>2. stream' = stream /\ torn' = torn /\ host' = "done"
    BY <1>12 DEF LastRender, streamVars
  <2>3. ~torn => rendered' + 1..Len(stream') = {}
    BY <1>1, <2>1, <2>2
  <2> QED
    BY <2>1, <2>2, <2>3 DEF ClosedAtEnd
<1>13. ASSUME UNCHANGED progressVars PROVE Streamed /\ ClosedAtEnd'
  BY <1>2, <1>13 DEF progressVars
<1>14. Streamed /\ ClosedAtEnd'
  BY <1>4, <1>5, <1>6, <1>7, <1>8, <1>9, <1>10, <1>11, <1>12, <1>13 DEF ProgressNext
<1> QED
  BY <1>14 DEF ViewInvariant

\* What the user is shown: this run's events, in the order of their numbers, each
\* once, and, when the view closes on a readable stream, every event of the flow's
\* own thread up to its last (_render_new_events after the run, events.append).
THEOREM ViewShowsTheRun == ProgressSpec => []ViewComplete
<1>1. ProgressTypeOK /\ ViewInvariant => ViewComplete
  <2> SUFFICES ASSUME ProgressTypeOK, ViewInvariant PROVE ViewComplete
    OBVIOUS
  <2> DEFINE ours == SubSeq(stream, Earlier + 1, Len(stream))
             shown == Len(printed)
  <2>1. /\ Len(stream) \in Nat /\ Earlier \in Nat /\ Earlier <= Len(stream)
        /\ stream \in Seq(ProgressEvent) /\ printed \in Seq(ProgressEvent)
        /\ shown \in Nat /\ DOMAIN printed = 1..shown
    BY ViewNumbers, LenProperties DEF ProgressTypeOK
  <2>2. /\ ours \in Seq(ProgressEvent) /\ Len(ours) = Len(stream) - Earlier
        /\ DOMAIN ours = 1..Len(stream) - Earlier
        /\ \A i \in 1..Len(stream) - Earlier : ours[i] = stream[Earlier + i]
    BY <2>1, Slice, LenProperties
  <2> HIDE DEF ours, shown
  <2>3. /\ shown <= Len(stream) - Earlier
        /\ \A i \in 1..shown : printed[i] = stream[Earlier + i]
        /\ ~torn => shown = rendered - Earlier
    <3>1. CASE torn
      <4>1. shown = 0
        BY <3>1 DEF ViewInvariant, PrintedPrefix, shown
      <4> QED
        BY <2>1, <3>1, <4>1
    <3>2. CASE ~torn
      <4>1. rendered \in Earlier..Len(stream) /\ printed = SubSeq(stream, Earlier + 1, rendered)
        BY <3>2 DEF ViewInvariant, PrintedPrefix
      <4>2. /\ shown = rendered - Earlier
            /\ \A i \in 1..rendered - Earlier : printed[i] = stream[Earlier + i]
        BY <2>1, <4>1, Slice DEF shown
      <4> QED
        BY <2>1, <4>1, <4>2
    <3> QED
      BY <3>1, <3>2
  <2>4. ASSUME NEW i \in DOMAIN printed, NEW j \in DOMAIN printed, i < j
        PROVE  printed[i].id < printed[j].id
    <3>1. Earlier + i \in 1..Len(stream) /\ Earlier + j \in 1..Len(stream) /\ Earlier + i < Earlier + j
      BY <2>1, <2>3, <2>4
    <3>2. stream[Earlier + i].id < stream[Earlier + j].id
      BY <3>1 DEF ViewInvariant, Numbered
    <3> QED
      BY <2>1, <2>3, <3>2
  <2>5. printed = SubSeq(ours, 1, shown)
    <3> DEFINE head == SubSeq(ours, 1, shown)
    <3>1. SubSeq(ours, 1, shown) = SubSeq(ours, 0 + 1, shown)
      OBVIOUS
    <3>2. /\ SubSeq(ours, 0 + 1, shown) \in Seq(ProgressEvent)
          /\ Len(SubSeq(ours, 0 + 1, shown)) = shown - 0
          /\ \A i \in 1..shown - 0 : SubSeq(ours, 0 + 1, shown)[i] = ours[0 + i]
      BY <2>1, <2>2, <2>3, Slice
    <3>3. /\ head \in Seq(ProgressEvent) /\ Len(head) = shown
          /\ \A i \in 1..shown : head[i] = ours[i]
      BY <2>1, <3>1, <3>2
    <3> HIDE DEF head
    <3>4. \A i \in 1..shown : head[i] = printed[i]
      <4> TAKE i \in 1..shown
      <4>1. i \in 1..Len(stream) - Earlier
        BY <2>1, <2>3
      <4> QED
        BY <2>2, <2>3, <3>3, <4>1
    <3>5. head = printed
      BY <2>1, <3>3, <3>4, SeqEqual DEF shown
    <3> QED
      BY <3>5 DEF head
  <2>6. ASSUME viewer = "closed", ~torn, NEW i \in DOMAIN ours, ours[i].by = "host"
        PROVE  i <= shown
    <3>1. Earlier + i \in 1..Len(stream) /\ stream[Earlier + i].by = "host"
      BY <2>1, <2>2, <2>6
    <3>2. Earlier + i \notin rendered + 1..Len(stream)
      BY <2>6, <3>1 DEF ViewInvariant, ClosedAtEnd
    <3> QED
      BY <2>1, <2>2, <2>3, <2>6, <3>1, <3>2, ViewNumbers
  <2> QED
    BY <2>4, <2>5, <2>6 DEF ViewComplete, ours, shown
<1>2. ProgressInit => TailInvariant /\ ViewInvariant
  BY TailInit, ViewInit
<1>3. TailInvariant /\ ViewInvariant /\ [ProgressNext]_progressVars
        => TailInvariant' /\ ViewInvariant'
  BY TailNext, ViewNext DEF TailInvariant
<1>4. TailInvariant => ProgressTypeOK
  BY DEF TailInvariant
<1> QED
  BY <1>1, <1>2, <1>3, <1>4, PTL DEF ProgressSpec
=============================================================================
