--------------------------- MODULE ChainedLogProofs ---------------------------
(***************************************************************************)
(* What ChainedLog's runs show on two processes, for any number of them.   *)
(***************************************************************************)
EXTENDS ChainedLog, WellFoundedInduction, TLAPS

-----------------------------------------------------------------------------
(* Numbers, sequences and lines. *)

Texts == Lines \cup {Fragment}

LEMMA SmallestOf ==
  ASSUME NEW T, T \subseteq Nat, T # {}
  PROVE  \E m \in T : \A n \in T : m <= n
<1>1. PICK m \in T : \A n \in T : ~(<<n, m>> \in OpToRel(<, Nat))
  BY NatLessThanWellFounded, WFMin
<1>2. m \in Nat /\ \A n \in T : n \in Nat /\ ~(n < m)
  BY <1>1 DEF OpToRel
<1>3. \A n \in T : m <= n
  BY <1>2
<1> QED
  BY <1>3

\* What counts up from one by one is its own position.
LEMMA CountsUp ==
  ASSUME NEW n \in Nat, NEW f, \A i \in 1..n : f[i] \in Nat,
         \A i \in 1..n : f[i] = IF i = 1 THEN 1 ELSE f[i - 1] + 1
  PROVE  \A i \in 1..n : f[i] = i
<1> DEFINE T == {i \in 1..n : f[i] # i}
<1>1. CASE T = {}
  BY <1>1
<1>2. CASE T # {}
  <2>0. T \subseteq Nat
    OBVIOUS
  <2>1. PICK m \in T : \A i \in T : m <= i
    BY <1>2, <2>0, SmallestOf
  <2>2. m \in 1..n /\ f[m] # m
    BY <2>1
  <2>3. m # 1
    BY <2>2
  <2>4. m - 1 \in 1..n /\ m - 1 \notin T
    BY <2>1, <2>2, <2>3
  <2>5. f[m - 1] = m - 1
    BY <2>4
  <2> QED
    BY <2>2, <2>3, <2>5
<1> QED
  BY <1>1, <1>2

LEMMA SeqsAgree ==
  ASSUME NEW S, NEW s \in Seq(S), NEW t \in Seq(S), Len(s) = Len(t),
         \A i \in 1..Len(s) : s[i] = t[i]
  PROVE  s = t
OBVIOUS

LEMMA Appended ==
  ASSUME NEW S, NEW s \in Seq(S), NEW x
  PROVE  /\ Append(s, x) \in Seq(S \cup {x}) /\ Len(Append(s, x)) = Len(s) + 1 /\ Len(s) \in Nat
         /\ DOMAIN s = 1..Len(s) /\ DOMAIN Append(s, x) = 1..Len(s) + 1
         /\ \A i \in DOMAIN s : Append(s, x)[i] = s[i] /\ s[i] \in S
         /\ Append(s, x)[Len(s) + 1] = x
OBVIOUS

\* The lines the code writes.
LEMMA LinesBuilt ==
  ASSUME NEW r \in Records
  PROVE  /\ Unsigned(r) \in Lines
         /\ \A k \in EvidenceKeys \cup {NoKey}, p \in Macs :
              /\ Mac(k, p, r) \in Macs /\ Signed(k, p, r) \in Lines
              /\ Mac(k, p, r) # NoMac
<1>1. \A k \in EvidenceKeys \cup {NoKey}, p \in Macs : Mac(k, p, r) \in Macs
  BY DEF Mac, Macs
<1> QED
  BY <1>1, LinesAssumption DEF Lines, Unsigned, Signed

LEMMA LineIsLine == \A l \in Lines : IsLine(l) /\ l # Fragment /\ l.rec \in Records
BY LinesAssumption DEF IsLine, Lines

LEMMA LinesAreTexts == Seq(Lines) \subseteq Seq(Texts)
BY DEF Texts

\* Cutting a last fragment.
LEMMA WholePart ==
  ASSUME NEW ls \in Seq(Texts)
  PROVE  /\ Whole(ls) \in Seq(Texts)
         /\ DOMAIN Whole(ls) \subseteq DOMAIN ls
         /\ \A i \in DOMAIN Whole(ls) : Whole(ls)[i] = ls[i]
         /\ \A i \in DOMAIN ls : ls[i] # Fragment => i \in DOMAIN Whole(ls)
         /\ ls \in Seq(Lines) => Whole(ls) = ls
<1>1. CASE ls # <<>> /\ Last(ls) = Fragment
  <2>1. Whole(ls) = SubSeq(ls, 1, Len(ls) - 1)
    BY <1>1 DEF Whole, Front
  <2>2. ls \notin Seq(Lines)
    BY <1>1, LinesAssumption DEF Last
  <2> QED
    BY <1>1, <2>1, <2>2 DEF Last
<1>2. CASE ~(ls # <<>> /\ Last(ls) = Fragment)
  BY <1>2 DEF Whole
<1> QED
  BY <1>1, <1>2

-----------------------------------------------------------------------------
(* Type correctness. *)

LEMMA NextLineTyped ==
  ASSUME TypeOK, NEW w \in Writers, Writing(w)
  PROVE  /\ NextRecord(w) \in Records /\ NextLine(w) \in Lines
         /\ NextLine(w).rec = NextRecord(w)
<1>1. NextRecord(w) \in Records
  BY DEF TypeOK, Writing, NextRecord
<1>2. key[w] \in EvidenceKeys \cup {NoKey} /\ tail[w] \in Macs \cup {NoMac}
  BY ConstantsAssumption DEF TypeOK
<1> QED
  BY <1>1, <1>2, LinesBuilt DEF NextLine, Unsigned, Signed

LEMMA EntriesTyped ==
  ASSUME TypeOK
  PROVE  /\ Content \in Seq(Texts) /\ Entries \in Seq(Texts)
         /\ RecordsIn(Entries) \subseteq Records
         /\ ~Garbled => Entries \in Seq(Lines) /\ Readable \in Seq(Records)
<1>1. Content \in Seq(Texts)
  BY DEF Content, TypeOK, Texts
<1>2. Entries \in Seq(Texts)
  BY <1>1, WholePart DEF Entries
<1>3. RecordsIn(Entries) \subseteq Records
  BY <1>2, LineIsLine DEF RecordsIn, IsLine, Texts
<1>4. ASSUME ~Garbled PROVE Entries \in Seq(Lines) /\ Readable \in Seq(Records)
  <2>1. Entries \in Seq(Lines)
    BY <1>2, <1>4 DEF Garbled, Texts
  <2>2. \A i \in 1..Len(Entries) : Entries[i].rec \in Records
    BY <2>1, LineIsLine
  <2> QED
    BY <2>1, <2>2 DEF Readable, RecordsOf
<1> QED
  BY <1>1, <1>2, <1>3, <1>4

LEMMA SignedParts ==
  ASSUME NEW k, NEW p, NEW x
  PROVE  Signed(k, p, x).prev = p /\ Signed(k, p, x).mac = Mac(k, p, x) /\ Signed(k, p, x).rec = x
BY DEF Signed

LEMMA MacsBuilt ==
  ASSUME NEW k \in EvidenceKeys, NEW recs \in Seq(Records)
  PROVE  /\ MacOver(k, recs) \in Macs /\ Len(MacOver(k, recs)) = Len(recs)
         /\ \A n \in 1..Len(recs) : MacOver(k, recs)[n] = <<k, recs[n]>>
BY DEF MacOver, Macs

\* What sign_unsigned writes.
LEMMA ChainedLines ==
  ASSUME NEW k \in EvidenceKeys, NEW recs \in Seq(Records)
  PROVE  /\ Chained(k, recs) \in Seq(Lines) /\ Len(Chained(k, recs)) = Len(recs)
         /\ RecordsOf(Chained(k, recs)) = recs
         /\ \A i \in DOMAIN recs :
              /\ Chained(k, recs)[i].prev = MacOver(k, SubSeq(recs, 1, i - 1))
              /\ Chained(k, recs)[i].mac = MacOver(k, SubSeq(recs, 1, i))
              /\ Chained(k, recs)[i].mac = Mac(k, Chained(k, recs)[i].prev, recs[i])
              /\ Chained(k, recs)[i].mac # NoMac
<1>1. ASSUME NEW i \in 1..Len(recs)
      PROVE  /\ MacOver(k, SubSeq(recs, 1, i - 1)) \in Macs
             /\ Mac(k, MacOver(k, SubSeq(recs, 1, i - 1)), recs[i]) = MacOver(k, SubSeq(recs, 1, i))
             /\ recs[i] \in Records
  <2>1. /\ SubSeq(recs, 1, i - 1) \in Seq(Records) /\ Len(SubSeq(recs, 1, i - 1)) = i - 1
        /\ \A n \in 1..i - 1 : SubSeq(recs, 1, i - 1)[n] = recs[n]
    OBVIOUS
  <2>2. /\ SubSeq(recs, 1, i) \in Seq(Records) /\ Len(SubSeq(recs, 1, i)) = i
        /\ \A n \in 1..i : SubSeq(recs, 1, i)[n] = recs[n]
    OBVIOUS
  <2>3. /\ MacOver(k, SubSeq(recs, 1, i - 1)) \in Macs
        /\ Len(MacOver(k, SubSeq(recs, 1, i - 1))) = i - 1
        /\ \A n \in 1..i - 1 : MacOver(k, SubSeq(recs, 1, i - 1))[n] = <<k, recs[n]>>
    BY <2>1 DEF MacOver, Macs
  <2>4. /\ MacOver(k, SubSeq(recs, 1, i)) \in Macs
        /\ Len(MacOver(k, SubSeq(recs, 1, i))) = i
        /\ \A n \in 1..i : MacOver(k, SubSeq(recs, 1, i))[n] = <<k, recs[n]>>
    BY <2>2 DEF MacOver, Macs
  <2>5. Append(MacOver(k, SubSeq(recs, 1, i - 1)), <<k, recs[i]>>) = MacOver(k, SubSeq(recs, 1, i))
    <3> DEFINE p == MacOver(k, SubSeq(recs, 1, i - 1))
               q == MacOver(k, SubSeq(recs, 1, i))
               E == (EvidenceKeys \cup {NoKey}) \X Records
    <3>1. p \in Seq(E) /\ q \in Seq(E) /\ <<k, recs[i]>> \in E
      BY <2>3, <2>4 DEF Macs
    <3>2. Append(p, <<k, recs[i]>>) \in Seq(E) /\ Len(Append(p, <<k, recs[i]>>)) = i
      BY <3>1, <2>3
    <3>3. \A n \in 1..i : Append(p, <<k, recs[i]>>)[n] = q[n]
      <4>1. ASSUME NEW n \in 1..i, n # i PROVE Append(p, <<k, recs[i]>>)[n] = q[n]
        <5>1. n \in 1..i - 1
          BY <4>1
        <5>2. Append(p, <<k, recs[i]>>)[n] = p[n]
          BY <5>1, <3>1, <2>3
        <5> QED
          BY <5>1, <5>2, <2>3, <2>4
      <4>2. Append(p, <<k, recs[i]>>)[i] = <<k, recs[i]>>
        BY <3>1, <2>3
      <4> QED
        BY <4>1, <4>2, <2>4
    <3> HIDE DEF p, q
    <3>4. Append(p, <<k, recs[i]>>) = q
      BY <3>1, <3>2, <3>3, <2>4, SeqsAgree DEF q
    <3> QED
      BY <3>4 DEF p, q
  <2> QED
    BY <2>3, <2>5 DEF Mac
<1>2. DOMAIN recs = 1..Len(recs) /\ Len(recs) \in Nat
  OBVIOUS
<1>3. \A i \in 1..Len(recs) : Chained(k, recs)[i] = Signed(k, MacOver(k, SubSeq(recs, 1, i - 1)), recs[i])
  BY <1>2 DEF Chained
<1>4. \A i \in 1..Len(recs) : Chained(k, recs)[i] \in Lines
  BY <1>1, <1>3, LinesBuilt
<1>5. Chained(k, recs) \in Seq(Lines) /\ Len(Chained(k, recs)) = Len(recs)
  BY <1>2, <1>4 DEF Chained
<1>6. RecordsOf(Chained(k, recs)) = recs
  <2>1. \A i \in 1..Len(recs) : Chained(k, recs)[i].rec = recs[i]
    BY <1>3, SignedParts
  <2>2. RecordsOf(Chained(k, recs)) = [i \in 1..Len(recs) |-> recs[i]]
    BY <1>5, <2>1 DEF RecordsOf
  <2> QED
    BY <1>2, <2>2
<1>7. \A i \in 1..Len(recs) :
        /\ Chained(k, recs)[i].prev = MacOver(k, SubSeq(recs, 1, i - 1))
        /\ Chained(k, recs)[i].mac = Mac(k, MacOver(k, SubSeq(recs, 1, i - 1)), recs[i])
  BY <1>3, SignedParts
<1>8. \A i \in 1..Len(recs) : Mac(k, MacOver(k, SubSeq(recs, 1, i - 1)), recs[i]) # NoMac
  BY <1>1, LinesBuilt
<1> QED
  BY <1>1, <1>2, <1>5, <1>6, <1>7, <1>8

\* Where the elements of a shortened or a lengthened sequence come from.
LEMMA Joined ==
  ASSUME NEW S, NEW p \in Seq(S), NEW q \in Seq(S)
  PROVE  /\ p \o q \in Seq(S) /\ Len(p \o q) = Len(p) + Len(q) /\ Len(p) \in Nat /\ Len(q) \in Nat
         /\ DOMAIN (p \o q) = 1..Len(p) + Len(q)
         /\ \A n \in 1..Len(p) : (p \o q)[n] = p[n]
         /\ \A n \in 1..Len(q) : (p \o q)[n + Len(p)] = q[n]
OBVIOUS

\* An element of a concatenation is an element of one part.
LEMMA JoinedFrom ==
  ASSUME NEW S, NEW p \in Seq(S), NEW q \in Seq(S), NEW n \in DOMAIN (p \o q)
  PROVE  (\E j \in DOMAIN p : (p \o q)[n] = p[j]) \/ (\E j \in DOMAIN q : (p \o q)[n] = q[j])
<1>1. n \in 1..Len(p) + Len(q) /\ DOMAIN p = 1..Len(p) /\ DOMAIN q = 1..Len(q)
  BY Joined
<1>2. CASE n \in 1..Len(p)
  BY <1>1, <1>2, Joined
<1>3. CASE n \notin 1..Len(p)
  <2>1. n - Len(p) \in 1..Len(q) /\ (n - Len(p)) + Len(p) = n
    BY <1>1, <1>3
  <2>2. (p \o q)[(n - Len(p)) + Len(p)] = q[n - Len(p)]
    BY <2>1, Joined
  <2> QED
    BY <1>1, <2>1, <2>2
<1> QED
  BY <1>2, <1>3

LEMMA PartOf ==
  ASSUME NEW S, NEW s \in Seq(S), NEW a \in 1..Len(s) + 1, NEW b \in 0..Len(s)
  PROVE  /\ SubSeq(s, a, b) \in Seq(S)
         /\ \A n \in DOMAIN SubSeq(s, a, b) : \E j \in DOMAIN s : SubSeq(s, a, b)[n] = s[j]
<1>1. SubSeq(s, a, b) \in Seq(S)
  OBVIOUS
<1>2. ASSUME NEW n \in DOMAIN SubSeq(s, a, b)
      PROVE  \E j \in DOMAIN s : SubSeq(s, a, b)[n] = s[j]
  <2>1. SubSeq(s, a, b)[n] = s[a + n - 1] /\ a + n - 1 \in DOMAIN s
    OBVIOUS
  <2> QED
    BY <2>1
<1> QED
  BY <1>1, <1>2

LEMMA Removed ==
  ASSUME NEW S, NEW s \in Seq(S), NEW i \in DOMAIN s
  PROVE  /\ RemoveAt(s, i) \in Seq(S)
         /\ \A n \in DOMAIN RemoveAt(s, i) : \E j \in DOMAIN s : RemoveAt(s, i)[n] = s[j]
<1> DEFINE head == SubSeq(s, 1, i - 1)
           rest == SubSeq(s, i + 1, Len(s))
<1>0. /\ 1 \in 1..Len(s) + 1 /\ i - 1 \in 0..Len(s)
      /\ i + 1 \in 1..Len(s) + 1 /\ Len(s) \in 0..Len(s)
  OBVIOUS
<1>1. head \in Seq(S) /\ \A n \in DOMAIN head : \E j \in DOMAIN s : head[n] = s[j]
  BY <1>0, PartOf
<1>2. rest \in Seq(S) /\ \A n \in DOMAIN rest : \E j \in DOMAIN s : rest[n] = s[j]
  <2> DEFINE a == i + 1
             b == Len(s)
  <2>1. a \in 1..Len(s) + 1 /\ b \in 0..Len(s)
    BY <1>0
  <2> HIDE DEF a, b
  <2>2. /\ SubSeq(s, a, b) \in Seq(S)
        /\ \A n \in DOMAIN SubSeq(s, a, b) : \E j \in DOMAIN s : SubSeq(s, a, b)[n] = s[j]
    BY <2>1, PartOf
  <2> QED
    BY <2>2 DEF a, b
<1>3. RemoveAt(s, i) = head \o rest
  BY DEF RemoveAt
<1> HIDE DEF head, rest
<1>4. head \o rest \in Seq(S)
  BY <1>1, <1>2, Joined
<1>5. \A n \in DOMAIN (head \o rest) : \E j \in DOMAIN s : (head \o rest)[n] = s[j]
  <2>0. head \in Seq(S) /\ rest \in Seq(S)
    BY <1>1, <1>2
  <2>1. \A n \in DOMAIN (head \o rest) :
          (\E j \in DOMAIN head : (head \o rest)[n] = head[j]) \/ (\E j \in DOMAIN rest : (head \o rest)[n] = rest[j])
    BY <2>0, JoinedFrom
  <2> QED
    BY <2>1, <1>1, <1>2
<1> QED
  BY <1>3, <1>4, <1>5

LEMMA Inserted ==
  ASSUME NEW S, NEW s \in Seq(S), NEW e \in S, NEW i \in 1..Len(s) + 1
  PROVE  /\ InsertAt(s, i, e) \in Seq(S)
         /\ \A n \in DOMAIN InsertAt(s, i, e) :
              InsertAt(s, i, e)[n] = e \/ \E j \in DOMAIN s : InsertAt(s, i, e)[n] = s[j]
<1> DEFINE p == SubSeq(s, 1, i - 1)
           q == SubSeq(s, i, Len(s))
           pe == p \o <<e>>
<1>1. p \in Seq(S) /\ \A n \in DOMAIN p : \E j \in DOMAIN s : p[n] = s[j]
  BY PartOf
<1>2. q \in Seq(S) /\ \A n \in DOMAIN q : \E j \in DOMAIN s : q[n] = s[j]
  BY PartOf
<1>3. InsertAt(s, i, e) = pe \o q
  BY DEF InsertAt
<1> HIDE DEF p, q
<1>4. <<e>> \in Seq(S) /\ \A n \in DOMAIN <<e>> : <<e>>[n] = e
  OBVIOUS
<1>5. pe \in Seq(S) /\ \A n \in DOMAIN pe : pe[n] = e \/ \E j \in DOMAIN s : pe[n] = s[j]
  BY <1>1, <1>4, Joined, JoinedFrom
<1> HIDE DEF pe
<1> QED
  BY <1>2, <1>3, <1>5, Joined, JoinedFrom

\* A hand has no mac that the file does not hold.
LEMMA EditedLines ==
  ASSUME lines \in Seq(Lines), NEW ls \in Edited
  PROVE  /\ ls \in Seq(Texts)
         /\ \A n \in DOMAIN ls :
              \/ ls[n] = Fragment
              \/ ls[n].mac = NoMac
              \/ \E j \in DOMAIN lines : ls[n].mac = lines[j].mac
<1>1. \A i \in DOMAIN lines : lines[i] \in Lines
  OBVIOUS
<1>2. CASE \E i \in DOMAIN lines : ls = RemoveAt(lines, i)
  <2>1. PICK i \in DOMAIN lines : ls = RemoveAt(lines, i)
    BY <1>2
  <2>2. ls \in Seq(Lines) /\ \A n \in DOMAIN ls : \E j \in DOMAIN lines : ls[n] = lines[j]
    BY <2>1, Removed
  <2> QED
    BY <2>2 DEF Texts
<1>3. CASE \E i \in DOMAIN lines, j \in DOMAIN lines :
             ls = [lines EXCEPT ![i] = lines[j], ![j] = lines[i]]
  <2>1. PICK i \in DOMAIN lines, j \in DOMAIN lines :
           ls = [lines EXCEPT ![i] = lines[j], ![j] = lines[i]]
    BY <1>3
  <2>2. ls \in Seq(Lines) /\ DOMAIN ls = DOMAIN lines
    BY <2>1
  <2>3. \A n \in DOMAIN ls : ls[n] = lines[i] \/ ls[n] = lines[j] \/ ls[n] = lines[n]
    BY <2>1
  <2>4. \A n \in DOMAIN ls : \E m \in DOMAIN lines : ls[n] = lines[m]
    BY <2>1, <2>2, <2>3
  <2> QED
    BY <2>2, <2>4, LinesAreTexts
<1>4. CASE \E i \in DOMAIN lines, j \in DOMAIN lines : ls = InsertAt(lines, i, lines[j])
  <2>1. PICK i \in DOMAIN lines, j \in DOMAIN lines : ls = InsertAt(lines, i, lines[j])
    BY <1>4
  <2>2. lines[j] \in Lines /\ i \in 1..Len(lines) + 1
    BY <1>1
  <2>3. /\ ls \in Seq(Lines)
        /\ \A n \in DOMAIN ls : ls[n] = lines[j] \/ \E m \in DOMAIN lines : ls[n] = lines[m]
    BY <2>1, <2>2, Inserted
  <2> QED
    BY <2>3 DEF Texts
<1>5. CASE \E i \in DOMAIN lines : ls = [lines EXCEPT ![i] = Fragment]
  <2>1. PICK i \in DOMAIN lines : ls = [lines EXCEPT ![i] = Fragment]
    BY <1>5
  <2>2. lines \in Seq(Texts) /\ Fragment \in Texts
    BY DEF Texts
  <2>3. ls \in Seq(Texts)
    BY <2>1, <2>2
  <2>4. DOMAIN ls = DOMAIN lines /\ \A n \in DOMAIN ls : ls[n] = Fragment \/ ls[n] = lines[n]
    BY <2>1
  <2> QED
    BY <2>3, <2>4
<1>6. CASE \E i \in DOMAIN lines, r \in Records : ls = [lines EXCEPT ![i].rec = r]
  <2>1. PICK i \in DOMAIN lines, r \in Records : ls = [lines EXCEPT ![i].rec = r]
    BY <1>6
  <2>2. lines[i] \in Lines
    BY <1>1
  <2>3. [lines[i] EXCEPT !.rec = r] \in Lines /\ [lines[i] EXCEPT !.rec = r].mac = lines[i].mac
    BY <2>2 DEF Lines
  <2>4. ls = [lines EXCEPT ![i] = [lines[i] EXCEPT !.rec = r]]
    BY <2>1
  <2>5. ls \in Seq(Lines) /\ DOMAIN ls = DOMAIN lines
    BY <2>3, <2>4
  <2>6. \A n \in DOMAIN ls : ls[n].mac = lines[n].mac
    BY <2>3, <2>4
  <2> QED
    BY <2>5, <2>6 DEF Texts
<1>7. CASE \E i \in 1..Len(lines) + 1, r \in Records : ls = InsertAt(lines, i, Unsigned(r))
  <2>1. PICK i \in 1..Len(lines) + 1, r \in Records : ls = InsertAt(lines, i, Unsigned(r))
    BY <1>7
  <2>2. Unsigned(r) \in Lines /\ Unsigned(r).mac = NoMac
    BY LinesBuilt DEF Unsigned
  <2>3. /\ ls \in Seq(Lines)
        /\ \A n \in DOMAIN ls : ls[n] = Unsigned(r) \/ \E m \in DOMAIN lines : ls[n] = lines[m]
    BY <2>1, <2>2, Inserted
  <2> QED
    BY <2>2, <2>3 DEF Texts
<1> QED
  BY <1>2, <1>3, <1>4, <1>5, <1>6, <1>7 DEF Edited

\* Every step keeps the file, the locks and each process's store well formed.
THEOREM TypeCorrect == Spec => []TypeOK
<1>1. Init => TypeOK
  BY ConstantsAssumption DEF Init, TypeOK
<1>2. ASSUME TypeOK, [Next]_vars PROVE TypeOK'
  <2>1. ASSUME NEW w \in Writers, Load(w) PROVE TypeOK'
    BY <1>2, <2>1, EntriesTyped, ConstantsAssumption
    DEF Load, TypeOK, Replayed, file, bounds
  <2>2. ASSUME NEW w \in Writers, NEW recs \in Seq(Records), Remember(w, recs) PROVE TypeOK'
    <3>1. Len(recs) \in Nat /\ ToSet(recs) \subseteq Records
      BY <2>2 DEF ToSet
    <3>2. batch' \in [Writers -> Seq(Records)] /\ written' \in [Writers -> Nat]
      BY <1>2, <2>2 DEF Remember, TypeOK
    <3>3. \A v \in Writers : written'[v] <= Len(batch'[v])
      BY <1>2, <2>2, <3>1 DEF Remember, TypeOK
    <3>4. store' \in [Writers -> SUBSET Records]
      BY <1>2, <2>2, <3>1 DEF Remember, TypeOK
    <3> QED
      BY <1>2, <2>2, <3>1, <3>2, <3>3, <3>4 DEF Remember, TypeOK, file
  <2>3. ASSUME NEW w \in Writers, NEW recs \in Batches, Extend(w, recs) PROVE TypeOK'
    BY <2>2, <2>3, ConstantsAssumption DEF Extend
  <2>4. ASSUME NEW w \in Writers, NEW r \in FiringsOf[w], RecordOnce(w, r) PROVE TypeOK'
    <3>1. <<r>> \in Seq(Records)
      BY <2>4, ConstantsAssumption
    <3> QED
      BY <2>2, <2>4, <3>1 DEF RecordOnce
  <2>5. ASSUME NEW w \in Writers, Lock(w) PROVE TypeOK'
    BY <1>2, <2>5 DEF Lock, TypeOK, file, bounds
  <2>6. ASSUME NEW w \in Writers, Repair(w) PROVE TypeOK'
    <3>1. tail' \in [Writers -> Macs \cup {NoMac}]
      <4>1. Genesis \in Macs
        BY DEF Genesis, Macs
      <4>2. ASSUME SigningMode(w), lines # <<>> PROVE LastLine.mac \in Macs \cup {NoMac}
        <5>1. LastLine \in Texts /\ LastLine # Fragment
          BY <1>2, <2>6, <4>2 DEF Repair, Refuses, LastLine, TypeOK, Texts
        <5> QED
          BY <5>1 DEF Texts, Lines
      <4> QED
        BY <1>2, <2>6, <4>1, <4>2 DEF Repair, TypeOK
    <3> QED
      BY <1>2, <2>6, <3>1 DEF Repair, Kept, TypeOK, bounds
  <2>7. ASSUME NEW w \in Writers, Refuse(w) PROVE TypeOK'
    BY <1>2, <2>7 DEF Refuse, TypeOK, bounds
  <2>8. ASSUME NEW w \in Writers, WriteFragment(w) PROVE TypeOK'
    BY <1>2, <2>8 DEF WriteFragment, TypeOK, process, bounds
  <2>9. ASSUME NEW w \in Writers, WriteRest(w) PROVE TypeOK'
    <3>1. torn' \in Lines
      BY <1>2, <2>9, NextLineTyped DEF WriteRest
    <3> QED
      BY <1>2, <2>9, <3>1 DEF WriteRest, TypeOK, process, bounds
  <2>10. ASSUME NEW w \in Writers, WriteNewline(w) PROVE TypeOK'
    <3>1. torn \in Lines /\ torn.rec \in Records /\ torn.mac \in Macs \cup {NoMac}
      BY <1>2, <2>10 DEF WriteNewline, IsLine, TypeOK, Lines
    <3>2. lines' \in Seq(Lines \cup {Fragment}) /\ honest' \in Seq(Records)
      BY <1>2, <2>10, <3>1 DEF WriteNewline, TypeOK
    <3>3. /\ written' \in [Writers -> Nat]
          /\ \A v \in Writers : written'[v] <= Len(batch'[v])
      <4>1. \A v \in Writers : Len(batch[v]) \in Nat /\ written[v] \in Nat
        BY <1>2 DEF TypeOK
      <4> QED
        BY <1>2, <2>10, <4>1 DEF WriteNewline, Writing, TypeOK
    <3> QED
      BY <1>2, <2>10, <3>1, <3>2, <3>3 DEF WriteNewline, TypeOK, bounds
  <2>11. ASSUME NEW w \in Writers, Unlock(w) PROVE TypeOK'
    <3>1. ToSet(batch[w]) \subseteq Records
      BY <1>2 DEF TypeOK, ToSet
    <3> QED
      BY <1>2, <2>11, <3>1 DEF Unlock, TypeOK, file, bounds
  <2>12. ASSUME NEW w \in Writers, Crash(w) PROVE TypeOK'
    BY <1>2, <2>12 DEF Crash, TypeOK, file
  <2>13. ASSUME NEW k \in EvidenceKeys, SignUnsigned(k) PROVE TypeOK'
    <3>1. ~Garbled
      BY <2>13 DEF SignUnsigned, Integrity
    <3>2. Readable \in Seq(Records)
      BY <1>2, <3>1, EntriesTyped
    <3>3. lines' \in Seq(Lines) /\ torn' = Nothing /\ honest' \in Seq(Records)
      BY <2>13, <3>2, ChainedLines DEF SignUnsigned
    <3>4. lines' \in Seq(Lines \cup {Fragment})
      BY <3>3
    <3> QED
      BY <1>2, <2>13, <3>3, <3>4 DEF SignUnsigned, TypeOK, process, bounds
  <2>14. ASSUME Edit PROVE TypeOK'
    <3>1. lines \in Seq(Lines)
      BY <1>2, <2>14 DEF Edit, IsLine, TypeOK
    <3>2. PICK ls \in Edited :
            /\ lines' = ls
            /\ honest' = honest \/ (honest' = RecordsOf(Whole(ls)) /\ \A i \in DOMAIN Whole(ls) : IsLine(Whole(ls)[i]))
      BY <2>14 DEF Edit, Reads
    <3>3. ls \in Seq(Texts) /\ Whole(ls) \in Seq(Texts)
      BY <3>1, EditedLines, WholePart
    <3>4. honest' \in Seq(Records)
      <4>1. CASE honest' = honest
        BY <4>1, <1>2 DEF TypeOK
      <4>2. CASE honest' = RecordsOf(Whole(ls)) /\ \A i \in DOMAIN Whole(ls) : IsLine(Whole(ls)[i])
        <5>1. \A i \in 1..Len(Whole(ls)) : Whole(ls)[i].rec \in Records
          BY <3>3, <4>2, LineIsLine DEF IsLine, Texts
        <5> QED
          BY <3>3, <4>2, <5>1 DEF RecordsOf
      <4> QED
        BY <3>2, <4>1, <4>2
    <3> QED
      BY <1>2, <2>14, <3>2, <3>3, <3>4 DEF Edit, TypeOK, Texts, process
  <2>15. CASE UNCHANGED vars
    BY <1>2, <2>15 DEF vars, TypeOK
  <2> QED
    BY <1>2, <2>1, <2>3, <2>4, <2>5, <2>6, <2>7, <2>8, <2>9, <2>10, <2>11, <2>12, <2>13, <2>14, <2>15
    DEF Next, Appending
<1> QED
  BY <1>1, <1>2, PTL DEF Spec
-----------------------------------------------------------------------------
(* The lock: one process writes, and what is torn while it does is its own. *)

Locked ==
  /\ \A w \in Writers : (w \in lock) <=> (pc[w] \in {"locked", "writing"})
  /\ \A v, w \in lock : v = w

InHand == \A w \in Writers :
  pc[w] = "writing" /\ IsLine(torn) => written[w] < Len(batch[w]) /\ torn = NextLine(w)

Held == TypeOK /\ Locked /\ InHand

LEMMA HeldStep ==
  ASSUME TypeOK, TypeOK', Locked, InHand, [Next]_vars
  PROVE  Locked' /\ InHand'
<1>1. ASSUME NEW w \in Writers, Load(w) PROVE Locked' /\ InHand'
  BY <1>1 DEF Load, TypeOK, Locked, InHand, NextLine, NextRecord, file, bounds
<1>2. ASSUME NEW w \in Writers, NEW recs, Remember(w, recs) PROVE Locked' /\ InHand'
  BY <1>2 DEF Remember, TypeOK, Locked, InHand, NextLine, NextRecord, file
<1>3. ASSUME NEW w \in Writers, Lock(w) PROVE Locked' /\ InHand'
  <2>1. Locked'
    BY <1>3 DEF Lock, Free, TypeOK, Locked
  <2>2. InHand'
    BY <1>3 DEF Lock, TypeOK, InHand, NextLine, NextRecord, file
  <2> QED
    BY <2>1, <2>2
<1>4. ASSUME NEW w \in Writers, Repair(w) PROVE Locked' /\ InHand'
  BY <1>4 DEF Repair, TypeOK, Locked, InHand, IsLine
<1>5. ASSUME NEW w \in Writers, Refuse(w) PROVE Locked' /\ InHand'
  BY <1>5 DEF Refuse, TypeOK, Locked, InHand, IsLine
<1>6. ASSUME NEW w \in Writers, WriteFragment(w) PROVE Locked' /\ InHand'
  BY <1>6 DEF WriteFragment, TypeOK, Locked, InHand, IsLine, process
<1>7. ASSUME NEW w \in Writers, WriteRest(w) PROVE Locked' /\ InHand'
  <2>1. Locked' /\ \A v \in Writers : pc'[v] = "writing" => v = w
    BY <1>7 DEF WriteRest, Writing, TypeOK, Locked, process
  <2>2. written'[w] < Len(batch'[w]) /\ torn' = NextLine(w)'
    BY <1>7 DEF WriteRest, Writing, NextLine, NextRecord, process
  <2> QED
    BY <2>1, <2>2 DEF InHand
<1>8. ASSUME NEW w \in Writers, WriteNewline(w) PROVE Locked' /\ InHand'
  BY <1>8 DEF WriteNewline, TypeOK, Locked, InHand, IsLine
<1>9. ASSUME NEW w \in Writers, Unlock(w) PROVE Locked' /\ InHand'
  <2>1. Locked'
    BY <1>9 DEF Unlock, TypeOK, Locked
  <2>2. InHand'
    BY <1>9 DEF Unlock, TypeOK, InHand, NextLine, NextRecord, file
  <2> QED
    BY <2>1, <2>2
<1>10. ASSUME NEW w \in Writers, Crash(w) PROVE Locked' /\ InHand'
  <2>1. Locked'
    BY <1>10 DEF Crash, TypeOK, Locked
  <2>2. InHand'
    BY <1>10 DEF Crash, TypeOK, InHand, NextLine, NextRecord, file
  <2> QED
    BY <2>1, <2>2
<1>11. ASSUME NEW k \in EvidenceKeys, SignUnsigned(k) PROVE Locked' /\ InHand'
  BY <1>11 DEF SignUnsigned, Locked, InHand, IsLine, process
<1>12. ASSUME Edit PROVE Locked' /\ InHand'
  BY <1>12 DEF Edit, Locked, InHand, NextLine, NextRecord, process
<1>13. CASE UNCHANGED vars
  BY <1>13 DEF vars, Locked, InHand, NextLine, NextRecord
<1> QED
  BY <1>1, <1>2, <1>3, <1>4, <1>5, <1>6, <1>7, <1>8, <1>9, <1>10, <1>11, <1>12, <1>13
  DEF Next, Appending, Extend, RecordOnce

\* flock: whoever is past it is alone, and what is torn in the file is the line it is writing.
THEOREM LockIsHeld == Spec => []Held
<1>1. Init => Locked /\ InHand
  BY DEF Init, Locked, InHand
<1>2. TypeOK /\ TypeOK' /\ Locked /\ InHand /\ [Next]_vars => Locked' /\ InHand'
  BY HeldStep
<1> QED
  BY <1>1, <1>2, TypeCorrect, PTL DEF Spec, Held

-----------------------------------------------------------------------------
(* The chain: a line that is appended continues the one the file ends in. *)

Plain(ls, i) == ls[i].prev = NoMac /\ ls[i].mac = NoMac

Links(ls, i) ==
  /\ ls[i].mac \in Macs
  /\ \E k \in EvidenceKeys : Follows(ls, k, i)
  /\ Len(ls[i].mac) = i
  /\ \A n \in 1..i : ls[i].mac[n][2] = ls[n].rec

Grown(ls) ==
  \/ \A i \in DOMAIN ls : Plain(ls, i)
  \/ \A i \in DOMAIN ls : Links(ls, i)

EndOf(ls) == IF ls = <<>> THEN Genesis ELSE Last(ls).mac

SoundFile ==
  edits = 0 => lines \in Seq(Lines) /\ Grown(Entries) /\ honest = RecordsOf(lines)

SoundTails ==
  edits = 0 => \A w \in Writers : pc[w] = "writing" =>
    /\ tail[w] = EndOf(lines) \/ (lines = <<>> /\ tail[w] = NoMac)
    /\ tail[w] # NoMac => key[w] \in EvidenceKeys

\* Without an edit only the tail of the file can be cut off.
LEMMA EntriesAre ==
  ASSUME lines \in Seq(Lines), torn \in Lines \cup {Nothing, Fragment}
  PROVE  /\ Entries = IF IsLine(torn) THEN Append(lines, torn) ELSE lines
         /\ Entries \in Seq(Lines) /\ ~Garbled
<1>1. CASE torn = Nothing
  <2>1. Content = lines
    BY <1>1 DEF Content
  <2>2. Entries = lines
    BY <2>1, WholePart, LinesAreTexts DEF Entries
  <2> QED
    BY <1>1, <2>2, LineIsLine DEF IsLine, Garbled
<1>2. CASE torn = Fragment
  <2>1. Content = Append(lines, Fragment)
    BY <1>2, LinesAssumption DEF Content
  <2>2. Content # <<>> /\ Last(Content) = Fragment /\ Front(Content) = lines
    BY <2>1 DEF Last, Front
  <2>3. Entries = lines
    BY <2>2 DEF Entries, Whole
  <2> QED
    BY <1>2, <2>3, LineIsLine DEF IsLine, Garbled
<1>3. CASE torn \in Lines
  <2>1. torn # Nothing /\ torn # Fragment
    BY <1>3, LinesAssumption
  <2>2. Content = Append(lines, torn) /\ Content \in Seq(Lines)
    BY <1>3, <2>1 DEF Content
  <2>3. Entries = Append(lines, torn)
    BY <2>2, WholePart, LinesAreTexts DEF Entries
  <2> QED
    BY <2>1, <2>2, <2>3, LineIsLine DEF IsLine, Garbled
<1> QED
  BY <1>1, <1>2, <1>3

\* Nothing, or a fragment, behind the lines is not read.
LEMMA EntriesCut ==
  ASSUME lines \in Seq(Lines), lines' = lines, torn' \in {Nothing, Fragment}
  PROVE  Entries' = lines
<1>1. ASSUME torn' = Nothing PROVE Entries' = lines
  BY <1>1, WholePart, LinesAreTexts DEF Entries, Content
<1>2. ASSUME torn' = Fragment PROVE Entries' = lines
  <2>1. Content' = Append(lines, Fragment)
    BY <1>2, LinesAssumption DEF Content
  <2>2. Content' # <<>> /\ Last(Content') = Fragment /\ Front(Content') = lines
    BY <2>1 DEF Last, Front
  <2> QED
    BY <2>2 DEF Entries, Whole
<1> QED
  BY <1>1, <1>2

LEMMA GrownBefore ==
  ASSUME NEW ls \in Seq(Lines), NEW l, Grown(Append(ls, l))
  PROVE  Grown(ls)
<1> DEFINE longer == Append(ls, l)
<1>1. /\ DOMAIN ls \subseteq DOMAIN longer /\ DOMAIN ls = 1..Len(ls) /\ Len(ls) \in Nat
      /\ \A i \in DOMAIN ls : longer[i] = ls[i]
  BY Appended
<1> HIDE DEF longer
<1>2. \A i \in DOMAIN ls : Plain(longer, i) => Plain(ls, i)
  BY <1>1 DEF Plain
<1>3. ASSUME NEW i \in DOMAIN ls, Links(longer, i) PROVE Links(ls, i)
  <2>1. longer[i] = ls[i] /\ \A n \in 1..i : longer[n] = ls[n]
    BY <1>1
  <2>2. i # 1 => longer[i - 1] = ls[i - 1]
    BY <1>1
  <2>3. \A k \in EvidenceKeys : Follows(longer, k, i) => Follows(ls, k, i)
    BY <2>1, <2>2 DEF Follows
  <2> QED
    BY <1>3, <2>1, <2>3 DEF Links
<1> QED
  BY <1>1, <1>2, <1>3 DEF Grown, longer

LEMMA GrownAfter ==
  ASSUME NEW ls \in Seq(Lines), Grown(ls), NEW r \in Records
  PROVE  /\ ls = <<>> \/ EndOf(ls) = NoMac => Grown(Append(ls, Unsigned(r)))
         /\ \A k \in EvidenceKeys :
              EndOf(ls) # NoMac => Grown(Append(ls, Signed(k, EndOf(ls), r)))
<1>0. ls # <<>> => Len(ls) \in DOMAIN ls /\ Last(ls) = ls[Len(ls)] /\ EndOf(ls) = ls[Len(ls)].mac
  BY DEF Last, EndOf
<1>1. ASSUME ls = <<>> \/ EndOf(ls) = NoMac PROVE Grown(Append(ls, Unsigned(r)))
  <2>1. \A i \in DOMAIN ls : Plain(ls, i)
    BY <1>0, <1>1, LinesAssumption DEF Grown, Links
  <2>2. Plain(Append(ls, Unsigned(r)), Len(ls) + 1)
    BY Appended DEF Plain, Unsigned
  <2>3. \A i \in DOMAIN Append(ls, Unsigned(r)) : Plain(Append(ls, Unsigned(r)), i)
    BY <2>1, <2>2, Appended DEF Plain
  <2> QED
    BY <2>3 DEF Grown
<1>2. ASSUME NEW k \in EvidenceKeys, EndOf(ls) # NoMac
      PROVE  Grown(Append(ls, Signed(k, EndOf(ls), r)))
  <2> DEFINE l == Signed(k, EndOf(ls), r)
             longer == Append(ls, l)
  <2>1. \A i \in DOMAIN ls : Links(ls, i)
    BY <1>0, <1>2 DEF Grown, Plain
  <2>2. EndOf(ls) \in Macs /\ Len(EndOf(ls)) = Len(ls)
        /\ \A n \in 1..Len(ls) : EndOf(ls)[n][2] = ls[n].rec
    <3>1. CASE ls = <<>>
      BY <3>1 DEF EndOf, Genesis, Macs
    <3>2. CASE ls # <<>>
      BY <3>2, <1>0, <2>1 DEF Links
    <3> QED
      BY <3>1, <3>2
  <2>3. l.prev = EndOf(ls) /\ l.mac = Append(EndOf(ls), <<k, r>>) /\ l.rec = r
    BY SignedParts DEF Mac
  <2>4. /\ l.mac \in Macs /\ Len(l.mac) = Len(ls) + 1
        /\ l.mac[Len(ls) + 1] = <<k, r>>
        /\ \A n \in 1..Len(ls) : l.mac[n] = EndOf(ls)[n]
    <3>1. EndOf(ls) \in Seq((EvidenceKeys \cup {NoKey}) \X Records)
          /\ <<k, r>> \in (EvidenceKeys \cup {NoKey}) \X Records
      BY <2>2 DEF Macs
    <3> QED
      BY <2>2, <2>3, <3>1 DEF Macs
  <2> HIDE DEF l
  <2>5. /\ DOMAIN longer = 1..Len(ls) + 1 /\ DOMAIN ls = 1..Len(ls) /\ Len(ls) \in Nat
        /\ \A i \in DOMAIN ls : longer[i] = ls[i]
        /\ longer[Len(ls) + 1] = l
    BY Appended
  <2> HIDE DEF longer
  <2>6. ASSUME NEW i \in DOMAIN ls PROVE Links(longer, i)
    <3>1. longer[i] = ls[i] /\ (\A n \in 1..i : longer[n] = ls[n]) /\ Links(ls, i)
      BY <2>1, <2>5
    <3>2. i # 1 => longer[i - 1] = ls[i - 1]
      BY <2>5
    <3>3. \A kk \in EvidenceKeys : Follows(ls, kk, i) => Follows(longer, kk, i)
      BY <3>1, <3>2 DEF Follows
    <3> QED
      BY <3>1, <3>3 DEF Links
  <2>7. Links(longer, Len(ls) + 1)
    <3> DEFINE m == Len(ls) + 1
    <3>1. Follows(longer, k, m)
      <4>1. longer[m].prev = IF m = 1 THEN Genesis ELSE longer[m - 1].mac
        BY <1>0, <2>3, <2>5 DEF EndOf
      <4>2. longer[m].mac = Mac(k, longer[m].prev, longer[m].rec)
        BY <2>3, <2>5 DEF Mac
      <4> QED
        BY <4>1, <4>2 DEF Follows
    <3>2. \A n \in 1..m : longer[m].mac[n][2] = longer[n].rec
      <4>1. \A n \in 1..Len(ls) : longer[m].mac[n][2] = longer[n].rec
        BY <2>2, <2>4, <2>5
      <4>2. longer[m].mac[m][2] = longer[m].rec
        BY <2>3, <2>4, <2>5
      <4> QED
        BY <2>5, <4>1, <4>2
    <3>3. longer[m].mac \in Macs /\ Len(longer[m].mac) = m
      BY <2>4, <2>5
    <3> QED
      BY <3>1, <3>2, <3>3 DEF Links
  <2>8. \A i \in DOMAIN longer : Links(longer, i)
    BY <2>5, <2>6, <2>7
  <2> QED
    BY <2>8 DEF Grown, longer, l
<1> QED
  BY <1>1, <1>2

LEMMA ChainedGrows ==
  ASSUME NEW k \in EvidenceKeys, NEW recs \in Seq(Records)
  PROVE  Grown(Chained(k, recs))
<1> DEFINE ls == Chained(k, recs)
<1>1. ASSUME NEW i \in DOMAIN recs PROVE Links(ls, i)
  <2>1. /\ ls[i].prev = MacOver(k, SubSeq(recs, 1, i - 1))
        /\ ls[i].mac = MacOver(k, SubSeq(recs, 1, i))
        /\ ls[i].mac = Mac(k, ls[i].prev, recs[i])
    BY ChainedLines
  <2>2. \A n \in DOMAIN recs : ls[n].rec = recs[n]
    BY ChainedLines DEF RecordsOf
  <2>3. /\ SubSeq(recs, 1, i) \in Seq(Records) /\ Len(SubSeq(recs, 1, i)) = i
        /\ \A n \in 1..i : SubSeq(recs, 1, i)[n] = recs[n] /\ n \in DOMAIN recs
    OBVIOUS
  <2>4. /\ ls[i].mac \in Macs /\ Len(ls[i].mac) = i
        /\ \A n \in 1..i : ls[i].mac[n] = <<k, recs[n]>>
    <3>1. /\ MacOver(k, SubSeq(recs, 1, i)) \in Macs
          /\ Len(MacOver(k, SubSeq(recs, 1, i))) = i
          /\ \A n \in 1..i : MacOver(k, SubSeq(recs, 1, i))[n] = <<k, SubSeq(recs, 1, i)[n]>>
      BY <2>3, MacsBuilt
    <3>2. \A n \in 1..i : MacOver(k, SubSeq(recs, 1, i))[n] = <<k, recs[n]>>
      BY <2>3, <3>1
    <3> QED
      BY <2>1, <3>1, <3>2
  <2>5. ls[i].prev = IF i = 1 THEN Genesis ELSE ls[i - 1].mac
    <3>1. CASE i = 1
      <4>1. SubSeq(recs, 1, i - 1) = <<>>
        BY <3>1
      <4>2. MacOver(k, <<>>) = <<>>
        BY DEF MacOver
      <4> QED
        BY <2>1, <3>1, <4>1, <4>2 DEF Genesis
    <3>2. CASE i # 1
      <4>1. i - 1 \in DOMAIN recs
        BY <3>2
      <4> QED
        BY <2>1, <3>2, <4>1, ChainedLines
    <3> QED
      BY <3>1, <3>2
  <2>6. Follows(ls, k, i)
    BY <2>1, <2>2, <2>5 DEF Follows
  <2>7. \A n \in 1..i : ls[i].mac[n][2] = ls[n].rec
    BY <2>2, <2>3, <2>4
  <2> QED
    BY <2>4, <2>6, <2>7 DEF Links
<1>2. DOMAIN ls = DOMAIN recs
  BY ChainedLines
<1> QED
  BY <1>1, <1>2 DEF Grown
\* Steps that leave the file as it is.
LEMMA FileFrame ==
  ASSUME SoundFile, UNCHANGED <<lines, torn, honest, edits>>
  PROVE  SoundFile'
<1>1. Entries' = Entries
  BY DEF Entries, Content
<1> QED
  BY <1>1 DEF SoundFile

\* Steps that take no line, put none and do not begin one, but may cut or tear the last.
LEMMA TearFrame ==
  ASSUME TypeOK, SoundFile, UNCHANGED <<lines, honest, edits>>, torn' \in {Nothing, Fragment}
  PROVE  SoundFile'
<1> SUFFICES ASSUME edits = 0 PROVE Grown(Entries')
  BY DEF SoundFile
<1>1. lines \in Seq(Lines) /\ torn \in Lines \cup {Nothing, Fragment}
  BY DEF SoundFile, TypeOK
<1>2. Entries' = lines
  BY <1>1, EntriesCut
<1>3. Grown(lines)
  <2>1. Entries = IF IsLine(torn) THEN Append(lines, torn) ELSE lines
    BY <1>1, EntriesAre
  <2> QED
    BY <1>1, <2>1, GrownBefore DEF SoundFile
<1> QED
  BY <1>2, <1>3

LEMMA SoundStep ==
  ASSUME TypeOK, TypeOK', Locked, InHand, SoundFile, SoundTails, [Next]_vars
  PROVE  SoundFile' /\ SoundTails'
<1>1. ASSUME NEW w \in Writers, Load(w) PROVE SoundFile' /\ SoundTails'
  BY <1>1, FileFrame DEF Load, TypeOK, SoundTails, EndOf, file, bounds
<1>2. ASSUME NEW w \in Writers, NEW recs, Remember(w, recs) PROVE SoundFile' /\ SoundTails'
  BY <1>2, FileFrame DEF Remember, TypeOK, SoundTails, EndOf, file
<1>3. ASSUME NEW w \in Writers, Lock(w) PROVE SoundFile' /\ SoundTails'
  BY <1>3, FileFrame DEF Lock, TypeOK, SoundTails, EndOf, file, bounds
<1>4. ASSUME NEW w \in Writers, Repair(w) PROVE SoundFile' /\ SoundTails'
  <2>1. SoundFile'
    BY <1>4, TearFrame DEF Repair, Kept, bounds
  <2>2. ASSUME edits = 0
        PROVE  /\ tail'[w] = EndOf(lines) \/ (lines = <<>> /\ tail'[w] = NoMac)
               /\ tail'[w] # NoMac => key[w] \in EvidenceKeys
    <3>1. tail'[w] = IF ~SigningMode(w) THEN NoMac ELSE IF lines = <<>> THEN Genesis ELSE LastLine.mac
      BY <1>4 DEF Repair, TypeOK
    <3>2. lines # <<>> => EndOf(lines) = LastLine.mac
      BY DEF EndOf, Last, LastLine
    <3>3. key[w] # NoKey => key[w] \in EvidenceKeys
      BY ConstantsAssumption DEF TypeOK
    <3>4. CASE lines = <<>>
      BY <3>1, <3>3, <3>4 DEF SigningMode, EndOf
    <3>5. CASE lines # <<>>
      <4>1. lines \in Seq(Lines) /\ LastLine \in Lines
        BY <2>2, <3>5 DEF SoundFile, LastLine
      <4>2. LastLine # Fragment
        BY <4>1, LineIsLine
      <4>3. SigningMode(w) => key[w] # NoKey
        BY <1>4, <3>5, <4>2 DEF Repair, Refuses, SigningMode
      <4> QED
        BY <3>1, <3>2, <3>3, <3>5, <4>3 DEF SigningMode, IsSigned
    <3> QED
      BY <3>4, <3>5
  <2>3. /\ edits' = edits /\ lines' = lines /\ key' = key
        /\ \A v \in Writers : v # w => tail'[v] = tail[v] /\ pc'[v] = pc[v]
    BY <1>4 DEF Repair, Kept, bounds, TypeOK
  <2>4. SoundTails'
    BY <2>2, <2>3 DEF SoundTails, EndOf
  <2> QED
    BY <2>1, <2>4
<1>5. ASSUME NEW w \in Writers, Refuse(w) PROVE SoundFile' /\ SoundTails'
  <2>1. SoundFile'
    BY <1>5, TearFrame DEF Refuse, bounds
  <2>2. SoundTails'
    BY <1>5 DEF Refuse, TypeOK, SoundTails, EndOf, bounds
  <2> QED
    BY <2>1, <2>2
<1>6. ASSUME NEW w \in Writers, WriteFragment(w) PROVE SoundFile' /\ SoundTails'
  <2>1. SoundFile'
    BY <1>6, TearFrame DEF WriteFragment, bounds
  <2>2. SoundTails'
    BY <1>6 DEF WriteFragment, SoundTails, EndOf, process, bounds
  <2> QED
    BY <2>1, <2>2
<1>7. ASSUME NEW w \in Writers, WriteRest(w) PROVE SoundFile' /\ SoundTails'
  <2>1. SoundTails'
    BY <1>7 DEF WriteRest, SoundTails, EndOf, process, bounds
  <2>2. ASSUME edits = 0 PROVE Grown(Entries')
    <3>1. lines \in Seq(Lines) /\ torn = Fragment /\ torn \in Lines \cup {Nothing, Fragment}
      BY <1>7, <2>2 DEF SoundFile, WriteRest, TypeOK
    <3>2. Entries = lines
      BY <3>1, EntriesAre DEF IsLine
    <3>3. NextLine(w) \in Lines /\ NextRecord(w) \in Records /\ torn' = NextLine(w) /\ lines' = lines
      BY <1>7, NextLineTyped DEF WriteRest
    <3>4. Content' = Append(lines, NextLine(w)) /\ Content' \in Seq(Lines)
      BY <3>1, <3>3, LinesAssumption DEF Content
    <3>5. Entries' = Append(lines, NextLine(w))
      BY <3>4, WholePart, LinesAreTexts DEF Entries
    <3>6. Grown(lines)
      BY <2>2, <3>2 DEF SoundFile
    <3>7. /\ tail[w] = EndOf(lines) \/ (lines = <<>> /\ tail[w] = NoMac)
          /\ tail[w] # NoMac => key[w] \in EvidenceKeys
      BY <1>7, <2>2 DEF SoundTails, WriteRest, Writing
    <3>8. Grown(Append(lines, NextLine(w)))
      BY <3>1, <3>3, <3>6, <3>7, GrownAfter DEF NextLine
    <3> QED
      BY <3>5, <3>8
  <2>3. SoundFile'
    BY <1>7, <2>2 DEF SoundFile, WriteRest, bounds
  <2> QED
    BY <2>1, <2>3
<1>8. ASSUME NEW w \in Writers, WriteNewline(w) PROVE SoundFile' /\ SoundTails'
  <2> SUFFICES ASSUME edits = 0 PROVE SoundFile' /\ SoundTails'
    BY <1>8 DEF WriteNewline, SoundFile, SoundTails, bounds
  <2>1. lines \in Seq(Lines) /\ torn \in Lines
    BY <1>8 DEF SoundFile, WriteNewline, IsLine, TypeOK
  <2>2. lines' = Append(lines, torn) /\ torn' = Nothing /\ lines' \in Seq(Lines)
    BY <1>8, <2>1 DEF WriteNewline
  <2>3. Entries = Append(lines, torn)
    BY <2>1, EntriesAre, LineIsLine
  <2>4. Entries' = lines'
    BY <2>2, WholePart, LinesAreTexts DEF Entries, Content
  <2>5. honest' = RecordsOf(lines')
    <3>1. honest' = Append(RecordsOf(lines), torn.rec)
      BY <1>8 DEF WriteNewline, SoundFile
    <3>2. RecordsOf(lines) = [i \in 1..Len(lines) |-> lines[i].rec]
      BY <2>1 DEF RecordsOf
    <3>3. RecordsOf(lines') = [i \in 1..Len(lines) + 1 |-> lines'[i].rec]
      BY <2>1, <2>2 DEF RecordsOf
    <3>4. /\ \A i \in 1..Len(lines) : lines'[i].rec = lines[i].rec
          /\ lines'[Len(lines) + 1] = torn /\ Len(lines) \in Nat
      BY <2>1, <2>2
    <3>5. RecordsOf(lines) \in Seq(Records) /\ Len(RecordsOf(lines)) = Len(lines) /\ torn.rec \in Records
      <4>1. \A i \in 1..Len(lines) : lines[i].rec \in Records
        BY <2>1, LineIsLine
      <4> QED
        BY <2>1, <3>2, <4>1, LineIsLine
    <3> QED
      BY <3>1, <3>2, <3>3, <3>4, <3>5
  <2>6. SoundFile'
    BY <2>2, <2>3, <2>4, <2>5 DEF SoundFile
  <2>7. tail'[w] = torn.mac /\ EndOf(lines') = torn.mac /\ (torn.mac # NoMac => key[w] \in EvidenceKeys)
    <3>1. tail'[w] = torn.mac
      BY <1>8 DEF WriteNewline, TypeOK
    <3>2. EndOf(lines') = torn.mac
      BY <2>1, <2>2 DEF EndOf, Last
    <3>3. torn = NextLine(w) /\ pc[w] = "writing"
      BY <1>8 DEF WriteNewline, Writing, InHand
    <3>4. torn.mac # NoMac => tail[w] # NoMac
      BY <3>3 DEF NextLine, Unsigned
    <3> QED
      BY <3>1, <3>2, <3>3, <3>4 DEF SoundTails
  <2>8. \A v \in Writers : pc'[v] = "writing" => v = w
    BY <1>8 DEF WriteNewline, Writing, Locked
  <2>9. SoundTails'
    BY <1>8, <2>7, <2>8 DEF SoundTails, EndOf, WriteNewline
  <2> QED
    BY <2>6, <2>9
<1>9. ASSUME NEW w \in Writers, Unlock(w) PROVE SoundFile' /\ SoundTails'
  BY <1>9, FileFrame DEF Unlock, TypeOK, SoundTails, EndOf, file, bounds
<1>10. ASSUME NEW w \in Writers, Crash(w) PROVE SoundFile' /\ SoundTails'
  BY <1>10, FileFrame DEF Crash, TypeOK, SoundTails, EndOf, file
<1>11. ASSUME NEW k \in EvidenceKeys, SignUnsigned(k) PROVE SoundFile' /\ SoundTails'
  <2>1. ~Garbled
    BY <1>11 DEF SignUnsigned, Integrity
  <2>2. Readable \in Seq(Records)
    BY <2>1, EntriesTyped
  <2>3. lines' = Chained(k, Readable) /\ torn' = Nothing /\ honest' = Readable
    BY <1>11 DEF SignUnsigned
  <2>4. lines' \in Seq(Lines) /\ RecordsOf(lines') = Readable /\ Grown(lines')
    BY <2>2, <2>3, ChainedLines, ChainedGrows
  <2>5. Entries' = lines'
    BY <2>3, <2>4, WholePart, LinesAreTexts DEF Entries, Content
  <2>6. SoundFile'
    BY <2>3, <2>4, <2>5 DEF SoundFile
  <2>7. SoundTails'
    BY <1>11 DEF SignUnsigned, SoundTails, process
  <2> QED
    BY <2>6, <2>7
<1>12. ASSUME Edit PROVE SoundFile' /\ SoundTails'
  <2>1. edits' # 0
    BY <1>12 DEF Edit, TypeOK
  <2> QED
    BY <2>1 DEF SoundFile, SoundTails
<1>13. CASE UNCHANGED vars
  BY <1>13, FileFrame DEF vars, SoundTails, EndOf
<1> QED
  BY <1>1, <1>2, <1>3, <1>4, <1>5, <1>6, <1>7, <1>8, <1>9, <1>10, <1>11, <1>12, <1>13
  DEF Next, Appending, Extend, RecordOnce

LEMMA ChainIsSound == Spec => [](Held /\ SoundFile /\ SoundTails)
<1>1. Init => SoundFile /\ SoundTails
  <2>1. Init => lines = <<>> /\ torn = Nothing /\ honest = <<>> /\ \A w \in Writers : pc[w] # "writing"
    BY DEF Init
  <2>2. ASSUME Init PROVE Entries = <<>>
    BY <2>1, <2>2 DEF Entries, Content, Whole
  <2> QED
    BY <2>1, <2>2 DEF SoundFile, SoundTails, Grown, RecordsOf
<1>2. Held /\ Held' /\ SoundFile /\ SoundTails /\ [Next]_vars => SoundFile' /\ SoundTails'
  BY SoundStep DEF Held
<1> QED
  BY <1>1, <1>2, LockIsHeld, PTL DEF Spec

\* One evidence key signs the file (a second key's lines read as edits): then no writer, crash or
\* signing ever makes a file that read() calls broken.
THEOREM WritersKeepTheChain ==
  ASSUME \A k, l \in EvidenceKeys : k = l
  PROVE  Spec => []ChainVerifies
<1>1. ASSUME Held, SoundFile PROVE ChainVerifies
  <2> SUFFICES ASSUME edits = 0, NEW k \in EvidenceKeys \cup {NoKey} PROVE Integrity(k) # "broken"
    BY DEF ChainVerifies
  <2>1. lines \in Seq(Lines) /\ torn \in Lines \cup {Nothing, Fragment}
    BY <1>1 DEF SoundFile, Held, TypeOK
  <2>2. ~Garbled
    BY <2>1, EntriesAre
  <2>3. CASE \A i \in DOMAIN Entries : Plain(Entries, i)
    <3>1. {i \in DOMAIN Entries : IsSigned(Entries[i])} = {}
      BY <2>3 DEF Plain, IsSigned
    <3> QED
      BY <2>2, <3>1 DEF Integrity
  <2>4. CASE \A i \in DOMAIN Entries : Links(Entries, i)
    <3>1. {i \in DOMAIN Entries : IsSigned(Entries[i])} = DOMAIN Entries
      BY <2>4, LinesAssumption DEF Links, IsSigned
    <3>2. k # NoKey => \A i \in DOMAIN Entries : Follows(Entries, k, i)
      BY <1>1, <2>4 DEF Links
    <3> QED
      BY <2>2, <3>1, <3>2 DEF Integrity
  <2> QED
    BY <1>1, <2>3, <2>4 DEF SoundFile, Grown
<1> QED
  BY <1>1, ChainIsSound, PTL
-----------------------------------------------------------------------------
(* What is acknowledged stays. *)

LEMMA RecordsAre ==
  ASSUME NEW ls \in Seq(Lines)
  PROVE  /\ RecordsIn(ls) = {ls[i].rec : i \in DOMAIN ls}
         /\ \A l \in Lines : RecordsIn(Append(ls, l)) = RecordsIn(ls) \cup {l.rec}
<1>1. ASSUME NEW s \in Seq(Lines) PROVE RecordsIn(s) = {s[i].rec : i \in DOMAIN s}
  <2>0. \A j \in DOMAIN s : s[j] \in Lines
    OBVIOUS
  <2>1. {j \in DOMAIN s : IsLine(s[j])} = DOMAIN s
    BY <2>0, LineIsLine
  <2> QED
    BY <2>1 DEF RecordsIn
<1>2. ASSUME NEW l \in Lines PROVE RecordsIn(Append(ls, l)) = RecordsIn(ls) \cup {l.rec}
  <2> DEFINE longer == Append(ls, l)
  <2>1. /\ longer \in Seq(Lines) /\ DOMAIN longer = DOMAIN ls \cup {Len(ls) + 1}
        /\ \A i \in DOMAIN ls : longer[i] = ls[i]
        /\ longer[Len(ls) + 1] = l
    OBVIOUS
  <2> HIDE DEF longer
  <2>2. RecordsIn(longer) = {longer[i].rec : i \in DOMAIN longer} /\ RecordsIn(ls) = {ls[i].rec : i \in DOMAIN ls}
    BY <1>1, <2>1
  <2>3. {longer[i].rec : i \in DOMAIN longer} = {ls[i].rec : i \in DOMAIN ls} \cup {l.rec}
    BY <2>1
  <2> QED
    BY <2>2, <2>3 DEF longer
<1> QED
  BY <1>1, <1>2

\* Signing keeps every record that can be read.
LEMMA SigningKeeps ==
  ASSUME TypeOK, SoundFile, edits = 0, NEW k \in EvidenceKeys, SignUnsigned(k)
  PROVE  /\ lines' \in Seq(Lines) /\ Entries' = lines'
         /\ DOMAIN lines' = DOMAIN Entries
         /\ \A i \in DOMAIN Entries : lines'[i].rec = Entries[i].rec
         /\ RecordsIn(lines') = RecordsIn(Entries)
<1>1. lines \in Seq(Lines) /\ torn \in Lines \cup {Nothing, Fragment}
  BY DEF SoundFile, TypeOK
<1>2. Entries \in Seq(Lines) /\ ~Garbled
  BY <1>1, EntriesAre
<1>3. Readable \in Seq(Records) /\ lines' = Chained(k, Readable) /\ torn' = Nothing
  BY <1>2, EntriesTyped DEF SignUnsigned
<1>4. lines' \in Seq(Lines) /\ Len(lines') = Len(Readable) /\ RecordsOf(lines') = Readable
  BY <1>3, ChainedLines
<1>5. Entries' = lines'
  BY <1>3, <1>4, WholePart, LinesAreTexts DEF Entries, Content
<1>6. DOMAIN lines' = DOMAIN Entries /\ \A i \in DOMAIN Entries : lines'[i].rec = Entries[i].rec
  <2>1. DOMAIN RecordsOf(lines') = DOMAIN lines' /\ DOMAIN Readable = DOMAIN Entries
    BY DEF RecordsOf, Readable
  <2>2. \A i \in DOMAIN Entries : RecordsOf(lines')[i] = lines'[i].rec /\ Readable[i] = Entries[i].rec
    BY <1>4, <2>1 DEF RecordsOf, Readable
  <2> QED
    BY <1>4, <2>1, <2>2
<1>7. RecordsIn(lines') = RecordsIn(Entries)
  <2>1. RecordsIn(lines') = {lines'[i].rec : i \in DOMAIN lines'}
    BY <1>4, RecordsAre
  <2>2. RecordsIn(Entries) = {Entries[i].rec : i \in DOMAIN Entries}
    BY <1>2, RecordsAre
  <2> QED
    BY <1>6, <2>1, <2>2
<1> QED
  BY <1>4, <1>5, <1>6, <1>7

LEMMA EntriesKeep ==
  ASSUME lines \in Seq(Lines), torn \in Lines \cup {Nothing, Fragment}
  PROVE  RecordsIn(lines) \subseteq RecordsIn(Entries)
BY EntriesAre, RecordsAre, LineIsLine DEF IsLine

\* A line that its writer ends with a newline.
LEMMA LineEnds ==
  ASSUME Held, SoundFile, edits = 0, NEW w \in Writers, WriteNewline(w)
  PROVE  /\ torn \in Lines /\ torn.rec = NextRecord(w) /\ lines' \in Seq(Lines)
         /\ Entries' = Entries /\ Entries = lines'
         /\ RecordsIn(lines') = RecordsIn(lines) \cup {NextRecord(w)}
<1>1. lines \in Seq(Lines) /\ torn \in Lines
  BY DEF SoundFile, WriteNewline, IsLine, Held, TypeOK
<1>2. torn.rec = NextRecord(w)
  BY NextLineTyped DEF WriteNewline, Writing, Held, InHand
<1>3. lines' = Append(lines, torn) /\ torn' = Nothing /\ lines' \in Seq(Lines)
  BY <1>1 DEF WriteNewline
<1>4. Entries = Append(lines, torn)
  BY <1>1, EntriesAre, LineIsLine
<1>5. Entries' = lines'
  BY <1>3, WholePart, LinesAreTexts DEF Entries, Content
<1> QED
  BY <1>1, <1>2, <1>3, <1>4, <1>5, RecordsAre

Stays ==
  edits = 0 =>
    /\ acked \subseteq RecordsIn(lines)
    /\ \A w \in Writers : \A n \in 1..written[w] : batch[w][n] \in RecordsIn(lines)

LEMMA StaysFrame ==
  ASSUME Stays, RecordsIn(lines) \subseteq RecordsIn(lines)', UNCHANGED <<acked, written, batch, edits>>
  PROVE  Stays'
BY DEF Stays

LEMMA StaysStep ==
  ASSUME Held, SoundFile, Stays, [Next]_vars
  PROVE  Stays'
<1> USE DEF Held
<1>0. UNCHANGED lines => RecordsIn(lines)' = RecordsIn(lines)
  BY DEF RecordsIn
<1>1. ASSUME NEW w \in Writers, Load(w) PROVE Stays'
  BY <1>0, <1>1, StaysFrame DEF Load, file, bounds
<1>2. ASSUME NEW w \in Writers, NEW recs, Remember(w, recs) PROVE Stays'
  <2>1. written'[w] = 0 /\ \A v \in Writers : v # w => written'[v] = written[v] /\ batch'[v] = batch[v]
    BY <1>2 DEF Remember, TypeOK
  <2> QED
    BY <1>0, <1>2, <2>1 DEF Stays, Remember, file
<1>3. ASSUME NEW w \in Writers, Lock(w) PROVE Stays'
  BY <1>0, <1>3, StaysFrame DEF Lock, file, bounds
<1>4. ASSUME NEW w \in Writers, Repair(w) PROVE Stays'
  BY <1>0, <1>4, StaysFrame DEF Repair, Kept, bounds
<1>5. ASSUME NEW w \in Writers, Refuse(w) PROVE Stays'
  BY <1>0, <1>5, StaysFrame DEF Refuse, bounds
<1>6. ASSUME NEW w \in Writers, WriteFragment(w) \/ WriteRest(w) PROVE Stays'
  BY <1>0, <1>6, StaysFrame DEF WriteFragment, WriteRest, process, bounds
<1>7. ASSUME NEW w \in Writers, WriteNewline(w) PROVE Stays'
  <2> SUFFICES ASSUME edits = 0 PROVE Stays'
    BY <1>7 DEF WriteNewline, Stays, bounds
  <2>1. RecordsIn(lines)' = RecordsIn(lines) \cup {NextRecord(w)}
    BY <1>7, LineEnds
  <2>2. /\ acked' = acked /\ batch' = batch /\ edits' = edits
        /\ \A v \in Writers : v # w => written'[v] = written[v]
        /\ written'[w] = written[w] + 1 /\ written[w] \in Nat
    BY <1>7 DEF WriteNewline, TypeOK, bounds
  <2>3. \A n \in 1..written'[w] : n \in 1..written[w] \/ n = written[w] + 1
    BY <2>2
  <2>4. \A n \in 1..written'[w] : batch[w][n] \in RecordsIn(lines)'
    BY <2>1, <2>3 DEF Stays, NextRecord
  <2> QED
    BY <2>1, <2>2, <2>4 DEF Stays
<1>8. ASSUME NEW w \in Writers, Unlock(w) PROVE Stays'
  <2>1. edits = 0 => ToSet(batch[w]) \subseteq RecordsIn(lines)
    BY <1>8 DEF Unlock, Stays, ToSet, TypeOK
  <2> QED
    BY <1>0, <1>8, <2>1 DEF Unlock, Stays, file, bounds
<1>9. ASSUME NEW w \in Writers, Crash(w) PROVE Stays'
  BY <1>0, <1>9, StaysFrame DEF Crash, file
<1>10. ASSUME NEW k \in EvidenceKeys, SignUnsigned(k) PROVE Stays'
  <2>1. edits = 0 => RecordsIn(lines) \subseteq RecordsIn(lines)'
    BY <1>10, SigningKeeps, EntriesKeep DEF SoundFile, TypeOK
  <2> QED
    BY <1>10, <2>1 DEF SignUnsigned, Stays, process, bounds
<1>11. ASSUME Edit PROVE Stays'
  BY <1>11 DEF Edit, Stays, TypeOK
<1>12. CASE UNCHANGED vars
  BY <1>0, <1>12, StaysFrame DEF vars
<1> QED
  BY <1>1, <1>2, <1>3, <1>4, <1>5, <1>6, <1>7, <1>8, <1>9, <1>10, <1>11, <1>12
  DEF Next, Appending, Extend, RecordOnce

\* A record whose append returned is in the file ever after, whatever crashes, is repaired or signed.
THEOREM AcknowledgedStays == Spec => []AcknowledgedIsDurable
<1>1. Init => Stays
  BY DEF Init, Stays
<1>2. Held /\ SoundFile /\ Stays /\ [Next]_vars => Stays'
  BY StaysStep
<1>3. Stays => AcknowledgedIsDurable
  BY DEF Stays, AcknowledgedIsDurable
<1> QED
  BY <1>1, <1>2, <1>3, ChainIsSound, PTL DEF Spec

-----------------------------------------------------------------------------
(* One line per firing: what a process has not recorded it finds nowhere. *)

Firings == UNION Range(FiringsOf)

Once == \A i, j \in DOMAIN Entries :
  Entries[i].rec = Entries[j].rec /\ Entries[i].rec \in Firings => i = j

Remembered == \A w \in Writers :
  pc[w] # "down" => RecordsIn(Entries) \cap FiringsOf[w] \subseteq store[w]

Pending == \A w \in Writers :
  pc[w] \in {"opened", "locked", "writing"} =>
    \A n \in written[w] + 1..Len(batch[w]) :
      batch[w][n] \in Firings =>
        /\ Len(batch[w]) = 1
        /\ batch[w][n] \in FiringsOf[w] \cap store[w]
        /\ batch[w][n] \notin RecordsIn(lines)

OneLine == edits = 0 => Once /\ Remembered /\ Pending

\* A firing is recorded by one process, and no collector run holds one.
FiringsApart ==
  /\ \A v, w \in Writers : v # w => FiringsOf[v] \cap FiringsOf[w] = {}
  /\ \A recs \in Batches : \A n \in DOMAIN recs : recs[n] \notin Firings

\* What holds of the lines the file reads holds of what a cut leaves of them.
LEMMA OnceCut ==
  ASSUME TypeOK, lines \in Seq(Lines), Once, Remembered, Entries' = lines,
         \A w \in Writers : pc'[w] # "down" => pc[w] # "down" /\ store'[w] = store[w]
  PROVE  Once' /\ Remembered'
<1>1. torn \in Lines \cup {Nothing, Fragment}
  BY DEF TypeOK
<1>2. Entries = lines \/ (\E l \in Lines : Entries = Append(lines, l))
  BY <1>1, EntriesAre, LineIsLine DEF IsLine
<1>3. DOMAIN lines \subseteq DOMAIN Entries /\ \A i \in DOMAIN lines : Entries[i] = lines[i]
  BY <1>2
<1>4. RecordsIn(lines) \subseteq RecordsIn(Entries)
  BY <1>1, EntriesKeep
<1>5. Once'
  BY <1>3 DEF Once
<1>6. RecordsIn(Entries)' = RecordsIn(lines)
  BY DEF RecordsIn
<1>7. Remembered'
  BY <1>4, <1>6 DEF Remembered
<1> QED
  BY <1>5, <1>7

LEMMA OneLineStep ==
  ASSUME FiringsApart, Held, Held', SoundFile, OneLine, edits = 0, edits' = 0, [Next]_vars
  PROVE  Once' /\ Remembered' /\ Pending'
<1> USE DEF Held
<1>0. /\ lines \in Seq(Lines) /\ torn \in Lines \cup {Nothing, Fragment}
      /\ Once /\ Remembered /\ Pending
  BY DEF SoundFile, OneLine, TypeOK
<1>01. UNCHANGED lines => RecordsIn(lines)' = RecordsIn(lines)
  BY DEF RecordsIn
<1>02. UNCHANGED file => Entries' = Entries /\ RecordsIn(Entries)' = RecordsIn(Entries) /\ (Once => Once')
  BY DEF file, Entries, Content, RecordsIn, Once
<1>03. RecordsIn(lines) \subseteq RecordsIn(Entries)
  BY <1>0, EntriesKeep
<1>04. \A w \in Writers : FiringsOf[w] \subseteq Firings
  BY ConstantsAssumption DEF Firings, Range
<1>1. ASSUME NEW w \in Writers, Load(w) PROVE Once' /\ Remembered' /\ Pending'
  <2>1. Pending'
    BY <1>0, <1>01, <1>1 DEF Load, Pending, TypeOK, file
  <2>2. Remembered'
    BY <1>0, <1>02, <1>1 DEF Load, Remembered, Replayed, TypeOK
  <2> QED
    BY <1>0, <1>02, <1>1, <2>1, <2>2 DEF Load
<1>2. ASSUME NEW w \in Writers, NEW recs, Remember(w, recs) PROVE Once' /\ Remembered'
  <2>1. \A v \in Writers : store[v] \subseteq store'[v] /\ (pc'[v] # "down" => pc[v] # "down")
    BY <1>2 DEF Remember, TypeOK
  <2> QED
    BY <1>0, <1>02, <1>2, <2>1 DEF Remember, Remembered
<1>3. ASSUME NEW w \in Writers, NEW recs, Remember(w, recs),
             \A n \in 1..Len(recs) : recs[n] \in Firings =>
               /\ Len(recs) = 1 /\ recs[n] \in FiringsOf[w] /\ recs[n] \notin RecordsIn(lines)
      PROVE  Pending'
  <2>1. /\ batch'[w] = recs /\ written'[w] = 0 /\ ToSet(recs) \subseteq store'[w]
        /\ \A v \in Writers : v # w => batch'[v] = batch[v] /\ written'[v] = written[v]
                                       /\ pc'[v] = pc[v] /\ store'[v] = store[v]
    BY <1>3 DEF Remember, TypeOK
  <2>2. \A n \in 1..Len(recs) : recs[n] \in Firings => recs[n] \in FiringsOf[w] \cap store'[w]
    <3>1. recs \in Seq(Records)
      BY <2>1 DEF TypeOK
    <3> QED
      BY <1>3, <2>1, <3>1 DEF ToSet
  <2>3. RecordsIn(lines)' = RecordsIn(lines)
    BY <1>01, <1>3 DEF Remember, file
  <2> QED
    BY <1>0, <1>3, <2>1, <2>2, <2>3 DEF Pending
<1>4. ASSUME NEW w \in Writers, NEW recs \in Batches, Extend(w, recs)
      PROVE  Once' /\ Remembered' /\ Pending'
  <2>1. \A n \in 1..Len(recs) : recs[n] \notin Firings
    BY ConstantsAssumption DEF FiringsApart
  <2> QED
    BY <1>2, <1>3, <1>4, <2>1 DEF Extend
<1>5. ASSUME NEW w \in Writers, NEW r \in FiringsOf[w], RecordOnce(w, r)
      PROVE  Once' /\ Remembered' /\ Pending'
  <2>1. r \notin RecordsIn(lines)
    BY <1>0, <1>03, <1>5 DEF RecordOnce, Remember, Remembered
  <2>2. Len(<<r>>) = 1 /\ \A n \in 1..Len(<<r>>) : <<r>>[n] = r
    OBVIOUS
  <2> QED
    BY <1>2, <1>3, <1>5, <2>1, <2>2 DEF RecordOnce
<1>6. ASSUME NEW w \in Writers, Lock(w) PROVE Once' /\ Remembered' /\ Pending'
  BY <1>0, <1>01, <1>02, <1>6 DEF Lock, Remembered, Pending, TypeOK, file
<1>7. ASSUME NEW w \in Writers, Repair(w) PROVE Once' /\ Remembered' /\ Pending'
  <2>1. Entries' = lines /\ lines' = lines
    BY <1>0, <1>7, EntriesCut DEF Repair, Kept
  <2>2. Once' /\ Remembered'
    <3>1. \A v \in Writers : pc'[v] # "down" => pc[v] # "down" /\ store'[v] = store[v]
      BY <1>7 DEF Repair, TypeOK
    <3> QED
      BY <1>0, <2>1, <3>1, OnceCut
  <2>3. Pending'
    BY <1>0, <1>01, <1>7, <2>1 DEF Repair, Pending, TypeOK
  <2> QED
    BY <2>2, <2>3
<1>8. ASSUME NEW w \in Writers, Refuse(w) PROVE Once' /\ Remembered' /\ Pending'
  <2>1. Entries' = lines /\ lines' = lines
    BY <1>0, <1>8, EntriesCut DEF Refuse
  <2>2. Once' /\ Remembered'
    <3>1. \A v \in Writers : pc'[v] # "down" => pc[v] # "down" /\ store'[v] = store[v]
      BY <1>8 DEF Refuse, TypeOK
    <3> QED
      BY <1>0, <2>1, <3>1, OnceCut
  <2>3. Pending'
    BY <1>0, <1>01, <1>8, <2>1 DEF Refuse, Pending, TypeOK
  <2> QED
    BY <2>2, <2>3
<1>9. ASSUME NEW w \in Writers, WriteFragment(w) PROVE Once' /\ Remembered' /\ Pending'
  <2>1. Entries' = lines /\ lines' = lines
    BY <1>0, <1>9, EntriesCut DEF WriteFragment
  <2>2. Once' /\ Remembered'
    <3>1. \A v \in Writers : pc'[v] # "down" => pc[v] # "down" /\ store'[v] = store[v]
      BY <1>9 DEF WriteFragment, TypeOK, process
    <3> QED
      BY <1>0, <2>1, <3>1, OnceCut
  <2>3. Pending'
    BY <1>0, <1>01, <1>9, <2>1 DEF WriteFragment, Pending, process
  <2> QED
    BY <2>2, <2>3
<1>10. ASSUME NEW w \in Writers, WriteRest(w) PROVE Once' /\ Remembered' /\ Pending'
  <2> DEFINE r == NextRecord(w)
             l == NextLine(w)
  <2>1. l \in Lines /\ l.rec = r /\ torn = Fragment /\ torn' = l /\ lines' = lines
    BY <1>10, NextLineTyped DEF WriteRest
  <2>2. Entries = lines
    BY <1>0, <2>1, EntriesAre DEF IsLine
  <2>3. Entries' = Append(lines, l)
    <3>1. Content' = Append(lines, l) /\ Content' \in Seq(Lines)
      BY <1>0, <2>1, LinesAssumption DEF Content
    <3> QED
      BY <3>1, WholePart, LinesAreTexts DEF Entries
  <2>4. r \in Firings => r \in FiringsOf[w] \cap store[w] /\ r \notin RecordsIn(lines)
    <3>1. written[w] + 1 \in written[w] + 1..Len(batch[w]) /\ pc[w] = "writing"
      BY <1>10 DEF WriteRest, Writing, TypeOK
    <3> QED
      BY <1>0, <3>1 DEF Pending, NextRecord
  <2>5. RecordsIn(Entries)' = RecordsIn(lines) \cup {r} /\ RecordsIn(lines) = {lines[i].rec : i \in DOMAIN lines}
    <3>1. RecordsIn(Append(lines, l)) = RecordsIn(lines) \cup {r}
      BY <1>0, <2>1, RecordsAre
    <3>2. RecordsIn(Entries)' = RecordsIn(Append(lines, l))
      BY <2>3 DEF RecordsIn
    <3> QED
      BY <1>0, <3>1, <3>2, RecordsAre
  <2> HIDE DEF r, l
  <2>6. Once'
    <3>1. /\ DOMAIN Entries' = 1..Len(lines) + 1 /\ DOMAIN lines = 1..Len(lines)
          /\ \A i \in DOMAIN lines : Entries'[i] = lines[i]
          /\ Entries'[Len(lines) + 1] = l
      BY <1>0, <2>1, <2>3, Appended
    <3>2. \A i \in DOMAIN lines : lines[i].rec = r => r \notin Firings
      BY <2>4, <2>5
    <3>3. \A i \in DOMAIN Entries' : i \in DOMAIN lines \/ i = Len(lines) + 1
      BY <3>1
    <3> QED
      BY <1>0, <2>1, <2>2, <3>1, <3>2, <3>3 DEF Once
  <2>7. Remembered'
    <3>1. \A v \in Writers : r \in FiringsOf[v] => v = w /\ r \in store[w]
      BY <1>04, <2>4 DEF FiringsApart
    <3> QED
      BY <1>0, <1>10, <2>2, <2>5, <3>1 DEF Remembered, WriteRest, process
  <2>8. Pending'
    BY <1>0, <1>01, <1>10, <2>1 DEF WriteRest, Pending, process
  <2> QED
    BY <2>6, <2>7, <2>8
<1>11. ASSUME NEW w \in Writers, WriteNewline(w) PROVE Once' /\ Remembered' /\ Pending'
  <2>1. /\ RecordsIn(lines)' = RecordsIn(lines) \cup {NextRecord(w)}
        /\ Entries' = Entries
    BY <1>11, LineEnds
  <2>2. RecordsIn(Entries)' = RecordsIn(Entries)
    BY <2>1 DEF RecordsIn
  <2>3. /\ pc' = pc /\ batch' = batch /\ store' = store
        /\ written'[w] = written[w] + 1
        /\ \A v \in Writers : v # w => written'[v] = written[v]
    BY <1>11 DEF WriteNewline, TypeOK
  <2>4. Once' /\ Remembered'
    BY <1>0, <2>1, <2>2, <2>3 DEF Once, Remembered
  <2>5. pc[w] = "writing" /\ written[w] \in Nat /\ written[w] < Len(batch[w])
    BY <1>11 DEF WriteNewline, Writing, TypeOK
  <2>6. NextRecord(w) \in Firings => NextRecord(w) \in FiringsOf[w]
    <3>1. written[w] + 1 \in written[w] + 1..Len(batch[w])
      BY <2>5 DEF TypeOK
    <3> QED
      BY <1>0, <2>5, <3>1 DEF Pending, NextRecord
  <2>7. ASSUME NEW n \in written'[w] + 1..Len(batch[w]) PROVE batch[w][n] \notin Firings
    <3>1. n \in written[w] + 1..Len(batch[w]) /\ Len(batch[w]) # 1
      <4>1. Len(batch[w]) \in Nat
        BY DEF TypeOK
      <4>2. n \in written[w] + 2..Len(batch[w])
        BY <2>3, <2>5
      <4> DEFINE a == written[w]
                 b == Len(batch[w])
      <4>3. a \in Nat /\ b \in Nat /\ n \in a + 2..b
        BY <2>5, <4>1, <4>2
      <4> HIDE DEF a, b
      <4>4. n \in a + 1..b /\ b # 1
        BY <4>3
      <4> QED
        BY <4>4 DEF a, b
    <3> QED
      BY <1>0, <2>5, <3>1 DEF Pending
  <2>8. ASSUME NEW v \in Writers, v # w, pc[v] \in {"opened", "locked", "writing"},
               NEW n \in written[v] + 1..Len(batch[v]), batch[v][n] \in Firings
        PROVE  /\ Len(batch[v]) = 1 /\ batch[v][n] \in FiringsOf[v] \cap store[v]
               /\ batch[v][n] \notin RecordsIn(lines)'
    <3>1. /\ Len(batch[v]) = 1 /\ batch[v][n] \in FiringsOf[v] \cap store[v]
          /\ batch[v][n] \notin RecordsIn(lines)
      BY <1>0, <2>8 DEF Pending
    <3>2. batch[v][n] # NextRecord(w)
      BY <2>6, <2>8, <3>1 DEF FiringsApart
    <3> QED
      BY <2>1, <3>1, <3>2
  <2>9. Pending'
    BY <2>3, <2>7, <2>8 DEF Pending
  <2> QED
    BY <2>4, <2>9
<1>12. ASSUME NEW w \in Writers, Unlock(w) PROVE Once' /\ Remembered' /\ Pending'
  BY <1>0, <1>01, <1>02, <1>12 DEF Unlock, Remembered, Pending, TypeOK, file
<1>13. ASSUME NEW w \in Writers, Crash(w) PROVE Once' /\ Remembered' /\ Pending'
  BY <1>0, <1>01, <1>02, <1>13 DEF Crash, Remembered, Pending, TypeOK, file
<1>14. ASSUME NEW k \in EvidenceKeys, SignUnsigned(k) PROVE Once' /\ Remembered' /\ Pending'
  <2>1. /\ Entries' = lines' /\ DOMAIN lines' = DOMAIN Entries
        /\ \A i \in DOMAIN Entries : lines'[i].rec = Entries[i].rec
        /\ RecordsIn(lines)' = RecordsIn(Entries)
    BY <1>14, SigningKeeps
  <2>2. RecordsIn(Entries)' = RecordsIn(lines)'
    BY <2>1 DEF RecordsIn
  <2>3. Once'
    BY <1>0, <2>1 DEF Once
  <2>4. Remembered'
    BY <1>0, <1>14, <2>1, <2>2 DEF SignUnsigned, process, Remembered
  <2>5. Pending'
    BY <1>14 DEF SignUnsigned, process, Pending
  <2> QED
    BY <2>3, <2>4, <2>5
<1>15. CASE Edit
  BY <1>15 DEF Edit
<1>16. CASE UNCHANGED vars
  BY <1>0, <1>01, <1>02, <1>16 DEF vars, file, Remembered, Pending
<1> QED
  BY <1>1, <1>4, <1>5, <1>6, <1>7, <1>8, <1>9, <1>10, <1>11, <1>12, <1>13, <1>14, <1>15, <1>16
  DEF Next, Appending

\* When a firing is recorded by one process only and is no event of a collector run, it has one line,
\* however often it is delivered again to that process or to the one started after it.
THEOREM FiringsHaveOneLine == ASSUME FiringsApart PROVE Spec => []OneLinePerFiring
<1>1. Init => OneLine
  <2>1. ASSUME Init PROVE Entries = <<>> /\ RecordsIn(Entries) = {} /\ \A w \in Writers : pc[w] = "down"
    BY <2>1 DEF Init, Entries, Content, Whole, RecordsIn
  <2> QED
    BY <2>1 DEF OneLine, Once, Remembered, Pending
<1>2. Held /\ Held' /\ SoundFile /\ OneLine /\ [Next]_vars => OneLine'
  <2>1. TypeOK /\ [Next]_vars /\ edits # 0 => edits' # 0
    <3> SUFFICES ASSUME TypeOK, [Next]_vars PROVE edits' = edits \/ edits' = edits + 1
      BY DEF TypeOK
    <3>1. ASSUME NEW w \in Writers, Appending(w) PROVE edits' = edits
      BY <3>1 DEF Appending, Extend, RecordOnce, Remember, Lock, Repair, Refuse, WriteFragment,
                  WriteRest, WriteNewline, Unlock, bounds
    <3> QED
      BY <3>1 DEF Next, Load, Crash, SignUnsigned, Edit, vars, bounds
  <2> QED
    BY <2>1, OneLineStep DEF OneLine, Held
<1>3. Held /\ SoundFile /\ OneLine => OneLinePerFiring
  <2> SUFFICES ASSUME Held, SoundFile, Once, edits = 0,
                      NEW i \in DOMAIN lines, NEW j \in DOMAIN lines,
                      lines[i].rec = lines[j].rec, lines[i].rec \in UNION Range(FiringsOf)
               PROVE  i = j
    BY DEF OneLinePerFiring, OneLine
  <2>1. lines \in Seq(Lines) /\ torn \in Lines \cup {Nothing, Fragment}
    BY DEF SoundFile, Held, TypeOK
  <2>2. Entries = lines \/ \E l \in Lines : Entries = Append(lines, l)
    BY <2>1, EntriesAre, LineIsLine DEF IsLine
  <2>3. i \in DOMAIN Entries /\ j \in DOMAIN Entries /\ Entries[i] = lines[i] /\ Entries[j] = lines[j]
    BY <2>1, <2>2
  <2> QED
    BY <2>3 DEF Once, Firings
<1> QED
  BY <1>1, <1>2, <1>3, ChainIsSound, PTL DEF Spec

-----------------------------------------------------------------------------
(* Edits: a chain that still verifies is the honest one, or a part it begins with. *)

Shows(k, ls) == \A i \in DOMAIN ls : IsLine(ls[i]) /\ Follows(ls, k, i)

HonestWhenShown == \A k \in EvidenceKeys :
  Shows(k, Whole(lines)) => RecordsOf(Whole(lines)) = honest

\* In a file that verifies, the mac of line i was computed over i lines.
LEMMA ShownMacs ==
  ASSUME NEW k \in EvidenceKeys, NEW ls \in Seq(Texts), Shows(k, ls)
  PROVE  \A i \in DOMAIN ls :
           /\ ls[i] \in Lines /\ ls[i].mac \in Macs /\ Len(ls[i].mac) = i
           /\ ls[i].mac[i] = <<k, ls[i].rec>>
<1>0. DOMAIN ls = 1..Len(ls) /\ Len(ls) \in Nat
  OBVIOUS
<1>1. \A i \in DOMAIN ls : ls[i] \in Lines /\ ls[i].rec \in Records
  BY LineIsLine DEF Shows, Texts, IsLine
<1>2. ASSUME NEW i \in DOMAIN ls, i # 1 => ls[i - 1].mac \in Macs
      PROVE  /\ ls[i].mac \in Macs
             /\ Len(ls[i].mac) = IF i = 1 THEN 1 ELSE Len(ls[i - 1].mac) + 1
             /\ ls[i].mac[Len(ls[i].mac)] = <<k, ls[i].rec>>
  <2> DEFINE prev == IF i = 1 THEN Genesis ELSE ls[i - 1].mac
  <2>1. prev \in Macs /\ Len(prev) = IF i = 1 THEN 0 ELSE Len(ls[i - 1].mac)
    BY <1>2 DEF Genesis, Macs
  <2>2. ls[i].mac = Append(prev, <<k, ls[i].rec>>)
    BY DEF Shows, Follows, Mac
  <2> HIDE DEF prev
  <2>3. <<k, ls[i].rec>> \in (EvidenceKeys \cup {NoKey}) \X Records
    BY <1>1
  <2>4. /\ ls[i].mac \in Macs /\ Len(ls[i].mac) = Len(prev) + 1
        /\ ls[i].mac[Len(prev) + 1] = <<k, ls[i].rec>>
    BY <2>1, <2>2, <2>3 DEF Macs
  <2> QED
    BY <2>1, <2>4
<1> DEFINE T == {i \in DOMAIN ls : ls[i].mac \notin Macs}
<1>3. T = {}
  <2> SUFFICES ASSUME T # {} PROVE FALSE
    OBVIOUS
  <2>1. T \subseteq Nat
    BY <1>0
  <2>2. PICK m \in T : \A i \in T : m <= i
    BY <2>1, SmallestOf
  <2>3. m \in DOMAIN ls /\ ls[m].mac \notin Macs
    BY <2>2
  <2>4. m # 1 => m - 1 \in DOMAIN ls /\ m - 1 \notin T
    BY <1>0, <2>2, <2>3
  <2> QED
    BY <1>2, <2>3, <2>4
<1>4. \A i \in DOMAIN ls : i # 1 => i - 1 \in DOMAIN ls
  BY <1>0
<1>5. \A i \in DOMAIN ls : /\ ls[i].mac \in Macs
                           /\ Len(ls[i].mac) = IF i = 1 THEN 1 ELSE Len(ls[i - 1].mac) + 1
                           /\ ls[i].mac[Len(ls[i].mac)] = <<k, ls[i].rec>>
  BY <1>2, <1>3, <1>4
<1> DEFINE f == [i \in 1..Len(ls) |-> Len(ls[i].mac)]
<1>6. /\ \A i \in 1..Len(ls) : f[i] \in Nat
      /\ \A i \in 1..Len(ls) : f[i] = IF i = 1 THEN 1 ELSE f[i - 1] + 1
  BY <1>0, <1>4, <1>5 DEF Macs
<1> HIDE DEF f
<1>7. \A i \in 1..Len(ls) : f[i] = i
  BY <1>0, <1>6, CountsUp
<1>8. \A i \in 1..Len(ls) : Len(ls[i].mac) = i
  BY <1>7 DEF f
<1> QED
  BY <1>0, <1>1, <1>5, <1>8

\* Whatever a hand makes of a sound file's lines: if it verifies, the file begins with its records.
LEMMA ShownIsPrefix ==
  ASSUME NEW old \in Seq(Lines), Grown(old), NEW k \in EvidenceKeys,
         NEW ls \in Seq(Texts), Shows(k, ls),
         \A n \in DOMAIN ls :
           ls[n] = Fragment \/ ls[n].mac = NoMac \/ \E j \in DOMAIN old : ls[n].mac = old[j].mac
  PROVE  Len(ls) <= Len(old) /\ RecordsOf(ls) = SubSeq(RecordsOf(old), 1, Len(ls))
<1>0. DOMAIN ls = 1..Len(ls) /\ Len(ls) \in Nat /\ DOMAIN old = 1..Len(old) /\ Len(old) \in Nat
  OBVIOUS
<1>1. \A i \in DOMAIN ls : /\ ls[i] \in Lines /\ ls[i].mac \in Macs /\ Len(ls[i].mac) = i
                           /\ ls[i].mac[i] = <<k, ls[i].rec>>
  BY ShownMacs
<1>2. ASSUME NEW i \in DOMAIN ls PROVE i \in DOMAIN old /\ ls[i].rec = old[i].rec
  <2>1. ls[i].mac # NoMac /\ ls[i] # Fragment
    BY <1>1, LinesAssumption
  <2>2. PICK j \in DOMAIN old : ls[i].mac = old[j].mac
    BY <2>1
  <2>3. Links(old, j)
    BY <2>1, <2>2 DEF Grown, Plain
  <2>4. j = i
    BY <1>1, <2>2, <2>3 DEF Links
  <2>5. old[i].mac[i][2] = old[i].rec
    BY <1>0, <2>3, <2>4 DEF Links
  <2> QED
    BY <1>1, <2>2, <2>4, <2>5
<1>3. Len(ls) <= Len(old)
  <2>1. CASE Len(ls) = 0
    BY <1>0, <2>1
  <2>2. CASE Len(ls) # 0
    BY <1>0, <1>2, <2>2
  <2> QED
    BY <2>1, <2>2
<1>4. RecordsOf(old) = [i \in 1..Len(old) |-> old[i].rec] /\ RecordsOf(ls) = [i \in 1..Len(ls) |-> ls[i].rec]
  BY <1>0 DEF RecordsOf
<1>5. RecordsOf(old) \in Seq(Records) /\ RecordsOf(ls) \in Seq(Records)
  <2>1. \A i \in 1..Len(old) : old[i].rec \in Records
    BY LineIsLine
  <2>2. \A i \in 1..Len(ls) : ls[i].rec \in Records
    BY <1>0, <1>1, LineIsLine
  <2> QED
    BY <1>0, <1>4, <2>1, <2>2
<1> DEFINE s == RecordsOf(old)
           t == RecordsOf(ls)
<1>6. Len(s) = Len(old) /\ Len(t) = Len(ls) /\ \A i \in 1..Len(ls) : t[i] = s[i]
  BY <1>0, <1>2, <1>3, <1>4
<1> HIDE DEF s, t
<1>7. t = SubSeq(s, 1, Len(ls))
  <2>1. s \in Seq(Records) /\ t \in Seq(Records)
    BY <1>5 DEF s, t
  <2>2. /\ SubSeq(s, 1, Len(ls)) \in Seq(Records) /\ Len(SubSeq(s, 1, Len(ls))) = Len(ls)
        /\ \A i \in 1..Len(ls) : SubSeq(s, 1, Len(ls))[i] = s[i]
    BY <1>0, <1>3, <1>6, <2>1
  <2> QED
    BY <1>6, <2>1, <2>2, SeqsAgree
<1> QED
  BY <1>3, <1>7 DEF s, t

LEMMA HonestStep ==
  ASSUME MaxEdits <= 1, Held, SoundFile, HonestWhenShown, [Next]_vars
  PROVE  HonestWhenShown'
<1> USE DEF Held
<1>1. ASSUME UNCHANGED <<lines, honest>> PROVE HonestWhenShown'
  BY <1>1 DEF HonestWhenShown, Whole, Shows, Follows, RecordsOf
<1>2. ASSUME NEW w \in Writers, WriteNewline(w) PROVE HonestWhenShown'
  <2> SUFFICES ASSUME NEW k \in EvidenceKeys, Shows(k, Whole(lines'))
               PROVE  RecordsOf(Whole(lines')) = honest'
    BY DEF HonestWhenShown
  <2>1. torn \in Lines /\ lines \in Seq(Texts) /\ lines' = Append(lines, torn) /\ honest' = Append(honest, torn.rec)
    BY <1>2 DEF WriteNewline, IsLine, TypeOK, Texts
  <2>2. /\ lines' \in Seq(Texts) /\ Len(lines') = Len(lines) + 1 /\ Len(lines) \in Nat
        /\ DOMAIN lines = 1..Len(lines) /\ DOMAIN lines' = 1..Len(lines) + 1
        /\ \A i \in DOMAIN lines : lines'[i] = lines[i]
        /\ lines'[Len(lines) + 1] = torn
    BY <2>1 DEF Texts
  <2>3. Whole(lines') = lines'
    BY <2>1, <2>2, LineIsLine DEF Whole, Last
  <2>4. \A i \in DOMAIN lines : IsLine(lines[i]) /\ Follows(lines', k, i)
    BY <2>2, <2>3 DEF Shows
  <2>5. lines \in Seq(Lines)
    BY <2>1, <2>4 DEF IsLine, Texts
  <2>6. Whole(lines) = lines
    BY <2>1, <2>5, WholePart
  <2>7. Shows(k, lines)
    <3>1. ASSUME NEW i \in DOMAIN lines PROVE Follows(lines, k, i)
      <4>1. lines'[i] = lines[i] /\ (i # 1 => lines'[i - 1] = lines[i - 1])
        BY <2>2
      <4> QED
        BY <2>4, <4>1 DEF Follows
    <3> QED
      BY <2>4, <3>1 DEF Shows
  <2>8. RecordsOf(lines) = honest
    BY <2>6, <2>7 DEF HonestWhenShown
  <2>9. honest' = RecordsOf(lines')
    <3>1. RecordsOf(lines) = [i \in 1..Len(lines) |-> lines[i].rec] /\ Len(honest) = Len(lines)
      BY <2>2, <2>8 DEF RecordsOf, TypeOK
    <3>2. RecordsOf(lines') = [i \in 1..Len(lines) + 1 |-> lines'[i].rec]
      BY <2>2 DEF RecordsOf
    <3>3. honest \in Seq(Records) /\ torn.rec \in Records
      BY <2>1, LineIsLine DEF TypeOK
    <3> QED
      BY <2>1, <2>2, <2>8, <3>1, <3>2, <3>3
  <2> QED
    BY <2>3, <2>9
<1>3. ASSUME NEW k \in EvidenceKeys, SignUnsigned(k) PROVE HonestWhenShown'
  <2>1. ~Garbled
    BY <1>3 DEF SignUnsigned, Integrity
  <2>2. Readable \in Seq(Records)
    BY <2>1, EntriesTyped
  <2>3. lines' \in Seq(Lines) /\ RecordsOf(lines') = honest'
    BY <1>3, <2>2, ChainedLines DEF SignUnsigned
  <2>4. Whole(lines') = lines'
    BY <2>3, WholePart, LinesAreTexts
  <2> QED
    BY <2>3, <2>4 DEF HonestWhenShown
<1>4. ASSUME Edit PROVE HonestWhenShown'
  <2>1. edits = 0
    BY <1>4, ConstantsAssumption DEF Edit, TypeOK
  <2>2. lines \in Seq(Lines) /\ torn \in Lines \cup {Nothing, Fragment} /\ honest = RecordsOf(lines)
    BY <2>1 DEF SoundFile, TypeOK
  <2>3. Grown(lines)
    <3>1. Entries = IF IsLine(torn) THEN Append(lines, torn) ELSE lines
      BY <2>2, EntriesAre
    <3> QED
      BY <2>1, <2>2, <3>1, GrownBefore DEF SoundFile
  <2>4. PICK ls \in Edited :
          /\ lines' = ls
          /\ honest' = IF \E n \in 0..Len(honest) : Reads(Whole(ls), SubSeq(honest, 1, n))
                       THEN RecordsOf(Whole(ls)) ELSE honest
    BY <1>4 DEF Edit
  <2>5. ls \in Seq(Texts) /\ Whole(ls) \in Seq(Texts)
    BY <2>2, EditedLines, WholePart
  <2>6. \A n \in DOMAIN Whole(ls) :
          \/ Whole(ls)[n] = Fragment \/ Whole(ls)[n].mac = NoMac
          \/ \E j \in DOMAIN lines : Whole(ls)[n].mac = lines[j].mac
    BY <2>2, <2>5, EditedLines, WholePart
  <2>7. ASSUME NEW k \in EvidenceKeys, Shows(k, Whole(ls)) PROVE RecordsOf(Whole(ls)) = honest'
    <3>1. Len(Whole(ls)) <= Len(lines) /\ RecordsOf(Whole(ls)) = SubSeq(honest, 1, Len(Whole(ls)))
      BY <2>2, <2>3, <2>5, <2>6, <2>7, ShownIsPrefix
    <3>2. Len(honest) = Len(lines) /\ Len(Whole(ls)) \in Nat /\ Len(lines) \in Nat
      BY <2>2, <2>5 DEF RecordsOf
    <3>3. Reads(Whole(ls), SubSeq(honest, 1, Len(Whole(ls))))
      BY <2>7, <3>1 DEF Reads, Shows
    <3> QED
      BY <2>4, <3>1, <3>2, <3>3
  <2> QED
    BY <2>4, <2>7 DEF HonestWhenShown
<1>5. CASE UNCHANGED vars
  BY <1>1, <1>5 DEF vars
<1>6. ASSUME NEW w \in Writers, Appending(w), ~WriteNewline(w) PROVE UNCHANGED <<lines, honest>>
  BY <1>6 DEF Appending, Extend, RecordOnce, Remember, Lock, Repair, Kept, Refuse, WriteFragment,
              WriteRest, Unlock, file
<1>7. ASSUME NEW w \in Writers, Load(w) \/ Crash(w) PROVE UNCHANGED <<lines, honest>>
  BY <1>7 DEF Load, Crash, file
<1> QED
  BY <1>1, <1>2, <1>3, <1>4, <1>5, <1>6, <1>7 DEF Next

\* Of a file that was edited once, before or between appends: what verifies holds the honest file's
\* records.  (Two edits with an append between them can defeat the chain: a line moved to the end is
\* appended to, and the line it was moved past is then removed.)
THEOREM OneEditIsDetected == ASSUME MaxEdits <= 1 PROVE Spec => []EditsAreDetected
<1>1. Init => HonestWhenShown
  <2>1. ASSUME Init PROVE Whole(lines) = <<>> /\ honest = <<>>
    BY <2>1 DEF Init, Whole
  <2> QED
    BY <2>1 DEF HonestWhenShown, RecordsOf
<1>2. Held /\ SoundFile /\ HonestWhenShown /\ [Next]_vars => HonestWhenShown'
  BY HonestStep
<1>3. ASSUME TypeOK, HonestWhenShown PROVE EditsAreDetected
  <2> SUFFICES ASSUME NEW k \in EvidenceKeys, Integrity(k) = "verified"
               PROVE  RecordsOf(Whole(lines)) = honest
    BY DEF EditsAreDetected
  <2>1. ~Garbled /\ (\A i \in DOMAIN Entries : Follows(Entries, k, i))
    <3>1. ~Garbled
      BY DEF Integrity
    <3>2. CASE Entries = <<>>
      BY <3>1, <3>2
    <3>3. CASE Entries # <<>>
      BY <3>1, <3>3 DEF Integrity
    <3> QED
      BY <3>1, <3>2, <3>3
  <2>2. Entries \in Seq(Lines)
    BY <1>3, <2>1, EntriesTyped
  <2>3. lines \in Seq(Texts) /\ torn \in Lines \cup {Nothing, Fragment}
    BY <1>3 DEF TypeOK, Texts
  <2>4. Shows(k, Whole(lines))
    <3>1. CASE torn = Nothing
      <4>1. Entries = Whole(lines)
        BY <3>1 DEF Entries, Content
      <4> QED
        BY <2>1, <2>2, <4>1, LineIsLine DEF Shows
    <3>2. CASE torn = Fragment
      <4>1. Content = Append(lines, Fragment)
        BY <3>2, LinesAssumption DEF Content
      <4>2. Content # <<>> /\ Last(Content) = Fragment /\ Front(Content) = lines
        BY <2>3, <4>1 DEF Last, Front
      <4>3. Entries = lines
        BY <4>2 DEF Entries, Whole
      <4>4. Whole(lines) = lines
        BY <2>2, <2>3, <4>3, WholePart
      <4> QED
        BY <2>1, <2>2, <4>3, <4>4, LineIsLine DEF Shows
    <3>3. CASE torn \in Lines
      <4>1. torn # Nothing /\ torn # Fragment
        BY <3>3, LinesAssumption
      <4>2. Content = Append(lines, torn)
        BY <4>1 DEF Content
      <4>3. /\ Content \in Seq(Texts) /\ DOMAIN Content = 1..Len(lines) + 1 /\ Len(lines) \in Nat
            /\ DOMAIN lines = 1..Len(lines) /\ Len(Content) = Len(lines) + 1
            /\ \A i \in DOMAIN lines : Content[i] = lines[i]
            /\ Content[Len(lines) + 1] = torn
        BY <2>3, <3>3, <4>2 DEF Texts
      <4>4. Entries = Content
        BY <4>1, <4>3 DEF Entries, Whole, Last
      <4>5. lines \in Seq(Lines)
        BY <2>2, <2>3, <4>3, <4>4 DEF Texts
      <4>6. Whole(lines) = lines
        BY <2>3, <4>5, WholePart
      <4>7. ASSUME NEW i \in DOMAIN lines PROVE Follows(lines, k, i)
        <5>1. Entries[i] = lines[i] /\ (i # 1 => Entries[i - 1] = lines[i - 1]) /\ i \in DOMAIN Entries
          BY <4>3, <4>4
        <5> QED
          BY <2>1, <5>1 DEF Follows
      <4> QED
        BY <4>5, <4>6, <4>7, LineIsLine DEF Shows
    <3> QED
      BY <2>3, <3>1, <3>2, <3>3
  <2> QED
    BY <1>3, <2>4 DEF HonestWhenShown
<1> QED
  BY <1>1, <1>2, <1>3, ChainIsSound, PTL DEF Spec, Held
=============================================================================
