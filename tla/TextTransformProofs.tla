------------------------- MODULE TextTransformProofs -------------------------
(* What the transformation of inserts and deletes against one another keeps, *)
(* for every document, position and text.                                    *)
EXTENDS TextTransform, SequenceTheorems, TLAPS

-----------------------------------------------------------------------------
(* Character by character                                                    *)

Inserted(doc, pos, text) == SubSeq(doc, 1, pos) \o text \o SubSeq(doc, pos + 1, Len(doc))

(* The character at place i after an insert.                                 *)
AfterInsert(doc, pos, text, i) ==
  IF i <= pos THEN doc[i]
  ELSE IF i <= pos + Len(text) THEN text[i - pos] ELSE doc[i - Len(text)]

(* The character at place i after a delete.                                  *)
AfterErase(doc, pos, length, i) == IF i <= pos THEN doc[i] ELSE doc[i + length]

(* SubSeq within a sequence.                                                 *)
LEMMA Part ==
  ASSUME NEW S, NEW s \in Seq(S), NEW m \in 1 .. Len(s) + 1, NEW n \in 0 .. Len(s),
         m <= n + 1
  PROVE  /\ SubSeq(s, m, n) \in Seq(S)
         /\ Len(SubSeq(s, m, n)) = n - m + 1
         /\ \A i \in 1 .. n - m + 1 : SubSeq(s, m, n)[i] = s[m + i - 1]
<1>1. Len(s) \in Nat
  BY LenProperties
<1>2. \A i \in m .. n : s[i] \in S
  <2> SUFFICES ASSUME NEW i \in m .. n PROVE s[i] \in S
    OBVIOUS
  <2>1. i \in 1 .. Len(s)
    BY <1>1
  <2> QED BY <2>1, ElementOfSeq
<1>3. m \in Int /\ n \in Int
  BY <1>1
<1>4. /\ SubSeq(s, m, n) \in Seq(S)
      /\ Len(SubSeq(s, m, n)) = IF m <= n THEN n - m + 1 ELSE 0
      /\ \A i \in 1 .. n - m + 1 : SubSeq(s, m, n)[i] = s[m + i - 1]
  BY <1>2, <1>3, SubSeqProperties
<1> QED BY <1>3, <1>4

(* What an insert does to a document.                                        *)
LEMMA InsertElements ==
  ASSUME NEW S, NEW doc \in Seq(S), NEW text \in Seq(S), NEW pos \in 0 .. Len(doc)
  PROVE  /\ Inserted(doc, pos, text) \in Seq(S)
         /\ Len(Inserted(doc, pos, text)) = Len(doc) + Len(text)
         /\ \A i \in 1 .. Len(doc) + Len(text) :
              Inserted(doc, pos, text)[i] = AfterInsert(doc, pos, text, i)
<1>1. Len(doc) \in Nat /\ Len(text) \in Nat
  BY LenProperties
<1> DEFINE head == SubSeq(doc, 1, pos)
           tail == SubSeq(doc, pos + 1, Len(doc))
<1>2. /\ head \in Seq(S) /\ Len(head) = pos
      /\ \A i \in 1 .. pos : head[i] = doc[i]
  <2>1. 1 \in 1 .. Len(doc) + 1 /\ 1 <= pos + 1
    BY <1>1
  <2>2. /\ head \in Seq(S) /\ Len(head) = pos - 1 + 1
        /\ \A i \in 1 .. pos - 1 + 1 : head[i] = doc[1 + i - 1]
    BY <2>1, Part
  <2> QED BY <2>2, <1>1
<1>3. /\ tail \in Seq(S) /\ Len(tail) = Len(doc) - pos
      /\ \A i \in 1 .. Len(doc) - pos : tail[i] = doc[pos + i]
  <2>1. /\ pos + 1 \in 1 .. Len(doc) + 1 /\ Len(doc) \in 0 .. Len(doc)
        /\ pos + 1 <= Len(doc) + 1
    BY <1>1
  <2>2. /\ tail \in Seq(S) /\ Len(tail) = Len(doc) - (pos + 1) + 1
        /\ \A i \in 1 .. Len(doc) - (pos + 1) + 1 : tail[i] = doc[(pos + 1) + i - 1]
    BY <2>1, Part
  <2> QED BY <2>2, <1>1
<1> HIDE DEF head, tail
<1>4. /\ head \o text \in Seq(S) /\ Len(head \o text) = pos + Len(text)
      /\ \A i \in 1 .. pos + Len(text) :
           (head \o text)[i] = IF i <= pos THEN head[i] ELSE text[i - pos]
  BY <1>2, ConcatProperties
<1> DEFINE both == head \o text
<1> HIDE DEF both
<1>5. /\ both \o tail \in Seq(S) /\ Len(both \o tail) = Len(both) + Len(tail)
      /\ \A i \in 1 .. Len(both) + Len(tail) :
           (both \o tail)[i] = IF i <= Len(both) THEN both[i] ELSE tail[i - Len(both)]
  BY <1>3, <1>4, ConcatProperties DEF both
<1>6. Inserted(doc, pos, text) = both \o tail
  BY DEF Inserted, both, head, tail
<1>7. /\ Len(both) = pos + Len(text)
      /\ \A i \in 1 .. pos + Len(text) : both[i] = IF i <= pos THEN head[i] ELSE text[i - pos]
  BY <1>4 DEF both
<1>8. ASSUME NEW i \in 1 .. Len(doc) + Len(text)
      PROVE (both \o tail)[i] = AfterInsert(doc, pos, text, i)
  <2>1. Len(both) = pos + Len(text) /\ Len(both) + Len(tail) = Len(doc) + Len(text)
    BY <1>1, <1>3, <1>7
  <2>2. (both \o tail)[i] = IF i <= Len(both) THEN both[i] ELSE tail[i - Len(both)]
    BY <2>1, <1>5
  <2>3. CASE i <= pos
    <3>1. i \in 1 .. pos + Len(text) /\ i \in 1 .. pos /\ i <= Len(both)
      BY <2>1, <2>3, <1>1
    <3>2. both[i] = doc[i]
      BY <3>1, <2>3, <1>2, <1>7
    <3> QED BY <3>1, <3>2, <2>2, <2>3 DEF AfterInsert
  <2>4. CASE ~(i <= pos) /\ i <= pos + Len(text)
    <3>1. i \in 1 .. pos + Len(text) /\ i <= Len(both)
      BY <2>1, <2>4, <1>1
    <3>2. both[i] = text[i - pos]
      BY <3>1, <2>4, <1>7
    <3> QED BY <3>1, <3>2, <2>2, <2>4 DEF AfterInsert
  <2>5. CASE ~(i <= pos + Len(text))
    <3>1. /\ i - Len(both) \in 1 .. Len(doc) - pos /\ pos + (i - Len(both)) = i - Len(text)
          /\ ~(i <= Len(both)) /\ ~(i <= pos)
      BY <2>1, <2>5, <1>1
    <3>2. tail[i - Len(both)] = doc[i - Len(text)]
      BY <3>1, <1>3
    <3> QED BY <3>1, <3>2, <2>2, <2>5 DEF AfterInsert
  <2> QED BY <2>3, <2>4, <2>5, <1>1
<1>9. Len(both) + Len(tail) = Len(doc) + Len(text)
  BY <1>1, <1>3, <1>7
<1> QED BY <1>5, <1>6, <1>8, <1>9

(* What a delete does to a document.                                         *)
LEMMA EraseElements ==
  ASSUME NEW S, NEW doc \in Seq(S), NEW pos \in Nat, NEW length \in Nat,
         pos + length <= Len(doc)
  PROVE  /\ Erase(doc, pos, length) \in Seq(S)
         /\ Len(Erase(doc, pos, length)) = Len(doc) - length
         /\ \A i \in 1 .. Len(doc) - length :
              Erase(doc, pos, length)[i] = AfterErase(doc, pos, length, i)
<1>1. Len(doc) \in Nat
  BY LenProperties
<1> DEFINE head == SubSeq(doc, 1, pos)
           tail == SubSeq(doc, pos + length + 1, Len(doc))
<1>2. /\ head \in Seq(S) /\ Len(head) = pos
      /\ \A i \in 1 .. pos : head[i] = doc[i]
  <2>1. 1 \in 1 .. Len(doc) + 1 /\ 1 <= pos + 1 /\ pos \in 0 .. Len(doc)
    BY <1>1
  <2>2. /\ head \in Seq(S) /\ Len(head) = pos - 1 + 1
        /\ \A i \in 1 .. pos - 1 + 1 : head[i] = doc[1 + i - 1]
    BY <2>1, Part
  <2> QED BY <2>2, <1>1
<1>3. /\ tail \in Seq(S) /\ Len(tail) = Len(doc) - length - pos
      /\ \A i \in 1 .. Len(doc) - length - pos : tail[i] = doc[pos + length + i]
  <2>1. /\ pos + length + 1 \in 1 .. Len(doc) + 1 /\ Len(doc) \in 0 .. Len(doc)
        /\ pos + length + 1 <= Len(doc) + 1
    BY <1>1
  <2>2. /\ tail \in Seq(S) /\ Len(tail) = Len(doc) - (pos + length + 1) + 1
        /\ \A i \in 1 .. Len(doc) - (pos + length + 1) + 1 :
             tail[i] = doc[(pos + length + 1) + i - 1]
    BY <2>1, Part
  <2> QED BY <2>2, <1>1
<1> HIDE DEF head, tail
<1>4. /\ head \o tail \in Seq(S) /\ Len(head \o tail) = Len(head) + Len(tail)
      /\ \A i \in 1 .. Len(head) + Len(tail) :
           (head \o tail)[i] = IF i <= Len(head) THEN head[i] ELSE tail[i - Len(head)]
  <2>1. head \in Seq(S) /\ tail \in Seq(S)
    BY <1>2, <1>3
  <2> QED BY <2>1, ConcatProperties
<1>5. Erase(doc, pos, length) = head \o tail
  BY DEF Erase, head, tail
<1>6. ASSUME NEW i \in 1 .. Len(doc) - length
      PROVE (head \o tail)[i] = AfterErase(doc, pos, length, i)
  <2>1. CASE i <= pos
    BY <2>1, <1>1, <1>2, <1>3, <1>4 DEF AfterErase
  <2>2. CASE ~(i <= pos)
    <3>1. i - pos \in 1 .. Len(doc) - length - pos /\ pos + length + (i - pos) = i + length
      BY <2>2, <1>1
    <3>2. (head \o tail)[i] = tail[i - pos]
      BY <2>2, <1>1, <1>2, <1>3, <1>4
    <3>3. tail[i - pos] = doc[i + length]
      BY <3>1, <1>3
    <3> QED BY <3>2, <3>3, <2>2 DEF AfterErase
  <2> QED BY <2>1, <2>2, <1>1
<1>7. Len(head) + Len(tail) = Len(doc) - length
  BY <1>1, <1>2, <1>3
<1> QED BY <1>4, <1>5, <1>6, <1>7

-----------------------------------------------------------------------------
(* Changes that commute                                                      *)

(* Two inserts, the second not before the first.                             *)
LEMMA TwoInserts ==
  ASSUME NEW S, NEW doc \in Seq(S), NEW s \in Seq(S), NEW t \in Seq(S),
         NEW p \in 0 .. Len(doc), NEW q \in 0 .. Len(doc), p <= q
  PROVE  Inserted(Inserted(doc, p, s), q + Len(s), t) = Inserted(Inserted(doc, q, t), p, s)
<1> DEFINE one == Inserted(doc, p, s)
           two == Inserted(doc, q, t)
           left == Inserted(one, q + Len(s), t)
           right == Inserted(two, p, s)
<1>1. Len(doc) \in Nat /\ Len(s) \in Nat /\ Len(t) \in Nat
  BY LenProperties
<1>2. /\ one \in Seq(S) /\ Len(one) = Len(doc) + Len(s)
      /\ \A i \in 1 .. Len(doc) + Len(s) : one[i] = AfterInsert(doc, p, s, i)
  BY InsertElements
<1>3. /\ two \in Seq(S) /\ Len(two) = Len(doc) + Len(t)
      /\ \A i \in 1 .. Len(doc) + Len(t) : two[i] = AfterInsert(doc, q, t, i)
  BY InsertElements
<1> HIDE DEF one, two
<1>4. /\ left \in Seq(S) /\ Len(left) = Len(doc) + Len(s) + Len(t)
      /\ \A i \in 1 .. Len(doc) + Len(s) + Len(t) :
           left[i] = AfterInsert(one, q + Len(s), t, i)
  <2>1. one \in Seq(S) /\ q + Len(s) \in 0 .. Len(one)
    BY <1>1, <1>2
  <2>2. Len(one) + Len(t) = Len(doc) + Len(s) + Len(t)
    BY <1>1, <1>2
  <2>3. /\ left \in Seq(S) /\ Len(left) = Len(one) + Len(t)
        /\ \A i \in 1 .. Len(one) + Len(t) : left[i] = AfterInsert(one, q + Len(s), t, i)
    BY <2>1, InsertElements
  <2> QED BY <2>2, <2>3
<1>5. /\ right \in Seq(S) /\ Len(right) = Len(doc) + Len(s) + Len(t)
      /\ \A i \in 1 .. Len(doc) + Len(s) + Len(t) : right[i] = AfterInsert(two, p, s, i)
  <2>1. two \in Seq(S) /\ p \in 0 .. Len(two)
    BY <1>1, <1>3
  <2>2. Len(two) + Len(s) = Len(doc) + Len(s) + Len(t)
    BY <1>1, <1>3
  <2>3. /\ right \in Seq(S) /\ Len(right) = Len(two) + Len(s)
        /\ \A i \in 1 .. Len(two) + Len(s) : right[i] = AfterInsert(two, p, s, i)
    BY <2>1, InsertElements
  <2> QED BY <2>2, <2>3
<1>6. ASSUME NEW i \in 1 .. Len(doc) + Len(s) + Len(t)
      PROVE AfterInsert(one, q + Len(s), t, i) = AfterInsert(two, p, s, i)
  <2>1. i <= q + Len(s) => one[i] = AfterInsert(doc, p, s, i)
    BY <1>1, <1>2
  <2>2. i > q + Len(s) + Len(t) => one[i - Len(t)] = AfterInsert(doc, p, s, i - Len(t))
    <3> HAVE i > q + Len(s) + Len(t)
    <3>1. i - Len(t) \in 1 .. Len(doc) + Len(s)
      BY <1>1
    <3> QED BY <3>1, <1>2
  <2>3. i <= p => two[i] = AfterInsert(doc, q, t, i)
    BY <1>1, <1>3
  <2>4. i > p + Len(s) => two[i - Len(s)] = AfterInsert(doc, q, t, i - Len(s))
    <3> HAVE i > p + Len(s)
    <3>1. i - Len(s) \in 1 .. Len(doc) + Len(t)
      BY <1>1
    <3> QED BY <3>1, <1>3
  <2>5. CASE i <= q + Len(s)
    BY <2>1, <2>3, <2>4, <2>5, <1>1 DEF AfterInsert
  <2>6. CASE i > q + Len(s) /\ i <= q + Len(s) + Len(t)
    <3>1. i - (q + Len(s)) = (i - Len(s)) - q
      BY <1>1
    <3> QED BY <3>1, <2>4, <2>6, <1>1 DEF AfterInsert
  <2>7. CASE i > q + Len(s) + Len(t)
    <3>1. (i - Len(t)) - Len(s) = (i - Len(s)) - Len(t)
      BY <1>1
    <3> QED BY <3>1, <2>2, <2>4, <2>7, <1>1 DEF AfterInsert
  <2> QED BY <2>5, <2>6, <2>7, <1>1
<1> HIDE DEF left, right
<1> QED
  <2>1. left = right
    BY <1>4, <1>5, <1>6, SeqEqual
  <2> QED BY <2>1 DEF left, right, one, two

(* An insert at or before a deleted range, or behind it.                     *)
LEMMA InsertBeforeErase ==
  ASSUME NEW S, NEW doc \in Seq(S), NEW s \in Seq(S),
         NEW p \in Nat, NEW q \in Nat, NEW n \in Nat, p <= q, q + n <= Len(doc)
  PROVE  Erase(Inserted(doc, p, s), q + Len(s), n) = Inserted(Erase(doc, q, n), p, s)
<1> DEFINE one == Inserted(doc, p, s)
           two == Erase(doc, q, n)
           left == Erase(one, q + Len(s), n)
           right == Inserted(two, p, s)
<1>1. Len(doc) \in Nat /\ Len(s) \in Nat
  BY LenProperties
<1>2. /\ one \in Seq(S) /\ Len(one) = Len(doc) + Len(s)
      /\ \A i \in 1 .. Len(doc) + Len(s) : one[i] = AfterInsert(doc, p, s, i)
  <2>1. p \in 0 .. Len(doc)
    BY <1>1
  <2> QED BY <2>1, InsertElements
<1>3. /\ two \in Seq(S) /\ Len(two) = Len(doc) - n
      /\ \A i \in 1 .. Len(doc) - n : two[i] = AfterErase(doc, q, n, i)
  BY EraseElements
<1> HIDE DEF one, two
<1>4. /\ left \in Seq(S) /\ Len(left) = Len(doc) + Len(s) - n
      /\ \A i \in 1 .. Len(doc) + Len(s) - n : left[i] = AfterErase(one, q + Len(s), n, i)
  <2>1. one \in Seq(S) /\ q + Len(s) \in Nat /\ q + Len(s) + n <= Len(one)
    BY <1>1, <1>2
  <2>2. Len(one) - n = Len(doc) + Len(s) - n
    BY <1>1, <1>2
  <2>3. /\ left \in Seq(S) /\ Len(left) = Len(one) - n
        /\ \A i \in 1 .. Len(one) - n : left[i] = AfterErase(one, q + Len(s), n, i)
    BY <2>1, EraseElements
  <2> QED BY <2>2, <2>3
<1>5. /\ right \in Seq(S) /\ Len(right) = Len(doc) + Len(s) - n
      /\ \A i \in 1 .. Len(doc) + Len(s) - n : right[i] = AfterInsert(two, p, s, i)
  <2>1. two \in Seq(S) /\ p \in 0 .. Len(two)
    BY <1>1, <1>3
  <2>2. Len(two) + Len(s) = Len(doc) + Len(s) - n
    BY <1>1, <1>3
  <2>3. /\ right \in Seq(S) /\ Len(right) = Len(two) + Len(s)
        /\ \A i \in 1 .. Len(two) + Len(s) : right[i] = AfterInsert(two, p, s, i)
    BY <2>1, InsertElements
  <2> QED BY <2>2, <2>3
<1>6. ASSUME NEW i \in 1 .. Len(doc) + Len(s) - n
      PROVE AfterErase(one, q + Len(s), n, i) = AfterInsert(two, p, s, i)
  <2>1. i <= q + Len(s) => one[i] = AfterInsert(doc, p, s, i)
    BY <1>1, <1>2
  <2>2. i > q + Len(s) => one[i + n] = AfterInsert(doc, p, s, i + n)
    <3> HAVE i > q + Len(s)
    <3>1. i + n \in 1 .. Len(doc) + Len(s)
      BY <1>1
    <3> QED BY <3>1, <1>2
  <2>3. i <= p => two[i] = AfterErase(doc, q, n, i)
    BY <1>1, <1>3
  <2>4. i > p + Len(s) => two[i - Len(s)] = AfterErase(doc, q, n, i - Len(s))
    <3> HAVE i > p + Len(s)
    <3>1. i - Len(s) \in 1 .. Len(doc) - n
      BY <1>1
    <3> QED BY <3>1, <1>3
  <2>5. CASE i <= q + Len(s)
    BY <2>1, <2>3, <2>4, <2>5, <1>1 DEF AfterInsert, AfterErase
  <2>6. CASE i > q + Len(s)
    <3>1. (i + n) - Len(s) = (i - Len(s)) + n
      BY <1>1
    <3> QED BY <3>1, <2>2, <2>4, <2>6, <1>1 DEF AfterInsert, AfterErase
  <2> QED BY <2>5, <2>6, <1>1
<1> HIDE DEF left, right
<1> QED
  <2>1. left = right
    BY <1>4, <1>5, <1>6, SeqEqual
  <2> QED BY <2>1 DEF left, right, one, two

LEMMA InsertAfterErase ==
  ASSUME NEW S, NEW doc \in Seq(S), NEW s \in Seq(S),
         NEW p \in Nat, NEW q \in Nat, NEW n \in Nat, q + n <= p, p <= Len(doc)
  PROVE  Erase(Inserted(doc, p, s), q, n) = Inserted(Erase(doc, q, n), p - n, s)
<1> DEFINE one == Inserted(doc, p, s)
           two == Erase(doc, q, n)
           left == Erase(one, q, n)
           right == Inserted(two, p - n, s)
<1>1. Len(doc) \in Nat /\ Len(s) \in Nat
  BY LenProperties
<1>2. /\ one \in Seq(S) /\ Len(one) = Len(doc) + Len(s)
      /\ \A i \in 1 .. Len(doc) + Len(s) : one[i] = AfterInsert(doc, p, s, i)
  <2>1. p \in 0 .. Len(doc)
    BY <1>1
  <2> QED BY <2>1, InsertElements
<1>3. /\ two \in Seq(S) /\ Len(two) = Len(doc) - n
      /\ \A i \in 1 .. Len(doc) - n : two[i] = AfterErase(doc, q, n, i)
  <2>1. q + n <= Len(doc)
    BY <1>1
  <2> QED BY <2>1, EraseElements
<1> HIDE DEF one, two
<1>4. /\ left \in Seq(S) /\ Len(left) = Len(doc) + Len(s) - n
      /\ \A i \in 1 .. Len(doc) + Len(s) - n : left[i] = AfterErase(one, q, n, i)
  <2>1. one \in Seq(S) /\ q + n <= Len(one)
    BY <1>1, <1>2
  <2>2. Len(one) - n = Len(doc) + Len(s) - n
    BY <1>1, <1>2
  <2>3. /\ left \in Seq(S) /\ Len(left) = Len(one) - n
        /\ \A i \in 1 .. Len(one) - n : left[i] = AfterErase(one, q, n, i)
    BY <2>1, EraseElements
  <2> QED BY <2>2, <2>3
<1>5. /\ right \in Seq(S) /\ Len(right) = Len(doc) + Len(s) - n
      /\ \A i \in 1 .. Len(doc) + Len(s) - n : right[i] = AfterInsert(two, p - n, s, i)
  <2>1. two \in Seq(S) /\ p - n \in 0 .. Len(two)
    BY <1>1, <1>3
  <2>2. Len(two) + Len(s) = Len(doc) + Len(s) - n
    BY <1>1, <1>3
  <2>3. /\ right \in Seq(S) /\ Len(right) = Len(two) + Len(s)
        /\ \A i \in 1 .. Len(two) + Len(s) : right[i] = AfterInsert(two, p - n, s, i)
    BY <2>1, InsertElements
  <2> QED BY <2>2, <2>3
<1>6. ASSUME NEW i \in 1 .. Len(doc) + Len(s) - n
      PROVE AfterErase(one, q, n, i) = AfterInsert(two, p - n, s, i)
  <2>1. i <= q => one[i] = AfterInsert(doc, p, s, i)
    BY <1>1, <1>2
  <2>2. i > q => one[i + n] = AfterInsert(doc, p, s, i + n)
    <3> HAVE i > q
    <3>1. i + n \in 1 .. Len(doc) + Len(s)
      BY <1>1
    <3> QED BY <3>1, <1>2
  <2>3. i <= p - n => two[i] = AfterErase(doc, q, n, i)
    BY <1>1, <1>3
  <2>4. i > p - n + Len(s) => two[i - Len(s)] = AfterErase(doc, q, n, i - Len(s))
    <3> HAVE i > p - n + Len(s)
    <3>1. i - Len(s) \in 1 .. Len(doc) - n
      BY <1>1
    <3> QED BY <3>1, <1>3
  <2>5. CASE i <= q
    BY <2>1, <2>3, <2>5, <1>1 DEF AfterInsert, AfterErase
  <2>6. CASE i > q /\ i <= p - n
    BY <2>2, <2>3, <2>6, <1>1 DEF AfterInsert, AfterErase
  <2>7. CASE i > p - n /\ i <= p - n + Len(s)
    <3>1. (i + n) - p = i - (p - n)
      BY <1>1
    <3> QED BY <3>1, <2>2, <2>7, <1>1 DEF AfterInsert, AfterErase
  <2>8. CASE i > p - n + Len(s)
    <3>1. (i + n) - Len(s) = (i - Len(s)) + n
      BY <1>1
    <3> QED BY <3>1, <2>2, <2>4, <2>8, <1>1 DEF AfterInsert, AfterErase
  <2> QED BY <2>5, <2>6, <2>7, <2>8, <1>1
<1> HIDE DEF left, right
<1> QED
  <2>1. left = right
    BY <1>4, <1>5, <1>6, SeqEqual
  <2> QED BY <2>1 DEF left, right, one, two

(* Two deletes that overlap or touch are one.                                *)
LEMMA ErasesMerge ==
  ASSUME NEW S, NEW doc \in Seq(S), NEW p \in Nat, NEW m \in Nat, NEW r \in Nat, NEW k \in Nat,
         r <= p, p <= r + k, p + m <= Len(doc), r + k + m <= Len(doc)
  PROVE  Erase(Erase(doc, p, m), r, k) = Erase(doc, r, m + k)
<1> DEFINE one == Erase(doc, p, m)
           left == Erase(one, r, k)
           right == Erase(doc, r, m + k)
<1>1. Len(doc) \in Nat
  BY LenProperties
<1>2. /\ one \in Seq(S) /\ Len(one) = Len(doc) - m
      /\ \A i \in 1 .. Len(doc) - m : one[i] = AfterErase(doc, p, m, i)
  BY EraseElements
<1> HIDE DEF one
<1>3. /\ left \in Seq(S) /\ Len(left) = Len(doc) - (m + k)
      /\ \A i \in 1 .. Len(doc) - (m + k) : left[i] = AfterErase(one, r, k, i)
  <2>1. one \in Seq(S) /\ r + k <= Len(one)
    BY <1>1, <1>2
  <2>2. Len(one) - k = Len(doc) - (m + k)
    BY <1>1, <1>2
  <2>3. /\ left \in Seq(S) /\ Len(left) = Len(one) - k
        /\ \A i \in 1 .. Len(one) - k : left[i] = AfterErase(one, r, k, i)
    BY <2>1, EraseElements
  <2> QED BY <2>2, <2>3
<1>4. /\ right \in Seq(S) /\ Len(right) = Len(doc) - (m + k)
      /\ \A i \in 1 .. Len(doc) - (m + k) : right[i] = AfterErase(doc, r, m + k, i)
  <2>1. m + k \in Nat /\ r + (m + k) <= Len(doc)
    BY <1>1
  <2> QED BY <2>1, EraseElements
<1>5. ASSUME NEW i \in 1 .. Len(doc) - (m + k)
      PROVE AfterErase(one, r, k, i) = AfterErase(doc, r, m + k, i)
  <2>1. i <= r => one[i] = AfterErase(doc, p, m, i)
    BY <1>1, <1>2
  <2>2. one[i + k] = AfterErase(doc, p, m, i + k)
    <3>1. i + k \in 1 .. Len(doc) - m
      BY <1>1
    <3> QED BY <3>1, <1>2
  <2>3. (i + k) + m = i + (m + k)
    BY <1>1
  <2> QED BY <2>1, <2>2, <2>3, <1>1 DEF AfterErase
<1> HIDE DEF left, right
<1> QED
  <2>1. left = right
    BY <1>3, <1>4, <1>5, SeqEqual
  <2> QED BY <2>1 DEF left, right, one

(* Two deletes of ranges that do not overlap.                                *)
LEMMA ErasesCommute ==
  ASSUME NEW S, NEW doc \in Seq(S), NEW p \in Nat, NEW m \in Nat, NEW q \in Nat, NEW n \in Nat,
         p + m <= q, q + n <= Len(doc)
  PROVE  Erase(Erase(doc, p, m), q - m, n) = Erase(Erase(doc, q, n), p, m)
<1> DEFINE one == Erase(doc, p, m)
           two == Erase(doc, q, n)
           left == Erase(one, q - m, n)
           right == Erase(two, p, m)
<1>1. Len(doc) \in Nat
  BY LenProperties
<1>2. /\ one \in Seq(S) /\ Len(one) = Len(doc) - m
      /\ \A i \in 1 .. Len(doc) - m : one[i] = AfterErase(doc, p, m, i)
  <2>1. p + m <= Len(doc)
    BY <1>1
  <2> QED BY <2>1, EraseElements
<1>3. /\ two \in Seq(S) /\ Len(two) = Len(doc) - n
      /\ \A i \in 1 .. Len(doc) - n : two[i] = AfterErase(doc, q, n, i)
  BY EraseElements
<1> HIDE DEF one, two
<1>4. /\ left \in Seq(S) /\ Len(left) = Len(doc) - m - n
      /\ \A i \in 1 .. Len(doc) - m - n : left[i] = AfterErase(one, q - m, n, i)
  <2>1. one \in Seq(S) /\ q - m \in Nat /\ q - m + n <= Len(one)
    BY <1>1, <1>2
  <2>3. /\ left \in Seq(S) /\ Len(left) = Len(one) - n
        /\ \A i \in 1 .. Len(one) - n : left[i] = AfterErase(one, q - m, n, i)
    BY <2>1, EraseElements
  <2> QED BY <2>3, <1>2
<1>5. /\ right \in Seq(S) /\ Len(right) = Len(doc) - m - n
      /\ \A i \in 1 .. Len(doc) - m - n : right[i] = AfterErase(two, p, m, i)
  <2>1. two \in Seq(S) /\ p + m <= Len(two)
    BY <1>1, <1>3
  <2>2. Len(two) - m = Len(doc) - m - n
    BY <1>1, <1>3
  <2>3. /\ right \in Seq(S) /\ Len(right) = Len(two) - m
        /\ \A i \in 1 .. Len(two) - m : right[i] = AfterErase(two, p, m, i)
    BY <2>1, EraseElements
  <2> QED BY <2>2, <2>3
<1>6. ASSUME NEW i \in 1 .. Len(doc) - m - n
      PROVE AfterErase(one, q - m, n, i) = AfterErase(two, p, m, i)
  <2>1. i <= q - m => one[i] = AfterErase(doc, p, m, i)
    BY <1>1, <1>2
  <2>2. one[i + n] = AfterErase(doc, p, m, i + n)
    <3>1. i + n \in 1 .. Len(doc) - m
      BY <1>1
    <3> QED BY <3>1, <1>2
  <2>3. i <= p => two[i] = AfterErase(doc, q, n, i)
    BY <1>1, <1>3
  <2>4. two[i + m] = AfterErase(doc, q, n, i + m)
    <3>1. i + m \in 1 .. Len(doc) - n
      BY <1>1
    <3> QED BY <3>1, <1>3
  <2>5. (i + m) + n = (i + n) + m
    BY <1>1
  <2> QED BY <2>1, <2>2, <2>3, <2>4, <2>5, <1>1 DEF AfterErase
<1> HIDE DEF left, right
<1> QED
  <2>1. left = right
    BY <1>4, <1>5, <1>6, SeqEqual
  <2> QED BY <2>1 DEF left, right, one, two

(* An insert within a deleted range: the range is deleted in two parts.      *)
LEMMA InsertInErase ==
  ASSUME NEW S, NEW doc \in Seq(S), NEW s \in Seq(S),
         NEW p \in Nat, NEW q \in Nat, NEW n \in Nat, q <= p, p <= q + n, q + n <= Len(doc)
  PROVE  Erase(Erase(Inserted(doc, p, s), q, p - q), q + Len(s), n - (p - q))
           = Inserted(Erase(doc, q, n), q, s)
<1>1. Len(doc) \in Nat
  BY LenProperties
<1> DEFINE one == Erase(doc, q, p - q)
<1>2. one \in Seq(S) /\ Len(one) = Len(doc) - (p - q)
  <2>1. p - q \in Nat /\ q + (p - q) <= Len(doc)
    BY <1>1
  <2> QED BY <2>1, EraseElements
<1>3. Erase(Inserted(doc, p, s), q, p - q) = Inserted(one, q, s)
  <2>1. /\ p - q \in Nat /\ q + (p - q) <= p /\ p <= Len(doc)
        /\ p - (p - q) = q
    BY <1>1
  <2>2. Erase(Inserted(doc, p, s), q, p - q) = Inserted(one, p - (p - q), s)
    BY <2>1, InsertAfterErase
  <2> QED BY <2>1, <2>2
<1>4. Erase(one, q, n - (p - q)) = Erase(doc, q, n)
  <2>1. /\ p - q \in Nat /\ n - (p - q) \in Nat
        /\ q <= q /\ q <= q + (n - (p - q)) /\ q + (p - q) <= Len(doc)
        /\ q + (n - (p - q)) + (p - q) <= Len(doc)
    BY <1>1
  <2>2. Erase(one, q, n - (p - q)) = Erase(doc, q, (p - q) + (n - (p - q)))
    BY <2>1, ErasesMerge
  <2>3. (p - q) + (n - (p - q)) = n
    BY <1>1
  <2> QED BY <2>2, <2>3
<1> HIDE DEF one
<1>5. Erase(Inserted(one, q, s), q + Len(s), n - (p - q))
        = Inserted(Erase(one, q, n - (p - q)), q, s)
  <2>1. n - (p - q) \in Nat /\ q <= q /\ q + (n - (p - q)) <= Len(one)
    BY <1>1, <1>2
  <2> QED BY <2>1, <1>2, InsertBeforeErase
<1> QED BY <1>3, <1>4, <1>5

-----------------------------------------------------------------------------
(* Operations                                                                *)

AnInsert(op, S) == \E pos \in Nat, text \in Seq(S) : op = Insert(pos, text)

ADelete(op, S) ==
  \/ \E pos \in Nat, text \in Seq(S) : op = Delete(pos, text)
  \/ \E pos, length, recon, offset :
       pos \in Nat /\ length \in Nat /\ op = RemoteDelete(pos, length, recon, offset)

Simple(op, S) == AnInsert(op, S) \/ ADelete(op, S)

(* inf_adopted_operation_apply for an operation or its two parts: whether it *)
(* can be applied, and what it leaves.                                       *)
Possible(op, doc) ==
  IF IsSplit(op) THEN InBounds(op.first, doc) /\ InBounds(op.second, ApplySimple(op.first, doc))
  ELSE InBounds(op, doc)

Execute(op, doc) ==
  IF IsSplit(op) THEN ApplySimple(op.second, ApplySimple(op.first, doc))
  ELSE ApplySimple(op, doc)

(* An insert's fields, and what it does.                                     *)
LEMMA InsertFields ==
  ASSUME NEW S, NEW op, AnInsert(op, S)
  PROVE  /\ op.pos \in Nat /\ op.text \in Seq(S) /\ Length(op) = Len(op.text)
         /\ Length(op) \in Nat
         /\ IsInsert(op) /\ ~IsDelete(op) /\ ~IsSplit(op)
         /\ \A doc : ApplySimple(op, doc) = Inserted(doc, op.pos, op.text)
         /\ \A doc : InBounds(op, doc) <=> op.pos <= Len(doc)
<1>1. PICK pos \in Nat, text \in Seq(S) : op = Insert(pos, text)
  BY DEF AnInsert
<1>2. op.pos = pos /\ op.text = text /\ op.kind = "insert"
  BY <1>1 DEF Insert
<1>3. Len(text) \in Nat
  BY LenProperties
<1> QED BY <1>2, <1>3
        DEF IsInsert, IsDelete, IsSplit, Length, ApplySimple, InBounds, Inserted

(* An insert that is moved.                                                  *)
LEMMA MoveInsert ==
  ASSUME NEW S, NEW op, AnInsert(op, S), NEW pos \in Nat
  PROVE  /\ AnInsert([op EXCEPT !.pos = pos], S)
         /\ [op EXCEPT !.pos = pos].pos = pos
         /\ [op EXCEPT !.pos = pos].text = op.text
<1>1. PICK p \in Nat, text \in Seq(S) : op = Insert(p, text)
  BY DEF AnInsert
<1>2. [op EXCEPT !.pos = pos] = Insert(pos, text)
  BY <1>1 DEF Insert
<1> QED BY <1>1, <1>2 DEF AnInsert, Insert

(* A delete's fields, and what it does.                                      *)
LEMMA DeleteFields ==
  ASSUME NEW S, NEW op, ADelete(op, S)
  PROVE  /\ op.pos \in Nat /\ Length(op) \in Nat
         /\ ~IsInsert(op) /\ IsDelete(op) /\ ~IsSplit(op)
         /\ \A doc : ApplySimple(op, doc) = Erase(doc, op.pos, Length(op))
         /\ \A doc : InBounds(op, doc) <=> op.pos + Length(op) <= Len(doc)
<1>1. CASE \E pos \in Nat, text \in Seq(S) : op = Delete(pos, text)
  <2>1. PICK pos \in Nat, text \in Seq(S) : op = Delete(pos, text)
    BY <1>1
  <2>2. op.pos = pos /\ op.text = text /\ op.kind = "delete"
    BY <2>1 DEF Delete
  <2>3. Len(text) \in Nat
    BY LenProperties
  <2> QED BY <2>2, <2>3 DEF IsInsert, IsDelete, IsSplit, Length, ApplySimple, InBounds
<1>2. CASE \E pos, length, recon, offset :
             pos \in Nat /\ length \in Nat /\ op = RemoteDelete(pos, length, recon, offset)
  <2>1. PICK pos, length, recon, offset :
          pos \in Nat /\ length \in Nat /\ op = RemoteDelete(pos, length, recon, offset)
    BY <1>2
  <2>2. op.pos = pos /\ op.length = length /\ op.kind = "remote"
    BY <2>1 DEF RemoteDelete
  <2> QED BY <2>1, <2>2 DEF IsInsert, IsDelete, IsSplit, Length, ApplySimple, InBounds
<1> QED BY <1>1, <1>2 DEF ADelete

(* A delete that is moved.                                                   *)
LEMMA MoveDelete ==
  ASSUME NEW S, NEW op, ADelete(op, S), NEW pos \in Nat
  PROVE  /\ ADelete([op EXCEPT !.pos = pos], S)
         /\ [op EXCEPT !.pos = pos].pos = pos
         /\ Length([op EXCEPT !.pos = pos]) = Length(op)
<1>1. CASE \E p \in Nat, text \in Seq(S) : op = Delete(p, text)
  <2>1. PICK p \in Nat, text \in Seq(S) : op = Delete(p, text)
    BY <1>1
  <2>2. [op EXCEPT !.pos = pos] = Delete(pos, text)
    BY <2>1 DEF Delete
  <2> QED BY <2>1, <2>2 DEF ADelete, Delete, Length
<1>2. CASE \E p, length, recon, offset :
             p \in Nat /\ length \in Nat /\ op = RemoteDelete(p, length, recon, offset)
  <2>1. PICK p, length, recon, offset :
          p \in Nat /\ length \in Nat /\ op = RemoteDelete(p, length, recon, offset)
    BY <1>2
  <2>2. [op EXCEPT !.pos = pos] = RemoteDelete(pos, length, recon, offset)
    BY <2>1 DEF RemoteDelete
  <2>3. ADelete(RemoteDelete(pos, length, recon, offset), S)
    BY <2>1 DEF ADelete
  <2>4. /\ RemoteDelete(pos, length, recon, offset).pos = pos
        /\ Length(RemoteDelete(pos, length, recon, offset)) = length
        /\ Length(op) = length
    BY <2>1 DEF RemoteDelete, Length
  <2> QED BY <2>2, <2>3, <2>4
<1> QED BY <1>1, <1>2 DEF ADelete

(* A delete whose text was partly deleted by another one.                    *)
LEMMA OverlapFields ==
  ASSUME NEW S, NEW op, ADelete(op, S), NEW other, NEW position \in Nat, NEW begin \in Nat,
         NEW otherBegin, NEW length \in Nat, begin + length <= Length(op)
  PROVE  LET left == TransformOverlap(op, other, position, begin, otherBegin, length)
         IN /\ ADelete(left, S) /\ left.pos = position
            /\ Length(left) = Length(op) - length
<1> DEFINE left == TransformOverlap(op, other, position, begin, otherBegin, length)
<1>1. CASE \E p \in Nat, text \in Seq(S) : op = Delete(p, text)
  <2>1. PICK p \in Nat, text \in Seq(S) : op = Delete(p, text)
    BY <1>1
  <2>2. op.text = text /\ op.kind = "delete" /\ Length(op) = Len(text)
    BY <2>1 DEF Delete, Length
  <2>3. left = Delete(position, Erase(text, begin, length))
    BY <2>2 DEF TransformOverlap
  <2>4. /\ Erase(text, begin, length) \in Seq(S)
        /\ Len(Erase(text, begin, length)) = Len(text) - length
    BY <2>2, EraseElements
  <2>5. ADelete(left, S)
    BY <2>3, <2>4 DEF ADelete
  <2>6. left.pos = position /\ Length(left) = Len(text) - length
    BY <2>3, <2>4 DEF Delete, Length
  <2> QED BY <2>2, <2>5, <2>6
<1>2. CASE \E p, l, recon, offset : p \in Nat /\ l \in Nat /\ op = RemoteDelete(p, l, recon, offset)
  <2>1. PICK p, l, recon, offset : p \in Nat /\ l \in Nat /\ op = RemoteDelete(p, l, recon, offset)
    BY <1>2
  <2>2. op.length = l /\ op.kind = "remote" /\ Length(op) = l
    BY <2>1 DEF RemoteDelete, Length
  <2> DEFINE fed == ReconFeed(op.recon, begin, Substring(other.text, otherBegin, length))
  <2>3. left = RemoteDelete(position, l - length, fed, op.offset)
    BY <2>2 DEF TransformOverlap
  <2> HIDE DEF fed, left
  <2>4. l - length \in Nat
    BY <2>1, <2>2
  <2>5. ADelete(left, S)
    BY <2>3, <2>4 DEF ADelete
  <2>6. left.pos = position /\ left.length = l - length /\ left.kind = "remote"
    BY <2>3 DEF RemoteDelete
  <2>7. Length(left) = Length(op) - length
    BY <2>2, <2>6 DEF Length
  <2> QED BY <2>5, <2>6, <2>7 DEF left
<1> QED BY <1>1, <1>2 DEF ADelete

(* A delete into whose range text was inserted.                              *)
LEMMA SplitFields ==
  ASSUME NEW S, NEW op, ADelete(op, S), NEW at \in Nat, at <= Length(op), NEW length \in Nat
  PROVE  LET split == TransformSplit(op, at, length)
         IN /\ IsSplit(split)
            /\ ADelete(split.first, S) /\ split.first.pos = op.pos
            /\ Length(split.first) = at
            /\ ADelete(split.second, S) /\ split.second.pos = op.pos + length
            /\ Length(split.second) = Length(op) - at
<1> DEFINE split == TransformSplit(op, at, length)
<1>0. op.pos \in Nat /\ Length(op) \in Nat /\ op.pos + length \in Nat
  BY DeleteFields
<1>1. CASE \E p \in Nat, text \in Seq(S) : op = Delete(p, text)
  <2>1. PICK p \in Nat, text \in Seq(S) : op = Delete(p, text)
    BY <1>1
  <2>2. op.text = text /\ op.kind = "delete" /\ Length(op) = Len(text) /\ op.pos = p
    BY <2>1 DEF Delete, Length
  <2> DEFINE one == Substring(text, 0, at)
             two == Substring(text, at, Len(text) - at)
  <2>3. one \in Seq(S) /\ Len(one) = at
    <3>1. 1 \in 1 .. Len(text) + 1 /\ at \in 0 .. Len(text) /\ 1 <= at + 1 /\ 0 + at = at
      BY <1>0, <2>2
    <3>2. SubSeq(text, 1, at) \in Seq(S) /\ Len(SubSeq(text, 1, at)) = at - 1 + 1
      BY <3>1, Part
    <3> QED BY <3>1, <3>2 DEF Substring
  <2>4. two \in Seq(S) /\ Len(two) = Len(text) - at
    <3>1. /\ at + 1 \in 1 .. Len(text) + 1 /\ Len(text) \in 0 .. Len(text)
          /\ at + 1 <= Len(text) + 1 /\ at + (Len(text) - at) = Len(text)
      BY <1>0, <2>2
    <3>2. /\ SubSeq(text, at + 1, Len(text)) \in Seq(S)
          /\ Len(SubSeq(text, at + 1, Len(text))) = Len(text) - (at + 1) + 1
      BY <3>1, Part
    <3>3. Len(text) - (at + 1) + 1 = Len(text) - at
      BY <1>0, <2>2
    <3> QED BY <3>1, <3>2, <3>3 DEF Substring
  <2>5. split = Split(Delete(p, one), Delete(p + length, two))
    <3>1. [op EXCEPT !.text = Substring(@, 0, at)] = Delete(p, one)
      BY <2>1 DEF Delete
    <3>2. [op EXCEPT !.pos = @ + length, !.text = Substring(@, at, Len(@) - at)]
            = Delete(p + length, two)
      <4> DEFINE moved == [op EXCEPT !.pos = @ + length]
      <4>1. moved = [kind |-> "delete", pos |-> p + length, text |-> text]
        BY <2>1 DEF Delete
      <4>2. [moved EXCEPT !.text = two] = Delete(p + length, two)
        <5>1. ASSUME NEW x, NEW t
              PROVE [[kind |-> "delete", pos |-> x, text |-> text] EXCEPT !.text = t]
                      = [kind |-> "delete", pos |-> x, text |-> t]
          OBVIOUS
        <5> QED BY <4>1, <5>1, Zenon DEF Delete
      <4>3. [op EXCEPT !.pos = @ + length, !.text = Substring(@, at, Len(@) - at)]
              = [moved EXCEPT !.text = Substring(moved.text, at, Len(moved.text) - at)]
        OBVIOUS
      <4>4. moved.text = text
        BY <4>1
      <4> QED BY <4>2, <4>3, <4>4
    <3> QED BY <2>2, <3>1, <3>2 DEF TransformSplit
  <2> HIDE DEF one, two, split
  <2>6. split.first = Delete(p, one) /\ split.second = Delete(p + length, two) /\ IsSplit(split)
    BY <2>5 DEF Split, IsSplit
  <2>7. ADelete(split.first, S) /\ ADelete(split.second, S)
    BY <1>0, <2>2, <2>3, <2>4, <2>6 DEF ADelete
  <2>8. /\ split.first.pos = p /\ Length(split.first) = Len(one)
        /\ split.second.pos = p + length /\ Length(split.second) = Len(two)
    BY <2>6 DEF Delete, Length
  <2> QED BY <2>2, <2>3, <2>4, <2>6, <2>7, <2>8 DEF split
<1>2. CASE \E p, l, recon, offset : p \in Nat /\ l \in Nat /\ op = RemoteDelete(p, l, recon, offset)
  <2>1. PICK p, l, recon, offset : p \in Nat /\ l \in Nat /\ op = RemoteDelete(p, l, recon, offset)
    BY <1>2
  <2>2. op.length = l /\ op.kind = "remote" /\ Length(op) = l /\ op.pos = p
    BY <2>1 DEF RemoteDelete, Length
  <2>3. \E first, second, offset1, offset2 :
          split = Split(RemoteDelete(op.pos, at, first, offset1),
                        RemoteDelete(op.pos + length, op.length - at, second, offset2))
    BY <2>2 DEF TransformSplit
  <2> HIDE DEF split
  <2>4. PICK first, second, offset1, offset2 :
          split = Split(RemoteDelete(op.pos, at, first, offset1),
                        RemoteDelete(op.pos + length, op.length - at, second, offset2))
    BY <2>3
  <2>5. /\ split.first = RemoteDelete(p, at, first, offset1)
        /\ split.second = RemoteDelete(p + length, l - at, second, offset2)
        /\ IsSplit(split)
    BY <2>2, <2>4 DEF Split, IsSplit
  <2>6. l - at \in Nat
    BY <2>1, <2>2
  <2>7. ADelete(split.first, S) /\ ADelete(split.second, S)
    BY <1>0, <2>2, <2>5, <2>6 DEF ADelete
  <2>8. /\ split.first.pos = p /\ Length(split.first) = at
        /\ split.second.pos = p + length /\ Length(split.second) = l - at
    BY <2>5 DEF RemoteDelete, Length
  <2> QED BY <2>2, <2>5, <2>7, <2>8 DEF split
<1> QED BY <1>1, <1>2 DEF ADelete

-----------------------------------------------------------------------------
(* Two operations of one document                                            *)

(* Both can be executed after the other, once transformed to one2 and        *)
(* other2, and it does not matter which comes first.                         *)
Converge(one, one2, other, other2, doc) ==
  /\ Possible(other2, Execute(one, doc)) /\ Possible(one2, Execute(other, doc))
  /\ Execute(other2, Execute(one, doc)) = Execute(one2, Execute(other, doc))

(* Two inserts: the one in front stays.                                      *)
LEMMA InsertsMeet ==
  ASSUME NEW S, NEW doc \in Seq(S), NEW one, NEW other, AnInsert(one, S), AnInsert(other, S),
         one.pos <= other.pos, other.pos <= Len(doc)
  PROVE  Converge(one, one, other, [other EXCEPT !.pos = @ + Length(one)], doc)
<1> DEFINE p == one.pos
           q == other.pos
           moved == [other EXCEPT !.pos = @ + Length(one)]
<1>1. Len(doc) \in Nat
  BY LenProperties
<1>2. /\ p \in Nat /\ one.text \in Seq(S) /\ Length(one) = Len(one.text) /\ Length(one) \in Nat
      /\ ~IsSplit(one)
      /\ \A d : ApplySimple(one, d) = Inserted(d, p, one.text)
      /\ \A d : InBounds(one, d) <=> p <= Len(d)
  BY InsertFields
<1>3. /\ q \in Nat /\ other.text \in Seq(S) /\ Len(other.text) \in Nat /\ ~IsSplit(other)
      /\ \A d : ApplySimple(other, d) = Inserted(d, q, other.text)
  BY InsertFields
<1>4. AnInsert(moved, S) /\ moved.pos = q + Len(one.text) /\ moved.text = other.text
  <2>1. q + Length(one) \in Nat
    BY <1>2, <1>3
  <2>2. moved = [other EXCEPT !.pos = q + Length(one)]
    OBVIOUS
  <2> HIDE DEF moved, q
  <2> QED BY <2>1, <2>2, <1>2, MoveInsert
<1> HIDE DEF moved
<1>5. /\ ~IsSplit(moved)
      /\ \A d : ApplySimple(moved, d) = Inserted(d, q + Len(one.text), other.text)
      /\ \A d : InBounds(moved, d) <=> q + Len(one.text) <= Len(d)
  BY <1>4, InsertFields
<1>6. p \in 0 .. Len(doc) /\ q \in 0 .. Len(doc)
  BY <1>1, <1>2, <1>3
<1>7. /\ Len(Inserted(doc, p, one.text)) = Len(doc) + Len(one.text)
      /\ Len(Inserted(doc, q, other.text)) = Len(doc) + Len(other.text)
  BY <1>2, <1>3, <1>6, InsertElements
<1>8. Inserted(Inserted(doc, p, one.text), q + Len(one.text), other.text)
        = Inserted(Inserted(doc, q, other.text), p, one.text)
  <2>1. one.text \in Seq(S) /\ other.text \in Seq(S) /\ p <= q
    BY <1>2, <1>3
  <2> DEFINE s == one.text
             t == other.text
  <2>2. s \in Seq(S) /\ t \in Seq(S)
    BY <2>1
  <2> HIDE DEF p, q, s, t
  <2>3. Inserted(Inserted(doc, p, s), q + Len(s), t) = Inserted(Inserted(doc, q, t), p, s)
    BY <2>1, <2>2, <1>6, TwoInserts
  <2> QED BY <2>3 DEF s, t
<1>9. /\ Execute(one, doc) = Inserted(doc, p, one.text)
      /\ Execute(other, doc) = Inserted(doc, q, other.text)
      /\ Execute(moved, Execute(one, doc))
           = Inserted(Inserted(doc, p, one.text), q + Len(one.text), other.text)
      /\ Execute(one, Execute(other, doc))
           = Inserted(Inserted(doc, q, other.text), p, one.text)
  BY <1>2, <1>3, <1>5 DEF Execute
<1>10. q + Len(one.text) <= Len(doc) + Len(one.text) /\ p <= Len(doc) + Len(other.text)
  BY <1>1, <1>2, <1>3
<1>11. Possible(moved, Execute(one, doc)) /\ Possible(one, Execute(other, doc))
  BY <1>2, <1>5, <1>7, <1>9, <1>10 DEF Possible
<1> QED BY <1>8, <1>9, <1>11 DEF Converge, moved

(* An insert and a delete.                                                   *)
LEMMA InsertMeetsDelete ==
  ASSUME NEW S, NEW doc \in Seq(S), NEW one, NEW other, AnInsert(one, S), ADelete(other, S),
         InBounds(one, doc), InBounds(other, doc)
  PROVE  Converge(one, InsertTransformDelete(one, other),
                  other, DeleteTransformInsert(other, one), doc)
<1> DEFINE p == one.pos
           s == one.text
           q == other.pos
           n == Length(other)
           one2 == InsertTransformDelete(one, other)
           other2 == DeleteTransformInsert(other, one)
<1>1. Len(doc) \in Nat
  BY LenProperties
<1>2. /\ p \in Nat /\ s \in Seq(S) /\ Length(one) = Len(s) /\ Len(s) \in Nat /\ ~IsSplit(one)
      /\ \A d : ApplySimple(one, d) = Inserted(d, p, s)
      /\ p <= Len(doc)
  BY InsertFields
<1>3. /\ q \in Nat /\ n \in Nat /\ ~IsSplit(other)
      /\ \A d : ApplySimple(other, d) = Erase(d, q, n)
      /\ q + n <= Len(doc)
  BY DeleteFields
<1> DEFINE first == Inserted(doc, p, s)
           second == Erase(doc, q, n)
<1>4. Execute(one, doc) = first /\ Execute(other, doc) = second
  BY <1>2, <1>3 DEF Execute
<1>5. first \in Seq(S) /\ Len(first) = Len(doc) + Len(s)
  <2>1. p \in 0 .. Len(doc)
    BY <1>1, <1>2
  <2> QED BY <2>1, <1>2, InsertElements
<1>6. second \in Seq(S) /\ Len(second) = Len(doc) - n
  BY <1>3, EraseElements
<1>7. ASSUME NEW r \in Nat, one2 = [one EXCEPT !.pos = r]
      PROVE  /\ ~IsSplit(one2)
             /\ \A d : ApplySimple(one2, d) = Inserted(d, r, s)
             /\ \A d : InBounds(one2, d) <=> r <= Len(d)
  <2>1. AnInsert(one2, S) /\ one2.pos = r /\ one2.text = s
    BY <1>7, MoveInsert
  <2> HIDE DEF one2
  <2> QED BY <2>1, InsertFields
<1> HIDE DEF first, second, one2, other2, p, q, s, n
<1>8. CASE p >= q + n
  <2>1. one2 = [one EXCEPT !.pos = p - n]
    BY <1>8 DEF one2, InsertTransformDelete, p, q, n
  <2>2. other2 = other
    BY <1>8 DEF other2, DeleteTransformInsert, p, q, n
  <2>3. p - n \in Nat /\ p - n <= Len(doc) - n /\ q + n <= Len(doc) + Len(s)
    BY <1>1, <1>2, <1>3, <1>8
  <2>4. /\ ~IsSplit(one2)
        /\ \A d : ApplySimple(one2, d) = Inserted(d, p - n, s)
        /\ \A d : InBounds(one2, d) <=> p - n <= Len(d)
    BY <2>1, <2>3, <1>7
  <2>5. Erase(first, q, n) = Inserted(second, p - n, s)
    BY <1>2, <1>3, <1>8, InsertAfterErase DEF first, second
  <2>6. \A d : InBounds(other, d) <=> q + n <= Len(d)
    BY DeleteFields DEF q, n
  <2>7. Possible(other2, first) /\ Possible(one2, second)
    BY <2>2, <2>3, <2>4, <2>6, <1>3, <1>5, <1>6 DEF Possible
  <2>8. /\ Execute(other2, first) = Erase(first, q, n)
        /\ Execute(one2, second) = Inserted(second, p - n, s)
    BY <2>2, <2>4, <1>3 DEF Execute
  <2> QED BY <2>5, <2>7, <2>8, <1>4 DEF Converge, one2, other2
<1>9. CASE ~(p >= q + n) /\ p <= q
  <2>1. one2 = [one EXCEPT !.pos = p]
    <3>1. (IF p < q THEN p ELSE q) = p
      BY <1>2, <1>3, <1>9
    <3>2. one2 = [one EXCEPT !.pos = IF p >= q + n THEN p - n ELSE IF p < q THEN p ELSE q]
      BY DEF one2, InsertTransformDelete, p, q, n
    <3> QED BY <3>1, <3>2, <1>9
  <2>2. other2 = [other EXCEPT !.pos = q + Len(s)]
    BY <1>2, <1>9 DEF other2, DeleteTransformInsert, p, q, n
  <2>3. /\ q + Len(s) \in Nat /\ q + Len(s) + n <= Len(doc) + Len(s) /\ p <= Len(doc) - n
    BY <1>1, <1>2, <1>3, <1>9
  <2>4. /\ ~IsSplit(one2)
        /\ \A d : ApplySimple(one2, d) = Inserted(d, p, s)
        /\ \A d : InBounds(one2, d) <=> p <= Len(d)
    BY <2>1, <1>2, <1>7
  <2>5. Erase(first, q + Len(s), n) = Inserted(second, p, s)
    BY <1>2, <1>3, <1>9, InsertBeforeErase DEF first, second
  <2>6. ADelete(other2, S) /\ other2.pos = q + Len(s) /\ Length(other2) = n
    BY <2>2, <2>3, MoveDelete DEF n
  <2>7. /\ ~IsSplit(other2)
        /\ \A d : ApplySimple(other2, d) = Erase(d, q + Len(s), n)
        /\ \A d : InBounds(other2, d) <=> q + Len(s) + n <= Len(d)
    BY <2>6, DeleteFields
  <2>8. Possible(other2, first) /\ Possible(one2, second)
    BY <2>3, <2>4, <2>7, <1>5, <1>6 DEF Possible
  <2>9. /\ Execute(other2, first) = Erase(first, q + Len(s), n)
        /\ Execute(one2, second) = Inserted(second, p, s)
    BY <2>4, <2>7 DEF Execute
  <2> QED BY <2>5, <2>8, <2>9, <1>4 DEF Converge, one2, other2
<1>10. CASE ~(p >= q + n) /\ ~(p <= q)
  <2>1. one2 = [one EXCEPT !.pos = q]
    <3>1. (IF p < q THEN p ELSE q) = q
      BY <1>2, <1>3, <1>10
    <3>2. one2 = [one EXCEPT !.pos = IF p >= q + n THEN p - n ELSE IF p < q THEN p ELSE q]
      BY DEF one2, InsertTransformDelete, p, q, n
    <3> QED BY <3>1, <3>2, <1>10
  <2>2. other2 = TransformSplit(other, p - q, Len(s))
    BY <1>2, <1>10 DEF other2, DeleteTransformInsert, p, q, n
  <2>3. /\ p - q \in Nat /\ p - q <= n /\ q <= p /\ p <= q + n
        /\ q + (p - q) <= Len(doc) + Len(s)
        /\ q + Len(s) + (n - (p - q)) <= Len(doc) + Len(s) - (p - q)
        /\ q <= Len(doc) - n
    BY <1>1, <1>2, <1>3, <1>10
  <2>4. /\ ~IsSplit(one2)
        /\ \A d : ApplySimple(one2, d) = Inserted(d, q, s)
        /\ \A d : InBounds(one2, d) <=> q <= Len(d)
    BY <2>1, <1>3, <1>7
  <2>5. Erase(Erase(first, q, p - q), q + Len(s), n - (p - q)) = Inserted(second, q, s)
    BY <2>3, <1>2, <1>3, InsertInErase DEF first, second
  <2>6. /\ IsSplit(other2)
        /\ ADelete(other2.first, S) /\ other2.first.pos = q /\ Length(other2.first) = p - q
        /\ ADelete(other2.second, S) /\ other2.second.pos = q + Len(s)
        /\ Length(other2.second) = n - (p - q)
    BY <2>2, <2>3, <1>2, SplitFields DEF q, n
  <2>7. /\ \A d : ApplySimple(other2.first, d) = Erase(d, q, p - q)
        /\ \A d : InBounds(other2.first, d) <=> q + (p - q) <= Len(d)
    BY <2>6, DeleteFields
  <2>8. /\ \A d : ApplySimple(other2.second, d) = Erase(d, q + Len(s), n - (p - q))
        /\ \A d : InBounds(other2.second, d) <=> q + Len(s) + (n - (p - q)) <= Len(d)
    BY <2>6, DeleteFields
  <2>9. Len(Erase(first, q, p - q)) = Len(doc) + Len(s) - (p - q)
    <3>1. q + (p - q) <= Len(first)
      BY <2>3, <1>5
    <3>2. Len(Erase(first, q, p - q)) = Len(first) - (p - q)
      BY <3>1, <2>3, <1>3, <1>5, EraseElements
    <3>3. Len(first) = Len(doc) + Len(s)
      BY <1>5
    <3> QED BY <3>2, <3>3, <2>3, <1>1, <1>2
  <2>10. Possible(other2, first) /\ Possible(one2, second)
    BY <2>3, <2>4, <2>6, <2>7, <2>8, <2>9, <1>5, <1>6 DEF Possible
  <2>11. /\ Execute(other2, first) = Erase(Erase(first, q, p - q), q + Len(s), n - (p - q))
         /\ Execute(one2, second) = Inserted(second, q, s)
    BY <2>4, <2>6, <2>7, <2>8 DEF Execute
  <2> QED BY <2>5, <2>10, <2>11, <1>4 DEF Converge, one2, other2
<1> QED BY <1>8, <1>9, <1>10

(* Two deletes of overlapping ranges, the first not behind the second: what  *)
(* is left of either begins where the first does.                            *)
LEMMA DeletesOverlap ==
  ASSUME NEW S, NEW one, NEW other, ADelete(one, S), ADelete(other, S),
         one.pos <= other.pos, other.pos < one.pos + Length(one),
         NEW r, r = IF one.pos + Length(one) >= other.pos + Length(other) THEN Length(other)
                    ELSE one.pos + Length(one) - other.pos
  PROVE  LET one2 == DeleteTransformDelete(one, other)
             other2 == DeleteTransformDelete(other, one)
         IN /\ ADelete(one2, S) /\ one2.pos = one.pos /\ Length(one2) = Length(one) - r
            /\ ADelete(other2, S) /\ other2.pos = one.pos /\ Length(other2) = Length(other) - r
<1> DEFINE p == one.pos
           m == Length(one)
           q == other.pos
           n == Length(other)
           one2 == DeleteTransformDelete(one, other)
           other2 == DeleteTransformDelete(other, one)
<1>1. p \in Nat /\ m \in Nat /\ q \in Nat /\ n \in Nat
  BY DeleteFields
<1>2. p <= q /\ q < p + m /\ r = IF p + m >= q + n THEN n ELSE p + m - q
  OBVIOUS
<1>3. one2 = IF p + m <= q THEN one
             ELSE IF p >= q + n THEN [one EXCEPT !.pos = p - n]
             ELSE IF q <= p THEN TransformOverlap(one, other, q, 0, p - q,
                                   IF q + n >= p + m THEN m ELSE (q + n) - p)
             ELSE TransformOverlap(one, other, p, q - p, 0,
                                   IF q + n >= p + m THEN (p + m) - q ELSE n)
  BY DEF DeleteTransformDelete
<1>4. other2 = IF q + n <= p THEN other
               ELSE IF q >= p + m THEN [other EXCEPT !.pos = q - m]
               ELSE IF p <= q THEN TransformOverlap(other, one, p, 0, q - p,
                                     IF p + m >= q + n THEN n ELSE (p + m) - q)
               ELSE TransformOverlap(other, one, q, p - q, 0,
                                     IF p + m >= q + n THEN (q + n) - p ELSE m)
  BY DEF DeleteTransformDelete
<1> HIDE DEF p, q, m, n, one2, other2
<1>5. r \in Nat /\ r <= n /\ (q - p) + r <= m /\ q - p \in Nat /\ r <= m
  BY <1>1, <1>2
<1>6. ADelete(one2, S) /\ one2.pos = p /\ Length(one2) = m - r
  <2>1. CASE p >= q + n
    <3>1. p = q /\ n = 0 /\ r = 0 /\ p - n = p /\ m - r = m
      BY <2>1, <1>1, <1>2
    <3>2. one2 = [one EXCEPT !.pos = p]
      <4>1. ~(p + m <= q)
        BY <1>1, <1>2
      <4> QED BY <4>1, <2>1, <3>1, <1>3
    <3>3. ADelete(one2, S) /\ one2.pos = p /\ Length(one2) = m
      BY <3>2, <1>1, MoveDelete DEF m
    <3> QED BY <3>1, <3>3
  <2>2. CASE ~(p >= q + n) /\ q <= p
    <3>1. /\ p = q /\ ~(p + m <= q)
          /\ (IF q + n >= p + m THEN m ELSE (q + n) - p) = r
      BY <2>2, <1>1, <1>2
    <3>2. one2 = TransformOverlap(one, other, p, 0, p - q, r)
      BY <2>2, <3>1, <1>3, Zenon
    <3>3. 0 \in Nat /\ 0 + r <= m
      BY <1>1, <1>5
    <3> QED BY <3>2, <3>3, <1>1, <1>5, OverlapFields DEF m
  <2>3. CASE ~(p >= q + n) /\ ~(q <= p)
    <3>1. /\ ~(p + m <= q)
          /\ (IF q + n >= p + m THEN (p + m) - q ELSE n) = r
      BY <2>3, <1>1, <1>2
    <3>2. one2 = TransformOverlap(one, other, p, q - p, 0, r)
      BY <2>3, <3>1, <1>3, Zenon
    <3> QED BY <3>2, <1>1, <1>5, OverlapFields DEF m
  <2> QED BY <2>1, <2>2, <2>3
<1>7. ADelete(other2, S) /\ other2.pos = p /\ Length(other2) = n - r
  <2>1. CASE q + n <= p
    <3>1. p = q /\ n = 0 /\ r = 0 /\ n - r = n
      BY <2>1, <1>1, <1>2
    <3>2. other2 = other
      BY <2>1, <1>4
    <3> QED BY <3>1, <3>2 DEF n, q
  <2>2. CASE ~(q + n <= p)
    <3>1. /\ ~(q >= p + m) /\ p <= q
          /\ (IF p + m >= q + n THEN n ELSE (p + m) - q) = r
      BY <1>1, <1>2
    <3>2. other2 = TransformOverlap(other, one, p, 0, q - p, r)
      BY <2>2, <3>1, <1>4, Zenon
    <3>3. 0 \in Nat /\ 0 + r <= n
      BY <1>5
    <3> QED BY <3>2, <3>3, <1>1, <1>5, OverlapFields DEF n
  <2> QED BY <2>1, <2>2
<1> QED BY <1>6, <1>7 DEF one2, other2, p, m, n

(* Two deletes, the first not behind the second.                             *)
LEMMA DeletesMeet ==
  ASSUME NEW S, NEW doc \in Seq(S), NEW one, NEW other, ADelete(one, S), ADelete(other, S),
         InBounds(one, doc), InBounds(other, doc), one.pos <= other.pos
  PROVE  Converge(one, DeleteTransformDelete(one, other),
                  other, DeleteTransformDelete(other, one), doc)
<1> DEFINE p == one.pos
           m == Length(one)
           q == other.pos
           n == Length(other)
           one2 == DeleteTransformDelete(one, other)
           other2 == DeleteTransformDelete(other, one)
           first == Erase(doc, p, m)
           second == Erase(doc, q, n)
<1>1. Len(doc) \in Nat
  BY LenProperties
<1>2. /\ p \in Nat /\ m \in Nat /\ p + m <= Len(doc) /\ p <= q /\ ~IsSplit(one)
      /\ \A d : ApplySimple(one, d) = Erase(d, p, m)
      /\ \A d : InBounds(one, d) <=> p + m <= Len(d)
  BY DeleteFields
<1>3. /\ q \in Nat /\ n \in Nat /\ q + n <= Len(doc) /\ ~IsSplit(other)
      /\ \A d : ApplySimple(other, d) = Erase(d, q, n)
      /\ \A d : InBounds(other, d) <=> q + n <= Len(d)
  BY DeleteFields
<1>4. Execute(one, doc) = first /\ Execute(other, doc) = second
  BY <1>2, <1>3 DEF Execute
<1>5. first \in Seq(S) /\ Len(first) = Len(doc) - m
  BY <1>2, EraseElements
<1>6. second \in Seq(S) /\ Len(second) = Len(doc) - n
  BY <1>3, EraseElements
(* It is enough to know where the transformed operations are and how long.   *)
<1>7. ASSUME NEW a \in Nat, NEW k \in Nat, NEW b \in Nat, NEW l \in Nat,
             ADelete(one2, S), one2.pos = a, Length(one2) = k,
             ADelete(other2, S), other2.pos = b, Length(other2) = l,
             b + l <= Len(doc) - m, a + k <= Len(doc) - n,
             Erase(first, b, l) = Erase(second, a, k)
      PROVE  Converge(one, one2, other, other2, doc)
  <2> HIDE DEF one2, other2, first, second, m, n
  <2>1. /\ ~IsSplit(one2) /\ ApplySimple(one2, second) = Erase(second, a, k)
        /\ InBounds(one2, second)
    BY <1>7, <1>6, DeleteFields
  <2>2. /\ ~IsSplit(other2) /\ ApplySimple(other2, first) = Erase(first, b, l)
        /\ InBounds(other2, first)
    BY <1>7, <1>5, DeleteFields
  <2> QED BY <2>1, <2>2, <1>4, <1>7 DEF Converge, Possible, Execute
<1>8. CASE p + m <= q
  <2>1. one2 = one
    BY <1>8 DEF DeleteTransformDelete
  <2>2. ADelete(other2, S) /\ other2.pos = q - m /\ Length(other2) = n
    <3>1. CASE q + n <= p
      <4>1. other2 = other /\ q - m = q
        BY <3>1, <1>2, <1>3, <1>8 DEF DeleteTransformDelete
      <4> QED BY <4>1
    <3>2. CASE ~(q + n <= p)
      <4>1. q >= p + m
        BY <1>2, <1>3, <1>8
      <4>2. other2 = [other EXCEPT !.pos = q - m]
        BY <3>2, <4>1 DEF DeleteTransformDelete
      <4>3. q - m \in Nat
        BY <1>2, <1>3, <1>8
      <4> HIDE DEF other2, q, m
      <4> QED BY <4>2, <4>3, MoveDelete
    <3> QED BY <3>1, <3>2
  <2> HIDE DEF one2, other2, p, q, m, n
  <2>3. q - m \in Nat /\ q - m + n <= Len(doc) - m /\ p + m <= Len(doc) - n
    BY <1>1, <1>2, <1>3, <1>8
  <2>4. Erase(first, q - m, n) = Erase(second, p, m)
    BY <1>2, <1>3, <1>8, ErasesCommute
  <2>5. ADelete(one2, S) /\ one2.pos = p /\ Length(one2) = m
    BY <2>1 DEF p, m
  <2> HIDE DEF first, second
  <2> QED BY <2>2, <2>3, <2>4, <2>5, <1>2, <1>3, <1>7 DEF one2, other2
<1>9. CASE ~(p + m <= q)
  <2> DEFINE r == IF p + m >= q + n THEN n ELSE p + m - q
  <2>1. q < p + m
    BY <1>2, <1>3, <1>9
  <2>2. /\ ADelete(one2, S) /\ one2.pos = p /\ Length(one2) = m - r
        /\ ADelete(other2, S) /\ other2.pos = p /\ Length(other2) = n - r
    <3>1. r = IF p + m >= q + n THEN n ELSE p + m - q
      OBVIOUS
    <3>2. p <= q
      BY <1>2
    <3> HIDE DEF r
    <3> QED BY <3>1, <3>2, <2>1, DeletesOverlap
  <2>3. /\ r \in Nat /\ m - r \in Nat /\ n - r \in Nat
        /\ p + (n - r) <= Len(doc) - m /\ p + (m - r) <= Len(doc) - n
        /\ q <= p + (m - r) /\ m + (n - r) = n + (m - r)
        /\ p + (n - r) + m <= Len(doc) /\ p + (m - r) + n <= Len(doc)
        /\ p <= p + (n - r)
    <3> HIDE DEF p, q, m, n
    <3>1. CASE p + m >= q + n
      BY <3>1, <2>1, <1>1, <1>2, <1>3
    <3>2. CASE ~(p + m >= q + n)
      BY <3>2, <2>1, <1>1, <1>2, <1>3
    <3> QED BY <3>1, <3>2
  <2> HIDE DEF one2, other2, p, q, m, n, r
  <2>4. Erase(first, p, n - r) = Erase(doc, p, m + (n - r))
    <3>1. p <= p
      BY <1>2
    <3> QED BY <3>1, <2>3, <1>2, ErasesMerge
  <2>5. Erase(second, p, m - r) = Erase(doc, p, n + (m - r))
    BY <2>3, <1>2, <1>3, ErasesMerge
  <2>6. Erase(first, p, n - r) = Erase(second, p, m - r)
    BY <2>3, <2>4, <2>5
  <2> HIDE DEF first, second
  <2> QED BY <2>2, <2>3, <2>6, <1>2, <1>7 DEF one2, other2
<1> QED BY <1>8, <1>9

(* Whether a tie is broken: where both operations insert at the same place,  *)
(* they are known at an earlier state, or the concurrency id decides.        *)
TieBroken(one, other, one_lcs, other_lcs, cid) ==
  NeedConcurrencyIdSimple(one, other) =>
    /\ one_lcs.pos \in Nat /\ other_lcs.pos \in Nat
    /\ cid \in {CONCURRENCY_SELF, CONCURRENCY_OTHER}

(* Transformation property 1 (test_c1 of inf-test-text-operations.c), which  *)
(* the adOPTed algorithm rests on: of two operations that insert or delete   *)
(* anywhere in any document, each can be executed after the other, once      *)
(* transformed against it, and the document is the same in either order.     *)
(* The deletes may have their text or, received from the network, not.       *)
THEOREM TransformationProperty1 ==
  ASSUME NEW S, NEW doc \in Seq(S), NEW one, NEW other, Simple(one, S), Simple(other, S),
         InBounds(one, doc), InBounds(other, doc),
         NEW one_lcs, NEW other_lcs, NEW cid, TieBroken(one, other, one_lcs, other_lcs, cid)
  PROVE  Converge(one, TransformSimple(one, other, one_lcs, other_lcs, cid),
                  other, TransformSimple(other, one, other_lcs, one_lcs, -cid), doc)
<1> DEFINE one2 == TransformSimple(one, other, one_lcs, other_lcs, cid)
           other2 == TransformSimple(other, one, other_lcs, one_lcs, -cid)
<1>1. CASE AnInsert(one, S) /\ AnInsert(other, S)
  <2>1. /\ IsInsert(one) /\ ~IsDelete(one) /\ one.pos \in Nat /\ one.pos <= Len(doc)
        /\ IsInsert(other) /\ ~IsDelete(other) /\ other.pos \in Nat /\ other.pos <= Len(doc)
    BY <1>1, InsertFields
  <2>2. /\ one2 = InsertTransformInsert(one, other, one_lcs, other_lcs, cid)
        /\ other2 = InsertTransformInsert(other, one, other_lcs, one_lcs, -cid)
    BY <2>1 DEF TransformSimple
  <2> HIDE DEF one2, other2
  <2> DEFINE moved1 == [one EXCEPT !.pos = @ + Length(other)]
             moved2 == [other EXCEPT !.pos = @ + Length(one)]
  <2>3. \/ one2 = one /\ other2 = moved2 /\ one.pos <= other.pos
        \/ other2 = other /\ one2 = moved1 /\ other.pos <= one.pos
    <3>1. CASE one.pos < other.pos
      <4>1. ~(other.pos < one.pos) /\ one.pos # other.pos /\ one.pos <= other.pos
        BY <3>1, <2>1
      <4> QED BY <3>1, <4>1, <2>2 DEF InsertTransformInsert
    <3>2. CASE other.pos < one.pos
      <4>1. ~(one.pos < other.pos) /\ one.pos # other.pos /\ other.pos <= one.pos
        BY <3>2, <2>1
      <4> QED BY <3>2, <4>1, <2>2 DEF InsertTransformInsert
    <3>3. CASE one.pos = other.pos
      <4>1. /\ one_lcs.pos \in Nat /\ other_lcs.pos \in Nat
            /\ cid \in {1, -1}
        BY <3>3, <2>1 DEF TieBroken, NeedConcurrencyIdSimple, CONCURRENCY_SELF, CONCURRENCY_OTHER
      <4> DEFINE stays1 == \/ one_lcs.pos < other_lcs.pos
                           \/ one_lcs.pos = other_lcs.pos /\ cid = -1
                 stays2 == \/ other_lcs.pos < one_lcs.pos
                           \/ other_lcs.pos = one_lcs.pos /\ -cid = -1
      <4>2. stays1 <=> ~stays2
        BY <4>1
      <4>3. ~(one.pos < other.pos) /\ ~(other.pos < one.pos)
            /\ one.pos <= other.pos /\ other.pos <= one.pos
        BY <3>3, <2>1
      <4>4. one2 = IF stays1 THEN one ELSE moved1
        BY <3>3, <4>3, <2>2 DEF InsertTransformInsert, CONCURRENCY_OTHER
      <4>5. other2 = IF stays2 THEN other ELSE moved2
        BY <3>3, <4>3, <2>2 DEF InsertTransformInsert, CONCURRENCY_OTHER
      <4> HIDE DEF stays1, stays2, moved1, moved2
      <4> QED BY <4>2, <4>3, <4>4, <4>5
    <3> QED BY <3>1, <3>2, <3>3, <2>1
  <2>4. CASE one2 = one /\ other2 = moved2 /\ one.pos <= other.pos
    BY <2>4, <2>1, <1>1, InsertsMeet DEF one2, other2
  <2>5. CASE other2 = other /\ one2 = moved1 /\ other.pos <= one.pos
    <3>1. Converge(other, other2, one, one2, doc)
      BY <2>5, <2>1, <1>1, InsertsMeet
    <3> QED BY <3>1 DEF Converge, one2, other2
  <2> QED BY <2>3, <2>4, <2>5
<1>2. CASE AnInsert(one, S) /\ ADelete(other, S)
  <2>1. IsInsert(one) /\ ~IsDelete(one) /\ ~IsInsert(other) /\ IsDelete(other)
    BY <1>2, InsertFields, DeleteFields
  <2>2. one2 = InsertTransformDelete(one, other) /\ other2 = DeleteTransformInsert(other, one)
    BY <2>1 DEF TransformSimple
  <2> QED BY <2>2, <1>2, InsertMeetsDelete
<1>3. CASE ADelete(one, S) /\ AnInsert(other, S)
  <2>1. IsInsert(other) /\ ~IsDelete(other) /\ ~IsInsert(one) /\ IsDelete(one)
    BY <1>3, InsertFields, DeleteFields
  <2>2. other2 = InsertTransformDelete(other, one) /\ one2 = DeleteTransformInsert(one, other)
    BY <2>1 DEF TransformSimple
  <2>3. Converge(other, other2, one, one2, doc)
    BY <2>2, <1>3, InsertMeetsDelete
  <2> QED BY <2>3 DEF Converge
<1>4. CASE ADelete(one, S) /\ ADelete(other, S)
  <2>1. IsDelete(other) /\ ~IsInsert(other) /\ ~IsInsert(one) /\ IsDelete(one)
    BY <1>4, DeleteFields
  <2>2. one2 = DeleteTransformDelete(one, other) /\ other2 = DeleteTransformDelete(other, one)
    BY <2>1 DEF TransformSimple
  <2>3. CASE one.pos <= other.pos
    BY <2>2, <2>3, <1>4, DeletesMeet
  <2>4. CASE other.pos <= one.pos
    <3>1. Converge(other, other2, one, one2, doc)
      BY <2>2, <2>4, <1>4, DeletesMeet
    <3> QED BY <3>1 DEF Converge
  <2>5. one.pos \in Nat /\ other.pos \in Nat
    BY <1>4, DeleteFields
  <2> QED BY <2>3, <2>4, <2>5
<1> QED BY <1>1, <1>2, <1>3, <1>4 DEF Simple

-----------------------------------------------------------------------------
(* The text of a delete                                                      *)

(* A delete that has its text deletes exactly this text.                     *)
HasItsText(op, doc) ==
  op.kind = "delete" => \A i \in 1 .. Len(op.text) : op.text[i] = doc[op.pos + i]

(* The same for an operation or its two parts, one after the other.          *)
KeepsText(op, doc) ==
  IF IsSplit(op) THEN HasItsText(op.first, doc)
                      /\ HasItsText(op.second, ApplySimple(op.first, doc))
  ELSE HasItsText(op, doc)

(* inf_adopted_operation_revert of an operation or its two parts             *)
Reverted(op) ==
  IF IsSplit(op) THEN Split(RevertSimple(op.second), RevertSimple(op.first))
  ELSE RevertSimple(op)

HasText(op, S) == \E pos \in Nat, text \in Seq(S) : op = Insert(pos, text) \/ op = Delete(pos, text)

(* Erasing what was inserted, and inserting what was erased.                 *)
LEMMA EraseInserted ==
  ASSUME NEW S, NEW doc \in Seq(S), NEW p \in 0 .. Len(doc), NEW s \in Seq(S)
  PROVE  /\ p + Len(s) <= Len(Inserted(doc, p, s))
         /\ Erase(Inserted(doc, p, s), p, Len(s)) = doc
<1> DEFINE one == Inserted(doc, p, s)
           back == Erase(one, p, Len(s))
<1>1. Len(doc) \in Nat /\ Len(s) \in Nat /\ p \in Nat
  BY LenProperties
<1>2. /\ one \in Seq(S) /\ Len(one) = Len(doc) + Len(s)
      /\ \A i \in 1 .. Len(doc) + Len(s) : one[i] = AfterInsert(doc, p, s, i)
  BY InsertElements
<1> HIDE DEF one
<1>3. p + Len(s) <= Len(one)
  BY <1>1, <1>2
<1>4. /\ back \in Seq(S) /\ Len(back) = Len(doc)
      /\ \A i \in 1 .. Len(doc) : back[i] = AfterErase(one, p, Len(s), i)
  <2>1. Len(one) - Len(s) = Len(doc)
    BY <1>1, <1>2
  <2>2. /\ back \in Seq(S) /\ Len(back) = Len(one) - Len(s)
        /\ \A i \in 1 .. Len(one) - Len(s) : back[i] = AfterErase(one, p, Len(s), i)
    BY <1>1, <1>2, <1>3, EraseElements
  <2> QED BY <2>1, <2>2
<1>5. ASSUME NEW i \in 1 .. Len(doc)
      PROVE AfterErase(one, p, Len(s), i) = doc[i]
  <2>1. i <= p => one[i] = AfterInsert(doc, p, s, i)
    BY <1>1, <1>2
  <2>2. one[i + Len(s)] = AfterInsert(doc, p, s, i + Len(s))
    <3>1. i + Len(s) \in 1 .. Len(doc) + Len(s)
      BY <1>1
    <3> QED BY <3>1, <1>2
  <2>3. (i + Len(s)) - Len(s) = i
    BY <1>1
  <2> QED BY <2>1, <2>2, <2>3, <1>1 DEF AfterErase, AfterInsert
<1> HIDE DEF back
<1>6. back = doc
  BY <1>4, <1>5, SeqEqual
<1> QED BY <1>3, <1>6 DEF back, one

LEMMA InsertErased ==
  ASSUME NEW S, NEW doc \in Seq(S), NEW p \in Nat, NEW s \in Seq(S), p + Len(s) <= Len(doc),
         \A i \in 1 .. Len(s) : s[i] = doc[p + i]
  PROVE  /\ p <= Len(Erase(doc, p, Len(s)))
         /\ Inserted(Erase(doc, p, Len(s)), p, s) = doc
<1> DEFINE one == Erase(doc, p, Len(s))
           back == Inserted(one, p, s)
<1>1. Len(doc) \in Nat /\ Len(s) \in Nat
  BY LenProperties
<1>2. /\ one \in Seq(S) /\ Len(one) = Len(doc) - Len(s)
      /\ \A i \in 1 .. Len(doc) - Len(s) : one[i] = AfterErase(doc, p, Len(s), i)
  BY <1>1, EraseElements
<1> HIDE DEF one
<1>3. p <= Len(one) /\ p \in 0 .. Len(one)
  BY <1>1, <1>2
<1>4. /\ back \in Seq(S) /\ Len(back) = Len(doc)
      /\ \A i \in 1 .. Len(doc) : back[i] = AfterInsert(one, p, s, i)
  <2>1. Len(one) + Len(s) = Len(doc)
    BY <1>1, <1>2
  <2>2. /\ back \in Seq(S) /\ Len(back) = Len(one) + Len(s)
        /\ \A i \in 1 .. Len(one) + Len(s) : back[i] = AfterInsert(one, p, s, i)
    <3>1. one \in Seq(S) /\ p \in 0 .. Len(one)
      BY <1>2, <1>3
    <3> QED BY <3>1, InsertElements
  <2> QED BY <2>1, <2>2
<1>5. ASSUME NEW i \in 1 .. Len(doc)
      PROVE AfterInsert(one, p, s, i) = doc[i]
  <2>1. i <= p => one[i] = AfterErase(doc, p, Len(s), i)
    BY <1>1, <1>2
  <2>2. i > p + Len(s) => one[i - Len(s)] = doc[i]
    <3> HAVE i > p + Len(s)
    <3>1. /\ i - Len(s) \in 1 .. Len(doc) - Len(s) /\ ~(i - Len(s) <= p)
          /\ (i - Len(s)) + Len(s) = i
      BY <1>1
    <3>2. one[i - Len(s)] = AfterErase(doc, p, Len(s), i - Len(s))
      BY <3>1, <1>2
    <3> QED BY <3>1, <3>2 DEF AfterErase
  <2>3. i > p /\ i <= p + Len(s) => s[i - p] = doc[i]
    <3> HAVE i > p /\ i <= p + Len(s)
    <3>1. i - p \in 1 .. Len(s) /\ p + (i - p) = i
      BY <1>1
    <3> QED BY <3>1
  <2> QED BY <2>1, <2>2, <2>3, <1>1 DEF AfterErase, AfterInsert
<1> HIDE DEF back
<1>6. back = doc
  BY <1>4, <1>5, SeqEqual
<1> QED BY <1>3, <1>6 DEF back, one

(* The result of an operation is a document.                                 *)
LEMMA ApplyType ==
  ASSUME NEW S, NEW doc \in Seq(S), NEW op, Simple(op, S), InBounds(op, doc)
  PROVE  ApplySimple(op, doc) \in Seq(S)
<1>1. Len(doc) \in Nat
  BY LenProperties
<1>2. CASE AnInsert(op, S)
  <2>1. /\ op.pos \in Nat /\ op.text \in Seq(S) /\ op.pos <= Len(doc)
        /\ ApplySimple(op, doc) = Inserted(doc, op.pos, op.text)
    BY <1>2, InsertFields
  <2>2. op.pos \in 0 .. Len(doc)
    BY <2>1, <1>1
  <2> DEFINE p == op.pos
             s == op.text
  <2>3. s \in Seq(S) /\ p \in 0 .. Len(doc)
    BY <2>1, <2>2
  <2> HIDE DEF p, s
  <2>4. Inserted(doc, p, s) \in Seq(S)
    BY <2>3, InsertElements
  <2> QED BY <2>1, <2>4 DEF p, s
<1>3. CASE ADelete(op, S)
  <2>1. /\ op.pos \in Nat /\ Length(op) \in Nat /\ op.pos + Length(op) <= Len(doc)
        /\ ApplySimple(op, doc) = Erase(doc, op.pos, Length(op))
    BY <1>3, DeleteFields
  <2> QED BY <2>1, EraseElements
<1> QED BY <1>2, <1>3 DEF Simple

(* Undoing one part.                                                         *)
LEMMA RevertRestores ==
  ASSUME NEW S, NEW doc \in Seq(S), NEW op, HasText(op, S), InBounds(op, doc),
         HasItsText(op, doc)
  PROVE  /\ ApplySimple(op, doc) \in Seq(S) /\ ~IsSplit(op)
         /\ InBounds(RevertSimple(op), ApplySimple(op, doc))
         /\ ApplySimple(RevertSimple(op), ApplySimple(op, doc)) = doc
<1>1. PICK p \in Nat, s \in Seq(S) : op = Insert(p, s) \/ op = Delete(p, s)
  BY DEF HasText
<1>2. Len(doc) \in Nat /\ Len(s) \in Nat
  BY LenProperties
<1>3. AnInsert(Insert(p, s), S) /\ ADelete(Delete(p, s), S)
  BY DEF AnInsert, ADelete
<1>4. /\ Insert(p, s).pos = p /\ Insert(p, s).text = s
      /\ Delete(p, s).pos = p /\ Delete(p, s).text = s /\ Delete(p, s).kind = "delete"
      /\ Length(Delete(p, s)) = Len(s)
  BY DEF Insert, Delete, Length
<1>5. /\ IsInsert(Insert(p, s)) /\ ~IsSplit(Insert(p, s))
      /\ \A d : ApplySimple(Insert(p, s), d) = Inserted(d, p, s)
      /\ \A d : InBounds(Insert(p, s), d) <=> p <= Len(d)
  BY <1>3, <1>4, InsertFields
<1>6. /\ ~IsInsert(Delete(p, s)) /\ ~IsSplit(Delete(p, s))
      /\ \A d : ApplySimple(Delete(p, s), d) = Erase(d, p, Len(s))
      /\ \A d : InBounds(Delete(p, s), d) <=> p + Len(s) <= Len(d)
  BY <1>3, <1>4, DeleteFields
<1>7. ApplySimple(op, doc) \in Seq(S)
  BY <1>1, <1>3, ApplyType DEF Simple
<1>8. CASE op = Insert(p, s)
  <2>1. RevertSimple(op) = Delete(p, s)
    BY <1>4, <1>5, <1>8 DEF RevertSimple
  <2>2. p \in 0 .. Len(doc)
    BY <1>2, <1>5, <1>8
  <2>3. /\ p + Len(s) <= Len(Inserted(doc, p, s))
        /\ Erase(Inserted(doc, p, s), p, Len(s)) = doc
    BY <2>2, EraseInserted
  <2> QED BY <2>1, <2>3, <1>5, <1>6, <1>7, <1>8
<1>9. CASE op = Delete(p, s)
  <2>1. RevertSimple(op) = Insert(p, s)
    BY <1>4, <1>6, <1>9 DEF RevertSimple
  <2>2. p + Len(s) <= Len(doc) /\ \A i \in 1 .. Len(s) : s[i] = doc[p + i]
    BY <1>4, <1>6, <1>9 DEF HasItsText
  <2>3. /\ p <= Len(Erase(doc, p, Len(s)))
        /\ Inserted(Erase(doc, p, Len(s)), p, s) = doc
    BY <2>2, InsertErased
  <2> QED BY <2>1, <2>3, <1>5, <1>6, <1>7, <1>9
<1> QED BY <1>1, <1>8, <1>9

(* What an operation can be that has its text, and is split at most once.    *)
Reversible(op, S) ==
  IF IsSplit(op) THEN HasText(op.first, S) /\ HasText(op.second, S) ELSE HasText(op, S)

(* Undo (test_undo of inf-test-text-operations.c): an operation that has its *)
(* text, reverted right after it was executed, can be executed and restores  *)
(* the document.                                                             *)
THEOREM UndoRestoresDocument ==
  ASSUME NEW S, NEW doc \in Seq(S), NEW op, Reversible(op, S),
         Possible(op, doc), KeepsText(op, doc)
  PROVE  /\ Possible(Reverted(op), Execute(op, doc))
         /\ Execute(Reverted(op), Execute(op, doc)) = doc
<1>1. CASE ~IsSplit(op)
  <2>1. /\ InBounds(RevertSimple(op), ApplySimple(op, doc))
        /\ ApplySimple(RevertSimple(op), ApplySimple(op, doc)) = doc
    BY <1>1, RevertRestores DEF Reversible, Possible, KeepsText
  <2>2. ~IsSplit(RevertSimple(op))
    BY DEF RevertSimple, Insert, Delete, IsSplit
  <2> QED BY <1>1, <2>1, <2>2 DEF Possible, Execute, Reverted
<1>2. CASE IsSplit(op)
  <2> DEFINE one == ApplySimple(op.first, doc)
             two == ApplySimple(op.second, one)
             back1 == RevertSimple(op.first)
             back2 == RevertSimple(op.second)
  <2>1. one \in Seq(S) /\ InBounds(back1, one) /\ ApplySimple(back1, one) = doc
    BY <1>2, RevertRestores DEF Reversible, Possible, KeepsText
  <2>2. InBounds(back2, two) /\ ApplySimple(back2, two) = one
    BY <1>2, <2>1, RevertRestores DEF Reversible, Possible, KeepsText
  <2>3. Reverted(op) = Split(back2, back1) /\ Execute(op, doc) = two
    BY <1>2 DEF Reverted, Execute
  <2> HIDE DEF one, two, back1, back2
  <2>4. IsSplit(Reverted(op)) /\ Reverted(op).first = back2 /\ Reverted(op).second = back1
    BY <2>3 DEF Split, IsSplit
  <2> QED BY <2>1, <2>2, <2>3, <2>4 DEF Possible, Execute
<1> QED BY <1>1, <1>2

(* A delete with its text against an insert.                                 *)
LEMMA TextKeptByInsert ==
  ASSUME NEW S, NEW doc \in Seq(S), NEW p \in Nat, NEW s \in Seq(S), NEW other, AnInsert(other, S),
         InBounds(Delete(p, s), doc), InBounds(other, doc), HasItsText(Delete(p, s), doc)
  PROVE  LET one2 == DeleteTransformInsert(Delete(p, s), other)
         IN Reversible(one2, S) /\ KeepsText(one2, ApplySimple(other, doc))
<1> DEFINE q == other.pos
           t == other.text
           m == Len(s)
           after == Inserted(doc, q, t)
           one2 == DeleteTransformInsert(Delete(p, s), other)
<1>1. Len(doc) \in Nat /\ m \in Nat
  BY LenProperties
<1>2. /\ q \in Nat /\ t \in Seq(S) /\ Length(other) = Len(t) /\ Len(t) \in Nat
      /\ ApplySimple(other, doc) = after /\ q <= Len(doc)
  BY InsertFields
<1>3. /\ Delete(p, s).pos = p /\ Delete(p, s).text = s /\ Length(Delete(p, s)) = m
      /\ Delete(p, s).kind = "delete" /\ ~IsSplit(Delete(p, s)) /\ ~IsInsert(Delete(p, s))
  BY DEF Delete, Length, IsSplit, IsInsert
<1>4. p + m <= Len(doc) /\ \A i \in 1 .. m : s[i] = doc[p + i]
  BY <1>3 DEF InBounds, HasItsText
<1>5. /\ after \in Seq(S) /\ Len(after) = Len(doc) + Len(t)
      /\ \A i \in 1 .. Len(doc) + Len(t) : after[i] = AfterInsert(doc, q, t, i)
  <2>1. q \in 0 .. Len(doc) /\ t \in Seq(S)
    BY <1>1, <1>2
  <2> HIDE DEF q, t
  <2> QED BY <2>1, InsertElements
<1>6. one2 = IF q >= p + m THEN Delete(p, s)
             ELSE IF q <= p THEN [Delete(p, s) EXCEPT !.pos = p + Len(t)]
             ELSE TransformSplit(Delete(p, s), q - p, Len(t))
  BY <1>2, <1>3 DEF DeleteTransformInsert
<1> HIDE DEF q, t, m, after, one2
<1>7. ASSUME NEW a \in Nat, NEW u \in Seq(S)
      PROVE  /\ HasText(Delete(a, u), S) /\ ~IsSplit(Delete(a, u))
             /\ \A d : (\A i \in 1 .. Len(u) : u[i] = d[a + i]) => HasItsText(Delete(a, u), d)
  BY DEF HasText, Delete, IsSplit, HasItsText
<1>8. CASE q >= p + m
  <2>1. ASSUME NEW i \in 1 .. m PROVE s[i] = after[p + i]
    <3>1. p + i \in 1 .. Len(doc) + Len(t) /\ p + i <= q
      BY <1>1, <1>2, <1>4, <1>8
    <3> QED BY <3>1, <1>4, <1>5 DEF AfterInsert
  <2> QED BY <2>1, <1>2, <1>6, <1>7, <1>8 DEF Reversible, KeepsText, one2, m
<1>9. CASE ~(q >= p + m) /\ q <= p
  <2>1. one2 = Delete(p + Len(t), s)
    BY <1>6, <1>9 DEF Delete
  <2>2. p + Len(t) \in Nat
    BY <1>2
  <2>3. ASSUME NEW i \in 1 .. m PROVE s[i] = after[(p + Len(t)) + i]
    <3>1. /\ (p + Len(t)) + i \in 1 .. Len(doc) + Len(t)
          /\ ~((p + Len(t)) + i <= q) /\ ~((p + Len(t)) + i <= q + Len(t))
          /\ ((p + Len(t)) + i) - Len(t) = p + i
      BY <1>1, <1>2, <1>4, <1>9
    <3> QED BY <3>1, <1>4, <1>5 DEF AfterInsert
  <2> QED BY <2>1, <2>2, <2>3, <1>2, <1>7 DEF Reversible, KeepsText, one2, m
<1>10. CASE ~(q >= p + m) /\ ~(q <= p)
  <2> DEFINE k == q - p
             front == Substring(s, 0, k)
             back == Substring(s, k, m - k)
             one3 == Erase(after, p, k)
  <2>1. k \in Nat /\ k <= m /\ m - k \in Nat /\ p + k = q /\ p + Len(t) \in Nat
    BY <1>1, <1>2, <1>10
  <2>2. /\ front \in Seq(S) /\ Len(front) = k
        /\ \A i \in 1 .. k : front[i] = s[i]
    <3>1. 1 \in 1 .. Len(s) + 1 /\ k \in 0 .. Len(s) /\ 1 <= k + 1 /\ 0 + k = k /\ 0 + 1 = 1
      BY <1>1, <2>1 DEF m
    <3>2. /\ SubSeq(s, 1, k) \in Seq(S) /\ Len(SubSeq(s, 1, k)) = k - 1 + 1
          /\ \A i \in 1 .. k - 1 + 1 : SubSeq(s, 1, k)[i] = s[1 + i - 1]
      <4> HIDE DEF k
      <4> QED BY <3>1, Part
    <3> HIDE DEF k
    <3>3. SubSeq(s, 1, k) = front
      BY <3>1 DEF Substring
    <3> HIDE DEF front
    <3> QED BY <2>1, <3>2, <3>3
  <2>3. /\ back \in Seq(S) /\ Len(back) = m - k
        /\ \A i \in 1 .. m - k : back[i] = s[k + i]
    <3>1. /\ k + 1 \in 1 .. Len(s) + 1 /\ Len(s) \in 0 .. Len(s) /\ k + 1 <= Len(s) + 1
          /\ k + (m - k) = Len(s)
      BY <1>1, <2>1 DEF m
    <3> HIDE DEF k
    <3>2. /\ SubSeq(s, k + 1, Len(s)) \in Seq(S)
          /\ Len(SubSeq(s, k + 1, Len(s))) = Len(s) - (k + 1) + 1
          /\ \A i \in 1 .. Len(s) - (k + 1) + 1 : SubSeq(s, k + 1, Len(s))[i] = s[(k + 1) + i - 1]
      BY <3>1, Part
    <3>3. SubSeq(s, k + 1, Len(s)) = back
      BY <3>1 DEF Substring
    <3>4. Len(s) - (k + 1) + 1 = m - k
      BY <1>1, <2>1 DEF m
    <3> HIDE DEF back
    <3>5. ASSUME NEW i \in 1 .. m - k PROVE back[i] = s[k + i]
      <4>1. (k + 1) + i - 1 = k + i
        BY <2>1
      <4> QED BY <4>1, <3>2, <3>3, <3>4
    <3> QED BY <3>2, <3>3, <3>4, <3>5
  <2>4. one2 = Split(Delete(p, front), Delete(p + Len(t), back))
    <3>1. one2 = TransformSplit(Delete(p, s), k, Len(t))
      BY <1>6, <1>10
    <3>2. [Delete(p, s) EXCEPT !.text = Substring(@, 0, k)] = Delete(p, front)
      BY DEF Delete
    <3>3. [Delete(p, s) EXCEPT !.pos = @ + Len(t), !.text = Substring(@, k, Len(@) - k)]
            = Delete(p + Len(t), back)
      <4> DEFINE moved == [Delete(p, s) EXCEPT !.pos = @ + Len(t)]
      <4>1. moved = [kind |-> "delete", pos |-> p + Len(t), text |-> s]
        BY DEF Delete
      <4>2. [moved EXCEPT !.text = back] = Delete(p + Len(t), back)
        <5>1. ASSUME NEW x, NEW u
              PROVE [[kind |-> "delete", pos |-> x, text |-> s] EXCEPT !.text = u]
                      = [kind |-> "delete", pos |-> x, text |-> u]
          OBVIOUS
        <5> QED BY <4>1, <5>1, Zenon DEF Delete
      <4>3. [Delete(p, s) EXCEPT !.pos = @ + Len(t), !.text = Substring(@, k, Len(@) - k)]
              = [moved EXCEPT !.text = Substring(moved.text, k, Len(moved.text) - k)]
        OBVIOUS
      <4>4. moved.text = s
        BY <4>1
      <4> QED BY <4>2, <4>3, <4>4 DEF m
    <3> QED BY <3>1, <3>2, <3>3, <1>3 DEF TransformSplit
  <2> HIDE DEF k, front, back, one3
  <2>5. IsSplit(one2) /\ one2.first = Delete(p, front) /\ one2.second = Delete(p + Len(t), back)
    BY <2>4 DEF Split, IsSplit
  <2>6. Reversible(one2, S)
    BY <2>1, <2>2, <2>3, <2>5, <1>7 DEF Reversible
  <2>7. ASSUME NEW i \in 1 .. k PROVE front[i] = after[p + i]
    <3>1. p + i \in 1 .. Len(doc) + Len(t) /\ p + i <= q /\ i \in 1 .. m
      BY <2>1, <1>1, <1>2, <1>4
    <3> QED BY <3>1, <2>2, <1>4, <1>5 DEF AfterInsert
  <2>8. ApplySimple(Delete(p, front), after) = one3
    <3>1. ADelete(Delete(p, front), S) /\ Delete(p, front).pos = p /\ Length(Delete(p, front)) = k
      BY <2>2 DEF ADelete, Delete, Length
    <3> QED BY <3>1, DeleteFields DEF one3
  <2>9. \A i \in 1 .. Len(after) - k : one3[i] = AfterErase(after, p, k, i)
    <3>1. p + k <= Len(after)
      BY <2>1, <1>1, <1>2, <1>5
    <3> QED BY <3>1, <2>1, <1>5, EraseElements DEF one3
  <2>10. ASSUME NEW i \in 1 .. m - k PROVE back[i] = one3[(p + Len(t)) + i]
    <3>1. /\ (p + Len(t)) + i \in 1 .. Len(after) - k /\ ~((p + Len(t)) + i <= p)
          /\ ((p + Len(t)) + i) + k = (q + Len(t)) + i
      <4>1. Len(after) = Len(doc) + Len(t) /\ p + m <= Len(doc)
        BY <1>4, <1>5
      <4>2. /\ Len(doc) \in Nat /\ m \in Nat /\ Len(t) \in Nat /\ q \in Nat
            /\ k \in Nat /\ m - k \in Nat /\ p + k = q
        BY <1>1, <1>2, <2>1
      <4>3. i \in Nat /\ 1 <= i /\ i <= m - k
        BY <4>2
      <4> QED BY <4>1, <4>2, <4>3
    <3>2. /\ (q + Len(t)) + i \in 1 .. Len(doc) + Len(t)
          /\ ~((q + Len(t)) + i <= q) /\ ~((q + Len(t)) + i <= q + Len(t))
          /\ ((q + Len(t)) + i) - Len(t) = q + i
      BY <2>1, <1>1, <1>2, <1>4
    <3>3. one3[(p + Len(t)) + i] = after[(q + Len(t)) + i]
      BY <3>1, <2>9 DEF AfterErase
    <3>4. after[(q + Len(t)) + i] = doc[q + i]
      BY <3>2, <1>5 DEF AfterInsert
    <3>5. k + i \in 1 .. m /\ p + (k + i) = q + i
      BY <2>1, <1>1, <1>2
    <3>6. back[i] = doc[q + i]
      BY <3>5, <2>3, <1>4
    <3> QED BY <3>3, <3>4, <3>6
  <2>11. HasItsText(Delete(p, front), after)
    <3>1. \A i \in 1 .. Len(front) : front[i] = after[p + i]
      BY <2>2, <2>7
    <3> QED BY <3>1 DEF HasItsText, Delete
  <2>12. HasItsText(Delete(p + Len(t), back), one3)
    <3>1. \A i \in 1 .. Len(back) : back[i] = one3[(p + Len(t)) + i]
      BY <2>3, <2>10
    <3> QED BY <3>1 DEF HasItsText, Delete
  <2>13. KeepsText(one2, after)
    BY <2>5, <2>8, <2>11, <2>12 DEF KeepsText
  <2> QED BY <2>6, <2>13, <1>2 DEF one2
<1> QED BY <1>8, <1>9, <1>10

(* A delete with its text against a delete.                                  *)
LEMMA TextKeptByDelete ==
  ASSUME NEW S, NEW doc \in Seq(S), NEW p \in Nat, NEW s \in Seq(S), NEW other, ADelete(other, S),
         InBounds(Delete(p, s), doc), InBounds(other, doc), HasItsText(Delete(p, s), doc)
  PROVE  LET one2 == DeleteTransformDelete(Delete(p, s), other)
         IN Reversible(one2, S) /\ KeepsText(one2, ApplySimple(other, doc))
<1> DEFINE q == other.pos
           n == Length(other)
           m == Len(s)
           after == Erase(doc, q, n)
           one2 == DeleteTransformDelete(Delete(p, s), other)
<1>1. Len(doc) \in Nat /\ m \in Nat
  BY LenProperties
<1>2. /\ q \in Nat /\ n \in Nat /\ ApplySimple(other, doc) = after /\ q + n <= Len(doc)
  BY DeleteFields
<1>3. /\ Delete(p, s).pos = p /\ Delete(p, s).text = s /\ Length(Delete(p, s)) = m
      /\ Delete(p, s).kind = "delete" /\ ~IsSplit(Delete(p, s)) /\ ~IsInsert(Delete(p, s))
  BY DEF Delete, Length, IsSplit, IsInsert
<1>4. p + m <= Len(doc) /\ \A i \in 1 .. m : s[i] = doc[p + i]
  BY <1>3 DEF InBounds, HasItsText
<1>5. /\ after \in Seq(S) /\ Len(after) = Len(doc) - n
      /\ \A i \in 1 .. Len(doc) - n : after[i] = AfterErase(doc, q, n, i)
  <2> HIDE DEF q, n
  <2> QED BY <1>2, EraseElements
<1>6. one2 = IF p + m <= q THEN Delete(p, s)
             ELSE IF p >= q + n THEN [Delete(p, s) EXCEPT !.pos = p - n]
             ELSE IF q <= p THEN TransformOverlap(Delete(p, s), other, q, 0, p - q,
                                   IF q + n >= p + m THEN m ELSE (q + n) - p)
             ELSE TransformOverlap(Delete(p, s), other, p, q - p, 0,
                                   IF q + n >= p + m THEN (p + m) - q ELSE n)
  BY <1>3 DEF DeleteTransformDelete
<1> HIDE DEF q, n, m, after, one2
(* It is enough that the characters are those of the document.               *)
<1>7. ASSUME NEW a \in Nat, NEW u \in Seq(S), one2 = Delete(a, u),
             \A i \in 1 .. Len(u) : u[i] = after[a + i]
      PROVE  Reversible(one2, S) /\ KeepsText(one2, ApplySimple(other, doc))
  <2>1. HasText(one2, S) /\ ~IsSplit(one2)
    BY <1>7 DEF HasText, Delete, IsSplit
  <2>2. HasItsText(one2, after)
    BY <1>7 DEF HasItsText, Delete
  <2> QED BY <2>1, <2>2, <1>2 DEF Reversible, KeepsText
<1>8. CASE p + m <= q
  <2>1. ASSUME NEW i \in 1 .. m PROVE s[i] = after[p + i]
    <3>1. p + i \in 1 .. Len(doc) - n /\ p + i <= q
      BY <1>1, <1>2, <1>8
    <3> QED BY <3>1, <1>4, <1>5 DEF AfterErase
  <2>2. one2 = Delete(p, s)
    BY <1>6, <1>8
  <2>3. \A i \in 1 .. Len(s) : s[i] = after[p + i]
    BY <2>1 DEF m
  <2> QED BY <2>2, <2>3, <1>7 DEF one2
<1>9. CASE ~(p + m <= q) /\ p >= q + n
  <2>1. one2 = Delete(p - n, s)
    BY <1>6, <1>9 DEF Delete
  <2>2. p - n \in Nat
    BY <1>2, <1>9
  <2>3. ASSUME NEW i \in 1 .. m PROVE s[i] = after[(p - n) + i]
    <3>1. /\ (p - n) + i \in 1 .. Len(doc) - n /\ ~((p - n) + i <= q)
          /\ ((p - n) + i) + n = p + i
      <4>1. p + m <= Len(doc)
        BY <1>4
      <4> QED BY <4>1, <1>1, <1>2, <1>9
    <3> QED BY <3>1, <1>4, <1>5 DEF AfterErase
  <2>4. \A i \in 1 .. Len(s) : s[i] = after[(p - n) + i]
    BY <2>3 DEF m
  <2> QED BY <2>1, <2>2, <2>4, <1>7 DEF one2
<1>10. CASE ~(p + m <= q) /\ ~(p >= q + n) /\ q <= p
  <2> DEFINE l == IF q + n >= p + m THEN m ELSE (q + n) - p
             rest == Erase(s, 0, l)
  <2>1. l \in Nat /\ 0 + l <= m
    BY <1>1, <1>2, <1>10
  <2>2. one2 = Delete(q, rest)
    <3> HIDE DEF l
    <3>1. one2 = TransformOverlap(Delete(p, s), other, q, 0, p - q, l)
      BY <1>6, <1>10, Zenon DEF l
    <3> QED BY <3>1, <1>3 DEF TransformOverlap
  <2>3. /\ rest \in Seq(S) /\ Len(rest) = m - l
        /\ \A i \in 1 .. m - l : rest[i] = AfterErase(s, 0, l, i)
    <3>1. 0 \in Nat /\ l \in Nat /\ 0 + l <= Len(s)
      BY <2>1 DEF m
    <3> HIDE DEF l
    <3> QED BY <3>1, EraseElements DEF m
  <2> HIDE DEF rest
  <2>4. ASSUME NEW i \in 1 .. m - l PROVE rest[i] = after[q + i]
    <3>1. l = (q + n) - p /\ ~(q + n >= p + m)
      BY <1>1, <1>2, <1>10
    <3>2. /\ i + l \in 1 .. m /\ ~(i <= 0) /\ p + (i + l) = (q + i) + n
          /\ q + i \in 1 .. Len(doc) - n /\ ~(q + i <= q)
      <4>1. p + m <= Len(doc)
        BY <1>4
      <4> HIDE DEF l
      <4> QED BY <4>1, <3>1, <1>1, <1>2, <1>10, <2>1
    <3> HIDE DEF l
    <3>3. rest[i] = s[i + l]
      BY <3>2, <2>3 DEF AfterErase
    <3>4. s[i + l] = doc[(q + i) + n]
      BY <3>2, <1>4
    <3>5. after[q + i] = doc[(q + i) + n]
      BY <3>2, <1>5 DEF AfterErase
    <3> QED BY <3>3, <3>4, <3>5
  <2> HIDE DEF l
  <2>5. \A i \in 1 .. Len(rest) : rest[i] = after[q + i]
    BY <2>3, <2>4
  <2> QED BY <2>2, <2>3, <2>5, <1>2, <1>7 DEF one2
<1>11. CASE ~(p + m <= q) /\ ~(p >= q + n) /\ ~(q <= p)
  <2> DEFINE k == q - p
             l == IF q + n >= p + m THEN (p + m) - q ELSE n
             rest == Erase(s, k, l)
  <2>1. l \in Nat /\ k \in Nat /\ k + l <= m /\ p + k = q
    BY <1>1, <1>2, <1>11
  <2>2. one2 = Delete(p, rest)
    <3>1. one2 = TransformOverlap(Delete(p, s), other, p, k, 0, l)
      BY <1>6, <1>11, Zenon
    <3> HIDE DEF l, k
    <3> QED BY <3>1, <1>3 DEF TransformOverlap
  <2>3. /\ rest \in Seq(S) /\ Len(rest) = m - l
        /\ \A i \in 1 .. m - l : rest[i] = AfterErase(s, k, l, i)
    <3>1. k + l <= Len(s)
      BY <2>1 DEF m
    <3> HIDE DEF l, k
    <3> QED BY <3>1, <2>1, EraseElements DEF m
  <2> HIDE DEF rest
  <2>4. ASSUME NEW i \in 1 .. m - l PROVE rest[i] = after[p + i]
    <3>1. CASE i <= k
      <4>1. /\ i \in 1 .. m /\ p + i <= q /\ p + i \in 1 .. Len(doc) - n
        <5> HIDE DEF l, k
        <5> QED BY <3>1, <2>1, <1>1, <1>2
      <4> HIDE DEF l, k
      <4> QED BY <4>1, <3>1, <2>3, <1>4, <1>5 DEF AfterErase
    <3>2. CASE ~(i <= k)
      <4>1. l = n
        BY <3>2, <2>1, <1>1, <1>2, <1>11
      <4>2. /\ i + n \in 1 .. m /\ p + (i + n) = (p + i) + n
            /\ p + i \in 1 .. Len(doc) - n /\ ~(p + i <= q)
        <5>1. p + m <= Len(doc)
          BY <1>4
        <5> HIDE DEF l, k
        <5> QED BY <5>1, <4>1, <3>2, <2>1, <1>1, <1>2
      <4> HIDE DEF l, k
      <4>3. rest[i] = s[i + n]
        BY <4>1, <3>2, <2>3 DEF AfterErase
      <4>4. s[i + n] = doc[(p + i) + n]
        BY <4>2, <1>4
      <4>5. after[p + i] = doc[(p + i) + n]
        BY <4>2, <1>5 DEF AfterErase
      <4> QED BY <4>3, <4>4, <4>5
    <3> QED BY <3>1, <3>2
  <2> HIDE DEF l, k
  <2>5. \A i \in 1 .. Len(rest) : rest[i] = after[p + i]
    BY <2>3, <2>4
  <2> QED BY <2>2, <2>3, <2>5, <1>7 DEF one2
<1> QED BY <1>8, <1>9, <1>10, <1>11

(* What an operation deletes stays known: an operation that has its text     *)
(* still has it after it was transformed against another one, in both parts  *)
(* if the other one inserted into its range.  So an undo finds the text to   *)
(* insert again (the chunk of inf-text-default-delete-operation.c).          *)
THEOREM TransformKeepsText ==
  ASSUME NEW S, NEW doc \in Seq(S), NEW one, NEW other, HasText(one, S), Simple(other, S),
         InBounds(one, doc), InBounds(other, doc), HasItsText(one, doc),
         NEW one_lcs, NEW other_lcs, NEW cid
  PROVE  LET one2 == TransformSimple(one, other, one_lcs, other_lcs, cid)
         IN Reversible(one2, S) /\ KeepsText(one2, Execute(other, doc))
<1> DEFINE one2 == TransformSimple(one, other, one_lcs, other_lcs, cid)
<1>1. PICK p \in Nat, s \in Seq(S) : one = Insert(p, s) \/ one = Delete(p, s)
  BY DEF HasText
<1>2. AnInsert(Insert(p, s), S) /\ ADelete(Delete(p, s), S)
  BY DEF AnInsert, ADelete
<1>3. ASSUME NEW op, AnInsert(op, S)
      PROVE  Reversible(op, S) /\ KeepsText(op, Execute(other, doc))
  <2>1. PICK a \in Nat, u \in Seq(S) : op = Insert(a, u)
    BY <1>3 DEF AnInsert
  <2>2. op.kind = "insert" /\ HasText(op, S)
    BY <2>1 DEF Insert, HasText
  <2>3. ~IsSplit(op) /\ op.kind # "delete"
    BY <2>2 DEF IsSplit
  <2> QED BY <2>2, <2>3 DEF Reversible, KeepsText, HasItsText
<1>4. CASE one = Insert(p, s)
  <2>0. AnInsert(one, S)
    BY <1>2, <1>4
  <2>1. IsInsert(one) /\ ~IsDelete(one) /\ one.pos \in Nat
    BY <2>0, InsertFields
  <2>2. AnInsert(one2, S)
    <3>1. CASE AnInsert(other, S)
      <4>1. IsInsert(other) /\ ~IsDelete(other) /\ Length(other) \in Nat
        BY <3>1, InsertFields
      <4>2. one2 = InsertTransformInsert(one, other, one_lcs, other_lcs, cid)
        BY <2>1, <4>1 DEF TransformSimple
      <4>3. one2 = one \/ one2 = [one EXCEPT !.pos = one.pos + Length(other)]
        BY <4>2 DEF InsertTransformInsert
      <4>4. one.pos + Length(other) \in Nat
        BY <2>1, <4>1
      <4> HIDE DEF one2
      <4> QED BY <4>3, <4>4, <2>0, MoveInsert
    <3>2. CASE ADelete(other, S)
      <4>1. /\ ~IsInsert(other) /\ IsDelete(other) /\ Length(other) \in Nat
            /\ other.pos \in Nat
        BY <3>2, DeleteFields
      <4>2. one2 = InsertTransformDelete(one, other)
        BY <2>1, <4>1 DEF TransformSimple
      <4> DEFINE a == IF one.pos >= other.pos + Length(other) THEN one.pos - Length(other)
                      ELSE IF one.pos < other.pos THEN one.pos ELSE other.pos
      <4>3. one2 = [one EXCEPT !.pos = a]
        BY <4>2 DEF InsertTransformDelete
      <4>4. a \in Nat
        BY <2>1, <4>1
      <4> HIDE DEF one2, a
      <4> QED BY <4>3, <4>4, <2>0, MoveInsert
    <3> QED BY <3>1, <3>2 DEF Simple
  <2> QED BY <2>2, <1>3
<1>5. CASE one = Delete(p, s)
  <2>1. ADelete(one, S)
    BY <1>2, <1>5
  <2>2. ~IsInsert(one) /\ IsDelete(one)
    BY <2>1, DeleteFields
  <2>3. CASE AnInsert(other, S)
    <3>1. IsInsert(other) /\ ~IsDelete(other) /\ ~IsSplit(other)
      BY <2>3, InsertFields
    <3>2. one2 = DeleteTransformInsert(Delete(p, s), other)
      BY <1>5, <2>2, <3>1 DEF TransformSimple
    <3>3. Execute(other, doc) = ApplySimple(other, doc)
      BY <3>1 DEF Execute
    <3> QED BY <3>2, <3>3, <2>3, <1>5, TextKeptByInsert
  <2>4. CASE ADelete(other, S)
    <3>1. ~IsInsert(other) /\ IsDelete(other) /\ ~IsSplit(other)
      BY <2>4, DeleteFields
    <3>2. one2 = DeleteTransformDelete(Delete(p, s), other)
      BY <1>5, <2>2, <3>1 DEF TransformSimple
    <3>3. Execute(other, doc) = ApplySimple(other, doc)
      BY <3>1 DEF Execute
    <3> QED BY <3>2, <3>3, <2>4, <1>5, TextKeptByDelete
  <2> QED BY <2>3, <2>4 DEF Simple
<1> QED BY <1>1, <1>4, <1>5

(* An undo after a concurrent operation: the operation, transformed and      *)
(* executed at another user's site, is undone there without a trace of it.   *)
THEOREM TransformedUndo ==
  ASSUME NEW S, NEW doc \in Seq(S), NEW one, NEW other, HasText(one, S), Simple(other, S),
         InBounds(one, doc), InBounds(other, doc), HasItsText(one, doc),
         NEW one_lcs, NEW other_lcs, NEW cid, TieBroken(one, other, one_lcs, other_lcs, cid)
  PROVE  LET one2 == TransformSimple(one, other, one_lcs, other_lcs, cid)
             there == Execute(other, doc)
         IN /\ Possible(Reverted(one2), Execute(one2, there))
            /\ Execute(Reverted(one2), Execute(one2, there)) = there
<1> DEFINE one2 == TransformSimple(one, other, one_lcs, other_lcs, cid)
           there == Execute(other, doc)
<1>1. Simple(one, S)
  BY DEF HasText, Simple, AnInsert, ADelete
<1>2. Possible(one2, there)
  BY <1>1, TransformationProperty1 DEF Converge
<1>3. Reversible(one2, S) /\ KeepsText(one2, there)
  BY TransformKeepsText
<1>4. there \in Seq(S)
  <2>1. ~IsSplit(other)
    BY InsertFields, DeleteFields DEF Simple
  <2> QED BY <2>1, ApplyType DEF Execute
<1> HIDE DEF one2, there
<1>5. /\ Possible(Reverted(one2), Execute(one2, there))
      /\ Execute(Reverted(one2), Execute(one2, there)) = there
  BY <1>2, <1>3, <1>4, UndoRestoresDocument
<1> QED BY <1>5 DEF one2, there

-----------------------------------------------------------------------------
(* The delete and what is received of it                                     *)

SameRange(op, op2) == op.pos = op2.pos /\ Length(op) = Length(op2)

SameRanges(op, op2) ==
  \/ ~IsSplit(op) /\ ~IsSplit(op2) /\ SameRange(op, op2)
  \/ /\ IsSplit(op) /\ IsSplit(op2)
     /\ SameRange(op.first, op2.first) /\ SameRange(op.second, op2.second)

(* The transformation of one form of a delete.                               *)
LEMMA DeleteTransformed ==
  ASSUME NEW S, NEW op, ADelete(op, S), NEW against, AnInsert(against, S)
  PROVE  LET op2 == DeleteTransformInsert(op, against)
             p == op.pos  m == Length(op)  q == against.pos  k == Length(against)
         IN /\ q >= p + m \/ q <= p =>
                 ADelete(op2, S) /\ Length(op2) = m
                 /\ op2.pos = (IF q >= p + m THEN p ELSE p + k)
            /\ ~(q >= p + m) /\ ~(q <= p) =>
                 /\ IsSplit(op2)
                 /\ ADelete(op2.first, S) /\ op2.first.pos = p /\ Length(op2.first) = q - p
                 /\ ADelete(op2.second, S) /\ op2.second.pos = p + k
                 /\ Length(op2.second) = m - (q - p)
<1> DEFINE op2 == DeleteTransformInsert(op, against)
           p == op.pos
           m == Length(op)
           q == against.pos
           k == Length(against)
<1>1. p \in Nat /\ m \in Nat
  BY DeleteFields
<1>2. q \in Nat /\ k \in Nat
  BY InsertFields
<1>3. op2 = IF q >= p + m THEN op
            ELSE IF q <= p THEN [op EXCEPT !.pos = p + k]
            ELSE TransformSplit(op, q - p, k)
  BY DEF DeleteTransformInsert
<1> HIDE DEF op2, p, m, q, k
<1>4. CASE q >= p + m
  BY <1>3, <1>4 DEF op2, p, m, q, k
<1>5. CASE ~(q >= p + m) /\ q <= p
  <2>1. op2 = [op EXCEPT !.pos = p + k] /\ p + k \in Nat
    BY <1>1, <1>2, <1>3, <1>5
  <2>2. ADelete(op2, S) /\ op2.pos = p + k /\ Length(op2) = m
    BY <2>1, MoveDelete DEF m
  <2> QED BY <2>2, <1>5 DEF op2, p, m, q, k
<1>6. CASE ~(q >= p + m) /\ ~(q <= p)
  <2>1. op2 = TransformSplit(op, q - p, k) /\ q - p \in Nat /\ q - p <= m
    BY <1>1, <1>2, <1>3, <1>6
  <2>2. /\ IsSplit(op2)
        /\ ADelete(op2.first, S) /\ op2.first.pos = p /\ Length(op2.first) = q - p
        /\ ADelete(op2.second, S) /\ op2.second.pos = p + k
        /\ Length(op2.second) = m - (q - p)
    BY <2>1, <1>2, SplitFields DEF p, m
  <2> QED BY <2>2, <1>6 DEF op2, p, m, q, k
<1> QED BY <1>4, <1>5, <1>6

(* The transformation of two forms of a delete against a delete.             *)
LEMMA DeletesTransformed ==
  ASSUME NEW S, NEW op, ADelete(op, S), NEW against, ADelete(against, S)
  PROVE  LET op2 == DeleteTransformDelete(op, against)
             p == op.pos  m == Length(op)  q == against.pos  n == Length(against)
         IN /\ ADelete(op2, S)
            /\ op2.pos = IF p + m <= q THEN p
                         ELSE IF p >= q + n THEN p - n
                         ELSE IF q <= p THEN q ELSE p
            /\ Length(op2) = IF p + m <= q \/ p >= q + n THEN m
                             ELSE IF q <= p THEN m - (IF q + n >= p + m THEN m ELSE (q + n) - p)
                             ELSE m - (IF q + n >= p + m THEN (p + m) - q ELSE n)
<1> DEFINE op2 == DeleteTransformDelete(op, against)
           p == op.pos
           m == Length(op)
           q == against.pos
           n == Length(against)
<1>1. p \in Nat /\ m \in Nat /\ q \in Nat /\ n \in Nat
  BY DeleteFields
<1>2. op2 = IF p + m <= q THEN op
            ELSE IF p >= q + n THEN [op EXCEPT !.pos = p - n]
            ELSE IF q <= p THEN TransformOverlap(op, against, q, 0, p - q,
                                  IF q + n >= p + m THEN m ELSE (q + n) - p)
            ELSE TransformOverlap(op, against, p, q - p, 0,
                                  IF q + n >= p + m THEN (p + m) - q ELSE n)
  BY DEF DeleteTransformDelete
<1> HIDE DEF op2, p, m, q, n
<1>3. CASE p + m <= q
  BY <1>2, <1>3 DEF op2, p, m, q, n
<1>4. CASE ~(p + m <= q) /\ p >= q + n
  <2>1. op2 = [op EXCEPT !.pos = p - n] /\ p - n \in Nat
    BY <1>1, <1>2, <1>4
  <2>2. ADelete(op2, S) /\ op2.pos = p - n /\ Length(op2) = m
    BY <2>1, MoveDelete DEF m
  <2> QED BY <2>2, <1>4 DEF op2, p, m, q, n
<1>5. CASE ~(p + m <= q) /\ ~(p >= q + n) /\ q <= p
  <2> DEFINE l == IF q + n >= p + m THEN m ELSE (q + n) - p
  <2>1. op2 = TransformOverlap(op, against, q, 0, p - q, l)
    BY <1>2, <1>5, Zenon
  <2>2. 0 \in Nat /\ l \in Nat /\ 0 + l <= m
    BY <1>1, <1>5
  <2> HIDE DEF l
  <2>3. ADelete(op2, S) /\ op2.pos = q /\ Length(op2) = m - l
    BY <2>1, <2>2, <1>1, OverlapFields DEF m
  <2> QED BY <2>3, <1>5 DEF op2, p, m, q, n, l
<1>6. CASE ~(p + m <= q) /\ ~(p >= q + n) /\ ~(q <= p)
  <2> DEFINE l == IF q + n >= p + m THEN (p + m) - q ELSE n
  <2>1. op2 = TransformOverlap(op, against, p, q - p, 0, l)
    BY <1>2, <1>6, Zenon
  <2>2. q - p \in Nat /\ l \in Nat /\ (q - p) + l <= m
    BY <1>1, <1>6
  <2> HIDE DEF l
  <2>3. ADelete(op2, S) /\ op2.pos = p /\ Length(op2) = m - l
    BY <2>1, <2>2, <1>1, OverlapFields DEF m
  <2> QED BY <2>3, <1>6 DEF op2, p, m, q, n, l
<1> QED BY <1>3, <1>4, <1>5, <1>6

(* A delete is sent with its position and length only, and received as a     *)
(* remote delete: whatever either is transformed against, they delete the    *)
(* same, so that the issuer's document and the receivers' are the same.      *)
THEOREM RemoteDeleteAgrees ==
  ASSUME NEW S, NEW one, NEW received, NEW other, ADelete(one, S), ADelete(received, S),
         SameRange(one, received), Simple(other, S), NEW one_lcs, NEW other_lcs, NEW cid
  PROVE  LET one2 == TransformSimple(one, other, one_lcs, other_lcs, cid)
             received2 == TransformSimple(received, other, one_lcs, other_lcs, cid)
         IN SameRanges(one2, received2) /\ \A doc : Execute(one2, doc) = Execute(received2, doc)
<1> DEFINE one2 == TransformSimple(one, other, one_lcs, other_lcs, cid)
           received2 == TransformSimple(received, other, one_lcs, other_lcs, cid)
<1>1. /\ ~IsInsert(one) /\ IsDelete(one) /\ one.pos \in Nat /\ Length(one) \in Nat
      /\ ~IsInsert(received) /\ IsDelete(received)
      /\ one.pos = received.pos /\ Length(one) = Length(received)
  BY DeleteFields DEF SameRange
<1>2. ASSUME NEW x, NEW y, ADelete(x, S), ADelete(y, S), SameRange(x, y)
      PROVE  /\ ~IsSplit(x) /\ ~IsSplit(y)
             /\ \A d : ApplySimple(x, d) = ApplySimple(y, d)
  BY <1>2, DeleteFields DEF SameRange
<1>3. ASSUME ADelete(one2, S), ADelete(received2, S), SameRange(one2, received2)
      PROVE  SameRanges(one2, received2) /\ \A doc : Execute(one2, doc) = Execute(received2, doc)
  <2> HIDE DEF one2, received2
  <2> QED BY <1>3, <1>2 DEF SameRanges, Execute
<1>4. CASE AnInsert(other, S)
  <2>1. IsInsert(other) /\ ~IsDelete(other) /\ other.pos \in Nat
    BY <1>4, InsertFields
  <2>2. /\ one2 = DeleteTransformInsert(one, other)
        /\ received2 = DeleteTransformInsert(received, other)
    BY <1>1, <2>1 DEF TransformSimple
  <2> HIDE DEF one2, received2
  <2>3. CASE other.pos >= one.pos + Length(one) \/ other.pos <= one.pos
    <3>1. /\ ADelete(one2, S) /\ ADelete(received2, S) /\ SameRange(one2, received2)
      BY <2>2, <2>3, <1>1, <1>4, DeleteTransformed DEF SameRange
    <3> QED BY <3>1, <1>3 DEF one2, received2
  <2>4. CASE ~(other.pos >= one.pos + Length(one)) /\ ~(other.pos <= one.pos)
    <3>1. /\ IsSplit(one2) /\ IsSplit(received2)
          /\ ADelete(one2.first, S) /\ ADelete(received2.first, S)
          /\ ADelete(one2.second, S) /\ ADelete(received2.second, S)
          /\ SameRange(one2.first, received2.first)
          /\ SameRange(one2.second, received2.second)
      BY <2>2, <2>4, <1>1, <1>4, DeleteTransformed DEF SameRange
    <3>2. /\ \A d : ApplySimple(one2.first, d) = ApplySimple(received2.first, d)
          /\ \A d : ApplySimple(one2.second, d) = ApplySimple(received2.second, d)
      BY <3>1, <1>2
    <3>3. SameRanges(one2, received2) /\ \A doc : Execute(one2, doc) = Execute(received2, doc)
      BY <3>1, <3>2 DEF SameRanges, Execute
    <3> QED BY <3>3 DEF one2, received2
  <2> QED BY <2>3, <2>4
<1>5. CASE ADelete(other, S)
  <2>1. IsDelete(other) /\ ~IsInsert(other)
    BY <1>5, DeleteFields
  <2>2. /\ one2 = DeleteTransformDelete(one, other)
        /\ received2 = DeleteTransformDelete(received, other)
    BY <1>1, <2>1 DEF TransformSimple
  <2> HIDE DEF one2, received2
  <2>3. ADelete(one2, S) /\ ADelete(received2, S) /\ SameRange(one2, received2)
    BY <2>2, <1>1, <1>5, DeletesTransformed DEF SameRange
  <2> QED BY <2>3, <1>3 DEF one2, received2
<1> QED BY <1>4, <1>5 DEF Simple

=============================================================================
