---------------------------- MODULE SequenceLemmas ----------------------------
(***************************************************************************)
(* Facts about sequences and least elements that the proofs keep needing:  *)
(* what there is, and where, when a sequence is cut, loses an element or   *)
(* gains one.                                                              *)
(***************************************************************************)
EXTENDS Integers, Sequences, SequencesExt, SequenceTheorems,
        WellFoundedInduction, TLAPS

(* Sequences: the two halves of a cut one.                                 *)
LEMMA Halves ==
  ASSUME NEW T, NEW s \in Seq(T), NEW n \in 0..Len(s)
  PROVE  /\ SubSeq(s, 1, n) \in Seq(T)
         /\ Len(SubSeq(s, 1, n)) = n
         /\ \A j \in 1..n : SubSeq(s, 1, n)[j] = s[j]
         /\ SubSeq(s, n + 1, Len(s)) \in Seq(T)
         /\ Len(SubSeq(s, n + 1, Len(s))) = Len(s) - n
         /\ \A j \in 1..(Len(s) - n) :
               SubSeq(s, n + 1, Len(s))[j] = s[n + j]
  <1>1. Len(s) \in Nat /\ \A j \in 1..Len(s) : s[j] \in T
    BY LenProperties, ElementOfSeq
  <1>2. /\ \A j \in 1..n : s[j] \in T
        /\ \A j \in (n + 1)..Len(s) : s[j] \in T
    BY <1>1
  <1>3. /\ SubSeq(s, 1, n) \in Seq(T)
        /\ Len(SubSeq(s, 1, n)) = IF 1 <= n THEN n - 1 + 1 ELSE 0
        /\ \A j \in 1..(n - 1 + 1) : SubSeq(s, 1, n)[j] = s[1 + j - 1]
    BY <1>1, <1>2, SubSeqProperties
  <1>4. /\ SubSeq(s, n + 1, Len(s)) \in Seq(T)
        /\ Len(SubSeq(s, n + 1, Len(s))) =
             IF n + 1 <= Len(s) THEN Len(s) - (n + 1) + 1 ELSE 0
        /\ \A j \in 1..(Len(s) - (n + 1) + 1) :
             SubSeq(s, n + 1, Len(s))[j] = s[n + 1 + j - 1]
    BY <1>1, <1>2, SubSeqProperties
  <1>5. QED
    BY <1>1, <1>3, <1>4

(* What is left when an element is taken out.                              *)
LEMMA Removal ==
  ASSUME NEW T, NEW s \in Seq(T), NEW i \in 1..Len(s)
  PROVE  /\ RemoveAt(s, i) \in Seq(T)
         /\ Len(RemoveAt(s, i)) = Len(s) - 1
         /\ \A j \in 1..(Len(s) - 1) :
              RemoveAt(s, i)[j] = s[IF j < i THEN j ELSE j + 1]
  <1> DEFINE before == SubSeq(s, 1, i - 1)
             after  == SubSeq(s, i + 1, Len(s))
  <1>1. Len(s) \in Nat /\ i \in Nat
    BY LenProperties
  <1>2. i - 1 \in 0..Len(s) /\ i \in 0..Len(s)
    BY <1>1
  <1>3. /\ before \in Seq(T) /\ Len(before) = i - 1
        /\ \A j \in 1..(i - 1) : before[j] = s[j]
    BY <1>2, Halves
  <1>4. /\ after \in Seq(T) /\ Len(after) = Len(s) - i
        /\ \A j \in 1..(Len(s) - i) : after[j] = s[i + j]
    BY <1>2, Halves
  <1> HIDE DEF before, after
  <1>5. /\ before \o after \in Seq(T)
        /\ Len(before \o after) = Len(s) - 1
        /\ \A j \in 1..(Len(s) - 1) :
             (before \o after)[j] =
               IF j <= i - 1 THEN before[j] ELSE after[j - (i - 1)]
    <2>1. /\ before \o after \in Seq(T)
          /\ Len(before \o after) = Len(before) + Len(after)
          /\ \A j \in 1..Len(before) + Len(after) :
               (before \o after)[j] = IF j <= Len(before) THEN before[j]
                                      ELSE after[j - Len(before)]
      BY <1>3, <1>4, ConcatProperties
    <2>2. Len(before) + Len(after) = Len(s) - 1
      BY <1>1, <1>3, <1>4
    <2>3. QED
      BY <1>3, <2>1, <2>2
  <1>6. ASSUME NEW j \in 1..(Len(s) - 1)
        PROVE  (before \o after)[j] = s[IF j < i THEN j ELSE j + 1]
    <2>1. CASE j < i
      <3>1. j \in 1..(i - 1)
        BY <1>1, <2>1
      <3>2. QED
        BY <1>1, <1>3, <1>5, <2>1, <3>1
    <2>2. CASE ~(j < i)
      <3>1. j - (i - 1) \in 1..(Len(s) - i) /\ i + (j - (i - 1)) = j + 1
        BY <1>1, <2>2
      <3>2. QED
        BY <1>1, <1>4, <1>5, <2>2, <3>1
    <2>3. QED
      BY <2>1, <2>2
  <1>7. QED
    BY <1>5, <1>6 DEF RemoveAt, before, after

(* Where each element that is left was before.                             *)
LEMMA Survivors ==
  ASSUME NEW T, NEW s \in Seq(T), NEW i \in 1..Len(s)
  PROVE  \A j \in 1..Len(RemoveAt(s, i)) :
           /\ (IF j < i THEN j ELSE j + 1) \in (1..Len(s)) \ {i}
           /\ RemoveAt(s, i)[j] = s[IF j < i THEN j ELSE j + 1]
  <1>1. Len(s) \in Nat
    BY LenProperties
  <1>2. /\ Len(RemoveAt(s, i)) = Len(s) - 1
        /\ \A j \in 1..(Len(s) - 1) :
              RemoveAt(s, i)[j] = s[IF j < i THEN j ELSE j + 1]
    BY Removal
  <1>3. QED
    BY <1>1, <1>2

(* What there is when one is appended.                                     *)
LEMMA Appended ==
  ASSUME NEW T, NEW s \in Seq(T), NEW e \in T
  PROVE  /\ Len(s) \in Nat /\ Len(Append(s, e)) = Len(s) + 1
         /\ Append(s, e)[Len(s) + 1] = e
         /\ \A j \in 1..Len(s) : Append(s, e)[j] = s[j]
         /\ 1..Len(Append(s, e)) = 1..Len(s) \cup {Len(s) + 1}
  <1>1. Len(s) \in Nat
    BY LenProperties
  <1>2. /\ Len(Append(s, e)) = Len(s) + 1
        /\ Append(s, e)[Len(s) + 1] = e
        /\ \A j \in 1..Len(s) : Append(s, e)[j] = s[j]
    BY AppendProperties
  <1>3. QED
    BY <1>1, <1>2

(* A sequence around one of its elements, and that element taken out.      *)
LEMMA Around ==
  ASSUME NEW T, NEW s \in Seq(T), NEW k \in 1..Len(s)
  PROVE  /\ SubSeq(s, 1, k - 1) \in Seq(T)
         /\ SubSeq(s, k + 1, Len(s)) \in Seq(T)
         /\ s[k] \in T
         /\ s = SubSeq(s, 1, k - 1) \o (<<s[k]>> \o SubSeq(s, k + 1, Len(s)))
  <1>1. /\ Len(s) \in Nat /\ k - 1 \in 0..Len(s) /\ k \in 0..Len(s)
        /\ s[k] \in T
    BY LenProperties, ElementOfSeq
  <1>2. SubSeq(s, k, Len(s)) = <<s[k]>> \o SubSeq(s, k + 1, Len(s))
    <2>1. Len(s) \in k..Len(s)
      BY <1>1
    <2>2. QED
      BY <2>1, SubSeqRecursiveFirst
  <1>3. SubSeq(s, 1, k - 1) \o SubSeq(s, k, Len(s)) = s
    <2>1. /\ 1 \in 1..(Len(s) + 1) /\ k - 1 \in (1 - 1)..Len(s)
          /\ Len(s) \in (k - 1)..Len(s) /\ (k - 1) + 1 = k
      BY <1>1
    <2>2. SubSeq(s, 1, k - 1) \o SubSeq(s, (k - 1) + 1, Len(s))
            = SubSeq(s, 1, Len(s))
      BY <2>1, ConcatAdjacentSubSeq
    <2>3. QED
      BY <2>1, <2>2, SubSeqFull
  <1>4. SubSeq(s, 1, k - 1) \in Seq(T) /\ SubSeq(s, k + 1, Len(s)) \in Seq(T)
    BY <1>1, Halves
  <1>5. QED
    BY <1>1, <1>2, <1>3, <1>4

(* The element m between a and b, and what is left without it.             *)
LEMMA TakenOut ==
  ASSUME NEW T, NEW a \in Seq(T), NEW m \in T, NEW b \in Seq(T)
  PROVE  LET s == a \o (<<m>> \o b)
             k == Len(a) + 1
         IN /\ s \in Seq(T) /\ Len(s) \in Nat
            /\ k \in 1..Len(s) /\ s[k] = m
            /\ a \o b \in Seq(T) /\ Len(a \o b) = Len(s) - 1
            /\ \A j \in 1..Len(a) : s[j] = a[j]
            /\ \A j \in 1..(Len(s) - 1) :
                 (a \o b)[j] = s[IF j < k THEN j ELSE j + 1]
  <1> DEFINE mb == <<m>> \o b
  <1>1. /\ Len(a) \in Nat /\ Len(b) \in Nat
        /\ <<m>> \in Seq(T) /\ Len(<<m>>) = 1 /\ <<m>>[1] = m
    BY LenProperties
  <1>2. /\ mb \in Seq(T) /\ Len(mb) = 1 + Len(b) /\ mb[1] = m
        /\ \A j \in 1..Len(b) : mb[j + 1] = b[j]
    <2>1. /\ mb \in Seq(T) /\ Len(mb) = Len(<<m>>) + Len(b)
          /\ \A j \in 1..Len(<<m>>) + Len(b) :
               mb[j] = IF j <= Len(<<m>>) THEN <<m>>[j] ELSE b[j - Len(<<m>>)]
      BY <1>1, ConcatProperties
    <2>2. ASSUME NEW j \in 1..Len(b)
          PROVE  mb[j + 1] = b[j]
      <3>1. j + 1 \in 1..(1 + Len(b)) /\ ~(j + 1 <= 1) /\ (j + 1) - 1 = j
        BY <1>1
      <3> HIDE DEF mb
      <3>2. QED
        BY <1>1, <2>1, <3>1
    <2> HIDE DEF mb
    <2>3. QED
      BY <1>1, <2>1, <2>2
  <1>m. mb \in Seq(T)
    BY <1>2
  <1> HIDE DEF mb
  <1> DEFINE s == a \o mb
             t == a \o b
             k == Len(a) + 1
  <1>3. /\ s \in Seq(T) /\ Len(s) = Len(a) + Len(mb)
        /\ \A j \in 1..Len(a) + Len(mb) :
             s[j] = IF j <= Len(a) THEN a[j] ELSE mb[j - Len(a)]
    BY <1>m, ConcatProperties
  <1>4. /\ t \in Seq(T) /\ Len(t) = Len(a) + Len(b)
        /\ \A j \in 1..Len(a) + Len(b) :
             t[j] = IF j <= Len(a) THEN a[j] ELSE b[j - Len(a)]
    BY ConcatProperties
  <1> HIDE DEF s, t
  <1>5. /\ Len(s) \in Nat /\ Len(s) = Len(a) + (1 + Len(b))
        /\ Len(t) = Len(s) - 1
        /\ k \in 1..Len(s) /\ s[k] = m
    <2>1. /\ Len(s) \in Nat /\ Len(s) = Len(a) + (1 + Len(b))
          /\ Len(t) = Len(s) - 1 /\ k \in 1..Len(s)
      BY <1>1, <1>2, <1>3, <1>4
    <2>2. k \in 1..(Len(a) + Len(mb)) /\ ~(k <= Len(a)) /\ k - Len(a) = 1
      BY <1>1, <1>2
    <2>3. s[k] = mb[k - Len(a)]
      BY <1>3, <2>2
    <2>4. QED
      BY <1>2, <2>1, <2>2, <2>3
  <1>6. \A j \in 1..Len(a) : s[j] = a[j]
    BY <1>1, <1>2, <1>3
  <1>7. ASSUME NEW j \in 1..(Len(s) - 1)
        PROVE  t[j] = s[IF j < k THEN j ELSE j + 1]
    <2>1. CASE j < k
      <3>1. j \in 1..Len(a) /\ j \in 1..(Len(a) + Len(b)) /\ j <= Len(a)
        BY <1>1, <1>5, <2>1
      <3>2. QED
        BY <1>4, <1>6, <2>1, <3>1
    <2>2. CASE ~(j < k)
      <3>1. /\ j - Len(a) \in 1..Len(b) /\ ~(j <= Len(a))
            /\ j \in 1..(Len(a) + Len(b))
        BY <1>1, <1>5, <2>2
      <3>2. /\ j + 1 \in 1..(Len(a) + Len(mb)) /\ ~(j + 1 <= Len(a))
            /\ (j + 1) - Len(a) = (j - Len(a)) + 1
        BY <1>1, <1>2, <3>1
      <3>3. t[j] = b[j - Len(a)]
        BY <1>4, <3>1
      <3>4. s[j + 1] = mb[(j - Len(a)) + 1]
        BY <1>3, <3>2
      <3>5. QED
        BY <1>2, <2>2, <3>1, <3>3, <3>4
    <2>3. QED
      BY <2>1, <2>2
  <1>8. QED
    BY <1>3, <1>4, <1>5, <1>6, <1>7 DEF s, t, mb

(* The elements of a sequence.                                             *)
LEMMA Elements ==
  ASSUME NEW T, NEW s \in Seq(T)
  PROVE  /\ ToSet(s) \in SUBSET T /\ Len(s) \in Nat
         /\ \A i \in 1..Len(s) : s[i] \in ToSet(s)
         /\ \A x \in ToSet(s) : \E i \in 1..Len(s) : x = s[i]
  <1>1. DOMAIN s = 1..Len(s) /\ Len(s) \in Nat
    BY LenProperties
  <1>2. \A i \in 1..Len(s) : s[i] \in T
    BY ElementOfSeq
  <1>3. QED
    BY <1>1, <1>2 DEF ToSet

(* They are those of its first and its rest,                               *)
LEMMA TailElements ==
  ASSUME NEW T, NEW s \in Seq(T), s # <<>>
  PROVE  /\ Head(s) \in T /\ Tail(s) \in Seq(T)
         /\ Len(s) \in Nat /\ Len(s) > 0 /\ Head(s) = s[1]
         /\ Len(Tail(s)) = Len(s) - 1
         /\ \A j \in 1..(Len(s) - 1) : Tail(s)[j] = s[j + 1]
         /\ ToSet(s) = {Head(s)} \cup ToSet(Tail(s))
  <1>1. /\ Head(s) \in T /\ Tail(s) \in Seq(T)
        /\ Len(s) \in Nat /\ Len(s) > 0 /\ Head(s) = s[1]
        /\ Len(Tail(s)) = Len(s) - 1
        /\ \A j \in 1..(Len(s) - 1) : Tail(s)[j] = s[j + 1]
    BY LenProperties, HeadTailProperties, EmptySeq
  <1>2. \A x \in ToSet(s) : x = Head(s) \/ x \in ToSet(Tail(s))
    <2>1. SUFFICES ASSUME NEW i \in 1..Len(s)
                   PROVE  s[i] = Head(s) \/ s[i] \in ToSet(Tail(s))
      BY Elements
    <2>2. CASE i = 1
      BY <1>1, <2>2
    <2>3. CASE i # 1
      <3>1. i - 1 \in 1..Len(Tail(s)) /\ Tail(s)[i - 1] = s[i]
        BY <1>1, <2>3
      <3>2. QED
        BY <1>1, <3>1, Elements
    <2>4. QED
      BY <2>2, <2>3
  <1>3. ASSUME NEW x \in ToSet(Tail(s))
        PROVE  x \in ToSet(s)
    <2>1. Tail(s) \in Seq(T)
      BY <1>1
    <2>2. PICK j \in 1..Len(Tail(s)) : x = Tail(s)[j]
      BY <2>1, Elements
    <2>3. j + 1 \in 1..Len(s) /\ x = s[j + 1]
      BY <1>1, <2>2
    <2>4. QED
      BY <2>3, Elements
  <1>4. Head(s) \in ToSet(s)
    BY <1>1, Elements
  <1>5. QED
    BY <1>1, <1>2, <1>3, <1>4

(* of its two halves,                                                      *)
LEMMA HalvesElements ==
  ASSUME NEW T, NEW s \in Seq(T), NEW n \in 0..Len(s)
  PROVE  ToSet(s) = ToSet(SubSeq(s, 1, n)) \cup ToSet(SubSeq(s, n + 1, Len(s)))
  <1> DEFINE a == SubSeq(s, 1, n)
             b == SubSeq(s, n + 1, Len(s))
  <1>1. /\ Len(s) \in Nat /\ n \in Nat
        /\ a \in Seq(T) /\ Len(a) = n /\ \A j \in 1..n : a[j] = s[j]
        /\ b \in Seq(T) /\ Len(b) = Len(s) - n
        /\ \A j \in 1..(Len(s) - n) : b[j] = s[n + j]
    BY Halves, LenProperties
  <1> HIDE DEF a, b
  <1>2. \A i \in 1..Len(s) : s[i] \in ToSet(a) \cup ToSet(b)
    <2>1. SUFFICES ASSUME NEW i \in 1..Len(s)
                   PROVE  s[i] \in ToSet(a) \/ s[i] \in ToSet(b)
      OBVIOUS
    <2>2. CASE i <= n
      BY <1>1, <2>2, Elements
    <2>3. CASE ~(i <= n)
      <3>1. i - n \in 1..Len(b) /\ b[i - n] = s[i]
        BY <1>1, <2>3
      <3>2. QED
        BY <1>1, <3>1, Elements
    <2>4. QED
      BY <2>2, <2>3
  <1>3. \A j \in 1..Len(a) : a[j] \in ToSet(s)
    BY <1>1, Elements
  <1>4. \A j \in 1..Len(b) : b[j] \in ToSet(s)
    <2>1. SUFFICES ASSUME NEW j \in 1..Len(b)
                   PROVE  b[j] \in ToSet(s)
      OBVIOUS
    <2>2. n + j \in 1..Len(s) /\ b[j] = s[n + j]
      BY <1>1
    <2>3. QED
      BY <2>2, Elements
  <1>5. \A x \in ToSet(s) : x \in ToSet(a) \cup ToSet(b)
    BY <1>2, Elements
  <1>6. \A x \in ToSet(a) : x \in ToSet(s)
    BY <1>1, <1>3, Elements
  <1>7. \A x \in ToSet(b) : x \in ToSet(s)
    BY <1>1, <1>4, Elements
  <1>8. QED
    BY <1>5, <1>6, <1>7 DEF a, b

(* of the two that it joins,                                               *)
LEMMA Joined ==
  ASSUME NEW T, NEW s \in Seq(T), NEW t \in Seq(T)
  PROVE  /\ s \o t \in Seq(T) /\ Len(s) \in Nat /\ Len(t) \in Nat
         /\ Len(s \o t) = Len(s) + Len(t)
         /\ \A i \in 1..Len(s) : (s \o t)[i] = s[i]
         /\ \A i \in 1..Len(t) : (s \o t)[Len(s) + i] = t[i]
         /\ ToSet(s \o t) = ToSet(s) \cup ToSet(t)
  <1> DEFINE u == s \o t
  <1>1. Len(s) \in Nat /\ Len(t) \in Nat
    BY LenProperties
  <1>2. /\ u \in Seq(T) /\ Len(u) = Len(s) + Len(t)
        /\ \A i \in 1..(Len(s) + Len(t)) :
              u[i] = IF i <= Len(s) THEN s[i] ELSE t[i - Len(s)]
    BY ConcatProperties
  <1> HIDE DEF u
  <1>3. \A i \in 1..Len(s) : u[i] = s[i]
    BY <1>1, <1>2
  <1>4. ASSUME NEW i \in 1..Len(t)
        PROVE  u[Len(s) + i] = t[i]
    <2>1. /\ Len(s) + i \in 1..(Len(s) + Len(t)) /\ ~(Len(s) + i <= Len(s))
          /\ (Len(s) + i) - Len(s) = i
      BY <1>1
    <2>2. QED
      BY <1>2, <2>1
  <1>5. \A x \in ToSet(u) : x \in ToSet(s) \/ x \in ToSet(t)
    <2>1. SUFFICES ASSUME NEW i \in 1..Len(u)
                   PROVE  u[i] \in ToSet(s) \/ u[i] \in ToSet(t)
      BY <1>2, Elements
    <2>2. CASE i <= Len(s)
      BY <1>1, <1>2, <2>2, Elements
    <2>3. CASE ~(i <= Len(s))
      <3>1. i - Len(s) \in 1..Len(t) /\ u[i] = t[i - Len(s)]
        BY <1>1, <1>2, <2>3
      <3>2. QED
        BY <3>1, Elements
    <2>4. QED
      BY <2>2, <2>3
  <1>6. ASSUME NEW x \in ToSet(s) \cup ToSet(t)
        PROVE  x \in ToSet(u)
    <2>1. CASE x \in ToSet(s)
      <3>1. PICK i \in 1..Len(s) : x = s[i]
        BY <2>1, Elements
      <3>2. i \in 1..Len(u) /\ u[i] = x
        BY <1>1, <1>2, <1>3, <3>1
      <3>3. QED
        BY <1>2, <3>2, Elements
    <2>2. CASE x \in ToSet(t)
      <3>1. PICK i \in 1..Len(t) : x = t[i]
        BY <2>2, Elements
      <3>2. Len(s) + i \in 1..Len(u) /\ u[Len(s) + i] = x
        BY <1>1, <1>2, <1>4, <3>1
      <3>3. QED
        BY <1>2, <3>2, Elements
    <2>3. QED
      BY <2>1, <2>2
  <1>7. QED
    BY <1>1, <1>2, <1>3, <1>4, <1>5, <1>6 DEF u

(* of what is left when one is taken out, and that one,                    *)
LEMMA RemovalElements ==
  ASSUME NEW T, NEW s \in Seq(T), NEW i \in 1..Len(s)
  PROVE  ToSet(s) = ToSet(RemoveAt(s, i)) \cup {s[i]}
  <1> DEFINE r == RemoveAt(s, i)
  <1>1. /\ Len(s) \in Nat /\ r \in Seq(T) /\ Len(r) = Len(s) - 1
        /\ \A j \in 1..(Len(s) - 1) : r[j] = s[IF j < i THEN j ELSE j + 1]
    BY Removal, LenProperties
  <1>2. \A j \in 1..Len(r) : r[j] \in ToSet(s)
    <2>1. \A j \in 1..Len(r) : \E k \in 1..Len(s) : r[j] = s[k]
      BY Survivors DEF r
    <2>2. QED
      BY <2>1, Elements
  <1> HIDE DEF r
  <1>3. \A k \in 1..Len(s) : s[k] \in ToSet(r) \/ s[k] = s[i]
    <2>1. SUFFICES ASSUME NEW k \in 1..Len(s), k # i
                   PROVE  s[k] \in ToSet(r)
      OBVIOUS
    <2>2. CASE k < i
      <3>1. k \in 1..Len(r) /\ r[k] = s[k]
        BY <1>1, <2>2
      <3>2. QED
        BY <1>1, <3>1, Elements
    <2>3. CASE ~(k < i)
      <3>1. /\ k - 1 \in 1..Len(r) /\ ~(k - 1 < i) /\ (k - 1) + 1 = k
        BY <1>1, <2>1, <2>3
      <3>2. r[k - 1] = s[k]
        BY <1>1, <3>1
      <3>3. QED
        BY <1>1, <3>1, <3>2, Elements
    <2>4. QED
      BY <2>2, <2>3
  <1>4. s[i] \in ToSet(s) /\ \A x \in ToSet(s) : x \in ToSet(r) \/ x = s[i]
    BY <1>3, Elements
  <1>5. \A x \in ToSet(r) : x \in ToSet(s)
    BY <1>1, <1>2, Elements
  <1>6. QED
    BY <1>4, <1>5 DEF r

(* and of what there was and the one appended.                             *)
LEMMA AppendedElements ==
  ASSUME NEW T, NEW s \in Seq(T), NEW e \in T
  PROVE  Append(s, e) \in Seq(T) /\ ToSet(Append(s, e)) = ToSet(s) \cup {e}
  <1> DEFINE a == Append(s, e)
  <1>1. /\ Len(s) \in Nat /\ a \in Seq(T) /\ Len(a) = Len(s) + 1
        /\ a[Len(s) + 1] = e /\ \A j \in 1..Len(s) : a[j] = s[j]
        /\ 1..Len(a) = 1..Len(s) \cup {Len(s) + 1}
    BY Appended, AppendProperties
  <1> HIDE DEF a
  <1>2. /\ \A x \in ToSet(a) : x \in ToSet(s) \/ x = e
        /\ \A x \in ToSet(s) : x \in ToSet(a)
        /\ e \in ToSet(a)
    BY <1>1, Elements
  <1>3. QED
    BY <1>1, <1>2 DEF a

(* The least of a set of naturals is one of them.                          *)
LEMMA LeastExists ==
  ASSUME NEW S \in SUBSET Nat, S # {}
  PROVE  Min(S) \in S /\ \A y \in S : Min(S) <= y
  <1>1. PICK x \in S : \A y \in S : ~(<<y, x>> \in OpToRel(<, Nat))
    BY WFMin, NatLessThanWellFounded, Zenon
  <1>2. \A y \in S : ~(y < x)
    BY <1>1, Zenon DEF OpToRel
  <1>3. \A y \in S : x <= y
    BY <1>2
  <1>4. QED
    BY <1>3 DEF Min

(* What is left when an element is taken out: the others, in their order.  *)
LEMMA Remaining ==
  ASSUME NEW T, NEW s \in Seq(T), NEW k \in 1..Len(s)
  PROVE  /\ \A j \in 1..Len(RemoveAt(s, k)) : \E l \in 1..Len(s) :
              l # k /\ RemoveAt(s, k)[j] = s[l]
         /\ \A i, j \in 1..Len(RemoveAt(s, k)) : i < j =>
              \E l, m \in 1..Len(s) :
                l < m /\ RemoveAt(s, k)[i] = s[l] /\ RemoveAt(s, k)[j] = s[m]
         /\ \A l \in 1..Len(s) : l # k =>
              \E j \in 1..Len(RemoveAt(s, k)) : RemoveAt(s, k)[j] = s[l]
  <1> DEFINE r == RemoveAt(s, k)
             old(j) == IF j < k THEN j ELSE j + 1
  <1>1. \A j \in 1..Len(r) : old(j) \in (1..Len(s)) \ {k} /\ r[j] = s[old(j)]
    BY Survivors
  <1>2. Len(s) \in Nat /\ Len(r) = Len(s) - 1
    BY Removal, LenProperties
  <1>3. \A i, j \in 1..Len(r) : i < j => old(i) < old(j)
    BY <1>2
  <1>4. \A l \in 1..Len(s) : l # k => \E j \in 1..Len(r) : old(j) = l
    <2>1. SUFFICES ASSUME NEW l \in 1..Len(s), l # k
                   PROVE  \E j \in 1..Len(r) : old(j) = l
      OBVIOUS
    <2>2. CASE l < k
      BY <1>2, <2>2
    <2>3. CASE k < l
      <3>1. l - 1 \in 1..Len(r) /\ old(l - 1) = l
        BY <1>2, <2>3
      <3>2. QED
        BY <3>1
    <2>4. QED
      BY <1>2, <2>1, <2>2, <2>3
  <1> HIDE DEF r, old
  <1>5. QED
    BY <1>1, <1>3, <1>4 DEF r

=============================================================================
