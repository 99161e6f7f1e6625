--------------------------- MODULE SequenceLemmas ---------------------------
(***************************************************************************)
(* What the proofs need to know of queues: sequences of distinct elements  *)
(* that something joins at the end, and leaves at the front or, when it is *)
(* cancelled, from anywhere.                                               *)
(***************************************************************************)
EXTENDS Naturals, Sequences, SequencesExt, SequenceTheorems, TLAPS

LEMMA AppendLemma ==
  ASSUME NEW S, NEW q \in Seq(S), IsInjective(q), NEW e \in S, e \notin ToSet(q)
  PROVE  /\ Append(q, e) \in Seq(S)
         /\ IsInjective(Append(q, e))
         /\ ToSet(Append(q, e)) = ToSet(q) \cup {e}
         /\ Append(q, e) # <<>>
         /\ Head(Append(q, e)) = IF q = <<>> THEN e ELSE Head(q)
  BY DEF IsInjective, ToSet

LEMMA TailLemma ==
  ASSUME NEW S, NEW q \in Seq(S), IsInjective(q), q # <<>>
  PROVE  /\ Tail(q) \in Seq(S)
         /\ IsInjective(Tail(q))
         /\ Head(q) \in ToSet(q)
         /\ ToSet(Tail(q)) = ToSet(q) \ {Head(q)}
  <1>1. /\ Tail(q) \in Seq(S) /\ Len(q) \in Nat \ {0} /\ Len(Tail(q)) = Len(q) - 1
        /\ Head(q) = q[1]
        /\ \A i \in 1..Len(q) - 1 : Tail(q)[i] = q[i + 1]
    OBVIOUS
  <1>2. IsInjective(Tail(q)) /\ Head(q) \in ToSet(q)
    BY <1>1 DEF IsInjective, ToSet
  <1>3. ToSet(Tail(q)) \subseteq ToSet(q) \ {Head(q)}
    BY <1>1 DEF IsInjective, ToSet
  <1>4. ToSet(q) \ {Head(q)} \subseteq ToSet(Tail(q))
    <2>1. ASSUME NEW i \in 1..Len(q), q[i] # Head(q)
          PROVE  i - 1 \in 1..Len(Tail(q)) /\ Tail(q)[i - 1] = q[i]
      BY <1>1, <2>1
    <2>2. DOMAIN q = 1..Len(q) /\ DOMAIN Tail(q) = 1..Len(Tail(q))
      BY <1>1
    <2> QED
      BY <2>1, <2>2 DEF ToSet
  <1> QED
    BY <1>1, <1>2, <1>3, <1>4

\* One element leaves a sequence: those behind it move up.
LEMMA RemoveAtLemma ==
  ASSUME NEW S, NEW q \in Seq(S), NEW k \in 1..Len(q)
  PROVE  /\ RemoveAt(q, k) \in Seq(S) /\ Len(RemoveAt(q, k)) = Len(q) - 1
         /\ \A i \in 1..Len(q) - 1 : RemoveAt(q, k)[i] = IF i < k THEN q[i] ELSE q[i + 1]
  <1> DEFINE front == SubSeq(q, 1, k - 1)
             back == SubSeq(q, k + 1, Len(q))
             r == front \o back
  <1>1. /\ front \in Seq(S) /\ Len(front) = k - 1
        /\ \A i \in 1..k - 1 : front[i] = q[i]
    OBVIOUS
  <1>2. /\ back \in Seq(S) /\ Len(back) = Len(q) - k
        /\ \A i \in 1..Len(q) - k : back[i] = q[k + i]
    OBVIOUS
  <1> HIDE DEF front, back
  <1>3. /\ r \in Seq(S) /\ Len(r) = Len(q) - 1 /\ Len(q) \in Nat
        /\ \A i \in 1..Len(q) - 1 :
              r[i] = IF i <= k - 1 THEN front[i] ELSE back[i - (k - 1)]
    BY <1>1, <1>2, ConcatProperties
  <1>4. \A i \in 1..Len(q) - 1 : i > k - 1 => i - (k - 1) \in 1..Len(q) - k
    OBVIOUS
  <1>5. \A i \in 1..Len(q) - 1 : i > k - 1 => back[i - (k - 1)] = q[i + 1]
    BY <1>2, <1>4
  <1>6. r = RemoveAt(q, k)
    BY DEF RemoveAt, front, back
  <1> HIDE DEF r
  <1> QED
    BY <1>1, <1>3, <1>5, <1>6

LEMMA RemoveFirstLemma ==
  ASSUME NEW S, NEW q \in Seq(S), IsInjective(q), NEW e
  PROVE  /\ RemoveFirst(q, e) \in Seq(S)
         /\ IsInjective(RemoveFirst(q, e))
         /\ ToSet(RemoveFirst(q, e)) = ToSet(q) \ {e}
         /\ q # <<>> /\ Head(q) # e =>
               RemoveFirst(q, e) # <<>> /\ Head(RemoveFirst(q, e)) = Head(q)
  <1>1. CASE \A i \in 1..Len(q) : q[i] # e
    <2>1. RemoveFirst(q, e) = q
      BY <1>1 DEF RemoveFirst
    <2>2. e \notin ToSet(q)
      BY <1>1 DEF ToSet
    <2> QED
      BY <2>1, <2>2
  <1>2. CASE \E i \in 1..Len(q) : q[i] = e
    <2>1. PICK k \in 1..Len(q) : q[k] = e
      BY <1>2
    <2>2. \A i \in 1..Len(q) : q[i] = e <=> i = k
      BY <2>1 DEF IsInjective
    <2> DEFINE r == RemoveAt(q, k)
    <2>3. RemoveFirst(q, e) = r
      <3>1. {i \in 1..Len(q) : q[i] = e} = {k} /\ Min({k}) = k
        BY <2>2 DEF Min
      <3> QED
        BY <1>2, <3>1 DEF RemoveFirst, SelectInSeq
    <2>6. /\ r \in Seq(S) /\ Len(r) = Len(q) - 1 /\ Len(q) \in Nat
          /\ \A i \in 1..Len(q) - 1 : r[i] = IF i < k THEN q[i] ELSE q[i + 1]
      BY RemoveAtLemma
    <2> HIDE DEF r
    <2>7. IsInjective(r)
      <3> SUFFICES ASSUME NEW i \in 1..Len(q) - 1, NEW j \in 1..Len(q) - 1, r[i] = r[j]
                   PROVE  i = j
        BY <2>6 DEF IsInjective
      <3> DEFINE at(n) == IF n < k THEN n ELSE n + 1
      <3>1. at(i) \in 1..Len(q) /\ at(j) \in 1..Len(q) /\ q[at(i)] = q[at(j)]
        BY <2>6
      <3>2. at(i) = at(j)
        BY <3>1 DEF IsInjective
      <3> QED
        BY <3>2
    <2>8. ToSet(r) \subseteq ToSet(q) \ {e}
      <3>1. ASSUME NEW i \in 1..Len(q) - 1
            PROVE  \E j \in 1..Len(q) : j # k /\ r[i] = q[j]
        <4>1. CASE i < k
          BY <2>6, <4>1
        <4>2. CASE i >= k
          BY <2>6, <4>2, i + 1 \in 1..Len(q)
        <4> QED
          BY <4>1, <4>2
      <3>2. ASSUME NEW i \in 1..Len(q) - 1 PROVE r[i] \in ToSet(q) \ {e}
        <4>1. PICK j \in 1..Len(q) : j # k /\ r[i] = q[j]
          BY <3>1
        <4> QED
          BY <2>2, <4>1 DEF ToSet
      <3>3. DOMAIN r = 1..Len(q) - 1
        BY <2>6
      <3> QED
        BY <3>2, <3>3 DEF ToSet
    <2>9. ToSet(q) \ {e} \subseteq ToSet(r)
      <3> SUFFICES ASSUME NEW i \in 1..Len(q), q[i] # e
                   PROVE  \E j \in 1..Len(r) : r[j] = q[i]
        BY <2>6 DEF ToSet
      <3>1. CASE i < k
        BY <2>6, <3>1
      <3>2. CASE i > k
        BY <2>6, <3>2, i - 1 \in 1..Len(r), r[i - 1] = q[i]
      <3> QED
        BY <2>2, <3>1, <3>2
    <2>10. Head(q) # e => r # <<>> /\ Head(r) = Head(q)
      BY <2>1, <2>6
    <2> QED
      BY <2>3, <2>6, <2>7, <2>8, <2>9, <2>10
  <1> QED
    BY <1>1, <1>2

\* A queue loses its first d elements and keeps the last one.
LEMMA CutLemma ==
  ASSUME NEW S, NEW q \in Seq(S), IsInjective(q), NEW d \in 0..Len(q) - 1
  PROVE  LET gone == ToSet(SubSeq(q, 1, d))
             rest == SubSeq(q, d + 1, Len(q))
         IN /\ rest \in Seq(S) /\ IsInjective(rest) /\ rest # <<>>
            /\ Len(rest) = Len(q) - d /\ Head(rest) = q[d + 1]
            /\ ToSet(rest) = ToSet(q) \ gone
            /\ q[Len(q)] \in ToSet(rest)
  <1> DEFINE front == SubSeq(q, 1, d)
             rest == SubSeq(q, d + 1, Len(q))
  <1>1. /\ front \in Seq(S) /\ Len(front) = d /\ \A i \in 1..d : front[i] = q[i]
    OBVIOUS
  <1>2. /\ rest \in Seq(S) /\ Len(rest) = Len(q) - d
        /\ \A i \in 1..Len(q) - d : rest[i] = q[d + i]
    OBVIOUS
  <1> HIDE DEF front, rest
  <1>3. IsInjective(rest) /\ rest # <<>> /\ Head(rest) = q[d + 1]
    <2>1. IsInjective(rest)
      <3> SUFFICES ASSUME NEW i \in 1..Len(rest), NEW j \in 1..Len(rest), rest[i] = rest[j]
                   PROVE  i = j
        BY <1>2 DEF IsInjective
      <3>1. d + i \in 1..Len(q) /\ d + j \in 1..Len(q) /\ q[d + i] = q[d + j]
        BY <1>2
      <3>2. d + i = d + j
        BY <3>1 DEF IsInjective
      <3> QED
        BY <1>2, <3>2
    <2> QED
      BY <1>2, <2>1
  <1>4. \A i \in 1..Len(q) : i > d => i - d \in 1..Len(rest) /\ rest[i - d] = q[i]
    BY <1>2
  <1>5. \A i \in 1..Len(q) : q[i] \in ToSet(rest) <=> i > d
    <2>1. \A i \in 1..Len(q) : i > d => q[i] \in ToSet(rest)
      BY <1>2, <1>4 DEF ToSet
    <2>2. ASSUME NEW i \in 1..Len(q), q[i] \in ToSet(rest) PROVE i > d
      <3>1. PICK j \in 1..Len(rest) : rest[j] = q[i]
        BY <2>2 DEF ToSet
      <3>2. d + j \in 1..Len(q) /\ q[d + j] = q[i]
        BY <1>2, <3>1
      <3>3. d + j = i
        BY <3>2 DEF IsInjective
      <3> QED
        BY <3>3
    <2> QED
      BY <2>1, <2>2
  <1>6. \A i \in 1..Len(q) : q[i] \in ToSet(front) <=> i <= d
    <2>1. \A i \in 1..Len(q) : i <= d => q[i] \in ToSet(front)
      BY <1>1 DEF ToSet
    <2>2. ASSUME NEW i \in 1..Len(q), q[i] \in ToSet(front) PROVE i <= d
      <3>1. PICK j \in 1..d : front[j] = q[i]
        BY <1>1, <2>2 DEF ToSet
      <3>2. j = i
        BY <1>1, <3>1 DEF IsInjective
      <3> QED
        BY <3>2
    <2> QED
      BY <2>1, <2>2
  <1>7. ToSet(rest) \subseteq ToSet(q)
    BY <1>2 DEF ToSet
  <1>8. ToSet(rest) = ToSet(q) \ ToSet(front)
    <2>1. \A e \in ToSet(q) : \E i \in 1..Len(q) : e = q[i]
      BY DEF ToSet
    <2>2. \A e \in ToSet(q) : e \in ToSet(rest) <=> e \notin ToSet(front)
      BY <1>5, <1>6, <2>1
    <2> QED
      BY <1>7, <2>2
  <1>9. q[Len(q)] \in ToSet(rest)
    BY <1>5
  <1> QED
    BY <1>2, <1>3, <1>8, <1>9 DEF front, rest

\* One element joins a sequence: those behind it move down.
LEMMA InsertAtLemma ==
  ASSUME NEW S, NEW q \in Seq(S), NEW k \in 1..Len(q) + 1, NEW e \in S
  PROVE  /\ InsertAt(q, k, e) \in Seq(S) /\ Len(InsertAt(q, k, e)) = Len(q) + 1
         /\ \A i \in 1..Len(q) + 1 :
               InsertAt(q, k, e)[i] = IF i < k THEN q[i] ELSE IF i = k THEN e ELSE q[i - 1]
  <1> DEFINE front == SubSeq(q, 1, k - 1)
             longer == Append(front, e)
             back == SubSeq(q, k, Len(q))
             r == longer \o back
  <1>1. /\ front \in Seq(S) /\ Len(front) = k - 1 /\ k \in Nat \ {0} /\ Len(q) \in Nat
        /\ \A i \in 1..k - 1 : front[i] = q[i]
    OBVIOUS
  <1>2. /\ back \in Seq(S) /\ Len(back) = Len(q) + 1 - k
        /\ \A i \in 1..Len(q) + 1 - k : back[i] = q[k + i - 1]
    OBVIOUS
  <1> HIDE DEF front, back
  <1>3. /\ longer \in Seq(S) /\ Len(longer) = k /\ longer = front \o <<e>>
        /\ \A i \in 1..k : longer[i] = IF i < k THEN front[i] ELSE e
    BY <1>1
  <1>4. r = InsertAt(q, k, e)
    BY <1>3 DEF InsertAt, front, back
  <1> HIDE DEF longer
  <1>5. /\ r \in Seq(S) /\ Len(r) = Len(q) + 1
        /\ \A i \in 1..Len(q) + 1 : r[i] = IF i <= k THEN longer[i] ELSE back[i - k]
    BY <1>1, <1>2, <1>3, ConcatProperties
  <1> HIDE DEF r
  <1>6. ASSUME NEW i \in 1..Len(q) + 1
        PROVE  r[i] = IF i < k THEN q[i] ELSE IF i = k THEN e ELSE q[i - 1]
    <2>1. CASE i <= k
      BY <1>1, <1>3, <1>5, <2>1
    <2>2. CASE i > k
      <3>1. i - k \in 1..Len(q) + 1 - k /\ k + (i - k) - 1 = i - 1
        BY <1>1, <2>2
      <3>2. back[i - k] = q[i - 1]
        BY <1>2, <3>1
      <3> QED
        BY <1>1, <1>5, <2>2, <3>2
    <2> QED
      BY <1>1, <2>1, <2>2
  <1> QED
    BY <1>4, <1>5, <1>6

\* The elements of two sequences.
LEMMA JoinedLemma ==
  ASSUME NEW S, NEW s \in Seq(S), NEW t \in Seq(S)
  PROVE  ToSet(s \o t) = ToSet(s) \cup ToSet(t)
  <1> DEFINE r == s \o t
  <1>1. /\ r \in Seq(S) /\ Len(r) = Len(s) + Len(t) /\ Len(s) \in Nat /\ Len(t) \in Nat
        /\ \A i \in 1..Len(s) + Len(t) : r[i] = IF i <= Len(s) THEN s[i] ELSE t[i - Len(s)]
    BY ConcatProperties
  <1>2. /\ DOMAIN r = 1..Len(s) + Len(t) /\ DOMAIN s = 1..Len(s) /\ DOMAIN t = 1..Len(t)
    BY <1>1
  <1> HIDE DEF r
  <1>3. ASSUME NEW i \in 1..Len(s) + Len(t) PROVE r[i] \in ToSet(s) \cup ToSet(t)
    <2>1. CASE i <= Len(s)
      <3>1. i \in 1..Len(s) /\ r[i] = s[i]
        BY <1>1, <2>1
      <3> QED
        BY <1>2, <3>1 DEF ToSet
    <2>2. CASE ~(i <= Len(s))
      <3>1. i - Len(s) \in 1..Len(t) /\ r[i] = t[i - Len(s)]
        BY <1>1, <2>2
      <3> QED
        BY <1>2, <3>1 DEF ToSet
    <2> QED
      BY <2>1, <2>2
  <1>4. ToSet(s) \subseteq ToSet(r)
    BY <1>1, <1>2 DEF ToSet
  <1>5. ASSUME NEW i \in 1..Len(t) PROVE t[i] \in ToSet(r)
    <2>1. i + Len(s) \in 1..Len(s) + Len(t) /\ ~(i + Len(s) <= Len(s)) /\ i + Len(s) - Len(s) = i
      BY <1>1
    <2>2. r[i + Len(s)] = t[i]
      BY <1>1, <2>1
    <2> QED
      BY <1>2, <2>1, <2>2 DEF ToSet
  <1> QED
    BY <1>2, <1>3, <1>4, <1>5 DEF ToSet, r
=============================================================================
