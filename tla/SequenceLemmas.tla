------------------------------ MODULE SequenceLemmas ------------------------------
(***********************************************************************************)
(* Lemmas about numbers and sequences that several components' proofs rest on:     *)
(* the least element of a set of naturals, which stands in for induction, what     *)
(* the operators on sequences do to the elements of one without repetitions, what  *)
(* taking an element out and putting it back do to the places of the others, and   *)
(* the step functions behind the folds of the community modules.                   *)
(***********************************************************************************)
EXTENDS SequencesExt, FiniteSetTheorems, SequenceTheorems, TLAPS

-----------------------------------------------------------------------------------

LEMMA LeastOf ==
  ASSUME NEW T \in SUBSET Nat, T # {}
  PROVE  \E m \in T : \A k \in T : m <= k
<1> DEFINE R == OpToRel(<, Nat)
<1>1. IsWellFoundedOn(R, Nat)
  BY NatLessThanWellFounded
<1>2. PICK m \in T : \A k \in T : <<k, m>> \notin R
  <2> HIDE DEF R
  <2>1. QED
    BY <1>1, WFMin
<1>3. \A k \in T : ~(k < m)
  BY <1>2 DEF OpToRel
<1>4. QED
  BY <1>3

LEMMA AppendedSet ==
  ASSUME NEW S, NEW s \in Seq(S), NEW e \in S
  PROVE  /\ Append(s, e) \in Seq(S) /\ ToSet(Append(s, e)) = ToSet(s) \cup {e}
         /\ IsInjective(s) /\ e \notin ToSet(s) => IsInjective(Append(s, e))
<1> DEFINE t == Append(s, e)
           n == Len(s)
<1>1. /\ n \in Nat /\ t \in Seq(S) /\ DOMAIN s = 1..n /\ DOMAIN t = 1..n + 1
      /\ t[n + 1] = e /\ \A i \in 1..n : t[i] = s[i]
  OBVIOUS
<1> HIDE DEF t, n
<1>2. \A i \in 1..n + 1 : i \in 1..n \/ i = n + 1
  BY <1>1
<1>3. ToSet(t) = ToSet(s) \cup {e}
  BY <1>1, <1>2 DEF ToSet
<1>4. IsInjective(s) /\ e \notin ToSet(s) => IsInjective(t)
  BY <1>1, <1>2 DEF ToSet, IsInjective
<1>5. QED
  BY <1>1, <1>3, <1>4 DEF t

LEMMA TailSet ==
  ASSUME NEW S, NEW s \in Seq(S), s # <<>>, IsInjective(s)
  PROVE  /\ Tail(s) \in Seq(S) /\ IsInjective(Tail(s))
         /\ Head(s) \in ToSet(s) /\ Head(s) \in S /\ ToSet(Tail(s)) = ToSet(s) \ {Head(s)}
<1> DEFINE t == Tail(s)
           n == Len(s)
<1>1. /\ n \in Nat /\ n > 0 /\ t \in Seq(S) /\ DOMAIN s = 1..n /\ DOMAIN t = 1..n - 1
      /\ Head(s) = s[1] /\ s[1] \in S /\ \A i \in 1..n - 1 : t[i] = s[i + 1]
  OBVIOUS
<1> HIDE DEF t, n
<1>2. \A i \in 1..n - 1 : i + 1 \in 1..n /\ i + 1 # 1
  BY <1>1
<1>3. \A i \in 1..n : i = 1 \/ (i - 1 \in 1..n - 1 /\ t[i - 1] = s[i])
  BY <1>1
<1>a. \A i, j \in 1..n : s[i] = s[j] => i = j
  BY <1>1 DEF IsInjective
<1>4. IsInjective(t)
  <2>1. SUFFICES ASSUME NEW i \in 1..n - 1, NEW j \in 1..n - 1, t[i] = t[j] PROVE i = j
    BY <1>1 DEF IsInjective
  <2>2. s[i + 1] = s[j + 1]
    BY <1>1, <2>1
  <2>3. i + 1 = j + 1
    BY <1>2, <1>a, <2>2
  <2>4. QED
    BY <2>3
<1>5. ToSet(t) = ToSet(s) \ {s[1]}
  <2>1. ASSUME NEW i \in 1..n - 1 PROVE t[i] \in ToSet(s) \ {s[1]}
    <3>1. i + 1 \in 1..n /\ 1 \in 1..n /\ i + 1 # 1 /\ t[i] = s[i + 1]
      BY <1>1, <1>2
    <3>2. t[i] # s[1]
      BY <1>a, <3>1
    <3>3. QED
      BY <1>1, <3>1, <3>2 DEF ToSet
  <2>2. ASSUME NEW i \in 1..n, s[i] # s[1] PROVE s[i] \in ToSet(t)
    BY <1>1, <1>3, <2>2 DEF ToSet
  <2>3. QED
    <3>1. ToSet(t) = {t[i] : i \in 1..n - 1} /\ ToSet(s) = {s[i] : i \in 1..n}
      BY <1>1 DEF ToSet
    <3>2. ToSet(t) \subseteq ToSet(s) \ {s[1]}
      BY <2>1, <3>1
    <3>3. ToSet(s) \ {s[1]} \subseteq ToSet(t)
      BY <2>2, <3>1
    <3>4. QED
      BY <3>2, <3>3
<1>6. s[1] \in ToSet(s)
  BY <1>1 DEF ToSet
<1>7. QED
  BY <1>1, <1>4, <1>5, <1>6 DEF t

LEMMA PrefixSet ==
  ASSUME NEW S, NEW s \in Seq(S), NEW m \in 0..Len(s), IsInjective(s)
  PROVE  /\ SubSeq(s, 1, m) \in Seq(S) /\ Len(SubSeq(s, 1, m)) = m
         /\ IsInjective(SubSeq(s, 1, m)) /\ ToSet(SubSeq(s, 1, m)) \subseteq ToSet(s)
<1> DEFINE t == SubSeq(s, 1, m)
<1>1. /\ Len(s) \in Nat /\ t \in Seq(S) /\ Len(t) = m /\ DOMAIN s = 1..Len(s) /\ DOMAIN t = 1..m
      /\ \A i \in 1..m : t[i] = s[i] /\ i \in 1..Len(s)
  OBVIOUS
<1> HIDE DEF t
<1>2. IsInjective(t) /\ ToSet(t) \subseteq ToSet(s)
  BY <1>1 DEF IsInjective, ToSet
<1>3. QED
  BY <1>1, <1>2 DEF t

LEMMA RemovedSet ==
  ASSUME NEW S, NEW s \in Seq(S), NEW e, IsInjective(s)
  PROVE  /\ RemoveFirst(s, e) \in Seq(S) /\ Len(RemoveFirst(s, e)) <= Len(s)
         /\ (e \in ToSet(s) => Len(RemoveFirst(s, e)) = Len(s) - 1)
         /\ IsInjective(RemoveFirst(s, e)) /\ ToSet(RemoveFirst(s, e)) = ToSet(s) \ {e}
<1> DEFINE n == Len(s)
           I == {i \in 1..n : s[i] = e}
<1>1. n \in Nat /\ DOMAIN s = 1..n
  OBVIOUS
<1>2. CASE I = {}
  <2>1. RemoveFirst(s, e) = s
    BY <1>2 DEF RemoveFirst
  <2>2. e \notin ToSet(s)
    BY <1>1, <1>2 DEF ToSet
  <2>3. QED
    <3>1. ToSet(s) \ {e} = ToSet(s) /\ Len(s) <= Len(s)
      BY <1>1, <2>2
    <3>2. QED
      BY <2>1, <2>2, <3>1
<1>3. CASE I # {}
  <2> DEFINE p == Min(I)
             t == SubSeq(s, 1, p - 1) \o SubSeq(s, p + 1, n)
  <2>1. p \in I /\ p \in 1..n /\ s[p] = e
    <3>1. I \in SUBSET Nat
      BY <1>1
    <3>2. \E m \in I : \A k \in I : m <= k
      <4> HIDE DEF I
      <4>1. QED
        BY <1>3, <3>1, LeastOf
    <3>3. p \in I
      BY <3>2 DEF Min
    <3>4. QED
      BY <3>3
  <2>2. RemoveFirst(s, e) = t
    BY <1>3, <2>1 DEF RemoveFirst, RemoveAt, SelectInSeq
  <2> HIDE DEF p
  <2>3. SubSeq(s, 1, p - 1) \in Seq(S) /\ SubSeq(s, p + 1, n) \in Seq(S)
        /\ Len(SubSeq(s, 1, p - 1)) = p - 1 /\ Len(SubSeq(s, p + 1, n)) = n - p
        /\ (\A i \in 1..p - 1 : SubSeq(s, 1, p - 1)[i] = s[i])
        /\ \A i \in 1..n - p : SubSeq(s, p + 1, n)[i] = s[i + p]
    <3>1. p - 1 \in 0..n /\ p + 1 \in 1..n + 1 /\ n \in Nat /\ p \in 1..n
      BY <1>1, <2>1
    <3>2. QED
      BY <3>1, SubSeqProperties
  <2>4. /\ t \in Seq(S) /\ Len(t) = n - 1 /\ DOMAIN t = 1..n - 1
        /\ \A i \in 1..n - 1 : t[i] = IF i < p THEN s[i] ELSE s[i + 1]
    <3> DEFINE a == SubSeq(s, 1, p - 1)
               b == SubSeq(s, p + 1, n)
    <3>1. /\ t \in Seq(S) /\ Len(t) = (p - 1) + (n - p)
          /\ \A i \in 1..(p - 1) + (n - p) : t[i] = IF i <= p - 1 THEN a[i] ELSE b[i - (p - 1)]
      <4> HIDE DEF a, b
      <4>1. QED
        BY SMTT(30), <2>3, ConcatProperties DEF a, b
    <3>2. (p - 1) + (n - p) = n - 1 /\ p \in 1..n /\ n \in Nat
      BY <1>1, <2>1
    <3>3. ASSUME NEW i \in 1..n - 1 PROVE t[i] = IF i < p THEN s[i] ELSE s[i + 1]
      <4>1. CASE i < p
        <5>1. i \in 1..p - 1 /\ i <= p - 1
          BY <3>2, <4>1
        <5> HIDE DEF t
        <5>2. QED
          BY <2>3, <3>1, <3>2, <4>1, <5>1
      <4>2. CASE ~(i < p)
        <5>1. i - (p - 1) \in 1..n - p /\ ~(i <= p - 1) /\ (i - (p - 1)) + p = i + 1
          BY <3>2, <4>2
        <5> HIDE DEF t
        <5>2. QED
          BY <2>3, <3>1, <3>2, <4>2, <5>1
      <4>3. QED
        BY <4>1, <4>2
    <3> HIDE DEF t
    <3>4. DOMAIN t = 1..n - 1
      BY <3>1, <3>2
    <3>5. QED
      BY <3>1, <3>2, <3>3, <3>4
  <2> HIDE DEF t, n, I
  <2> DEFINE from(i) == IF i < p THEN i ELSE i + 1
  <2>a. \A i \in 1..n - 1 : from(i) \in 1..n /\ from(i) # p /\ t[i] = s[from(i)]
    BY <1>1, <2>1, <2>4
  <2>b. \A i, j \in 1..n - 1 : from(i) = from(j) => i = j
    BY <1>1, <2>1
  <2>c. \A i, j \in 1..n : s[i] = s[j] => i = j
    BY <1>1 DEF IsInjective
  <2> HIDE DEF from
  <2>5. IsInjective(t)
    BY <2>4, <2>a, <2>b, <2>c DEF IsInjective
  <2>6. ToSet(t) = ToSet(s) \ {e}
    <3>1. ASSUME NEW i \in 1..n - 1 PROVE t[i] \in ToSet(s) \ {e}
      BY <1>1, <2>1, <2>a, <2>c DEF ToSet
    <3>2. ASSUME NEW i \in 1..n, s[i] # e PROVE s[i] \in ToSet(t)
      <4>1. CASE i < p
        BY SMTT(30), <1>1, <2>1, <2>4, <4>1 DEF ToSet
      <4>2. CASE i > p
        <5>1. i - 1 \in 1..n - 1 /\ t[i - 1] = s[i]
          BY <1>1, <2>1, <2>4, <4>2
        <5>2. QED
          BY <2>4, <5>1 DEF ToSet
      <4>3. QED
        BY <1>1, <2>1, <3>2, <4>1, <4>2
    <3>3. QED
      BY <1>1, <2>4, <3>1, <3>2 DEF ToSet
  <2>7. QED
    BY <1>1, <2>1, <2>2, <2>4, <2>5, <2>6 DEF n
<1>4. QED
  BY <1>2, <1>3

LEMMA TouchedSet ==
  ASSUME NEW S, NEW s \in Seq(S), NEW e \in S, IsInjective(s)
  PROVE  /\ <<e>> \o RemoveFirst(s, e) \in Seq(S) /\ IsInjective(<<e>> \o RemoveFirst(s, e))
         /\ ToSet(<<e>> \o RemoveFirst(s, e)) = ToSet(s) \cup {e}
         /\ Len(<<e>> \o RemoveFirst(s, e)) \in Nat
         /\ e \in ToSet(s) => Len(<<e>> \o RemoveFirst(s, e)) = Len(s)
<1> DEFINE r == RemoveFirst(s, e)
           t == <<e>> \o r
           n == Len(r)
<1>1. r \in Seq(S) /\ IsInjective(r) /\ ToSet(r) = ToSet(s) \ {e} /\ n \in Nat
      /\ (e \in ToSet(s) => n = Len(s) - 1) /\ DOMAIN r = 1..n
  <2>1. r \in Seq(S) /\ IsInjective(r) /\ ToSet(r) = ToSet(s) \ {e} /\ (e \in ToSet(s) => n = Len(s) - 1)
    BY RemovedSet
  <2>2. QED
    BY <2>1
<1> HIDE DEF r
<1>2. /\ t \in Seq(S) /\ Len(t) = n + 1 /\ DOMAIN t = 1..n + 1 /\ t[1] = e
      /\ \A i \in 1..n : t[i + 1] = r[i]
  BY <1>1
<1> HIDE DEF t, n
<1>3. \A i \in 1..n + 1 : i = 1 \/ (i - 1 \in 1..n /\ t[i] = r[i - 1])
  <2>1. SUFFICES ASSUME NEW i \in 1..n + 1, i # 1 PROVE i - 1 \in 1..n /\ t[i] = r[i - 1]
    OBVIOUS
  <2>2. i - 1 \in 1..n /\ (i - 1) + 1 = i
    BY <1>1, <2>1
  <2>3. QED
    BY <1>2, <2>2
<1>4. ToSet(t) = ToSet(r) \cup {e}
  <2>1. ASSUME NEW i \in 1..n PROVE r[i] \in ToSet(t)
    <3>1. i + 1 \in 1..n + 1 /\ t[i + 1] = r[i]
      BY <1>1, <1>2
    <3>2. QED
      BY <1>2, <3>1 DEF ToSet
  <2>2. 1 \in 1..n + 1
    BY <1>1
  <2>3. ASSUME NEW i \in 1..n + 1 PROVE t[i] \in ToSet(r) \cup {e}
    BY <1>1, <1>2, <1>3 DEF ToSet
  <2>4. ToSet(t) = {t[i] : i \in 1..n + 1} /\ ToSet(r) = {r[i] : i \in 1..n}
    BY <1>1, <1>2 DEF ToSet
  <2>5. ToSet(t) \subseteq ToSet(r) \cup {e}
    BY <2>3, <2>4
  <2>6. ToSet(r) \subseteq ToSet(t)
    BY <2>1, <2>4
  <2>7. e \in ToSet(t)
    BY <1>2, <2>2, <2>4
  <2>8. QED
    BY <2>5, <2>6, <2>7
<1>5. IsInjective(t)
  <2>1. SUFFICES ASSUME NEW i \in 1..n + 1, NEW j \in 1..n + 1, t[i] = t[j] PROVE i = j
    BY <1>2 DEF IsInjective
  <2>2. \A k \in 1..n : r[k] # e
    BY <1>1 DEF ToSet
  <2>3. \A k, l \in 1..n : r[k] = r[l] => k = l
    BY <1>1 DEF IsInjective
  <2>4. i - 1 \in 1..n /\ j - 1 \in 1..n => i - 1 = j - 1
    BY <1>3, <2>1, <2>3
  <2>5. QED
    BY <1>1, <1>2, <1>3, <2>1, <2>2, <2>4
<1>6. QED
  BY <1>1, <1>2, <1>4, <1>5 DEF t, r

LEMMA InjectiveLength ==
  ASSUME NEW S, NEW s \in Seq(S), IsInjective(s)
  PROVE  IsFiniteSet(ToSet(s)) /\ Cardinality(ToSet(s)) = Len(s) /\ Len(s) \in Nat
<1>1. Len(s) \in Nat /\ DOMAIN s = 1..Len(s) /\ s \in [1..Len(s) -> ToSet(s)]
  BY DEF ToSet
<1>2. s \in Bijection(1..Len(s), ToSet(s))
  BY <1>1 DEF Bijection, Injection, Surjection, ToSet
<1>3. QED
  BY <1>1, <1>2, FS_CountingElements, FS_NatBijection DEF ExistsBijection

-----------------------------------------------------------------------------------
(* Out and in again. *)

(* Taking an element out of a sequence, and putting it back.                       *)
LEMMA TakenOut ==
  ASSUME NEW S, NEW s \in Seq(S), NEW i \in 1..Len(s)
  PROVE  /\ RemoveAt(s, i) \in Seq(S) /\ Len(RemoveAt(s, i)) = Len(s) - 1
         /\ \A k \in 1..Len(s) - 1 : RemoveAt(s, i)[k] = IF k < i THEN s[k] ELSE s[k + 1]
<1> DEFINE n == Len(s)
           low == SubSeq(s, 1, i - 1)
           high == SubSeq(s, i + 1, n)
<1>1. n \in Nat /\ i \in Nat /\ 1 <= i /\ i <= n
  OBVIOUS
<1>2. /\ low \in Seq(S) /\ Len(low) = i - 1 /\ \A k \in 1..i - 1 : low[k] = s[k]
  OBVIOUS
<1>3. /\ high \in Seq(S) /\ Len(high) = n - i /\ \A k \in 1..n - i : high[k] = s[i + k]
  OBVIOUS
<1>4. RemoveAt(s, i) = low \o high
  BY DEF RemoveAt
<1> DEFINE u == low \o high
<1> HIDE DEF low, high, n, u
<1>a. /\ u \in Seq(S) /\ Len(u) = (i - 1) + (n - i)
      /\ \A k \in 1..(i - 1) + (n - i) : u[k] = IF k <= i - 1 THEN low[k] ELSE high[k - (i - 1)]
  <2> DEFINE m == i - 1
             w == n - i
  <2>1. low \in Seq(S) /\ Len(low) = m /\ m \in Nat /\ high \in Seq(S) /\ Len(high) = w /\ w \in Nat
    BY <1>1, <1>2, <1>3
  <2> HIDE DEF m, w
  <2>2. /\ u \in Seq(S) /\ Len(u) = m + w
        /\ \A k \in 1..m + w : u[k] = IF k <= m THEN low[k] ELSE high[k - m]
    <3>1. u = low \o high
      BY DEF u
    <3>2. /\ low \o high \in Seq(S) /\ Len(low \o high) = Len(low) + Len(high)
          /\ \A k \in 1..Len(low) + Len(high) :
               (low \o high)[k] = IF k <= Len(low) THEN low[k] ELSE high[k - Len(low)]
      BY <2>1, ConcatProperties
    <3> HIDE DEF u
    <3>3. QED
      BY <2>1, <3>1, <3>2
  <2>3. QED
    BY <2>2 DEF m, w
<1>b. (i - 1) + (n - i) = n - 1
  BY <1>1
<1>5. /\ u \in Seq(S) /\ Len(u) = n - 1
      /\ \A k \in 1..n - 1 : u[k] = IF k <= i - 1 THEN low[k] ELSE high[k - (i - 1)]
  BY <1>a, <1>b
<1>6. ASSUME NEW k \in 1..n - 1 PROVE u[k] = IF k < i THEN s[k] ELSE s[k + 1]
  <2>1. CASE k < i
    <3>1. k \in 1..i - 1 /\ k <= i - 1
      BY <1>1, <2>1
    <3>2. QED
      BY <1>2, <1>5, <2>1, <3>1
  <2>2. CASE ~(k < i)
    <3>1. ~(k <= i - 1) /\ k - (i - 1) \in 1..n - i /\ i + (k - (i - 1)) = k + 1
      BY <1>1, <2>2
    <3>2. QED
      BY <1>3, <1>5, <2>2, <3>1
  <2>3. QED
    BY <2>1, <2>2
<1>7. QED
  BY <1>4, <1>5, <1>6 DEF n, u

(* u is s with e put in at i.                                                      *)
WithOne(u, s, i, e) ==
  /\ Len(u) = Len(s) + 1
  /\ \A k \in 1..Len(s) + 1 : u[k] = IF k < i THEN s[k] ELSE IF k = i THEN e ELSE s[k - 1]

LEMMA InsertedOne ==
  ASSUME NEW S, NEW s \in Seq(S), NEW i \in 1..Len(s) + 1, NEW e \in S
  PROVE  InsertAt(s, i, e) \in Seq(S) /\ WithOne(InsertAt(s, i, e), s, i, e)
<1> DEFINE n == Len(s)
           low == SubSeq(s, 1, i - 1)
           high == SubSeq(s, i, n)
<1>1. n \in Nat /\ i \in Nat /\ 1 <= i /\ i <= n + 1
  OBVIOUS
<1>2. /\ low \in Seq(S) /\ Len(low) = i - 1 /\ \A k \in 1..i - 1 : low[k] = s[k]
  OBVIOUS
<1>3. /\ high \in Seq(S) /\ Len(high) = n - i + 1 /\ \A k \in 1..n - i + 1 : high[k] = s[i + k - 1]
  OBVIOUS
<1>4. InsertAt(s, i, e) = low \o <<e>> \o high
  BY DEF InsertAt
<1>5. <<e>> \in Seq(S) /\ Len(<<e>>) = 1 /\ <<e>>[1] = e
  OBVIOUS
<1> DEFINE one == <<e>>
           first == low \o one
<1> HIDE DEF low, high, n, one, first
<1>a. /\ first \in Seq(S) /\ Len(first) = (i - 1) + 1
      /\ \A k \in 1..(i - 1) + 1 : first[k] = IF k <= i - 1 THEN low[k] ELSE one[k - (i - 1)]
  <2> DEFINE m == i - 1
             w == 1
  <2>1. /\ one \in Seq(S) /\ Len(one) = w /\ w \in Nat
        /\ low \in Seq(S) /\ Len(low) = m /\ m \in Nat
    BY <1>1, <1>2, <1>5 DEF one
  <2> HIDE DEF m, w
  <2>2. /\ first \in Seq(S) /\ Len(first) = m + w
        /\ \A k \in 1..m + w : first[k] = IF k <= m THEN low[k] ELSE one[k - m]
    <3>1. first = low \o one
      BY DEF first
    <3>2. /\ low \o one \in Seq(S) /\ Len(low \o one) = Len(low) + Len(one)
          /\ \A k \in 1..Len(low) + Len(one) :
               (low \o one)[k] = IF k <= Len(low) THEN low[k] ELSE one[k - Len(low)]
      BY <2>1, ConcatProperties
    <3> HIDE DEF first
    <3>3. QED
      BY <2>1, <3>1, <3>2
  <2>3. QED
    BY <2>2 DEF m, w
<1>b. (i - 1) + 1 = i
  BY <1>1
<1>6. /\ first \in Seq(S) /\ Len(first) = i
      /\ \A k \in 1..i : first[k] = IF k <= i - 1 THEN low[k] ELSE one[k - (i - 1)]
  BY <1>a, <1>b
<1> DEFINE u == first \o high
<1> HIDE DEF u
<1>c. /\ u \in Seq(S) /\ Len(u) = i + (n - i + 1)
      /\ \A k \in 1..i + (n - i + 1) : u[k] = IF k <= i THEN first[k] ELSE high[k - i]
  <2> DEFINE m == n - i + 1
  <2>1. high \in Seq(S) /\ Len(high) = m /\ first \in Seq(S) /\ Len(first) = i /\ m \in Nat /\ i \in Nat
    BY <1>1, <1>3, <1>6
  <2> HIDE DEF m
  <2>2. /\ u \in Seq(S) /\ Len(u) = i + m
        /\ \A k \in 1..i + m : u[k] = IF k <= i THEN first[k] ELSE high[k - i]
    <3>1. u = first \o high
      BY DEF u
    <3>2. /\ first \o high \in Seq(S) /\ Len(first \o high) = Len(first) + Len(high)
          /\ \A k \in 1..Len(first) + Len(high) :
               (first \o high)[k] = IF k <= Len(first) THEN first[k] ELSE high[k - Len(first)]
      BY <2>1, ConcatProperties
    <3> HIDE DEF u
    <3>3. QED
      BY <2>1, <3>1, <3>2
  <2>3. QED
    BY <2>2 DEF m
<1>d. i + (n - i + 1) = n + 1
  BY <1>1
<1>7. /\ u \in Seq(S) /\ Len(u) = n + 1
      /\ \A k \in 1..n + 1 : u[k] = IF k <= i THEN first[k] ELSE high[k - i]
  BY <1>c, <1>d
<1>8. ASSUME NEW k \in 1..n + 1
      PROVE  u[k] = IF k < i THEN s[k] ELSE IF k = i THEN e ELSE s[k - 1]
  <2>1. CASE k < i
    <3>1. k \in 1..i - 1 /\ k <= i - 1 /\ k \in 1..i /\ k <= i
      BY <1>1, <2>1
    <3>2. QED
      BY <1>2, <1>6, <1>7, <2>1, <3>1
  <2>2. CASE k = i
    <3>1. ~(k <= i - 1) /\ k - (i - 1) = 1 /\ k \in 1..i /\ k <= i /\ ~(k < i)
      BY <1>1, <2>2
    <3>2. QED
      BY <1>5, <1>6, <1>7, <2>2, <3>1 DEF one
  <2>3. CASE k > i
    <3>1. ~(k <= i) /\ k - i \in 1..n - i + 1 /\ i + (k - i) - 1 = k - 1 /\ ~(k < i) /\ k # i
      BY <1>1, <2>3
    <3>2. QED
      BY <1>3, <1>7, <3>1
  <2>4. k \in Nat
    BY <1>1
  <2>5. QED
    BY <1>1, <2>1, <2>2, <2>3, <2>4
<1>9. Len(u) = Len(s) + 1 /\ \A k \in 1..Len(s) + 1 : u[k] = IF k < i THEN s[k] ELSE IF k = i THEN e ELSE s[k - 1]
  BY <1>7, <1>8, Zenon DEF n
<1>10. WithOne(u, s, i, e)
  BY <1>9, Zenon DEF WithOne
<1>11. InsertAt(s, i, e) = u
  BY <1>4, Zenon DEF first, one, u
<1>12. QED
  BY <1>7, <1>10, <1>11, Zenon

LEMMA PutBack ==
  ASSUME NEW S, NEW s \in Seq(S), NEW i \in 1..Len(s) + 1, NEW e \in S
  PROVE  /\ InsertAt(s, i, e) \in Seq(S) /\ Len(InsertAt(s, i, e)) = Len(s) + 1
         /\ \A k \in 1..Len(s) + 1 :
              InsertAt(s, i, e)[k] = IF k < i THEN s[k] ELSE IF k = i THEN e ELSE s[k - 1]
<1>1. InsertAt(s, i, e) \in Seq(S) /\ WithOne(InsertAt(s, i, e), s, i, e)
  BY InsertedOne, Zenon
<1>2. QED
  BY <1>1, Zenon DEF WithOne

(* A walk over u past place i, where k + 1 is after i, is at place k of s.          *)
LEMMA PastTheGap ==
  ASSUME NEW n \in Nat, NEW i \in 1..n + 1, NEW k \in 0..n, k + 1 # i, ~(k + 1 < i)
  PROVE  /\ k \in 1..n /\ ~(k < i) /\ (k - 1) + 1 = k /\ (k + 1) - 1 = k
         /\ k + 1 \in 1..n + 1
OBVIOUS

LEMMA OutAndBack ==
  ASSUME NEW S, NEW s \in Seq(S), NEW i \in 1..Len(s)
  PROVE  InsertAt(RemoveAt(s, i), i, s[i]) = s
<1> DEFINE t == RemoveAt(s, i)
           u == InsertAt(t, i, s[i])
           n == Len(s)
<1>1. n \in Nat /\ i \in Nat /\ 1 <= i /\ i <= n /\ s[i] \in S
  OBVIOUS
<1>2. /\ t \in Seq(S) /\ Len(t) = n - 1
      /\ \A k \in 1..n - 1 : t[k] = IF k < i THEN s[k] ELSE s[k + 1]
  BY TakenOut
<1> HIDE DEF t, n
<1>3. i \in 1..Len(t) + 1 /\ Len(t) + 1 = n
  BY <1>1, <1>2
<1>a. /\ u \in Seq(S) /\ Len(u) = Len(t) + 1
      /\ \A k \in 1..Len(t) + 1 : u[k] = IF k < i THEN t[k] ELSE IF k = i THEN s[i] ELSE t[k - 1]
  <2> DEFINE e == s[i]
  <2>1. t \in Seq(S) /\ i \in 1..Len(t) + 1 /\ e \in S
    BY <1>1, <1>2, <1>3
  <2> HIDE DEF e
  <2>2. /\ InsertAt(t, i, e) \in Seq(S) /\ Len(InsertAt(t, i, e)) = Len(t) + 1
        /\ \A k \in 1..Len(t) + 1 :
             InsertAt(t, i, e)[k] = IF k < i THEN t[k] ELSE IF k = i THEN e ELSE t[k - 1]
    BY <2>1, PutBack
  <2>3. QED
    BY <2>2 DEF e
<1>4. /\ u \in Seq(S) /\ Len(u) = n
      /\ \A k \in 1..n : u[k] = IF k < i THEN t[k] ELSE IF k = i THEN s[i] ELSE t[k - 1]
  BY <1>3, <1>a
<1> HIDE DEF u
<1>5. ASSUME NEW k \in 1..n PROVE u[k] = s[k]
  <2>1. CASE k < i
    <3>1. k \in 1..n - 1
      BY <1>1, <2>1
    <3>2. QED
      BY <1>2, <1>4, <2>1, <3>1
  <2>2. CASE k = i
    BY <1>1, <1>4, <2>2
  <2>3. CASE k > i
    <3>1. k - 1 \in 1..n - 1 /\ ~(k - 1 < i) /\ ~(k < i) /\ k # i /\ (k - 1) + 1 = k
      BY <1>1, <2>3
    <3>2. QED
      BY <1>2, <1>4, <3>1
  <2>4. k \in Nat
    BY <1>1
  <2>5. QED
    BY <1>1, <2>1, <2>2, <2>3, <2>4
<1>6. QED
  BY <1>4, <1>5, SeqEqual DEF u, t, n
LEMMA BackAndOut ==
  ASSUME NEW S, NEW s \in Seq(S), NEW i \in 1..Len(s) + 1, NEW e \in S
  PROVE  RemoveAt(InsertAt(s, i, e), i) = s
<1> DEFINE t == InsertAt(s, i, e)
           u == RemoveAt(t, i)
           n == Len(s)
<1>1. n \in Nat /\ i \in Nat /\ 1 <= i /\ i <= n + 1
  OBVIOUS
<1>2. /\ t \in Seq(S) /\ Len(t) = n + 1
      /\ \A k \in 1..n + 1 : t[k] = IF k < i THEN s[k] ELSE IF k = i THEN e ELSE s[k - 1]
  BY PutBack
<1> HIDE DEF t, n
<1>3. i \in 1..Len(t) /\ Len(t) - 1 = n
  BY <1>1, <1>2
<1>4. /\ u \in Seq(S) /\ Len(u) = n
      /\ \A k \in 1..n : u[k] = IF k < i THEN t[k] ELSE t[k + 1]
  BY <1>2, <1>3, TakenOut
<1> HIDE DEF u
<1>5. ASSUME NEW k \in 1..n PROVE u[k] = s[k]
  <2>1. k \in 1..n + 1 /\ k + 1 \in 1..n + 1 /\ (k + 1) - 1 = k
    BY <1>1
  <2>2. CASE k < i
    BY <1>1, <1>2, <1>4, <2>1, <2>2
  <2>3. CASE ~(k < i)
    <3>1. ~(k + 1 < i) /\ k + 1 # i
      BY <1>1, <2>3
    <3>2. QED
      BY <1>2, <1>4, <2>1, <2>3, <3>1
  <2>4. QED
    BY <2>2, <2>3
<1>6. QED
  BY <1>4, <1>5, SeqEqual DEF u, t, n

(* A sequence whose elements are all in T.                                          *)
LEMMA Narrowed ==
  ASSUME NEW S, NEW T, NEW s \in Seq(S), \A i \in 1..Len(s) : s[i] \in T
  PROVE  s \in Seq(T)
OBVIOUS

-----------------------------------------------------------------------------------
(* Folds. *)

(* A fold over the subsets of a finite set, whatever picks the next element: the   *)
(* function that the definition chooses exists.                                    *)
Folds(g, S, pick, base, F) ==
  g = [t \in SUBSET S |-> IF t = {} THEN base ELSE F[g[t \ {pick[t]}], pick[t]]]

LEMMA FoldExists ==
  ASSUME NEW S, IsFiniteSet(S), NEW X, NEW base \in X, NEW F \in [X \X S -> X],
         NEW pick, \A t \in SUBSET S : t # {} => pick[t] \in t
  PROVE  \E g \in [SUBSET S -> X] : Folds(g, S, pick, base, F)
<1> DEFINE Small(n) == {t \in SUBSET S : Cardinality(t) <= n}
           Part(g, n) == /\ g \in [Small(n) -> X]
                         /\ \A t \in Small(n) : g[t] = IF t = {} THEN base ELSE F[g[t \ {pick[t]}], pick[t]]
           Bad == {n \in Nat : ~\E g : Part(g, n)}
<1>1. \A t \in SUBSET S : IsFiniteSet(t) /\ Cardinality(t) \in Nat
  BY FS_Subset, FS_CardinalityType
<1>2. \A t \in SUBSET S : t # {} =>
        t \ {pick[t]} \in SUBSET S /\ Cardinality(t \ {pick[t]}) = Cardinality(t) - 1
  BY <1>1, FS_RemoveElement
<1>3. \A t \in SUBSET S : Cardinality(t) = 0 <=> t = {}
  BY <1>1, FS_EmptySet
<1> HIDE DEF Part
<1>9. \A n \in Nat : \A t : t \in Small(n) <=> t \in SUBSET S /\ Cardinality(t) <= n
  OBVIOUS
<1>10. \A n \in Nat : n \in Bad <=> ~\E g : Part(g, n)
  OBVIOUS
<1>4. Bad = {}
  <2>1. SUFFICES ASSUME Bad # {} PROVE FALSE
    OBVIOUS
  <2>2. PICK n \in Bad : \A k \in Bad : n <= k
    BY <2>1, LeastOf
  <2>3. CASE n = 0
    <3>1. Small(0) = {{}}
      <4> HIDE DEF Small
      <4>1. \A t \in Small(0) : t = {}
        BY <1>1, <1>3, <1>9
      <4>2. {} \in Small(0)
        BY <1>3, <1>9
      <4>3. QED
        BY <4>1, <4>2
    <3> HIDE DEF Small
    <3>2. Part([t \in Small(0) |-> base], 0)
      BY <3>1 DEF Part
    <3>3. QED
      BY <2>2, <2>3, <3>2, <1>10
  <2>4. CASE n # 0
    <3>1. n \in Nat /\ n - 1 \in Nat /\ n - 1 \notin Bad
      <4> HIDE DEF Bad
      <4>1. Bad \subseteq Nat
        BY DEF Bad
      <4>2. QED
        BY <2>2, <2>4, <4>1
    <3>2. PICK g : Part(g, n - 1)
      BY <3>1, <1>10
    <3> DEFINE h == [t \in Small(n) |-> IF t = {} THEN base ELSE F[g[t \ {pick[t]}], pick[t]]]
    <3>3. \A t \in Small(n) : t # {} => t \ {pick[t]} \in Small(n - 1) /\ pick[t] \in S
      <4> HIDE DEF Small
      <4>1. SUFFICES ASSUME NEW t \in Small(n), t # {}
                     PROVE  t \ {pick[t]} \in Small(n - 1) /\ pick[t] \in S
        OBVIOUS
      <4>2. t \in SUBSET S /\ Cardinality(t) <= n /\ Cardinality(t) \in Nat
        BY <1>1, <1>9, <3>1
      <4>3. t \ {pick[t]} \in SUBSET S /\ Cardinality(t \ {pick[t]}) = Cardinality(t) - 1
        BY <1>2, <4>1, <4>2
      <4>4. QED
        BY <1>9, <3>1, <4>1, <4>2, <4>3
    <3>4. \A t \in Small(n - 1) : t \in Small(n) /\ h[t] = g[t]
      <4> HIDE DEF Small
      <4>1. \A t \in Small(n - 1) : t \in Small(n)
        BY <1>1, <1>9, <3>1
      <4>2. \A t \in Small(n - 1) : g[t] = IF t = {} THEN base ELSE F[g[t \ {pick[t]}], pick[t]]
        BY <3>2 DEF Part
      <4>3. QED
        BY <4>1, <4>2
    <3> HIDE DEF Small
    <3>5. g \in [Small(n - 1) -> X]
      BY <3>2 DEF Part
    <3>6. h \in [Small(n) -> X]
      BY <3>3, <3>5
    <3>7. \A t \in Small(n) : h[t] = IF t = {} THEN base ELSE F[h[t \ {pick[t]}], pick[t]]
      BY <3>3, <3>4
    <3>8. Part(h, n)
      BY <3>6, <3>7 DEF Part
    <3>9. QED
      BY <1>10, <2>2, <3>8
  <2>5. QED
    BY <2>3, <2>4
<1>5. PICK g : Part(g, Cardinality(S))
  <2>1. Cardinality(S) \in Nat
    BY FS_CardinalityType
  <2>2. QED
    BY <1>4, <1>10, <2>1
<1>6. Small(Cardinality(S)) = SUBSET S
  BY FS_Subset
<1>7. g \in [SUBSET S -> X] /\ Folds(g, S, pick, base, F)
  <2> HIDE DEF Small
  <2>1. /\ g \in [SUBSET S -> X]
        /\ \A t \in SUBSET S : g[t] = IF t = {} THEN base ELSE F[g[t \ {pick[t]}], pick[t]]
    BY <1>5, <1>6 DEF Part
  <2>2. QED
    BY <2>1 DEF Folds
<1>8. QED
  BY <1>7

(* Sums over the subsets of a finite set, in any order.                            *)
Adds(g, S, f) ==
  g = [t \in SUBSET S |-> IF t = {} THEN 0 ELSE g[t \ {CHOOSE x \in t : TRUE}] + f[CHOOSE x \in t : TRUE]]

LEMMA SumExists ==
  ASSUME NEW S, IsFiniteSet(S), NEW f \in [S -> Nat]
  PROVE  \E g : Adds(g, S, f)
<1> DEFINE F == [p \in Nat \X S |-> p[1] + f[p[2]]]
           pick == [t \in SUBSET S |-> CHOOSE x \in t : TRUE]
<1>1. F \in [Nat \X S -> Nat]
  OBVIOUS
<1>2. \A t \in SUBSET S : pick[t] = CHOOSE x \in t : TRUE
  OBVIOUS
<1>3. \A t \in SUBSET S : t # {} => pick[t] \in t
  BY <1>2
<1>4. \A n \in Nat, x \in S : F[n, x] = n + f[x]
  OBVIOUS
<1> HIDE DEF F, pick
<1>5. PICK g \in [SUBSET S -> Nat] : Folds(g, S, pick, 0, F)
  BY <1>1, <1>3, FoldExists
<1>6. \A t \in SUBSET S : t # {} => F[g[t \ {pick[t]}], pick[t]] = g[t \ {pick[t]}] + f[pick[t]]
  <2>1. \A t \in SUBSET S : t # {} => g[t \ {pick[t]}] \in Nat /\ pick[t] \in S
    BY <1>3
  <2>2. QED
    BY <1>4, <2>1
<1>7. g = [t \in SUBSET S |-> IF t = {} THEN 0 ELSE g[t \ {pick[t]}] + f[pick[t]]]
  BY <1>5, <1>6 DEF Folds
<1>8. Adds(g, S, f)
  BY <1>2, <1>7 DEF Adds
<1>9. QED
  BY <1>8

(* The order does not matter: any element may be the last that was added.          *)
SumsUp(g, S, f) ==
  /\ g[{}] = 0 /\ \A t \in SUBSET S : g[t] \in Nat
  /\ \A t \in SUBSET S : \A x \in t : g[t] = g[t \ {x}] + f[x]

LEMMA SumSteps ==
  ASSUME NEW S, IsFiniteSet(S), NEW f \in [S -> Nat], NEW g, Adds(g, S, f)
  PROVE  SumsUp(g, S, f)
<1> DEFINE Right(t) == g[t] \in Nat /\ \A x \in t : g[t] = g[t \ {x}] + f[x]
           Bad == {n \in Nat : \E t \in SUBSET S : Cardinality(t) = n /\ ~Right(t)}
           first(t) == CHOOSE x \in t : TRUE
<1>1. \A t \in SUBSET S : IsFiniteSet(t) /\ Cardinality(t) \in Nat
  BY FS_Subset, FS_CardinalityType
<1>2. \A t \in SUBSET S : \A x \in t : Cardinality(t \ {x}) = Cardinality(t) - 1
  BY <1>1, FS_RemoveElement
<1>3. /\ g[{}] = 0 /\ \A t \in SUBSET S : t # {} => first(t) \in t
      /\ \A t \in SUBSET S : t # {} => g[t] = g[t \ {first(t)}] + f[first(t)]
  BY DEF Adds
<1>11. Right({})
  BY <1>3
<1>12. \A t : Right(t) <=> g[t] \in Nat /\ \A x \in t : g[t] = g[t \ {x}] + f[x]
  OBVIOUS
<1> HIDE DEF Right, first
<1>7. Bad \subseteq Nat /\ \A t \in SUBSET S : ~Right(t) => Cardinality(t) \in Bad
  BY <1>1
<1>8. \A n \in Bad : \E t \in SUBSET S : Cardinality(t) = n /\ ~Right(t)
  OBVIOUS
<1> HIDE DEF Bad
<1>4. Bad = {}
  <2>1. SUFFICES ASSUME Bad # {} PROVE FALSE
    OBVIOUS
  <2>2. PICK n \in Bad : \A k \in Bad : n <= k
    BY <1>7, <2>1, LeastOf
  <2>3. PICK t \in SUBSET S : Cardinality(t) = n /\ ~Right(t)
    BY <1>8, <2>2
  <2>4. n \in Nat /\ \A u \in SUBSET S : Cardinality(u) < n => Right(u)
    <3>1. n \in Nat
      BY <1>7, <2>2
    <3>2. ASSUME NEW u \in SUBSET S, Cardinality(u) < n, ~Right(u) PROVE FALSE
      <4>1. Cardinality(u) \in Bad /\ Cardinality(u) \in Nat
        BY <1>1, <1>7, <3>2
      <4>2. QED
        BY <2>2, <3>1, <3>2, <4>1
    <3>3. QED
      BY <3>1, <3>2
  <2>5. t # {}
    BY <1>11, <2>3
  <2>6. \A x \in t : Right(t \ {x}) /\ t \ {x} \in SUBSET S
    <3>1. SUFFICES ASSUME NEW x \in t PROVE Right(t \ {x}) /\ t \ {x} \in SUBSET S
      OBVIOUS
    <3>2. Cardinality(t \ {x}) = n - 1 /\ t \ {x} \in SUBSET S
      BY <1>2, <2>3
    <3>3. n - 1 < n
      BY <2>4
    <3>4. QED
      BY <2>4, <3>2, <3>3
  <2>7. first(t) \in t /\ g[t] = g[t \ {first(t)}] + f[first(t)] /\ f[first(t)] \in Nat
    BY <1>3, <2>5
  <2>8. g[t] \in Nat
    <3>1. g[t \ {first(t)}] \in Nat
      BY <1>12, <2>6, <2>7
    <3>2. QED
      BY <2>7, <3>1
  <2>9. ASSUME NEW x \in t PROVE g[t] = g[t \ {x}] + f[x]
    <3>1. CASE x = first(t)
      BY <2>7, <3>1
    <3>2. CASE x # first(t)
      <4> DEFINE y == first(t)
      <4>1. x \in t \ {y} /\ y \in t \ {x}
        BY <2>7, <3>2
      <4>2. g[t \ {y}] = g[(t \ {y}) \ {x}] + f[x] /\ g[t \ {x}] = g[(t \ {x}) \ {y}] + f[y]
        BY <1>12, <2>6, <2>7, <4>1
      <4>3. (t \ {y}) \ {x} = (t \ {x}) \ {y}
        OBVIOUS
      <4>4. g[(t \ {x}) \ {y}] \in Nat /\ f[x] \in Nat /\ f[y] \in Nat
        <5>1. (t \ {x}) \ {y} \in SUBSET S /\ Cardinality((t \ {x}) \ {y}) < n
          <6>1. Cardinality(t \ {x}) = n - 1 /\ t \ {x} \in SUBSET S
            BY <1>2, <2>3
          <6>2. Cardinality((t \ {x}) \ {y}) = n - 2
            BY <1>2, <2>4, <4>1, <6>1
          <6>3. n - 2 < n
            BY <2>4
          <6>4. QED
            BY <6>1, <6>2, <6>3
        <5>2. QED
          BY <1>12, <2>4, <2>7, <5>1
      <4> HIDE DEF y
      <4>5. g[t] = g[t \ {y}] + f[y]
        BY <2>7 DEF y
      <4> DEFINE k == g[(t \ {x}) \ {y}]
                 p == f[x]
                 q == f[y]
                 u == g[t \ {x}]
                 v == g[t \ {y}]
                 w == g[t]
      <4>6. v = k + p /\ u = k + q /\ w = v + q /\ k \in Nat /\ p \in Nat /\ q \in Nat
        BY <4>2, <4>3, <4>4, <4>5
      <4> HIDE DEF k, p, q, u, v, w
      <4>7. w = u + p
        BY <4>6
      <4>8. QED
        BY <4>7 DEF w, u, p
    <3>3. QED
      BY <3>1, <3>2
  <2>10. QED
    BY <1>12, <2>3, <2>8, <2>9
<1>5. \A t \in SUBSET S : Right(t)
  BY <1>4, <1>7
<1>6. QED
  BY <1>3, <1>5, <1>12 DEF SumsUp

(* Sums of functions that differ in x.                                             *)
ApartBy(g, h, S, f, e, x) == g[S] - f[x] = h[S] - e[x]

LEMMA SumAgrees ==
  ASSUME NEW S, IsFiniteSet(S), NEW f \in [S -> Nat], NEW e \in [S -> Nat],
         NEW g, Adds(g, S, f), NEW h, Adds(h, S, e), NEW x \in S, \A y \in S \ {x} : f[y] = e[y]
  PROVE  ApartBy(g, h, S, f, e, x)
<1> DEFINE Bad == {n \in Nat : \E t \in SUBSET (S \ {x}) : Cardinality(t) = n /\ g[t] # h[t]}
<1>8. SumsUp(g, S, f) /\ SumsUp(h, S, e)
  BY SumSteps
<1>1. \A t \in SUBSET S : IsFiniteSet(t) /\ Cardinality(t) \in Nat
  BY FS_Subset, FS_CardinalityType
<1>6. Bad \subseteq Nat /\ \A t \in SUBSET (S \ {x}) : g[t] # h[t] => Cardinality(t) \in Bad
  BY <1>1
<1>7. \A n \in Bad : \E t \in SUBSET (S \ {x}) : Cardinality(t) = n /\ g[t] # h[t]
  OBVIOUS
<1> HIDE DEF Bad
<1>2. Bad = {}
  <2>1. SUFFICES ASSUME Bad # {} PROVE FALSE
    OBVIOUS
  <2>2. PICK n \in Bad : \A k \in Bad : n <= k
    BY <1>6, <2>1, LeastOf
  <2>3. PICK t \in SUBSET (S \ {x}) : Cardinality(t) = n /\ g[t] # h[t]
    BY <1>7, <2>2
  <2>4. t # {}
    BY <1>8, <2>3 DEF SumsUp
  <2>5. PICK y \in t : TRUE
    BY <2>4
  <2>6. g[t] = g[t \ {y}] + f[y] /\ h[t] = h[t \ {y}] + e[y]
    BY <1>8, <2>5 DEF SumsUp
  <2>7. g[t \ {y}] = h[t \ {y}]
    <3>1. t \ {y} \in SUBSET (S \ {x}) /\ Cardinality(t \ {y}) = n - 1 /\ n - 1 \in Nat
      <4>1. IsFiniteSet(t) /\ t \ {y} \in SUBSET S /\ Cardinality(t \ {y}) = n - 1
        BY <1>1, <2>3, <2>5, FS_RemoveElement
      <4>2. n \in Nat /\ Cardinality(t \ {y}) \in Nat
        BY <1>1, <1>6, <2>2, <4>1
      <4>3. QED
        BY <4>1, <4>2
    <3>2. n \in Nat /\ n - 1 \notin Bad
      BY <1>6, <2>2, <3>1
    <3>3. QED
      BY <1>6, <3>1, <3>2
  <2>8. QED
    BY <2>3, <2>6, <2>7
<1>3. g[S \ {x}] = h[S \ {x}]
  <2>1. Cardinality(S \ {x}) \in Nat
    BY <1>1
  <2>2. QED
    BY <1>2, <1>6
<1>4. /\ g[S] = g[S \ {x}] + f[x] /\ h[S] = h[S \ {x}] + e[x]
      /\ g[S \ {x}] \in Nat /\ h[S \ {x}] \in Nat /\ f[x] \in Nat /\ e[x] \in Nat
  <2>1. S \in SUBSET S /\ S \ {x} \in SUBSET S
    OBVIOUS
  <2>2. g[S] = g[S \ {x}] + f[x] /\ g[S \ {x}] \in Nat
    BY <1>8, <2>1 DEF SumsUp
  <2>3. h[S] = h[S \ {x}] + e[x] /\ h[S \ {x}] \in Nat
    BY <1>8, <2>1 DEF SumsUp
  <2>4. f[x] \in Nat /\ e[x] \in Nat
    OBVIOUS
  <2>5. QED
    BY <2>2, <2>3, <2>4
<1>5. QED
  BY <1>3, <1>4 DEF ApartBy

LEMMA LargestIn ==
  ASSUME NEW n \in Nat
  PROVE  \A t \in SUBSET (1..n) : t # {} => Max(t) \in t
<1>1. SUFFICES ASSUME NEW t \in SUBSET (1..n), t # {} PROVE Max(t) \in t
  OBVIOUS
<1>2. \E m \in t : \A k \in t : k <= m
  <2> DEFINE above == {j \in 0..n : \A k \in t : k <= j}
  <2>1. n \in above /\ above \in SUBSET Nat
    OBVIOUS
  <2>2. PICK m \in above : \A k \in above : m <= k
    BY <2>1, LeastOf
  <2>3. m \in t
    <3>1. CASE m = 0
      <4>1. PICK k \in t : k <= 0
        BY <1>1, <2>2, <3>1
      <4>2. k \in 1..n
        OBVIOUS
      <4>3. QED
        BY <4>1, <4>2
    <3>2. CASE m # 0
      <4>1. m - 1 \in 0..n /\ m - 1 \notin above
        BY <2>2, <3>2
      <4>2. PICK k \in t : ~(k <= m - 1)
        BY <4>1
      <4>3. k \in 1..n /\ k <= m
        BY <2>2
      <4>4. QED
        BY <4>1, <4>2, <4>3
    <3>3. QED
      BY <3>1, <3>2
  <2>4. QED
    BY <2>2, <2>3
<1>3. QED
  BY <1>2 DEF Max

(* A fold from the left over n places, with values in X.                           *)
TakesLast(g, n, base, F) ==
  g = [t \in SUBSET (1..n) |-> IF t = {} THEN base ELSE F[g[t \ {Max(t)}], Max(t)]]

LEMMA LeftFoldExists ==
  ASSUME NEW n \in Nat, NEW X, NEW base \in X, NEW F \in [X \X (1..n) -> X]
  PROVE  \E g \in [SUBSET (1..n) -> X] : TakesLast(g, n, base, F)
<1> DEFINE pick == [t \in SUBSET (1..n) |-> Max(t)]
<1>1. \A t \in SUBSET (1..n) : t # {} => Max(t) \in t
  BY LargestIn
<1>2. \A t \in SUBSET (1..n) : pick[t] = Max(t)
  OBVIOUS
<1> HIDE DEF pick
<1>3. IsFiniteSet(1..n)
  BY FS_Interval
<1>4. PICK g \in [SUBSET (1..n) -> X] : Folds(g, 1..n, pick, base, F)
  <2> DEFINE S == 1..n
  <2>1. IsFiniteSet(S) /\ F \in [X \X S -> X] /\ \A t \in SUBSET S : t # {} => pick[t] \in t
    BY <1>1, <1>2, <1>3
  <2> HIDE DEF S
  <2>2. \E g \in [SUBSET S -> X] : Folds(g, S, pick, base, F)
    BY <2>1, FoldExists
  <2>3. QED
    BY <2>2 DEF S
<1>5. QED
  BY <1>2, <1>4 DEF Folds, TakesLast

(* It takes the places in their order.                                             *)
LEMMA InitialSegments ==
  ASSUME NEW n \in Nat, NEW k \in 0..n - 1
  PROVE  /\ 1..k + 1 \in SUBSET (1..n) /\ 1..k + 1 # {} /\ k + 1 \in 1..n
         /\ Max(1..k + 1) = k + 1 /\ (1..k + 1) \ {k + 1} = 1..k /\ 1..k \in SUBSET (1..n)
<1>1. k + 1 \in 1..k + 1 /\ \A y \in 1..k + 1 : k + 1 >= y
  OBVIOUS
<1>2. \A x \in 1..k + 1 : (\A y \in 1..k + 1 : x >= y) => x = k + 1
  BY <1>1
<1>3. Max(1..k + 1) = k + 1
  BY <1>1, <1>2 DEF Max
<1>4. QED
  BY <1>1, <1>3

(* What holds of the empty set and is handed on by one element of every other holds *)
(* of all, and so does what holds of 0 and is handed on to the next number.         *)
LEMMA FoldTyped ==
  ASSUME NEW S, IsFiniteSet(S), NEW X, NEW g, g[{}] \in X,
         \A t \in SUBSET S : t # {} => \E x \in t : g[t \ {x}] \in X => g[t] \in X
  PROVE  \A t \in SUBSET S : g[t] \in X
<1> DEFINE Bad == {n \in Nat : \E t \in SUBSET S : Cardinality(t) = n /\ g[t] \notin X}
<1>1. \A t \in SUBSET S : IsFiniteSet(t) /\ Cardinality(t) \in Nat
  BY FS_Subset, FS_CardinalityType
<1>2. Bad \subseteq Nat /\ \A t \in SUBSET S : g[t] \notin X => Cardinality(t) \in Bad
  BY <1>1
<1>3. \A n \in Bad : \E t \in SUBSET S : Cardinality(t) = n /\ g[t] \notin X
  OBVIOUS
<1> HIDE DEF Bad
<1>4. Bad = {}
  <2>1. SUFFICES ASSUME Bad # {} PROVE FALSE
    OBVIOUS
  <2>2. PICK n \in Bad : \A k \in Bad : n <= k
    BY <1>2, <2>1, LeastOf
  <2>3. PICK t \in SUBSET S : Cardinality(t) = n /\ g[t] \notin X
    BY <1>3, <2>2
  <2>4. t # {}
    BY <2>3
  <2>5. PICK x \in t : g[t \ {x}] \in X => g[t] \in X
    BY <2>4
  <2>6. g[t \ {x}] \notin X /\ t \ {x} \in SUBSET S
    BY <2>3, <2>5
  <2>7. Cardinality(t \ {x}) = Cardinality(t) - 1
    BY <1>1, <2>5, FS_RemoveElement
  <2>8. n - 1 \in Bad /\ n \in Nat
    BY <1>2, <2>2, <2>3, <2>6, <2>7
  <2>9. QED
    BY <2>2, <2>8
<1>5. QED
  BY <1>2, <1>4

LEMMA Climb ==
  ASSUME NEW n \in Nat, NEW T, 0 \in T, \A k \in 0..n - 1 : k \in T => k + 1 \in T
  PROVE  0..n \subseteq T
<1> DEFINE Bad == {k \in 0..n : k \notin T}
<1>1. Bad \in SUBSET Nat
  OBVIOUS
<1>2. ASSUME Bad # {} PROVE FALSE
  <2>1. PICK m \in Bad : \A k \in Bad : m <= k
    <3> HIDE DEF Bad
    <3>1. QED
      BY <1>1, <1>2, LeastOf
  <2>2. m # 0 /\ m \in 0..n /\ m \notin T
    OBVIOUS
  <2>3. m - 1 \in 0..n - 1 /\ (m - 1) + 1 = m
    BY <2>2
  <2>4. m - 1 \in T
    BY <2>1, <2>3
  <2>5. QED
    BY <2>2, <2>3, <2>4
<1>3. QED
  BY <1>2

(* A fold's value is the last of a sequence of values that steps through them.      *)
Climbing(h, n, X, base, F) ==
  /\ h[0] = base /\ \A k \in 0..n : h[k] \in X
  /\ \A k \in 0..n - 1 : h[k + 1] = F[h[k], k + 1]

Recurring(it, n, X, base, F) ==
  /\ it[{}] = base
  /\ \A t \in SUBSET (1..n) : t # {} /\ it[t \ {Max(t)}] \in X => it[t] = F[it[t \ {Max(t)}], Max(t)]

Climbs(it, n, X, base, F) == \E h : Climbing(h, n, X, base, F) /\ h[n] = it[1..n]

LEMMA FoldClimbs ==
  ASSUME NEW n \in Nat, NEW X, NEW base \in X, NEW F \in [X \X (1..n) -> X], NEW it, Recurring(it, n, X, base, F)
  PROVE  Climbs(it, n, X, base, F)
<1>0. /\ it[{}] = base
      /\ \A t \in SUBSET (1..n) : t # {} /\ it[t \ {Max(t)}] \in X => it[t] = F[it[t \ {Max(t)}], Max(t)]
  BY DEF Recurring
<1>1. \A t \in SUBSET (1..n) : t # {} => Max(t) \in 1..n /\ Max(t) \in t
  BY LargestIn
<1>2. \A q \in X, i \in 1..n : F[q, i] \in X
  OBVIOUS
<1>3. \A t \in SUBSET (1..n) : it[t] \in X
  <2> DEFINE S == 1..n
  <2>1. IsFiniteSet(S) /\ it[{}] \in X
    <3>1. IsFiniteSet(S)
      BY FS_Interval
    <3>2. QED
      BY <1>0, <3>1
  <2>2. \A t \in SUBSET S : t # {} => \E x \in t : it[t \ {x}] \in X => it[t] \in X
    <3>1. SUFFICES ASSUME NEW t \in SUBSET S, t # {} PROVE \E x \in t : it[t \ {x}] \in X => it[t] \in X
      OBVIOUS
    <3> DEFINE x == Max(t)
    <3>2. x \in t /\ x \in 1..n /\ (it[t \ {x}] \in X => it[t] = F[it[t \ {x}], x])
      BY <1>0, <1>1, <3>1
    <3> HIDE DEF x
    <3>3. it[t \ {x}] \in X => it[t] \in X
      BY <1>2, <3>2
    <3>4. QED
      BY <3>2, <3>3
  <2> HIDE DEF S
  <2>3. \A t \in SUBSET S : it[t] \in X
    BY <2>1, <2>2, FoldTyped
  <2>4. QED
    BY <2>3 DEF S
<1> DEFINE h == [k \in 0..n |-> it[1..k]]
<1>4. h[0] = base /\ h[n] = it[1..n] /\ \A k \in 0..n : h[k] \in X
  <2>1. 1..0 = {} /\ 0 \in 0..n /\ n \in 0..n /\ \A k \in 0..n : 1..k \in SUBSET (1..n)
    <3>1. 1..0 = {}
      OBVIOUS
    <3>2. 0 \in 0..n /\ n \in 0..n
      OBVIOUS
    <3>3. \A k \in 0..n : \A i \in 1..k : i \in 1..n
      OBVIOUS
    <3>4. QED
      BY <3>1, <3>2, <3>3
  <2>2. h[0] = it[1..0] /\ h[n] = it[1..n] /\ \A k \in 0..n : h[k] = it[1..k]
    BY <2>1
  <2>3. QED
    BY <1>0, <1>3, <2>1, <2>2
<1>5. ASSUME NEW k \in 0..n - 1 PROVE h[k + 1] = F[h[k], k + 1]
  <2>1. /\ 1..k + 1 \in SUBSET (1..n) /\ 1..k + 1 # {} /\ k + 1 \in 1..n
        /\ Max(1..k + 1) = k + 1 /\ (1..k + 1) \ {k + 1} = 1..k /\ 1..k \in SUBSET (1..n)
    BY InitialSegments
  <2>2. it[1..k + 1] = F[it[1..k], k + 1]
    <3> DEFINE t == 1..k + 1
               b == 1..k
    <3>1. t \in SUBSET (1..n) /\ t # {} /\ t \ {Max(t)} = b /\ Max(t) = k + 1 /\ b \in SUBSET (1..n)
      BY <2>1
    <3> HIDE DEF t, b
    <3>2. it[t] = F[it[b], k + 1]
      BY <1>0, <1>3, <3>1
    <3>3. QED
      BY <3>2 DEF t, b
  <2>3. h[k + 1] = it[1..k + 1] /\ h[k] = it[1..k]
    <3>1. k \in 0..n /\ k + 1 \in 0..n
      OBVIOUS
    <3>2. QED
      BY <3>1
  <2>4. QED
    BY <2>2, <2>3
<1> HIDE DEF h
<1>6. QED
  BY <1>4, <1>5 DEF Climbing, Climbs
===================================================================================
