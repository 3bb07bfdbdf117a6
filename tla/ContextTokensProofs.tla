------------------------- MODULE ContextTokensProofs -------------------------
(***************************************************************************)
(* Proofs about ContextTokens, for any number of chats, tokens, handlers   *)
(* and any limit: the map and the list stay one structure, the least       *)
(* recently used chats are the ones evicted, and no token is stale.        *)
(***************************************************************************)
EXTENDS ContextTokens, SequenceTheorems, WellFoundedInduction, TLAPS

-----------------------------------------------------------------------------
(* Natural numbers.                                                        *)

LEMMA Least ==
    ASSUME NEW T, T \subseteq Nat, T # {}
    PROVE  \E x \in T : \A y \in T : ~ (y < x)
<1>1. \E x \in T : \A y \in T : ~ (<<y, x>> \in OpToRel(<, Nat))
  BY WFMin, NatLessThanWellFounded
<1>2. \A x, y \in Nat : y < x => <<y, x>> \in OpToRel(<, Nat)
  BY DEF OpToRel
<1> QED
  BY <1>1, <1>2

LEMMA OneOrMore == \A n \in Nat : n >= 1 => n = 1 \/ n >= 2
OBVIOUS

(* Of n ascending positions the i-th is at least i.                        *)
LEMMA Ascending ==
    ASSUME NEW n \in Nat, NEW f \in [1..n -> Nat \ {0}],
           \A i, j \in 1..n : i < j => f[i] < f[j]
    PROVE  \A i \in 1..n : f[i] >= i
<1> DEFINE Low == {i \in 1..n : f[i] < i}
<1> SUFFICES ASSUME Low # {} PROVE FALSE
  OBVIOUS
<1>0. Low \subseteq Nat /\ Low # {}
  OBVIOUS
<1>1. PICK x \in Low : \A y \in Low : ~ (y < x)
  BY <1>0, Least
<1>2. x \in 1..n /\ f[x] < x /\ f[x] \in Nat \ {0}
  OBVIOUS
<1>3. x - 1 \in 1..n /\ x - 1 < x
  BY <1>2
<1>4. f[x - 1] < f[x] /\ f[x - 1] \in Nat
  BY <1>2, <1>3
<1>5. x - 1 \in Low
  BY <1>2, <1>3, <1>4
<1> QED
  BY <1>1, <1>3, <1>5
-----------------------------------------------------------------------------
(* Sequences without repetition, as a list and the history of uses are.    *)

(* Every element but x keeps its place, or moves up by one.                *)
LEMMA WithoutPresent ==
    ASSUME NEW S, NEW s \in Seq(S), IsInjective(s), NEW p \in 1..Len(s)
    PROVE  /\ Without(s, s[p]) \in Seq(S)
           /\ Len(Without(s, s[p])) = Len(s) - 1
           /\ \A i \in 1..Len(s) - 1 :
                  Without(s, s[p])[i] = IF i < p THEN s[i] ELSE s[i + 1]
<1>1. DOMAIN s = 1..Len(s) /\ Len(s) \in Nat /\ \A i \in 1..Len(s) : s[i] \in S
  BY LenProperties
<1>2. (CHOOSE i \in DOMAIN s : s[i] = s[p]) = p
  BY <1>1 DEF IsInjective
<1>3. Without(s, s[p]) = RemoveAt(s, p)
  BY <1>1, <1>2 DEF Without, ToSet
<1> DEFINE a == SubSeq(s, 1, p - 1)
           b == SubSeq(s, p + 1, Len(s))
<1>4. /\ a \in Seq(S) /\ Len(a) = p - 1
      /\ \A i \in 1..p - 1 : a[i] = s[i]
  <2>1. \A i \in 1..p - 1 : s[i] \in S
    BY <1>1
  <2>2. 1 \in Int /\ p - 1 \in Int
    BY <1>1
  <2>3. /\ a \in Seq(S)
        /\ Len(a) = IF 1 <= p - 1 THEN (p - 1) - 1 + 1 ELSE 0
        /\ \A i \in 1..((p - 1) - 1 + 1) : a[i] = s[1 + i - 1]
    BY <2>1, <2>2, SubSeqProperties
  <2> QED
    BY <2>3, <1>1
<1>5. /\ b \in Seq(S) /\ Len(b) = Len(s) - p
      /\ \A i \in 1..Len(s) - p : b[i] = s[p + i]
  <2>1. \A i \in p + 1..Len(s) : s[i] \in S
    BY <1>1
  <2>2. p + 1 \in Int /\ Len(s) \in Int
    BY <1>1
  <2>3. /\ b \in Seq(S)
        /\ Len(b) = IF p + 1 <= Len(s) THEN Len(s) - (p + 1) + 1 ELSE 0
        /\ \A i \in 1..(Len(s) - (p + 1) + 1) : b[i] = s[(p + 1) + i - 1]
    BY <2>1, <2>2, SubSeqProperties
  <2>0. p \in Int /\ p <= Len(s) /\ Len(s) \in Int
    BY <1>1
  <2>4. Len(s) - (p + 1) + 1 = Len(s) - p
    BY <2>0
  <2>6. ~ (p + 1 <= Len(s)) => Len(s) - p = 0
    BY <2>0
  <2>5. \A i \in 1..Len(s) - p : (p + 1) + i - 1 = p + i
    BY <1>1
  <2> QED
    BY <2>3, <2>4, <2>5, <2>6
<1>6. /\ a \o b \in Seq(S) /\ Len(a \o b) = Len(a) + Len(b)
      /\ \A i \in 1..Len(a) + Len(b) :
            (a \o b)[i] = IF i <= Len(a) THEN a[i] ELSE b[i - Len(a)]
  BY <1>4, <1>5, ConcatProperties
<1>7. RemoveAt(s, p) = a \o b
  BY DEF RemoveAt
<1> HIDE DEF a, b
<1>8. ASSUME NEW i \in 1..Len(s) - 1
      PROVE  (a \o b)[i] = IF i < p THEN s[i] ELSE s[i + 1]
  <2>1. CASE i < p
    BY <1>1, <1>4, <1>5, <1>6, <2>1
  <2>2. CASE i >= p
    <3>1. i - (p - 1) \in 1..Len(s) - p /\ p + (i - (p - 1)) = i + 1
      BY <1>1, <2>2
    <3>2. b[i - (p - 1)] = s[i + 1]
      BY <1>5, <3>1
    <3>3. (a \o b)[i] = b[i - (p - 1)]
      BY <1>1, <1>4, <1>5, <1>6, <2>2
    <3> QED
      BY <2>2, <3>2, <3>3
  <2>3. i < p \/ i >= p
    BY <1>1
  <2> QED
    BY <2>1, <2>2, <2>3
<1>9. Len(a) + Len(b) = Len(s) - 1
  BY <1>1, <1>4, <1>5
<1> QED
  BY <1>3, <1>6, <1>7, <1>8, <1>9

LEMMA InToSet ==
    ASSUME NEW S, NEW s \in Seq(S)
    PROVE  \A y : y \in ToSet(s) <=> \E i \in 1..Len(s) : s[i] = y
BY LenProperties DEF ToSet

LEMMA WithoutAbsent ==
    ASSUME NEW s, NEW x, x \notin ToSet(s)
    PROVE  Without(s, x) = s
BY DEF Without

(* Where every element is, and was, when x is brought to the front.        *)
LEMMA Fronted ==
    ASSUME NEW S, NEW s \in Seq(S), IsInjective(s), NEW x \in S
    PROVE  LET t == ToFront(x, s) IN
           /\ t \in Seq(S)
           /\ Len(t) = IF x \in ToSet(s) THEN Len(s) ELSE Len(s) + 1
           /\ t[1] = x
           /\ \A i \in 2..Len(t) : \E k \in {i - 1, i} :
                  k \in 1..Len(s) /\ t[i] = s[k] /\ s[k] # x
           /\ \A k \in 1..Len(s) : s[k] # x => \E i \in {k, k + 1} :
                  i \in 2..Len(t) /\ t[i] = s[k]
           /\ \A i, j \in 1..Len(t), k, l \in 1..Len(s) :
                  t[i] = s[k] /\ t[j] = s[l] /\ s[k] # x /\ s[l] # x
                  => (i < j <=> k < l)
<1> DEFINE r == Without(s, x)
           t == ToFront(x, s)
<1>1. /\ DOMAIN s = 1..Len(s) /\ Len(s) \in Nat /\ \A i \in 1..Len(s) : s[i] \in S
      /\ \A i, j \in 1..Len(s) : s[i] = s[j] => i = j
  BY LenProperties DEF IsInjective
<1>2. ASSUME r \in Seq(S)
      PROVE  /\ t \in Seq(S) /\ Len(t) = Len(r) + 1 /\ t[1] = x
             /\ \A i \in 2..Len(r) + 1 : t[i] = r[i - 1]
  <2>1. <<x>> \in Seq(S) /\ Len(<<x>>) = 1 /\ <<x>>[1] = x /\ Len(r) \in Nat
    BY <1>2, LenProperties
  <2>2. /\ t \in Seq(S) /\ Len(t) = 1 + Len(r)
        /\ \A i \in 1..1 + Len(r) : t[i] = IF i <= 1 THEN <<x>>[i] ELSE r[i - 1]
    BY <1>2, <2>1, ConcatProperties DEF ToFront
  <2> QED
    BY <2>1, <2>2
<1>3. CASE x \notin ToSet(s)
  <2>1. r = s /\ \A k \in 1..Len(s) : s[k] # x
    BY <1>1, <1>3, WithoutAbsent DEF ToSet
  <2>2. /\ t \in Seq(S) /\ Len(t) = Len(s) + 1 /\ t[1] = x
        /\ \A i \in 2..Len(s) + 1 : t[i] = s[i - 1]
    BY <1>2, <2>1
  <2> HIDE DEF r
  <2>3. \A k \in 1..Len(s) : t[k + 1] = s[k] /\ k + 1 \in 2..Len(t)
    BY <1>1, <2>2
  <2>4. ASSUME NEW i \in 1..Len(t), NEW k \in 1..Len(s), t[i] = s[k]
        PROVE  i = k + 1
    <3>1. i \in 2..Len(s) + 1
      BY <1>1, <2>1, <2>2, <2>4
    <3> QED
      BY <1>1, <2>2, <2>4, <3>1
  <2> QED
    BY <1>1, <1>3, <2>1, <2>2, <2>3, <2>4
<1>4. CASE x \in ToSet(s)
  <2>1. PICK p \in 1..Len(s) : s[p] = x
    BY <1>1, <1>4 DEF ToSet
  <2>2. /\ r \in Seq(S) /\ Len(r) = Len(s) - 1
        /\ \A i \in 1..Len(s) - 1 : r[i] = IF i < p THEN s[i] ELSE s[i + 1]
    BY <2>1, WithoutPresent
  <2>3. /\ t \in Seq(S) /\ Len(t) = Len(s) /\ t[1] = x
        /\ \A i \in 2..Len(s) : t[i] = r[i - 1]
    <3>1. (Len(s) - 1) + 1 = Len(s)
      BY <1>1
    <3> QED
      BY <1>2, <2>2, <3>1
  <2> HIDE DEF r
  <2>4. \A i \in 2..Len(s) : t[i] = IF i <= p THEN s[i - 1] ELSE s[i]
    BY <1>1, <2>2, <2>3
  <2>5. \A k \in 1..Len(s) : s[k] # x <=> k # p
    BY <1>1, <2>1
  <2>6. ASSUME NEW k \in 1..Len(s), k < p
        PROVE  k + 1 \in 2..Len(s) /\ t[k + 1] = s[k]
    <3>1. k + 1 \in 2..Len(s) /\ k + 1 <= p /\ (k + 1) - 1 = k
      BY <1>1, <2>6
    <3> QED
      BY <2>4, <3>1
  <2>7. ASSUME NEW k \in 1..Len(s), k > p
        PROVE  k \in 2..Len(s) /\ t[k] = s[k]
    <3>1. k \in 2..Len(s) /\ ~ (k <= p)
      BY <1>1, <2>7
    <3> QED
      BY <2>4, <3>1
  <2>8. ASSUME NEW i \in 1..Len(t), NEW k \in 1..Len(s), t[i] = s[k], s[k] # x
        PROVE  i = IF k < p THEN k + 1 ELSE k
    <3>1. i \in 2..Len(s)
      BY <1>1, <2>3, <2>8
    <3>2. t[i] = IF i <= p THEN s[i - 1] ELSE s[i]
      BY <2>4, <3>1
    <3>3. i - 1 \in 1..Len(s) /\ i \in 1..Len(s)
      BY <1>1, <3>1
    <3>4. k = IF i <= p THEN i - 1 ELSE i
      BY <1>1, <2>8, <3>2, <3>3
    <3>5. k # p
      BY <2>5, <2>8
    <3> QED
      BY <1>1, <3>1, <3>4, <3>5
  <2>9. \A i \in 2..Len(t) : \E k \in {i - 1, i} :
           k \in 1..Len(s) /\ t[i] = s[k] /\ s[k] # x
    BY <1>1, <2>3, <2>4, <2>5
  <2>10. \A k \in 1..Len(s) : s[k] # x => \E i \in {k, k + 1} :
           i \in 2..Len(t) /\ t[i] = s[k]
    BY <1>1, <2>3, <2>5, <2>6, <2>7
  <2>11. \A i, j \in 1..Len(t), k, l \in 1..Len(s) :
           t[i] = s[k] /\ t[j] = s[l] /\ s[k] # x /\ s[l] # x => (i < j <=> k < l)
    BY <1>1, <2>5, <2>8
  <2> QED
    BY <1>4, <2>3, <2>9, <2>10, <2>11
<1> QED
  BY <1>3, <1>4

\* x occurs in s, and y after it.
Precedes(s, x, y) == \E i, j \in DOMAIN s : i < j /\ s[i] = x /\ s[j] = y

(* The same in terms of order: x comes before all others, whose order is   *)
(* the old one, and none of them is nearer to the front than it was.       *)
LEMMA FrontedOrder ==
    ASSUME NEW S, NEW s \in Seq(S), IsInjective(s), NEW x \in S
    PROVE  LET t == ToFront(x, s) IN
           /\ t \in Seq(S) /\ IsInjective(t)
           /\ Len(t) = IF x \in ToSet(s) THEN Len(s) ELSE Len(s) + 1
           /\ ToSet(t) = ToSet(s) \cup {x}
           /\ \A y, z : Precedes(t, y, z) =>
                  z # x /\ z \in ToSet(s) /\ (y = x \/ Precedes(s, y, z))
           /\ \A z \in ToSet(s) \ {x} : Precedes(t, x, z)
           /\ \A y, z : Precedes(s, y, z) /\ y # x /\ z # x => Precedes(t, y, z)
           /\ \A i \in DOMAIN t : t[i] # x =>
                  \E k \in DOMAIN s : k <= i /\ s[k] = t[i]
<1> DEFINE t == ToFront(x, s)
<1>1. /\ DOMAIN s = 1..Len(s) /\ Len(s) \in Nat
      /\ \A i, j \in 1..Len(s) : s[i] = s[j] => i = j
  BY LenProperties DEF IsInjective
<1>2. /\ t \in Seq(S)
      /\ Len(t) = IF x \in ToSet(s) THEN Len(s) ELSE Len(s) + 1
      /\ t[1] = x
      /\ \A i \in 2..Len(t) : \E k \in {i - 1, i} :
             k \in 1..Len(s) /\ t[i] = s[k] /\ s[k] # x
      /\ \A k \in 1..Len(s) : s[k] # x => \E i \in {k, k + 1} :
             i \in 2..Len(t) /\ t[i] = s[k]
      /\ \A i, j \in 1..Len(t), k, l \in 1..Len(s) :
             t[i] = s[k] /\ t[j] = s[l] /\ s[k] # x /\ s[l] # x
             => (i < j <=> k < l)
  BY Fronted, SMTT(30)
<1> HIDE DEF t
<1>3. \A i, j \in 1..Len(t), k, l \in 1..Len(s) :
         t[i] = s[k] /\ t[j] = s[l] /\ s[k] # x /\ s[l] # x => (i < j <=> k < l)
  BY <1>2
<1>4. DOMAIN t = 1..Len(t) /\ Len(t) \in Nat /\ 1 \in 1..Len(t)
  <2>1. DOMAIN t = 1..Len(t) /\ Len(t) \in Nat
    BY <1>2, LenProperties
  <2>2. x \in ToSet(s) => Len(s) >= 1
    BY <1>1 DEF ToSet
  <2> QED
    BY <1>1, <1>2, <2>1, <2>2
<1>5. ASSUME NEW i \in 1..Len(t), t[i] # x
      PROVE  \E k \in 1..Len(s) : k <= i /\ s[k] = t[i]
  <2>1. i \in 2..Len(t)
    BY <1>2, <1>4, <1>5
  <2> QED
    BY <1>1, <1>2, <2>1
<1>6. \A i \in 1..Len(t) : t[i] = x => i = 1
  <2>1. \A i \in 1..Len(t) : i = 1 \/ i \in 2..Len(t)
    BY <1>4
  <2> QED
    BY <1>2, <2>1
<1>7. ASSUME NEW k \in 1..Len(s), s[k] # x
      PROVE  \E i \in 2..Len(t) : t[i] = s[k]
  BY <1>2, <1>7
<1>8. ToSet(t) = ToSet(s) \cup {x}
  <2>1. \A y : y \in ToSet(s) <=> \E i \in 1..Len(s) : s[i] = y
    BY InToSet
  <2>2. \A y : y \in ToSet(t) <=> \E i \in 1..Len(t) : t[i] = y
    BY <1>2, InToSet
  <2>3. \A y : y \in ToSet(t) => y \in ToSet(s) \cup {x}
    BY <1>5, <2>1, <2>2
  <2>4. x \in ToSet(t)
    BY <1>2, <1>4, <2>2
  <2>5. \A i \in 2..Len(t) : i \in 1..Len(t)
    OBVIOUS
  <2>6. \A y : y \in ToSet(s) /\ y # x => y \in ToSet(t)
    BY <1>7, <2>1, <2>2, <2>5
  <2> QED
    BY <2>3, <2>4, <2>6
<1>9. IsInjective(t)
  <2> SUFFICES ASSUME NEW i \in 1..Len(t), NEW j \in 1..Len(t), t[i] = t[j] PROVE i = j
    BY <1>4 DEF IsInjective
  <2>1. CASE t[i] = x
    BY <1>6, <2>1
  <2>2. CASE t[i] # x
    <3>1. PICK k \in 1..Len(s) : s[k] = t[i]
      BY <1>5, <2>2
    <3>2. ~ (k < k) /\ ~ (i < j) /\ ~ (j < i)
      BY <1>1, <1>3, <2>2, <3>1
    <3> QED
      BY <1>4, <3>2
  <2> QED
    BY <2>1, <2>2
<1>10. ASSUME NEW y, NEW z, Precedes(t, y, z)
       PROVE  z # x /\ z \in ToSet(s) /\ (y = x \/ Precedes(s, y, z))
  <2>1. PICK i \in 1..Len(t), j \in 1..Len(t) : i < j /\ t[i] = y /\ t[j] = z
    BY <1>4, <1>10 DEF Precedes
  <2>2. z # x
    BY <1>4, <1>6, <2>1
  <2>3. PICK l \in 1..Len(s) : s[l] = z
    BY <1>5, <2>1, <2>2
  <2>4. CASE y # x
    <3>1. PICK k \in 1..Len(s) : s[k] = y
      BY <1>5, <2>1, <2>4
    <3>2. k < l
      BY <1>3, <2>1, <2>2, <2>3, <2>4, <3>1
    <3> QED
      BY <1>1, <2>2, <2>3, <3>1, <3>2 DEF Precedes, ToSet
  <2> QED
    BY <1>1, <2>2, <2>3, <2>4 DEF ToSet
<1>11. ASSUME NEW z \in ToSet(s) \ {x} PROVE Precedes(t, x, z)
  <2>1. PICK k \in 1..Len(s) : s[k] = z
    BY <1>1 DEF ToSet
  <2>2. PICK i \in 2..Len(t) : t[i] = z
    BY <1>7, <2>1
  <2>3. 1 < i /\ i \in 1..Len(t)
    BY <1>4
  <2> QED
    BY <1>2, <1>4, <2>2, <2>3 DEF Precedes
<1>12. ASSUME NEW y, NEW z, Precedes(s, y, z), y # x, z # x PROVE Precedes(t, y, z)
  <2>1. PICK k \in 1..Len(s), l \in 1..Len(s) : k < l /\ s[k] = y /\ s[l] = z
    BY <1>1, <1>12 DEF Precedes
  <2>2. PICK i \in 2..Len(t) : t[i] = y
    BY <1>7, <1>12, <2>1
  <2>3. PICK j \in 2..Len(t) : t[j] = z
    BY <1>7, <1>12, <2>1
  <2>4. i \in 1..Len(t) /\ j \in 1..Len(t)
    BY <1>4
  <2>5. i < j
    BY <1>3, <1>12, <2>1, <2>2, <2>3, <2>4
  <2> QED
    BY <1>4, <2>2, <2>3, <2>4, <2>5 DEF Precedes
<1>13. \A i \in DOMAIN t : t[i] # x => \E k \in DOMAIN s : k <= i /\ s[k] = t[i]
  BY <1>1, <1>4, <1>5
<1> QED
  BY <1>2, <1>8, <1>9, <1>10, <1>11, <1>12, <1>13 DEF t

(* Removing an element keeps the others in their order.                    *)
LEMMA RemovedOrder ==
    ASSUME NEW S, NEW s \in Seq(S), IsInjective(s), NEW x \in ToSet(s),
           NEW t, t = Without(s, x)
    PROVE  /\ t \in Seq(S) /\ IsInjective(t) /\ Len(t) = Len(s) - 1
           /\ ToSet(t) = ToSet(s) \ {x}
           /\ \A y, z : Precedes(t, y, z) => Precedes(s, y, z)
<1>1. /\ DOMAIN s = 1..Len(s) /\ Len(s) \in Nat
      /\ \A i, j \in 1..Len(s) : s[i] = s[j] => i = j
  BY LenProperties DEF IsInjective
<1>2. PICK p \in 1..Len(s) : s[p] = x
  BY <1>1 DEF ToSet
<1>3. /\ t \in Seq(S) /\ Len(t) = Len(s) - 1
      /\ \A i \in 1..Len(s) - 1 : t[i] = IF i < p THEN s[i] ELSE s[i + 1]
  BY <1>2, WithoutPresent
<1>4. DOMAIN t = 1..Len(s) - 1
  BY <1>3, LenProperties
<1> DEFINE old(i) == IF i < p THEN i ELSE i + 1
<1>5. \A i \in 1..Len(s) - 1 : old(i) \in 1..Len(s) /\ old(i) # p /\ t[i] = s[old(i)]
  BY <1>1, <1>3
<1>6. \A i, j \in 1..Len(s) - 1 : i < j <=> old(i) < old(j)
  BY <1>1
<1>7. \A k \in 1..Len(s) : k # p => \E i \in 1..Len(s) - 1 : old(i) = k
  <2> SUFFICES ASSUME NEW k \in 1..Len(s), k # p PROVE \E i \in 1..Len(s) - 1 : old(i) = k
    OBVIOUS
  <2>1. CASE k < p
    <3>1. k \in 1..Len(s) - 1 /\ old(k) = k
      BY <1>1, <2>1
    <3> QED
      BY <3>1
  <2>2. CASE k > p
    <3>1. k - 1 \in 1..Len(s) - 1 /\ old(k - 1) = k
      BY <1>1, <2>2
    <3> QED
      BY <3>1
  <2>3. k < p \/ k > p
    BY <1>1
  <2> QED
    BY <2>1, <2>2, <2>3
<1> HIDE DEF old
<1>8. IsInjective(t)
  <2> SUFFICES ASSUME NEW i \in 1..Len(s) - 1, NEW j \in 1..Len(s) - 1, t[i] = t[j]
               PROVE  i = j
    BY <1>4 DEF IsInjective
  <2>1. old(i) = old(j) /\ old(i) \in Int
    BY <1>1, <1>5
  <2>2. ~ (i < j) /\ ~ (j < i)
    BY <1>6, <2>1
  <2> QED
    BY <1>1, <2>2
<1>9. ToSet(t) = ToSet(s) \ {x}
  <2>1. \A y : y \in ToSet(s) <=> \E i \in 1..Len(s) : s[i] = y
    BY InToSet
  <2>2. \A y : y \in ToSet(t) <=> \E i \in 1..Len(s) - 1 : t[i] = y
    BY <1>3, InToSet
  <2>3. \A y : y \in ToSet(t) => y \in ToSet(s) \ {x}
    BY <1>1, <1>2, <1>5, <2>1, <2>2
  <2>4. ASSUME NEW y, y \in ToSet(s) \ {x} PROVE y \in ToSet(t)
    <3>1. PICK k \in 1..Len(s) : s[k] = y
      BY <2>1, <2>4
    <3>2. PICK i \in 1..Len(s) - 1 : old(i) = k
      BY <1>2, <1>7, <2>4, <3>1
    <3> QED
      BY <1>5, <2>2, <3>1, <3>2
  <2> QED
    BY <2>3, <2>4
<1>10. ASSUME NEW y, NEW z, Precedes(t, y, z) PROVE Precedes(s, y, z)
  BY <1>1, <1>4, <1>5, <1>6, <1>10 DEF Precedes
<1> QED
  BY <1>3, <1>8, <1>9, <1>10

(* The same of the last element, which Front removes.                      *)
LEMMA FrontOrder ==
    ASSUME NEW S, NEW s \in Seq(S), IsInjective(s), Len(s) > 0
    PROVE  /\ Front(s) \in Seq(S) /\ IsInjective(Front(s))
           /\ Len(Front(s)) = Len(s) - 1
           /\ Last(s) \in ToSet(s)
           /\ ToSet(Front(s)) = ToSet(s) \ {Last(s)}
           /\ \A y, z : Precedes(Front(s), y, z) => Precedes(s, y, z)
<1>0. Len(s) \in Nat /\ Len(s) >= 1
  BY LenProperties
<1>1. /\ DOMAIN s = 1..Len(s) /\ Len(s) \in Nat /\ \A i \in 1..Len(s) : s[i] \in S
      /\ \A i, j \in 1..Len(s) : s[i] = s[j] => i = j
  BY LenProperties DEF IsInjective
<1>2. /\ Front(s) \in Seq(S) /\ Len(Front(s)) = Len(s) - 1
      /\ \A i \in 1..Len(s) - 1 : Front(s)[i] = s[i]
  <2>1. \A i \in 1..Len(s) - 1 : s[i] \in S
    BY <1>1
  <2>2. 1 \in Int /\ Len(s) - 1 \in Int
    BY <1>1
  <2>3. /\ Front(s) \in Seq(S)
        /\ Len(Front(s)) = IF 1 <= Len(s) - 1 THEN (Len(s) - 1) - 1 + 1 ELSE 0
        /\ \A i \in 1..((Len(s) - 1) - 1 + 1) : Front(s)[i] = s[1 + i - 1]
    BY <2>1, <2>2, SubSeqProperties DEF Front
  <2>4. (Len(s) - 1) - 1 + 1 = Len(s) - 1
    BY <1>0
  <2>5. \A i \in 1..Len(s) - 1 : 1 + i - 1 = i
    OBVIOUS
  <2>7. Len(Front(s)) = Len(s) - 1
    <3>1. Len(s) = 1 \/ Len(s) >= 2
      BY <1>0, OneOrMore
    <3>2. Len(s) = 1 => Len(s) - 1 = 0 /\ ~ (1 <= Len(s) - 1)
      OBVIOUS
    <3>3. Len(s) >= 2 => 1 <= Len(s) - 1
      BY <1>0
    <3> QED
      BY <2>3, <2>4, <3>1, <3>2, <3>3
  <2> QED
    BY <2>3, <2>4, <2>5, <2>7
<1>3. DOMAIN Front(s) = 1..Len(s) - 1
  BY <1>2, LenProperties
<1>4. Last(s) = s[Len(s)] /\ Len(s) \in 1..Len(s)
  BY <1>1 DEF Last
<1>5. \A i \in 1..Len(s) - 1 : i \in 1..Len(s) /\ i # Len(s)
  BY <1>0
<1>6. \A i \in 1..Len(s) : i # Len(s) => i \in 1..Len(s) - 1
  BY <1>0
<1>7. ToSet(Front(s)) = ToSet(s) \ {Last(s)}
  <2>1. \A y : y \in ToSet(s) <=> \E i \in 1..Len(s) : s[i] = y
    BY InToSet
  <2>2. \A y : y \in ToSet(Front(s)) <=> \E i \in 1..Len(s) - 1 : Front(s)[i] = y
    BY <1>2, InToSet
  <2>3. ASSUME NEW y, y \in ToSet(Front(s)) PROVE y \in ToSet(s) \ {Last(s)}
    <3>1. PICK i \in 1..Len(s) - 1 : Front(s)[i] = y
      BY <2>2, <2>3
    <3>2. i \in 1..Len(s) /\ s[i] = y /\ i # Len(s)
      BY <1>2, <1>5, <3>1
    <3> QED
      BY <1>1, <1>4, <2>1, <3>2
  <2>4. \A y : y \in ToSet(s) \ {Last(s)} => y \in ToSet(Front(s))
    BY <1>2, <1>4, <1>6, <2>1, <2>2
  <2> QED
    BY <2>3, <2>4
<1>8. IsInjective(Front(s))
  BY <1>1, <1>2, <1>3, <1>5 DEF IsInjective
<1>9. ASSUME NEW y, NEW z, Precedes(Front(s), y, z) PROVE Precedes(s, y, z)
  BY <1>1, <1>2, <1>3, <1>5, <1>9 DEF Precedes
<1>10. Last(s) \in ToSet(s)
  BY <1>1, <1>4 DEF ToSet
<1> QED
  BY <1>2, <1>7, <1>8, <1>9, <1>10
-----------------------------------------------------------------------------
(* The inductive invariant, of a map m, a list s, the values v of the list *)
(* elements, the chats r by their last use and their latest tokens l.      *)

TokenSet == Tokens \cup {NoToken}

CacheTypes(m, s, v, r, l) ==
    /\ m \in [Chats -> Elements \cup {Nil}]
    /\ s \in Seq(Elements) /\ IsInjective(s)
    /\ v \in [Elements -> [userID : Chats \cup {Nil}, token : TokenSet]]
    /\ r \in Seq(Chats) /\ IsInjective(r)
    /\ l \in [Chats -> TokenSet]

\* The map and the list are one structure, as in MapMatchesList.
Linked(m, s, v) ==
    /\ \A c \in Chats : m[c] # Nil => m[c] \in ToSet(s) /\ v[m[c]].userID = c
    /\ \A e \in ToSet(s) : v[e].userID \in Chats /\ m[v[e].userID] = e

\* The list holds its chats in the order of their last use.
ByUse(s, v, r) ==
    /\ \A e \in ToSet(s) : v[e].userID \in ToSet(r)
    /\ \A e, f \in ToSet(s) :
            Precedes(s, e, f) => Precedes(r, v[e].userID, v[f].userID)

\* An element has the latest token of its chat.
Fresh(s, v, l) == \A e \in ToSet(s) : v[e].token = l[v[e].userID]

\* Chats used recently have their latest token in the cache.
TokenOf(m, v, c) == IF m[c] = Nil THEN NoToken ELSE v[m[c]].token

Kept(m, v, r, l) ==
    \A i \in DOMAIN r : i <= MaxContextTokens => TokenOf(m, v, r[i]) = l[r[i]]

Coherent(m, s, v, r, l) ==
    /\ CacheTypes(m, s, v, r, l)
    /\ Linked(m, s, v)
    /\ ByUse(s, v, r)
    /\ Fresh(s, v, l)
    /\ Kept(m, v, r, l)

(* Using chat c, whose element is e or who gets e as a new one, and giving *)
(* it token t, keeps all of that, but may make the list too long by one.   *)
LEMMA UseKeepsCoherent ==
    ASSUME NEW m, NEW s, NEW v, NEW r, NEW l, Coherent(m, s, v, r, l),
           NEW c \in Chats, NEW e \in Elements, NEW t \in TokenSet,
           m[c] = e \/ (m[c] = Nil /\ e \notin ToSet(s))
    PROVE  Coherent([m EXCEPT ![c] = e], ToFront(e, s),
                    [v EXCEPT ![e] = [userID |-> c, token |-> t]],
                    ToFront(c, r), [l EXCEPT ![c] = t])
<1> DEFINE m2 == [m EXCEPT ![c] = e]
           s2 == ToFront(e, s)
           v2 == [v EXCEPT ![e] = [userID |-> c, token |-> t]]
           r2 == ToFront(c, r)
           l2 == [l EXCEPT ![c] = t]
<1>0. /\ CacheTypes(m, s, v, r, l) /\ Linked(m, s, v) /\ ByUse(s, v, r)
      /\ Fresh(s, v, l) /\ Kept(m, v, r, l)
  BY DEF Coherent
<1>1. /\ s \in Seq(Elements) /\ IsInjective(s) /\ r \in Seq(Chats) /\ IsInjective(r)
      /\ m \in [Chats -> Elements \cup {Nil}] /\ l \in [Chats -> TokenSet]
      /\ v \in [Elements -> [userID : Chats \cup {Nil}, token : TokenSet]]
  BY <1>0 DEF CacheTypes
<1>2. /\ s2 \in Seq(Elements) /\ IsInjective(s2)
      /\ ToSet(s2) = ToSet(s) \cup {e}
      /\ \A y, z : Precedes(s2, y, z) =>
             z # e /\ z \in ToSet(s) /\ (y = e \/ Precedes(s, y, z))
  BY <1>1, FrontedOrder
<1>3. /\ r2 \in Seq(Chats) /\ IsInjective(r2)
      /\ ToSet(r2) = ToSet(r) \cup {c}
      /\ \A z \in ToSet(r) \ {c} : Precedes(r2, c, z)
      /\ \A y, z : Precedes(r, y, z) /\ y # c /\ z # c => Precedes(r2, y, z)
      /\ \A i \in DOMAIN r2 : r2[i] # c =>
             \E k \in DOMAIN r : k <= i /\ r[k] = r2[i]
  BY <1>1, FrontedOrder
<1>4. /\ m2 \in [Chats -> Elements \cup {Nil}] /\ l2 \in [Chats -> TokenSet]
      /\ v2 \in [Elements -> [userID : Chats \cup {Nil}, token : TokenSet]]
      /\ m2[c] = e /\ v2[e].userID = c /\ v2[e].token = t /\ l2[c] = t
      /\ \A d \in Chats : d # c => m2[d] = m[d] /\ l2[d] = l[d]
      /\ \A f \in Elements : f # e => v2[f] = v[f]
  BY <1>1
<1> HIDE DEF m2, s2, v2, r2, l2
<1>5. ToSet(s) \subseteq Elements /\ Nil \notin Elements
  BY <1>1, InToSet, ElementOfSeq, NilAssumption
<1>6. ASSUME NEW f \in ToSet(s), f # e
      PROVE  /\ f \in Elements /\ v2[f] = v[f]
             /\ v[f].userID \in Chats \ {c} /\ m[v[f].userID] = f
  BY <1>0, <1>4, <1>5, <1>6 DEF Linked
<1>7. ASSUME NEW d \in Chats, d # c, m[d] # Nil
      PROVE  m[d] \in ToSet(s) /\ m[d] # e /\ v2[m[d]] = v[m[d]]
  <2>1. m[d] \in ToSet(s) /\ v[m[d]].userID = d
    BY <1>0, <1>7 DEF Linked
  <2>2. m[c] = e => v[e].userID = c
    BY <1>0, <1>5 DEF Linked
  <2> QED
    BY <1>6, <1>7, <2>1, <2>2
<1>8. CacheTypes(m2, s2, v2, r2, l2)
  BY <1>2, <1>3, <1>4 DEF CacheTypes
<1>9. Linked(m2, s2, v2)
  <2>1. ASSUME NEW d \in Chats, m2[d] # Nil
        PROVE  m2[d] \in ToSet(s2) /\ v2[m2[d]].userID = d
    BY <1>0, <1>2, <1>4, <1>7, <2>1 DEF Linked
  <2>2. ASSUME NEW f \in ToSet(s2)
        PROVE  v2[f].userID \in Chats /\ m2[v2[f].userID] = f
    BY <1>2, <1>4, <1>6, <2>2
  <2> QED
    BY <2>1, <2>2 DEF Linked
<1>10. ByUse(s2, v2, r2)
  <2>1. ASSUME NEW f \in ToSet(s2) PROVE v2[f].userID \in ToSet(r2)
    BY <1>0, <1>2, <1>3, <1>4, <1>6, <2>1 DEF ByUse
  <2>2. ASSUME NEW f \in ToSet(s2), NEW g \in ToSet(s2), Precedes(s2, f, g)
        PROVE  Precedes(r2, v2[f].userID, v2[g].userID)
    <3>1. g # e /\ g \in ToSet(s) /\ (f = e \/ Precedes(s, f, g))
      BY <1>2, <2>2
    <3>2. v2[g].userID \in ToSet(r) \ {c} /\ v2[g] = v[g]
      BY <1>0, <1>6, <3>1 DEF ByUse
    <3>3. CASE f = e
      BY <1>3, <1>4, <3>2, <3>3
    <3>4. CASE f # e
      <4>1. f \in ToSet(s) /\ v2[f] = v[f] /\ v[f].userID # c
        BY <1>2, <1>6, <3>4
      <4>2. Precedes(r, v[f].userID, v[g].userID)
        BY <1>0, <3>1, <3>4, <4>1 DEF ByUse
      <4> QED
        BY <1>3, <3>2, <4>1, <4>2
    <3> QED
      BY <3>3, <3>4
  <2> QED
    BY <2>1, <2>2 DEF ByUse
<1>11. Fresh(s2, v2, l2)
  BY <1>0, <1>2, <1>4, <1>6 DEF Fresh
<1>12. Kept(m2, v2, r2, l2)
  <2> SUFFICES ASSUME NEW i \in DOMAIN r2, i <= MaxContextTokens
               PROVE  TokenOf(m2, v2, r2[i]) = l2[r2[i]]
    BY DEF Kept
  <2>1. CASE r2[i] = c
    BY <1>4, <1>5, <2>1 DEF TokenOf
  <2>2. CASE r2[i] # c
    <3>1. PICK k \in DOMAIN r : k <= i /\ r[k] = r2[i]
      BY <1>3, <2>2
    <3>2. r[k] \in Chats /\ k \in Nat /\ i \in Nat
      BY <1>1, <1>3, LenProperties, ElementOfSeq
    <3>3. TokenOf(m, v, r[k]) = l[r[k]]
      BY <1>0, <3>1, <3>2, LimitAssumption DEF Kept
    <3> QED
      BY <1>4, <1>7, <2>2, <3>1, <3>2, <3>3 DEF TokenOf
  <2> QED
    BY <2>1, <2>2
<1> QED
  BY <1>8, <1>9, <1>10, <1>11, <1>12 DEF Coherent, m2, s2, v2, r2, l2

(* The chat at the back of a list of n chats was used before n - 1 others. *)
LEMMA BackIsOld ==
    ASSUME NEW m, NEW s, NEW v, NEW r, NEW l, Coherent(m, s, v, r, l), Len(s) > 0,
           NEW k \in DOMAIN r, r[k] = v[Last(s)].userID
    PROVE  k >= Len(s)
<1>1. /\ s \in Seq(Elements) /\ IsInjective(s) /\ r \in Seq(Chats) /\ IsInjective(r)
      /\ DOMAIN s = 1..Len(s) /\ Len(s) \in Nat
      /\ DOMAIN r = 1..Len(r) /\ Len(r) \in Nat
  BY LenProperties DEF Coherent, CacheTypes
<1>2. \A i, j \in 1..Len(r) : r[i] = r[j] => i = j
  BY <1>1 DEF IsInjective
<1>3. \A i \in 1..Len(s) : s[i] \in ToSet(s)
  BY <1>1 DEF ToSet
<1> DEFINE f == [i \in 1..Len(s) |-> CHOOSE j \in 1..Len(r) : r[j] = v[s[i]].userID]
<1>4. ASSUME NEW i \in 1..Len(s)
      PROVE  f[i] \in 1..Len(r) /\ r[f[i]] = v[s[i]].userID
  <2>1. v[s[i]].userID \in ToSet(r)
    BY <1>3 DEF Coherent, ByUse
  <2>2. \E j \in 1..Len(r) : r[j] = v[s[i]].userID
    BY <1>1, <2>1, InToSet
  <2> QED
    BY <2>2
<1> HIDE DEF f
<1>5. ASSUME NEW i \in 1..Len(s), NEW j \in 1..Len(s), i < j PROVE f[i] < f[j]
  <2>1. Precedes(s, s[i], s[j])
    BY <1>1, <1>5 DEF Precedes
  <2>2. Precedes(r, v[s[i]].userID, v[s[j]].userID)
    BY <1>3, <2>1 DEF Coherent, ByUse
  <2>3. PICK a \in 1..Len(r), b \in 1..Len(r) :
           a < b /\ r[a] = v[s[i]].userID /\ r[b] = v[s[j]].userID
    BY <1>1, <2>2 DEF Precedes
  <2>4. f[i] = a /\ f[j] = b
    BY <1>2, <1>4, <2>3
  <2> QED
    BY <2>3, <2>4
<1>6. f \in [1..Len(s) -> Nat \ {0}]
  BY <1>1, <1>4 DEF f
<1>7. \A i \in 1..Len(s) : f[i] >= i
  BY <1>1, <1>5, <1>6, Ascending
<1>8. Len(s) \in 1..Len(s) /\ s[Len(s)] = Last(s)
  BY <1>1 DEF Last
<1>9. f[Len(s)] = k
  BY <1>1, <1>2, <1>4, <1>8
<1> QED
  BY <1>7, <1>8, <1>9

(* Evicting the back of a list that is longer than the limit takes the map *)
(* entry of that chat, and it is not one of the recently used.             *)
LEMMA EvictionKeepsCoherent ==
    ASSUME NEW m, NEW s, NEW v, NEW r, NEW l, Coherent(m, s, v, r, l),
           Len(s) > MaxContextTokens
    PROVE  Coherent([m EXCEPT ![v[Last(s)].userID] = Nil], Front(s), v, r, l)
<1> DEFINE o == Last(s)
           u == v[o].userID
           m2 == [m EXCEPT ![u] = Nil]
           s2 == Front(s)
<1>0. /\ CacheTypes(m, s, v, r, l) /\ Linked(m, s, v) /\ ByUse(s, v, r)
      /\ Fresh(s, v, l) /\ Kept(m, v, r, l)
  BY DEF Coherent
<1>1. /\ s \in Seq(Elements) /\ IsInjective(s) /\ Len(s) \in Nat
      /\ m \in [Chats -> Elements \cup {Nil}]
  BY <1>0, LenProperties DEF CacheTypes
<1>2. /\ s2 \in Seq(Elements) /\ IsInjective(s2) /\ o \in ToSet(s)
      /\ ToSet(s2) = ToSet(s) \ {o}
      /\ \A y, z : Precedes(s2, y, z) => Precedes(s, y, z)
  BY <1>1, FrontOrder, LimitAssumption
<1>3. u \in Chats /\ m[u] = o
  BY <1>0, <1>2 DEF Linked
<1>4. /\ m2 \in [Chats -> Elements \cup {Nil}] /\ m2[u] = Nil
      /\ \A d \in Chats : d # u => m2[d] = m[d]
  BY <1>1, <1>3
<1>5. \A i \in DOMAIN r : r[i] = u => i >= Len(s)
  BY <1>1, BackIsOld, LimitAssumption
<1> HIDE DEF m2, s2, o, u
<1>6. CacheTypes(m2, s2, v, r, l)
  BY <1>0, <1>2, <1>4 DEF CacheTypes
<1>7. Linked(m2, s2, v)
  <2>1. v[o].userID = u
    BY DEF u
  <2> QED
    BY <1>0, <1>2, <1>3, <1>4, <2>1 DEF Linked
<1>8. ByUse(s2, v, r)
  BY <1>0, <1>2 DEF ByUse
<1>9. Fresh(s2, v, l)
  BY <1>0, <1>2 DEF Fresh
<1>10. Kept(m2, v, r, l)
  <2> SUFFICES ASSUME NEW i \in DOMAIN r, i <= MaxContextTokens
               PROVE  TokenOf(m2, v, r[i]) = l[r[i]]
    BY DEF Kept
  <2>1. r \in Seq(Chats) /\ i \in 1..Len(r) /\ i \in Nat
    BY <1>0, LenProperties DEF CacheTypes
  <2>2. r[i] \in Chats
    BY <2>1, ElementOfSeq
  <2>3. r[i] # u
    BY <1>1, <1>5, <2>1, LimitAssumption
  <2> QED
    BY <1>0, <1>4, <2>2, <2>3 DEF Kept, TokenOf
<1> QED
  BY <1>6, <1>7, <1>8, <1>9, <1>10 DEF Coherent, m2, s2, o, u

(* Removing a chat from both, and its token from the history.              *)
LEMMA RemovalKeepsCoherent ==
    ASSUME NEW m, NEW s, NEW v, NEW r, NEW l, Coherent(m, s, v, r, l),
           NEW c \in Chats, m[c] # Nil
    PROVE  Coherent([m EXCEPT ![c] = Nil], Without(s, m[c]), v, r,
                    [l EXCEPT ![c] = NoToken])
<1> DEFINE e == m[c]
           m2 == [m EXCEPT ![c] = Nil]
           s2 == Without(s, e)
           l2 == [l EXCEPT ![c] = NoToken]
<1>0. /\ CacheTypes(m, s, v, r, l) /\ Linked(m, s, v) /\ ByUse(s, v, r)
      /\ Fresh(s, v, l) /\ Kept(m, v, r, l)
  BY DEF Coherent
<1>1. /\ s \in Seq(Elements) /\ IsInjective(s)
      /\ m \in [Chats -> Elements \cup {Nil}] /\ l \in [Chats -> TokenSet]
  BY <1>0 DEF CacheTypes
<1>2. e \in ToSet(s) /\ v[e].userID = c
  BY <1>0 DEF Linked
<1>3. /\ s2 \in Seq(Elements) /\ IsInjective(s2)
      /\ ToSet(s2) = ToSet(s) \ {e}
      /\ \A y, z : Precedes(s2, y, z) => Precedes(s, y, z)
  BY <1>1, <1>2, RemovedOrder
<1>4. /\ m2 \in [Chats -> Elements \cup {Nil}] /\ l2 \in [Chats -> TokenSet]
      /\ m2[c] = Nil /\ l2[c] = NoToken
      /\ \A d \in Chats : d # c => m2[d] = m[d] /\ l2[d] = l[d]
  BY <1>1 DEF TokenSet
<1> HIDE DEF m2, s2, l2
<1>5. CacheTypes(m2, s2, v, r, l2)
  BY <1>0, <1>3, <1>4 DEF CacheTypes
<1>6. Linked(m2, s2, v)
  BY <1>0, <1>2, <1>3, <1>4 DEF Linked
<1>7. ByUse(s2, v, r)
  BY <1>0, <1>3 DEF ByUse
<1>8. Fresh(s2, v, l2)
  BY <1>0, <1>2, <1>3, <1>4 DEF Fresh, Linked
<1>9. Kept(m2, v, r, l2)
  <2>1. \A i \in DOMAIN r : r[i] \in Chats
    BY <1>0, LenProperties, ElementOfSeq DEF CacheTypes
  <2> QED
    BY <1>0, <1>4, <2>1 DEF Kept, TokenOf
<1> QED
  BY <1>5, <1>6, <1>7, <1>8, <1>9 DEF Coherent, m2, s2, l2, e
-----------------------------------------------------------------------------
(* The steps.                                                              *)

CacheInv ==
    /\ Coherent(ctxTokens, order, value, recency, latest)
    /\ Len(order) <= MaxContextTokens

HandlerInv ==
    /\ handler \in [Handlers -> [chat : Chats \cup {Nil}, token : TokenSet,
                                 sent : TokenSet]]
    /\ ReplyKeepsItsToken

LEMMA InvInit == Init => CacheInv /\ HandlerInv
<1> SUFFICES ASSUME Init PROVE CacheInv /\ HandlerInv
  OBVIOUS
<1>1. CacheTypes(ctxTokens, order, value, recency, latest)
  BY DEF Init, CacheTypes, TokenSet, IsInjective
<1>2. ToSet(order) = {} /\ Len(order) = 0 /\ DOMAIN recency = {}
  BY DEF Init, ToSet
<1>3. \A c \in Chats : ctxTokens[c] = Nil
  BY DEF Init
<1>4. CacheInv
  BY <1>1, <1>2, <1>3, LimitAssumption
  DEF CacheInv, Coherent, Linked, ByUse, Fresh, Kept
<1>5. \A h \in Handlers : handler[h] = [chat |-> Nil, token |-> NoToken, sent |-> NoToken]
  BY DEF Init, Idle
<1>6. HandlerInv
  BY <1>5 DEF Init, Idle, HandlerInv, ReplyKeepsItsToken, TokenSet
<1> QED
  BY <1>4, <1>6

LEMMA CacheParts ==
    ASSUME CacheInv
    PROVE  /\ Coherent(ctxTokens, order, value, recency, latest)
           /\ ctxTokens \in [Chats -> Elements \cup {Nil}]
           /\ order \in Seq(Elements) /\ IsInjective(order) /\ Len(order) \in Nat
           /\ value \in [Elements -> [userID : Chats \cup {Nil}, token : TokenSet]]
           /\ recency \in Seq(Chats) /\ latest \in [Chats -> TokenSet]
           /\ \A c \in Chats : ctxTokens[c] # Nil =>
                  /\ ctxTokens[c] \in Elements /\ ctxTokens[c] \in ToSet(order)
                  /\ value[ctxTokens[c]].userID = c
                  /\ value[ctxTokens[c]].token = latest[c]
BY LenProperties DEF CacheInv, Coherent, CacheTypes, Linked, Fresh

\* Bringing a present element to the front does not lengthen the list.
LEMMA MovedLength ==
    ASSUME CacheInv, NEW c \in Chats, ctxTokens[c] # Nil
    PROVE  Len(MoveToFront(ctxTokens[c])) <= MaxContextTokens
BY CacheParts, FrontedOrder DEF MoveToFront, CacheInv

LEMMA ReplaceStep ==
    ASSUME CacheInv, NEW c \in Chats, NEW t \in TokenSet,
           Replace(c, t), Used(c), latest' = [latest EXCEPT ![c] = t]
    PROVE  CacheInv'
<1> DEFINE e == ctxTokens[c]
<1>1. e \in Elements /\ e # Nil /\ Coherent(ctxTokens, order, value, recency, latest)
  BY CacheParts DEF Replace
<1>2. Coherent([ctxTokens EXCEPT ![c] = e], ToFront(e, order),
               [value EXCEPT ![e] = [userID |-> c, token |-> t]],
               ToFront(c, recency), [latest EXCEPT ![c] = t])
  BY <1>1, UseKeepsCoherent
<1>3. [ctxTokens EXCEPT ![c] = e] = ctxTokens
  BY CacheParts
<1>4. Len(order') <= MaxContextTokens
  BY <1>1, MovedLength DEF Replace
<1> QED
  BY <1>2, <1>3, <1>4 DEF Replace, Used, MoveToFront, CacheInv

LEMMA InsertStep ==
    ASSUME CacheInv, NEW c \in Chats, NEW t \in TokenSet, NEW e \in Elements,
           Insert(c, t, e), Used(c), latest' = [latest EXCEPT ![c] = t]
    PROVE  CacheInv'
<1> DEFINE m == [ctxTokens EXCEPT ![c] = e]
           s == ToFront(e, order)
           v == [value EXCEPT ![e] = [userID |-> c, token |-> t]]
<1>1. ctxTokens[c] = Nil /\ e \notin ToSet(order) /\ value' = v
  BY DEF Insert
<1>2. Coherent(m, s, v, recency', latest')
  BY <1>1, CacheParts, UseKeepsCoherent DEF Used
<1>3. s = <<e>> \o order /\ Len(s) = Len(order) + 1
  BY <1>1, CacheParts, FrontedOrder, WithoutAbsent DEF ToFront
<1>4. Len(order) \in Nat /\ Len(order) <= MaxContextTokens
  BY CacheParts DEF CacheInv
<1>5. CASE ~ (Len(order) + 1 > MaxContextTokens)
  <2>1. ctxTokens' = m /\ order' = s
    BY <1>3, <1>5 DEF Insert
  <2> QED
    BY <1>1, <1>2, <1>3, <1>4, <1>5, <2>1, LimitAssumption DEF CacheInv
<1>6. CASE Len(order) + 1 > MaxContextTokens
  <2> DEFINE o == Last(s)
  <2>1. Coherent([m EXCEPT ![v[o].userID] = Nil], Front(s), v, recency', latest')
    BY <1>2, <1>3, <1>6, EvictionKeepsCoherent
  <2>2. order' = Front(s) /\ Len(order') <= MaxContextTokens
    <3>1. order' = Front(s)
      BY <1>3, <1>6 DEF Insert
    <3>2. s \in Seq(Elements) /\ IsInjective(s) /\ Len(s) > 0
      BY <1>2, <1>3, <1>4 DEF Coherent, CacheTypes
    <3>3. Len(Front(s)) = Len(s) - 1
      BY <3>2, FrontOrder
    <3> QED
      BY <1>3, <1>4, <3>1, <3>3
  <2>3. o # e /\ o \in Elements
    <3>1. s[1] = e /\ s \in Seq(Elements) /\ IsInjective(s)
      BY CacheParts, Fronted, FrontedOrder
    <3>2. Len(s) \in 1..Len(s) /\ 1 \in 1..Len(s) /\ Len(s) # 1
      BY <1>3, <1>4, <1>6, LimitAssumption
    <3>3. DOMAIN s = 1..Len(s)
      BY <3>1, LenProperties
    <3> QED
      BY <3>1, <3>2, <3>3, ElementOfSeq DEF Last, IsInjective
  <2>4. v[o] = value[o]
    BY <2>3, CacheParts
  <2>5. ctxTokens' = [m EXCEPT ![v[o].userID] = Nil]
    <3>1. ctxTokens' = [ctxTokens EXCEPT ![c] = e, ![value[o].userID] = Nil]
      BY <1>3, <1>6 DEF Insert
    <3> QED
      BY <2>4, <3>1
  <2> QED
    BY <1>1, <2>1, <2>2, <2>5 DEF CacheInv
<1> QED
  BY <1>5, <1>6

LEMMA StoreStep ==
    ASSUME CacheInv, NEW c \in Chats, NEW t \in TokenSet, Store(c, t)
    PROVE  CacheInv'
BY ReplaceStep, InsertStep DEF Store

LEMMA LookUpStep ==
    ASSUME CacheInv, NEW c \in Chats, LookUp(c)
    PROVE  CacheInv'
<1> DEFINE e == ctxTokens[c]
           t == latest[c]
<1>1. CASE e = Nil
  BY <1>1 DEF LookUp, cacheVars, historyVars, CacheInv
<1>2. CASE e # Nil
  <2>1. /\ e \in Elements /\ t \in TokenSet
        /\ value[e].userID = c /\ value[e].token = t
        /\ Coherent(ctxTokens, order, value, recency, latest)
    BY <1>2, CacheParts
  <2>2. Coherent([ctxTokens EXCEPT ![c] = e], ToFront(e, order),
                 [value EXCEPT ![e] = [userID |-> c, token |-> t]],
                 ToFront(c, recency), [latest EXCEPT ![c] = t])
    BY <2>1, UseKeepsCoherent
  <2>3. value[e] = [userID |-> c, token |-> t]
    BY <2>1, CacheParts
  <2>4. /\ [ctxTokens EXCEPT ![c] = e] = ctxTokens
        /\ [value EXCEPT ![e] = [userID |-> c, token |-> t]] = value
        /\ [latest EXCEPT ![c] = t] = latest
    BY <2>1, <2>3, CacheParts
  <2>5. Len(order') <= MaxContextTokens
    BY <1>2, MovedLength DEF LookUp
  <2> QED
    BY <1>2, <2>2, <2>4, <2>5 DEF LookUp, Used, MoveToFront, CacheInv
<1> QED
  BY <1>1, <1>2

LEMMA ForgetStep ==
    ASSUME CacheInv, NEW c \in Chats, Forget(c)
    PROVE  CacheInv'
<1>1. /\ Coherent(ctxTokens, order, value, recency, latest)
      /\ order \in Seq(Elements) /\ IsInjective(order) /\ Len(order) \in Nat
      /\ Len(order) <= MaxContextTokens
  BY CacheParts DEF CacheInv
<1>2. CASE ctxTokens[c] = Nil
  <2>1. UNCHANGED cacheVars /\ latest' = [latest EXCEPT ![c] = NoToken] /\ recency' = recency
    BY <1>2 DEF Forget
  <2>2. CacheTypes(ctxTokens, order, value, recency, latest')
    BY <1>1, <2>1 DEF Coherent, CacheTypes, TokenSet
  <2>3. Fresh(order, value, latest')
    BY <1>1, <1>2, <2>1, CacheParts, ElementOfSeq, InToSet, NilAssumption
    DEF Coherent, Fresh, Linked
  <2>4. Kept(ctxTokens, value, recency, latest')
    <3>1. \A i \in DOMAIN recency : recency[i] \in Chats
      BY CacheParts, LenProperties, ElementOfSeq
    <3> QED
      BY <1>1, <1>2, <2>1, <3>1, CacheParts DEF Coherent, Kept, TokenOf
  <2> QED
    BY <1>1, <2>1, <2>2, <2>3, <2>4 DEF CacheInv, Coherent, cacheVars
<1>3. CASE ctxTokens[c] # Nil
  <2>1. Coherent([ctxTokens EXCEPT ![c] = Nil], Without(order, ctxTokens[c]), value, recency,
                 [latest EXCEPT ![c] = NoToken])
    BY <1>1, <1>3, RemovalKeepsCoherent
  <2>2. Len(Without(order, ctxTokens[c])) = Len(order) - 1
    BY <1>1, <1>3, CacheParts, RemovedOrder
  <2>3. Len(order) - 1 <= MaxContextTokens
    BY <1>1, LimitAssumption
  <2> QED
    BY <1>3, <2>1, <2>2, <2>3 DEF Forget, CacheInv
<1> QED
  BY <1>2, <1>3

LEMMA CacheStep == CacheInv /\ [Next]_vars => CacheInv'
<1> SUFFICES ASSUME CacheInv, [Next]_vars PROVE CacheInv'
  OBVIOUS
<1>0. CASE UNCHANGED <<cacheVars, historyVars>>
  BY <1>0 DEF cacheVars, historyVars, CacheInv
<1>1. ASSUME NEW c \in Chats, NEW t \in TokenSet, SetContextToken(c, t) PROVE CacheInv'
  BY <1>1, StoreStep, ForgetStep DEF SetContextToken
<1>2. ASSUME NEW c \in Chats, ContextToken(c) \/ ForgetContextToken(c) PROVE CacheInv'
  BY <1>2, LookUpStep, ForgetStep DEF ContextToken, ForgetContextToken
<1>3. ASSUME NEW h \in Handlers, NEW c \in Chats, NEW t \in TokenSet, Dispatch(h, c, t)
      PROVE  CacheInv'
  BY <1>0, <1>3, StoreStep DEF Dispatch
<1>4. ASSUME NEW h \in Handlers, NEW c \in Chats, Send(h, c) PROVE CacheInv'
  BY <1>0, <1>4, LookUpStep DEF Send
<1>5. ASSUME NEW h \in Handlers, HandlerReturns(h) PROVE CacheInv'
  BY <1>0, <1>5 DEF HandlerReturns
<1>6. CASE UNCHANGED vars
  BY <1>0, <1>6 DEF vars
<1> QED
  BY <1>1, <1>2, <1>3, <1>4, <1>5, <1>6 DEF Next, TokenSet

\* What the cache returns is a token, whatever the chat.
LEMMA CachedIsToken ==
    ASSUME CacheInv, NEW c \in Chats
    PROVE  Cached(c) \in TokenSet
BY CacheParts DEF Cached, TokenSet

LEMMA HandlerStep == CacheInv /\ HandlerInv /\ [Next]_vars => HandlerInv'
<1> SUFFICES ASSUME CacheInv, HandlerInv, [Next]_vars PROVE HandlerInv'
  OBVIOUS
<1> USE DEF HandlerInv, ReplyKeepsItsToken
<1>0. CASE UNCHANGED handler
  BY <1>0
<1>1. ASSUME NEW h \in Handlers, NEW c \in Chats, NEW t \in TokenSet, Dispatch(h, c, t)
      PROVE  HandlerInv'
  BY <1>1 DEF Dispatch, TokenSet
<1>2. ASSUME NEW h \in Handlers, NEW c \in Chats, Send(h, c) PROVE HandlerInv'
  <2>1. CASE handler[h].chat = c
    <3>1. handler' = [handler EXCEPT ![h].sent = ContextTokenFor(h, c)]
      BY <1>2, <2>1 DEF Send
    <3>2. ContextTokenFor(h, c) \in TokenSet
      BY CachedIsToken DEF ContextTokenFor
    <3>3. handler[h].token # NoToken => ContextTokenFor(h, c) = handler[h].token
      BY <2>1 DEF ContextTokenFor
    <3> QED
      BY <3>1, <3>2, <3>3
  <2>2. CASE handler[h].chat # c
    BY <1>0, <1>2, <2>2 DEF Send
  <2> QED
    BY <2>1, <2>2
<1>3. ASSUME NEW h \in Handlers, HandlerReturns(h) PROVE HandlerInv'
  BY <1>3 DEF HandlerReturns, Idle, TokenSet
<1>4. ASSUME NEW c \in Chats, NEW t, SetContextToken(c, t) PROVE HandlerInv'
  BY <1>0, <1>4 DEF SetContextToken
<1>5. ASSUME NEW c \in Chats, ContextToken(c) \/ ForgetContextToken(c) PROVE HandlerInv'
  BY <1>0, <1>5 DEF ContextToken, ForgetContextToken
<1>6. CASE UNCHANGED vars
  BY <1>0, <1>6 DEF vars
<1> QED
  BY <1>1, <1>2, <1>3, <1>4, <1>5, <1>6 DEF Next, TokenSet

LEMMA InvHolds == Spec => [](CacheInv /\ HandlerInv)
BY InvInit, CacheStep, HandlerStep, PTL DEF Spec
-----------------------------------------------------------------------------
(* The variables keep their types: the list never holds more than the      *)
(* limit.                                                                  *)
THEOREM TypesKept == Spec => []TypeOK
<1>1. CacheInv /\ HandlerInv => TypeOK
  BY DEF CacheInv, Coherent, CacheTypes, HandlerInv, TypeOK, TokenSet
<1> QED
  BY <1>1, InvHolds, PTL

(* The map and the list stay one structure through replacements, hits,     *)
(* evictions and removals in any order.                                    *)
THEOREM OneStructure == Spec => []MapMatchesList
<1>1. CacheInv => MapMatchesList
  BY DEF CacheInv, Coherent, CacheTypes, Linked, IsInjective, MapMatchesList
<1> QED
  BY <1>1, InvHolds, PTL

(* The MaxContextTokens chats used last are in the cache, with their latest*)
(* tokens, unless they were removed: eviction is least recently used.      *)
THEOREM LeastRecentlyUsedGoes == Spec => []RecentlyUsedKept
<1>1. CacheInv => RecentlyUsedKept
  BY DEF CacheInv, Coherent, Kept, TokenOf, RecentlyUsedKept, Cached
<1> QED
  BY <1>1, InvHolds, PTL

(* What the cache returns for a chat is never a token that was replaced or *)
(* removed.                                                                *)
THEOREM CacheIsNeverStale == Spec => []NeverStale
<1>1. CacheInv => NeverStale
  BY CacheParts DEF NeverStale, Cached
<1> QED
  BY <1>1, InvHolds, PTL

(* A reply to a message carries the token of that message, whatever has    *)
(* happened to the cache since.                                            *)
THEOREM RepliesKeepTheirToken == Spec => []ReplyKeepsItsToken
<1>1. HandlerInv => ReplyKeepsItsToken
  BY DEF HandlerInv
<1> QED
  BY <1>1, InvHolds, PTL
=============================================================================
