----------------------------- MODULE ListTheorems -----------------------------
(* What the operators on lists that the models share do, for lists of any   *)
(* length, and the two principles on natural numbers this rests on: every   *)
(* set of them has a least element, and induction, both stated of sets.     *)
EXTENDS Lists, SequenceTheorems, FiniteSetTheorems, WellFoundedInduction, TLAPS

-----------------------------------------------------------------------------
(* Natural numbers                                                          *)

(* The pairs of the order, which the library's theorems are about           *)
Below == OpToRel(<, Nat)

(* A set of natural numbers that is not empty has a least element.          *)
LEMMA LeastElement ==
  ASSUME NEW T, T \subseteq Nat, T # {}
  PROVE  \E x \in T : \A y \in T : x <= y
<1>1. IsWellFoundedOn(Below, Nat)
  BY NatLessThanWellFounded DEF Below
<1>2. \A x, y \in Nat : x < y => <<x, y>> \in Below
  BY DEF Below, OpToRel
<1>3. PICK x \in T : \A y \in T : ~(<<y, x>> \in Below)
  <2> HIDE DEF Below
  <2> QED BY <1>1, WFMin
<1>4. \A y \in T : x <= y
  <2> SUFFICES ASSUME NEW y \in T, y < x PROVE FALSE
    OBVIOUS
  <2> QED BY <1>2, <1>3
<1> QED BY <1>4

(* The index a community operator picks with Min                            *)
LEMMA MinIsLeast ==
  ASSUME NEW T, T \subseteq Nat, T # {}
  PROVE  Min(T) \in T /\ \A y \in T : Min(T) <= y
BY LeastElement DEF Min

(* Induction: a set that has 0 and the successor of each of its elements    *)
LEMMA SetInduction ==
  ASSUME NEW T, T \subseteq Nat, 0 \in T, \A n \in T : n + 1 \in T
  PROVE  T = Nat
<1> SUFFICES ASSUME Nat \ T # {} PROVE FALSE
  OBVIOUS
<1>1. PICK x \in Nat \ T : \A y \in Nat \ T : x <= y
  BY LeastElement
<1>2. x - 1 \in Nat /\ x - 1 < x
  BY <1>1
<1>3. x - 1 \in T
  BY <1>1, <1>2
<1> QED BY <1>1, <1>2, <1>3

-----------------------------------------------------------------------------
(* Taking an element out of a list, and putting one into it                 *)

LEMMA RemoveAtElements ==
  ASSUME NEW S, NEW s \in Seq(S), NEW k \in 1..Len(s)
  PROVE  /\ RemoveAt(s, k) \in Seq(S) /\ Len(RemoveAt(s, k)) = Len(s) - 1
         /\ \A j \in 1..Len(s) - 1 : RemoveAt(s, k)[j] = IF j < k THEN s[j] ELSE s[j + 1]
<1> DEFINE a == SubSeq(s, 1, k - 1)
           b == SubSeq(s, k + 1, Len(s))
<1>1. a \in Seq(S) /\ Len(a) = k - 1 /\ \A j \in 1..k - 1 : a[j] = s[j]
  OBVIOUS
<1>2. b \in Seq(S) /\ Len(b) = Len(s) - k /\ \A j \in 1..Len(s) - k : b[j] = s[k + j]
  OBVIOUS
<1> HIDE DEF a, b
<1>3. /\ a \o b \in Seq(S) /\ Len(a \o b) = Len(s) - 1
      /\ \A j \in 1..Len(s) - 1 : (a \o b)[j] = IF j <= k - 1 THEN a[j] ELSE b[j - (k - 1)]
  BY <1>1, <1>2, ConcatProperties
<1>4. ASSUME NEW j \in 1..Len(s) - 1
      PROVE  (a \o b)[j] = IF j < k THEN s[j] ELSE s[j + 1]
  <2>1. CASE j < k
    BY <2>1, <1>1, <1>3
  <2>2. CASE ~(j < k)
    <3>1. j - (k - 1) \in 1..Len(s) - k /\ k + (j - (k - 1)) = j + 1
      BY <2>2
    <3> QED BY <2>2, <3>1, <1>2, <1>3
  <2> QED BY <2>1, <2>2
<1> QED BY <1>3, <1>4 DEF RemoveAt, a, b

(* Without repetitions the element is gone, and the rest is as it was.      *)
LEMMA RemoveAtRemoves ==
  ASSUME NEW S, NEW s \in Seq(S), IsInjective(s), NEW k \in DOMAIN s
  PROVE  /\ RemoveAt(s, k) \in Seq(S) /\ IsInjective(RemoveAt(s, k))
         /\ ToSet(RemoveAt(s, k)) = ToSet(s) \ {s[k]}
<1> DEFINE r == RemoveAt(s, k)
<1>1. /\ r \in Seq(S) /\ DOMAIN r = 1..Len(s) - 1 /\ DOMAIN s = 1..Len(s) /\ Len(s) \in Nat
      /\ \A j \in 1..Len(s) - 1 : r[j] = IF j < k THEN s[j] ELSE s[j + 1]
  BY RemoveAtElements
<1> HIDE DEF r
<1>2. \A i, j \in DOMAIN s : s[i] = s[j] => i = j
  BY DEF IsInjective
<1>3. IsInjective(r)
  <2> SUFFICES ASSUME NEW i \in DOMAIN r, NEW j \in DOMAIN r, r[i] = r[j] PROVE i = j
    BY DEF IsInjective
  <2>1. i \in DOMAIN s /\ j \in DOMAIN s /\ i + 1 \in DOMAIN s /\ j + 1 \in DOMAIN s
    BY <1>1
  <2> QED BY <1>1, <1>2, <2>1
<1>4. \A j \in DOMAIN r : r[j] \in ToSet(s) \ {s[k]}
  <2> SUFFICES ASSUME NEW j \in DOMAIN r PROVE r[j] \in ToSet(s) \ {s[k]}
    OBVIOUS
  <2>1. PICK i \in DOMAIN s : r[j] = s[i] /\ i # k
    BY <1>1
  <2> QED BY <1>2, <2>1 DEF ToSet
<1>5. \A i \in DOMAIN s : i # k => \E j \in DOMAIN r : r[j] = s[i]
  <2> SUFFICES ASSUME NEW i \in DOMAIN s, i # k PROVE \E j \in DOMAIN r : r[j] = s[i]
    OBVIOUS
  <2>1. CASE i < k
    BY <1>1, <2>1
  <2>2. CASE i > k
    <3>1. i - 1 \in DOMAIN r /\ r[i - 1] = s[i]
      BY <1>1, <2>2
    <3> QED BY <3>1
  <2> QED BY <1>1, <2>1, <2>2
<1>6. ToSet(r) \subseteq ToSet(s) \ {s[k]}
  BY <1>4 DEF ToSet
<1>7. ToSet(s) \ {s[k]} \subseteq ToSet(r)
  BY <1>5 DEF ToSet
<1> QED BY <1>1, <1>3, <1>6, <1>7 DEF r

LEMMA InsertAtElements ==
  ASSUME NEW S, NEW s \in Seq(S), NEW e \in S, NEW k \in 1..Len(s) + 1
  PROVE  /\ InsertAt(s, k, e) \in Seq(S) /\ Len(InsertAt(s, k, e)) = Len(s) + 1
         /\ \A j \in 1..Len(s) + 1 :
               InsertAt(s, k, e)[j] = IF j < k THEN s[j] ELSE IF j = k THEN e ELSE s[j - 1]
<1> DEFINE a == SubSeq(s, 1, k - 1)
           b == SubSeq(s, k, Len(s))
<1>1. a \in Seq(S) /\ Len(a) = k - 1 /\ \A j \in 1..k - 1 : a[j] = s[j]
  OBVIOUS
<1>2. b \in Seq(S) /\ Len(b) = Len(s) - k + 1 /\ \A j \in 1..Len(s) - k + 1 : b[j] = s[k + j - 1]
  OBVIOUS
<1>3. <<e>> \in Seq(S) /\ Len(<<e>>) = 1 /\ <<e>>[1] = e
  OBVIOUS
<1> HIDE DEF a, b
<1>4. /\ a \o <<e>> \in Seq(S) /\ Len(a \o <<e>>) = k
      /\ \A j \in 1..k : (a \o <<e>>)[j] = IF j < k THEN s[j] ELSE e
  BY <1>1, <1>3
<1> DEFINE c == a \o <<e>>
<1> HIDE DEF c
<1>5. c \in Seq(S) /\ Len(c) = k /\ \A j \in 1..k : c[j] = IF j < k THEN s[j] ELSE e
  BY <1>4 DEF c
<1>6. /\ c \o b \in Seq(S) /\ Len(c \o b) = Len(s) + 1
      /\ \A j \in 1..Len(s) + 1 : (c \o b)[j] = IF j <= k THEN c[j] ELSE b[j - k]
  BY <1>2, <1>5, ConcatProperties
<1>7. ASSUME NEW j \in 1..Len(s) + 1
      PROVE  (c \o b)[j] = IF j < k THEN s[j] ELSE IF j = k THEN e ELSE s[j - 1]
  <2>1. CASE j <= k
    BY <2>1, <1>5, <1>6
  <2>2. CASE ~(j <= k)
    <3>1. (c \o b)[j] = b[j - k]
      BY <2>2, <1>6
    <3>2. Len(s) \in Nat /\ j \in Int /\ k \in Int
      OBVIOUS
    <3>3. j - k \in 1..Len(s) - k + 1 /\ k + (j - k) - 1 = j - 1 /\ j # k
      BY <2>2, <3>2
    <3> QED BY <2>2, <3>1, <3>3, <1>2
  <2> QED BY <2>1, <2>2
<1> QED BY <1>6, <1>7 DEF InsertAt, a, b, c

(* The list without its first element                                       *)
LEMMA TailElements ==
  ASSUME NEW S, NEW s \in Seq(S), s # <<>>
  PROVE  /\ Tail(s) \in Seq(S) /\ Head(s) = s[1] /\ 1 \in DOMAIN s /\ Head(s) \in S
         /\ DOMAIN s \subseteq Nat /\ DOMAIN Tail(s) \subseteq Nat
         /\ \A k \in DOMAIN Tail(s) : k >= 1 /\ k + 1 \in DOMAIN s /\ Tail(s)[k] = s[k + 1]
         /\ \A k \in DOMAIN s : k = 1 \/ (k - 1 \in DOMAIN Tail(s) /\ Tail(s)[k - 1] = s[k])
<1>1. Len(s) \in Nat /\ Len(s) >= 1 /\ DOMAIN s = 1..Len(s)
  OBVIOUS
<1>2. /\ Tail(s) \in Seq(S) /\ DOMAIN Tail(s) = 1..Len(s) - 1
      /\ \A j \in 1..Len(s) - 1 : Tail(s)[j] = s[j + 1]
  OBVIOUS
<1>3. \A k \in 1..Len(s) - 1 : k \in Nat /\ k >= 1 /\ k + 1 \in 1..Len(s)
  BY <1>1
<1>4. \A k \in 1..Len(s) : k \in Nat /\ (k = 1 \/ (k - 1 \in 1..Len(s) - 1 /\ (k - 1) + 1 = k))
  BY <1>1
<1>5. Head(s) = s[1] /\ 1 \in 1..Len(s) /\ Head(s) \in S
  BY <1>1
<1> QED BY <1>1, <1>2, <1>3, <1>4, <1>5

(* Without members it is empty.                                             *)
LEMMA EmptyList ==
  ASSUME NEW S, NEW s \in Seq(S)
  PROVE  ToSet(s) = {} <=> s = <<>>
<1>1. Len(s) \in Nat /\ DOMAIN s = 1..Len(s) /\ (Len(s) = 0 <=> s = <<>>)
  OBVIOUS
<1>2. CASE Len(s) = 0
  <2>1. DOMAIN s = {}
    BY <1>1, <1>2
  <2> QED BY <1>1, <1>2, <2>1 DEF ToSet
<1>3. CASE Len(s) # 0
  <2>1. 1 \in DOMAIN s
    BY <1>1, <1>3
  <2> QED BY <1>1, <1>3, <2>1 DEF ToSet
<1> QED BY <1>2, <1>3

(* Whose members are those of the rest and the first                        *)
LEMMA HeadAndTail ==
  ASSUME NEW S, NEW s \in Seq(S), s # <<>>
  PROVE  ToSet(s) = {Head(s)} \cup ToSet(Tail(s))
<1>1. /\ Head(s) = s[1] /\ 1 \in DOMAIN s
      /\ \A k \in DOMAIN Tail(s) : k + 1 \in DOMAIN s /\ Tail(s)[k] = s[k + 1]
      /\ \A k \in DOMAIN s : k = 1 \/ (k - 1 \in DOMAIN Tail(s) /\ Tail(s)[k - 1] = s[k])
  BY TailElements
<1>2. ToSet(s) \subseteq {Head(s)} \cup ToSet(Tail(s))
  BY <1>1 DEF ToSet
<1>3. {Head(s)} \cup ToSet(Tail(s)) \subseteq ToSet(s)
  BY <1>1 DEF ToSet
<1> QED BY <1>2, <1>3

LEMMA InsertAtMembers ==
  ASSUME NEW S, NEW s \in Seq(S), NEW e \in S, NEW k \in 1..Len(s) + 1
  PROVE  ToSet(InsertAt(s, k, e)) = ToSet(s) \cup {e}
<1>0. /\ InsertAt(s, k, e) \in Seq(S) /\ Len(InsertAt(s, k, e)) = Len(s) + 1
      /\ \A j \in 1..Len(s) + 1 :
            InsertAt(s, k, e)[j] = IF j < k THEN s[j] ELSE IF j = k THEN e ELSE s[j - 1]
  BY InsertAtElements, SMTT(60)
<1> SUFFICES ASSUME NEW t \in Seq(S), Len(t) = Len(s) + 1,
                    \A j \in 1..Len(s) + 1 : t[j] = IF j < k THEN s[j] ELSE IF j = k THEN e ELSE s[j - 1]
             PROVE  ToSet(t) = ToSet(s) \cup {e}
  BY <1>0
<1>2. Len(s) \in Nat /\ k \in Nat /\ DOMAIN s = 1..Len(s) /\ DOMAIN t = 1..Len(s) + 1
  OBVIOUS
<1>3. k \in DOMAIN t /\ t[k] = e
  BY <1>2
<1>4. \A j \in DOMAIN t : t[j] = e \/ (j \in DOMAIN s /\ t[j] = s[j]) \/ (j - 1 \in DOMAIN s /\ t[j] = s[j - 1])
  BY <1>2
<1>5. \A j \in DOMAIN s : (j \in DOMAIN t /\ t[j] = s[j]) \/ (j + 1 \in DOMAIN t /\ t[j + 1] = s[j])
  <2> SUFFICES ASSUME NEW j \in DOMAIN s
               PROVE  (j \in DOMAIN t /\ t[j] = s[j]) \/ (j + 1 \in DOMAIN t /\ t[j + 1] = s[j])
    OBVIOUS
  <2>1. j \in Nat /\ j \in DOMAIN t /\ j + 1 \in DOMAIN t /\ (j + 1) - 1 = j
    BY <1>2
  <2>2. CASE j < k
    BY <1>2, <2>1, <2>2
  <2>3. CASE ~(j < k)
    <3>1. ~(j + 1 < k) /\ j + 1 # k
      BY <1>2, <2>1, <2>3
    <3> QED BY <1>2, <2>1, <3>1
  <2> QED BY <2>2, <2>3
<1>6. ToSet(t) \subseteq ToSet(s) \cup {e}
  BY <1>4 DEF ToSet
<1>7. ToSet(s) \cup {e} \subseteq ToSet(t)
  BY <1>3, <1>5 DEF ToSet
<1> QED BY <1>6, <1>7

(* A new first element                                                      *)
LEMMA PrependElements ==
  ASSUME NEW S, NEW s \in Seq(S), NEW e \in S
  PROVE  /\ <<e>> \o s \in Seq(S) /\ ToSet(<<e>> \o s) = ToSet(s) \cup {e}
         /\ IsInjective(s) /\ e \notin ToSet(s) => IsInjective(<<e>> \o s)
<1> DEFINE t == <<e>> \o s
<1>1. /\ t \in Seq(S) /\ Len(t) = Len(s) + 1 /\ t[1] = e
      /\ \A k \in 1..Len(s) : t[k + 1] = s[k]
  OBVIOUS
<1> HIDE DEF t
<1>2. Len(s) \in Nat /\ DOMAIN s = 1..Len(s) /\ DOMAIN t = 1..Len(s) + 1
  BY <1>1
<1>3. 1 \in DOMAIN t /\ \A k \in DOMAIN s : k + 1 \in DOMAIN t /\ t[k + 1] = s[k]
  BY <1>1, <1>2
<1>4. \A k \in DOMAIN t : k = 1 \/ (k - 1 \in DOMAIN s /\ t[k] = s[k - 1])
  <2> SUFFICES ASSUME NEW k \in DOMAIN t, k # 1 PROVE k - 1 \in DOMAIN s /\ t[k] = s[k - 1]
    OBVIOUS
  <2>1. k - 1 \in 1..Len(s) /\ (k - 1) + 1 = k
    BY <1>2
  <2> QED BY <1>1, <1>2, <2>1
<1>5. ToSet(t) = ToSet(s) \cup {e}
  BY <1>1, <1>3, <1>4 DEF ToSet
<1>6. ASSUME IsInjective(s), e \notin ToSet(s), NEW j \in DOMAIN t, NEW k \in DOMAIN t, t[j] = t[k]
      PROVE  j = k
  <2>1. \A i \in DOMAIN s : s[i] # e
    BY <1>6 DEF ToSet
  <2>2. j \in Nat /\ k \in Nat
    BY <1>2
  <2>3. CASE j # 1 /\ k # 1
    <3>1. j - 1 = k - 1
      BY <1>4, <1>6, <2>3 DEF IsInjective
    <3> QED BY <2>2, <3>1
  <2> QED BY <1>1, <1>4, <1>6, <2>1, <2>3
<1> QED BY <1>1, <1>5, <1>6 DEF t, IsInjective

(* A new last element                                                       *)
LEMMA AppendElements ==
  ASSUME NEW S, NEW s \in Seq(S), NEW e \in S
  PROVE  /\ Append(s, e) \in Seq(S) /\ Len(Append(s, e)) = Len(s) + 1
         /\ ToSet(Append(s, e)) = ToSet(s) \cup {e}
         /\ IsInjective(s) /\ e \notin ToSet(s) => IsInjective(Append(s, e))
<1> DEFINE t == Append(s, e)
           n == Len(s)
<1>1. n \in Nat /\ DOMAIN s = 1..n /\ t \in Seq(S) /\ Len(t) = n + 1 /\ DOMAIN t = 1..n + 1
  OBVIOUS
<1>2. t[n + 1] = e /\ \A k \in 1..n : t[k] = s[k]
  OBVIOUS
<1> HIDE DEF t, n
<1>3. \A k \in 1..n + 1 : k = n + 1 \/ k \in 1..n
  BY <1>1
<1>4. n + 1 \in 1..n + 1 /\ \A k \in 1..n : k \in 1..n + 1
  BY <1>1
<1>5. ToSet(t) = ToSet(s) \cup {e}
  BY <1>1, <1>2, <1>3, <1>4 DEF ToSet
<1>6. ASSUME IsInjective(s), e \notin ToSet(s), NEW j \in DOMAIN t, NEW k \in DOMAIN t, t[j] = t[k]
      PROVE  j = k
  <2>1. \A i \in 1..n : s[i] # e
    BY <1>1, <1>6 DEF ToSet
  <2>2. CASE j = n + 1 \/ k = n + 1
    BY <1>1, <1>2, <1>3, <1>6, <2>1, <2>2
  <2>3. CASE j \in 1..n /\ k \in 1..n
    BY <1>1, <1>2, <1>6, <2>3 DEF IsInjective
  <2> QED BY <1>1, <1>3, <1>6, <2>2, <2>3
<1>7. IsInjective(s) /\ e \notin ToSet(s) => IsInjective(t)
  BY <1>6 DEF IsInjective
<1> QED BY <1>1, <1>5, <1>7 DEF t, n

(* Two lists, one behind the other                                          *)
LEMMA ConcatElements ==
  ASSUME NEW S, NEW s \in Seq(S), NEW t \in Seq(S)
  PROVE  /\ s \o t \in Seq(S) /\ Len(s \o t) = Len(s) + Len(t)
         /\ ToSet(s \o t) = ToSet(s) \cup ToSet(t)
         /\ IsInjective(s) /\ IsInjective(t) /\ ToSet(s) \cap ToSet(t) = {} => IsInjective(s \o t)
<1> DEFINE u == s \o t
           m == Len(s)
           n == Len(t)
<1>1. /\ m \in Nat /\ DOMAIN s = 1..m /\ n \in Nat /\ DOMAIN t = 1..n
      /\ u \in Seq(S) /\ Len(u) = m + n /\ DOMAIN u = 1..m + n
  OBVIOUS
<1>2. \A k \in 1..m + n : u[k] = IF k <= m THEN s[k] ELSE t[k - m]
  BY ConcatProperties
<1> HIDE DEF u, m, n
<1>3. \A k \in 1..m : k \in 1..m + n /\ u[k] = s[k]
  BY <1>1, <1>2
<1>4. \A k \in 1..n : k + m \in 1..m + n /\ u[k + m] = t[k]
  BY <1>1, <1>2
<1>5. \A k \in 1..m + n : (k \in 1..m /\ u[k] = s[k]) \/ (k - m \in 1..n /\ u[k] = t[k - m])
  BY <1>1, <1>2
<1>6. ToSet(u) = ToSet(s) \cup ToSet(t)
  <2>1. ToSet(u) \subseteq ToSet(s) \cup ToSet(t)
    BY <1>1, <1>5 DEF ToSet
  <2>2. ToSet(s) \subseteq ToSet(u)
    BY <1>1, <1>3 DEF ToSet
  <2>3. ToSet(t) \subseteq ToSet(u)
    BY <1>1, <1>4 DEF ToSet
  <2> QED BY <2>1, <2>2, <2>3
<1>7. ASSUME IsInjective(s), IsInjective(t), ToSet(s) \cap ToSet(t) = {},
             NEW j \in DOMAIN u, NEW k \in DOMAIN u, u[j] = u[k]
      PROVE  j = k
  <2>1. \A a \in 1..m, b \in 1..n : s[a] # t[b]
    BY <1>1, <1>7 DEF ToSet
  <2>2. (j \in 1..m /\ u[j] = s[j]) \/ (j - m \in 1..n /\ u[j] = t[j - m])
    BY <1>1, <1>5
  <2>3. (k \in 1..m /\ u[k] = s[k]) \/ (k - m \in 1..n /\ u[k] = t[k - m])
    BY <1>1, <1>5
  <2>4. CASE j \in 1..m /\ k \in 1..m /\ s[j] = s[k]
    BY <1>1, <1>7, <2>4 DEF IsInjective
  <2>5. CASE j - m \in 1..n /\ k - m \in 1..n /\ t[j - m] = t[k - m]
    <3>1. j - m = k - m
      BY <1>1, <1>7, <2>5 DEF IsInjective
    <3>2. j \in Nat /\ k \in Nat
      BY <1>1
    <3> QED BY <1>1, <3>1, <3>2
  <2> QED BY <1>7, <2>1, <2>2, <2>3, <2>4, <2>5
<1>8. IsInjective(s) /\ IsInjective(t) /\ ToSet(s) \cap ToSet(t) = {} => IsInjective(u)
  BY <1>7 DEF IsInjective
<1> QED BY <1>1, <1>6, <1>8 DEF u, m, n

-----------------------------------------------------------------------------
(* Walks: recursion along a list                                            *)

(* What a walk has computed before it and after each element                *)
IsWalk(f, step, base, s) ==
    /\ f[0] = base
    /\ \A k \in 1..Len(s) : f[k] = step[<<f[k - 1], s[k]>>]

(* This exists, if a step is a function.  A definition by recursion means it, and its equation may be   *)
(* used then.                                                               *)
LEMMA WalkExists ==
  ASSUME NEW H, NEW S, NEW step \in [H \X S -> H], NEW base \in H, NEW s \in Seq(S)
  PROVE  \E f \in [0..Len(s) -> H] : IsWalk(f, step, base, s)
<1> DEFINE Walk(f, n) == /\ f \in [0..n -> H] /\ f[0] = base
                         /\ \A k \in 1..n : f[k] = step[<<f[k - 1], s[k]>>]
           T == {n \in Nat : n <= Len(s) => \E f : Walk(f, n)}
<1>1. 0 \in T
  <2>1. Walk([k \in 0..0 |-> base], 0)
    OBVIOUS
  <2> QED BY <2>1
<1>2. ASSUME NEW n \in T PROVE n + 1 \in T
  <2> SUFFICES ASSUME n + 1 <= Len(s) PROVE \E g : Walk(g, n + 1)
    OBVIOUS
  <2>0. n \in Nat /\ Len(s) \in Nat
    OBVIOUS
  <2>1. PICK f : Walk(f, n)
    BY <2>0
  <2>2. n + 1 \in 1..Len(s) /\ s[n + 1] \in S /\ f[n] \in H
    BY <2>0, <2>1
  <2> DEFINE new == step[<<f[n], s[n + 1]>>]
             g == [k \in 0..n + 1 |-> IF k = n + 1 THEN new ELSE f[k]]
  <2>3. new \in H
    BY <2>2
  <2> HIDE DEF new
  <2>4. g \in [0..n + 1 -> H]
    BY <2>0, <2>1, <2>3
  <2>5. g[0] = base /\ g[n + 1] = new /\ \A k \in 0..n : g[k] = f[k]
    BY <2>0, <2>1
  <2> HIDE DEF g
  <2>6. ASSUME NEW k \in 1..n + 1 PROVE g[k] = step[<<g[k - 1], s[k]>>]
    <3>1. k - 1 \in 0..n /\ g[k - 1] = f[k - 1]
      BY <2>0, <2>5
    <3>2. CASE k = n + 1
      BY <2>0, <2>5, <3>1, <3>2 DEF new
    <3>3. CASE k \in 1..n
      BY <2>0, <2>1, <2>5, <3>1, <3>3
    <3> QED BY <2>0, <3>2, <3>3
  <2> QED BY <2>4, <2>5, <2>6
<1> HIDE DEF Walk
<1>3. T = Nat
  BY <1>1, <1>2, SetInduction
<1>4. Len(s) \in Nat /\ Len(s) <= Len(s)
  OBVIOUS
<1>5. PICK f : Walk(f, Len(s))
  BY <1>3, <1>4
<1> QED BY <1>5 DEF Walk, IsWalk

(* What takes the same steps from the same beginning is the same walk.      *)
StepAlike(f, g, n) == f[0] = g[0] /\ \A k \in 1..n : f[k - 1] = g[k - 1] => f[k] = g[k]

LEMMA WalksAgree ==
  ASSUME NEW n \in Nat, NEW f, NEW g, StepAlike(f, g, n)
  PROVE  \A k \in 0..n : f[k] = g[k]
<1> DEFINE T == {k \in Nat : k <= n => f[k] = g[k]}
<1>1. 0 \in T
  BY DEF StepAlike
<1>2. ASSUME NEW k \in T PROVE k + 1 \in T
  <2> SUFFICES ASSUME k + 1 <= n PROVE f[k + 1] = g[k + 1]
    OBVIOUS
  <2>1. k + 1 \in 1..n /\ (k + 1) - 1 = k /\ f[k] = g[k]
    OBVIOUS
  <2> QED BY <2>1 DEF StepAlike
<1>3. T = Nat
  BY <1>1, <1>2, SetInduction
<1> QED BY <1>3

(* Without, as the walk computes it                                         *)
LEMMA WithoutElements ==
  ASSUME NEW S, NEW s \in Seq(S), NEW E
  PROVE  /\ Without(s, E) \in Seq(S) /\ Len(Without(s, E)) <= Len(s)
         /\ ToSet(Without(s, E)) = ToSet(s) \ E
         /\ IsInjective(s) => IsInjective(Without(s, E))
<1> DEFINE step == [x \in Seq(S) \X S |-> IF x[2] \in E THEN x[1] ELSE Append(x[1], x[2])]
           Equation(f) == f = [k \in 0..Len(s) |->
                               IF k = 0 THEN <<>>
                               ELSE IF s[k] \in E THEN f[k - 1] ELSE Append(f[k - 1], s[k])]
           kept == CHOOSE f : Equation(f)
<1>1. Len(s) \in Nat /\ DOMAIN s = 1..Len(s) /\ <<>> \in Seq(S)
  OBVIOUS
<1>2. \E f : Equation(f)
  <2>1. step \in [Seq(S) \X S -> Seq(S)]
    OBVIOUS
  <2> HIDE DEF step
  <2>2. PICK f \in [0..Len(s) -> Seq(S)] :
                /\ f[0] = <<>>
                /\ \A k \in 1..Len(s) : f[k] = step[<<f[k - 1], s[k]>>]
    <3> DEFINE none == <<>>
               H == Seq(S)
    <3>1. step \in [H \X S -> H] /\ none \in H
      BY <1>1, <2>1
    <3> HIDE DEF none, H, Equation, kept
    <3>2. \E f \in [0..Len(s) -> H] : IsWalk(f, step, none, s)
      BY <3>1, WalkExists
    <3> QED BY <3>2 DEF none, H, IsWalk
  <2>3. ASSUME NEW k \in 1..Len(s)
        PROVE  step[<<f[k - 1], s[k]>>] = IF s[k] \in E THEN f[k - 1] ELSE Append(f[k - 1], s[k])
    <3>1. f[k - 1] \in Seq(S) /\ s[k] \in S
      BY <1>1
    <3> QED BY <3>1 DEF step
  <2> DEFINE Then(k) == IF s[k] \in E THEN f[k - 1] ELSE Append(f[k - 1], s[k])
  <2>4. \A k \in 1..Len(s) : f[k] = Then(k)
    BY <2>2, <2>3
  <2>5. f = [k \in 0..Len(s) |-> IF k = 0 THEN <<>> ELSE Then(k)]
    <3> HIDE DEF Then
    <3>1. \A k \in 0..Len(s) : k = 0 \/ k \in 1..Len(s)
      BY <1>1
    <3>2. \A k \in 0..Len(s) : f[k] = IF k = 0 THEN <<>> ELSE Then(k)
      BY <2>2, <2>4, <3>1
    <3> QED BY <3>2
  <2> QED BY <2>5
<1>3. Equation(kept)
  BY <1>2
<1>4. Without(s, E) = kept[Len(s)]
  BY DEF Without
<1> HIDE DEF kept
<1>5. /\ kept[0] = <<>>
      /\ \A k \in 1..Len(s) : kept[k] = IF s[k] \in E THEN kept[k - 1] ELSE Append(kept[k - 1], s[k])
  <2> DEFINE Then(k) == IF s[k] \in E THEN kept[k - 1] ELSE Append(kept[k - 1], s[k])
  <2>1. kept = [k \in 0..Len(s) |-> IF k = 0 THEN <<>> ELSE Then(k)]
    BY <1>3
  <2> HIDE DEF Then
  <2>2. 0 \in 0..Len(s) /\ \A k \in 1..Len(s) : k \in 0..Len(s) /\ k # 0
    BY <1>1
  <2>3. kept[0] = <<>> /\ \A k \in 1..Len(s) : kept[k] = Then(k)
    BY <2>1, <2>2
  <2> QED BY <2>3 DEF Then
<1> HIDE DEF Equation
<1> DEFINE Kept(k) == /\ kept[k] \in Seq(S) /\ Len(kept[k]) <= k
                      /\ ToSet(kept[k]) = {s[j] : j \in 1..k} \ E
                      /\ IsInjective(s) => IsInjective(kept[k])
           T == {k \in Nat : k <= Len(s) => Kept(k)}
<1>6. 0 \in T
  <2>1. kept[0] \in Seq(S) /\ Len(kept[0]) <= 0 /\ DOMAIN kept[0] = {} /\ 1..0 = {}
    BY <1>5
  <2>2. ToSet(kept[0]) = {} /\ IsInjective(kept[0])
    BY <2>1 DEF ToSet, IsInjective
  <2> QED BY <2>1, <2>2
<1>7. ASSUME NEW n \in T PROVE n + 1 \in T
  <2> SUFFICES ASSUME n + 1 <= Len(s) PROVE Kept(n + 1)
    OBVIOUS
  <2>1. n \in Nat /\ n + 1 \in 1..Len(s) /\ (n + 1) - 1 = n /\ s[n + 1] \in S
    BY <1>1
  <2>2. Kept(n)
    BY <1>1, <2>1
  <2>3. kept[n + 1] = IF s[n + 1] \in E THEN kept[n] ELSE Append(kept[n], s[n + 1])
    BY <1>5, <2>1
  <2>4. {s[j] : j \in 1..n + 1} = {s[j] : j \in 1..n} \cup {s[n + 1]}
    <3>1. \A j \in 1..n + 1 : j \in 1..n \/ j = n + 1
      BY <2>1
    <3>2. n + 1 \in 1..n + 1 /\ \A j \in 1..n : j \in 1..n + 1
      BY <2>1
    <3> QED BY <3>1, <3>2
  <2>5. CASE s[n + 1] \in E
    <3>1. kept[n + 1] = kept[n]
      BY <2>3, <2>5
    <3>2. Len(kept[n]) \in Nat
      BY <2>2
    <3> QED BY <2>1, <2>2, <2>4, <2>5, <3>1, <3>2
  <2>6. CASE s[n + 1] \notin E
    <3>1. kept[n + 1] = Append(kept[n], s[n + 1])
      BY <2>3, <2>6
    <3>2. /\ kept[n + 1] \in Seq(S) /\ Len(kept[n + 1]) = Len(kept[n]) + 1
          /\ ToSet(kept[n + 1]) = ToSet(kept[n]) \cup {s[n + 1]}
          /\ IsInjective(kept[n]) /\ s[n + 1] \notin ToSet(kept[n]) => IsInjective(kept[n + 1])
      BY <2>1, <2>2, <3>1, AppendElements
    <3>3. Len(kept[n]) \in Nat
      BY <2>2
    <3>4. IsInjective(s) => s[n + 1] \notin {s[j] : j \in 1..n}
      <4> SUFFICES ASSUME IsInjective(s), NEW j \in 1..n, s[j] = s[n + 1] PROVE FALSE
        OBVIOUS
      <4>1. j \in DOMAIN s /\ n + 1 \in DOMAIN s /\ j # n + 1
        BY <1>1, <2>1
      <4> QED BY <4>1 DEF IsInjective
    <3> QED BY <2>1, <2>2, <2>4, <2>6, <3>2, <3>3, <3>4
  <2> QED BY <2>5, <2>6
<1> HIDE DEF Kept
<1>8. T = Nat
  BY <1>6, <1>7, SetInduction
<1>9. Kept(Len(s))
  BY <1>1, <1>8
<1> QED BY <1>1, <1>4, <1>9 DEF Kept, ToSet

(* What a walk along the list finds is a member of it and of the set, and   *)
(* it finds nothing only if there is no such member.                        *)
LEMMA FirstOfIsMember ==
  ASSUME NEW S, NEW list \in Seq(S), NEW E, NEW none
  PROVE  \/ FirstOf(list, E, none) \in ToSet(list) \cap E
         \/ FirstOf(list, E, none) = none /\ ToSet(list) \cap E = {}
<1> DEFINE found == {i \in DOMAIN list : list[i] \in E}
<1>1. found \subseteq Nat
  OBVIOUS
<1>2. CASE found = {}
  BY <1>2 DEF FirstOf, ToSet
<1>3. CASE found # {}
  <2>1. Min(found) \in found
    <3> HIDE DEF found
    <3> QED BY <1>1, <1>3, MinIsLeast
  <2>2. FirstOf(list, E, none) = list[Min(found)]
    BY <1>3 DEF FirstOf
  <2> QED BY <2>1, <2>2 DEF ToSet
<1> QED BY <1>2, <1>3

-----------------------------------------------------------------------------
(* How many members of a list are in a set                                  *)

Occurs(s, E) == Cardinality({k \in DOMAIN s : s[k] \in E})

LEMMA OccursIsNatural ==
  ASSUME NEW S, NEW s \in Seq(S), NEW E
  PROVE  IsFiniteSet({k \in DOMAIN s : s[k] \in E}) /\ Occurs(s, E) \in Nat
<1>1. IsFiniteSet(1..Len(s)) /\ DOMAIN s = 1..Len(s)
  BY FS_Interval
<1>2. {k \in DOMAIN s : s[k] \in E} \in SUBSET (1..Len(s))
  BY <1>1
<1> QED BY <1>1, <1>2, FS_Subset, FS_CardinalityType DEF Occurs

LEMMA NothingOccursInEmpty == ASSUME NEW E PROVE Occurs(<<>>, E) = 0
<1>1. {k \in DOMAIN <<>> : <<>>[k] \in E} = {}
  OBVIOUS
<1> QED BY <1>1, FS_EmptySet DEF Occurs

LEMMA OccursInAppend ==
  ASSUME NEW S, NEW s \in Seq(S), NEW e \in S, NEW E
  PROVE  Occurs(Append(s, e), E) = IF e \in E THEN Occurs(s, E) + 1 ELSE Occurs(s, E)
<1> DEFINE K == {k \in DOMAIN s : s[k] \in E}
           L == {k \in DOMAIN Append(s, e) : Append(s, e)[k] \in E}
           n == Len(s) + 1
<1>1. /\ DOMAIN Append(s, e) = 1..n /\ DOMAIN s = 1..Len(s) /\ Len(s) \in Nat
      /\ Append(s, e)[n] = e /\ \A k \in 1..Len(s) : Append(s, e)[k] = s[k]
  OBVIOUS
<1>2. IsFiniteSet(K) /\ n \notin K
  <2>1. IsFiniteSet(K)
    BY OccursIsNatural
  <2>2. n \notin DOMAIN s
    BY <1>1
  <2> QED BY <2>1, <2>2
<1>3. CASE e \in E
  <2>1. L = K \cup {n}
    BY <1>1, <1>3
  <2> QED BY <1>2, <1>3, <2>1, FS_AddElement DEF Occurs
<1>4. CASE e \notin E
  <2>1. L = K
    BY <1>1, <1>4
  <2> QED BY <1>4, <2>1 DEF Occurs
<1> QED BY <1>3, <1>4

LEMMA OccursInTail ==
  ASSUME NEW S, NEW s \in Seq(S), s # <<>>, NEW E
  PROVE  Occurs(s, E) = IF Head(s) \in E THEN Occurs(Tail(s), E) + 1 ELSE Occurs(Tail(s), E)
<1> DEFINE K == {k \in DOMAIN s : s[k] \in E}
           L == {k \in DOMAIN Tail(s) : Tail(s)[k] \in E}
           M == {k \in K : k # 1}
           f == [k \in L |-> k + 1]
<1>1. /\ Tail(s) \in Seq(S) /\ Head(s) = s[1] /\ 1 \in DOMAIN s
      /\ DOMAIN s \subseteq Nat /\ DOMAIN Tail(s) \subseteq Nat
      /\ \A k \in DOMAIN Tail(s) : k >= 1 /\ k + 1 \in DOMAIN s /\ Tail(s)[k] = s[k + 1]
      /\ \A k \in DOMAIN s : k = 1 \/ (k - 1 \in DOMAIN Tail(s) /\ Tail(s)[k - 1] = s[k])
  BY TailElements
<1>2. IsFiniteSet(K) /\ IsFiniteSet(L)
  BY <1>1, OccursIsNatural
<1>3. ExistsBijection(L, M)
  <2>1. \A k \in L : k \in Nat /\ k >= 1 /\ k + 1 \in M
    BY <1>1
  <2>2. f \in [L -> M]
    BY <2>1
  <2>3. \A k, l \in L : f[k] = f[l] => k = l
    BY <2>1
  <2>4. \A m \in M : m - 1 \in L /\ f[m - 1] = m
    BY <1>1
  <2>5. f \in Injection(L, M)
    BY <2>2, <2>3 DEF Injection, IsInjective
  <2>6. f \in Surjection(L, M)
    BY <2>2, <2>4 DEF Surjection
  <2> QED BY <2>5, <2>6 DEF ExistsBijection, Bijection
<1>4. Cardinality(M) = Cardinality(L)
  BY <1>2, <1>3, FS_Bijection
<1>5. M = K \ {1} /\ (1 \in K <=> Head(s) \in E)
  BY <1>1
<1>6. Cardinality(M) = IF 1 \in K THEN Cardinality(K) - 1 ELSE Cardinality(K)
  <2> HIDE DEF K, M
  <2> QED BY <1>2, <1>5, FS_RemoveElement
<1>7. Cardinality(K) \in Nat /\ Cardinality(L) \in Nat
  BY <1>2, FS_CardinalityType
<1> HIDE DEF K, L, M
<1>8. Cardinality(K) = IF Head(s) \in E THEN Cardinality(L) + 1 ELSE Cardinality(L)
  BY <1>4, <1>5, <1>6, <1>7
<1> QED BY <1>8 DEF Occurs, K, L

=============================================================================
