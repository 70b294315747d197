--------------------------- MODULE TaskListProofs ---------------------------
(***************************************************************************)
(* What the operations on linked lists do, for any set of tasks and of     *)
(* lists.  Housed is the shape they keep: every list runs from its head to *)
(* a null pointer without meeting a task twice, and each task is in the    *)
(* one list that h names as its home, or in none.                          *)
(***************************************************************************)
EXTENDS ReadyLists, WellFoundedInduction, FiniteSetTheorems, SequenceTheorems, TLAPS

Member(s, t) == \E i \in 1..Len(s) : s[i] = t
NoTwice(s) == \A i, j \in 1..Len(s) : s[i] = s[j] => i = j

(* The i-th element of a sequence, null behind its end. *)
At(s, i) == IF i \in 1..Len(s) THEN s[i] ELSE Null

Links(L) == [head : [L -> Tasks \cup {Null}], next : [Tasks -> Tasks \cup {Null}]]

(* Walking list l meets the tasks of s. *)
Linked(lk, l, s) == /\ s \in Seq(Tasks)
                    /\ lk.head[l] = At(s, 1)
                    /\ \A i \in 1..Len(s) : lk.next[s[i]] = At(s, i + 1)

Housed(lk, L, h) ==
  /\ lk \in Links(L)
  /\ \A l \in L : /\ Linked(lk, l, Chain(lk, l))
                  /\ NoTwice(Chain(lk, l))
                  /\ \A t \in Tasks : Member(Chain(lk, l), t) <=> h[t] = l

(* The sequence s with t behind its i-th element, or without that element. *)
Inserted(s, i, t) ==
  [j \in 1..Len(s) + 1 |-> IF j <= i THEN s[j] ELSE IF j = i + 1 THEN t ELSE s[j - 1]]
Without(s, i) == [j \in 1..Len(s) - 1 |-> IF j < i THEN s[j] ELSE s[j + 1]]

-----------------------------------------------------------------------------
(* Least and greatest numbers, for the searches and orders of the proofs.  *)

(* A non-empty set of naturals has a least element ... *)
LEMMA LeastNat ==
  ASSUME NEW T, T \subseteq Nat, T # {}
  PROVE  \E x \in T : \A y \in T : x <= y
<1>1. PICK x \in T : \A y \in T : ~ (<<y, x>> \in OpToRel(<, Nat))
  BY WFMin, NatLessThanWellFounded
<1>2. \A y \in T : ~ (y < x)
  BY <1>1 DEF OpToRel
<1>3. QED BY <1>2

(* ... and one that is bounded has a greatest. *)
LEMMA GreatestNat ==
  ASSUME NEW n \in Nat, NEW T, T \subseteq 0..n - 1, T # {}
  PROVE  \E x \in T : \A y \in T : y <= x
<1> DEFINE D == {n - x : x \in T}
<1>1. D \subseteq Nat /\ D # {}
  OBVIOUS
<1>2. PICK d \in D : \A e \in D : d <= e
  BY <1>1, LeastNat
<1>3. PICK x \in T : d = n - x
  OBVIOUS
<1>4. \A y \in T : n - x <= n - y
  BY <1>2, <1>3
<1>5. QED BY <1>4

-----------------------------------------------------------------------------
(* Recursive functions and sequences. *)

(* The functions on 0..K that start at a and go on by g: there is one ...   *)
Iterations(K, D, a, g) ==
  {f \in [0..K -> D] : f[0] = a /\ \A n \in 1..K : f[n] = g[f[n - 1]]}

LEMMA Iterates ==
  ASSUME NEW K \in Nat, NEW D, NEW a \in D, NEW g \in [D -> D]
  PROVE  Iterations(K, D, a, g) # {}
<1> DEFINE Good(m) == \E f \in [0..m -> D] : /\ f[0] = a
                                             /\ \A n \in 1..m : f[n] = g[f[n - 1]]
           T == {m \in 0..K : ~Good(m)}
<1>1. ASSUME T # {} PROVE FALSE
  <2>1. T \subseteq Nat
    OBVIOUS
  <2>2. PICK x \in T : \A y \in T : x <= y
    <3> HIDE DEF T
    <3>1. QED BY <1>1, <2>1, LeastNat
  <2>3. Good(0)
    <3> DEFINE f == [n \in 0..0 |-> a]
    <3>1. f \in [0..0 -> D] /\ f[0] = a /\ \A n \in 1..0 : f[n] = g[f[n - 1]]
      OBVIOUS
    <3>2. QED BY <3>1
  <2>4. x \in 1..K /\ x - 1 \in 0..K /\ Good(x - 1)
    <3>1. x \in 0..K /\ ~Good(x)
      OBVIOUS
    <3>2. x # 0
      <4> HIDE DEF Good
      <4>1. QED BY <3>1, <2>3
    <3>3. x \in 1..K /\ x - 1 \in 0..K /\ x - 1 < x
      BY <3>1, <3>2
    <3>4. x - 1 \notin T
      <4> HIDE DEF T
      <4>1. QED BY <2>2, <3>3
    <3>5. Good(x - 1)
      <4> HIDE DEF Good
      <4>1. QED BY <3>3, <3>4
    <3>6. QED BY <3>3, <3>5
  <2>5. PICK f \in [0..x - 1 -> D] : f[0] = a /\ \A n \in 1..x - 1 : f[n] = g[f[n - 1]]
    BY <2>4
  <2> DEFINE e == [n \in 0..x |-> IF n = x THEN g[f[x - 1]] ELSE f[n]]
  <2>6. x \in Int /\ x >= 1
    BY <2>4
  <2>7. e \in [0..x -> D]
    BY <2>5, <2>6
  <2>8. e[0] = a
    BY <2>5, <2>6
  <2>9. ASSUME NEW n \in 1..x PROVE e[n] = g[e[n - 1]]
    <3>1. CASE n = x
      BY <3>1, <2>6
    <3>2. CASE n # x
      BY <3>2, <2>5, <2>6
    <3>3. QED BY <3>1, <3>2
  <2>10. Good(x)
    <3> HIDE DEF e
    <3>1. QED BY <2>7, <2>8, <2>9
  <2>11. QED BY <2>10
<1>2. Good(K)
  <2> HIDE DEF Good
  <2>1. QED BY <1>1
<1>3. QED BY <1>2 DEF Iterations

(* ... and a property of all natural numbers up to K is proved by steps:   *)
(* S is the set of those that have it.                                     *)
LEMMA UpTo ==
  ASSUME NEW K \in Nat, NEW S, 0 \in S, \A n \in 1..K : n - 1 \in S => n \in S
  PROVE  0..K \subseteq S
<1> DEFINE T == (0..K) \ S
<1>1. ASSUME T # {} PROVE FALSE
  <2>1. T \subseteq Nat
    OBVIOUS
  <2>2. PICK x \in T : \A y \in T : x <= y
    <3> HIDE DEF T
    <3>1. QED BY <1>1, <2>1, LeastNat
  <2>3. x \in 0..K /\ x \notin S
    OBVIOUS
  <2>4. x \in 1..K
    BY <2>3
  <2>5. x - 1 \in 0..K /\ x - 1 \notin T
    <3>1. x - 1 \in 0..K /\ x - 1 < x
      BY <2>4
    <3> HIDE DEF T
    <3>2. QED BY <2>2, <2>4, <3>1
  <2>6. QED BY <2>3, <2>4, <2>5
<1>2. QED BY <1>1

LEMMA MakeSeq ==
  ASSUME NEW n \in Nat, NEW S, NEW f \in [1..n -> S]
  PROVE  f \in Seq(S) /\ Len(f) = n
OBVIOUS

LEMMA TypeOfSeq ==
  ASSUME NEW S, NEW s \in Seq(S)
  PROVE  /\ Len(s) \in Nat
         /\ \A i \in 1..Len(s) : s[i] \in S
BY LenProperties, ElementOfSeq

(* A list of distinct tasks is no longer than there are tasks. *)
LEMMA ShortEnough ==
  ASSUME NEW s \in Seq(Tasks), NoTwice(s)
  PROVE  /\ Cardinality(Tasks) \in Nat
         /\ Len(s) <= Cardinality(Tasks)
<1>1. Len(s) \in Nat /\ s \in [1..Len(s) -> Tasks]
  BY LenProperties
<1>2. s \in Injection(1..Len(s), Tasks)
  BY <1>1 DEF NoTwice, Injection, IsInjective
<1>3. Cardinality(1..Len(s)) <= Cardinality(Tasks)
  BY <1>2, FS_Injection, ListAssumption
<1>4. Cardinality(1..Len(s)) = Len(s)
  <2>1. Cardinality(1..Len(s)) = IF 1 > Len(s) THEN 0 ELSE Len(s) - 1 + 1
    BY <1>1, FS_Interval
  <2>2. QED BY <1>1, <2>1
<1>5. QED BY <1>3, <1>4, FS_CardinalityType, ListAssumption

-----------------------------------------------------------------------------
(* Walking a list. *)

(* The pointers that are read are those of the list, and null behind it. *)
LEMMA PointersOfList ==
  ASSUME NEW L, NEW lk \in Links(L), NEW l \in L, NEW s, Linked(lk, l, s), NoTwice(s)
  PROVE  /\ DOMAIN Pointers(lk, l) = 1..Cardinality(Tasks) + 1
         /\ \A n \in 1..Cardinality(Tasks) + 1 : Pointers(lk, l)[n] = At(s, n)
<1> DEFINE C == Cardinality(Tasks)
           D == Tasks \cup {Null}
           step == [p \in D |-> IF p = Null THEN Null ELSE lk.next[p]]
           head == lk.head[l]
           Walk(f) == f = [n \in 0..C |-> IF n = 0 THEN lk.head[l]
                                          ELSE LET p == f[n - 1]
                                               IN IF p = Null THEN Null ELSE lk.next[p]]
           pointer == CHOOSE f : Walk(f)
<1>1. C \in Nat /\ Len(s) \in Nat /\ Len(s) <= C
  BY ShortEnough, LenProperties DEF Linked
<1>2. step \in [D -> D] /\ head \in D
  BY DEF Links
<1>3. PICK f \in [0..C -> D] : f[0] = head /\ \A n \in 1..C : f[n] = step[f[n - 1]]
  <2>1. Iterations(C, D, head, step) # {}
    <3> HIDE DEF C, D, step, head
    <3>1. QED BY <1>1, <1>2, Iterates
  <2> HIDE DEF C, D, step, head
  <2>2. QED BY <2>1 DEF Iterations
<1>4. Walk(f)
  <2>1. ASSUME NEW n \in 0..C, n # 0
        PROVE  f[n] = LET p == f[n - 1] IN IF p = Null THEN Null ELSE lk.next[p]
    <3>1. n - 1 \in 0..C /\ n \in 1..C
      BY <1>1, <2>1
    <3>2. f[n - 1] \in D
      <4> HIDE DEF D
      <4>1. QED BY <3>1
    <3>3. f[n] = step[f[n - 1]]
      BY <1>3, <3>1
    <3>4. QED BY <3>2, <3>3
  <2>2. QED BY <1>3, <2>1
<1>5. Walk(pointer)
  <2> HIDE DEF Walk
  <2>1. QED BY <1>4
<1>6. Pointers(lk, l) = [n \in 1..C + 1 |-> pointer[n - 1]]
  BY DEF Pointers
<1> HIDE DEF pointer
<1>7. pointer[0] = lk.head[l]
  BY <1>1, <1>5
<1>8. ASSUME NEW n \in 1..C
      PROVE  pointer[n] = IF pointer[n - 1] = Null THEN Null ELSE lk.next[pointer[n - 1]]
  BY <1>1, <1>5
<1> DEFINE S == {n \in 0..C : pointer[n] = At(s, n + 1)}
<1>9. 0 \in S
  BY <1>1, <1>7 DEF Linked
<1>10. ASSUME NEW n \in 1..C, n - 1 \in S PROVE n \in S
  <2>1. pointer[n - 1] = At(s, n)
    BY <1>1, <1>10
  <2>2. CASE n \in 1..Len(s)
    <3>1. At(s, n) = s[n] /\ s[n] \in Tasks /\ lk.next[s[n]] = At(s, n + 1)
      BY <2>2, ElementOfSeq DEF At, Linked
    <3>2. QED BY <1>8, <2>1, <3>1, ListAssumption
  <2>3. CASE n \notin 1..Len(s)
    <3>1. At(s, n) = Null /\ At(s, n + 1) = Null
      BY <1>1, <2>3 DEF At
    <3>2. QED BY <1>8, <2>1, <3>1
  <2>4. QED BY <2>2, <2>3
<1>11. 0..C \subseteq S
  <2> HIDE DEF S
  <2>1. QED BY <1>1, <1>9, <1>10, UpTo
<1>12. ASSUME NEW n \in 1..C + 1 PROVE Pointers(lk, l)[n] = At(s, n)
  <2>1. n - 1 \in S
    BY <1>1, <1>11
  <2>2. QED BY <1>1, <1>6, <2>1
<1>13. QED BY <1>6, <1>12

(* So the chain is the list, and not cyclic. *)
LEMMA ChainOfList ==
  ASSUME NEW L, NEW lk \in Links(L), NEW l \in L, NEW s, Linked(lk, l, s), NoTwice(s)
  PROVE  Chain(lk, l) = s /\ Acyclic(lk, l)
<1> DEFINE C == Cardinality(Tasks)
           p == Pointers(lk, l)
<1>1. s \in Seq(Tasks) /\ C \in Nat /\ Len(s) \in Nat /\ Len(s) <= C
  BY ShortEnough, LenProperties DEF Linked
<1>2. DOMAIN p = 1..C + 1 /\ \A n \in 1..C + 1 : p[n] = At(s, n)
  BY PointersOfList
<1> HIDE DEF p
<1>3. \A i \in 1..Len(s) : s[i] \in Tasks /\ s[i] # Null
  BY <1>1, ElementOfSeq, ListAssumption
<1>4. {j \in DOMAIN p : p[j] # Null} = 1..Len(s)
  BY <1>1, <1>2, <1>3 DEF At
<1>5. [i \in {j \in DOMAIN p : p[j] # Null} |-> p[i]] = s
  <2>1. s = [i \in 1..Len(s) |-> s[i]]
    BY <1>1, LenProperties
  <2>2. \A i \in 1..Len(s) : p[i] = s[i]
    BY <1>1, <1>2 DEF At
  <2>3. QED BY <1>4, <2>1, <2>2
<1>6. Chain(lk, l) = s
  <2>1. CASE lk.head[l] = Null
    <3>1. Len(s) = 0
      BY <1>1, <1>3, <2>1 DEF Linked, At
    <3>2. s = <<>>
      BY <1>1, <3>1, EmptySeq
    <3>3. QED BY <2>1, <3>2 DEF Chain
  <2>2. CASE lk.head[l] # Null
    BY <1>5, <2>2 DEF Chain, p
  <2>3. QED BY <2>1, <2>2
<1>7. Acyclic(lk, l)
  <2>1. p \in [1..C + 1 -> Tasks \cup {Null}]
    <3>1. p = [n \in 1..C + 1 |-> p[n]]
      BY DEF p, Pointers
    <3>2. \A n \in 1..C + 1 : p[n] \in Tasks \cup {Null}
      BY <1>2, <1>3 DEF At
    <3>3. QED BY <3>1, <3>2
  <2>2. Len(p) = C + 1
    BY <1>1, <2>1, MakeSeq
  <2>3. QED BY <1>1, <1>6, <2>2 DEF Acyclic, p
<1>8. QED BY <1>6, <1>7

LEMMA HousedBy ==
  ASSUME NEW L, NEW lk \in Links(L), NEW h, NEW q,
         \A l \in L : /\ Linked(lk, l, q[l])
                      /\ NoTwice(q[l])
                      /\ \A t \in Tasks : Member(q[l], t) <=> h[t] = l
  PROVE  /\ Housed(lk, L, h)
         /\ \A l \in L : Chain(lk, l) = q[l]
<1>1. ASSUME NEW l \in L PROVE Chain(lk, l) = q[l]
  BY ChainOfList
<1>2. QED BY <1>1 DEF Housed

LEMMA HousedList ==
  ASSUME NEW L, NEW lk, NEW h, Housed(lk, L, h), NEW l \in L
  PROVE  /\ lk \in Links(L)
         /\ Chain(lk, l) \in Seq(Tasks)
         /\ Len(Chain(lk, l)) \in Nat
         /\ \A i \in 1..Len(Chain(lk, l)) : /\ Chain(lk, l)[i] \in Tasks
                                           /\ h[Chain(lk, l)[i]] = l
                                           /\ lk.next[Chain(lk, l)[i]] = At(Chain(lk, l), i + 1)
         /\ lk.head[l] = At(Chain(lk, l), 1)
         /\ NoTwice(Chain(lk, l))
         /\ \A t \in Tasks : On(lk, l, t) <=> h[t] = l
<1> DEFINE s == Chain(lk, l)
<1>1. /\ lk \in Links(L) /\ Linked(lk, l, s) /\ NoTwice(s)
      /\ \A t \in Tasks : Member(s, t) <=> h[t] = l
  BY DEF Housed
<1>2. \A t \in Tasks : On(lk, l, t) <=> Member(s, t)
  BY DEF On, Member
<1> HIDE DEF s
<1>3. s \in Seq(Tasks) /\ Len(s) \in Nat /\ \A i \in 1..Len(s) : s[i] \in Tasks
  BY <1>1, TypeOfSeq DEF Linked
<1>4. \A i \in 1..Len(s) : h[s[i]] = l
  BY <1>1, <1>3 DEF Member
<1>5. QED BY <1>1, <1>2, <1>3, <1>4 DEF s, Linked

-----------------------------------------------------------------------------
(* Sequences with one more element, or one less. *)

LEMMA InsertedShape ==
  ASSUME NEW s \in Seq(Tasks), NEW i \in 0..Len(s), NEW t \in Tasks
  PROVE  /\ Inserted(s, i, t) \in Seq(Tasks)
         /\ Len(Inserted(s, i, t)) = Len(s) + 1
         /\ \A j \in 1..i : Inserted(s, i, t)[j] = s[j]
         /\ Inserted(s, i, t)[i + 1] = t
         /\ \A j \in i + 1..Len(s) : Inserted(s, i, t)[j + 1] = s[j]
         /\ \A u \in Tasks : Member(Inserted(s, i, t), u) <=> u = t \/ Member(s, u)
<1> DEFINE r == Inserted(s, i, t)
<1>1. Len(s) \in Nat /\ i \in Int /\ i >= 0 /\ i <= Len(s) /\ \A j \in 1..Len(s) : s[j] \in Tasks
  BY TypeOfSeq
<1>2. r \in [1..Len(s) + 1 -> Tasks]
  BY <1>1 DEF Inserted
<1>3. r \in Seq(Tasks) /\ Len(r) = Len(s) + 1
  BY <1>1, <1>2, MakeSeq
<1>4. \A j \in 1..Len(s) + 1 :
        r[j] = IF j <= i THEN s[j] ELSE IF j = i + 1 THEN t ELSE s[j - 1]
  BY DEF Inserted
<1> HIDE DEF r
<1>5. /\ \A j \in 1..i : r[j] = s[j]
      /\ r[i + 1] = t
      /\ \A j \in i + 1..Len(s) : r[j + 1] = s[j]
  BY <1>1, <1>4
<1>6. ASSUME NEW u \in Tasks PROVE Member(r, u) <=> u = t \/ Member(s, u)
  <2>1. ASSUME NEW j \in 1..Len(r), r[j] = u PROVE u = t \/ Member(s, u)
    <3>1. j \in 1..i \/ j = i + 1 \/ j - 1 \in i + 1..Len(s)
      BY <1>1, <1>3
    <3>2. CASE j \in 1..i
      BY <1>1, <1>5, <2>1, <3>2 DEF Member
    <3>3. CASE j = i + 1
      BY <1>5, <2>1, <3>3
    <3>4. CASE j - 1 \in i + 1..Len(s)
      <4>1. r[j - 1 + 1] = s[j - 1] /\ j - 1 + 1 = j /\ j - 1 \in 1..Len(s)
        BY <1>1, <1>3, <1>5, <3>4
      <4>2. QED BY <2>1, <4>1 DEF Member
    <3>5. QED BY <3>1, <3>2, <3>3, <3>4
  <2>2. ASSUME NEW j \in 1..Len(s), s[j] = u PROVE Member(r, u)
    <3>1. CASE j <= i
      BY <1>1, <1>3, <1>5, <2>2, <3>1 DEF Member
    <3>2. CASE j > i
      <4>1. r[j + 1] = s[j] /\ j + 1 \in 1..Len(r)
        BY <1>1, <1>3, <1>5, <3>2
      <4>2. QED BY <2>2, <4>1 DEF Member
    <3>3. QED BY <1>1, <3>1, <3>2
  <2>3. Member(r, t)
    BY <1>1, <1>3, <1>5 DEF Member
  <2>4. QED BY <2>1, <2>2, <2>3 DEF Member
<1>7. QED BY <1>3, <1>5, <1>6 DEF r

LEMMA InsertedInEmpty ==
  ASSUME NEW s \in Seq(Tasks), Len(s) = 0, NEW t \in Tasks
  PROVE  /\ Inserted(s, 0, t) \in Seq(Tasks)
         /\ Len(Inserted(s, 0, t)) = 1
         /\ Inserted(s, 0, t)[1] = t
         /\ \A u \in Tasks : Member(Inserted(s, 0, t), u) <=> u = t
<1> DEFINE r == Inserted(s, 0, t)
<1>1. r \in [1..1 -> Tasks] /\ r[1] = t
  BY DEF Inserted
<1>2. r \in Seq(Tasks) /\ Len(r) = 1
  BY <1>1, MakeSeq
<1> HIDE DEF r
<1>3. \A u \in Tasks : Member(r, u) <=> u = t
  BY <1>1, <1>2 DEF Member
<1>4. QED BY <1>1, <1>2, <1>3 DEF r

LEMMA InsertedOnce ==
  ASSUME NEW s \in Seq(Tasks), NEW i \in 0..Len(s), NEW t \in Tasks, NoTwice(s), ~Member(s, t)
  PROVE  NoTwice(Inserted(s, i, t))
<1> DEFINE r == Inserted(s, i, t)
           place(j) == IF j <= i THEN j ELSE j - 1
<1>1. /\ Len(s) \in Nat /\ i \in Int /\ i >= 0 /\ i <= Len(s)
      /\ Len(r) = Len(s) + 1
      /\ \A j \in 1..i : r[j] = s[j]
      /\ r[i + 1] = t
      /\ \A j \in i + 1..Len(s) : r[j + 1] = s[j]
  <2>1. Len(s) \in Nat /\ i \in Int /\ i >= 0 /\ i <= Len(s)
    BY TypeOfSeq
  <2>2. /\ Len(r) = Len(s) + 1
        /\ \A j \in 1..i : r[j] = s[j]
        /\ r[i + 1] = t
        /\ \A j \in i + 1..Len(s) : r[j + 1] = s[j]
    BY InsertedShape
  <2>3. QED BY <2>1, <2>2
<1> HIDE DEF r
<1>2. ASSUME NEW j \in 1..Len(r), j # i + 1
      PROVE  place(j) \in 1..Len(s) /\ r[j] = s[place(j)] /\ r[j] # t
  <2>1. place(j) \in 1..Len(s)
    BY <1>1, <1>2
  <2>2. r[j] = s[place(j)]
    <3>1. CASE j <= i
      BY <1>1, <3>1
    <3>2. CASE j > i
      <4>1. j - 1 \in i + 1..Len(s) /\ j - 1 + 1 = j
        BY <1>1, <1>2, <3>2
      <4>2. r[j - 1 + 1] = s[j - 1]
        BY <1>1, <4>1
      <4>3. QED BY <1>1, <3>2, <4>1, <4>2
    <3>3. QED BY <1>1, <3>1, <3>2
  <2>3. QED BY <2>1, <2>2 DEF Member
<1>3. r[i + 1] = t
  BY <1>1
<1>4. ASSUME NEW j \in 1..Len(r), NEW k \in 1..Len(r), r[j] = r[k] PROVE j = k
  <2>1. CASE j = i + 1
    BY <1>2, <1>3, <1>4, <2>1
  <2>2. CASE k = i + 1
    BY <1>2, <1>3, <1>4, <2>2
  <2>3. CASE j # i + 1 /\ k # i + 1
    <3>1. place(j) = place(k)
      <4> HIDE DEF place
      <4>1. QED BY <1>2, <1>4, <2>3 DEF NoTwice
    <3>2. QED BY <1>1, <2>3, <3>1
  <2>4. QED BY <2>1, <2>2, <2>3
<1>5. QED BY <1>4 DEF NoTwice, r

LEMMA WithoutShape ==
  ASSUME NEW s \in Seq(Tasks), NEW i \in 1..Len(s), NoTwice(s)
  PROVE  /\ Without(s, i) \in Seq(Tasks)
         /\ Len(Without(s, i)) = Len(s) - 1
         /\ \A j \in 1..i - 1 : Without(s, i)[j] = s[j]
         /\ \A j \in i..Len(s) - 1 : Without(s, i)[j] = s[j + 1]
         /\ NoTwice(Without(s, i))
         /\ \A u \in Tasks : Member(Without(s, i), u) <=> u # s[i] /\ Member(s, u)
<1> DEFINE r == Without(s, i)
           place(j) == IF j < i THEN j ELSE j + 1
<1>1. Len(s) \in Nat /\ i \in Int /\ i >= 1 /\ i <= Len(s) /\ \A j \in 1..Len(s) : s[j] \in Tasks
  BY TypeOfSeq
<1>2. r \in [1..Len(s) - 1 -> Tasks]
  BY <1>1 DEF Without
<1>3. r \in Seq(Tasks) /\ Len(r) = Len(s) - 1
  BY <1>1, <1>2, MakeSeq
<1>4. \A j \in 1..Len(s) - 1 : r[j] = s[place(j)]
  BY DEF Without
<1> HIDE DEF r
<1>5. /\ \A j \in 1..i - 1 : r[j] = s[j]
      /\ \A j \in i..Len(s) - 1 : r[j] = s[j + 1]
  <2>1. ASSUME NEW j \in 1..i - 1 PROVE r[j] = s[j]
    BY <1>1, <1>4
  <2>2. ASSUME NEW j \in i..Len(s) - 1 PROVE r[j] = s[j + 1]
    <3>1. j \in 1..Len(s) - 1 /\ ~(j < i)
      BY <1>1
    <3>2. QED BY <1>4, <3>1
  <2>3. QED BY <2>1, <2>2
<1>6. \A j \in 1..Len(r) : place(j) \in 1..Len(s) /\ place(j) # i
  BY <1>1, <1>3
<1>7. NoTwice(r)
  <2>1. ASSUME NEW j \in 1..Len(r), NEW k \in 1..Len(r), r[j] = r[k] PROVE j = k
    <3>1. place(j) = place(k)
      <4> HIDE DEF place
      <4>1. QED BY <1>3, <1>4, <1>6, <2>1 DEF NoTwice
    <3>2. QED BY <1>1, <3>1
  <2>2. QED BY <2>1 DEF NoTwice
<1>8. ASSUME NEW u \in Tasks PROVE Member(r, u) <=> u # s[i] /\ Member(s, u)
  <2>1. ASSUME NEW j \in 1..Len(r), r[j] = u PROVE u # s[i] /\ Member(s, u)
    <3> HIDE DEF place
    <3>1. QED BY <1>3, <1>4, <1>6, <2>1 DEF NoTwice, Member
  <2>2. ASSUME NEW j \in 1..Len(s), s[j] = u, u # s[i] PROVE Member(r, u)
    <3>1. CASE j < i
      BY <1>1, <1>3, <1>5, <2>2, <3>1 DEF Member
    <3>2. CASE j > i
      <4>1. j - 1 \in i..Len(s) - 1 /\ j - 1 + 1 = j /\ j - 1 \in 1..Len(r)
        BY <1>1, <1>3, <3>2
      <4>2. r[j - 1] = s[j]
        BY <1>5, <4>1
      <4>3. QED BY <2>2, <4>1, <4>2 DEF Member
    <3>3. QED BY <1>1, <2>2, <3>1, <3>2
  <2>3. QED BY <2>1, <2>2 DEF Member
<1>9. QED BY <1>3, <1>5, <1>7, <1>8 DEF r

-----------------------------------------------------------------------------
(* Linking and unlinking. *)

(* Task t moves to list l, or, if that is not the name of one, leaves. *)
Moves(h, g, t, l) == g[t] = l /\ \A u \in Tasks \ {t} : g[u] = h[u]

(* The lists of L are as they were ... *)
Others(new, old, L) == \A m \in L : Chain(new, m) = Chain(old, m)
(* ... and l alone has changed: t is behind its i-th task, or that is gone. *)
Longer(new, old, L, l, i, t) == /\ Chain(new, l) = Inserted(Chain(old, l), i, t)
                                /\ Others(new, old, L \ {l})
Shorter(new, old, L, l, i) == /\ Chain(new, l) = Without(Chain(old, l), i)
                              /\ Others(new, old, L \ {l})

LEMMA TargetIs ==
  ASSUME NEW L, NEW lk, NEW h, Housed(lk, L, h), NEW l \in L, NEW i \in 0..Len(Chain(lk, l))
  PROVE  Target(lk, l, i) = At(Chain(lk, l), i + 1)
<1>1. CASE i = 0
  BY <1>1, HousedList DEF Target
<1>2. CASE i # 0
  <2>1. i \in 1..Len(Chain(lk, l))
    BY <1>2, HousedList
  <2>2. lk.next[Chain(lk, l)[i]] = At(Chain(lk, l), i + 1)
    BY <2>1, HousedList
  <2>3. QED BY <1>2, <2>2 DEF Target
<1>3. QED BY <1>1, <1>2

(* "task->next = *pp; *pp = task" with a task that is on no list. *)
LEMMA LinkAt ==
  ASSUME NEW L, NEW lk, NEW h, NEW g, Housed(lk, L, h), NEW l \in L, NEW t \in Tasks,
         h[t] \notin L, NEW i \in 0..Len(Chain(lk, l)), Moves(h, g, t, l),
         NEW new, new = SetNext(SetLink(lk, l, i, t), t, Target(lk, l, i))
  PROVE  /\ Housed(new, L, g)
         /\ Longer(new, lk, L, l, i, t)
<1> DEFINE s == Chain(lk, l)
           r == Inserted(s, i, t)
           q == [m \in L |-> IF m = l THEN r ELSE Chain(lk, m)]
<1>1. /\ lk \in Links(L) /\ s \in Seq(Tasks) /\ Len(s) \in Nat
      /\ \A j \in 1..Len(s) : s[j] \in Tasks /\ h[s[j]] = l /\ lk.next[s[j]] = At(s, j + 1)
      /\ lk.head[l] = At(s, 1)
      /\ NoTwice(s)
  BY HousedList
<1>2. Target(lk, l, i) = At(s, i + 1)
  BY TargetIs
<1>3. \A u \in Tasks : Member(s, u) <=> h[u] = l
  BY DEF Housed
<1>4. At(s, i + 1) \in Tasks \cup {Null}
  BY <1>1 DEF At
<1> HIDE DEF s
<1>5. i \in Int /\ i >= 0 /\ i <= Len(s)
  BY <1>1 DEF s
<1>6. new.head = IF i = 0 THEN [lk.head EXCEPT ![l] = t] ELSE lk.head
  BY <1>1 DEF SetNext, SetLink, Links
<1>7. ASSUME NEW u \in Tasks
      PROVE  new.next[u] = IF u = t THEN At(s, i + 1)
                           ELSE IF i # 0 /\ u = s[i] THEN t ELSE lk.next[u]
  <2>1. CASE i = 0
    BY <1>1, <1>2, <2>1 DEF SetNext, SetLink, Links
  <2>2. CASE i # 0
    <3>1. s[i] \in Tasks
      BY <1>1, <1>5, <2>2
    <3>2. QED BY <1>1, <1>2, <2>2, <3>1 DEF SetNext, SetLink, Links, s
  <2>3. QED BY <2>1, <2>2
<1>8. new \in Links(L)
  <2>1. CASE i = 0
    BY <1>1, <1>2, <1>4, <2>1 DEF SetNext, SetLink, Links
  <2>2. CASE i # 0
    <3>1. s[i] \in Tasks
      BY <1>1, <1>5, <2>2
    <3>2. QED BY <1>1, <1>2, <1>4, <2>2, <3>1 DEF SetNext, SetLink, Links, s
  <2>3. QED BY <2>1, <2>2
<1>9. ~Member(s, t)
  BY <1>3
<1>10. /\ r \in Seq(Tasks)
       /\ Len(r) = Len(s) + 1
       /\ \A j \in 1..i : r[j] = s[j]
       /\ r[i + 1] = t
       /\ \A j \in i + 1..Len(s) : r[j + 1] = s[j]
       /\ \A u \in Tasks : Member(r, u) <=> u = t \/ Member(s, u)
  <2>1. i \in 0..Len(s)
    BY <1>5
  <2>2. QED BY <1>1, <2>1, InsertedShape, ZenonT(60)
<1>11. NoTwice(r)
  <2>1. i \in 0..Len(s)
    BY <1>5
  <2>2. QED BY <1>1, <1>9, <2>1, InsertedOnce
<1> HIDE DEF r
<1>12. Linked(new, l, r)
  <2>1. new.head[l] = At(r, 1)
    <3>1. CASE i = 0
      BY <1>1, <1>6, <1>10, <3>1 DEF At, Links
    <3>2. CASE i # 0
      BY <1>1, <1>5, <1>6, <1>10, <3>2 DEF At
    <3>3. QED BY <3>1, <3>2
  <2>2. ASSUME NEW j \in 1..Len(r) PROVE new.next[r[j]] = At(r, j + 1)
    <3>1. j \in 1..i \/ j = i + 1 \/ j - 1 \in i + 1..Len(s)
      BY <1>1, <1>5, <1>10
    <3>2. CASE j \in 1..i /\ j < i
      <4>1. j \in 1..Len(s) /\ j + 1 \in 1..i /\ i \in 1..Len(s)
        BY <1>1, <1>5, <3>2
      <4>2. r[j] = s[j] /\ s[j] \in Tasks /\ s[j] # t /\ s[j] # s[i] /\ lk.next[s[j]] = s[j + 1]
        BY <1>1, <1>5, <1>9, <1>10, <3>2, <4>1 DEF NoTwice, Member, At
      <4>3. At(r, j + 1) = s[j + 1]
        BY <1>1, <1>5, <1>10, <4>1 DEF At
      <4>4. QED BY <1>7, <4>2, <4>3
    <3>3. CASE j \in 1..i /\ j = i
      <4>1. r[j] = s[j] /\ s[j] \in Tasks /\ s[j] # t
        BY <1>1, <1>5, <1>9, <1>10, <3>3 DEF Member
      <4>2. At(r, j + 1) = t
        BY <1>1, <1>5, <1>10, <3>3 DEF At
      <4>3. QED BY <1>5, <1>7, <3>3, <4>1, <4>2
    <3>4. CASE j = i + 1
      <4>1. At(r, j + 1) = At(s, i + 1)
        <5>1. CASE i = Len(s)
          BY <1>1, <1>5, <1>10, <3>4, <5>1 DEF At
        <5>2. CASE i # Len(s)
          <6>1. i + 1 \in i + 1..Len(s) /\ i + 1 \in 1..Len(s) /\ j + 1 \in 1..Len(r)
            BY <1>1, <1>5, <1>10, <3>4, <5>2
          <6>2. r[i + 1 + 1] = s[i + 1]
            BY <1>10, <6>1
          <6>3. QED BY <3>4, <6>1, <6>2 DEF At
        <5>3. QED BY <5>1, <5>2
      <4>2. QED BY <1>7, <1>10, <3>4, <4>1
    <3>5. CASE j - 1 \in i + 1..Len(s)
      <4> DEFINE k == j - 1
      <4>1. k \in i + 1..Len(s) /\ k + 1 = j /\ k \in 1..Len(s) /\ k \in Int
        BY <1>1, <1>5, <3>5
      <4> HIDE DEF k
      <4>2. r[j] = s[k] /\ s[k] \in Tasks
        BY <1>1, <1>10, <4>1
      <4>3. s[k] # t /\ (i # 0 => s[k] # s[i]) /\ lk.next[s[k]] = At(s, j)
        <5>1. s[k] # t /\ lk.next[s[k]] = At(s, j)
          BY <1>1, <1>9, <4>1 DEF Member
        <5>2. ASSUME i # 0 PROVE s[k] # s[i]
          <6>1. i \in 1..Len(s) /\ i # k
            BY <1>1, <1>5, <4>1, <5>2
          <6>2. QED BY <1>1, <4>1, <6>1 DEF NoTwice
        <5>3. QED BY <5>1, <5>2
      <4>4. At(r, j + 1) = At(s, j)
        <5>1. CASE k = Len(s)
          BY <1>1, <1>5, <1>10, <4>1, <5>1 DEF At
        <5>2. CASE k # Len(s)
          <6>1. j \in i + 1..Len(s) /\ j \in 1..Len(s) /\ j + 1 \in 1..Len(r)
            BY <1>1, <1>5, <1>10, <4>1, <5>2
          <6>2. r[j + 1] = s[j]
            BY <1>10, <6>1
          <6>3. QED BY <6>1, <6>2 DEF At
        <5>3. QED BY <5>1, <5>2
      <4>5. QED BY <1>7, <4>2, <4>3, <4>4
    <3>6. QED BY <1>5, <3>1, <3>2, <3>3, <3>4, <3>5
  <2>3. QED BY <1>10, <2>1, <2>2 DEF Linked
<1>13. ASSUME NEW m \in L, m # l PROVE Linked(new, m, Chain(lk, m))
  <2>1. /\ Chain(lk, m) \in Seq(Tasks)
        /\ \A j \in 1..Len(Chain(lk, m)) : /\ Chain(lk, m)[j] \in Tasks
                                          /\ h[Chain(lk, m)[j]] = m
                                          /\ lk.next[Chain(lk, m)[j]] = At(Chain(lk, m), j + 1)
        /\ lk.head[m] = At(Chain(lk, m), 1)
    BY HousedList
  <2>2. new.head[m] = lk.head[m]
    BY <1>1, <1>6, <1>13 DEF Links
  <2>3. ASSUME NEW j \in 1..Len(Chain(lk, m))
        PROVE  new.next[Chain(lk, m)[j]] = lk.next[Chain(lk, m)[j]]
    <3>1. Chain(lk, m)[j] # t /\ (i # 0 => Chain(lk, m)[j] # s[i])
      BY <1>1, <1>5, <1>13, <2>1
    <3>2. QED BY <1>7, <2>1, <3>1
  <2>4. QED BY <2>1, <2>2, <2>3 DEF Linked
<1>14. ASSUME NEW m \in L
       PROVE  /\ Linked(new, m, q[m])
              /\ NoTwice(q[m])
              /\ \A u \in Tasks : Member(q[m], u) <=> g[u] = m
  <2>1. CASE m = l
    BY <1>3, <1>10, <1>11, <1>12, <2>1 DEF Moves
  <2>2. CASE m # l
    <3>1. NoTwice(Chain(lk, m)) /\ \A u \in Tasks : Member(Chain(lk, m), u) <=> h[u] = m
      BY DEF Housed
    <3>2. QED BY <1>13, <2>2, <3>1 DEF Moves
  <2>3. QED BY <2>1, <2>2
<1>15. Housed(new, L, g) /\ \A m \in L : Chain(new, m) = q[m]
  <2> HIDE DEF q
  <2>1. QED BY <1>8, <1>14, HousedBy
<1>16. QED BY <1>15 DEF Longer, Others, r, s

(* "*pp = task->next; task->next = NULL" with the i-th task of a list. *)
Unlinked(lk, l, i, t) == SetNext(SetLink(lk, l, i - 1, lk.next[t]), t, Null)
LEMMA UnlinkAt ==
  ASSUME NEW L, NEW lk, NEW h, NEW g, Housed(lk, L, h), NEW l \in L,
         NEW i \in 1..Len(Chain(lk, l)), NEW t, t = Chain(lk, l)[i],
         NEW nowhere, nowhere \notin L, Moves(h, g, t, nowhere)
  PROVE  /\ Housed(Unlinked(lk, l, i, t), L, g)
         /\ Shorter(Unlinked(lk, l, i, t), lk, L, l, i)
<1> DEFINE s == Chain(lk, l)
           r == Without(s, i)
           new == Unlinked(lk, l, i, t)
           q == [m \in L |-> IF m = l THEN r ELSE Chain(lk, m)]
<1>1. /\ lk \in Links(L) /\ s \in Seq(Tasks) /\ Len(s) \in Nat
      /\ \A j \in 1..Len(s) : s[j] \in Tasks /\ h[s[j]] = l /\ lk.next[s[j]] = At(s, j + 1)
      /\ lk.head[l] = At(s, 1)
      /\ NoTwice(s)
  BY HousedList
<1>2. \A u \in Tasks : Member(s, u) <=> h[u] = l
  BY DEF Housed
<1>3. t = s[i] /\ i \in 1..Len(s)
  OBVIOUS
<1>4. At(s, i + 1) \in Tasks \cup {Null}
  BY <1>1 DEF At
<1> HIDE DEF s, new
<1>5. i \in Int /\ i >= 1 /\ i <= Len(s) /\ t \in Tasks /\ lk.next[t] = At(s, i + 1) /\ h[t] = l
  BY <1>1, <1>3
<1>0. new = SetNext(SetLink(lk, l, i - 1, lk.next[t]), t, Null)
  BY DEF new, Unlinked
<1>6. new.head = IF i = 1 THEN [lk.head EXCEPT ![l] = At(s, i + 1)] ELSE lk.head
  BY <1>1, <1>5, <1>0 DEF SetNext, SetLink, Links
<1>7. /\ new \in Links(L)
      /\ \A u \in Tasks :
           new.next[u] = IF u = t THEN Null
                         ELSE IF i # 1 /\ u = s[i - 1] THEN At(s, i + 1) ELSE lk.next[u]
  <2>1. CASE i = 1
    <3>1. i - 1 = 0
      BY <2>1
    <3>2. new = [[lk EXCEPT !.head[l] = At(s, i + 1)] EXCEPT !.next[t] = Null]
      BY <1>5, <1>0, <3>1 DEF SetNext, SetLink
    <3>3. /\ lk.head \in [L -> Tasks \cup {Null}] /\ lk.next \in [Tasks -> Tasks \cup {Null}]
          /\ new = [head |-> [lk.head EXCEPT ![l] = At(s, i + 1)],
                    next |-> [lk.next EXCEPT ![t] = Null]]
      BY <1>1, <3>2 DEF Links
    <3>4. /\ new \in Links(L)
          /\ \A u \in Tasks : new.next[u] = IF u = t THEN Null ELSE lk.next[u]
      BY <1>4, <1>5, <3>3 DEF Links
    <3>5. QED BY <2>1, <3>4
  <2>2. CASE i # 1
    <3>1. s[i - 1] \in Tasks /\ i - 1 # 0
      BY <1>1, <1>5, <2>2
    <3>2. QED BY <1>1, <1>4, <1>5, <1>0, <2>2, <3>1 DEF SetNext, SetLink, Links, s
  <2>3. QED BY <2>1, <2>2
<1>8. /\ r \in Seq(Tasks)
      /\ Len(r) = Len(s) - 1
      /\ \A j \in 1..i - 1 : r[j] = s[j]
      /\ \A j \in i..Len(s) - 1 : r[j] = s[j + 1]
      /\ NoTwice(r)
      /\ \A u \in Tasks : Member(r, u) <=> u # s[i] /\ Member(s, u)
  BY <1>1, <1>3, WithoutShape
<1> HIDE DEF r
<1>9. At(r, i) = At(s, i + 1)
  <2>1. CASE i = Len(s)
    BY <1>1, <1>5, <1>8, <2>1 DEF At
  <2>2. CASE i # Len(s)
    <3>1. i \in i..Len(s) - 1 /\ i \in 1..Len(r) /\ i + 1 \in 1..Len(s)
      BY <1>1, <1>5, <1>8, <2>2
    <3>2. QED BY <1>8, <3>1 DEF At
  <2>3. QED BY <2>1, <2>2
<1>10. Linked(new, l, r)
  <2>1. new.head[l] = At(r, 1)
    <3>1. CASE i = 1
      BY <1>1, <1>6, <1>9, <3>1 DEF Links
    <3>2. CASE i # 1
      BY <1>1, <1>5, <1>6, <1>8, <3>2 DEF At
    <3>3. QED BY <3>1, <3>2
  <2>2. ASSUME NEW j \in 1..Len(r) PROVE new.next[r[j]] = At(r, j + 1)
    <3>1. CASE j < i - 1
      <4>1. j \in 1..i - 1 /\ j + 1 \in 1..i - 1 /\ j \in 1..Len(s) /\ i - 1 \in 1..Len(s)
            /\ j + 1 \in 1..Len(s) /\ j + 1 \in 1..Len(r)
        BY <1>1, <1>5, <1>8, <3>1
      <4>2. s[j] # t /\ s[j] # s[i - 1]
        BY <1>1, <1>3, <1>5, <3>1, <4>1 DEF NoTwice
      <4>3. r[j] = s[j] /\ s[j] \in Tasks /\ lk.next[s[j]] = s[j + 1] /\ At(r, j + 1) = s[j + 1]
        BY <1>1, <1>8, <4>1 DEF At
      <4>4. QED BY <1>7, <4>2, <4>3
    <3>2. CASE j = i - 1
      <4>1. j \in 1..i - 1 /\ j \in 1..Len(s) /\ i # 1 /\ j # i /\ j + 1 = i
        BY <1>1, <1>5, <1>8, <3>2
      <4>2. s[j] # t
        BY <1>1, <1>3, <4>1 DEF NoTwice
      <4>3. r[j] = s[j] /\ s[j] \in Tasks
        BY <1>1, <1>8, <4>1
      <4>4. new.next[s[j]] = At(s, i + 1)
        BY <1>7, <3>2, <4>1, <4>2, <4>3
      <4>5. QED BY <1>9, <4>1, <4>3, <4>4
    <3>3. CASE j > i - 1
      <4> DEFINE k == j + 1
      <4>1. j \in i..Len(s) - 1 /\ k \in 1..Len(s) /\ k # i /\ k # i - 1 /\ k \in Int
        BY <1>1, <1>5, <1>8, <3>3
      <4>2. r[j] = s[k]
        BY <1>8, <4>1
      <4> HIDE DEF k
      <4>3. s[k] \in Tasks /\ lk.next[s[k]] = At(s, k + 1) /\ s[k] # t
        BY <1>1, <1>3, <4>1 DEF NoTwice
      <4>4. ASSUME i # 1 PROVE s[k] # s[i - 1]
        <5>1. i - 1 \in 1..Len(s)
          BY <1>1, <1>5, <4>4
        <5>2. QED BY <1>1, <4>1, <5>1 DEF NoTwice
      <4>5. At(r, k) = At(s, k + 1)
        <5>1. CASE k = Len(s)
          BY <1>1, <1>8, <5>1 DEF At
        <5>2. CASE k # Len(s)
          <6>1. k \in i..Len(s) - 1 /\ k \in 1..Len(r) /\ k + 1 \in 1..Len(s)
            BY <1>1, <1>5, <1>8, <3>3, <4>1, <5>2 DEF k
          <6>2. QED BY <1>8, <6>1 DEF At
        <5>3. QED BY <5>1, <5>2
      <4>6. new.next[s[k]] = At(r, k)
        BY <1>7, <4>3, <4>4, <4>5
      <4>7. QED BY <4>2, <4>6 DEF k
    <3>4. QED BY <1>1, <1>5, <1>8, <3>1, <3>2, <3>3
  <2>3. QED BY <1>8, <2>1, <2>2 DEF Linked
<1>11. ASSUME NEW m \in L, m # l PROVE Linked(new, m, Chain(lk, m))
  <2>1. /\ Chain(lk, m) \in Seq(Tasks)
        /\ \A j \in 1..Len(Chain(lk, m)) : /\ Chain(lk, m)[j] \in Tasks
                                          /\ h[Chain(lk, m)[j]] = m
                                          /\ lk.next[Chain(lk, m)[j]] = At(Chain(lk, m), j + 1)
        /\ lk.head[m] = At(Chain(lk, m), 1)
    BY HousedList
  <2>2. new.head[m] = lk.head[m]
    BY <1>1, <1>6, <1>11 DEF Links
  <2>3. i # 1 => h[s[i - 1]] = l
    BY <1>1, <1>5
  <2>4. ASSUME NEW j \in 1..Len(Chain(lk, m))
        PROVE  new.next[Chain(lk, m)[j]] = lk.next[Chain(lk, m)[j]]
    <3>1. Chain(lk, m)[j] # t /\ (i # 1 => Chain(lk, m)[j] # s[i - 1])
      BY <1>5, <1>11, <2>1, <2>3
    <3>2. QED BY <1>7, <2>1, <3>1
  <2>5. QED BY <2>1, <2>2, <2>4 DEF Linked
<1>12. ASSUME NEW m \in L
       PROVE  /\ Linked(new, m, q[m])
              /\ NoTwice(q[m])
              /\ \A u \in Tasks : Member(q[m], u) <=> g[u] = m
  <2>1. CASE m = l
    <3>1. \A u \in Tasks : Member(r, u) <=> g[u] = l
      BY <1>2, <1>3, <1>8 DEF Moves
    <3>2. QED BY <1>8, <1>10, <2>1, <3>1
  <2>2. CASE m # l
    <3>1. NoTwice(Chain(lk, m)) /\ \A u \in Tasks : Member(Chain(lk, m), u) <=> h[u] = m
      BY DEF Housed
    <3>2. QED BY <1>5, <1>11, <2>2, <3>1 DEF Moves
  <2>3. QED BY <2>1, <2>2
<1>13. Housed(new, L, g) /\ \A m \in L : Chain(new, m) = q[m]
  <2> HIDE DEF q
  <2>1. QED BY <1>7, <1>12, HousedBy
<1>14. QED BY <1>13 DEF Shorter, Others, r, s, new

-----------------------------------------------------------------------------
(* The operations. *)

LEMMA EmptyHoused ==
  ASSUME NEW L, NEW h, \A t \in Tasks : h[t] \notin L,
         NEW lk, lk = [head |-> [l \in L |-> Null], next |-> [t \in Tasks |-> Null]]
  PROVE  Housed(lk, L, h) /\ \A l \in L : Chain(lk, l) = <<>>
<1> DEFINE q == [l \in L |-> <<>>]
<1>1. lk \in Links(L) /\ \A l \in L : lk.head[l] = Null
  BY DEF Links
<1>2. <<>> \in Seq(Tasks) /\ Len(<<>>) = 0
  BY EmptySeq
<1>3. ASSUME NEW l \in L
      PROVE  /\ Linked(lk, l, <<>>) /\ NoTwice(<<>>)
             /\ \A t \in Tasks : Member(<<>>, t) <=> h[t] = l
  BY <1>1, <1>2 DEF Linked, NoTwice, Member, At
<1>4. ASSUME NEW l \in L
      PROVE  /\ Linked(lk, l, q[l]) /\ NoTwice(q[l])
             /\ \A t \in Tasks : Member(q[l], t) <=> h[t] = l
  BY <1>3
<1>5. Housed(lk, L, h) /\ \A l \in L : Chain(lk, l) = q[l]
  <2> HIDE DEF q
  <2>1. QED BY <1>1, <1>4, HousedBy
<1>6. QED BY <1>5

(* Clearing the link of a task that is on no list. *)
LEMMA ClearedLink ==
  ASSUME NEW L, NEW lk, NEW h, Housed(lk, L, h), NEW t \in Tasks, h[t] \notin L,
         NEW new, new = SetNext(lk, t, Null)
  PROVE  Housed(new, L, h) /\ Others(new, lk, L)
<1> DEFINE q == [m \in L |-> Chain(lk, m)]
<1>0. lk \in [head : [L -> Tasks \cup {Null}], next : [Tasks -> Tasks \cup {Null}]]
  BY DEF Housed, Links
<1>1. /\ new \in Links(L) /\ new.head = lk.head
      /\ \A u \in Tasks : u # t => new.next[u] = lk.next[u]
  BY <1>0 DEF SetNext, Links
<1>2. ASSUME NEW m \in L
      PROVE  /\ Linked(new, m, q[m]) /\ NoTwice(q[m])
             /\ \A u \in Tasks : Member(q[m], u) <=> h[u] = m
  <2>1. /\ Chain(lk, m) \in Seq(Tasks)
        /\ \A j \in 1..Len(Chain(lk, m)) : /\ Chain(lk, m)[j] \in Tasks
                                          /\ h[Chain(lk, m)[j]] = m
                                          /\ lk.next[Chain(lk, m)[j]] = At(Chain(lk, m), j + 1)
        /\ lk.head[m] = At(Chain(lk, m), 1)
    BY HousedList
  <2>2. \A j \in 1..Len(Chain(lk, m)) : Chain(lk, m)[j] # t
    BY <2>1
  <2>3. Linked(new, m, Chain(lk, m))
    BY <1>1, <2>1, <2>2 DEF Linked
  <2>4. QED BY <2>3 DEF Housed
<1>3. Housed(new, L, h) /\ \A m \in L : Chain(new, m) = q[m]
  <2> HIDE DEF q
  <2>1. QED BY <1>1, <1>2, HousedBy
<1>4. QED BY <1>3 DEF Others

(* The walk of Insert stops behind the first tasks that are in passed. *)
LEMMA PassingPlace ==
  ASSUME NEW L, NEW lk, NEW h, Housed(lk, L, h), NEW l \in L, NEW passed
  PROVE  /\ Passing(lk, l, passed) \in 0..Len(Chain(lk, l))
         /\ \A j \in 1..Passing(lk, l, passed) : Chain(lk, l)[j] \in passed
         /\ Passing(lk, l, passed) < Len(Chain(lk, l)) =>
              Chain(lk, l)[Passing(lk, l, passed) + 1] \notin passed
<1> DEFINE s == Chain(lk, l)
           T == {k \in 0..Len(s) : k < Len(s) => s[k + 1] \notin passed}
<1>1. Len(s) \in Nat
  BY HousedList
<1>2. Len(s) \in T /\ T \subseteq Nat
  BY <1>1
<1>3. PICK m \in T : \A k \in T : m <= k
  <2> HIDE DEF T
  <2>1. QED BY <1>2, LeastNat
<1>4. m \in 0..Len(s) /\ StopsAt(s, passed, m)
  <2>1. ASSUME NEW j \in 1..m, s[j] \notin passed PROVE FALSE
    <3>1. j - 1 \in 0..Len(s) /\ j - 1 < m /\ j - 1 + 1 = j
      BY <1>1, <1>3
    <3>2. j - 1 \in T
      BY <2>1, <3>1
    <3> HIDE DEF T
    <3>3. QED BY <1>1, <1>2, <1>3, <3>1, <3>2
  <2>2. QED BY <1>3, <2>1 DEF StopsAt
<1>5. Passing(lk, l, passed) \in 0..Len(s) /\ StopsAt(s, passed, Passing(lk, l, passed))
  BY <1>4 DEF Passing
<1>6. QED BY <1>5 DEF StopsAt

(* waitqueue_add and delay_add of a task that is on no list. *)
LEMMA InsertHouses ==
  ASSUME NEW L, NEW lk, NEW h, NEW g, Housed(lk, L, h), NEW l \in L, NEW t \in Tasks,
         h[t] \notin L, NEW passed, Moves(h, g, t, l)
  PROVE  /\ Housed(Insert(lk, l, t, passed), L, g)
         /\ Longer(Insert(lk, l, t, passed), lk, L, l, Passing(lk, l, passed), t)
<1> DEFINE i == Passing(lk, l, passed)
<1>1. i \in 0..Len(Chain(lk, l)) /\ Len(Chain(lk, l)) \in Nat
  BY PassingPlace, HousedList
<1>2. ~(i > 0 /\ Chain(lk, l)[i] = t)
  <2> HIDE DEF i
  <2>1. QED BY <1>1, HousedList
<1>3. Insert(lk, l, t, passed) = SetNext(SetLink(lk, l, i, t), t, Target(lk, l, i))
  BY <1>2 DEF Insert
<1> HIDE DEF i
<1>4. /\ Housed(Insert(lk, l, t, passed), L, g)
      /\ Longer(Insert(lk, l, t, passed), lk, L, l, i, t)
  BY <1>1, <1>3, LinkAt
<1>5. QED BY <1>4 DEF i

(* sched_add_ready's linking. *)
LEMMA LinkLastHouses ==
  ASSUME NEW L, NEW lk, NEW h, NEW g, Housed(lk, L, h), NEW l \in L, NEW t \in Tasks,
         h[t] \notin L, Moves(h, g, t, l)
  PROVE  /\ Housed(LinkLast(lk, l, t), L, g)
         /\ Longer(LinkLast(lk, l, t), lk, L, l, Len(Chain(lk, l)), t)
<1> DEFINE n == Len(Chain(lk, l))
<1>1. n \in Nat /\ n \in 0..n
  BY HousedList
<1>2. Target(lk, l, n) = Null
  BY <1>1, TargetIs DEF At
<1>3. LinkLast(lk, l, t) = SetNext(SetLink(lk, l, n, t), t, Target(lk, l, n))
  BY <1>2 DEF LinkLast
<1>4. QED BY <1>1, <1>3, LinkAt

LEMMA PlaceIs ==
  ASSUME NEW L, NEW lk, NEW h, Housed(lk, L, h), NEW l \in L, NEW t \in Tasks, On(lk, l, t)
  PROVE  /\ Place(lk, l, t) \in 1..Len(Chain(lk, l))
         /\ Chain(lk, l)[Place(lk, l, t)] = t
<1> DEFINE s == Chain(lk, l)
<1>1. NoTwice(s) /\ Len(s) \in Nat
  BY HousedList
<1>2. PICK i \in 1..Len(s) : s[i] = t
  BY DEF On
<1>3. \A j \in 1..i - 1 : s[j] # t
  <2>1. \A j \in 1..i - 1 : j \in 1..Len(s) /\ j # i
    BY <1>1, <1>2
  <2>2. QED BY <1>1, <1>2, <2>1 DEF NoTwice
<1>4. \E k \in 1..Len(s) : s[k] = t /\ \A j \in 1..k - 1 : s[j] # t
  BY <1>2, <1>3
<1>5. Place(lk, l, t) = CHOOSE k \in 1..Len(s) : s[k] = t /\ \A j \in 1..k - 1 : s[j] # t
  BY DEF Place
<1> HIDE DEF s
<1>6. Place(lk, l, t) \in 1..Len(s) /\ s[Place(lk, l, t)] = t
  BY <1>4, <1>5
<1>7. QED BY <1>6 DEF s

(* waitqueue_remove and sched_remove_ready of a task that is on the list ... *)
LEMMA RemoveHouses ==
  ASSUME NEW L, NEW lk, NEW h, NEW g, Housed(lk, L, h), NEW l \in L, NEW t \in Tasks,
         On(lk, l, t),
         NEW nowhere, nowhere \notin L, Moves(h, g, t, nowhere)
  PROVE  /\ Housed(Remove(lk, l, t), L, g)
         /\ Shorter(Remove(lk, l, t), lk, L, l, Place(lk, l, t))
<1> DEFINE i == Place(lk, l, t)
<1>1. i \in 1..Len(Chain(lk, l)) /\ t = Chain(lk, l)[i]
  BY PlaceIs
<1>2. Remove(lk, l, t) = Unlinked(lk, l, i, t)
  BY <1>1 DEF Remove, Unlinked
<1> HIDE DEF i
<1>3. /\ Housed(Unlinked(lk, l, i, t), L, g)
      /\ Shorter(Unlinked(lk, l, i, t), lk, L, l, i)
  BY <1>1, UnlinkAt
<1>4. QED BY <1>2, <1>3 DEF i

(* ... and of one that is not. *)
LEMMA RemoveNothing ==
  ASSUME NEW lk, NEW l, NEW t, ~On(lk, l, t)
  PROVE  Remove(lk, l, t) = lk
BY DEF Remove

(* waitqueue_pop, and the head of the delay list in delay_check_wakeups. *)
LEMMA PopHouses ==
  ASSUME NEW L, NEW lk, NEW h, NEW g, Housed(lk, L, h), NEW l \in L,
         NEW t, t = lk.head[l], t # Null,
         NEW nowhere, nowhere \notin L, Moves(h, g, t, nowhere)
  PROVE  /\ t \in Tasks /\ h[t] = l
         /\ Len(Chain(lk, l)) > 0 /\ t = Chain(lk, l)[1]
         /\ Housed(Pop(lk, l), L, g)
         /\ Shorter(Pop(lk, l), lk, L, l, 1)
<1>1. Len(Chain(lk, l)) \in Nat /\ t = At(Chain(lk, l), 1)
  BY HousedList
<1>2. 1 \in 1..Len(Chain(lk, l)) /\ t = Chain(lk, l)[1]
  BY <1>1 DEF At
<1>3. t \in Tasks /\ h[t] = l
  BY <1>2, HousedList
<1>4. Pop(lk, l) = Unlinked(lk, l, 1, t)
  <2> DEFINE z == 1 - 1
  <2>1. z = 0
    OBVIOUS
  <2> HIDE DEF z
  <2>2. Pop(lk, l) = SetNext(SetLink(lk, l, z, lk.next[t]), t, Null)
    BY <2>1 DEF Pop, SetLink
  <2>3. QED BY <2>2 DEF z, Unlinked
<1>5. Housed(Unlinked(lk, l, 1, t), L, g) /\ Shorter(Unlinked(lk, l, 1, t), lk, L, l, 1)
  BY <1>2, UnlinkAt
<1>6. QED BY <1>1, <1>2, <1>3, <1>4, <1>5

-----------------------------------------------------------------------------
(* The ready queues. *)

ReadyNames == {Ready(p) : p \in Levels}

LEMMA LevelType ==
  ASSUME MaxPriority \in Nat \ {0}, NEW n \in Nat PROVE Level(n) \in Levels /\ Levels \subseteq Nat
BY DEF Level, Levels

LEMMA AddReadyHouses ==
  ASSUME NEW L, NEW lk, NEW h, NEW g, Housed(lk, L, h), NEW t \in Tasks, h[t] \notin L,
         NEW pr, Ready(Level(pr[t])) \in L, Moves(h, g, t, Ready(Level(pr[t])))
  PROVE  /\ Housed(AddReady(lk, pr, t), L, g)
         /\ Longer(AddReady(lk, pr, t), lk, L, Ready(Level(pr[t])),
                   Len(Chain(lk, Ready(Level(pr[t])))), t)
<1> DEFINE l == Ready(Level(pr[t]))
<1>1. l \in L /\ Moves(h, g, t, l)
  OBVIOUS
<1> HIDE DEF l
<1>2. Housed(LinkLast(lk, l, t), L, g) /\ Longer(LinkLast(lk, l, t), lk, L, l, Len(Chain(lk, l)), t)
  BY <1>1, LinkLastHouses
<1>3. QED BY <1>2 DEF AddReady, l

(* sched_remove_ready of a queued task searches no further than its queue ... *)
LEMMA RemoveReadyHouses ==
  ASSUME NEW L, NEW lk, NEW h, NEW g, Housed(lk, L, h), ReadyNames \subseteq L,
         NEW t \in Tasks, NEW p \in Levels, h[t] = Ready(p), NEW pr,
         NEW nowhere, nowhere \notin L, Moves(h, g, t, nowhere)
  PROVE  /\ Housed(RemoveReady(lk, pr, t), L, g)
         /\ Shorter(RemoveReady(lk, pr, t), lk, L, Ready(p), Place(lk, Ready(p), t))
<1> DEFINE hits == {q \in Levels : On(lk, Ready(q), t)}
           own == Level(pr[t])
           l == Ready(p)
<1>1. l \in L
  BY DEF ReadyNames
<1>2. \A q \in Levels : On(lk, Ready(q), t) <=> q = p
  <2>1. \A q \in Levels : Ready(q) \in L
    BY DEF ReadyNames
  <2>2. \A q \in Levels : On(lk, Ready(q), t) <=> h[t] = Ready(q)
    BY <2>1, HousedList
  <2>3. \A q \in Levels : Ready(q) = Ready(p) => q = p
    BY DEF Ready
  <2>4. QED BY <2>2, <2>3
<1>3. hits = {p} /\ On(lk, l, t)
  BY <1>2
<1>4. (IF own \in hits THEN own ELSE CHOOSE x \in hits : \A y \in hits : x <= y) = p
  <2>1. CASE own \in hits
    BY <1>3, <2>1
  <2>2. CASE own \notin hits
    <3>1. p <= p
      BY DEF Levels
    <3>2. \E x \in hits : \A y \in hits : x <= y
      BY <1>3, <3>1
    <3>3. (CHOOSE x \in hits : \A y \in hits : x <= y) \in hits
      BY <3>2
    <3>4. QED BY <1>3, <2>2, <3>3
  <2>3. QED BY <2>1, <2>2
<1>5. RemoveReady(lk, pr, t) = Remove(lk, l, t)
  BY <1>3, <1>4 DEF RemoveReady
<1> HIDE DEF l
<1>6. Housed(Remove(lk, l, t), L, g) /\ Shorter(Remove(lk, l, t), lk, L, l, Place(lk, l, t))
  BY <1>1, <1>3, RemoveHouses
<1>7. QED BY <1>5, <1>6 DEF l

(* ... and for any other task finds nothing. *)
LEMMA RemoveReadyNothing ==
  ASSUME NEW L, NEW lk, NEW h, Housed(lk, L, h), ReadyNames \subseteq L,
         NEW t \in Tasks, h[t] \notin ReadyNames, NEW pr
  PROVE  RemoveReady(lk, pr, t) = lk
<1>1. \A q \in Levels : Ready(q) \in L /\ Ready(q) \in ReadyNames
  BY DEF ReadyNames
<1>2. \A q \in Levels : ~On(lk, Ready(q), t)
  BY <1>1, HousedList
<1>3. QED BY <1>2 DEF RemoveReady

(* A task joins a list that is no ready queue, and then leaves its ready   *)
(* queue, as delay_ticks and sem_wait have it. It is in none, or alone in  *)
(* one, with nobody in the other list: then nothing is cut off.            *)
Enlisted(lk, l, t, passed, pr) == RemoveReady(Insert(lk, l, t, passed), pr, t)
Alone(h, t, l) == /\ h[t] \in ReadyNames
                  /\ \A u \in Tasks \ {t} : h[u] # h[t]
                  /\ \A u \in Tasks : h[u] # l

LEMMA EnlistAlone ==
  ASSUME NEW L, NEW lk, NEW h, NEW g, Housed(lk, L, h), ReadyNames \subseteq L,
         NEW l \in L \ ReadyNames, NEW t \in Tasks, NEW passed, NEW pr,
         Alone(h, t, l), Moves(h, g, t, l)
  PROVE  /\ Housed(Enlisted(lk, l, t, passed, pr), L, g)
         /\ Longer(Enlisted(lk, l, t, passed, pr), lk, L \ ReadyNames, l,
                   Passing(lk, l, passed), t)
<1>1. PICK p \in Levels : h[t] = Ready(p)
  BY DEF Alone, ReadyNames
<1> DEFINE R == Ready(p)
           one == Insert(lk, l, t, passed)
           new == RemoveReady(one, pr, t)
<1>2. /\ R \in L /\ R # l /\ h[t] = R
      /\ \A q \in Levels : Ready(q) \in L /\ Ready(q) # l /\ (Ready(q) = R => q = p)
      /\ \A u \in Tasks : h[u] # l /\ (u # t => h[u] # R)
  BY <1>1 DEF Alone, ReadyNames, Ready
<1>3. lk \in Links(L) /\ lk.head \in [L -> Tasks \cup {Null}] /\ lk.next \in [Tasks -> Tasks \cup {Null}]
  BY HousedList DEF Links
<1>4. Len(Chain(lk, l)) = 0 /\ lk.head[l] = Null /\ Chain(lk, l) \in Seq(Tasks)
  <2>1. /\ Len(Chain(lk, l)) \in Nat /\ Chain(lk, l) \in Seq(Tasks)
        /\ \A i \in 1..Len(Chain(lk, l)) : Chain(lk, l)[i] \in Tasks /\ h[Chain(lk, l)[i]] = l
        /\ lk.head[l] = At(Chain(lk, l), 1)
    BY HousedList
  <2>2. 1 \notin 1..Len(Chain(lk, l))
    BY <1>2, <2>1
  <2>3. QED BY <2>1, <2>2 DEF At
<1>5. /\ Chain(lk, R) \in Seq(Tasks) /\ Len(Chain(lk, R)) = 1 /\ Chain(lk, R)[1] = t
      /\ NoTwice(Chain(lk, R)) /\ lk.head[R] = t
  <2>1. /\ Len(Chain(lk, R)) \in Nat /\ Chain(lk, R) \in Seq(Tasks)
        /\ \A i \in 1..Len(Chain(lk, R)) : Chain(lk, R)[i] \in Tasks /\ h[Chain(lk, R)[i]] = R
        /\ lk.head[R] = At(Chain(lk, R), 1)
        /\ NoTwice(Chain(lk, R)) /\ On(lk, R, t)
    BY <1>2, HousedList
  <2>2. \A i \in 1..Len(Chain(lk, R)) : Chain(lk, R)[i] = t
    BY <1>2, <2>1
  <2>3. PICK k \in 1..Len(Chain(lk, R)) : Chain(lk, R)[k] = t
    BY <2>1 DEF On
  <2>4. \A i \in 1..Len(Chain(lk, R)) : i = k
    BY <2>1, <2>2, <2>3 DEF NoTwice
  <2>5. 1 \in 1..Len(Chain(lk, R)) /\ Len(Chain(lk, R)) \in 1..Len(Chain(lk, R))
    BY <2>1, <2>3
  <2>6. 1 = k /\ Len(Chain(lk, R)) = k
    BY <2>4, <2>5
  <2>7. QED BY <2>1, <2>3, <2>6 DEF At
<1>6. Passing(lk, l, passed) = 0
  <2>1. Passing(lk, l, passed) \in 0..0
    BY <1>4, PassingPlace
  <2>2. QED BY <2>1
<1>7. one = [head |-> [lk.head EXCEPT ![l] = t], next |-> [lk.next EXCEPT ![t] = Null]]
  <2> DEFINE z == Passing(lk, l, passed)
             linked == SetLink(lk, l, z, t)
  <2>1. Target(lk, l, z) = Null
    BY <1>4, <1>6 DEF Target
  <2>2. one = IF z > 0 /\ Chain(lk, l)[z] = t THEN linked
              ELSE SetNext(linked, t, Target(lk, l, z))
    BY DEF Insert
  <2>3. linked = [lk EXCEPT !.head[l] = t]
    BY <1>6 DEF SetLink
  <2>4. z = 0
    BY <1>6
  <2> HIDE DEF z, linked, one
  <2>5. one = SetNext(linked, t, Null)
    BY <2>1, <2>2, <2>4
  <2>6. linked = [head |-> [lk.head EXCEPT ![l] = t], next |-> lk.next]
    BY <1>3, <2>3 DEF Links
  <2>7. QED BY <2>5, <2>6 DEF SetNext
<1> HIDE DEF R, one
<1>8. one \in Links(L) /\ one.head[R] = t /\ one.next[t] = Null
  <2>1. lk.head[R] = t /\ R \in L /\ R # l
    BY <1>2, <1>5
  <2>2. QED BY <1>3, <1>7, <2>1 DEF Links
<1>9. ASSUME NEW m \in L, m # l
      PROVE  Linked(one, m, Chain(lk, m)) /\ Chain(one, m) = Chain(lk, m)
  <2>1. /\ Chain(lk, m) \in Seq(Tasks) /\ Len(Chain(lk, m)) \in Nat
        /\ \A j \in 1..Len(Chain(lk, m)) : /\ Chain(lk, m)[j] \in Tasks
                                          /\ h[Chain(lk, m)[j]] = m
                                          /\ lk.next[Chain(lk, m)[j]] = At(Chain(lk, m), j + 1)
        /\ lk.head[m] = At(Chain(lk, m), 1) /\ NoTwice(Chain(lk, m))
    BY HousedList
  <2>2. one.head[m] = lk.head[m]
    BY <1>3, <1>7, <1>9
  <2>3. ASSUME NEW j \in 1..Len(Chain(lk, m))
        PROVE  one.next[Chain(lk, m)[j]] = At(Chain(lk, m), j + 1)
    <3>1. CASE m = R
      <4> DEFINE s == Chain(lk, m)
      <4>1. Len(s) = 1 /\ s[1] = t /\ j \in 1..Len(s)
        BY <1>5, <3>1
      <4> HIDE DEF s
      <4>2. j = 1 /\ j + 1 \notin 1..Len(s)
        BY <4>1
      <4>3. At(s, j + 1) = Null
        BY <4>2 DEF At
      <4>4. one.next[s[j]] = At(s, j + 1)
        BY <1>8, <4>1, <4>2, <4>3
      <4>5. QED BY <4>4 DEF s
    <3>2. CASE m # R
      <4>1. Chain(lk, m)[j] # t
        BY <1>2, <2>1, <3>2
      <4>2. QED BY <1>3, <1>7, <2>1, <4>1
    <3>3. QED BY <3>1, <3>2
  <2>4. Linked(one, m, Chain(lk, m))
    BY <2>1, <2>2, <2>3 DEF Linked
  <2>5. QED BY <1>8, <2>1, <2>4, ChainOfList
<1>10. \A q \in Levels : On(one, Ready(q), t) <=> q = p
  <2>1. ASSUME NEW q \in Levels PROVE On(one, Ready(q), t) <=> On(lk, Ready(q), t)
    BY <1>2, <1>9 DEF On
  <2>2. \A q \in Levels : On(lk, Ready(q), t) <=> h[t] = Ready(q)
    BY <1>2, HousedList
  <2>3. QED BY <1>2, <2>1, <2>2 DEF R
<1>11. new = Remove(one, R, t)
  <2> DEFINE hits == {q \in Levels : On(one, Ready(q), t)}
             own == Level(pr[t])
  <2>1. hits = {p}
    BY <1>10
  <2>2. (IF own \in hits THEN own ELSE CHOOSE x \in hits : \A y \in hits : x <= y) = p
    <3>1. CASE own \in hits
      BY <2>1, <3>1
    <3>2. CASE own \notin hits
      <4>1. p <= p
        BY DEF Levels
      <4>2. \E x \in hits : \A y \in hits : x <= y
        BY <2>1, <4>1
      <4>3. (CHOOSE x \in hits : \A y \in hits : x <= y) \in hits
        BY <4>2
      <4>4. QED BY <2>1, <3>2, <4>3
    <3>3. QED BY <3>1, <3>2
  <2>3. QED BY <2>1, <2>2 DEF RemoveReady, R
<1>12. On(one, R, t) /\ Place(one, R, t) = 1
  <2>1. Chain(one, R) = Chain(lk, R)
    BY <1>2, <1>9
  <2>2. \A j \in 1..1 - 1 : Chain(lk, R)[j] # t
    OBVIOUS
  <2>3. 1 \in 1..Len(Chain(lk, R))
    BY <1>5
  <2>4. \E i \in 1..Len(Chain(lk, R)) : Chain(lk, R)[i] = t /\ \A j \in 1..i - 1 : Chain(lk, R)[j] # t
    BY <1>5, <2>2, <2>3
  <2> DEFINE s == Chain(lk, R)
  <2>5. Place(one, R, t) = CHOOSE i \in 1..Len(s) : s[i] = t /\ \A j \in 1..i - 1 : s[j] # t
    BY <2>1 DEF Place
  <2>6. Place(one, R, t) \in 1..Len(s)
    BY <2>4, <2>5
  <2>7. Len(s) = 1 /\ s[1] = t
    BY <1>5
  <2> HIDE DEF s
  <2>8. Place(one, R, t) = 1
    BY <2>6, <2>7
  <2>9. \E i \in 1..Len(s) : s[i] = t
    BY <2>7
  <2>10. On(one, R, t)
    BY <2>1, <2>9 DEF On, s
  <2>11. QED BY <2>8, <2>10
<1>13. new = [head |-> [one.head EXCEPT ![R] = Null], next |-> [one.next EXCEPT ![t] = Null]]
  <2> DEFINE z == Place(one, R, t) - 1
  <2>1. z = 0
    BY <1>12
  <2> HIDE DEF z
  <2>2. new = SetNext(SetLink(one, R, z, one.next[t]), t, Null)
    BY <1>11, <1>12 DEF Remove, z
  <2>3. QED BY <1>8, <2>1, <2>2 DEF SetNext, SetLink, Links
<1> HIDE DEF new
<1>14. /\ new \in Links(L)
       /\ new.head[l] = t /\ new.head[R] = Null /\ new.next[t] = Null
       /\ \A m \in L : m # l /\ m # R => new.head[m] = lk.head[m]
       /\ \A u \in Tasks : u # t => new.next[u] = lk.next[u]
  <2>1. new = [head |-> [[lk.head EXCEPT ![l] = t] EXCEPT ![R] = Null],
               next |-> [[lk.next EXCEPT ![t] = Null] EXCEPT ![t] = Null]]
    BY <1>7, <1>13
  <2>2. QED BY <1>2, <1>3, <2>1 DEF Links
<1> DEFINE r == Inserted(Chain(lk, l), 0, t)
           q == [m \in L |-> IF m = l THEN r ELSE IF m = R THEN <<>> ELSE Chain(lk, m)]
<1>15. /\ r \in Seq(Tasks) /\ Len(r) = 1 /\ r[1] = t
       /\ \A u \in Tasks : Member(r, u) <=> u = t
  BY <1>4, InsertedInEmpty
<1> HIDE DEF r
<1>16. <<>> \in Seq(Tasks) /\ Len(<<>>) = 0
  BY EmptySeq
<1>17. ASSUME NEW m \in L
       PROVE  /\ Linked(new, m, q[m])
              /\ NoTwice(q[m])
              /\ \A u \in Tasks : Member(q[m], u) <=> g[u] = m
  <2>1. CASE m = l
    <3>1. Linked(new, l, r)
      BY <1>14, <1>15 DEF Linked, At
    <3>2. NoTwice(r)
      BY <1>15 DEF NoTwice
    <3>3. \A u \in Tasks : Member(r, u) <=> g[u] = l
      BY <1>2, <1>15 DEF Moves
    <3>4. QED BY <2>1, <3>1, <3>2, <3>3
  <2>2. CASE m = R
    <3>1. Linked(new, R, <<>>)
      BY <1>14, <1>16 DEF Linked, At
    <3>2. NoTwice(<<>>)
      BY <1>16 DEF NoTwice
    <3>3. \A u \in Tasks : Member(<<>>, u) <=> g[u] = R
      BY <1>2, <1>16 DEF Moves, Member
    <3>4. QED BY <1>2, <2>2, <3>1, <3>2, <3>3
  <2>3. CASE m # l /\ m # R
    <3>1. /\ Chain(lk, m) \in Seq(Tasks)
          /\ \A j \in 1..Len(Chain(lk, m)) : /\ Chain(lk, m)[j] \in Tasks
                                            /\ h[Chain(lk, m)[j]] = m
                                            /\ lk.next[Chain(lk, m)[j]] = At(Chain(lk, m), j + 1)
          /\ lk.head[m] = At(Chain(lk, m), 1)
      BY HousedList
    <3>2. \A j \in 1..Len(Chain(lk, m)) : Chain(lk, m)[j] # t
      BY <1>2, <2>3, <3>1
    <3>3. Linked(new, m, Chain(lk, m))
      BY <1>14, <2>3, <3>1, <3>2 DEF Linked
    <3>4. NoTwice(Chain(lk, m)) /\ \A u \in Tasks : Member(Chain(lk, m), u) <=> h[u] = m
      BY DEF Housed
    <3>5. QED BY <1>2, <2>3, <3>3, <3>4 DEF Moves
  <2>4. QED BY <2>1, <2>2, <2>3
<1>18. Housed(new, L, g) /\ \A m \in L : Chain(new, m) = q[m]
  <2> HIDE DEF q
  <2>1. QED BY <1>14, <1>17, HousedBy
<1>19. Longer(new, lk, L \ ReadyNames, l, 0, t)
  <2>1. R \in ReadyNames
    BY DEF ReadyNames, R
  <2>2. QED BY <1>18, <2>1 DEF Longer, Others, r
<1>20. QED BY <1>6, <1>18, <1>19 DEF new, one, Enlisted

LEMMA EnlistHouses ==
  ASSUME NEW L, NEW lk, NEW h, NEW g, Housed(lk, L, h), ReadyNames \subseteq L,
         NEW l \in L \ ReadyNames, NEW t \in Tasks, NEW passed, NEW pr,
         h[t] \notin L \/ Alone(h, t, l), Moves(h, g, t, l)
  PROVE  /\ Housed(Enlisted(lk, l, t, passed, pr), L, g)
         /\ Longer(Enlisted(lk, l, t, passed, pr), lk, L \ ReadyNames, l,
                   Passing(lk, l, passed), t)
<1>1. CASE Alone(h, t, l)
  BY <1>1, EnlistAlone
<1>2. CASE h[t] \notin L
  <2>1. /\ Housed(Insert(lk, l, t, passed), L, g)
        /\ Longer(Insert(lk, l, t, passed), lk, L, l, Passing(lk, l, passed), t)
    BY <1>2, InsertHouses
  <2>2. g[t] \notin ReadyNames
    BY DEF Moves
  <2>3. Enlisted(lk, l, t, passed, pr) = Insert(lk, l, t, passed)
    <3> DEFINE one == Insert(lk, l, t, passed)
    <3> HIDE DEF one
    <3>1. Housed(one, L, g)
      BY <2>1 DEF one
    <3>2. RemoveReady(one, pr, t) = one
      BY <2>2, <3>1, RemoveReadyNothing
    <3>3. QED BY <3>2 DEF Enlisted, one
  <2>4. QED BY <2>1, <2>3 DEF Longer, Others
<1>3. QED BY <1>1, <1>2
-----------------------------------------------------------------------------
(* The switch: what select_next_task finds, and moves in the ready queues. *)

(* The search from the highest level down ends at the head of a list, and  *)
(* no task belongs to a higher level.                                      *)
Used(lk) == {p \in Levels : lk.head[Ready(p)] # Null}
Highest(lk) == CHOOSE p \in Used(lk) : \A q \in Used(lk) : q <= p
LEMMA HighestLevel ==
  ASSUME MaxPriority \in Nat \ {0},
         NEW L, NEW lk, NEW h, Housed(lk, L, h), ReadyNames \subseteq L,
         NEW i \in Tasks, h[i] \in ReadyNames
  PROVE  /\ Used(lk) # {} /\ Highest(lk) \in Levels
         /\ lk.head[Ready(Highest(lk))] \in Tasks
         /\ h[lk.head[Ready(Highest(lk))]] = Ready(Highest(lk))
         /\ \A u \in Tasks, q \in Levels : h[u] = Ready(q) => q <= Highest(lk)
<1> DEFINE used == Used(lk)
           p == Highest(lk)
<1>1. ASSUME NEW q \in Levels, NEW u \in Tasks, h[u] = Ready(q)
      PROVE  q \in used
  <2>1. Ready(q) \in L
    BY DEF ReadyNames
  <2>2. On(lk, Ready(q), u) /\ lk.head[Ready(q)] = At(Chain(lk, Ready(q)), 1)
        /\ Len(Chain(lk, Ready(q))) \in Nat
        /\ \A j \in 1..Len(Chain(lk, Ready(q))) : Chain(lk, Ready(q))[j] \in Tasks
    BY <1>1, <2>1, HousedList
  <2>3. 1 \in 1..Len(Chain(lk, Ready(q)))
    BY <2>2 DEF On
  <2>4. lk.head[Ready(q)] \in Tasks
    BY <2>2, <2>3 DEF At
  <2>5. QED BY <2>4, ListAssumption DEF Used
<1>2. PICK p0 \in Levels : h[i] = Ready(p0)
  BY DEF ReadyNames
<1>3. used # {} /\ used \subseteq 0..MaxPriority - 1 /\ MaxPriority \in Nat
  BY <1>1, <1>2 DEF Levels, Used
<1>4. p \in used /\ \A y \in used : y <= p
  <2>1. \E x \in used : \A y \in used : y <= x
    BY <1>3, GreatestNat
  <2>2. QED BY <2>1 DEF Highest
<1>5. p \in Levels /\ lk.head[Ready(p)] # Null /\ Ready(p) \in L
  BY <1>4 DEF ReadyNames, Used
<1> HIDE DEF p
<1>6. /\ lk.head[Ready(p)] = At(Chain(lk, Ready(p)), 1)
      /\ \A j \in 1..Len(Chain(lk, Ready(p))) : /\ Chain(lk, Ready(p))[j] \in Tasks
                                               /\ h[Chain(lk, Ready(p))[j]] = Ready(p)
  <2>1. PICK l \in L : l = Ready(p)
    BY <1>5
  <2>2. /\ \A j \in 1..Len(Chain(lk, l)) : Chain(lk, l)[j] \in Tasks /\ h[Chain(lk, l)[j]] = l
        /\ lk.head[l] = At(Chain(lk, l), 1)
    BY HousedList
  <2>3. QED BY <2>1, <2>2
<1>7. 1 \in 1..Len(Chain(lk, Ready(p))) /\ lk.head[Ready(p)] = Chain(lk, Ready(p))[1]
  BY <1>5, <1>6 DEF At
<1>8. QED BY <1>1, <1>3, <1>4, <1>5, <1>6, <1>7 DEF p

LEMMA OthersTrans ==
  ASSUME NEW a, NEW b, NEW c, NEW L, Others(a, b, L), Others(b, c, L)
  PROVE  Others(a, c, L)
BY DEF Others

(* Off the ready queue it may be in and to the end of that of its level.   *)
LEMMA MovedInReady ==
  ASSUME MaxPriority \in Nat \ {0},
         NEW L, NEW lk, NEW h, NEW g, NEW t \in Tasks, NEW pr, pr[t] \in Nat,
         Housed(lk, L, h), ReadyNames \subseteq L, h[t] \in ReadyNames \/ h[t] \notin L,
         Moves(h, g, t, Ready(Level(pr[t]))),
         NEW nowhere, nowhere \notin L
  PROVE  /\ Housed(AddReady(RemoveReady(lk, pr, t), pr, t), L, g)
         /\ Others(AddReady(RemoveReady(lk, pr, t), pr, t), lk, L \ ReadyNames)
<1> DEFINE l == Ready(Level(pr[t]))
           mid == RemoveReady(lk, pr, t)
           f == [u \in Tasks |-> IF u = t THEN nowhere ELSE h[u]]
<1>1. l \in L /\ l \in ReadyNames
  BY LevelType DEF ReadyNames
<1>2. Moves(h, f, t, nowhere) /\ f[t] = nowhere
  BY DEF Moves
<1>3. Moves(f, g, t, l) /\ Moves(h, g, t, l)
  BY DEF Moves
<1> HIDE DEF l, f
<1>4. /\ \/ Housed(mid, L, f)
         \/ Housed(mid, L, h) /\ h[t] \notin L
      /\ Others(mid, lk, L \ ReadyNames)
  <2>1. CASE h[t] \in ReadyNames
    <3>1. PICK p \in Levels : h[t] = Ready(p)
      BY <2>1 DEF ReadyNames
    <3>2. Housed(mid, L, f) /\ Shorter(mid, lk, L, Ready(p), Place(lk, Ready(p), t))
      BY <1>2, <3>1, RemoveReadyHouses
    <3>3. Others(mid, lk, L \ ReadyNames)
      BY <3>1, <3>2 DEF Shorter, Others, ReadyNames
    <3>4. QED BY <3>2, <3>3
  <2>2. CASE h[t] \notin L
    <3>1. mid = lk
      <4>1. h[t] \notin ReadyNames
        BY <2>2
      <4>2. QED BY <4>1, RemoveReadyNothing
    <3>2. QED BY <2>2, <3>1 DEF Others
  <2>3. QED BY <2>1, <2>2
<1> HIDE DEF mid
<1>5. /\ Housed(AddReady(mid, pr, t), L, g)
      /\ Longer(AddReady(mid, pr, t), mid, L, l, Len(Chain(mid, l)), t)
  <2>1. CASE Housed(mid, L, f)
    <3>1. f[t] \notin L
      BY <1>2
    <3>2. QED BY <1>1, <1>3, <2>1, <3>1, AddReadyHouses DEF l
  <2>2. CASE Housed(mid, L, h) /\ h[t] \notin L
    BY <1>1, <1>3, <2>2, AddReadyHouses DEF l
  <2>3. QED BY <1>4, <2>1, <2>2
<1>6. Others(AddReady(mid, pr, t), mid, L \ ReadyNames)
  BY <1>1, <1>5 DEF Longer, Others
<1>7. QED BY <1>4, <1>5, <1>6, OthersTrans DEF mid

-----------------------------------------------------------------------------
(* Sorted lists. *)

Ascending(s, key) == \A i, j \in 1..Len(s) : i < j => key[s[i]] <= key[s[j]]

LEMMA AscendingWithout ==
  ASSUME NEW s \in Seq(Tasks), NEW i \in 1..Len(s), NoTwice(s), NEW key, Ascending(s, key)
  PROVE  Ascending(Without(s, i), key)
<1> DEFINE r == Without(s, i)
<1>1. Len(s) \in Nat /\ i \in Int
  BY TypeOfSeq
<1>2. /\ Len(r) = Len(s) - 1
      /\ \A j \in 1..i - 1 : r[j] = s[j]
      /\ \A j \in i..Len(s) - 1 : r[j] = s[j + 1]
  BY WithoutShape
<1> HIDE DEF r
<1>3. ASSUME NEW j \in 1..Len(r), NEW k \in 1..Len(r), j < k
      PROVE  key[r[j]] <= key[r[k]]
  <2> DEFINE a == IF j < i THEN j ELSE j + 1
             b == IF k < i THEN k ELSE k + 1
  <2>1. a \in 1..Len(s) /\ b \in 1..Len(s) /\ a < b
    BY <1>1, <1>2, <1>3
  <2>2. r[j] = s[a]
    <3>1. CASE j < i
      BY <1>1, <1>2, <3>1
    <3>2. CASE j >= i
      <4>1. j \in i..Len(s) - 1
        BY <1>1, <1>2, <3>2
      <4>2. QED BY <1>2, <3>2, <4>1
    <3>3. QED BY <1>1, <3>1, <3>2
  <2>3. r[k] = s[b]
    <3>1. CASE k < i
      BY <1>1, <1>2, <3>1
    <3>2. CASE k >= i
      <4>1. k \in i..Len(s) - 1
        BY <1>1, <1>2, <3>2
      <4>2. QED BY <1>2, <3>2, <4>1
    <3>3. QED BY <1>1, <3>1, <3>2
  <2> HIDE DEF a, b
  <2>4. QED BY <2>1, <2>2, <2>3 DEF Ascending
<1>4. QED BY <1>3 DEF Ascending, r

LEMMA AscendingInserted ==
  ASSUME NEW s \in Seq(Tasks), NEW i \in 0..Len(s), NEW t \in Tasks,
         NEW key \in [Tasks -> Int], Ascending(s, key),
         \A j \in 1..i : key[s[j]] <= key[t],
         i < Len(s) => key[t] <= key[s[i + 1]]
  PROVE  Ascending(Inserted(s, i, t), key)
<1> DEFINE r == Inserted(s, i, t)
<1>1. Len(s) \in Nat /\ i \in Int /\ i >= 0 /\ \A j \in 1..Len(s) : s[j] \in Tasks
  BY TypeOfSeq
<1>2. /\ Len(r) = Len(s) + 1
      /\ \A j \in 1..i : r[j] = s[j]
      /\ r[i + 1] = t
      /\ \A j \in i + 1..Len(s) : r[j + 1] = s[j]
  <2>1. /\ Inserted(s, i, t) \in Seq(Tasks)
        /\ Len(Inserted(s, i, t)) = Len(s) + 1
        /\ \A j \in 1..i : Inserted(s, i, t)[j] = s[j]
        /\ Inserted(s, i, t)[i + 1] = t
        /\ \A j \in i + 1..Len(s) : Inserted(s, i, t)[j + 1] = s[j]
        /\ \A u \in Tasks : Member(Inserted(s, i, t), u) <=> u = t \/ Member(s, u)
    BY InsertedShape, Zenon
  <2>2. QED BY <2>1, Zenon
<1> HIDE DEF r
<1>3. ASSUME NEW j \in i + 1..Len(s) PROVE key[t] <= key[s[j]]
  <2>1. i + 1 \in 1..Len(s) /\ j \in 1..Len(s) /\ i < Len(s)
    BY <1>1, <1>3
  <2>2. key[t] <= key[s[i + 1]] /\ (i + 1 < j => key[s[i + 1]] <= key[s[j]])
    BY <2>1 DEF Ascending
  <2>3. key[t] \in Int /\ key[s[i + 1]] \in Int /\ key[s[j]] \in Int
    BY <1>1, <2>1
  <2>4. CASE j = i + 1
    BY <2>2, <2>4
  <2>5. CASE i + 1 < j
    BY <2>2, <2>3, <2>5
  <2>6. QED BY <1>1, <2>4, <2>5
<1>4. ASSUME NEW j \in 1..Len(r), NEW k \in 1..Len(r), j < k
      PROVE  key[r[j]] <= key[r[k]]
  <2>1. CASE k <= i
    <3>1. j \in 1..i /\ k \in 1..i /\ j \in 1..Len(s) /\ k \in 1..Len(s)
      BY <1>1, <1>4, <2>1
    <3>2. QED BY <1>2, <1>4, <3>1 DEF Ascending
  <2>2. CASE k = i + 1
    <3>1. j \in 1..i
      BY <1>1, <1>4, <2>2
    <3>2. QED BY <1>2, <2>2, <3>1
  <2>3. CASE k > i + 1
    <3>1. k - 1 \in i + 1..Len(s) /\ k - 1 \in 1..Len(s)
      BY <1>1, <1>2, <2>3
    <3>2. r[k] = s[k - 1]
      <4>1. r[(k - 1) + 1] = s[k - 1]
        BY <1>2, <3>1
      <4>2. QED BY <4>1
    <3>3. CASE j <= i
      <4>1. j \in 1..i /\ j \in 1..Len(s) /\ j < k - 1
        BY <1>1, <2>3, <3>3
      <4>2. QED BY <1>2, <3>1, <3>2, <4>1 DEF Ascending
    <3>4. CASE j = i + 1
      BY <1>2, <1>3, <3>1, <3>2, <3>4
    <3>5. CASE j > i + 1
      <4>1. j - 1 \in i + 1..Len(s) /\ j - 1 \in 1..Len(s) /\ j - 1 < k - 1
        BY <1>1, <1>2, <1>4, <3>5
      <4>2. r[(j - 1) + 1] = s[j - 1]
        BY <1>2, <4>1
      <4>3. r[j] = s[j - 1]
        BY <4>2
      <4>4. key[s[j - 1]] <= key[s[k - 1]]
        BY <3>1, <4>1 DEF Ascending
      <4>5. QED BY <3>2, <4>3, <4>4
    <3>6. QED BY <1>1, <3>3, <3>4, <3>5
  <2>4. QED BY <1>1, <2>1, <2>2, <2>3
<1>5. QED BY <1>4 DEF Ascending, r
=============================================================================
