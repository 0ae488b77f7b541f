--------------------------- MODULE Scheduling_proofs ---------------------------
(***************************************************************************)
(* Proofs about the pure functions of Scheduling, for any stories, any     *)
(* dependencies and any number of slots: what a selection keeps, what a    *)
(* plan may contain, and in which order the launches of the team come.     *)
(*                                                                         *)
(* Induction is stated once, for a set of numbers (UpwardInduction), and   *)
(* follows from the well-founded order of the naturals.                    *)
(***************************************************************************)
EXTENDS Scheduling, SequenceTheorems, FiniteSetTheorems, WellFoundedInduction,
        TLAPS

-----------------------------------------------------------------------------
(* A set of natural numbers has a smallest element. *)
LEMMA Smallest ==
  ASSUME NEW T \in SUBSET Nat, T # {}
  PROVE  \E n \in T : \A m \in T : n <= m
<1> DEFINE R == OpToRel(<, Nat)
<1>1. IsWellFoundedOn(R, Nat)
  BY NatLessThanWellFounded
<1>2. \A m, n \in Nat : m < n => <<m, n>> \in R
  BY DEF OpToRel
<1> HIDE DEF R
<1>3. PICK n \in T : \A m \in T : ~(<<m, n>> \in R)
  BY <1>1, WFMin
<1>4. ASSUME NEW m \in T PROVE n <= m
  <2>1. m \in Nat /\ n \in Nat
    OBVIOUS
  <2>2. ~(<<m, n>> \in R)
    BY <1>3
  <2>3. ~(m < n)
    BY <2>1, <2>2, <1>2, Zenon
  <2>4. QED BY <2>1, <2>3
<1>5. QED BY <1>4

(* A set that holds zero, and with each number below a bound the next one, *)
(* holds all numbers up to the bound. *)
LEMMA UpwardInduction ==
  ASSUME NEW b \in Nat, NEW T,
         0 \in T,
         \A n \in 0 .. b - 1 : n \in T => n + 1 \in T
  PROVE  \A n \in 0 .. b : n \in T
<1> DEFINE Rest == {n \in 0 .. b : n \notin T}
<1> SUFFICES ASSUME Rest # {} PROVE FALSE
  OBVIOUS
<1>1. PICK n \in Rest : \A m \in Rest : n <= m
  <2>1. Rest \in SUBSET Nat
    OBVIOUS
  <2> HIDE DEF Rest
  <2>2. QED BY <2>1, Smallest
<1>2. n \in 1 .. b /\ n \notin T
  OBVIOUS
<1>3. n - 1 \in 0 .. b - 1 /\ n - 1 + 1 = n /\ n - 1 \notin Rest
  BY <1>1, <1>2
<1>4. n - 1 \in T
  BY <1>3
<1>5. QED BY <1>2, <1>3, <1>4

-----------------------------------------------------------------------------
(* The recursion of SelectedUpTo has a solution, so it is one. *)
LEMMA SelectedUpToDef ==
  ASSUME NEW X, NEW q \in Seq(X), NEW S
  PROVE  SelectedUpTo(q, S) =
           [n \in 0 .. Len(q) |->
              IF n = 0 THEN <<>>
              ELSE IF q[n] \in S
                   THEN Append(SelectedUpTo(q, S)[n - 1], q[n])
                   ELSE SelectedUpTo(q, S)[n - 1]]
<1> DEFINE Step(f, n) == IF n = 0 THEN <<>>
                         ELSE IF q[n] \in S THEN Append(f[n - 1], q[n])
                                            ELSE f[n - 1]
           Solves(f, b) == f = [n \in 0 .. b |-> Step(f, n)]
           Solved == {b \in Nat : \E f : Solves(f, b)}
<1>1. Len(q) \in Nat
  OBVIOUS
<1>2. 0 \in Solved
  <2>1. Solves([n \in 0 .. 0 |-> <<>>], 0)
    OBVIOUS
  <2>2. QED BY <2>1
<1>3. ASSUME NEW b \in 0 .. Len(q) - 1, b \in Solved
      PROVE  b + 1 \in Solved
  <2>1. PICK f : Solves(f, b)
    BY <1>3
  <2> DEFINE g == [n \in 0 .. b + 1 |-> IF n = b + 1 THEN Step(f, n)
                                                    ELSE f[n]]
  <2>2. ASSUME NEW n \in 0 .. b + 1 PROVE g[n] = Step(g, n)
    <3>1. \A m \in 0 .. b : g[m] = f[m]
      OBVIOUS
    <3>2. CASE n = b + 1
      <4>1. n # 0 /\ n - 1 \in 0 .. b /\ g[n - 1] = f[n - 1]
        BY <3>1, <3>2
      <4>2. g[n] = Step(f, n)
        BY <3>2
      <4>3. QED BY <4>1, <4>2
    <3>3. CASE n # b + 1
      <4>1. n \in 0 .. b /\ g[n] = f[n]
        BY <3>1, <3>3
      <4>2. f[n] = Step(f, n)
        BY <2>1, <4>1
      <4>3. n # 0 => n - 1 \in 0 .. b /\ g[n - 1] = f[n - 1]
        BY <3>1, <4>1
      <4>4. QED BY <4>1, <4>2, <4>3
    <3>4. QED BY <3>2, <3>3
  <2>3. g = [n \in 0 .. b + 1 |-> Step(g, n)]
    <3> HIDE DEF Step
    <3>1. QED BY <2>2
  <2> HIDE DEF g
  <2>4. QED BY <2>3
<1>4. Len(q) \in Solved
  <2> HIDE DEF Solved
  <2>1. \A n \in 0 .. Len(q) - 1 : n \in Solved => n + 1 \in Solved
    BY <1>3
  <2>2. \A n \in 0 .. Len(q) : n \in Solved
    BY <1>1, <1>2, <2>1, UpwardInduction
  <2>3. QED BY <1>1, <2>2
<1>5. PICK h : Solves(h, Len(q))
  BY <1>4
<1>6. SelectedUpTo(q, S) = CHOOSE g : Solves(g, Len(q))
  BY DEF SelectedUpTo
<1>7. Solves(SelectedUpTo(q, S), Len(q))
  <2> HIDE DEF Solves
  <2>1. QED BY <1>5, <1>6
<1>8. QED BY <1>7

(* The first step and the next one of a selection. *)
LEMMA SelectedUpToSteps ==
  ASSUME NEW X, NEW q \in Seq(X), NEW S
  PROVE  /\ SelectedUpTo(q, S)[0] = <<>>
         /\ \A n \in 1 .. Len(q) :
              SelectedUpTo(q, S)[n] =
                IF q[n] \in S THEN Append(SelectedUpTo(q, S)[n - 1], q[n])
                              ELSE SelectedUpTo(q, S)[n - 1]
<1> DEFINE f == SelectedUpTo(q, S)
           Step(n) == IF n = 0 THEN <<>>
                      ELSE IF q[n] \in S THEN Append(f[n - 1], q[n])
                                         ELSE f[n - 1]
<1>1. Len(q) \in Nat
  OBVIOUS
<1>2. f = [n \in 0 .. Len(q) |-> Step(n)]
  BY SelectedUpToDef
<1> HIDE DEF f
<1>3. \A n \in 0 .. Len(q) : f[n] = Step(n)
  <2> HIDE DEF Step
  <2>1. QED BY <1>2
<1>4. f[0] = <<>>
  BY <1>1, <1>3
<1>5. ASSUME NEW n \in 1 .. Len(q)
      PROVE  f[n] = IF q[n] \in S THEN Append(f[n - 1], q[n]) ELSE f[n - 1]
  <2>1. n \in 0 .. Len(q) /\ n # 0
    OBVIOUS
  <2>2. QED BY <1>3, <2>1
<1>6. QED BY <1>4, <1>5 DEF f

(* A selection is a sequence of the selected elements of the sequence, no *)
(* longer than what it is selected from. *)
LEMMA SelectedUpToTyped ==
  ASSUME NEW X, NEW q \in Seq(X), NEW S
  PROVE  \A n \in 0 .. Len(q) : /\ SelectedUpTo(q, S)[n] \in Seq(X \cap S)
                                /\ SelectedUpTo(q, S)[n] \in Seq(X)
                                /\ Len(SelectedUpTo(q, S)[n]) <= n
<1> DEFINE f == SelectedUpTo(q, S)
           Good == {n \in 0 .. Len(q) : f[n] \in Seq(X \cap S) /\ Len(f[n]) <= n}
<1>1. Len(q) \in Nat /\ \A n \in 1 .. Len(q) : q[n] \in X
  OBVIOUS
<1>2. /\ f[0] = <<>>
      /\ \A n \in 1 .. Len(q) :
           f[n] = IF q[n] \in S THEN Append(f[n - 1], q[n]) ELSE f[n - 1]
  BY SelectedUpToSteps
<1> HIDE DEF f
<1>3. 0 \in Good
  <2>1. f[0] \in Seq(X \cap S) /\ Len(f[0]) = 0
    BY <1>2
  <2>2. QED BY <1>1, <2>1
<1>4. ASSUME NEW n \in 0 .. Len(q) - 1, n \in Good
      PROVE  n + 1 \in Good
  <2>1. n + 1 \in 1 .. Len(q) /\ (n + 1) - 1 = n
    BY <1>1
  <2>2. f[n + 1] = IF q[n + 1] \in S THEN Append(f[n], q[n + 1]) ELSE f[n]
    BY <1>2, <2>1
  <2>3. q[n + 1] \in S => q[n + 1] \in X \cap S
    BY <1>1, <2>1
  <2>4. f[n] \in Seq(X \cap S) /\ Len(f[n]) <= n /\ Len(f[n]) \in Nat
    BY <1>4
  <2>5. f[n + 1] \in Seq(X \cap S) /\ Len(f[n + 1]) <= n + 1
    BY <2>1, <2>2, <2>3, <2>4
  <2>6. QED BY <2>1, <2>5
<1>5. \A n \in 0 .. Len(q) : n \in Good
  <2> HIDE DEF Good
  <2>1. \A n \in 0 .. Len(q) - 1 : n \in Good => n + 1 \in Good
    BY <1>4
  <2>2. QED BY <1>1, <1>3, <2>1, UpwardInduction
<1>6. Seq(X \cap S) \subseteq Seq(X)
  BY SeqMonotonic
<1>7. QED BY <1>5, <1>6 DEF f

(* A selection is a sequence of the selected elements. *)
LEMMA SelectedTyped ==
  ASSUME NEW X, NEW q \in Seq(X), NEW S
  PROVE  /\ Selected(q, S) \in Seq(X \cap S)
         /\ Selected(q, S) \in Seq(X)
         /\ Len(Selected(q, S)) <= Len(q)
<1>1. Len(q) \in 0 .. Len(q)
  OBVIOUS
<1>2. QED BY <1>1, SelectedUpToTyped DEF Selected

(* Nothing that is in the set is left out of a selection. *)
LEMMA SelectedComplete ==
  ASSUME NEW X, NEW q \in Seq(X), NEW S, NEW i \in 1 .. Len(q), q[i] \in S
  PROVE  q[i] \in Elements(Selected(q, S))
<1> DEFINE f == SelectedUpTo(q, S)
           Good == {n \in 0 .. Len(q) :
                      i <= n => q[i] \in Elements(f[n])}
<1>1. Len(q) \in Nat /\ \A n \in 1 .. Len(q) : q[n] \in X
  OBVIOUS
<1>2. /\ f[0] = <<>>
      /\ \A n \in 1 .. Len(q) :
           f[n] = IF q[n] \in S THEN Append(f[n - 1], q[n]) ELSE f[n - 1]
  BY SelectedUpToSteps
<1>3. \A n \in 0 .. Len(q) : f[n] \in Seq(X)
  BY SelectedUpToTyped
<1> HIDE DEF f
<1>4. 0 \in Good
  BY <1>1, <1>2
<1>5. ASSUME NEW n \in 0 .. Len(q) - 1, n \in Good
      PROVE  n + 1 \in Good
  <2>1. n + 1 \in 1 .. Len(q) /\ (n + 1) - 1 = n /\ n \in 0 .. Len(q)
    BY <1>1
  <2>2. f[n + 1] = IF q[n + 1] \in S THEN Append(f[n], q[n + 1]) ELSE f[n]
    BY <1>2, <2>1
  <2>3. f[n] \in Seq(X)
    BY <1>3, <2>1
  <2>4. CASE i <= n
    <3>1. PICK k \in 1 .. Len(f[n]) : f[n][k] = q[i]
      BY <1>5, <2>4 DEF Elements
    <3>2. k \in 1 .. Len(f[n + 1]) /\ f[n + 1][k] = q[i]
      BY <2>2, <2>3, <3>1
    <3>3. QED BY <2>1, <3>2 DEF Elements
  <2>5. CASE i = n + 1
    <3>1. f[n + 1] = Append(f[n], q[i])
      BY <2>2, <2>5
    <3>2. Len(f[n]) + 1 \in 1 .. Len(f[n + 1])
            /\ f[n + 1][Len(f[n]) + 1] = q[i]
      BY <2>3, <3>1
    <3>3. QED BY <2>1, <3>2 DEF Elements
  <2>6. CASE ~(i <= n + 1)
    BY <2>1, <2>6
  <2>7. QED BY <2>1, <2>4, <2>5, <2>6
<1>6. \A n \in 0 .. Len(q) : n \in Good
  <2> HIDE DEF Good
  <2>1. \A n \in 0 .. Len(q) - 1 : n \in Good => n + 1 \in Good
    BY <1>5
  <2>2. QED BY <1>1, <1>4, <2>1, UpwardInduction
<1>7. QED BY <1>1, <1>6 DEF Selected, f

(* The members of a sequence, and of two joined ones. *)
LEMMA ElementsTyped ==
  ASSUME NEW X, NEW q \in Seq(X)
  PROVE  Elements(q) \subseteq X /\ q \in Seq(Elements(q))
<1>1. Len(q) \in Nat /\ \A i \in 1 .. Len(q) : q[i] \in X
  OBVIOUS
<1>2. \A i \in 1 .. Len(q) : q[i] \in Elements(q)
  BY DEF Elements
<1>3. Elements(q) \subseteq X
  BY <1>1 DEF Elements
<1>4. q \in Seq(Elements(q))
  <2> DEFINE E == Elements(q)
  <2> HIDE DEF E
  <2>1. \A i \in 1 .. Len(q) : q[i] \in E
    BY <1>2 DEF E
  <2>2. q = [i \in 1 .. Len(q) |-> q[i]]
    OBVIOUS
  <2>3. QED BY <1>1, <2>1, <2>2 DEF E
<1>5. QED BY <1>3, <1>4

(* A concatenation has the elements of both sequences. *)
LEMMA ElementsOfConcat ==
  ASSUME NEW X, NEW q \in Seq(X), NEW r \in Seq(X)
  PROVE  /\ q \o r \in Seq(X)
         /\ Elements(q \o r) = Elements(q) \cup Elements(r)
<1>1. /\ q \o r \in Seq(X)
      /\ Len(q \o r) = Len(q) + Len(r)
      /\ \A i \in 1 .. Len(q) + Len(r) :
           (q \o r)[i] = IF i <= Len(q) THEN q[i] ELSE r[i - Len(q)]
  BY ConcatProperties
<1>2. Len(q) \in Nat /\ Len(r) \in Nat
  OBVIOUS
<1> DEFINE c == q \o r
<1> HIDE DEF c
<1>3. ASSUME NEW i \in 1 .. Len(c)
      PROVE  c[i] \in Elements(q) \cup Elements(r)
  <2>1. CASE i <= Len(q)
    BY <1>1, <1>2, <2>1 DEF Elements, c
  <2>2. CASE ~(i <= Len(q))
    <3>1. i - Len(q) \in 1 .. Len(r) /\ c[i] = r[i - Len(q)]
      BY <1>1, <1>2, <2>2 DEF c
    <3>2. QED BY <3>1 DEF Elements
  <2>3. QED BY <2>1, <2>2
<1>4. ASSUME NEW i \in 1 .. Len(q) PROVE q[i] \in Elements(c)
  <2>1. i \in 1 .. Len(c) /\ c[i] = q[i]
    BY <1>1, <1>2 DEF c
  <2>2. QED BY <2>1 DEF Elements
<1>5. ASSUME NEW i \in 1 .. Len(r) PROVE r[i] \in Elements(c)
  <2>1. /\ Len(q) + i \in 1 .. Len(c)
        /\ ~(Len(q) + i <= Len(q)) /\ (Len(q) + i) - Len(q) = i
    BY <1>1, <1>2 DEF c
  <2>2. c[Len(q) + i] = r[i]
    BY <1>1, <2>1 DEF c
  <2>3. QED BY <2>1, <2>2 DEF Elements
<1>6. QED BY <1>1, <1>3, <1>4, <1>5 DEF Elements, c

(* A selection holds exactly what is in both. *)
LEMMA SelectedElements ==
  ASSUME NEW X, NEW q \in Seq(X), NEW S
  PROVE  Elements(Selected(q, S)) = Elements(q) \cap S
<1>1. q \in Seq(Elements(q))
  BY ElementsTyped
<1>2. Elements(Selected(q, S)) \subseteq Elements(q) \cap S
  <2>1. Selected(q, S) \in Seq(Elements(q) \cap S)
    BY <1>1, SelectedTyped
  <2>2. QED BY <2>1, ElementsTyped
<1>3. \A i \in 1 .. Len(q) : q[i] \in S => q[i] \in Elements(Selected(q, S))
  BY SelectedComplete
<1>4. Elements(q) \cap S \subseteq Elements(Selected(q, S))
  BY <1>3 DEF Elements
<1>5. QED BY <1>2, <1>4

(* Where the members of a class come first, they do so in a selection. *)
ComeFirst(A, q) == \A i, j \in 1 .. Len(q) : i < j /\ q[j] \in A => q[i] \in A

(* Selecting keeps what comes first first. *)
LEMMA SelectedInOrder ==
  ASSUME NEW X, NEW q \in Seq(X), NEW S, NEW A, ComeFirst(A, q)
  PROVE  ComeFirst(A, Selected(q, S))
<1> DEFINE f == SelectedUpTo(q, S)
           From(n) == \A k \in 1 .. Len(f[n]) : \E i \in 1 .. n : f[n][k] = q[i]
           Good == {n \in 0 .. Len(q) : From(n) /\ ComeFirst(A, f[n])}
<1>1. Len(q) \in Nat
  OBVIOUS
<1>2. /\ f[0] = <<>>
      /\ \A n \in 1 .. Len(q) :
           f[n] = IF q[n] \in S THEN Append(f[n - 1], q[n]) ELSE f[n - 1]
  BY SelectedUpToSteps
<1>3. \A n \in 0 .. Len(q) : f[n] \in Seq(X)
  BY SelectedUpToTyped
<1>4. Selected(q, S) = f[Len(q)]
  BY DEF Selected
<1> HIDE DEF f
<1>5. 0 \in Good
  <2>1. Len(f[0]) = 0
    BY <1>2
  <2>2. QED BY <1>1, <2>1 DEF ComeFirst
<1>6. ASSUME NEW n \in 0 .. Len(q) - 1, n \in Good
      PROVE  n + 1 \in Good
  <2>1. n + 1 \in 1 .. Len(q) /\ (n + 1) - 1 = n /\ n \in 0 .. Len(q)
    BY <1>1
  <2>2. f[n + 1] = IF q[n + 1] \in S THEN Append(f[n], q[n + 1]) ELSE f[n]
    BY <1>2, <2>1
  <2>3. f[n] \in Seq(X) /\ q[n + 1] \in X
    BY <1>3, <2>1
  <2>4. From(n) /\ ComeFirst(A, f[n])
    BY <1>6
  <2>5. CASE q[n + 1] \notin S
    <3>1. f[n + 1] = f[n]
      BY <2>2, <2>5
    <3>2. ASSUME NEW k \in 1 .. Len(f[n])
          PROVE  \E i \in 1 .. n + 1 : f[n][k] = q[i]
      <4>1. PICK i \in 1 .. n : f[n][k] = q[i]
        BY <2>4
      <4>2. i \in 1 .. n + 1
        OBVIOUS
      <4>3. QED BY <4>1, <4>2
    <3>3. From(n + 1)
      BY <3>1, <3>2
    <3>4. ComeFirst(A, f[n + 1])
      BY <2>4, <3>1
    <3>5. QED BY <2>1, <3>3, <3>4
  <2>6. CASE q[n + 1] \in S
    <3>1. /\ Len(f[n]) \in Nat
          /\ Len(f[n + 1]) = Len(f[n]) + 1
          /\ f[n + 1][Len(f[n]) + 1] = q[n + 1]
          /\ \A k \in 1 .. Len(f[n]) : f[n + 1][k] = f[n][k]
      BY <2>2, <2>3, <2>6
    <3>2. ASSUME NEW k \in 1 .. Len(f[n + 1])
          PROVE  \E i \in 1 .. n + 1 : f[n + 1][k] = q[i]
      <4>1. CASE k = Len(f[n]) + 1
        BY <2>1, <3>1, <4>1
      <4>2. CASE k # Len(f[n]) + 1
        <5>1. k \in 1 .. Len(f[n])
          BY <3>1, <4>2
        <5>2. PICK i \in 1 .. n : f[n][k] = q[i]
          BY <2>4, <5>1
        <5>3. i \in 1 .. n + 1
          OBVIOUS
        <5>4. QED BY <3>1, <5>1, <5>2, <5>3
      <4>3. QED BY <4>1, <4>2
    <3>3. ASSUME NEW i \in 1 .. Len(f[n + 1]), NEW j \in 1 .. Len(f[n + 1]),
                 i < j, f[n + 1][j] \in A
          PROVE  f[n + 1][i] \in A
      <4>1. i \in 1 .. Len(f[n]) /\ f[n + 1][i] = f[n][i]
        BY <3>1, <3>3
      <4>2. CASE j = Len(f[n]) + 1
        <5>1. q[n + 1] \in A
          BY <3>1, <3>3, <4>2
        <5>2. PICK m \in 1 .. n : f[n][i] = q[m]
          BY <2>4, <4>1
        <5>3. m \in 1 .. Len(q) /\ m < n + 1
          BY <1>1, <2>1
        <5>4. q[m] \in A
          BY <2>1, <5>1, <5>3 DEF ComeFirst
        <5>5. QED BY <4>1, <5>2, <5>4
      <4>3. CASE j # Len(f[n]) + 1
        <5>1. j \in 1 .. Len(f[n]) /\ f[n][j] \in A
          BY <3>1, <3>3, <4>3
        <5>2. QED BY <2>4, <3>3, <4>1, <5>1 DEF ComeFirst
      <4>4. QED BY <4>2, <4>3
    <3>4. From(n + 1) /\ ComeFirst(A, f[n + 1])
      BY <3>2, <3>3 DEF ComeFirst
    <3>5. QED BY <2>1, <3>4
  <2>7. QED BY <2>5, <2>6
<1>7. \A n \in 0 .. Len(q) : n \in Good
  <2> HIDE DEF Good
  <2>1. \A n \in 0 .. Len(q) - 1 : n \in Good => n + 1 \in Good
    BY <1>6
  <2>2. QED BY <1>1, <1>5, <2>1, UpwardInduction
<1>8. QED BY <1>1, <1>4, <1>7

(* The members of a sequence are finitely many. *)
LEMMA ElementsFinite ==
  ASSUME NEW X, NEW q \in Seq(X)
  PROVE  IsFiniteSet(Elements(q))
<1> DEFINE E == Elements(q)
<1>1. \A i \in 1 .. Len(q) : q[i] \in E
  BY DEF Elements
<1>2. \A e \in E : \E i \in 1 .. Len(q) : q[i] = e
  BY DEF Elements
<1> HIDE DEF E
<1>3. [i \in 1 .. Len(q) |-> q[i]] \in Surjection(1 .. Len(q), E)
  BY <1>1, <1>2 DEF Surjection
<1>4. IsFiniteSet(1 .. Len(q))
  BY FS_Interval
<1>5. QED BY <1>3, <1>4, FS_Surjection DEF E

(* The first n places of a sequence. *)
LEMMA TakeTyped ==
  ASSUME NEW X, NEW q \in Seq(X), NEW n \in Nat
  PROVE  /\ Take(q, n) \in Seq(X)
         /\ Len(Take(q, n)) <= Len(q) /\ Len(Take(q, n)) <= n
         /\ \A i \in 1 .. Len(Take(q, n)) : Take(q, n)[i] = q[i]
         /\ Elements(Take(q, n)) \subseteq Elements(q)
<1> DEFINE m == Smaller(Len(q), n)
<1>1. m \in Nat /\ m <= Len(q) /\ m <= n /\ Len(q) \in Nat
  BY DEF Smaller
<1> HIDE DEF m
<1>2. \A i \in 1 .. m : q[i] \in X
  BY <1>1, ElementOfSeq
<1>3. /\ SubSeq(q, 1, m) \in Seq(X)
      /\ Len(SubSeq(q, 1, m)) = m
      /\ \A i \in 1 .. m : SubSeq(q, 1, m)[i] = q[i]
  BY <1>1, <1>2, SubSeqProperties
<1>4. QED BY <1>1, <1>3 DEF Take, Elements, m

(* What is left of a capacity is a number, whatever is taken. *)
LEMMA RemainingTyped ==
  ASSUME NEW m \in Nat, NEW n \in Nat
  PROVE  Remaining(m, n) \in Nat /\ Remaining(m, n) <= m
BY DEF Remaining

-----------------------------------------------------------------------------
(* The reservation of slots only leaves launches out, and keeps the order. *)
LEMMA ReservedTyped ==
  ASSUME NEW actions \in Seq(Action), NEW occupied \in Nat
  PROVE  LET r == ReserveAgentLaunchCapacity(actions, occupied) IN
         /\ r \in Seq(Action)
         /\ Elements(r) \subseteq Elements(actions)
         /\ \A A : ComeFirst(A, actions) => ComeFirst(A, r)
<1> DEFINE launches == Selected(actions, [type : LaunchAction, story : Story])
           admitted == Elements(Take(launches, Remaining(MaxAgents, occupied)))
           kept == {x \in Action : x.type \in LaunchAction => x \in admitted}
<1>1. ReserveAgentLaunchCapacity(actions, occupied) = Selected(actions, kept)
  BY DEF ReserveAgentLaunchCapacity
<1> HIDE DEF kept
<1>2. Selected(actions, kept) \in Seq(Action)
  BY SelectedTyped
<1>3. Elements(Selected(actions, kept)) \subseteq Elements(actions)
  BY SelectedElements
<1>4. \A A : ComeFirst(A, actions) => ComeFirst(A, Selected(actions, kept))
  BY SelectedInOrder
<1>5. QED BY <1>1, <1>2, <1>3, <1>4

(* Launches are admitted in their order: one that is admitted means that *)
(* every launch of a class that comes before its own is admitted, too.   *)
LEMMA ReservedInOrder ==
  ASSUME NEW actions \in Seq(Action), NEW occupied \in Nat,
         NEW A \in SUBSET [type : LaunchAction, story : Story],
         ComeFirst(A, actions),
         NEW x \in Elements(ReserveAgentLaunchCapacity(actions, occupied)),
         x.type \in LaunchAction, x \notin A,
         NEW y \in Elements(actions) \cap A
  PROVE  y \in Elements(ReserveAgentLaunchCapacity(actions, occupied))
<1> DEFINE L == [type : LaunchAction, story : Story]
           launches == Selected(actions, L)
           room == Remaining(MaxAgents, occupied)
           admitted == Elements(Take(launches, room))
           kept == {z \in Action : z.type \in LaunchAction => z \in admitted}
<1>1. Elements(ReserveAgentLaunchCapacity(actions, occupied))
        = Elements(actions) \cap kept
  <2>1. ReserveAgentLaunchCapacity(actions, occupied) = Selected(actions, kept)
    BY DEF ReserveAgentLaunchCapacity
  <2> HIDE DEF kept
  <2>2. QED BY <2>1, SelectedElements
<1>2. room \in Nat
  BY MaxAgentsAssumption, RemainingTyped
<1>3. /\ launches \in Seq(Action)
      /\ Elements(launches) = Elements(actions) \cap L
      /\ ComeFirst(A, launches)
  <2> HIDE DEF L
  <2>1. QED BY SelectedTyped, SelectedElements, SelectedInOrder
<1> HIDE DEF room, launches
<1>4. /\ Take(launches, room) \in Seq(Action)
      /\ Len(Take(launches, room)) <= Len(launches)
      /\ \A i \in 1 .. Len(Take(launches, room)) :
           Take(launches, room)[i] = launches[i]
      /\ Len(launches) \in Nat /\ Len(Take(launches, room)) \in Nat
  BY <1>2, <1>3, TakeTyped
<1>5. PICK i \in 1 .. Len(Take(launches, room)) : launches[i] = x
  <2>1. x \in admitted
    BY <1>1
  <2>2. PICK i \in 1 .. Len(Take(launches, room)) :
               Take(launches, room)[i] = x
    BY <2>1 DEF Elements
  <2>3. QED BY <1>4, <2>2
<1>6. PICK j \in 1 .. Len(launches) : launches[j] = y
  <2>1. y \in Elements(launches)
    BY <1>3
  <2>2. QED BY <2>1 DEF Elements
<1>7. j < i
  <2>1. ~(i < j)
    BY <1>3, <1>4, <1>5, <1>6 DEF ComeFirst
  <2>2. i # j
    BY <1>5, <1>6
  <2>3. QED BY <1>4, <2>1, <2>2
<1>8. y \in admitted
  <2>1. j \in 1 .. Len(Take(launches, room))
          /\ Take(launches, room)[j] = y
    BY <1>4, <1>6, <1>7
  <2>2. QED BY <2>1 DEF Elements
<1>9. y \in Action
  BY DEF Action, ActionType
<1>10. QED BY <1>1, <1>8, <1>9

-----------------------------------------------------------------------------
(* The stories are finitely many, and the first one is one of them. *)
LEMMA StoriesFinite ==
  /\ IsFiniteSet(Story) /\ PrimaryStory \in Story
  /\ StoryOrder \in Seq(Story)
  /\ \A T \in SUBSET Story : Cardinality(T) \in Nat
<1>1. IsFiniteSet(Story)
  BY StoryAssumption, ElementsFinite DEF Story
<1>2. 1 \in 1 .. Len(StoryOrder)
  BY StoryAssumption
<1>3. StoryOrder[1] \in Elements(StoryOrder)
  BY <1>2 DEF Elements
<1>4. PrimaryStory \in Story
  BY <1>3 DEF PrimaryStory, Story
<1>5. \A T \in SUBSET Story : Cardinality(T) \in Nat
  BY <1>1, FS_Subset, FS_CardinalityType
<1>6. QED BY <1>1, <1>4, <1>5, StoryAssumption

(* The actions of one type, one for each of the stories. *)
LEMMA ActionsTyped ==
  ASSUME NEW type \in ActionType, NEW stories \in Seq(Story)
  PROVE  /\ Actions(type, stories) \in Seq(Action)
         /\ \A x \in Elements(Actions(type, stories)) :
              x.type = type /\ x.story \in Elements(stories)
<1>1. Len(stories) \in Nat /\ \A i \in 1 .. Len(stories) : stories[i] \in Story
  OBVIOUS
<1> DEFINE a == Actions(type, stories)
<1>2. a = [i \in 1 .. Len(stories) |-> [type |-> type, story |-> stories[i]]]
  BY DEF Actions
<1>3. \A i \in 1 .. Len(stories) :
        [type |-> type, story |-> stories[i]] \in Action
  BY <1>1 DEF Action
<1> HIDE DEF a
<1>4. a \in Seq(Action) /\ Len(a) = Len(stories)
  BY <1>1, <1>2, <1>3
<1>5. \A x \in Elements(a) : x.type = type /\ x.story \in Elements(stories)
  BY <1>2, <1>4 DEF Elements
<1>6. QED BY <1>4, <1>5 DEF a

(* Only stories that are ready are started. *)
LEMMA StartableReady ==
  ASSUME NEW status
  PROVE  /\ Startable(status) \in Seq(Story)
         /\ \A s \in Elements(Startable(status)) : s \in Story /\ Ready(status, s)
<1> DEFINE running == {s \in Story : SchedulingStatus(status[s]) = "running"}
           set == {s \in Story : Ready(status, s)}
           ready == Selected(StoryOrder, set)
           room == Remaining(StoryConcurrencyCap, Cardinality(running))
<1>1. StoryOrder \in Seq(Story) /\ Cardinality(running) \in Nat
  BY StoriesFinite
<1>2. room \in Nat
  <2>1. StoryConcurrencyCap \in Nat
    BY MaxAgentsAssumption DEF StoryConcurrencyCap
  <2> HIDE DEF running
  <2>2. QED BY <1>1, <2>1, RemainingTyped
<1>3. Startable(status) = Take(ready, room)
  BY DEF Startable
<1> HIDE DEF room
<1>4. \A s \in set : s \in Story /\ Ready(status, s)
  OBVIOUS
<1> HIDE DEF set
<1>5. ready \in Seq(Story) /\ Elements(ready) = Elements(StoryOrder) \cap set
  BY <1>1, SelectedTyped, SelectedElements
<1> HIDE DEF ready
<1>6. Take(ready, room) \in Seq(Story)
        /\ Elements(Take(ready, room)) \subseteq Elements(ready)
  BY <1>2, <1>5, TakeTyped
<1>7. QED BY <1>3, <1>4, <1>5, <1>6

(* What may be planned for a story, seen as it is when the tick starts. *)
MayBePlanned(projection, x) ==
  LET seen   == projection[x.story]
      status == [s \in Story |-> projection[s].status]
  IN  /\ x.type = "request-cleanup" => seen.status = "merged"
      /\ x.type = "request-merge" => seen.status = "approved"
      /\ x.type = "assign-reviewer" => seen.status = "awaiting-review"
                                         /\ ~seen.reviewerAssigned
      /\ x.type = "assign-story" => Ready(status, x.story)
      /\ x.type = "complete-run" => \A s \in Story : status[s] = "merged"

(* A plan asks for nothing that its story is not in the state for, and for *)
(* no launch of the team: planOrchestration and the loop before it.        *)
THEOREM PlanIsDue ==
  ASSUME NEW projection
  PROVE  /\ PlanOrchestration(projection) \in Seq(Action)
         /\ \A x \in Elements(PlanOrchestration(projection)) :
              x \in Action /\ x.type \notin TeamAction
                /\ MayBePlanned(projection, x)
<1> DEFINE status == [s \in Story |-> projection[s].status]
           clean  == {s \in Story : projection[s].status = "merged"
                                      /\ ~projection[s].workspaceCleaned}
           merge  == {s \in Story : projection[s].status = "approved"
                                      /\ projection[s].reviewerClosed}
           review == {s \in Story : projection[s].status = "awaiting-review"
                                      /\ ~projection[s].reviewerAssigned}
           done   == IF \A s \in Story : status[s] = "merged"
                       THEN <<PrimaryStory>> ELSE <<>>
           p1 == Actions("request-cleanup", Selected(StoryOrder, clean))
           p2 == Actions("request-merge", Selected(StoryOrder, merge))
           p3 == Actions("assign-reviewer", Selected(StoryOrder, review))
           p4 == Actions("assign-story", Startable(status))
           p5 == Actions("complete-run", done)
           plan == p1 \o p2 \o p3 \o p4 \o p5
           Due(x) == x \in Action /\ x.type \notin TeamAction
                       /\ MayBePlanned(projection, x)
           DueSet == {x \in Action : Due(x)}
<1>1. PlanOrchestration(projection) = ReserveAgentLaunchCapacity(plan, 0)
  BY DEF PlanOrchestration
<1>2. \A S : Selected(StoryOrder, S) \in Seq(Story)
               /\ Elements(Selected(StoryOrder, S)) \subseteq S
  <2> SUFFICES ASSUME NEW S
               PROVE  /\ Selected(StoryOrder, S) \in Seq(Story)
                      /\ Elements(Selected(StoryOrder, S)) \subseteq S
    OBVIOUS
  <2>1. StoryOrder \in Seq(Story)
    BY StoriesFinite
  <2>2. Selected(StoryOrder, S) \in Seq(Story)
    BY <2>1, SelectedTyped
  <2>3. Elements(Selected(StoryOrder, S)) = Elements(StoryOrder) \cap S
    BY <2>1, SelectedElements
  <2>4. QED BY <2>2, <2>3
<1>3. Elements(done) = {} \/ \A s \in Story : status[s] = "merged"
  <2>1. Elements(<<>>) = {}
    BY DEF Elements
  <2>2. QED BY <2>1
<1>4. done \in Seq(Story)
  BY StoriesFinite
<1>5. \A x : x \in Action => x.type \in ActionType /\ x.story \in Story
  BY DEF Action
<1>6. p1 \in Seq(Action) /\ Elements(p1) \subseteq DueSet
  <2>1. "request-cleanup" \in ActionType
    BY DEF ActionType
  <2>2. /\ p1 \in Seq(Action)
        /\ \A x \in Elements(p1) : x.type = "request-cleanup"
                                     /\ x.story \in clean
    BY <1>2, <2>1, ActionsTyped
  <2>3. Elements(p1) \subseteq Action
    BY <2>2, ElementsTyped
  <2>4. ASSUME NEW x \in Elements(p1) PROVE Due(x)
    <3>1. /\ x.type = "request-cleanup" /\ x \in Action
          /\ projection[x.story].status = "merged"
      BY <2>2, <2>3
    <3>2. QED BY <3>1 DEF MayBePlanned, TeamAction
  <2> HIDE DEF Due, p1
  <2>5. QED BY <2>2, <2>3, <2>4
<1>7. p2 \in Seq(Action) /\ Elements(p2) \subseteq DueSet
  <2>1. "request-merge" \in ActionType
    BY DEF ActionType
  <2>2. /\ p2 \in Seq(Action)
        /\ \A x \in Elements(p2) : x.type = "request-merge"
                                     /\ x.story \in merge
    BY <1>2, <2>1, ActionsTyped
  <2>3. Elements(p2) \subseteq Action
    BY <2>2, ElementsTyped
  <2>4. ASSUME NEW x \in Elements(p2) PROVE Due(x)
    <3>1. /\ x.type = "request-merge" /\ x \in Action
          /\ projection[x.story].status = "approved"
      BY <2>2, <2>3
    <3>2. QED BY <3>1 DEF MayBePlanned, TeamAction
  <2> HIDE DEF Due, p2
  <2>5. QED BY <2>2, <2>3, <2>4
<1>8. p3 \in Seq(Action) /\ Elements(p3) \subseteq DueSet
  <2>1. "assign-reviewer" \in ActionType
    BY DEF ActionType, LaunchAction
  <2>2. /\ p3 \in Seq(Action)
        /\ \A x \in Elements(p3) : x.type = "assign-reviewer"
                                     /\ x.story \in review
    BY <1>2, <2>1, ActionsTyped
  <2>3. Elements(p3) \subseteq Action
    BY <2>2, ElementsTyped
  <2>4. ASSUME NEW x \in Elements(p3) PROVE Due(x)
    <3>1. /\ x.type = "assign-reviewer" /\ x \in Action
          /\ projection[x.story].status = "awaiting-review"
          /\ ~projection[x.story].reviewerAssigned
      BY <2>2, <2>3
    <3>2. QED BY <3>1 DEF MayBePlanned, TeamAction
  <2> HIDE DEF Due, p3
  <2>5. QED BY <2>2, <2>3, <2>4
<1>9. p4 \in Seq(Action) /\ Elements(p4) \subseteq DueSet
  <2>1. "assign-story" \in ActionType
    BY DEF ActionType, LaunchAction
  <2>2. /\ p4 \in Seq(Action)
        /\ \A x \in Elements(p4) : x.type = "assign-story"
                                     /\ Ready(status, x.story)
    <3> HIDE DEF status
    <3>1. /\ Startable(status) \in Seq(Story)
          /\ \A s \in Elements(Startable(status)) : Ready(status, s)
      BY StartableReady
    <3>2. QED BY <2>1, <3>1, ActionsTyped
  <2>3. Elements(p4) \subseteq Action
    BY <2>2, ElementsTyped
  <2>4. ASSUME NEW x \in Elements(p4) PROVE Due(x)
    <3>1. /\ x.type = "assign-story" /\ x \in Action
          /\ Ready(status, x.story)
      BY <2>2, <2>3
    <3>2. QED BY <3>1 DEF MayBePlanned, TeamAction
  <2> HIDE DEF Due, p4
  <2>5. QED BY <2>2, <2>3, <2>4
<1>10. p5 \in Seq(Action) /\ Elements(p5) \subseteq DueSet
  <2>1. "complete-run" \in ActionType
    BY DEF ActionType
  <2>2. /\ p5 \in Seq(Action)
        /\ \A x \in Elements(p5) : x.type = "complete-run"
                                     /\ x.story \in Elements(done)
    <3> HIDE DEF done
    <3>1. QED BY <1>4, <2>1, ActionsTyped
  <2>3. Elements(p5) \subseteq Action
    BY <2>2, ElementsTyped
  <2>4. ASSUME NEW x \in Elements(p5) PROVE Due(x)
    <3>1. /\ x.type = "complete-run" /\ x \in Action
          /\ \A s \in Story : status[s] = "merged"
      BY <1>3, <2>2, <2>3
    <3>2. QED BY <3>1 DEF MayBePlanned, TeamAction
  <2> HIDE DEF Due, p5
  <2>5. QED BY <2>2, <2>3, <2>4
<1> HIDE DEF p1, p2, p3, p4, p5, DueSet
<1>11. plan \in Seq(Action) /\ Elements(plan) \subseteq DueSet
  <2> DEFINE q2 == p1 \o p2
             q3 == q2 \o p3
             q4 == q3 \o p4
             q5 == q4 \o p5
  <2>1. q2 \in Seq(Action) /\ Elements(q2) \subseteq DueSet
    BY <1>6, <1>7, ElementsOfConcat
  <2> HIDE DEF q2
  <2>2. q3 \in Seq(Action) /\ Elements(q3) \subseteq DueSet
    BY <2>1, <1>8, ElementsOfConcat
  <2> HIDE DEF q3
  <2>3. q4 \in Seq(Action) /\ Elements(q4) \subseteq DueSet
    BY <2>2, <1>9, ElementsOfConcat
  <2> HIDE DEF q4
  <2>4. q5 \in Seq(Action) /\ Elements(q5) \subseteq DueSet
    BY <2>3, <1>10, ElementsOfConcat
  <2>5. plan = q5
    BY DEF q2, q3, q4
  <2>6. QED BY <2>4, <2>5
<1> HIDE DEF plan
<1>12. /\ ReserveAgentLaunchCapacity(plan, 0) \in Seq(Action)
       /\ Elements(ReserveAgentLaunchCapacity(plan, 0)) \subseteq Elements(plan)
  BY <1>11, ReservedTyped
<1>13. QED BY <1>1, <1>11, <1>12 DEF DueSet
==============================================================================
