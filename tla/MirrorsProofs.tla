--------------------------- MODULE MirrorsProofs ---------------------------
(***************************************************************************)
(* Lemmas on induction and on filtered lists, and the proof that the       *)
(* registry NewRegistry makes is the one the user asked for, whatever the  *)
(* built-in mirrors, mirror_priority and custom_mirrors.                   *)
(*                                                                         *)
(* Induction is by least counterexample: a set of naturals that is not     *)
(* empty has a least element, because < is well-founded.                   *)
(***************************************************************************)
EXTENDS Mirrors, WellFoundedInduction, TLAPS

LEMMA LeastNumber ==
    ASSUME NEW T, T \subseteq Nat, T # {}
    PROVE  \E x \in T : \A y \in T : x <= y
<1> DEFINE R == OpToRel(<, Nat)
<1>1. IsWellFoundedOn(R, Nat)
  BY NatLessThanWellFounded
<1> HIDE DEF R
<1>2. PICK x \in T : \A y \in T : <<y, x>> \notin R
  BY <1>1, WFMin
<1>3. ASSUME NEW y \in T PROVE x <= y
  <2>1. x \in Nat /\ y \in Nat
    OBVIOUS
  <2>2. ~(y < x)
    BY <1>2, <2>1 DEF R, OpToRel
  <2> QED BY <2>1, <2>2
<1> QED BY <1>3

LEMMA Induction ==
    ASSUME NEW N \in Nat, NEW S, 0 \in S, \A n \in 0 .. N - 1 : n \in S => n + 1 \in S
    PROVE  \A n \in 0 .. N : n \in S
<1> DEFINE T == (0 .. N) \ S
<1> SUFFICES ASSUME T # {} PROVE FALSE
  OBVIOUS
<1>1. T \subseteq Nat
  OBVIOUS
<1>2. PICK x \in T : \A y \in T : x <= y
  <2> HIDE DEF T
  <2> QED BY <1>1, LeastNumber
<1>3. x # 0 /\ x - 1 \in 0 .. N - 1
  OBVIOUS
<1>4. x - 1 \in S
  BY <1>2, <1>3
<1> QED BY <1>3, <1>4
-----------------------------------------------------------------------------
(***************************************************************************)
(* Those.                                                                  *)
(***************************************************************************)

\* The loop is well defined: every length has its result, and CHOOSE takes it.
LEMMA ThoseDef ==
    ASSUME NEW s, Len(s) \in Nat, NEW T
    PROVE  /\ ThoseUpTo(s, T)[0] = <<>>
           /\ \A n \in 0 .. Len(s) - 1 :
                 ThoseUpTo(s, T)[n + 1] = IF s[n + 1] \in T
                                          THEN Append(ThoseUpTo(s, T)[n], s[n + 1])
                                          ELSE ThoseUpTo(s, T)[n]
<1> DEFINE Step(v, n) == IF s[n] \in T THEN Append(v, s[n]) ELSE v
           Body(f, m) == [n \in 0 .. m |-> IF n = 0 THEN <<>> ELSE Step(f[n - 1], n)]
           Good(m) == \E f : f = Body(f, m)
<1> HIDE DEF Step
<1>0. Len(s) \in Nat
  OBVIOUS
<1>1. Good(0)
  <2> DEFINE f == [n \in 0 .. 0 |-> <<>>]
  <2>1. f = Body(f, 0)
    OBVIOUS
  <2> QED BY <2>1
<1>2. ASSUME NEW m \in 0 .. Len(s) - 1, Good(m) PROVE Good(m + 1)
  <2>1. PICK f : f = Body(f, m)
    BY <1>2
  <2> DEFINE g == [n \in 0 .. m + 1 |-> IF n = m + 1 THEN Step(f[m], m + 1) ELSE f[n]]
  <2>2. ASSUME NEW n \in 0 .. m + 1 PROVE g[n] = IF n = 0 THEN <<>> ELSE Step(g[n - 1], n)
    <3>1. CASE n = m + 1
      BY <3>1
    <3>2. CASE n \in 0 .. m
      <4>1. g[n] = f[n] /\ (n # 0 => g[n - 1] = f[n - 1])
        BY <3>2
      <4>2. f[n] = IF n = 0 THEN <<>> ELSE Step(f[n - 1], n)
        BY <2>1, <3>2
      <4> QED BY <4>1, <4>2
    <3> QED BY <3>1, <3>2
  <2>3. g = Body(g, m + 1)
    BY <2>2
  <2> HIDE DEF g, Body
  <2> QED BY <2>3
<1>3. \A m \in 0 .. Len(s) : Good(m)
  <2> DEFINE Reach == {i \in 0 .. Len(s) : Good(i)}
  <2> HIDE DEF Good
  <2>1. 0 \in Reach /\ \A i \in 0 .. Len(s) - 1 : i \in Reach => i + 1 \in Reach
    BY <1>0, <1>1, <1>2
  <2> HIDE DEF Reach
  <2>2. \A i \in 0 .. Len(s) : i \in Reach
    BY <1>0, <2>1, Induction
  <2> QED BY <2>2 DEF Reach
<1> DEFINE F == ThoseUpTo(s, T)
<1>4. F = CHOOSE h : h = Body(h, Len(s))
  BY DEF ThoseUpTo, Step
<1> HIDE DEF F
<1>5. F = Body(F, Len(s))
  <2> HIDE DEF Body
  <2>1. PICK f : f = Body(f, Len(s))
    BY <1>0, <1>3
  <2> QED BY <1>4, <2>1
<1>6. F[0] = <<>> /\ \A n \in 0 .. Len(s) - 1 : F[n + 1] = Step(F[n], n + 1)
  <2>1. \A n \in 0 .. Len(s) : F[n] = IF n = 0 THEN <<>> ELSE Step(F[n - 1], n)
    BY <1>5
  <2> QED BY <2>1
<1> QED BY <1>6 DEF F, Step

\* What Append does, in the terms the proofs below use.
LEMMA AppendFacts ==
    ASSUME NEW S, NEW s \in Seq(S), NEW e \in S
    PROVE  /\ Append(s, e) \in Seq(S)
           /\ Len(s) \in Nat /\ Len(Append(s, e)) = Len(s) + 1
           /\ Append(s, e)[Len(s) + 1] = e
           /\ \A k \in 1 .. Len(s) : Append(s, e)[k] = s[k]
           /\ ToSet(Append(s, e)) = ToSet(s) \cup {e}
BY DEF ToSet

\* Those has T's members of the list, and no other.
LEMMA ThoseMembers ==
    ASSUME NEW S, NEW s \in Seq(S), NEW T
    PROVE  /\ \A n \in 0 .. Len(s) : /\ ThoseUpTo(s, T)[n] \in Seq(S)
                                     /\ ToSet(ThoseUpTo(s, T)[n]) = {s[k] : k \in 1 .. n} \cap T
           /\ Those(s, T) \in Seq(S)
           /\ ToSet(Those(s, T)) = ToSet(s) \cap T
<1> DEFINE F == ThoseUpTo(s, T)
           Good(n) == F[n] \in Seq(S) /\ ToSet(F[n]) = {s[k] : k \in 1 .. n} \cap T
<1>0. /\ Len(s) \in Nat /\ F[0] = <<>>
      /\ \A n \in 0 .. Len(s) - 1 :
            F[n + 1] = IF s[n + 1] \in T THEN Append(F[n], s[n + 1]) ELSE F[n]
  BY ThoseDef
<1> HIDE DEF F
<1>1. Good(0)
  <2>1. ToSet(F[0]) = {} /\ {s[k] : k \in 1 .. 0} = {}
    BY <1>0 DEF ToSet
  <2>2. F[0] \in Seq(S)
    BY <1>0
  <2> QED BY <2>1, <2>2
<1>2. ASSUME NEW n \in 0 .. Len(s) - 1, Good(n) PROVE Good(n + 1)
  <2>1. s[n + 1] \in S
    BY <1>0
  <2>2. F[n + 1] = IF s[n + 1] \in T THEN Append(F[n], s[n + 1]) ELSE F[n]
    BY <1>0
  <2>3. {s[k] : k \in 1 .. n + 1} = {s[k] : k \in 1 .. n} \cup {s[n + 1]}
    OBVIOUS
  <2>4. Append(F[n], s[n + 1]) \in Seq(S) /\ ToSet(Append(F[n], s[n + 1])) = ToSet(F[n]) \cup {s[n + 1]}
    BY <1>2, <2>1, AppendFacts
  <2> QED BY <1>2, <2>1, <2>2, <2>3, <2>4
<1>3. \A n \in 0 .. Len(s) : Good(n)
  <2> DEFINE Reach == {i \in 0 .. Len(s) : Good(i)}
  <2> HIDE DEF Good
  <2>1. 0 \in Reach /\ \A i \in 0 .. Len(s) - 1 : i \in Reach => i + 1 \in Reach
    BY <1>0, <1>1, <1>2
  <2> HIDE DEF Reach
  <2>2. \A i \in 0 .. Len(s) : i \in Reach
    BY <1>0, <2>1, Induction
  <2> QED BY <2>2 DEF Reach
<1>4. ToSet(s) = {s[k] : k \in 1 .. Len(s)}
  BY DEF ToSet
<1>5. Good(Len(s))
  <2> HIDE DEF Good
  <2> QED BY <1>0, <1>3
<1> QED BY <1>3, <1>4, <1>5 DEF F, Those

\* It keeps the order.
LEMMA ThoseOrder ==
    ASSUME NEW S, NEW s \in Seq(S), NEW T, NEW m \in T, NEW n, Precedes(s, m, n)
    PROVE  Precedes(Those(s, T), m, n)
<1> DEFINE F == ThoseUpTo(s, T)
           Good(i) == Precedes(F[i], m, n)
<1>0. /\ Len(s) \in Nat /\ F[0] = <<>>
      /\ \A i \in 0 .. Len(s) - 1 :
            F[i + 1] = IF s[i + 1] \in T THEN Append(F[i], s[i + 1]) ELSE F[i]
      /\ \A i \in 0 .. Len(s) : F[i] \in Seq(S) /\ ToSet(F[i]) = {s[k] : k \in 1 .. i} \cap T
  BY ThoseDef, ThoseMembers
<1> HIDE DEF F
<1>1. Good(0)
  BY <1>0 DEF Precedes
<1>2. ASSUME NEW i \in 0 .. Len(s) - 1, Good(i) PROVE Good(i + 1)
  <2>0. i \in 0 .. Len(s) /\ i + 1 \in 1 .. Len(s)
    BY <1>0
  <2>1. F[i] \in Seq(S) /\ s[i + 1] \in S /\ Precedes(F[i], m, n)
    BY <1>0, <1>2, <2>0
  <2>2. F[i + 1] = IF s[i + 1] \in T THEN Append(F[i], s[i + 1]) ELSE F[i]
    BY <1>0
  <2>3. ToSet(F[i]) = {s[k] : k \in 1 .. i} \cap T
    BY <1>0, <2>0
  <2>4. CASE s[i + 1] \in T
    <3> DEFINE G == Append(F[i], s[i + 1])
    <3>1. /\ Len(F[i]) \in Nat /\ Len(G) = Len(F[i]) + 1 /\ G[Len(F[i]) + 1] = s[i + 1]
          /\ \A k \in 1 .. Len(F[i]) : G[k] = F[i][k]
      BY <2>1, AppendFacts
    <3> HIDE DEF G
    <3>2. ASSUME NEW k \in 1 .. Len(G), G[k] = n PROVE \E j \in 1 .. k - 1 : G[j] = m
      <4>1. CASE k \in 1 .. Len(F[i])
        <5>1. PICK j \in 1 .. k - 1 : F[i][j] = m
          BY <2>1, <3>1, <3>2, <4>1 DEF Precedes
        <5>2. j \in 1 .. Len(F[i])
          BY <3>1, <4>1
        <5>3. G[j] = F[i][j]
          BY <3>1, <5>2
        <5> QED BY <5>1, <5>3
      <4>2. CASE k = Len(F[i]) + 1
        <5>1. PICK h \in 1 .. i : s[h] = m
          <6>1. s[i + 1] = n
            BY <3>1, <3>2, <4>2
          <6>2. \E h \in 1 .. i + 1 - 1 : s[h] = m
            BY <2>0, <6>1 DEF Precedes
          <6> QED BY <6>2
        <5>2. m \in ToSet(F[i])
          BY <2>3, <5>1
        <5>3. PICK j \in 1 .. Len(F[i]) : F[i][j] = m
          BY <2>1, <5>2 DEF ToSet
        <5> QED BY <3>1, <4>2, <5>3
      <4> QED BY <3>1, <4>1, <4>2
    <3>3. Precedes(G, m, n)
      BY <3>2 DEF Precedes
    <3> QED BY <2>2, <2>4, <3>3 DEF G
  <2> QED BY <2>1, <2>2, <2>4
<1>3. \A i \in 0 .. Len(s) : Good(i)
  <2> DEFINE Reach == {i \in 0 .. Len(s) : Good(i)}
  <2> HIDE DEF Good
  <2>1. 0 \in Reach /\ \A i \in 0 .. Len(s) - 1 : i \in Reach => i + 1 \in Reach
    BY <1>0, <1>1, <1>2
  <2> HIDE DEF Reach
  <2>2. \A i \in 0 .. Len(s) : i \in Reach
    BY <1>0, <2>1, Induction
  <2> QED BY <2>2 DEF Reach
<1> QED BY <1>0, <1>3 DEF F, Those

\* Its length grows by one where the test passes.
LEMMA ThoseLength ==
    ASSUME NEW S, NEW s \in Seq(S), NEW T, NEW n \in 0 .. Len(s) - 1
    PROVE  /\ Len(ThoseUpTo(s, T)[n]) \in Nat
           /\ s[n + 1] \in T => Len(ThoseUpTo(s, T)[n + 1]) = Len(ThoseUpTo(s, T)[n]) + 1
           /\ s[n + 1] \notin T => Len(ThoseUpTo(s, T)[n + 1]) = Len(ThoseUpTo(s, T)[n])
<1> DEFINE F == ThoseUpTo(s, T)
<1>0. Len(s) \in Nat /\ n \in 0 .. Len(s) /\ s[n + 1] \in S
  OBVIOUS
<1>1. /\ F[n] \in Seq(S)
      /\ F[n + 1] = IF s[n + 1] \in T THEN Append(F[n], s[n + 1]) ELSE F[n]
  <2>1. \A k \in 0 .. Len(s) : F[k] \in Seq(S)
    BY ThoseMembers
  <2>2. \A k \in 0 .. Len(s) - 1 :
           F[k + 1] = IF s[k + 1] \in T THEN Append(F[k], s[k + 1]) ELSE F[k]
    BY <1>0, ThoseDef
  <2> HIDE DEF F
  <2>3. F[n] \in Seq(S)
    BY <1>0, <2>1
  <2>4. F[n + 1] = IF s[n + 1] \in T THEN Append(F[n], s[n + 1]) ELSE F[n]
    BY <2>2
  <2> QED BY <2>3, <2>4
<1> HIDE DEF F
<1>2. Len(F[n]) \in Nat /\ Len(Append(F[n], s[n + 1])) = Len(F[n]) + 1
  BY <1>0, <1>1, AppendFacts
<1> QED BY <1>1, <1>2 DEF F

\* A list is as long as its parts together.
LEMMA ThoseLengths ==
    ASSUME NEW S, NEW s \in Seq(S), NEW T, NEW U, T \cap U = {}
    PROVE  Len(Those(s, T \cup U)) = Len(Those(s, T)) + Len(Those(s, U))
<1> DEFINE V == T \cup U
           A == ThoseUpTo(s, T)
           B == ThoseUpTo(s, U)
           C == ThoseUpTo(s, V)
           Good(i) == Len(C[i]) = Len(A[i]) + Len(B[i])
<1>0. Len(s) \in Nat
  OBVIOUS
<1>a. A[0] = <<>> /\ B[0] = <<>> /\ C[0] = <<>>
  BY <1>0, ThoseDef
<1>b. \A i \in 0 .. Len(s) - 1 :
         /\ Len(A[i]) \in Nat /\ Len(B[i]) \in Nat /\ Len(C[i]) \in Nat
         /\ s[i + 1] \in T => Len(A[i + 1]) = Len(A[i]) + 1
         /\ s[i + 1] \notin T => Len(A[i + 1]) = Len(A[i])
         /\ s[i + 1] \in U => Len(B[i + 1]) = Len(B[i]) + 1
         /\ s[i + 1] \notin U => Len(B[i + 1]) = Len(B[i])
         /\ s[i + 1] \in V => Len(C[i + 1]) = Len(C[i]) + 1
         /\ s[i + 1] \notin V => Len(C[i + 1]) = Len(C[i])
  <2> HIDE DEF V
  <2> QED BY ThoseLength
<1> HIDE DEF A, B, C
<1>1. Good(0)
  BY <1>a
<1>2. ASSUME NEW i \in 0 .. Len(s) - 1, Good(i) PROVE Good(i + 1)
  <2> DEFINE n == i + 1
             L(v) == Len(v)
  <2>1. /\ L(A[i]) \in Nat /\ L(B[i]) \in Nat /\ L(C[i]) = L(A[i]) + L(B[i])
        /\ s[n] \in T => L(A[n]) = L(A[i]) + 1
        /\ s[n] \notin T => L(A[n]) = L(A[i])
        /\ s[n] \in U => L(B[n]) = L(B[i]) + 1
        /\ s[n] \notin U => L(B[n]) = L(B[i])
        /\ s[n] \in V => L(C[n]) = L(C[i]) + 1
        /\ s[n] \notin V => L(C[n]) = L(C[i])
    <3> HIDE DEF V
    <3> QED BY <1>b, <1>2
  <2> HIDE DEF n, L
  <2>2. L(C[n]) = L(A[n]) + L(B[n])
    BY <2>1
  <2> QED BY <2>2 DEF n, L
<1>3. \A i \in 0 .. Len(s) : Good(i)
  <2> DEFINE Reach == {i \in 0 .. Len(s) : Good(i)}
  <2> HIDE DEF Good
  <2>1. 0 \in Reach /\ \A i \in 0 .. Len(s) - 1 : i \in Reach => i + 1 \in Reach
    BY <1>0, <1>1, <1>2
  <2> HIDE DEF Reach
  <2>2. \A i \in 0 .. Len(s) : i \in Reach
    BY <1>0, <2>1, Induction
  <2> QED BY <2>2 DEF Reach
<1>4. Good(Len(s))
  <2> HIDE DEF Good
  <2> QED BY <1>0, <1>3
<1> QED BY <1>4 DEF A, B, C, Those

\* A test that all pass keeps the list as long as it is.
LEMMA ThoseAll ==
    ASSUME NEW S, NEW s \in Seq(S), NEW T, ToSet(s) \subseteq T
    PROVE  Len(Those(s, T)) = Len(s)
<1> DEFINE F == ThoseUpTo(s, T)
           Good(i) == Len(F[i]) = i
<1>0. /\ Len(s) \in Nat /\ F[0] = <<>>
      /\ \A i \in 0 .. Len(s) - 1 :
            F[i + 1] = IF s[i + 1] \in T THEN Append(F[i], s[i + 1]) ELSE F[i]
      /\ \A i \in 0 .. Len(s) : F[i] \in Seq(S)
  BY ThoseDef, ThoseMembers
<1> HIDE DEF F
<1>1. Good(0)
  BY <1>0
<1>2. ASSUME NEW i \in 0 .. Len(s) - 1, Good(i) PROVE Good(i + 1)
  <2>1. s[i + 1] \in T /\ s[i + 1] \in S /\ i \in 0 .. Len(s)
    BY <1>0 DEF ToSet
  <2>2. F[i + 1] = Append(F[i], s[i + 1]) /\ F[i] \in Seq(S) /\ Len(F[i]) = i
    BY <1>0, <1>2, <2>1
  <2> QED BY <2>1, <2>2
<1>3. \A i \in 0 .. Len(s) : Good(i)
  <2> DEFINE Reach == {i \in 0 .. Len(s) : Good(i)}
  <2> HIDE DEF Good
  <2>1. 0 \in Reach /\ \A i \in 0 .. Len(s) - 1 : i \in Reach => i + 1 \in Reach
    BY <1>0, <1>1, <1>2
  <2> HIDE DEF Reach
  <2>2. \A i \in 0 .. Len(s) : i \in Reach
    BY <1>0, <2>1, Induction
  <2> QED BY <2>2 DEF Reach
<1>4. Good(Len(s))
  <2> HIDE DEF Good
  <2> QED BY <1>0, <1>3
<1> QED BY <1>4 DEF F, Those

\* A sum.
LEMMA SumDef ==
    ASSUME NEW s, Len(s) \in Nat
    PROVE  /\ SumUpTo(s)[0] = 0
           /\ \A n \in 0 .. Len(s) - 1 : SumUpTo(s)[n + 1] = SumUpTo(s)[n] + s[n + 1]
<1> DEFINE Step(v, n) == v + s[n]
           Body(f, m) == [n \in 0 .. m |-> IF n = 0 THEN 0 ELSE Step(f[n - 1], n)]
           Good(m) == \E f : f = Body(f, m)
<1> HIDE DEF Step
<1>0. Len(s) \in Nat
  OBVIOUS
<1>1. Good(0)
  <2> DEFINE f == [n \in 0 .. 0 |-> 0]
  <2>1. f = Body(f, 0)
    OBVIOUS
  <2> QED BY <2>1
<1>2. ASSUME NEW m \in 0 .. Len(s) - 1, Good(m) PROVE Good(m + 1)
  <2>1. PICK f : f = Body(f, m)
    BY <1>2
  <2> DEFINE g == [n \in 0 .. m + 1 |-> IF n = m + 1 THEN Step(f[m], m + 1) ELSE f[n]]
  <2>2. ASSUME NEW n \in 0 .. m + 1 PROVE g[n] = IF n = 0 THEN 0 ELSE Step(g[n - 1], n)
    <3>1. CASE n = m + 1
      BY <3>1
    <3>2. CASE n \in 0 .. m
      <4>1. g[n] = f[n] /\ (n # 0 => g[n - 1] = f[n - 1])
        BY <3>2
      <4>2. f[n] = IF n = 0 THEN 0 ELSE Step(f[n - 1], n)
        BY <2>1, <3>2
      <4> QED BY <4>1, <4>2
    <3> QED BY <3>1, <3>2
  <2>3. g = Body(g, m + 1)
    BY <2>2
  <2> HIDE DEF g, Body
  <2> QED BY <2>3
<1>3. \A m \in 0 .. Len(s) : Good(m)
  <2> DEFINE Reach == {i \in 0 .. Len(s) : Good(i)}
  <2> HIDE DEF Good
  <2>1. 0 \in Reach /\ \A i \in 0 .. Len(s) - 1 : i \in Reach => i + 1 \in Reach
    BY <1>0, <1>1, <1>2
  <2> HIDE DEF Reach
  <2>2. \A i \in 0 .. Len(s) : i \in Reach
    BY <1>0, <2>1, Induction
  <2> QED BY <2>2 DEF Reach
<1> DEFINE F == SumUpTo(s)
<1>4. F = CHOOSE h : h = Body(h, Len(s))
  BY DEF SumUpTo, Step
<1> HIDE DEF F
<1>5. F = Body(F, Len(s))
  <2> HIDE DEF Body
  <2>1. PICK f : f = Body(f, Len(s))
    BY <1>0, <1>3
  <2> QED BY <1>4, <2>1
<1>6. F[0] = 0 /\ \A n \in 0 .. Len(s) - 1 : F[n + 1] = Step(F[n], n + 1)
  <2>1. \A n \in 0 .. Len(s) : F[n] = IF n = 0 THEN 0 ELSE Step(F[n - 1], n)
    BY <1>5
  <2> QED BY <2>1
<1> QED BY <1>6 DEF F, Step

\* A sum is no less than that of the first terms.
LEMMA SumGrows ==
    ASSUME NEW s \in Seq(Nat)
    PROVE  \A n \in 0 .. Len(s) : SumUpTo(s)[n] \in Nat /\ SumUpTo(s)[n] <= SumOf(s)
<1> DEFINE F == SumUpTo(s)
           Good(n) == \A k \in 0 .. n : F[k] \in Nat /\ F[k] <= F[n]
<1>0. /\ Len(s) \in Nat /\ F[0] = 0
      /\ \A n \in 0 .. Len(s) - 1 : F[n + 1] = F[n] + s[n + 1] /\ s[n + 1] \in Nat
  BY SumDef
<1> HIDE DEF F
<1>1. Good(0)
  BY <1>0
<1>2. ASSUME NEW n \in 0 .. Len(s) - 1, Good(n) PROVE Good(n + 1)
  <2>1. F[n] \in Nat /\ F[n + 1] \in Nat /\ F[n] <= F[n + 1]
    <3>1. F[n] \in Nat /\ n \in 0 .. Len(s) - 1
      BY <1>0, <1>2
    <3>2. F[n + 1] = F[n] + s[n + 1] /\ s[n + 1] \in Nat
      BY <1>0, <3>1
    <3> QED BY <3>1, <3>2
  <2> QED BY <1>2, <2>1
<1>3. \A n \in 0 .. Len(s) : Good(n)
  <2> DEFINE Reach == {i \in 0 .. Len(s) : Good(i)}
  <2> HIDE DEF Good
  <2>1. 0 \in Reach /\ \A i \in 0 .. Len(s) - 1 : i \in Reach => i + 1 \in Reach
    BY <1>0, <1>1, <1>2
  <2> HIDE DEF Reach
  <2>2. \A i \in 0 .. Len(s) : i \in Reach
    BY <1>0, <2>1, Induction
  <2> QED BY <2>2 DEF Reach
<1>4. Good(Len(s))
  <2> HIDE DEF Good
  <2> QED BY <1>0, <1>3
<1> QED BY <1>4 DEF F, SumOf
-----------------------------------------------------------------------------
(***************************************************************************)
(* The registry.                                                           *)
(***************************************************************************)

LEMMA ConcatFacts ==
    ASSUME NEW S, NEW s \in Seq(S), NEW t \in Seq(S)
    PROVE  /\ s \o t \in Seq(S)
           /\ Len(s) \in Nat /\ Len(t) \in Nat /\ Len(s \o t) = Len(s) + Len(t)
           /\ \A k \in 1 .. Len(s) : (s \o t)[k] = s[k]
           /\ \A k \in 1 .. Len(t) : (s \o t)[Len(s) + k] = t[k]
           /\ ToSet(s \o t) = ToSet(s) \cup ToSet(t)
<1> DEFINE r == s \o t
<1>1. /\ r \in Seq(S) /\ Len(s) \in Nat /\ Len(t) \in Nat /\ Len(r) = Len(s) + Len(t)
      /\ \A k \in 1 .. Len(s) : r[k] = s[k]
      /\ \A k \in 1 .. Len(t) : r[Len(s) + k] = t[k]
  OBVIOUS
<1> HIDE DEF r
<1>2. ASSUME NEW k \in 1 .. Len(r) PROVE r[k] \in ToSet(s) \cup ToSet(t)
  <2>1. CASE k \in 1 .. Len(s)
    BY <1>1, <2>1 DEF ToSet
  <2>2. CASE k - Len(s) \in 1 .. Len(t)
    <3>1. r[Len(s) + (k - Len(s))] = t[k - Len(s)] /\ Len(s) + (k - Len(s)) = k
      BY <1>1, <2>2
    <3> QED BY <2>2, <3>1 DEF ToSet
  <2> QED BY <1>1, <2>1, <2>2
<1>3. \A k \in 1 .. Len(s) : s[k] \in {r[j] : j \in 1 .. Len(r)}
  BY <1>1
<1>4. \A k \in 1 .. Len(t) : t[k] \in {r[j] : j \in 1 .. Len(r)}
  <2> SUFFICES ASSUME NEW k \in 1 .. Len(t) PROVE t[k] \in {r[j] : j \in 1 .. Len(r)}
    OBVIOUS
  <2>1. Len(s) + k \in 1 .. Len(r) /\ r[Len(s) + k] = t[k]
    BY <1>1
  <2> QED BY <2>1
<1>5. ToSet(r) = ToSet(s) \cup ToSet(t)
  <2>1. /\ ToSet(r) = {r[j] : j \in 1 .. Len(r)}
        /\ ToSet(s) = {s[j] : j \in 1 .. Len(s)}
        /\ ToSet(t) = {t[j] : j \in 1 .. Len(t)}
    BY <1>1 DEF ToSet
  <2>2. ToSet(r) \subseteq ToSet(s) \cup ToSet(t)
    BY <1>2, <2>1
  <2>3. ToSet(s) \subseteq ToSet(r) /\ ToSet(t) \subseteq ToSet(r)
    BY <1>3, <1>4, <2>1
  <2> QED BY <2>2, <2>3
<1> QED BY <1>1, <1>5 DEF r

\* m comes first in a concatenation when it does in the first part and, unless
\* it is there, in the second.
LEMMA PrecedesConcat ==
    ASSUME NEW S, NEW s \in Seq(S), NEW t \in Seq(S), NEW m, NEW n,
           Precedes(s, m, n), m \in ToSet(s) \/ Precedes(t, m, n)
    PROVE  Precedes(s \o t, m, n)
<1> DEFINE r == s \o t
<1>1. /\ Len(s) \in Nat /\ Len(t) \in Nat /\ Len(r) = Len(s) + Len(t)
      /\ \A k \in 1 .. Len(s) : r[k] = s[k]
      /\ \A k \in 1 .. Len(t) : r[Len(s) + k] = t[k]
  BY ConcatFacts
<1> HIDE DEF r
<1>2. ASSUME NEW k \in 1 .. Len(r), r[k] = n PROVE \E j \in 1 .. k - 1 : r[j] = m
  <2>1. CASE k \in 1 .. Len(s)
    <3>1. PICK j \in 1 .. k - 1 : s[j] = m
      BY <1>1, <1>2, <2>1 DEF Precedes
    <3> QED BY <1>1, <2>1, <3>1
  <2>2. CASE k \notin 1 .. Len(s)
    <3> DEFINE h == k - Len(s)
    <3>1. h \in 1 .. Len(t) /\ k = Len(s) + h
      BY <1>1, <2>2
    <3> HIDE DEF h
    <3>2. t[h] = n
      BY <1>1, <1>2, <3>1
    <3>3. CASE m \in ToSet(s)
      <4>1. PICK j \in 1 .. Len(s) : s[j] = m
        BY <3>3 DEF ToSet
      <4> QED BY <1>1, <3>1, <4>1
    <3>4. CASE Precedes(t, m, n)
      <4>1. PICK j \in 1 .. h - 1 : t[j] = m
        BY <3>1, <3>2, <3>4 DEF Precedes
      <4>2. r[Len(s) + j] = m /\ Len(s) + j \in 1 .. k - 1
        BY <1>1, <3>1, <4>1
      <4> QED BY <4>2
    <3> QED BY <3>3, <3>4
  <2> QED BY <2>1, <2>2
<1>3. Precedes(r, m, n)
  BY <1>2 DEF Precedes
<1> QED BY <1>3 DEF r

\* What is not in a list does not need anything before it.
LEMMA PrecedesAbsent ==
    ASSUME NEW s, NEW m, NEW n, n \notin ToSet(s)
    PROVE  Precedes(s, m, n)
BY DEF Precedes, ToSet

Named(name) == {m \in ToSet(Builtins) : m.name = name}

LEMMA PreferredDef ==
    ASSUME NEW pri, Len(pri) \in Nat
    PROVE  /\ PreferredUpTo(pri)[0] = <<>>
           /\ \A k \in 0 .. Len(pri) - 1 :
                 PreferredUpTo(pri)[k + 1] =
                   PreferredUpTo(pri)[k]
                     \o Those(Builtins, Named(pri[k + 1]) \ ToSet(PreferredUpTo(pri)[k]))
<1> DEFINE Step(v, n) == v \o Those(Builtins, Named(pri[n]) \ ToSet(v))
           Body(f, m) == [n \in 0 .. m |-> IF n = 0 THEN <<>> ELSE Step(f[n - 1], n)]
           Good(m) == \E f : f = Body(f, m)
<1> HIDE DEF Step
<1>0. Len(pri) \in Nat
  OBVIOUS
<1>1. Good(0)
  <2> DEFINE f == [n \in 0 .. 0 |-> <<>>]
  <2>1. f = Body(f, 0)
    OBVIOUS
  <2> QED BY <2>1
<1>2. ASSUME NEW m \in 0 .. Len(pri) - 1, Good(m) PROVE Good(m + 1)
  <2>1. PICK f : f = Body(f, m)
    BY <1>2
  <2> DEFINE g == [n \in 0 .. m + 1 |-> IF n = m + 1 THEN Step(f[m], m + 1) ELSE f[n]]
  <2>2. ASSUME NEW n \in 0 .. m + 1 PROVE g[n] = IF n = 0 THEN <<>> ELSE Step(g[n - 1], n)
    <3>1. CASE n = m + 1
      BY <3>1
    <3>2. CASE n \in 0 .. m
      <4>1. g[n] = f[n] /\ (n # 0 => g[n - 1] = f[n - 1])
        BY <3>2
      <4>2. f[n] = IF n = 0 THEN <<>> ELSE Step(f[n - 1], n)
        BY <2>1, <3>2
      <4> QED BY <4>1, <4>2
    <3> QED BY <3>1, <3>2
  <2>3. g = Body(g, m + 1)
    BY <2>2
  <2> HIDE DEF g, Body
  <2> QED BY <2>3
<1>3. \A m \in 0 .. Len(pri) : Good(m)
  <2> DEFINE Reach == {i \in 0 .. Len(pri) : Good(i)}
  <2> HIDE DEF Good
  <2>1. 0 \in Reach /\ \A i \in 0 .. Len(pri) - 1 : i \in Reach => i + 1 \in Reach
    BY <1>0, <1>1, <1>2
  <2> HIDE DEF Reach
  <2>2. \A i \in 0 .. Len(pri) : i \in Reach
    BY <1>0, <2>1, Induction
  <2> QED BY <2>2 DEF Reach
<1> DEFINE F == PreferredUpTo(pri)
<1>4. F = CHOOSE h : h = Body(h, Len(pri))
  BY DEF PreferredUpTo, Step, Named
<1> HIDE DEF F
<1>5. F = Body(F, Len(pri))
  <2> HIDE DEF Body
  <2>1. PICK f : f = Body(f, Len(pri))
    BY <1>0, <1>3
  <2> QED BY <1>4, <2>1
<1>6. F[0] = <<>> /\ \A n \in 0 .. Len(pri) - 1 : F[n + 1] = Step(F[n], n + 1)
  <2>1. \A n \in 0 .. Len(pri) : F[n] = IF n = 0 THEN <<>> ELSE Step(F[n - 1], n)
    BY <1>5
  <2> QED BY <2>1
<1> QED BY <1>6 DEF F, Step

\* What the first entries of mirror_priority put into the registry: the
\* built-ins they name, as often as the built-ins have them.
LEMMA PreferredMembers ==
    ASSUME NEW pri, Len(pri) \in Nat
    PROVE  \A k \in 0 .. Len(pri) :
              /\ PreferredUpTo(pri)[k] \in Seq(ToSet(Builtins))
              /\ ToSet(PreferredUpTo(pri)[k]) = {m \in ToSet(Builtins) : \E j \in 1 .. k : pri[j] = m.name}
              /\ Len(PreferredUpTo(pri)[k]) = Len(Those(Builtins, ToSet(PreferredUpTo(pri)[k])))
<1> DEFINE B == ToSet(Builtins)
           F == PreferredUpTo(pri)
           NamedBy(k) == {m \in B : \E j \in 1 .. k : pri[j] = m.name}
           Good(k) == /\ F[k] \in Seq(B) /\ ToSet(F[k]) = NamedBy(k)
                      /\ Len(F[k]) = Len(Those(Builtins, NamedBy(k)))
<1>0. /\ Len(pri) \in Nat /\ Builtins \in Seq(B) /\ F[0] = <<>>
      /\ \A k \in 0 .. Len(pri) - 1 : F[k + 1] = F[k] \o Those(Builtins, Named(pri[k + 1]) \ ToSet(F[k]))
  BY PreferredDef, BuiltinsAssumption
<1> HIDE DEF F
<1>1. Good(0)
  <2>1. NamedBy(0) = {}
    OBVIOUS
  <2>2. ToSet(<<>>) = {} /\ <<>> \in Seq(B) /\ Len(<<>>) = 0
    BY DEF ToSet
  <2>3. Those(Builtins, {}) \in Seq(B) /\ ToSet(Those(Builtins, {})) = {}
    BY <1>0, ThoseMembers
  <2>4. Len(Those(Builtins, {})) = 0
    <3> DEFINE t == Those(Builtins, {})
    <3>1. t \in Seq(B) /\ ToSet(t) = {}
      BY <2>3
    <3> HIDE DEF t
    <3>2. ASSUME Len(t) # 0 PROVE FALSE
      <4>1. 1 \in DOMAIN t
        BY <3>1, <3>2
      <4> QED BY <3>1, <4>1 DEF ToSet
    <3> QED BY <3>2 DEF t
  <2> HIDE DEF NamedBy
  <2> QED BY <1>0, <2>1, <2>2, <2>4
<1>2. ASSUME NEW k \in 0 .. Len(pri) - 1, Good(k) PROVE Good(k + 1)
  <2> DEFINE n == k + 1
             T == Named(pri[n]) \ NamedBy(k)
             U == NamedBy(k)
             t == Those(Builtins, T)
  <2>1. F[n] = F[k] \o t /\ F[k] \in Seq(B) /\ ToSet(F[k]) = U /\ Len(F[k]) = Len(Those(Builtins, U))
    BY <1>0, <1>2
  <2>2. T \subseteq B /\ NamedBy(n) = T \cup U /\ T \cap U = {}
    BY DEF Named
  <2> HIDE DEF n, NamedBy, T, U
  <2>3. t \in Seq(B) /\ ToSet(t) = T
    <3>1. t \in Seq(B) /\ ToSet(t) = B \cap T
      BY <1>0, ThoseMembers
    <3> QED BY <2>2, <3>1
  <2>4. Len(Those(Builtins, T \cup U)) = Len(t) + Len(Those(Builtins, U))
    BY <1>0, <2>2, ThoseLengths
  <2> HIDE DEF t
  <2>5. F[n] \in Seq(B) /\ ToSet(F[n]) = T \cup U /\ Len(F[n]) = Len(F[k]) + Len(t) /\ Len(F[k]) \in Nat /\ Len(t) \in Nat
    <3> DEFINE v == F[k]
    <3>1. v \in Seq(B) /\ F[n] = v \o t /\ ToSet(v) = U
      BY <2>1
    <3> HIDE DEF v, B
    <3>2. v \o t \in Seq(B) /\ ToSet(v \o t) = ToSet(v) \cup ToSet(t) /\ Len(v \o t) = Len(v) + Len(t)
          /\ Len(v) \in Nat /\ Len(t) \in Nat
      BY <2>3, <3>1, ConcatFacts
    <3> QED BY <2>3, <3>1, <3>2 DEF v
  <2>6. Len(F[n]) = Len(Those(Builtins, NamedBy(n)))
    <3> DEFINE L(v) == Len(v)
    <3>1. L(F[n]) = L(F[k]) + L(t) /\ L(F[k]) \in Nat /\ L(t) \in Nat
          /\ L(Those(Builtins, T \cup U)) = L(t) + L(Those(Builtins, U))
          /\ L(F[k]) = L(Those(Builtins, U))
      BY <2>1, <2>4, <2>5
    <3> HIDE DEF L
    <3>2. L(F[n]) = L(Those(Builtins, NamedBy(n)))
      BY <2>2, <3>1
    <3> QED BY <3>2 DEF L
  <2>7. Good(n)
    BY <2>2, <2>5, <2>6
  <2> QED BY <2>7 DEF n
<1>3. \A k \in 0 .. Len(pri) : Good(k)
  <2> DEFINE Reach == {i \in 0 .. Len(pri) : Good(i)}
  <2> HIDE DEF Good
  <2>1. 0 \in Reach /\ \A i \in 0 .. Len(pri) - 1 : i \in Reach => i + 1 \in Reach
    BY <1>0, <1>1, <1>2
  <2> HIDE DEF Reach
  <2>2. \A i \in 0 .. Len(pri) : i \in Reach
    BY <1>0, <2>1, Induction
  <2> QED BY <2>2 DEF Reach
<1> QED BY <1>3 DEF F

\* A built-in that mirror_priority ranks before another comes before it.
LEMMA PreferredOrder ==
    ASSUME NEW pri, Len(pri) \in Nat, NEW m \in ToSet(Builtins), NEW n \in ToSet(Builtins),
           RanksBefore(pri, m, n)
    PROVE  m \in ToSet(Preferred(pri)) /\ Precedes(Preferred(pri), m, n)
<1> DEFINE B == ToSet(Builtins)
           F == PreferredUpTo(pri)
           Good(i) == Precedes(F[i], m, n)
<1>0. /\ Len(pri) \in Nat /\ Builtins \in Seq(B) /\ F[0] = <<>>
      /\ \A k \in 0 .. Len(pri) - 1 : F[k + 1] = F[k] \o Those(Builtins, Named(pri[k + 1]) \ ToSet(F[k]))
      /\ \A k \in 0 .. Len(pri) : F[k] \in Seq(B)
      /\ \A k \in 0 .. Len(pri) : ToSet(F[k]) = {x \in B : \E j \in 1 .. k : pri[j] = x.name}
  BY PreferredDef, PreferredMembers, BuiltinsAssumption
<1> HIDE DEF F
<1>a. PICK r \in 1 .. Len(pri) : pri[r] = m.name /\ \A j \in 1 .. r : pri[j] # n.name
  BY DEF RanksBefore
<1>b. \A k \in r .. Len(pri) : m \in ToSet(F[k])
  <2> SUFFICES ASSUME NEW k \in r .. Len(pri) PROVE m \in ToSet(F[k])
    OBVIOUS
  <2>1. k \in 0 .. Len(pri) /\ r \in 1 .. k
    BY <1>0
  <2>2. ToSet(F[k]) = {x \in B : \E j \in 1 .. k : pri[j] = x.name}
    BY <1>0, <2>1
  <2> QED BY <1>a, <2>1, <2>2
<1>c. \A k \in 0 .. r : n \notin ToSet(F[k])
  BY <1>0, <1>a
<1>1. Good(0)
  BY <1>0, <1>c, PrecedesAbsent
<1>2. ASSUME NEW i \in 0 .. Len(pri) - 1, Good(i) PROVE Good(i + 1)
  <2>1. CASE i + 1 \in 0 .. r
    BY <1>c, <2>1, PrecedesAbsent
  <2>2. CASE i \in r .. Len(pri)
    <3> DEFINE t == Those(Builtins, Named(pri[i + 1]) \ ToSet(F[i]))
    <3>1. F[i + 1] = F[i] \o t /\ F[i] \in Seq(B) /\ m \in ToSet(F[i]) /\ Precedes(F[i], m, n)
      <4>1. m \in ToSet(F[i])
        BY <1>b, <2>2
      <4>2. i \in 0 .. Len(pri)
        BY <1>0
      <4>3. F[i] \in Seq(B)
        BY <1>0, <4>2
      <4>4. F[i + 1] = F[i] \o t
        BY <1>0
      <4> QED BY <1>2, <4>1, <4>3, <4>4
    <3>2. t \in Seq(B)
      BY <1>0, ThoseMembers
    <3> HIDE DEF t
    <3>3. Precedes(F[i] \o t, m, n)
      BY <3>1, <3>2, PrecedesConcat
    <3> QED BY <3>1, <3>3
  <2> QED BY <1>0, <1>a, <2>1, <2>2
<1>3. \A i \in 0 .. Len(pri) : Good(i)
  <2> DEFINE Reach == {i \in 0 .. Len(pri) : Good(i)}
  <2> HIDE DEF Good
  <2>1. 0 \in Reach /\ \A i \in 0 .. Len(pri) - 1 : i \in Reach => i + 1 \in Reach
    BY <1>0, <1>1, <1>2
  <2> HIDE DEF Reach
  <2>2. \A i \in 0 .. Len(pri) : i \in Reach
    BY <1>0, <2>1, Induction
  <2> QED BY <2>2 DEF Reach
<1> QED BY <1>0, <1>3, <1>a, <1>b DEF F, Preferred

\* Moving the fallback mirrors to the end loses and doubles none, and keeps the
\* order among the fallback ones and among the others.
LEMMA FallbackLastFacts ==
    ASSUME NEW S, NEW ms \in Seq(S)
    PROVE  LET r == FallbackLast(ms)
           IN  /\ r \in Seq(S) /\ ToSet(r) = ToSet(ms) /\ Len(r) = Len(ms)
               /\ \A j, k \in 1 .. Len(r) : r[j].fallback /\ ~r[k].fallback => k < j
               /\ \A m, n \in ToSet(ms) : m.fallback = n.fallback /\ Precedes(ms, m, n) => Precedes(r, m, n)
<1> DEFINE T == ToSet(ms)
           U == {m \in T : m.fallback}
           N == T \ U
           first == Those(ms, N)
           last == Those(ms, U)
           r == first \o last
<1>1. /\ U \subseteq T /\ N \subseteq T /\ N \cup U = T /\ N \cap U = {}
      /\ \A m \in U : m.fallback
      /\ \A m \in N : ~m.fallback
      /\ \A m \in T : m \in N \/ m \in U
  OBVIOUS
<1>2. FallbackLast(ms) = r
  BY DEF FallbackLast
<1> HIDE DEF T, U, N
<1>3. first \in Seq(S) /\ ToSet(first) = N /\ last \in Seq(S) /\ ToSet(last) = U
  <2>1. first \in Seq(S) /\ ToSet(first) = T \cap N /\ last \in Seq(S) /\ ToSet(last) = T \cap U
    BY ThoseMembers DEF T
  <2> HIDE DEF first, last
  <2> QED BY <1>1, <2>1
<1>4. Len(first) + Len(last) = Len(ms)
  <2>1. Len(Those(ms, N \cup U)) = Len(first) + Len(last)
    BY <1>1, ThoseLengths
  <2>2. Len(Those(ms, T)) = Len(ms)
    BY ThoseAll DEF T
  <2> QED BY <1>1, <2>1, <2>2
<1>5. ASSUME NEW m \in T, NEW n \in T, m.fallback = n.fallback, Precedes(ms, m, n)
      PROVE  Precedes(r, m, n)
  <2>1. CASE m \in N
    <3>1. Precedes(first, m, n)
      BY <1>5, <2>1, ThoseOrder
    <3> HIDE DEF first, last
    <3> QED BY <1>3, <2>1, <3>1, PrecedesConcat
  <2>2. CASE m \in U
    <3>1. Precedes(last, m, n)
      BY <1>5, <2>2, ThoseOrder
    <3>2. n \notin N
      BY <1>1, <1>5, <2>2
    <3> HIDE DEF first, last
    <3>3. Precedes(first, m, n)
      BY <1>3, <3>2, PrecedesAbsent
    <3> QED BY <1>3, <3>1, <3>3, PrecedesConcat
  <2> QED BY <1>1, <2>1, <2>2
<1> HIDE DEF first, last
<1>6. /\ Len(first) \in Nat /\ Len(last) \in Nat /\ Len(r) = Len(first) + Len(last)
      /\ \A k \in 1 .. Len(first) : r[k] = first[k]
      /\ \A k \in 1 .. Len(last) : r[Len(first) + k] = last[k]
      /\ ToSet(r) = N \cup U
      /\ r \in Seq(S)
  BY <1>3, ConcatFacts
<1> HIDE DEF r
<1>7. \A k \in 1 .. Len(r) : IF k <= Len(first) THEN r[k] \in N ELSE r[k] \in U
  <2> SUFFICES ASSUME NEW k \in 1 .. Len(r)
               PROVE  IF k <= Len(first) THEN r[k] \in N ELSE r[k] \in U
    OBVIOUS
  <2>1. CASE k <= Len(first)
    BY <1>3, <1>6, <2>1 DEF ToSet
  <2>2. CASE ~(k <= Len(first))
    <3> DEFINE h == k - Len(first)
    <3>1. h \in 1 .. Len(last) /\ k = Len(first) + h
      BY <1>6, <2>2
    <3> HIDE DEF h
    <3>2. r[k] = last[h]
      BY <1>6, <3>1
    <3> QED BY <1>3, <2>2, <3>1, <3>2 DEF ToSet
  <2> QED BY <2>1, <2>2
<1>8. ASSUME NEW j \in 1 .. Len(r), NEW k \in 1 .. Len(r), r[j].fallback, ~r[k].fallback PROVE k < j
  <2>1. r[j] \notin N /\ r[k] \notin U
    BY <1>1, <1>8
  <2>2. ~(j <= Len(first)) /\ k <= Len(first)
    BY <1>7, <2>1
  <2> QED BY <1>6, <2>2
<1>9. Len(r) = Len(ms) /\ ToSet(r) = ToSet(ms)
  BY <1>1, <1>4, <1>6 DEF T
<1> QED BY <1>2, <1>5, <1>6, <1>8, <1>9 DEF T

\* The registry is what the user asked for: every built-in and every custom
\* mirror in it, fallback mirrors last, and the ranked built-ins in the order
\* of mirror_priority (mirrors.go, NewRegistry).
THEOREM RegistryInOrder ==
    ASSUME NEW pri, Len(pri) \in Nat, NEW C, NEW cust \in Seq(C)
    PROVE  /\ NewRegistry(pri, cust) \in Seq(ToSet(Builtins) \cup C)
           /\ InUsersOrder(NewRegistry(pri, cust), pri, cust)
<1> DEFINE B == ToSet(Builtins)
           S == B \cup C
           pref == Preferred(pri)
           others == Those(Builtins, B \ ToSet(pref))
           all == pref \o others \o cust
           r == FallbackLast(all)
<1>1. Builtins \in Seq(B) /\ Builtins \in Seq(S) /\ cust \in Seq(S)
  <2>1. Builtins \in Seq(B)
    BY BuiltinsAssumption
  <2>2. Builtins \in Seq(S)
    BY <2>1
  <2> QED BY <2>1, <2>2
<1>2. pref \in Seq(B) /\ ToSet(pref) \subseteq B /\ Len(pref) = Len(Those(Builtins, ToSet(pref)))
  <2> DEFINE n == Len(pri)
             q == PreferredUpTo(pri)[n]
  <2>1. pref = q
    BY DEF Preferred
  <2>2. n \in 0 .. n
    OBVIOUS
  <2>3. \A k \in 0 .. n :
           /\ PreferredUpTo(pri)[k] \in Seq(B)
           /\ ToSet(PreferredUpTo(pri)[k]) = {m \in B : \E j \in 1 .. k : pri[j] = m.name}
           /\ Len(PreferredUpTo(pri)[k]) = Len(Those(Builtins, ToSet(PreferredUpTo(pri)[k])))
    BY PreferredMembers
  <2>4. /\ q \in Seq(B) /\ Len(q) = Len(Those(Builtins, ToSet(q)))
        /\ ToSet(q) = {m \in B : \E j \in 1 .. n : pri[j] = m.name}
    <3> HIDE DEF B, n
    <3> QED BY <2>2, <2>3
  <2>5. ToSet(q) \subseteq B
    BY <2>4
  <2> HIDE DEF q, pref, B
  <2> QED BY <2>1, <2>4, <2>5
<1>3. \A m, n \in B : RanksBefore(pri, m, n) => m \in ToSet(pref) /\ Precedes(pref, m, n)
  BY PreferredOrder
<1> HIDE DEF pref
<1>4. others \in Seq(B) /\ ToSet(others) = B \ ToSet(pref)
  BY <1>1, ThoseMembers
<1>5. Len(pref) + Len(others) = Len(Builtins)
  <2> DEFINE T == ToSet(pref)
             U == B \ T
  <2>1. T \cap U = {} /\ T \cup U = B
    BY <1>2
  <2> HIDE DEF T, U, B
  <2>2. Len(Those(Builtins, T \cup U)) = Len(Those(Builtins, T)) + Len(Those(Builtins, U))
    BY <1>1, <2>1, ThoseLengths
  <2>3. Len(Those(Builtins, B)) = Len(Builtins)
    BY <1>1, ThoseAll DEF B
  <2> QED BY <1>2, <2>1, <2>2, <2>3 DEF T, U
<1>6. pref \in Seq(S) /\ others \in Seq(S)
  BY <1>2, <1>4
<1> HIDE DEF others
<1>7. /\ all \in Seq(S) /\ ToSet(all) = B \cup ToSet(cust) /\ Len(all) = Len(Builtins) + Len(cust)
      /\ pref \o others \in Seq(S)
  <2> DEFINE a == pref \o others
  <2>1. a \in Seq(S) /\ ToSet(a) = ToSet(pref) \cup ToSet(others) /\ Len(a) = Len(pref) + Len(others)
    BY <1>6, ConcatFacts
  <2> HIDE DEF a
  <2>2. a \o cust \in Seq(S) /\ ToSet(a \o cust) = ToSet(a) \cup ToSet(cust) /\ Len(a \o cust) = Len(a) + Len(cust)
    <3>1. a \in Seq(S) /\ cust \in Seq(S)
      BY <1>1, <2>1
    <3> HIDE DEF S, B
    <3> QED BY <3>1, ConcatFacts
  <2>3. ToSet(a) = B /\ Len(a) = Len(Builtins)
    BY <1>2, <1>4, <1>5, <2>1
  <2> QED BY <2>1, <2>2, <2>3 DEF a
<1>8. ASSUME NEW m \in B, NEW n \in B, RanksBefore(pri, m, n) PROVE Precedes(all, m, n)
  <2>1. m \in ToSet(pref) /\ Precedes(pref, m, n)
    BY <1>3, <1>8
  <2>2. Precedes(pref \o others, m, n) /\ m \in ToSet(pref \o others)
    BY <1>6, <2>1, PrecedesConcat, ConcatFacts
  <2> QED BY <1>1, <1>7, <2>2, PrecedesConcat
<1> HIDE DEF all
<1>9. /\ r \in Seq(S) /\ ToSet(r) = ToSet(all) /\ Len(r) = Len(all)
      /\ \A j, k \in 1 .. Len(r) : r[j].fallback /\ ~r[k].fallback => k < j
      /\ \A m, n \in ToSet(all) : m.fallback = n.fallback /\ Precedes(all, m, n) => Precedes(r, m, n)
  BY <1>7, FallbackLastFacts
<1>10. NewRegistry(pri, cust) = r
  BY DEF NewRegistry, all, others, pref
<1> HIDE DEF r
<1>11. \A m, n \in B : m.fallback = n.fallback /\ RanksBefore(pri, m, n) => Precedes(r, m, n)
  BY <1>7, <1>8, <1>9
<1> QED BY <1>7, <1>9, <1>10, <1>11 DEF InUsersOrder
=============================================================================
