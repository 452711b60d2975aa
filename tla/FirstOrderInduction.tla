------------------------ MODULE FirstOrderInduction ------------------------
(***************************************************************************)
(* Induction and primitive recursion over the naturals, stated over sets   *)
(* and functions instead of operator parameters, so that a lemma can be     *)
(* cited by name.  Everything follows from the well-foundedness of <.       *)
(***************************************************************************)
EXTENDS Integers, WellFoundedInduction, TLAPS

\* A non-empty set of naturals has a least element.
LEMMA LeastElement ==
    ASSUME NEW T \in SUBSET Nat, T # {}
    PROVE  \E x \in T : \A y \in T : x <= y
<1>. DEFINE R == {ss \in Nat \X Nat : ss[1] < ss[2]}
<1>1. IsWellFoundedOn(R, Nat)
  BY NatLessThanWellFounded, SMT DEF OpToRel
<1>2. ASSUME NEW x \in Nat, NEW y \in Nat, y < x
      PROVE  <<y, x>> \in R
  BY <1>2, SMT
<1>. HIDE DEF R
<1>3. PICK x \in T : \A y \in T : ~ (<<y, x>> \in R)
  BY <1>1, WFMin, Zenon
<1>4. ASSUME NEW y \in T
      PROVE  x <= y
  <2>1. x \in Nat /\ y \in Nat
    OBVIOUS
  <2>2. ~ (y < x)
    BY <1>2, <1>3, <2>1, Zenon
  <2>. QED
    BY <2>1, <2>2, SMT
<1>. QED
  BY <1>4

\* A set that holds 0 and the successor of each natural it holds has them all.
LEMMA InductionOverNat ==
    ASSUME NEW S, 0 \in S, \A n \in Nat : n \in S => n + 1 \in S
    PROVE  Nat \subseteq S
<1>. SUFFICES ASSUME Nat \ S # {}
              PROVE  FALSE
  OBVIOUS
<1>1. PICK m \in Nat \ S : \A k \in Nat \ S : m <= k
  BY LeastElement
<1>2. m # 0
  OBVIOUS
<1>3. m - 1 \in Nat /\ m - 1 \in S
  BY <1>1, <1>2, SMT
<1>4. (m - 1) + 1 = m
  BY SMT
<1>. QED
  BY <1>3, <1>4

\* g starts at c and follows step up to n.
Unrolls(g, c, step, n) ==
    /\ g[0] = c
    /\ \A i \in 0 .. n - 1 : g[i + 1] = step[g[i]]

\* For every n the recursion can be unrolled n times.
LEMMA EveryUnrollingExists ==
    ASSUME NEW c \in Nat, NEW step \in [Nat -> Nat]
    PROVE  \A n \in Nat : \E g \in [Nat -> Nat] : Unrolls(g, c, step, n)
<1>. DEFINE T == {n \in Nat : \E g \in [Nat -> Nat] : Unrolls(g, c, step, n)}
<1>1. 0 \in T
  <2>1. [i \in Nat |-> c] \in [Nat -> Nat]
    OBVIOUS
  <2>2. Unrolls([i \in Nat |-> c], c, step, 0)
    BY DEF Unrolls
  <2>. QED
    BY <2>1, <2>2
<1>2. ASSUME NEW n \in Nat, n \in T
      PROVE  n + 1 \in T
  <2>1. PICK g \in [Nat -> Nat] : Unrolls(g, c, step, n)
    BY <1>2
  <2>. DEFINE h == [i \in Nat |-> IF i = n + 1 THEN step[g[n]] ELSE g[i]]
  <2>2. h \in [Nat -> Nat]
    OBVIOUS
  <2>3. h[0] = c
    BY <2>1 DEF Unrolls
  <2>4. ASSUME NEW i \in 0 .. (n + 1) - 1
        PROVE  h[i + 1] = step[h[i]]
    <3>1. CASE i = n
      BY <3>1
    <3>2. CASE i # n
      <4>1. i \in 0 .. n - 1 /\ i \in Nat /\ i + 1 \in Nat /\ i # n + 1 /\ i + 1 # n + 1
        BY <3>2
      <4>2. h[i] = g[i] /\ h[i + 1] = g[i + 1]
        BY <4>1
      <4>3. g[i + 1] = step[g[i]]
        BY <2>1, <4>1 DEF Unrolls
      <4>. QED
        BY <4>2, <4>3
    <3>. QED
      BY <3>1, <3>2
  <2>5. Unrolls(h, c, step, n + 1)
    BY <2>3, <2>4 DEF Unrolls
  <2>. QED
    BY <2>2, <2>5
<1>. HIDE DEF T
<1>3. Nat \subseteq T
  BY <1>1, <1>2, InductionOverNat
<1>. QED
  BY <1>3 DEF T

\* A numeric function defined from its predecessor exists, for every start and step.
LEMMA PrimitiveRecursion ==
    ASSUME NEW c \in Nat, NEW step \in [Nat -> Nat]
    PROVE  \E f \in [Nat -> Nat] :
              /\ f[0] = c
              /\ \A n \in Nat : f[n + 1] = step[f[n]]
<1>. DEFINE U(n) == CHOOSE g \in [Nat -> Nat] : Unrolls(g, c, step, n)
            f == [n \in Nat |-> U(n)[n]]
<1>1. ASSUME NEW n \in Nat
      PROVE  U(n) \in [Nat -> Nat] /\ Unrolls(U(n), c, step, n)
  BY EveryUnrollingExists
<1>. HIDE DEF U
<1>2. f \in [Nat -> Nat]
  BY <1>1
<1>3. f[0] = c
  BY <1>1 DEF Unrolls
<1>4. ASSUME NEW n \in Nat
      PROVE  f[n + 1] = step[f[n]]
  <2>1. n + 1 \in Nat /\ n \in 0 .. (n + 1) - 1 /\ n <= n + 1
    OBVIOUS
  <2>2. f[n + 1] = step[U(n + 1)[n]]
    BY <1>1, <2>1 DEF Unrolls
  <2>3. PICK g \in [Nat -> Nat] : g = U(n) /\ Unrolls(g, c, step, n)
    BY <1>1
  <2>4. PICK h \in [Nat -> Nat] : h = U(n + 1) /\ Unrolls(h, c, step, n + 1)
    BY <1>1, <2>1
  <2>5. \A i \in Nat : i <= n => g[i] = h[i]
    <3>. DEFINE T == {i \in Nat : i <= n => g[i] = h[i]}
    <3>1. 0 \in T
      BY <2>3, <2>4 DEF Unrolls
    <3>2. ASSUME NEW i \in Nat, i \in T
          PROVE  i + 1 \in T
      <4>. SUFFICES ASSUME i + 1 <= n
                    PROVE  g[i + 1] = h[i + 1]
        OBVIOUS
      <4>1. i \in 0 .. n - 1 /\ i \in 0 .. (n + 1) - 1 /\ g[i] = h[i]
        BY <3>2
      <4>. QED
        BY <2>3, <2>4, <4>1 DEF Unrolls
    <3>. HIDE DEF T
    <3>3. Nat \subseteq T
      BY <3>1, <3>2, InductionOverNat
    <3>. QED
      BY <3>3 DEF T
  <2>6. U(n)[n] = U(n + 1)[n]
    BY <2>1, <2>3, <2>4, <2>5
  <2>. QED
    BY <2>2, <2>6
<1>. HIDE DEF f
<1>. QED
  BY <1>2, <1>3, <1>4

\* A delay that doubles up to a ceiling, and the equations that define it.
Doubling(first, most) ==
    CHOOSE g : g = [n \in Nat |-> IF n = 0 THEN first
                                  ELSE IF g[n - 1] < most
                                       THEN 2 * g[n - 1]
                                       ELSE g[n - 1]]

\* It is a natural, the first one at first, and twice the one before as long as that is
\* below the ceiling.
LEMMA DoublingDelay ==
    ASSUME NEW first \in Nat, NEW most \in Nat
    PROVE  LET f == Doubling(first, most) IN
           /\ f \in [Nat -> Nat]
           /\ f[0] = first
           /\ \A n \in Nat : f[n + 1] = IF f[n] < most THEN 2 * f[n] ELSE f[n]
<1>. DEFINE step == [x \in Nat |-> IF x < most THEN 2 * x ELSE x]
            f == Doubling(first, most)
            body(g) == [n \in Nat |-> IF n = 0 THEN first
                                      ELSE IF g[n - 1] < most THEN 2 * g[n - 1] ELSE g[n - 1]]
<1>1. step \in [Nat -> Nat]
  OBVIOUS
<1>2. PICK g \in [Nat -> Nat] : g[0] = first /\ \A n \in Nat : g[n + 1] = step[g[n]]
  <2>. HIDE DEF step
  <2>. QED
    BY <1>1, PrimitiveRecursion
<1>3. ASSUME NEW n \in Nat
      PROVE  g[n] = body(g)[n]
  <2>1. CASE n = 0
    BY <1>2, <2>1
  <2>2. CASE n # 0
    <3>1. n - 1 \in Nat /\ (n - 1) + 1 = n
      BY <2>2
    <3>2. g[n] = step[g[n - 1]] /\ g[n - 1] \in Nat
      BY <1>2, <3>1
    <3>. QED
      BY <2>2, <3>2
  <2>. QED
    BY <2>1, <2>2
<1>4. g = body(g)
  BY <1>3
<1>5. f = body(f)
  BY <1>4 DEF Doubling
<1>. HIDE DEF f
<1>6. f[0] = first
  BY <1>5
<1>7. ASSUME NEW n \in Nat
      PROVE  f[n + 1] = IF f[n] < most THEN 2 * f[n] ELSE f[n]
  <2>1. n + 1 \in Nat /\ n + 1 # 0 /\ (n + 1) - 1 = n
    OBVIOUS
  <2>. QED
    BY <1>5, <2>1
<1>8. \A n \in Nat : f[n] \in Nat
  <2>. DEFINE T == {n \in Nat : f[n] \in Nat}
  <2>1. 0 \in T
    BY <1>6
  <2>2. \A n \in Nat : n \in T => n + 1 \in T
    BY <1>7
  <2>. HIDE DEF T
  <2>3. Nat \subseteq T
    BY <2>1, <2>2, InductionOverNat
  <2>. QED
    BY <2>3 DEF T
<1>. QED
  BY <1>5, <1>6, <1>7, <1>8 DEF f
=============================================================================
