--------------------------- MODULE InductionLemmas ---------------------------
(***************************************************************************)
(* Induction over the natural numbers, with a set in place of the          *)
(* predicate: {n \in Nat : P(n)} for the P at hand.  It follows from < being   *)
(* well-founded.  And what is defined by recursion up to n is defined.     *)
(***************************************************************************)
EXTENDS Integers, Sequences, WellFoundedInduction, TLAPS

LEMMA LeastNatural ==
  ASSUME NEW T \in SUBSET Nat, T # {}
  PROVE  \E m \in T : \A n \in T : m <= n
  <1>1. IsWellFoundedOn(OpToRel(<, Nat), Nat)
    BY NatLessThanWellFounded
  <1>2. PICK m \in T : \A n \in T : ~ (<<n, m>> \in OpToRel(<, Nat))
    BY <1>1, WFMin
  <1>3. \A n \in T : ~ (n < m)
    BY <1>2, Zenon DEF OpToRel
  <1>. QED
    BY <1>3

\* A set with 0, and with n + 1 when it has n, has every natural number.
THEOREM SetInduction ==
  ASSUME NEW T \in SUBSET Nat, 0 \in T, \A n \in T : n + 1 \in T
  PROVE  T = Nat
  <1>. SUFFICES ASSUME Nat \ T # {}
                PROVE  FALSE
    OBVIOUS
  <1>1. PICK m \in Nat \ T : \A n \in Nat \ T : m <= n
    BY LeastNatural
  <1>. QED
    BY <1>1

\* A function with the values that a recursion over 1 .. n gives it.
Recursive(f, n, A, base, step) ==
  /\ f \in [0 .. n -> A]
  /\ f[0] = base
  /\ \A i \in 1 .. n : f[i] = step[<<f[i - 1], i>>]

THEOREM RecursionExists ==
  ASSUME NEW A, NEW base \in A, NEW step \in [A \X Nat -> A], NEW n \in Nat
  PROVE  \E f : Recursive(f, n, A, base, step)
  <1>. DEFINE T == {m \in Nat : \E f : Recursive(f, m, A, base, step)}
  <1>1. 0 \in T
    <2>1. Recursive([i \in 0 .. 0 |-> base], 0, A, base, step)
      BY DEF Recursive
    <2>. QED
      BY <2>1
  <1>2. ASSUME NEW m \in T
        PROVE  m + 1 \in T
    <2>0. m \in Nat
      OBVIOUS
    <2>1. PICK f : Recursive(f, m, A, base, step)
      OBVIOUS
    <2>. DEFINE g == [i \in 0 .. m + 1 |-> IF i <= m THEN f[i] ELSE step[<<f[m], m + 1>>]]
    <2>2. f[m] \in A /\ step[<<f[m], m + 1>>] \in A
      BY <2>1 DEF Recursive
    <2>3. g \in [0 .. m + 1 -> A] /\ g[0] = base
      BY <2>1, <2>2 DEF Recursive
    <2>4. \A i \in 1 .. m + 1 : g[i] = step[<<g[i - 1], i>>]
      <3>1. ASSUME NEW i \in 1 .. m
            PROVE  g[i] = f[i] /\ g[i - 1] = f[i - 1]
        BY <2>0
      <3>2. g[m] = f[m] /\ g[m + 1] = step[<<f[m], m + 1>>]
        BY <2>0
      <3>3. \A i \in 1 .. m : f[i] = step[<<f[i - 1], i>>]
        BY <2>1 DEF Recursive
      <3>4. \A i \in 1 .. m + 1 : i \in 1 .. m \/ i = m + 1
        BY <2>0
      <3>. HIDE DEF g
      <3>5. ASSUME NEW i \in 1 .. m + 1
            PROVE  g[i] = step[<<g[i - 1], i>>]
        <4>1. CASE i \in 1 .. m
          BY <3>1, <3>3, <4>1
        <4>2. CASE i = m + 1
          BY <2>0, <3>2, <4>2
        <4>. QED
          BY <3>4, <4>1, <4>2
      <3>. QED
        BY <3>5
    <2>. HIDE DEF g
    <2>5. m + 1 \in Nat /\ Recursive(g, m + 1, A, base, step)
      BY <2>0, <2>3, <2>4 DEF Recursive
    <2>. QED
      BY <2>5
  <1>3. T = Nat
    <2>. HIDE DEF T
    <2>1. T \in SUBSET Nat
      BY DEF T
    <2>. QED
      BY <1>1, <1>2, <2>1, SetInduction
  <1>. QED
    BY <1>3

\* It stays among the values the recursion starts from and leads to.
THEOREM RecursionStays ==
  ASSUME NEW A, NEW base \in A, NEW step \in [A \X Nat -> A], NEW n \in Nat,
         NEW f, f[0] = base,
         \A i \in 1 .. n : f[i - 1] \in A => f[i] = step[<<f[i - 1], i>>]
  PROVE  \A i \in 0 .. n : f[i] \in A
  <1>. DEFINE T == {m \in Nat : m <= n => f[m] \in A}
  <1>1. 0 \in T
    OBVIOUS
  <1>2. ASSUME NEW m \in T
        PROVE  m + 1 \in T
    <2>1. m \in Nat /\ (m <= n => f[m] \in A)
      OBVIOUS
    <2>2. CASE m + 1 <= n
      <3>1. PICK i \in 1 .. n : i = m + 1 /\ i - 1 = m
        BY <2>1, <2>2
      <3>2. f[i - 1] \in A /\ i \in Nat
        BY <2>1, <3>1
      <3>3. f[i] = step[<<f[i - 1], i>>] /\ <<f[i - 1], i>> \in A \X Nat
        BY <3>2
      <3>4. f[i] \in A
        BY <3>3
      <3>. QED
        BY <2>1, <3>1, <3>4
    <2>. QED
      BY <2>1, <2>2
  <1>3. T = Nat
    <2>. HIDE DEF T
    <2>1. T \in SUBSET Nat
      BY DEF T
    <2>. QED
      BY <1>1, <1>2, <2>1, SetInduction
  <1>. QED
    BY <1>3
=============================================================================
