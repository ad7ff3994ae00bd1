------------------------------ MODULE Induction ------------------------------
(***************************************************************************)
(* Induction over the natural numbers, and definition by recursion, for    *)
(* sets and functions: to be used, they need no operator as a parameter.   *)
(***************************************************************************)
EXTENDS Integers, WellFoundedInduction, TLAPS

(***************************************************************************)
(* A set of natural numbers that is not empty has a least element.         *)
(***************************************************************************)
LEMMA LeastNat ==
  ASSUME NEW T \in SUBSET Nat, T # {}
  PROVE  \E m \in T : \A k \in T : m <= k
<1> DEFINE R == {ss \in Nat \X Nat : ss[1] < ss[2]}
<1>1. IsWellFoundedOn(R, Nat)
  <2>1. R = OpToRel(<, Nat)
    BY DEF OpToRel
  <2> QED BY <2>1, NatLessThanWellFounded
<1>2. PICK m \in T : \A k \in T : ~ (<<k, m>> \in R)
  BY <1>1, WFMin
<1>3. \A k \in T : <<k, m>> \in R <=> k < m
  OBVIOUS
<1> HIDE DEF R
<1>4. \A k \in T : ~ (k < m)
  BY <1>2, <1>3
<1>5. \A k \in T : m <= k
  BY <1>4
<1> QED BY <1>5

(***************************************************************************)
(* Induction: a set that holds zero, and with every number the next one,   *)
(* holds every natural number.                                             *)
(***************************************************************************)
LEMMA SetInduction ==
  ASSUME NEW T, 0 \in T, \A n \in Nat : n \in T => n + 1 \in T
  PROVE  \A n \in Nat : n \in T
<1> SUFFICES ASSUME Nat \ T # {} PROVE FALSE
  OBVIOUS
<1>1. PICK m \in Nat \ T : \A k \in Nat \ T : m <= k
  BY LeastNat
<1>2. m # 0 /\ m - 1 \in Nat
  BY <1>1
<1>3. m - 1 \in T
  BY <1>1, <1>2
<1>4. (m - 1) + 1 \in T
  BY <1>2, <1>3
<1> QED BY <1>1, <1>4

(***************************************************************************)
(* f starts with base and goes on by step.                                 *)
(***************************************************************************)
IsRecursive(f, S, base, step) ==
  /\ f \in [Nat -> S]
  /\ f[0] = base
  /\ \A n \in Nat : f[n + 1] = step[<<f[n], n>>]

(***************************************************************************)
(* Recursion: a first value and a step from each value to the next define  *)
(* a function.                                                             *)
(***************************************************************************)
LEMMA Recursion ==
  ASSUME NEW S, NEW base \in S, NEW step \in [S \X Nat -> S]
  PROVE  \E f : IsRecursive(f, S, base, step)
<1> DEFINE Starts(n) ==
             {g \in [0 .. n -> S] : g[0] = base /\ \A k \in 0 .. n - 1 : g[k + 1] = step[<<g[k], k>>]}
<1>1. ASSUME NEW n \in Nat, NEW g \in Starts(n), NEW m \in Nat, NEW h \in Starts(m),
             NEW k \in Nat, k <= n, k <= m
      PROVE  g[k] = h[k]
  <2> DEFINE T == {j \in Nat : j <= n /\ j <= m => g[j] = h[j]}
  <2>1. 0 \in T
    OBVIOUS
  <2>2. ASSUME NEW j \in Nat, j \in T PROVE j + 1 \in T
    <3> SUFFICES ASSUME j + 1 <= n, j + 1 <= m PROVE g[j + 1] = h[j + 1]
      OBVIOUS
    <3>1. j \in 0 .. n - 1 /\ j \in 0 .. m - 1 /\ g[j] = h[j]
      BY <2>2
    <3> QED BY <3>1
  <2> HIDE DEF T
  <2>3. k \in T
    BY <2>1, <2>2, SetInduction
  <2> QED BY <1>1, <2>3 DEF T
<1>2. \A n \in Nat : Starts(n) # {}
  <2> DEFINE T == {n \in Nat : Starts(n) # {}}
  <2>1. 0 \in T
    <3>1. [k \in 0 .. 0 |-> base] \in Starts(0)
      OBVIOUS
    <3> QED BY <3>1
  <2>2. ASSUME NEW n \in Nat, n \in T PROVE n + 1 \in T
    <3>1. PICK g : g \in Starts(n)
      BY <2>2
    <3> DEFINE h == [k \in 0 .. n + 1 |-> IF k <= n THEN g[k] ELSE step[<<g[n], n>>]]
    <3>2. g \in [0 .. n -> S] /\ g[0] = base /\ \A k \in 0 .. n - 1 : g[k + 1] = step[<<g[k], k>>]
      BY <3>1
    <3>3. step[<<g[n], n>>] \in S
      BY <3>2
    <3>4. h \in [0 .. n + 1 -> S] /\ h[0] = base
      BY <3>2, <3>3
    <3>5. ASSUME NEW k \in 0 .. (n + 1) - 1 PROVE h[k + 1] = step[<<h[k], k>>]
      <4>1. CASE k = n
        BY <4>1
      <4>2. CASE k # n
        <5>1. k \in 0 .. n - 1 /\ k + 1 \in 0 .. n
          BY <4>2
        <5> QED BY <3>2, <5>1
      <4> QED BY <4>1, <4>2
    <3> HIDE DEF h
    <3>6. h \in Starts(n + 1)
      BY <3>4, <3>5
    <3> QED BY <3>6
  <2> HIDE DEF T
  <2>3. \A n \in Nat : n \in T
    BY <2>1, <2>2, SetInduction
  <2> QED BY <2>3 DEF T
<1> DEFINE G(n) == CHOOSE g : g \in Starts(n)
           f == [n \in Nat |-> G(n)[n]]
<1>3. \A n \in Nat : G(n) \in Starts(n)
  BY <1>2
<1> HIDE DEF G
<1>4. \A n \in Nat : G(n) \in [0 .. n -> S] /\ G(n)[0] = base
  BY <1>3
<1>5. f \in [Nat -> S] /\ f[0] = base
  BY <1>4
<1>6. ASSUME NEW n \in Nat PROVE f[n + 1] = step[<<f[n], n>>]
  <2>1. G(n)[n] = G(n + 1)[n]
    <3>1. /\ G(n) \in Starts(n) /\ G(n + 1) \in Starts(n + 1)
          /\ n + 1 \in Nat /\ n <= n /\ n <= n + 1
      BY <1>3
    <3> HIDE DEF Starts
    <3> QED BY <1>1, <3>1
  <2>2. G(n + 1)[n + 1] = step[<<G(n + 1)[n], n>>]
    BY <1>3
  <2> QED BY <2>1, <2>2
<1> HIDE DEF f
<1>7. IsRecursive(f, S, base, step)
  BY <1>5, <1>6 DEF IsRecursive
<1> QED BY <1>7

(***************************************************************************)
(* f starts with base and goes on by step, up to N.                        *)
(***************************************************************************)
IsLoop(f, S, base, N, step) ==
  /\ f \in [0 .. N -> S]
  /\ f[0] = base
  /\ \A k \in 1 .. N : f[k] = step[<<f[k - 1], k>>]

(***************************************************************************)
(* The same up to a bound, as a loop over a sequence goes.                 *)
(***************************************************************************)
LEMMA BoundedRecursion ==
  ASSUME NEW S, NEW base \in S, NEW N \in Nat, NEW step \in [S \X (1 .. N) -> S]
  PROVE  \E f : IsLoop(f, S, base, N, step)
<1> DEFINE next == [p \in S \X Nat |-> IF p[2] < N THEN step[<<p[1], p[2] + 1>>] ELSE p[1]]
<1>1. \A s \in S, n \in Nat : n < N => n + 1 \in 1 .. N /\ step[<<s, n + 1>>] \in S
  OBVIOUS
<1>2. next \in [S \X Nat -> S]
  BY <1>1
<1>3. \A s \in S, n \in Nat : n < N => next[<<s, n>>] = step[<<s, n + 1>>]
  OBVIOUS
<1> HIDE DEF next
<1>4. PICK f : IsRecursive(f, S, base, next)
  BY <1>2, Recursion
<1>5. f \in [Nat -> S] /\ f[0] = base /\ \A n \in Nat : f[n + 1] = next[<<f[n], n>>]
  BY <1>4 DEF IsRecursive
<1> DEFINE g == [k \in 0 .. N |-> f[k]]
<1>6. g \in [0 .. N -> S] /\ g[0] = base
  BY <1>5
<1>7. ASSUME NEW k \in 1 .. N PROVE g[k] = step[<<g[k - 1], k>>]
  <2>1. k - 1 \in Nat /\ k - 1 < N /\ (k - 1) + 1 = k /\ f[k - 1] \in S
    BY <1>5
  <2>2. f[(k - 1) + 1] = next[<<f[k - 1], k - 1>>]
    BY <1>5, <2>1
  <2>3. f[k] = step[<<f[k - 1], k>>]
    BY <1>3, <2>1, <2>2
  <2>4. k \in 0 .. N /\ k - 1 \in 0 .. N
    OBVIOUS
  <2>5. g[k] = f[k] /\ g[k - 1] = f[k - 1]
    BY <2>4
  <2> QED BY <2>3, <2>5
<1> HIDE DEF g
<1>8. IsLoop(g, S, base, N, step)
  BY <1>6, <1>7 DEF IsLoop
<1> QED BY <1>8
==============================================================================
