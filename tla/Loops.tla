------------------------------- MODULE Loops -------------------------------
(***************************************************************************)
(* Lemmas about numbers and about loops, the recursive functions over the  *)
(* turns of a loop that the models have for the walks over lists.          *)
(*                                                                         *)
(* Induction is on sets of numbers here: what holds of a function at 0,    *)
(* and at n + 1 when it holds at n, holds at all numbers, or else there    *)
(* were a least one at which it does not.                                  *)
(***************************************************************************)
EXTENDS Integers, WellFoundedInduction, TLAPS

(* A set of numbers has a least one.                                       *)
LEMMA LeastNumber ==
    ASSUME NEW T, T \subseteq Nat, T # {}
    PROVE  \E x \in T : \A y \in T : x <= y
<1> DEFINE R == {ss \in Nat \X Nat : ss[1] < ss[2]}
<1>1. IsWellFoundedOn(R, Nat)
  BY NatLessThanWellFounded DEF OpToRel
<1>2. \E x \in T : \A y \in T : ~(<<y, x>> \in R)
  <2> HIDE DEF R
  <2>1. QED
    BY <1>1, WFMin
<1>3. \A x, y \in T : ~(<<y, x>> \in R) => x <= y
  OBVIOUS
<1>4. QED
  BY <1>2, <1>3

(* Induction: what 0 is in, and n + 1 whenever n is, all numbers are in.   *)
LEMMA AllNumbers ==
    ASSUME NEW G, 0 \in G, \A n \in Nat : n \in G => n + 1 \in G
    PROVE  Nat \subseteq G
<1> DEFINE T == Nat \ G
<1>1. SUFFICES ASSUME T # {} PROVE FALSE
  OBVIOUS
<1>2. PICK x \in T : \A y \in T : x <= y
  <2> HIDE DEF T
  <2>1. T \subseteq Nat
    BY DEF T
  <2>2. QED
    BY <1>1, <2>1, LeastNumber
<1>3. x \in Nat /\ x # 0
  OBVIOUS
<1>4. x - 1 \in Nat /\ x - 1 \notin T
  BY <1>2, <1>3
<1>5. (x - 1) + 1 \in G
  BY <1>4
<1>6. QED
  BY <1>3, <1>5

(* What holds of a number if it holds of all below it holds of all.        *)
LEMMA NumbersKeep ==
    ASSUME NEW N \in Nat, NEW S,
           \A n \in 0 .. N : (\A m \in 0 .. n - 1 : m \in S) => n \in S
    PROVE  \A n \in 0 .. N : n \in S
<1> DEFINE G == {k \in Nat : \A n \in 0 .. N : n < k => n \in S}
<1>1. 0 \in G
  OBVIOUS
<1>2. ASSUME NEW k \in Nat, k \in G PROVE k + 1 \in G
  <2>1. SUFFICES ASSUME NEW n \in 0 .. N, n < k + 1 PROVE n \in S
    OBVIOUS
  <2>2. \A m \in 0 .. n - 1 : m \in 0 .. N /\ m < k
    BY <2>1
  <2>3. QED
    BY <1>2, <2>2
<1>3. N + 1 \in G
  <2> HIDE DEF G
  <2>1. QED
    BY <1>1, <1>2, AllNumbers
<1>4. QED
  BY <1>3

(* g has what a loop that starts from base makes of it in each of N turns. *)
IsLoop(g, N, S, base, turn) ==
    /\ g \in [0 .. N -> S]
    /\ g[0] = base
    /\ \A n \in 1 .. N : g[n] = turn[n][g[n - 1]]

(* A loop, each turn of which makes a member of S of a member of S, has a  *)
(* result after every turn.                                                *)
LEMMA LoopExists ==
    ASSUME NEW N \in Nat, NEW S, NEW base \in S, NEW turn \in [1 .. N -> [S -> S]]
    PROVE  \E g : IsLoop(g, N, S, base, turn)
<1> USE DEF IsLoop
<1> DEFINE Upto(g, n) == IsLoop(g, n, S, base, turn)
           G == {n \in Nat : n <= N => \E g : Upto(g, n)}
<1>1. 0 \in G
  <2>1. Upto([i \in 0 .. 0 |-> base], 0)
    OBVIOUS
  <2>2. QED
    BY <2>1
<1>2. ASSUME NEW n \in Nat, n \in G
      PROVE  n + 1 \in G
  <2>1. SUFFICES ASSUME n + 1 <= N PROVE \E g : Upto(g, n + 1)
    OBVIOUS
  <2>2. PICK g : Upto(g, n)
    BY <1>2, <2>1
  <2> DEFINE h == [i \in 0 .. (n + 1) |->
                      IF i <= n THEN g[i] ELSE turn[n + 1][g[n]]]
  <2>3. g[n] \in S /\ n + 1 \in 1 .. N
    BY <2>1, <2>2
  <2>4. turn[n + 1][g[n]] \in S
    BY <2>3
  <2>5. h \in [0 .. (n + 1) -> S]
    BY <2>2, <2>4
  <2>6. h[0] = base
    BY <2>2
  <2>7. ASSUME NEW i \in 1 .. (n + 1) PROVE h[i] = turn[i][h[i - 1]]
    <3>1. h[i - 1] = g[i - 1]
      OBVIOUS
    <3>2. CASE i <= n
      BY <2>2, <3>1, <3>2
    <3>3. CASE i = n + 1
      BY <3>1, <3>3
    <3>4. QED
      BY <3>2, <3>3
  <2>8. QED
    BY <2>5, <2>6, <2>7
<1>3. N \in G
  <2> HIDE DEF G
  <2>1. QED
    BY <1>1, <1>2, AllNumbers
<1>4. QED
  BY <1>3

(* What every turn keeps, the result of the loop has.                      *)
LEMMA LoopKeeps ==
    ASSUME NEW N \in Nat, NEW S, NEW f, f[0] \in S,
           \A n \in 1 .. N : f[n - 1] \in S => f[n] \in S
    PROVE  f[N] \in S
<1> DEFINE G == {n \in Nat : n <= N => f[n] \in S}
<1>1. 0 \in G
  OBVIOUS
<1>2. ASSUME NEW n \in Nat, n \in G PROVE n + 1 \in G
  <2>1. SUFFICES ASSUME n + 1 <= N PROVE f[n + 1] \in S
    OBVIOUS
  <2>2. f[n] \in S /\ n + 1 \in 1 .. N /\ (n + 1) - 1 = n
    BY <1>2, <2>1
  <2>3. QED
    BY <2>2
<1>3. N \in G
  <2> HIDE DEF G
  <2>1. QED
    BY <1>1, <1>2, AllNumbers
<1>4. QED
  BY <1>3

(* A walk goes on from n at next[n], as long as it goes on at all.         *)
IsWalk(g, N, S, goes, next, turn, base) ==
    /\ g \in [1 .. N -> S]
    /\ \A n \in 1 .. N : g[n] = IF n \in goes THEN turn[n][g[next[n]]] ELSE base[n]

(* A walk that only goes forward has a result from wherever it begins.     *)
LEMMA WalkExists ==
    ASSUME NEW N \in Nat, NEW S, NEW goes, NEW next, NEW turn \in [1 .. N -> [S -> S]],
           NEW base \in [1 .. N -> S],
           \A n \in 1 .. N : n \in goes => next[n] \in (n + 1) .. N
    PROVE  \E g : IsWalk(g, N, S, goes, next, turn, base)
<1> DEFINE From(g, m) ==
               /\ g \in [m .. N -> S]
               /\ \A n \in m .. N :
                     g[n] = IF n \in goes THEN turn[n][g[next[n]]] ELSE base[n]
           G == {k \in Nat : k <= N => \E g : From(g, (N + 1) - k)}
<1>1. 0 \in G
  <2>1. (N + 1) .. N = {}
    OBVIOUS
  <2>2. From([n \in (N + 1) .. N |-> n], N + 1)
    BY <2>1
  <2>3. (N + 1) - 0 = N + 1
    OBVIOUS
  <2> HIDE DEF From
  <2>4. QED
    BY <2>2, <2>3
<1>2. ASSUME NEW k \in Nat, k \in G
      PROVE  k + 1 \in G
  <2> DEFINE m == N - k
  <2>1. SUFFICES ASSUME k + 1 <= N PROVE \E g : From(g, m)
    OBVIOUS
  <2>2. PICK g : From(g, m + 1)
    BY <1>2, <2>1
  <2>3. m \in 1 .. N /\ \A n \in m .. N : n = m \/ n \in (m + 1) .. N
    BY <2>1
  <2> DEFINE first == IF m \in goes THEN turn[m][g[next[m]]] ELSE base[m]
             h == [n \in m .. N |-> IF n = m THEN first ELSE g[n]]
  <2> HIDE DEF m
  <2>4. first \in S
    BY <2>2, <2>3
  <2>5. h \in [m .. N -> S]
    BY <2>2, <2>3, <2>4
  <2>6. \A n \in (m + 1) .. N : h[n] = g[n] /\ n \in 1 .. N
    BY <2>3
  <2>7. ASSUME NEW n \in m .. N
        PROVE  h[n] = IF n \in goes THEN turn[n][h[next[n]]] ELSE base[n]
    <3>1. n \in goes => h[next[n]] = g[next[n]]
      <4>1. n \in 1 .. N /\ n >= m /\ m \in 1 .. N
        BY <2>3
      <4>2. n \in goes => next[n] \in (n + 1) .. N
        BY <4>1
      <4>3. \A i \in (n + 1) .. N : i \in (m + 1) .. N
        BY <4>1
      <4> HIDE DEF h
      <4>4. QED
        BY <2>6, <4>2, <4>3
    <3>2. CASE n = m
      <4>1. h[n] = first
        BY <2>3, <3>2
      <4> HIDE DEF h
      <4>2. QED
        BY <3>1, <3>2, <4>1
    <3>3. CASE n # m
      <4>1. n \in (m + 1) .. N
        BY <2>3, <3>3
      <4> HIDE DEF h
      <4>2. QED
        BY <2>2, <2>6, <3>1, <4>1
    <3>4. QED
      BY <3>2, <3>3
  <2>8. QED
    BY <2>5, <2>7
<1>3. N \in G
  <2> HIDE DEF G
  <2>1. QED
    BY <1>1, <1>2, AllNumbers
<1>4. (N + 1) - N = 1
  OBVIOUS
<1>5. QED
  BY <1>3, <1>4 DEF IsWalk

(* Backwards: what holds at n if it holds at all that follow, holds.       *)
LEMMA WalkKeeps ==
    ASSUME NEW N \in Nat, NEW S, NEW f,
           \A n \in 1 .. N : (\A m \in n + 1 .. N : f[m] \in S) => f[n] \in S
    PROVE  \A n \in 1 .. N : f[n] \in S
<1> DEFINE G == {k \in Nat : \A n \in 1 .. N : n + k > N => f[n] \in S}
<1>1. 0 \in G
  <2>1. \A n \in 1 .. N : ~(n + 0 > N)
    OBVIOUS
  <2>2. QED
    BY <2>1
<1>2. ASSUME NEW k \in Nat, k \in G PROVE k + 1 \in G
  <2>1. SUFFICES ASSUME NEW n \in 1 .. N, n + (k + 1) > N PROVE f[n] \in S
    OBVIOUS
  <2>2. ASSUME NEW m \in n + 1 .. N PROVE f[m] \in S
    <3>1. m \in 1 .. N /\ m + k > N
      BY <2>1
    <3>2. QED
      BY <1>2, <3>1
  <2>3. QED
    BY <2>2
<1>3. N \in G
  <2> HIDE DEF G
  <2>1. QED
    BY <1>1, <1>2, AllNumbers
<1>4. \A n \in 1 .. N : n + N > N
  OBVIOUS
<1>5. QED
  BY <1>3, <1>4

=============================================================================
