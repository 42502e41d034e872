--------------------------- MODULE FiniteInduction ---------------------------
(***************************************************************************)
(* Induction and recursion over an initial part of the natural numbers,    *)
(* stated with sets and functions instead of operators, so that a proof    *)
(* can use them by giving the set of numbers for which its claim holds, or *)
(* the function that makes one value from the one before.  They rest on    *)
(* the well-foundedness of < on Nat.                                       *)
(***************************************************************************)
EXTENDS Integers, WellFoundedInduction, TLAPS

\* A nonempty set of natural numbers has a least element.
LEMMA LeastNat ==
  ASSUME NEW T \in SUBSET Nat, T # {}
  PROVE  \E x \in T : \A y \in T : x <= y
<1>1. PICK x \in T : \A y \in T : ~(<<y, x>> \in {ss \in Nat \X Nat : ss[1] < ss[2]})
  BY NatLessThanWellFounded, WFMin DEF OpToRel
<1>2. \A y \in T : ~(y < x)
  BY <1>1
<1>3. QED
  BY <1>2

\* Induction up to n: a set that has 0 and, up to n, the successor of each of
\* its elements has all of 0 .. n.
LEMMA UpTo ==
  ASSUME NEW n \in Nat, NEW S, 0 \in S,
         \A i \in 1 .. n : i - 1 \in S => i \in S
  PROVE  \A i \in 0 .. n : i \in S
<1> DEFINE T == (0 .. n) \ S
<1>1. SUFFICES ASSUME T # {} PROVE FALSE
  OBVIOUS
<1>2. PICK x \in T : \A y \in T : x <= y
  <2>1. T \in SUBSET Nat
    OBVIOUS
  <2> HIDE DEF T
  <2>2. QED
    BY <1>1, <2>1, LeastNat
<1>3. x \in 1 .. n /\ x - 1 \in 0 .. n
  BY <1>2
<1>4. x - 1 \in S
  BY <1>2, <1>3
<1>5. QED
  BY <1>2, <1>3, <1>4

\* Induction down from n + 1, for what a loop or a recursion leaves to do.
LEMMA DownFrom ==
  ASSUME NEW n \in Nat, NEW S, n + 1 \in S,
         \A i \in 1 .. n : (\A j \in i + 1 .. n + 1 : j \in S) => i \in S
  PROVE  \A i \in 1 .. n + 1 : i \in S
<1>1. SUFFICES ASSUME (1 .. n + 1) \ S # {} PROVE FALSE
  OBVIOUS
<1> DEFINE T == {n + 1 - i : i \in (1 .. n + 1) \ S}
<1>2. T \in SUBSET Nat /\ T # {}
  BY <1>1
<1>3. PICK x \in T : \A y \in T : x <= y
  BY <1>2, LeastNat
<1>4. PICK k \in (1 .. n + 1) \ S : x = n + 1 - k
  BY <1>3
<1>5. \A j \in k + 1 .. n + 1 : j \in S
  <2>1. SUFFICES ASSUME NEW j \in k + 1 .. n + 1, j \notin S PROVE FALSE
    OBVIOUS
  <2>2. n + 1 - j \in T
    BY <2>1, <1>4
  <2>3. x <= n + 1 - j
    BY <2>2, <1>3
  <2>4. QED
    BY <2>1, <2>3, <1>4
<1>6. QED
  BY <1>4, <1>5

\* A function that makes the i-th value of a recursion from the one before,
\* and a function on 0 .. n made by it.
IsStep(G, n, D) == G \in [D \X (1 .. n) -> D]
IsRun(f, n, D, c, G) ==
  /\ f \in [0 .. n -> D]
  /\ f[0] = c /\ \A i \in 1 .. n : f[i] = G[<<f[i-1], i>>]

\* Recursion up to n: from a value of D, each next one by a function G.
LEMMA RecursionUpTo ==
  ASSUME NEW n \in Nat, NEW D, NEW c \in D, NEW G, IsStep(G, n, D)
  PROVE  \E f : IsRun(f, n, D, c, G)
<1> USE DEF IsStep
<1> DEFINE Good(m, g) == g[0] = c /\ \A i \in 1 .. m : g[i] = G[<<g[i-1], i>>]
           S == {m \in 0 .. n : \E g \in [0 .. m -> D] : Good(m, g)}
<1>1. 0 \in S
  <2>1. [i \in 0 .. 0 |-> c] \in [0 .. 0 -> D] /\ Good(0, [i \in 0 .. 0 |-> c])
    OBVIOUS
  <2> HIDE DEF Good
  <2>2. QED
    BY <2>1
<1>2. ASSUME NEW m \in 1 .. n, m - 1 \in S PROVE m \in S
  <2>1. PICK g \in [0 .. m - 1 -> D] : Good(m - 1, g)
    BY <1>2
  <2> DEFINE h == [i \in 0 .. m |-> IF i = m THEN G[<<g[m-1], m>>] ELSE g[i]]
  <2>2. h \in [0 .. m -> D]
    <3>1. g[m-1] \in D
      BY <2>1
    <3>2. G[<<g[m-1], m>>] \in D
      BY <3>1
    <3>3. QED
      BY <2>1, <3>2
  <2>3. Good(m, h)
    <3>1. h[0] = c
      BY <2>1
    <3>2. ASSUME NEW i \in 1 .. m PROVE h[i] = G[<<h[i-1], i>>]
      <4>1. CASE i = m
        <5>1. h[i] = G[<<g[m-1], m>>] /\ h[i-1] = g[m-1]
          BY <4>1
        <5>2. QED
          BY <4>1, <5>1
      <4>2. CASE i # m
        <5>1. i \in 1 .. m - 1 /\ h[i] = g[i] /\ h[i-1] = g[i-1]
          BY <4>2
        <5>2. QED
          BY <2>1, <5>1
      <4>3. QED
        BY <4>1, <4>2
    <3>3. QED
      BY <3>1, <3>2
  <2> HIDE DEF Good, h
  <2>4. QED
    BY <2>2, <2>3
<1>3. n \in S
  <2> HIDE DEF S
  <2>1. \A i \in 0 .. n : i \in S
    BY <1>1, <1>2, UpTo
  <2>2. QED
    BY <2>1
<1>4. QED
  BY <1>3 DEF IsRun

\* A recursion that goes on at a later place: from i at nx[i], to n + 1.
IsAhead(nx, n) == nx \in [1 .. n -> 1 .. n + 1] /\ \A i \in 1 .. n : nx[i] > i
IsRunAhead(f, n, D, c, G, nx) ==
  /\ f \in [1 .. n + 1 -> D]
  /\ f[n+1] = c /\ \A i \in 1 .. n : f[i] = G[<<f[nx[i]], i>>]

\* Recursion down from n + 1, each value from one that is further on.
LEMMA RecursionAhead ==
  ASSUME NEW n \in Nat, NEW D, NEW c \in D, NEW G, IsStep(G, n, D),
         NEW nx, IsAhead(nx, n)
  PROVE  \E f : IsRunAhead(f, n, D, c, G, nx)
<1> USE DEF IsStep, IsAhead
<1> DEFINE Good(m, g) == g[n+1] = c /\ \A i \in m .. n : g[i] = G[<<g[nx[i]], i>>]
           S == {m \in 1 .. n + 1 : \E g \in [m .. n + 1 -> D] : Good(m, g)}
<1>1. n + 1 \in S
  <2>1. [i \in n + 1 .. n + 1 |-> c] \in [n + 1 .. n + 1 -> D]
    OBVIOUS
  <2>2. Good(n + 1, [i \in n + 1 .. n + 1 |-> c])
    OBVIOUS
  <2> HIDE DEF Good
  <2>3. \E g \in [n + 1 .. n + 1 -> D] : Good(n + 1, g)
    BY <2>1, <2>2
  <2>4. n + 1 \in 1 .. n + 1
    OBVIOUS
  <2>5. QED
    BY <2>3, <2>4
<1>2. ASSUME NEW m \in 1 .. n, \A j \in m + 1 .. n + 1 : j \in S PROVE m \in S
  <2>1. PICK g \in [m + 1 .. n + 1 -> D] : Good(m + 1, g)
    <3>1. m + 1 \in S
      <4>1. m + 1 \in m + 1 .. n + 1
        OBVIOUS
      <4> HIDE DEF S
      <4>2. QED
        BY <1>2, <4>1
    <3>2. QED
      BY <3>1
  <2> DEFINE v == G[<<g[nx[m]], m>>]
             h == [i \in m .. n + 1 |-> IF i = m THEN v ELSE g[i]]
  <2>2. v \in D
    <3>1. nx[m] \in m + 1 .. n + 1
      BY <1>2
    <3>2. g[nx[m]] \in D
      BY <2>1, <3>1
    <3>3. QED
      BY <3>2
  <2>3. h \in [m .. n + 1 -> D]
    <3> HIDE DEF v
    <3>1. QED
      BY <2>1, <2>2
  <2>4. Good(m, h)
    <3>1. h[n+1] = c
      BY <2>1
    <3>2. ASSUME NEW i \in m .. n PROVE h[i] = G[<<h[nx[i]], i>>]
      <4>1. nx[i] \in i + 1 .. n + 1 /\ nx[i] # m /\ nx[i] \in m .. n + 1
        BY <3>2
      <4>2. h[nx[i]] = g[nx[i]]
        BY <4>1
      <4>3. CASE i = m
        <5>1. h[i] = v
          BY <4>3
        <5>2. QED
          BY <4>2, <4>3, <5>1
      <4>4. CASE i # m
        <5>1. i \in m + 1 .. n /\ h[i] = g[i]
          BY <4>4
        <5>2. QED
          BY <2>1, <4>2, <5>1
      <4>5. QED
        BY <4>3, <4>4
    <3>3. QED
      BY <3>1, <3>2
  <2> HIDE DEF Good, h
  <2>5. QED
    BY <2>3, <2>4
<1>3. 1 \in S
  <2> HIDE DEF S
  <2>1. \A i \in 1 .. n + 1 : i \in S
    BY <1>1, <1>2, DownFrom
  <2>2. QED
    BY <2>1
<1>4. QED
  BY <1>3 DEF IsRunAhead
=============================================================================
