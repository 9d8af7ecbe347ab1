---------------------------- MODULE Selection_proofs ----------------------------
(***************************************************************************)
(* What Chosen, Where and Sum do, for every sequence.  A recursive         *)
(* definition is a CHOOSE of a function with its equation, so there has to *)
(* be one: a least length for which there is none cannot be.               *)
(***************************************************************************)
EXTENDS Selection, TLAPS, NaturalsInduction, SequenceTheorems, WellFoundedInduction

(* A set of naturals that is not empty has a least element.                 *)
LEMMA LeastNumber ==
  ASSUME NEW T, T \subseteq Nat, T # {}
  PROVE  \E n \in T : \A m \in T : ~(m < n)
<1> DEFINE R == OpToRel(<, Nat)
<1>1. IsWellFoundedOn(R, Nat)
  BY NatLessThanWellFounded
<1>2. \A m, n \in Nat : m < n => <<m, n>> \in R
  BY DEF OpToRel
<1> HIDE DEF R
<1>3. \E n \in T : \A m \in T : ~(<<m, n>> \in R)
  BY <1>1, WFMin
<1>4. QED
  BY <1>2, <1>3

(* Induction up to a bound, over a set of numbers in place of a predicate.  *)
LEMMA UpTo ==
  ASSUME NEW N \in Nat, NEW S, 0 \in S,
         \A n \in 1..N : n - 1 \in S => n \in S
  PROVE  \A n \in 0..N : n \in S
<1> DEFINE T == {n \in 0..N : n \notin S}
<1>1. SUFFICES ASSUME T # {} PROVE FALSE
  OBVIOUS
<1>2. PICK n \in T : \A m \in T : ~(m < n)
  <2>1. T \subseteq Nat
    OBVIOUS
  <2>2. QED
    BY <2>1, <1>1, LeastNumber
<1>3. n # 0 /\ n \in 1..N
  OBVIOUS
<1>4. n - 1 \in 0..N /\ n - 1 < n
  BY <1>3
<1>5. n - 1 \in S
  BY <1>2, <1>4
<1>6. QED
  BY <1>3, <1>5

(* f is what the recursion over 0..N that starts with v0 makes of step.      *)
Solves(f, N, V, v0, step) ==
  f \in [0..N -> V] /\ f[0] = v0 /\ \A n \in 1..N : f[n] = step[<<n, f[n - 1]>>]

TakesSteps(N, V, step) == \A n \in 1..N : \A v \in V : step[<<n, v>>] \in V

(* A recursion over 0..N whose step is a function has a solution.           *)
LEMMA RecursionExists ==
  ASSUME NEW N \in Nat, NEW V, NEW v0 \in V, NEW step, TakesSteps(N, V, step)
  PROVE  \E f : Solves(f, N, V, v0, step)
<1> DEFINE P(n, f) == f[0] = v0 /\ \A i \in 1..n : f[i] = step[<<i, f[i - 1]>>]
           S == {n \in 0..N : \E f \in [0..n -> V] : P(n, f)}
<1>1. 0 \in S
  <2> DEFINE z == [i \in 0..0 |-> v0]
  <2>1. P(0, z) /\ z \in [0..0 -> V]
    OBVIOUS
  <2> HIDE DEF P, z
  <2>2. QED
    BY <2>1
<1>2. ASSUME NEW n \in 1..N, n - 1 \in S PROVE n \in S
  <2>1. PICK f \in [0..(n - 1) -> V] : P(n - 1, f)
    BY <1>2
  <2> DEFINE w == step[<<n, f[n - 1]>>]
             h == [i \in 0..n |-> IF i = n THEN w ELSE f[i]]
  <2>2. w \in V
    <3>1. n - 1 \in 0..(n - 1)
      OBVIOUS
    <3>2. f[n - 1] \in V
      BY <3>1
    <3>3. QED
      BY <3>2 DEF TakesSteps
  <2> HIDE DEF w
  <2>3. /\ h \in [0..n -> V] /\ h[n] = w
        /\ \A i \in 0..(n - 1) : h[i] = f[i]
    BY <2>2
  <2> HIDE DEF h
  <2>4. h[n] = step[<<n, h[n - 1]>>]
    <3>1. n - 1 \in 0..(n - 1)
      OBVIOUS
    <3>2. h[n - 1] = f[n - 1]
      BY <3>1, <2>3
    <3>3. QED
      BY <3>2, <2>3 DEF w
  <2>5. ASSUME NEW i \in 1..(n - 1) PROVE h[i] = step[<<i, h[i - 1]>>]
    <3>1. i \in 0..(n - 1) /\ i - 1 \in 0..(n - 1)
      OBVIOUS
    <3>2. f[i] = step[<<i, f[i - 1]>>]
      BY <2>1
    <3>3. h[i] = f[i] /\ h[i - 1] = f[i - 1]
      BY <3>1, <2>3
    <3>4. QED
      BY <3>2, <3>3
  <2>6. h[0] = v0
    <3>1. 0 \in 0..(n - 1)
      OBVIOUS
    <3>2. QED
      BY <3>1, <2>1, <2>3
  <2>7. P(n, h)
    <3>1. \A i \in 1..n : i = n \/ i \in 1..(n - 1)
      OBVIOUS
    <3>2. QED
      BY <3>1, <2>4, <2>5, <2>6
  <2> HIDE DEF P
  <2>8. QED
    BY <2>3, <2>7
<1>3. \A n \in 0..N : n \in S
  <2> HIDE DEF S
  <2>1. QED
    BY <1>1, <1>2, UpTo
<1> HIDE DEF P
<1>4. \E f \in [0..N -> V] : P(N, f)
  <2>1. N \in 0..N
    OBVIOUS
  <2>2. QED
    BY <1>3, <2>1
<1>5. QED
  BY <1>4 DEF P, Solves

-----------------------------------------------------------------------------
(* Chosen.                                                                  *)

Parts(s, places) ==
  CHOOSE part : part = [n \in 0 .. Len(s) |->
    IF n = 0 THEN <<>>
    ELSE IF n \in places THEN Append(part[n - 1], s[n]) ELSE part[n - 1]]

LEMMA PartsExist ==
  ASSUME NEW T, NEW s \in Seq(T), NEW places
  PROVE  /\ Parts(s, places) \in [0 .. Len(s) -> Seq(T)]
         /\ Parts(s, places)[0] = <<>>
         /\ \A n \in 1 .. Len(s) :
              Parts(s, places)[n] = IF n \in places THEN Append(Parts(s, places)[n - 1], s[n])
                                    ELSE Parts(s, places)[n - 1]
         /\ Chosen(s, places) = Parts(s, places)[Len(s)]
<1> DEFINE N == Len(s)
           V == Seq(T)
           step == [x \in (1..N) \X V |-> IF x[1] \in places THEN Append(x[2], s[x[1]]) ELSE x[2]]
<1>1. N \in Nat /\ <<>> \in V
  OBVIOUS
<1>2. TakesSteps(N, V, step)
  <2>1. \A n \in 1..N : \A v \in V : Append(v, s[n]) \in V
    OBVIOUS
  <2>2. QED
    BY <2>1 DEF TakesSteps
<1>3. \A n \in 1..N : \A v \in V :
        step[<<n, v>>] = IF n \in places THEN Append(v, s[n]) ELSE v
  OBVIOUS
<1>4. PICK f \in [0..N -> V] : f[0] = <<>> /\ \A n \in 1..N : f[n] = step[<<n, f[n - 1]>>]
  <2> HIDE DEF step, N, V
  <2>1. \E f : Solves(f, N, V, <<>>, step)
    BY <1>1, <1>2, RecursionExists
  <2>2. QED
    BY <2>1 DEF Solves
<1>7. \A n \in 1..N : f[n] = IF n \in places THEN Append(f[n - 1], s[n]) ELSE f[n - 1]
  <2> SUFFICES ASSUME NEW n \in 1..N
               PROVE  f[n] = IF n \in places THEN Append(f[n - 1], s[n]) ELSE f[n - 1]
    OBVIOUS
  <2> HIDE DEF step, V
  <2>1. n - 1 \in 0..N
    OBVIOUS
  <2>2. f[n - 1] \in V
    BY <2>1
  <2>3. QED
    BY <1>3, <1>4, <2>2
<1>8. f[0] = <<>>
  BY <1>4
<1> DEFINE Q(g) == g = [n \in 0..N |->
                          IF n = 0 THEN <<>>
                          ELSE IF n \in places THEN Append(g[n - 1], s[n]) ELSE g[n - 1]]
<1>9. Q(f)
  <2>1. f = [n \in 0..N |-> f[n]]
    OBVIOUS
  <2>2. \A n \in 0..N : f[n] = IF n = 0 THEN <<>>
                               ELSE IF n \in places THEN Append(f[n - 1], s[n]) ELSE f[n - 1]
    <3> HIDE DEF V, step
    <3>1. \A n \in 0..N : n # 0 => n \in 1..N
      BY <1>1
    <3>2. QED
      BY <1>7, <1>8, <3>1
  <2>3. QED
    BY <2>1, <2>2
<1> DEFINE p == Parts(s, places)
<1>10. Q(p)
  BY <1>9 DEF Parts
<1>11. /\ DOMAIN p = 0..N /\ p[0] = <<>>
       /\ \A n \in 1..N : p[n] = IF n \in places THEN Append(p[n - 1], s[n]) ELSE p[n - 1]
  <2> HIDE DEF p, V, step
  <2>1. 0 \in 0..N /\ \A n \in 1..N : n \in 0..N /\ n # 0
    BY <1>1
  <2>2. DOMAIN p = 0..N
    BY <1>10
  <2>3. \A n \in 0..N : p[n] = IF n = 0 THEN <<>>
                               ELSE IF n \in places THEN Append(p[n - 1], s[n]) ELSE p[n - 1]
    BY <1>10
  <2>4. QED
    BY <2>1, <2>2, <2>3
<1>12. \A n \in 0..N : p[n] \in V
  <2> HIDE DEF p
  <2> DEFINE S == {n \in 0..N : p[n] \in V}
  <2>1. 0 \in S
    <3>1. p[0] \in V
      BY <1>1, <1>11
    <3>2. QED
      BY <1>1, <3>1
  <2>2. ASSUME NEW n \in 1..N, n - 1 \in S PROVE n \in S
    <3>1. p[n - 1] \in V /\ s[n] \in T
      BY <2>2
    <3>2. Append(p[n - 1], s[n]) \in V
      BY <3>1
    <3>3. p[n] \in V
      <4> HIDE DEF V
      <4>1. QED
        BY <3>1, <3>2, <1>11
    <3>4. QED
      BY <3>3
  <2> HIDE DEF S
  <2>3. \A n \in 0..N : n \in S
    BY <1>1, <2>1, <2>2, UpTo
  <2>4. QED
    BY <2>3 DEF S
<1>13. p \in [0..N -> V]
  <2>1. p = [n \in 0..N |-> p[n]]
    <3> HIDE DEF p
    <3>1. QED
      BY <1>10
  <2> HIDE DEF p
  <2>2. QED
    BY <1>12, <2>1
<1>14. Chosen(s, places) = p[N]
  BY DEF Chosen, Parts
<1>15. QED
  BY <1>11, <1>13, <1>14

(* What is chosen are elements of the sequence, and no more of them.        *)
LEMMA ChosenType ==
  ASSUME NEW T, NEW s \in Seq(T), NEW places
  PROVE  /\ Chosen(s, places) \in Seq(T)
         /\ Len(Chosen(s, places)) <= Len(s)
<1> DEFINE N == Len(s)
           p == Parts(s, places)
           S == {n \in 0..N : Len(p[n]) <= n}
<1>1. /\ p \in [0..N -> Seq(T)] /\ p[0] = <<>> /\ N \in Nat
      /\ \A n \in 1..N : p[n] = IF n \in places THEN Append(p[n - 1], s[n]) ELSE p[n - 1]
      /\ Chosen(s, places) = p[N]
  BY PartsExist
<1> HIDE DEF p
<1>2. 0 \in S
  BY <1>1
<1>3. ASSUME NEW n \in 1..N, n - 1 \in S PROVE n \in S
  <2>1. n - 1 \in 0..N /\ p[n - 1] \in Seq(T) /\ Len(p[n - 1]) <= n - 1
    BY <1>1, <1>3
  <2>2. Len(p[n - 1]) \in Nat /\ Len(Append(p[n - 1], s[n])) = Len(p[n - 1]) + 1
    BY <2>1
  <2>3. p[n] = Append(p[n - 1], s[n]) \/ p[n] = p[n - 1]
    BY <1>1
  <2>4. Len(p[n]) <= n
    BY <2>1, <2>2, <2>3
  <2>5. QED
    BY <2>4
<1>4. N \in S
  <2> HIDE DEF S
  <2>1. \A n \in 0..N : n \in S
    BY <1>1, <1>2, <1>3, UpTo
  <2>2. QED
    BY <1>1, <2>1
<1>5. QED
  BY <1>1, <1>4

(* The chosen elements are those at the places, each once and in order.     *)
LEMMA ChosenPlaces ==
  ASSUME NEW T, NEW s \in Seq(T), NEW places
  PROVE  \E at \in [1 .. Len(Chosen(s, places)) -> 1 .. Len(s)] :
           /\ \A i \in 1 .. Len(Chosen(s, places)) :
                at[i] \in places /\ Chosen(s, places)[i] = s[at[i]]
           /\ \A i, j \in 1 .. Len(Chosen(s, places)) : i < j => at[i] < at[j]
           /\ \A n \in 1 .. Len(s) : n \in places =>
                \E i \in 1 .. Len(Chosen(s, places)) : at[i] = n
<1> DEFINE N == Len(s)
           p == Parts(s, places)
           Map(n, at) ==
             /\ at \in [1..Len(p[n]) -> 1..n]
             /\ \A i \in 1..Len(p[n]) : at[i] \in places /\ p[n][i] = s[at[i]]
             /\ \A i, j \in 1..Len(p[n]) : i < j => at[i] < at[j]
             /\ \A m \in 1..n : m \in places => \E i \in 1..Len(p[n]) : at[i] = m
           S == {n \in 0..N : \E at : Map(n, at)}
<1>1. /\ p \in [0..N -> Seq(T)] /\ p[0] = <<>> /\ N \in Nat
      /\ \A n \in 1..N : p[n] = IF n \in places THEN Append(p[n - 1], s[n]) ELSE p[n - 1]
      /\ Chosen(s, places) = p[N]
  BY PartsExist
<1> HIDE DEF p
<1>2. 0 \in S
  <2>1. Map(0, <<>>)
    BY <1>1
  <2>2. QED
    BY <2>1, <1>1
<1>3. ASSUME NEW n \in 1..N, n - 1 \in S PROVE n \in S
  <2>1. PICK at : Map(n - 1, at)
    BY <1>3
  <2>2. /\ p[n - 1] \in Seq(T) /\ Len(p[n - 1]) \in Nat /\ n - 1 \in Nat /\ n \in Nat
        /\ s[n] \in T
    BY <1>1
  <2>3. CASE n \notin places
    <3>1. p[n] = p[n - 1]
      BY <1>1, <2>3
    <3>2. Map(n, at)
      <4>1. at \in [1..Len(p[n]) -> 1..n]
        BY <2>1, <2>2, <3>1
      <4>2. \A m \in 1..n : m \in places => m \in 1..(n - 1)
        BY <2>3, <2>2
      <4>3. QED
        BY <2>1, <3>1, <4>1, <4>2
    <3> HIDE DEF Map
    <3>3. QED
      BY <3>2
  <2>4. CASE n \in places
    <3> DEFINE k == Len(p[n - 1])
               bt == [i \in 1..(k + 1) |-> IF i = k + 1 THEN n ELSE at[i]]
    <3>1. /\ p[n] = Append(p[n - 1], s[n]) /\ Len(p[n]) = k + 1
          /\ p[n][k + 1] = s[n] /\ \A i \in 1..k : p[n][i] = p[n - 1][i]
      <4>1. p[n] = Append(p[n - 1], s[n])
        BY <1>1, <2>4
      <4>2. /\ Len(Append(p[n - 1], s[n])) = k + 1
            /\ Append(p[n - 1], s[n])[k + 1] = s[n]
            /\ \A i \in 1..k : Append(p[n - 1], s[n])[i] = p[n - 1][i]
        BY <2>2
      <4>3. QED
        BY <4>1, <4>2
    <3>2. \A i \in 1..k : at[i] \in 1..(n - 1)
      BY <2>1
    <3>3. /\ bt[k + 1] = n /\ \A i \in 1..k : bt[i] = at[i]
          /\ \A i \in 1..(k + 1) : i = k + 1 \/ i \in 1..k
          /\ k \in Nat
      BY <2>2
    <3>4. bt \in [1..Len(p[n]) -> 1..n]
      BY <3>1, <3>2, <3>3, <2>2
    <3> HIDE DEF bt
    <3>5. \A i \in 1..Len(p[n]) : bt[i] \in places /\ p[n][i] = s[bt[i]]
      BY <2>1, <2>4, <3>1, <3>3
    <3>6. \A i, j \in 1..Len(p[n]) : i < j => bt[i] < bt[j]
      <4> SUFFICES ASSUME NEW i \in 1..(k + 1), NEW j \in 1..(k + 1), i < j
                   PROVE  bt[i] < bt[j]
        BY <3>1
      <4>1. i \in 1..k
        BY <3>3
      <4>2. CASE j = k + 1
        BY <4>1, <4>2, <3>2, <3>3
      <4>3. CASE j \in 1..k
        BY <4>1, <4>3, <2>1, <3>3
      <4>4. QED
        BY <4>2, <4>3, <3>3
    <3>7. \A m \in 1..n : m \in places => \E i \in 1..Len(p[n]) : bt[i] = m
      <4> SUFFICES ASSUME NEW m \in 1..n, m \in places PROVE \E i \in 1..(k + 1) : bt[i] = m
        BY <3>1
      <4>1. CASE m = n
        BY <4>1, <3>3
      <4>2. CASE m # n
        <5>1. m \in 1..(n - 1)
          BY <4>2, <2>2
        <5>2. PICK i \in 1..k : at[i] = m
          BY <5>1, <2>1
        <5>3. QED
          BY <5>2, <3>3
      <4>3. QED
        BY <4>1, <4>2
    <3>8. Map(n, bt)
      BY <3>4, <3>5, <3>6, <3>7
    <3> HIDE DEF Map
    <3>9. QED
      BY <3>8
  <2>5. QED
    BY <2>3, <2>4
<1>4. N \in S
  <2> HIDE DEF S
  <2>1. \A n \in 0..N : n \in S
    BY <1>1, <1>2, <1>3, UpTo
  <2>2. QED
    BY <1>1, <2>1
<1>5. QED
  BY <1>1, <1>4

(* Only the places within the sequence count.                               *)
LEMMA ChosenSame ==
  ASSUME NEW T, NEW s \in Seq(T), NEW P, NEW Q,
         \A n \in 1 .. Len(s) : n \in P <=> n \in Q
  PROVE  Chosen(s, P) = Chosen(s, Q)
<1> DEFINE N == Len(s)
           p == Parts(s, P)
           q == Parts(s, Q)
           S == {n \in 0..N : p[n] = q[n]}
<1>1. /\ p[0] = <<>> /\ Chosen(s, P) = p[N] /\ N \in Nat
      /\ \A n \in 1..N : p[n] = IF n \in P THEN Append(p[n - 1], s[n]) ELSE p[n - 1]
  BY PartsExist
<1>2. /\ q[0] = <<>> /\ Chosen(s, Q) = q[N]
      /\ \A n \in 1..N : q[n] = IF n \in Q THEN Append(q[n - 1], s[n]) ELSE q[n - 1]
  BY PartsExist
<1> HIDE DEF p, q
<1>3. 0 \in S
  BY <1>1, <1>2
<1>4. ASSUME NEW n \in 1..N, n - 1 \in S PROVE n \in S
  BY <1>1, <1>2, <1>4
<1>5. N \in S
  <2> HIDE DEF S
  <2>1. \A n \in 0..N : n \in S
    BY <1>1, <1>3, <1>4, UpTo
  <2>2. QED
    BY <1>1, <2>1
<1>6. QED
  BY <1>1, <1>2, <1>5

(* Of a sequence that grows by one element, what was chosen before, and the *)
(* element if its place is one.                                             *)
LEMMA ChosenAppend ==
  ASSUME NEW T, NEW s \in Seq(T), NEW x \in T, NEW places
  PROVE  Chosen(Append(s, x), places) =
           IF Len(s) + 1 \in places THEN Append(Chosen(s, places), x) ELSE Chosen(s, places)
<1> DEFINE N == Len(s)
           t == Append(s, x)
           p == Parts(s, places)
           q == Parts(t, places)
           S == {n \in 0..N : p[n] = q[n]}
<1>1. t \in Seq(T) /\ Len(t) = N + 1 /\ N \in Nat /\ t[N + 1] = x /\ \A n \in 1..N : t[n] = s[n]
  OBVIOUS
<1>2. /\ p[0] = <<>> /\ Chosen(s, places) = p[N]
      /\ \A n \in 1..N : p[n] = IF n \in places THEN Append(p[n - 1], s[n]) ELSE p[n - 1]
  BY PartsExist
<1>3. /\ q[0] = <<>> /\ Chosen(t, places) = q[Len(t)]
      /\ \A n \in 1..Len(t) : q[n] = IF n \in places THEN Append(q[n - 1], t[n]) ELSE q[n - 1]
  <2> HIDE DEF t
  <2>1. QED
    BY <1>1, PartsExist
<1> HIDE DEF p, q, t
<1>4. 0 \in S
  BY <1>1, <1>2, <1>3
<1>5. ASSUME NEW n \in 1..N, n - 1 \in S PROVE n \in S
  BY <1>1, <1>2, <1>3, <1>5
<1>6. N \in S
  <2> HIDE DEF S
  <2>1. \A n \in 0..N : n \in S
    BY <1>1, <1>4, <1>5, UpTo
  <2>2. QED
    BY <1>1, <2>1
<1>7. Chosen(t, places) = IF N + 1 \in places THEN Append(q[N], x) ELSE q[N]
  BY <1>1, <1>3
<1>8. QED
  BY <1>2, <1>6, <1>7 DEF t

LEMMA ChosenOfNone == \A places : Chosen(<<>>, places) = <<>>
<1> SUFFICES ASSUME NEW places PROVE Chosen(<<>>, places) = <<>>
  OBVIOUS
<1>1. <<>> \in Seq({})
  OBVIOUS
<1>2. Chosen(<<>>, places) \in Seq({})
  BY <1>1, ChosenType
<1>3. QED
  BY <1>2

-----------------------------------------------------------------------------
(* Sum.                                                                     *)

Sums(s) ==
  CHOOSE upTo : upTo = [n \in 0 .. Len(s) |-> IF n = 0 THEN 0 ELSE upTo[n - 1] + s[n]]

LEMMA SumsExist ==
  ASSUME NEW s \in Seq(Nat)
  PROVE  /\ Sums(s) \in [0 .. Len(s) -> Nat]
         /\ Sums(s)[0] = 0
         /\ \A n \in 1 .. Len(s) : Sums(s)[n] = Sums(s)[n - 1] + s[n]
         /\ Sum(s) = Sums(s)[Len(s)]
<1> DEFINE N == Len(s)
           step == [x \in (1..N) \X Nat |-> x[2] + s[x[1]]]
<1>1. N \in Nat /\ 0 \in Nat /\ \A n \in 1..N : s[n] \in Nat
  OBVIOUS
<1>2. TakesSteps(N, Nat, step)
  BY <1>1 DEF TakesSteps
<1>3. \A n \in 1..N : \A v \in Nat : step[<<n, v>>] = v + s[n]
  OBVIOUS
<1>4. PICK f \in [0..N -> Nat] : f[0] = 0 /\ \A n \in 1..N : f[n] = step[<<n, f[n - 1]>>]
  <2> HIDE DEF step, N
  <2>1. \E f : Solves(f, N, Nat, 0, step)
    BY <1>1, <1>2, RecursionExists
  <2>2. QED
    BY <2>1 DEF Solves
<1>5. \A n \in 1..N : f[n] = f[n - 1] + s[n]
  <2> SUFFICES ASSUME NEW n \in 1..N PROVE f[n] = f[n - 1] + s[n]
    OBVIOUS
  <2> HIDE DEF step
  <2>1. n - 1 \in 0..N
    OBVIOUS
  <2>2. f[n - 1] \in Nat
    BY <2>1
  <2>3. QED
    BY <1>3, <1>4, <2>2
<1> DEFINE Q(g) == g = [n \in 0..N |-> IF n = 0 THEN 0 ELSE g[n - 1] + s[n]]
<1>6. Q(f)
  <2>1. f = [n \in 0..N |-> f[n]]
    OBVIOUS
  <2>2. \A n \in 0..N : f[n] = IF n = 0 THEN 0 ELSE f[n - 1] + s[n]
    <3> HIDE DEF step
    <3>1. \A n \in 0..N : n # 0 => n \in 1..N
      BY <1>1
    <3>2. QED
      BY <1>4, <1>5, <3>1
  <2>3. QED
    BY <2>1, <2>2
<1> DEFINE p == Sums(s)
<1>7. Q(p)
  BY <1>6 DEF Sums
<1>8. DOMAIN p = 0..N /\ p[0] = 0 /\ \A n \in 1..N : p[n] = p[n - 1] + s[n]
  <2> HIDE DEF p, step
  <2>1. 0 \in 0..N /\ \A n \in 1..N : n \in 0..N /\ n # 0
    BY <1>1
  <2>2. DOMAIN p = 0..N
    BY <1>7
  <2>3. \A n \in 0..N : p[n] = IF n = 0 THEN 0 ELSE p[n - 1] + s[n]
    BY <1>7
  <2>4. QED
    BY <2>1, <2>2, <2>3
<1>9. \A n \in 0..N : p[n] \in Nat
  <2> HIDE DEF p
  <2> DEFINE S == {n \in 0..N : p[n] \in Nat}
  <2>1. 0 \in S
    BY <1>1, <1>8
  <2>2. ASSUME NEW n \in 1..N, n - 1 \in S PROVE n \in S
    BY <1>1, <1>8, <2>2
  <2> HIDE DEF S
  <2>3. \A n \in 0..N : n \in S
    BY <1>1, <2>1, <2>2, UpTo
  <2>4. QED
    BY <2>3 DEF S
<1>10. p \in [0..N -> Nat]
  <2>1. p = [n \in 0..N |-> p[n]]
    <3> HIDE DEF p
    <3>1. QED
      BY <1>7
  <2> HIDE DEF p
  <2>2. QED
    BY <1>9, <2>1
<1>11. Sum(s) = p[N]
  BY DEF Sum, Sums
<1>12. QED
  BY <1>8, <1>10, <1>11

LEMMA SumType ==
  /\ \A s \in Seq(Nat) : Sum(s) \in Nat
  /\ Sum(<<>>) = 0
<1>1. ASSUME NEW s \in Seq(Nat) PROVE Sum(s) \in Nat
  <2>1. Sums(s) \in [0 .. Len(s) -> Nat] /\ Sum(s) = Sums(s)[Len(s)]
    BY SumsExist
  <2>2. Len(s) \in 0 .. Len(s)
    OBVIOUS
  <2>3. QED
    BY <2>1, <2>2
<1>2. Sum(<<>>) = 0
  <2> DEFINE s == <<>>
  <2>1. s \in Seq(Nat) /\ Len(s) = 0
    OBVIOUS
  <2> HIDE DEF s
  <2>2. Sums(s)[0] = 0 /\ Sum(s) = Sums(s)[Len(s)]
    BY <2>1, SumsExist
  <2>3. QED
    BY <2>1, <2>2 DEF s
<1>3. QED
  BY <1>1, <1>2

(* The sum grows by the number that is added at the end.                    *)
LEMMA SumAppend ==
  ASSUME NEW s \in Seq(Nat), NEW x \in Nat
  PROVE  Sum(Append(s, x)) = Sum(s) + x
<1> DEFINE N == Len(s)
           t == Append(s, x)
           p == Sums(s)
           q == Sums(t)
           S == {n \in 0..N : p[n] = q[n]}
<1>1. t \in Seq(Nat) /\ Len(t) = N + 1 /\ N \in Nat /\ t[N + 1] = x /\ \A n \in 1..N : t[n] = s[n]
  OBVIOUS
<1>2. p[0] = 0 /\ Sum(s) = p[N] /\ \A n \in 1..N : p[n] = p[n - 1] + s[n]
  BY SumsExist
<1>3. q[0] = 0 /\ Sum(t) = q[Len(t)] /\ \A n \in 1..Len(t) : q[n] = q[n - 1] + t[n]
  <2> HIDE DEF t
  <2>1. QED
    BY <1>1, SumsExist
<1> HIDE DEF p, q, t
<1>4. 0 \in S
  BY <1>1, <1>2, <1>3
<1>5. ASSUME NEW n \in 1..N, n - 1 \in S PROVE n \in S
  BY <1>1, <1>2, <1>3, <1>5
<1>6. N \in S
  <2> HIDE DEF S
  <2>1. \A n \in 0..N : n \in S
    BY <1>1, <1>4, <1>5, UpTo
  <2>2. QED
    BY <1>1, <2>1
<1>7. Sum(t) = q[N] + x
  BY <1>1, <1>3
<1>8. QED
  BY <1>2, <1>6, <1>7 DEF t
(* The sum of two sequences, one after the other.                           *)
LEMMA SumConcat ==
  ASSUME NEW s \in Seq(Nat), NEW t \in Seq(Nat)
  PROVE  Sum(s \o t) = Sum(s) + Sum(t)
<1> DEFINE S == {n \in 0 .. Len(t) : Sum(s \o SubSeq(t, 1, n)) = Sum(s) + Sum(SubSeq(t, 1, n))}
<1>1. Len(t) \in Nat /\ Sum(s) \in Nat
  BY SumType
<1>2. 0 \in S
  <2>1. SubSeq(t, 1, 0) = <<>> /\ s \o <<>> = s
    OBVIOUS
  <2>2. Sum(<<>>) = 0
    BY SumType
  <2>3. Sum(s \o SubSeq(t, 1, 0)) = Sum(s) /\ Sum(SubSeq(t, 1, 0)) = 0
    BY <2>1, <2>2
  <2>4. QED
    BY <1>1, <2>3
<1>3. ASSUME NEW n \in 1 .. Len(t), n - 1 \in S PROVE n \in S
  <2> DEFINE a == SubSeq(t, 1, n - 1)
             b == SubSeq(t, 1, n)
  <2>1. a \in Seq(Nat) /\ b = Append(a, t[n]) /\ t[n] \in Nat
    OBVIOUS
  <2>2. s \o a \in Seq(Nat) /\ s \o b = Append(s \o a, t[n])
    <3> HIDE DEF a, b
    <3>1. s \o Append(a, t[n]) = Append(s \o a, t[n])
      <4> DEFINE x == s \o Append(a, t[n])
                 y == Append(s \o a, t[n])
      <4>1. /\ x \in Seq(Nat) /\ y \in Seq(Nat) /\ Len(x) = Len(y)
        BY <2>1
      <4>2. \A i \in 1 .. Len(x) : x[i] = y[i]
        <5> SUFFICES ASSUME NEW i \in 1 .. Len(x) PROVE x[i] = y[i]
          OBVIOUS
        <5>1. CASE i <= Len(s)
          BY <2>1, <5>1
        <5>2. CASE i > Len(s) /\ i <= Len(s) + Len(a)
          BY <2>1, <5>2
        <5>3. CASE i = Len(s) + Len(a) + 1
          BY <2>1, <5>3
        <5>4. Len(x) = Len(s) + Len(a) + 1 /\ Len(s) \in Nat /\ Len(a) \in Nat
          BY <2>1
        <5>5. QED
          BY <5>1, <5>2, <5>3, <5>4
      <4> HIDE DEF x, y
      <4>3. QED
        BY <4>1, <4>2, SeqEqual
    <3>2. QED
      BY <2>1, <3>1
  <2> HIDE DEF a, b
  <2>3. Sum(s \o b) = Sum(s \o a) + t[n]
    BY <2>1, <2>2, SumAppend
  <2>4. Sum(b) = Sum(a) + t[n]
    BY <2>1, SumAppend
  <2>5. Sum(s \o a) = Sum(s) + Sum(a)
    BY <1>3 DEF a
  <2>6. Sum(a) \in Nat
    BY <2>1, SumType
  <2>7. Sum(s \o b) = Sum(s) + Sum(b)
    BY <1>1, <2>1, <2>3, <2>4, <2>5, <2>6
  <2>8. QED
    BY <2>7 DEF b
<1>4. Len(t) \in S
  <2> HIDE DEF S
  <2>1. \A n \in 0 .. Len(t) : n \in S
    BY <1>1, <1>2, <1>3, UpTo
  <2>2. QED
    BY <1>1, <2>1
<1>5. SubSeq(t, 1, Len(t)) = t
  OBVIOUS
<1>6. QED
  BY <1>4, <1>5

LEMMA NumbersOf == ASSUME NEW s \in Seq(Nat) PROVE \A n \in 1 .. Len(s) : s[n] \in Nat
OBVIOUS

\* the numbers after the first k
LEMMA RestIs ==
  ASSUME NEW s \in Seq(Nat), NEW k \in 0 .. Len(s), NEW b, b = SubSeq(s, k + 1, Len(s))
  PROVE  b \in Seq(Nat) /\ Len(b) = Len(s) - k /\ \A n \in 1 .. Len(s) - k : b[n] = s[k + n]
<1> DEFINE q == Len(s)
<1>1. q \in Nat /\ s \in Seq(Nat) /\ k \in 0 .. q
  OBVIOUS
<1>2. b = [n \in 1 .. q - k |-> s[k + n]]
  OBVIOUS
<1> HIDE DEF q
<1>3. \A n \in 1 .. q - k : s[k + n] \in Nat
  BY <1>1 DEF q
<1>4. q - k \in Nat
  BY <1>1
<1>5. QED
  BY <1>2, <1>3, <1>4 DEF q

LEMMA ConcatOfCut ==
  ASSUME NEW s \in Seq(Nat), NEW k \in 0 .. Len(s)
  PROVE  /\ SubSeq(s, 1, k) \in Seq(Nat) /\ SubSeq(s, k + 1, Len(s)) \in Seq(Nat)
         /\ s = SubSeq(s, 1, k) \o SubSeq(s, k + 1, Len(s))
<1>1. SubSeq(s, 1, k) \in Seq(Nat)
  OBVIOUS
<1>2. SubSeq(s, k + 1, Len(s)) \in Seq(Nat)
  BY RestIs
<1>3. 1 \in 1 .. Len(s) + 1 /\ k \in 1 - 1 .. Len(s) /\ Len(s) \in k .. Len(s)
  OBVIOUS
<1>4. SubSeq(s, 1, k) \o SubSeq(s, k + 1, Len(s)) = SubSeq(s, 1, Len(s))
  BY <1>3, ConcatAdjacentSubSeq
<1>5. SubSeq(s, 1, Len(s)) = s
  BY SubSeqFull
<1>6. QED
  BY <1>1, <1>2, <1>4, <1>5

LEMMA SumCut ==
  ASSUME NEW s \in Seq(Nat), NEW k \in 0 .. Len(s)
  PROVE  Sum(s) = Sum(SubSeq(s, 1, k)) + Sum(SubSeq(s, k + 1, Len(s)))
BY ConcatOfCut, SumConcat

\* the first i numbers are the first i - 1 and the last of them
LEMMA SumFirst ==
  ASSUME NEW s \in Seq(Nat), NEW i \in 1 .. Len(s)
  PROVE  Sum(SubSeq(s, 1, i)) = Sum(SubSeq(s, 1, i - 1)) + s[i]
<1>1. SubSeq(s, 1, i - 1) \in Seq(Nat) /\ SubSeq(s, 1, i) = Append(SubSeq(s, 1, i - 1), s[i]) /\ s[i] \in Nat
  OBVIOUS
<1>2. QED
  BY <1>1, SumAppend

LEMMA SubSeqSame ==
  ASSUME NEW s \in Seq(Nat), NEW t \in Seq(Nat), NEW k \in 0 .. Len(s), k <= Len(t),
         \A n \in 1 .. k : s[n] = t[n]
  PROVE  SubSeq(s, 1, k) = SubSeq(t, 1, k)
<1> DEFINE a == SubSeq(s, 1, k)
           b == SubSeq(t, 1, k)
<1>1. /\ a \in Seq(Nat) /\ Len(a) = k /\ \A n \in 1 .. k : a[n] = s[n]
      /\ b \in Seq(Nat) /\ Len(b) = k /\ \A n \in 1 .. k : b[n] = t[n]
  OBVIOUS
<1> HIDE DEF a, b
<1>2. a = b
  BY <1>1, SeqEqual
<1>3. QED
  BY <1>2 DEF a, b

(* A number that is split in two, and numbers that are added up, leave the  *)
(* sum as it is.                                                            *)
LEMMA SumSplit ==
  ASSUME NEW z \in Seq(Nat), NEW y \in Seq(Nat), NEW i \in 1 .. Len(z), Len(y) = Len(z) + 1,
         \A n \in 1 .. i - 1 : y[n] = z[n], y[i] + y[i + 1] = z[i],
         \A n \in i + 1 .. Len(z) : y[n + 1] = z[n]
  PROVE  Sum(y) = Sum(z)
<1> DEFINE a == SubSeq(z, 1, i - 1)
           b == SubSeq(z, i + 1, Len(z))
           c == SubSeq(y, i + 2, Len(y))
<1>1. /\ i \in Nat /\ Len(z) \in Nat /\ i - 1 \in 0 .. Len(z) /\ i \in 0 .. Len(z) /\ i - 1 <= Len(y)
      /\ i \in 1 .. Len(y) /\ i + 1 \in 1 .. Len(y) /\ i + 1 \in 0 .. Len(y) /\ (i + 1) + 1 = i + 2 /\ (i + 1) - 1 = i
  OBVIOUS
<1>2. a = SubSeq(y, 1, i - 1)
  BY <1>1, SubSeqSame
<1>3. b = c
  <2>1. b \in Seq(Nat) /\ Len(b) = Len(z) - i /\ \A n \in 1 .. Len(z) - i : b[n] = z[i + n]
    <3>1. i \in 0 .. Len(z)
      BY <1>1
    <3>2. QED
      BY <3>1, RestIs
  <2>2. c \in Seq(Nat) /\ Len(c) = Len(y) - (i + 1) /\ \A n \in 1 .. Len(y) - (i + 1) : c[n] = y[(i + 1) + n]
    <3>1. i + 1 \in 0 .. Len(y) /\ c = SubSeq(y, (i + 1) + 1, Len(y))
      BY <1>1
    <3> HIDE DEF c
    <3>2. QED
      BY <3>1, RestIs
  <2>3. Len(y) - (i + 1) = Len(z) - i
    BY <1>1
  <2> HIDE DEF b, c
  <2>4. ASSUME NEW n \in 1 .. Len(z) - i PROVE b[n] = c[n]
    <3>1. i + n \in i + 1 .. Len(z) /\ (i + n) + 1 = (i + 1) + n
      OBVIOUS
    <3>2. y[(i + n) + 1] = z[i + n]
      BY <3>1
    <3>3. QED
      BY <2>1, <2>2, <2>3, <3>1, <3>2
  <2>5. QED
    BY <2>1, <2>2, <2>3, <2>4, SeqEqual
<1>4. Sum(z) = Sum(SubSeq(z, 1, i)) + Sum(b)
  BY <1>1, SumCut
<1>5. Sum(y) = Sum(SubSeq(y, 1, i + 1)) + Sum(c)
  BY <1>1, SumCut
<1>6. Sum(SubSeq(z, 1, i)) = Sum(a) + z[i]
  BY <1>1, SumFirst
<1>7. Sum(SubSeq(y, 1, i)) = Sum(a) + y[i]
  BY <1>1, <1>2, SumFirst
<1>8. Sum(SubSeq(y, 1, i + 1)) = Sum(SubSeq(y, 1, i)) + y[i + 1]
  BY <1>1, SumFirst
<1>9. a \in Seq(Nat) /\ b \in Seq(Nat) /\ y[i] \in Nat /\ y[i + 1] \in Nat /\ z[i] \in Nat
  <2>1. a \in Seq(Nat)
    OBVIOUS
  <2>2. b \in Seq(Nat)
    BY <1>1, RestIs
  <2>3. \A n \in 1 .. Len(y) : y[n] \in Nat
    BY NumbersOf
  <2>4. y[i] \in Nat /\ y[i + 1] \in Nat
    BY <1>1, <2>3
  <2>5. z[i] \in Nat
    OBVIOUS
  <2>6. QED
    BY <2>1, <2>2, <2>4, <2>5
<1> HIDE DEF a, b, c
<1>10. Sum(a) \in Nat /\ Sum(b) \in Nat
  BY <1>9, SumType
<1> DEFINE A == Sum(a)
           p == y[i]
           q == y[i + 1]
           v == z[i]
<1>11. Sum(y) = ((A + p) + q) + Sum(b) /\ Sum(z) = (A + v) + Sum(b)
  BY <1>3, <1>4, <1>5, <1>6, <1>7, <1>8
<1>12. A \in Nat /\ p \in Nat /\ q \in Nat /\ v \in Nat /\ p + q = v
  BY <1>9, <1>10
<1> HIDE DEF A, p, q, v
<1>13. ((A + p) + q) = A + v
  BY <1>12
<1>14. QED
  BY <1>11, <1>13

LEMMA SumMerge ==
  ASSUME NEW z \in Seq(Nat), NEW y \in Seq(Nat), NEW i \in 1 .. Len(z), Len(y) = i,
         \A n \in 1 .. i - 1 : y[n] = z[n], y[i] = Sum(SubSeq(z, i, Len(z)))
  PROVE  Sum(y) = Sum(z)
<1> DEFINE a == SubSeq(z, 1, i - 1)
<1>1. i \in Nat /\ Len(z) \in Nat /\ i - 1 \in 0 .. Len(z) /\ (i - 1) + 1 = i /\ i - 1 <= Len(y) /\ i \in 1 .. Len(y)
  OBVIOUS
<1>2. a = SubSeq(y, 1, i - 1)
  BY <1>1, SubSeqSame
<1>3. SubSeq(y, 1, i) = y
  OBVIOUS
<1>4. Sum(y) = Sum(a) + y[i]
  BY <1>1, <1>2, <1>3, SumFirst
<1>5. Sum(z) = Sum(a) + Sum(SubSeq(z, i, Len(z)))
  BY <1>1, SumCut
<1>6. QED
  BY <1>4, <1>5

(***************************************************************************)
(* Where: the elements of a sequence that are in a set.                    *)
(***************************************************************************)
LEMMA WhereType ==
  ASSUME NEW S, NEW s \in Seq(S), NEW T
  PROVE  /\ Where(s, T) \in Seq(S) /\ Where(s, T) \in Seq(T)
         /\ Len(Where(s, T)) \in Nat /\ Len(Where(s, T)) <= Len(s)
<1> DEFINE P == {n \in DOMAIN s : s[n] \in T}
           w == Chosen(s, P)
<1>1. w \in Seq(S) /\ Len(w) <= Len(s)
  BY ChosenType
<1> HIDE DEF P
<1>2. PICK at \in [1 .. Len(w) -> 1 .. Len(s)] : \A i \in 1 .. Len(w) : at[i] \in P /\ w[i] = s[at[i]]
  BY ChosenPlaces
<1>3. \A i \in 1 .. Len(w) : w[i] \in T
  BY <1>2 DEF P
<1> HIDE DEF w
<1>4. w = [i \in 1 .. Len(w) |-> w[i]] /\ Len(w) \in Nat
  BY <1>1
<1>5. w \in Seq(T)
  BY <1>3, <1>4
<1>6. QED
  BY <1>1, <1>4, <1>5 DEF w, P, Where

LEMMA WhereOfNothing == \A T : Where(<<>>, T) = <<>> /\ Len(Where(<<>>, T)) = 0
<1> SUFFICES ASSUME NEW T PROVE Where(<<>>, T) = <<>> /\ Len(Where(<<>>, T)) = 0
  OBVIOUS
<1>1. Where(<<>>, T) = <<>>
  BY ChosenOfNone DEF Where
<1>2. QED
  BY <1>1

LEMMA WhereAppend ==
  ASSUME NEW S, NEW s \in Seq(S), NEW x \in S, NEW T
  PROVE  Where(Append(s, x), T) = IF x \in T THEN Append(Where(s, T), x) ELSE Where(s, T)
<1> DEFINE t == Append(s, x)
           P == {n \in DOMAIN t : t[n] \in T}
           Q == {n \in DOMAIN s : s[n] \in T}
<1>1. /\ Len(s) \in Nat /\ DOMAIN s = 1 .. Len(s) /\ DOMAIN t = 1 .. Len(s) + 1
      /\ t[Len(s) + 1] = x /\ \A n \in 1 .. Len(s) : t[n] = s[n]
  OBVIOUS
<1>2. \A n \in 1 .. Len(s) : n \in P <=> n \in Q
  BY <1>1
<1>3. Len(s) + 1 \in P <=> x \in T
  BY <1>1
<1>4. Chosen(t, P) = IF Len(s) + 1 \in P THEN Append(Chosen(s, P), x) ELSE Chosen(s, P)
  <2> HIDE DEF P
  <2>1. QED
    BY ChosenAppend
<1>5. Chosen(s, P) = Chosen(s, Q)
  <2> HIDE DEF P, Q
  <2>1. QED
    BY <1>2, ChosenSame
<1>6. QED
  BY <1>3, <1>4, <1>5 DEF Where

LEMMA WhereConcat ==
  ASSUME NEW S, NEW s \in Seq(S), NEW t \in Seq(S), NEW T
  PROVE  /\ Where(s \o t, T) = Where(s, T) \o Where(t, T)
         /\ Len(Where(s \o t, T)) = Len(Where(s, T)) + Len(Where(t, T))
<1> DEFINE N == Len(t)
           u(n) == SubSeq(t, 1, n)
           I == {n \in 0 .. N : Where(s \o u(n), T) = Where(s, T) \o Where(u(n), T)}
<1>1. N \in Nat
  OBVIOUS
<1>2. 0 \in I
  <2>1. u(0) = <<>> /\ s \o <<>> = s
    OBVIOUS
  <2>2. Where(s, T) \in Seq(S)
    BY WhereType
  <2>3. Where(s, T) \o <<>> = Where(s, T)
    BY <2>2
  <2>4. Where(s \o u(0), T) = Where(s, T) \o Where(u(0), T)
    BY <2>1, <2>3, WhereOfNothing
  <2> HIDE DEF u
  <2>5. QED
    BY <1>1, <2>4
<1>3. ASSUME NEW n \in 1 .. N, n - 1 \in I PROVE n \in I
  <2>1. PICK m \in 0 .. N : n = m + 1 /\ n - 1 = m
    BY <1>1
  <2>2. /\ u(m) \in Seq(S) /\ t[n] \in S /\ u(n) = Append(u(m), t[n])
        /\ s \o u(n) = Append(s \o u(m), t[n]) /\ s \o u(m) \in Seq(S)
    BY <1>1, <2>1
  <2>3. Where(s \o u(m), T) = Where(s, T) \o Where(u(m), T)
    BY <1>3, <2>1
  <2>4. Where(s, T) \in Seq(S) /\ Where(u(m), T) \in Seq(S)
    BY <2>2, WhereType
  <2> HIDE DEF u
  <2>9. ASSUME NEW v, NEW z, v \in Seq(S), z = Append(v, t[n])
        PROVE  Where(z, T) = IF t[n] \in T THEN Append(Where(v, T), t[n]) ELSE Where(v, T)
    BY <2>2, <2>9, WhereAppend
  <2>5. /\ Where(u(n), T) = IF t[n] \in T THEN Append(Where(u(m), T), t[n]) ELSE Where(u(m), T)
        /\ Where(s \o u(n), T) =
             IF t[n] \in T THEN Append(Where(s \o u(m), T), t[n]) ELSE Where(s \o u(m), T)
    BY <2>2, <2>9
  <2> DEFINE a == Where(s, T)
             b == Where(u(m), T)
  <2>6. Append(a \o b, t[n]) = a \o Append(b, t[n])
    <3> HIDE DEF a, b
    <3>1. a \in Seq(S) /\ b \in Seq(S)
      BY <2>4 DEF a, b
    <3>2. t[n] \in S
      BY <2>2
    <3>3. ASSUME NEW y \in S PROVE Append(a \o b, y) = a \o Append(b, y)
      <4> DEFINE l == Append(a \o b, y)
                 r == a \o Append(b, y)
                 L == Len(a) + Len(b) + 1
      <4>1. Len(a) \in Nat /\ Len(b) \in Nat
        BY <3>1
      <4>2. l \in Seq(S) /\ r \in Seq(S) /\ Len(l) = L /\ Len(r) = L
        BY <3>1
      <4>3. ASSUME NEW i \in 1 .. L PROVE l[i] = r[i]
        <5>1. CASE i <= Len(a)
          BY <3>1, <4>1, <5>1
        <5>2. CASE i > Len(a) /\ i <= Len(a) + Len(b)
          BY <3>1, <4>1, <5>2
        <5>3. CASE i = Len(a) + Len(b) + 1
          BY <3>1, <4>1, <5>3
        <5>4. QED
          BY <4>1, <5>1, <5>2, <5>3
      <4> HIDE DEF l, r
      <4>4. l = [i \in 1 .. L |-> l[i]] /\ r = [i \in 1 .. L |-> r[i]]
        BY <4>2
      <4>5. l = r
        BY <4>3, <4>4
      <4>6. QED
        BY <4>5 DEF l, r
    <3>4. QED
      BY <3>2, <3>3
  <2>7. Where(s \o u(n), T) = Where(s, T) \o Where(u(n), T)
    BY <2>3, <2>5, <2>6
  <2>8. QED
    BY <2>7
<1>4. N \in I
  <2> HIDE DEF I, N
  <2>1. \A n \in 0 .. N : n \in I
    BY <1>1, <1>2, <1>3, UpTo
  <2>2. QED
    BY <1>1, <2>1
<1>5. u(N) = t
  OBVIOUS
<1>6. Where(s \o t, T) = Where(s, T) \o Where(t, T)
  BY <1>4, <1>5
<1>7. Where(s, T) \in Seq(S) /\ Where(t, T) \in Seq(S)
  BY WhereType
<1>8. QED
  BY <1>6, <1>7

(* Taking the first element from a sequence.                                *)
LEMMA WhereTail ==
  ASSUME NEW S, NEW s \in Seq(S), s # <<>>, NEW T
  PROVE  /\ Head(s) \in S /\ Tail(s) \in Seq(S)
         /\ Where(s, T) = (IF Head(s) \in T THEN <<Head(s)>> ELSE <<>>) \o Where(Tail(s), T)
         /\ Len(Where(s, T)) = (IF Head(s) \in T THEN 1 ELSE 0) + Len(Where(Tail(s), T))
<1>1. Head(s) \in S /\ Tail(s) \in Seq(S) /\ s = <<Head(s)>> \o Tail(s) /\ <<Head(s)>> \in Seq(S)
  OBVIOUS
<1>2. Where(<<Head(s)>>, T) = IF Head(s) \in T THEN <<Head(s)>> ELSE <<>>
  <2>1. ASSUME NEW x \in S PROVE Where(<<x>>, T) = IF x \in T THEN <<x>> ELSE <<>>
    <3> DEFINE e == <<>>
    <3>1. e \in Seq(S) /\ <<x>> = Append(e, x) /\ Where(e, T) = e
      BY WhereOfNothing
    <3> HIDE DEF e
    <3>2. Where(Append(e, x), T) = IF x \in T THEN Append(e, x) ELSE e
      BY <3>1, WhereAppend
    <3>3. QED
      BY <3>1, <3>2 DEF e
  <2>2. QED
    BY <1>1, <2>1
<1> DEFINE h == <<Head(s)>>
           t == Tail(s)
<1>3. Where(s, T) = Where(h, T) \o Where(t, T) /\ Len(Where(s, T)) = Len(Where(h, T)) + Len(Where(t, T))
  <2>1. h \in Seq(S) /\ t \in Seq(S) /\ s = h \o t
    BY <1>1
  <2> HIDE DEF h, t
  <2>2. QED
    BY <2>1, WhereConcat
<1>4. Len(Where(h, T)) = IF Head(s) \in T THEN 1 ELSE 0
  BY <1>2
<1>5. QED
  BY <1>1, <1>2, <1>3, <1>4

LEMMA WhereFound ==
  ASSUME NEW S, NEW s \in Seq(S), NEW T
  PROVE  /\ \A i \in 1 .. Len(Where(s, T)) : \E n \in 1 .. Len(s) : Where(s, T)[i] = s[n]
         /\ \A n \in 1 .. Len(s) : s[n] \in T => \E i \in 1 .. Len(Where(s, T)) : Where(s, T)[i] = s[n]
         /\ (\A n \in 1 .. Len(s) : s[n] \notin T) => Where(s, T) = <<>> /\ Len(Where(s, T)) = 0
<1> DEFINE P == {n \in DOMAIN s : s[n] \in T}
           w == Chosen(s, P)
<1> HIDE DEF P
<1>1. PICK at \in [1 .. Len(w) -> 1 .. Len(s)] :
        /\ \A i \in 1 .. Len(w) : at[i] \in P /\ w[i] = s[at[i]]
        /\ \A n \in 1 .. Len(s) : n \in P => \E i \in 1 .. Len(w) : at[i] = n
  BY ChosenPlaces
<1>2. \A n \in 1 .. Len(s) : n \in P <=> s[n] \in T
  BY DEF P
<1>3. w \in Seq(S)
  BY ChosenType
<1>4. (\A n \in 1 .. Len(s) : s[n] \notin T) => Len(w) = 0
  <2> SUFFICES ASSUME \A n \in 1 .. Len(s) : s[n] \notin T PROVE Len(w) = 0
    OBVIOUS
  <2>1. \A i \in 1 .. Len(w) : FALSE
    BY <1>1, <1>2
  <2> HIDE DEF w
  <2>2. Len(w) \in Nat
    BY <1>3
  <2>3. QED
    BY <2>1, <2>2
<1>5. Where(s, T) = w
  BY DEF Where, P
<1> HIDE DEF w
<1>6. Len(w) = 0 => w = <<>>
  BY <1>3
<1>7. QED
  BY <1>1, <1>2, <1>4, <1>5, <1>6

(* What is chosen once is there once.                                       *)
LEMMA WhereOnce ==
  ASSUME NEW S, NEW s \in Seq(S), NEW T, Len(Where(s, T)) <= 1,
         NEW m \in 1 .. Len(s), NEW n \in 1 .. Len(s), s[m] \in T, s[n] \in T
  PROVE  m = n
<1> DEFINE P == {k \in DOMAIN s : s[k] \in T}
           w == Chosen(s, P)
<1> HIDE DEF P
<1>1. PICK at \in [1 .. Len(w) -> 1 .. Len(s)] :
        \A k \in 1 .. Len(s) : k \in P => \E i \in 1 .. Len(w) : at[i] = k
  BY ChosenPlaces
<1>2. m \in P /\ n \in P
  BY DEF P
<1>3. w \in Seq(S)
  BY ChosenType
<1>4. Len(w) <= 1
  BY DEF Where, P
<1> HIDE DEF w
<1>5. PICK i \in 1 .. Len(w), j \in 1 .. Len(w) : at[i] = m /\ at[j] = n
  BY <1>1, <1>2
<1>6. Len(w) \in Nat
  BY <1>3
<1>7. i = j
  BY <1>4, <1>5, <1>6
<1>8. QED
  BY <1>5, <1>7
=============================================================================
