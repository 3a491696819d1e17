---------------------------- MODULE ConfigProofs -----------------------------
(***************************************************************************)
(* What NewConsumer guarantees of the Config it accepts, for settings of   *)
(* any value.  The sums and doublings of config.go are loops, and their    *)
(* results are found by induction over the naturals, in the form of the    *)
(* least counterexample: that form takes a set, not a predicate, and is    *)
(* within reach of the provers.                                            *)
(***************************************************************************)
EXTENDS Config, WellFoundedInduction, TLAPS

(* What the powers of two are; the prover knows of ^ no more than 2 ^ 0.   *)
Powers == \A n \in Nat : 2 ^ (n + 1) = 2 * 2 ^ n

(* MaxBackoff, slept at each retry and once more, is a duration.           *)
Roomy ==
    \A n \in Counts, b \in Backoffs :
        n >= 0 /\ b >= 0 => (Or(n, 3) + 1) * Or(b, 50) <= Half
-----------------------------------------------------------------------------
Less == {p \in Nat \X Nat : p[1] < p[2]}

(* A set of naturals that is not empty has a least element. *)
LEMMA Least ==
    ASSUME NEW S, S \subseteq Nat, S # {}
    PROVE  \E x \in S : \A y \in S : ~(y < x)
<1>1. IsWellFoundedOn(Less, Nat)
  BY NatLessThanWellFounded, Zenon DEF OpToRel, Less
<1>2. \E x \in S : \A y \in S : <<y, x>> \notin Less
  BY <1>1, WFMin, Zenon
<1> QED
  BY <1>2 DEF Less

(* Induction up to n, for the members of a set. *)
LEMMA Upto ==
    ASSUME NEW n \in Nat, NEW S, 0 \in S,
           \A k \in 1..n : k - 1 \in S => k \in S
    PROVE  \A k \in 0..n : k \in S
<1> DEFINE T == {k \in 0..n : k \notin S}
<1> SUFFICES ASSUME T # {} PROVE FALSE
  OBVIOUS
<1>1. T \subseteq Nat
  OBVIOUS
<1>2. PICK x \in T : \A y \in T : ~(y < x)
  <2> HIDE DEF T
  <2> QED
    BY <1>1, Least
<1>3. x \in 1..n /\ x - 1 \notin T /\ x - 1 \in 0..n
  BY <1>2
<1> QED
  BY <1>3

(* f is what a loop over 1..n computes from a. *)
Done(n, a, F, f) == f[0] = a /\ \A k \in 1..n : f[k] = F[k][f[k-1]]

LEMMA Loop ==
    ASSUME NEW n \in Nat, NEW a \in Int, NEW F,
           \A k \in Nat, x \in Int : F[k][x] \in Int
    PROVE  \E f \in [0..n -> Int] : Done(n, a, F, f)
<1> USE DEF Done
<1> DEFINE S == {m \in Nat : \E f \in [0..m -> Int] : Done(m, a, F, f)}
<1>1. 0 \in S
  <2>1. [k \in 0..0 |-> a] \in [0..0 -> Int] /\ Done(0, a, F, [k \in 0..0 |-> a])
    OBVIOUS
  <2> QED
    BY <2>1
<1>2. ASSUME NEW m \in 1..n, m - 1 \in S PROVE m \in S
  <2>1. PICK f \in [0..(m-1) -> Int] : Done(m - 1, a, F, f)
    BY <1>2
  <2>2. m \in Nat /\ m - 1 \in 0..(m-1)
    OBVIOUS
  <2>3. F[m][f[m-1]] \in Int
    BY <2>2
  <2> DEFINE g == [k \in 0..m |-> IF k = m THEN F[m][f[m-1]] ELSE f[k]]
  <2>4. g \in [0..m -> Int]
    BY <2>3
  <2>5. g[0] = a /\ \A k \in 0..(m-1) : g[k] = f[k]
    BY <2>1
  <2>6. g[m] = F[m][f[m-1]]
    OBVIOUS
  <2> HIDE DEF g
  <2>7. ASSUME NEW k \in 1..m PROVE g[k] = F[k][g[k-1]]
    <3>1. CASE k = m
      BY <2>2, <2>5, <2>6, <3>1
    <3>2. CASE k \in 1..(m-1)
      <4>1. k \in 0..(m-1) /\ k - 1 \in 0..(m-1)
        BY <3>2
      <4> QED
        BY <2>1, <2>5, <3>2, <4>1
    <3> QED
      BY <3>1, <3>2
  <2>8. Done(m, a, F, g)
    BY <2>5, <2>7
  <2> QED
    BY <2>2, <2>4, <2>8
<1> HIDE DEF S
<1>3. \A k \in 1..n : k - 1 \in S => k \in S
  BY <1>2
<1>4. \A k \in 0..n : k \in S
  BY <1>1, <1>3, Upto, Zenon
<1>5. n \in 0..n
  OBVIOUS
<1> QED
  BY <1>4, <1>5, Zenon DEF S
-----------------------------------------------------------------------------
LEMMA PowersPositive ==
    ASSUME Powers
    PROVE  \A n \in Nat : 2 ^ n \in Nat /\ 2 ^ n > 0
<1> SUFFICES ASSUME NEW n \in Nat PROVE 2 ^ n \in Nat /\ 2 ^ n > 0
  OBVIOUS
<1> DEFINE S == {k \in Nat : 2 ^ k \in Nat /\ 2 ^ k > 0}
<1>1. 0 \in S
  OBVIOUS
<1>2. ASSUME NEW k \in 1..n, k - 1 \in S PROVE k \in S
  <2>1. 2 ^ ((k - 1) + 1) = 2 * 2 ^ (k - 1)
    BY DEF Powers
  <2>2. (k - 1) + 1 = k
    OBVIOUS
  <2> QED
    BY <1>2, <2>1, <2>2
<1> HIDE DEF S
<1>3. n \in S
  BY <1>1, <1>2, Upto
<1> QED
  BY <1>3 DEF S

(* Durations that fit are not changed by their width. *)
LEMMA Widths ==
    ASSUME Powers
    PROVE  /\ Half \in Nat /\ Half > 0
           /\ \A n \in Int : Wrap(n) \in Int
           /\ \A n \in Nat : n < Half => Wrap(n) = n
<1>1. Half \in Nat /\ Half > 0
  <2>1. Width - 1 \in Nat
    BY ConfigAssumption
  <2> QED
    BY <2>1, PowersPositive DEF Half
<1>2. ASSUME NEW n \in Int PROVE Wrap(n) \in Int
  BY <1>1 DEF Wrap
<1>3. ASSUME NEW n \in Nat, n < Half PROVE Wrap(n) = n
  <2>1. n + Half \in 0..(2 * Half - 1) /\ 2 * Half \in Nat /\ 2 * Half > 0
    BY <1>1, <1>3
  <2>2. (n + Half) % (2 * Half) = n + Half
    BY <2>1
  <2> QED
    BY <1>1, <2>2 DEF Wrap
<1> QED
  BY <1>1, <1>2, <1>3
-----------------------------------------------------------------------------
(* The loop of backoffUpperBound, and what it returns. *)
Doubles(r, i, d) ==
    d = [k \in 0..i |-> IF k = 0 THEN r.initial
                        ELSE IF d[k-1] >= r.max THEN d[k-1] ELSE Wrap(2 * d[k-1])]

LEMMA Doubled ==
    ASSUME Powers, NEW r, r.initial \in Int, r.max \in Int, NEW i \in Nat
    PROVE  \E d \in [0..i -> Int] :
              /\ d[0] = r.initial
              /\ \A k \in 1..i : d[k] = IF d[k-1] >= r.max THEN d[k-1] ELSE Wrap(2 * d[k-1])
              /\ backoffUpperBound(r, i) = IF d[i] >= r.max THEN r.max ELSE d[i]
<1> DEFINE F == [k \in Nat |-> [x \in Int |-> IF x >= r.max THEN x ELSE Wrap(2 * x)]]
           G == CHOOSE d : Doubles(r, i, d)
<1>1. \A k \in Nat, x \in Int : F[k][x] = IF x >= r.max THEN x ELSE Wrap(2 * x)
  OBVIOUS
<1>2. \A x \in Int : Wrap(2 * x) \in Int
  BY Widths
<1>3. \A k \in Nat, x \in Int : F[k][x] \in Int
  BY <1>1, <1>2
<1> HIDE DEF F
<1>4. PICK f \in [0..i -> Int] : Done(i, r.initial, F, f)
  BY <1>3, Loop
<1>5. Doubles(r, i, f)
  <2>1. ASSUME NEW k \in 1..i
        PROVE  f[k] = IF f[k-1] >= r.max THEN f[k-1] ELSE Wrap(2 * f[k-1])
    <3>1. k \in Nat /\ f[k-1] \in Int
      OBVIOUS
    <3> QED
      BY <1>1, <1>4, <3>1 DEF Done
  <2> DEFINE E(k) == IF k = 0 THEN r.initial
                    ELSE IF f[k-1] >= r.max THEN f[k-1] ELSE Wrap(2 * f[k-1])
  <2>2. \A k \in 0..i : k = 0 \/ k \in 1..i
    OBVIOUS
  <2>3. \A k \in 0..i : f[k] = E(k)
    BY <1>4, <2>1, <2>2 DEF Done
  <2> HIDE DEF E
  <2>4. f = [k \in 0..i |-> E(k)]
    BY <2>3
  <2> QED
    BY <2>4 DEF Doubles, E
<1>6. Doubles(r, i, G)
  BY <1>5
<1>7. backoffUpperBound(r, i) = IF G[i] >= r.max THEN r.max ELSE G[i]
  BY DEF backoffUpperBound, Doubles
<1> HIDE DEF G
<1>8. /\ G[0] = r.initial
      /\ \A k \in 1..i : G[k] = IF G[k-1] >= r.max THEN G[k-1] ELSE Wrap(2 * G[k-1])
  <2> DEFINE E(k) == IF k = 0 THEN r.initial
                    ELSE IF G[k-1] >= r.max THEN G[k-1] ELSE Wrap(2 * G[k-1])
  <2>1. G = [k \in 0..i |-> E(k)]
    BY <1>6 DEF Doubles
  <2> HIDE DEF E
  <2>2. \A k \in 0..i : G[k] = E(k)
    BY <2>1
  <2>3. 0 \in 0..i /\ \A k \in 1..i : k \in 0..i /\ k # 0
    OBVIOUS
  <2> QED
    BY <2>2, <2>3 DEF E
<1> DEFINE S == {k \in 0..i : G[k] \in Int}
<1>9. 0 \in S
  BY <1>8
<1>10. \A k \in 1..i : k - 1 \in S => k \in S
  BY <1>2, <1>8
<1> HIDE DEF S
<1>11. \A k \in 0..i : k \in S
  BY <1>9, <1>10, Upto, Zenon
<1>12. G = [k \in 0..i |-> G[k]]
  BY <1>6 DEF Doubles
<1>13. G \in [0..i -> Int]
  BY <1>11, <1>12 DEF S
<1> QED
  BY <1>7, <1>8, <1>13

(* backoffUpperBound without overflow: what its documentation says. *)
Documented(r, i) == IF r.initial * 2 ^ i > r.max THEN r.max ELSE r.initial * 2 ^ i

LEMMA UpperBound ==
    ASSUME Powers, NEW r, r.initial \in Nat, r.max \in Nat, 2 * r.max <= Half, NEW i \in Nat
    PROVE  /\ backoffUpperBound(r, i) = Documented(r, i)
           /\ backoffUpperBound(r, i) \in 0..r.max
<1>0. r.initial \in Int /\ r.max \in Int
  OBVIOUS
<1>1. PICK d \in [0..i -> Int] :
         /\ d[0] = r.initial
         /\ \A k \in 1..i : d[k] = IF d[k-1] >= r.max THEN d[k-1] ELSE Wrap(2 * d[k-1])
         /\ backoffUpperBound(r, i) = IF d[i] >= r.max THEN r.max ELSE d[i]
  BY <1>0, Doubled
<1>2. Half \in Nat /\ \A n \in Nat : n < Half => Wrap(n) = n
  BY Widths
<1>3. PICK a \in Nat : a = r.initial
  OBVIOUS
<1>4. PICK m \in Nat : m = r.max
  OBVIOUS
<1> DEFINE S == {k \in 0..i : /\ d[k] \in Nat
                              /\ d[k] < m => d[k] = a * 2 ^ k
                              /\ d[k] >= m => a * 2 ^ k >= m}
<1>5. 0 \in S
  BY <1>1, <1>3
<1>6. ASSUME NEW k \in 1..i, k - 1 \in S PROVE k \in S
  <2>1. PICK p \in Nat : p = 2 ^ (k - 1)
    BY PowersPositive
  <2>2. 2 ^ k = 2 * p
    <3>1. 2 ^ ((k - 1) + 1) = 2 * 2 ^ (k - 1) /\ (k - 1) + 1 = k
      BY DEF Powers
    <3> QED
      BY <2>1, <3>1
  <2>3. PICK q \in Nat : q = a * p
    OBVIOUS
  <2>4. a * 2 ^ k = 2 * q
    BY <2>2, <2>3
  <2>5. /\ d[k-1] \in Nat /\ k \in 0..i
        /\ d[k-1] < m => d[k-1] = q
        /\ d[k-1] >= m => q >= m
    BY <1>6, <2>1, <2>3
  <2> HIDE DEF S
  <2>6. CASE d[k-1] >= m
    <3>1. d[k] = d[k-1]
      BY <1>1, <1>4, <2>6
    <3> QED
      BY <2>4, <2>5, <2>6, <3>1 DEF S
  <2>7. CASE d[k-1] < m
    <3>1. 2 * d[k-1] \in Nat /\ 2 * d[k-1] < Half /\ ~(d[k-1] >= m)
      BY <1>2, <1>4, <2>5, <2>7
    <3>2. d[k] = 2 * d[k-1]
      BY <1>1, <1>2, <1>4, <3>1
    <3>3. d[k] = 2 * q /\ d[k] \in Nat
      BY <2>5, <2>7, <3>2
    <3> QED
      BY <2>4, <2>5, <3>3 DEF S
  <2> QED
    BY <2>5, <2>6, <2>7
<1> HIDE DEF S
<1>7. \A k \in 0..i : k \in S
  BY <1>5, <1>6, Upto, Zenon
<1>8. PICK x \in Nat : x = d[i]
  BY <1>7 DEF S
<1>9. PICK e \in Nat : e = a * 2 ^ i
  BY PowersPositive
<1>10. (x < m => x = e) /\ (x >= m => e >= m)
  BY <1>7, <1>8, <1>9 DEF S
<1>11. backoffUpperBound(r, i) = IF x >= m THEN m ELSE x
  BY <1>1, <1>4, <1>8
<1>12. Documented(r, i) = IF e > m THEN m ELSE e
  BY <1>3, <1>4, <1>9 DEF Documented
<1> QED
  BY <1>4, <1>10, <1>11, <1>12

(* The sum of worstCaseBackoff. *)
Sums(r, t) ==
    t = [k \in 0..r.retries |->
            IF k = 0 THEN 0 ELSE Wrap(t[k-1] + backoffUpperBound(r, k-1))]

LEMMA Summed ==
    ASSUME Powers, NEW r, r.initial \in Int, r.max \in Int, r.retries \in Nat
    PROVE  \E t \in [0..r.retries -> Int] :
              /\ t[0] = 0
              /\ \A k \in 1..r.retries : t[k] = Wrap(t[k-1] + backoffUpperBound(r, k-1))
              /\ worstCaseBackoff(r) = t[r.retries]
<1>1. PICK n \in Nat : n = r.retries
  OBVIOUS
<1> DEFINE U(k) == backoffUpperBound(r, k - 1)
           F == [k \in Nat |-> [x \in Int |-> IF k \in 1..n THEN Wrap(x + U(k)) ELSE 0]]
           G == CHOOSE t : Sums(r, t)
<1>2. \A k \in 1..n : U(k) \in Int
  <2> SUFFICES ASSUME NEW k \in 1..n PROVE backoffUpperBound(r, k - 1) \in Int
    OBVIOUS
  <2>1. k - 1 \in Nat
    OBVIOUS
  <2> QED
    BY <2>1, Doubled
<1>3. worstCaseBackoff(r) = G[r.retries]
  BY DEF worstCaseBackoff, Sums
<1>4. Sums(r, G) <=> G = [k \in 0..n |-> IF k = 0 THEN 0 ELSE Wrap(G[k-1] + U(k))]
  BY <1>1 DEF Sums
<1>5. \A f : Sums(r, f) <=> f = [k \in 0..n |-> IF k = 0 THEN 0 ELSE Wrap(f[k-1] + U(k))]
  BY <1>1 DEF Sums
<1> HIDE DEF U
<1>6. \A x \in Int : Wrap(x) \in Int
  BY Widths
<1>7. \A k \in 1..n, x \in Int : Wrap(x + U(k)) \in Int
  BY <1>2, <1>6
<1>8. /\ \A k \in Nat, x \in Int : F[k][x] \in Int
      /\ \A k \in 1..n, x \in Int : F[k][x] = Wrap(x + U(k))
  BY <1>7
<1> HIDE DEF F
<1>9. PICK f \in [0..n -> Int] : Done(n, 0, F, f)
  <2>1. \A k \in Nat, x \in Int : F[k][x] \in Int
    BY <1>8
  <2>2. 0 \in Int
    OBVIOUS
  <2> QED
    BY <2>1, <2>2, Loop
<1>10. Sums(r, f)
  <2> DEFINE E(k) == IF k = 0 THEN 0 ELSE Wrap(f[k-1] + U(k))
  <2>1. ASSUME NEW k \in 0..n PROVE f[k] = E(k)
    <3>1. CASE k = 0
      BY <1>9, <3>1 DEF Done
    <3>2. CASE k \in 1..n
      <4>1. f[k-1] \in Int
        BY <3>2
      <4> QED
        BY <1>8, <1>9, <3>2, <4>1 DEF Done
    <3> QED
      BY <3>1, <3>2
  <2>2. Sums(r, f) <=> f = [k \in 0..n |-> E(k)]
    BY <1>5
  <2> HIDE DEF E
  <2> QED
    BY <2>1, <2>2
<1>11. Sums(r, G)
  BY <1>10
<1> HIDE DEF G
<1>12. G = [k \in 0..n |-> IF k = 0 THEN 0 ELSE Wrap(G[k-1] + U(k))]
  BY <1>4, <1>11
<1>13. G[0] = 0 /\ \A k \in 1..n : G[k] = Wrap(G[k-1] + U(k))
  BY <1>12
<1> DEFINE S == {k \in 0..n : G[k] \in Int}
<1>14. 0 \in S
  BY <1>13
<1>15. ASSUME NEW k \in 1..n, k - 1 \in S PROVE k \in S
  <2>1. G[k] = Wrap(G[k-1] + U(k)) /\ G[k-1] \in Int
    BY <1>13, <1>15
  <2>2. G[k] \in Int
    BY <1>7, <2>1
  <2> QED
    BY <2>2
<1> HIDE DEF S
<1>16. \A k \in 0..n : k \in S
  BY <1>14, <1>15, Upto, Zenon
<1>17. G \in [0..n -> Int]
  BY <1>12, <1>16 DEF S
<1> QED
  BY <1>1, <1>3, <1>13, <1>17 DEF U

LEMMA Times ==
    ASSUME NEW k \in Nat, NEW n \in Nat, NEW m \in Nat, k <= n
    PROVE  k * m <= n * m
<1>1. PICK j \in Nat : n = k + j
  <2>1. n - k \in Nat /\ n = k + (n - k)
    OBVIOUS
  <2> QED
    BY <2>1
<1>2. n * m = k * m + j * m /\ j * m \in Nat /\ k * m \in Nat
  BY <1>1
<1> QED
  BY <1>2

(* worstCaseBackoff without overflow: the exact sum. *)
LEMMA WorstCase ==
    ASSUME Powers, NEW r, r.initial \in Nat, r.max \in Nat, r.retries \in Nat,
           r.max >= 1, r.retries >= 1, (r.retries + 1) * r.max <= Half
    PROVE  \E t \in [0..r.retries -> Int] :
              /\ t[0] = 0
              /\ \A k \in 1..r.retries : t[k] = t[k-1] + backoffUpperBound(r, k-1)
              /\ worstCaseBackoff(r) = t[r.retries]
<1>1. PICK n \in Nat : n = r.retries
  OBVIOUS
<1>2. PICK m \in Nat : m = r.max
  OBVIOUS
<1>3. Half \in Nat /\ \A x \in Nat : x < Half => Wrap(x) = x
  BY Widths
<1>4. (n + 1) * m <= Half /\ n >= 1 /\ m >= 1
  BY <1>1, <1>2
<1>5. n * m < Half /\ 2 * m <= Half
  <2>1. (n + 1) * m = n * m + m /\ n * m \in Nat
    OBVIOUS
  <2>2. 2 * m <= (n + 1) * m
    BY <1>4, Times
  <2> QED
    BY <1>3, <1>4, <2>1, <2>2
<1>6. r.initial \in Int /\ r.max \in Int
  OBVIOUS
<1>7. PICK t \in [0..r.retries -> Int] :
         /\ t[0] = 0
         /\ \A k \in 1..r.retries : t[k] = Wrap(t[k-1] + backoffUpperBound(r, k-1))
         /\ worstCaseBackoff(r) = t[r.retries]
  BY <1>6, Summed
<1> DEFINE S == {k \in 0..n : /\ t[k] \in 0..(k * m)
                              /\ k # 0 => t[k] = t[k-1] + backoffUpperBound(r, k-1)}
<1>8. 0 \in S
  BY <1>7
<1>9. ASSUME NEW k \in 1..n, k - 1 \in S PROVE k \in S
  <2>1. k - 1 \in Nat /\ k \in Nat /\ k <= n
    OBVIOUS
  <2>2. backoffUpperBound(r, k - 1) \in 0..m
    BY <1>2, <1>5, <2>1, UpperBound
  <2>3. PICK u \in Nat : u = backoffUpperBound(r, k - 1) /\ u <= m
    BY <2>2
  <2>4. PICK x \in Nat : x = t[k-1] /\ x <= (k - 1) * m
    BY <1>9, <2>1
  <2>5. k * m = (k - 1) * m + m /\ (k - 1) * m \in Nat
    BY <2>1
  <2>6. k * m \in Nat /\ k * m < Half
    <3>1. PICK y \in Nat : y = k * m
      BY <2>1
    <3>2. PICK z \in Nat : z = n * m
      OBVIOUS
    <3>3. y <= z /\ z < Half
      BY <1>5, <2>1, <3>1, <3>2, Times
    <3> QED
      BY <1>3, <3>1, <3>3
  <2>7. x + u \in Nat /\ x + u <= k * m
    BY <2>3, <2>4, <2>5
  <2>8. x + u < Half
    BY <1>3, <2>6, <2>7
  <2>9. t[k] = Wrap(x + u)
    BY <1>1, <1>7, <2>3, <2>4
  <2>10. t[k] = x + u
    BY <1>3, <2>7, <2>8, <2>9
  <2>11. t[k] \in 0..(k * m)
    BY <2>6, <2>7, <2>10
  <2> QED
    BY <2>3, <2>4, <2>10, <2>11
<1> HIDE DEF S
<1>10. \A k \in 0..n : k \in S
  BY <1>8, <1>9, Upto, Zenon
<1>11. ASSUME NEW k \in 1..n PROVE t[k] = t[k-1] + backoffUpperBound(r, k-1)
  <2>1. k \in 0..n /\ k # 0
    OBVIOUS
  <2> QED
    BY <1>10, <2>1 DEF S
<1> QED
  BY <1>1, <1>7, <1>11
-----------------------------------------------------------------------------
(* What the checks and the defaults have made of a Config. *)
Settings == [retries : Int, initial : Int, max : Int, concurrency : Int,
             interval : Int, idle : Int, attempts : Int, shutdown : Int,
             named : SUBSET (Required \cup {"consumer"})]

Typed == cfg \in Settings /\ stage \in Stages

Checked ==
    stage \in {"valid", "accepted"} =>
        /\ cfg.retries >= 1 /\ cfg.initial >= 1 /\ cfg.max >= 1
        /\ {"source", "address"} \subseteq cfg.named

LEMMA TypedInit ==
    Init => Typed
<1> SUFFICES ASSUME Init PROVE Typed
  OBVIOUS
<1>1. /\ Counts \subseteq Int /\ Backoffs \subseteq Int /\ Intervals \subseteq Int
      /\ Attempts \subseteq Int /\ Small \subseteq Int
      /\ Names \subseteq SUBSET (Required \cup {"consumer"})
  BY ConfigAssumption
<1> QED
  BY <1>1 DEF Init, Typed, Settings, Stages

(* The defaults of Config.Validate and those of validateConsumer. *)
LEMMA Defaulting ==
    ASSUME NEW c \in Settings
    PROVE  /\ [c EXCEPT !.retries = Or(@, 3), !.initial = Or(@, 1), !.max = Or(@, 50)] \in Settings
           /\ ConsumerDefaults(c) \in Settings
           /\ [ConsumerDefaults(c) EXCEPT !.named = @ \cup {"consumer"}] \in Settings
<1>1. [c EXCEPT !.retries = Or(@, 3), !.initial = Or(@, 1), !.max = Or(@, 50)] \in Settings
  <2>1. ASSUME NEW x \in Int, NEW y \in Int, NEW z \in Int
        PROVE  [c EXCEPT !.retries = x, !.initial = y, !.max = z] \in Settings
    BY DEF Settings
  <2>2. Or(c.retries, 3) \in Int /\ Or(c.initial, 1) \in Int /\ Or(c.max, 50) \in Int
    BY DEF Settings, Or
  <2> QED
    BY <2>1, <2>2
<1>2. ConsumerDefaults(c) \in Settings
  <2> USE DEF Settings, Or
  <2>1. PICK v \in Int : v = Or(c.concurrency, 1)
    OBVIOUS
  <2>2. PICK w \in Int : w = Or(c.interval, 300)
    OBVIOUS
  <2>3. PICK x \in Int : x = Or(c.idle, 600)
    OBVIOUS
  <2>4. PICK y \in Int : y = Or(c.attempts, 5)
    OBVIOUS
  <2>5. PICK z \in Int : z = Or(c.shutdown, 300)
    OBVIOUS
  <2> HIDE DEF Or
  <2>6. ConsumerDefaults(c) = [c EXCEPT !.concurrency = v, !.interval = w, !.idle = x,
                                        !.attempts = y, !.shutdown = z]
    BY <2>1, <2>2, <2>3, <2>4, <2>5 DEF ConsumerDefaults
  <2>7. [c EXCEPT !.concurrency = v, !.interval = w, !.idle = x,
                  !.attempts = y, !.shutdown = z] \in Settings
    OBVIOUS
  <2> QED
    BY <2>6, <2>7, Zenon
<1>3. \A d \in Settings : [d EXCEPT !.named = @ \cup {"consumer"}] \in Settings
  BY DEF Settings
<1> QED
  BY <1>1, <1>2, <1>3

LEMMA TypedNext ==
    Typed /\ [Next]_vars => Typed'
<1> SUFFICES ASSUME Typed, [Next]_vars PROVE Typed'
  OBVIOUS
<1>1. CASE Validate
  <2>1. cfg' \in Settings
    BY <1>1, Defaulting DEF Validate, Typed
  <2> QED
    BY <1>1, <2>1 DEF Validate, Typed, Stages
<1>2. CASE validateConsumer
  <2>1. cfg' \in Settings
    BY <1>2, Defaulting DEF validateConsumer, Typed
  <2> QED
    BY <1>2, <2>1 DEF validateConsumer, Typed, Stages
<1>3. CASE Retry \/ UNCHANGED vars
  BY <1>3 DEF Retry, vars, Typed
<1> QED
  BY <1>1, <1>2, <1>3 DEF Next

LEMMA CheckedNext ==
    Typed /\ Checked /\ [Next]_vars => Checked'
<1> SUFFICES ASSUME Typed, Checked, [Next]_vars PROVE Checked'
  OBVIOUS
<1>1. CASE Validate
  <2>1. CASE ValidInput(cfg) /\ stage' = "valid"
    <3>1. cfg' = [cfg EXCEPT !.retries = Or(@, 3), !.initial = Or(@, 1), !.max = Or(@, 50)]
      BY <1>1, <2>1 DEF Validate
    <3>2. /\ cfg'.retries = Or(cfg.retries, 3) /\ cfg'.initial = Or(cfg.initial, 1)
          /\ cfg'.max = Or(cfg.max, 50) /\ cfg'.named = cfg.named
      BY <3>1 DEF Typed, Settings
    <3> QED
      BY <2>1, <3>2 DEF ValidInput, Or, Checked, Typed, Settings
  <2> QED
    BY <1>1, <2>1 DEF Validate, Checked
<1>2. CASE validateConsumer
  <2>1. CASE stage' = "accepted"
    <3>1. cfg' = [ConsumerDefaults(cfg) EXCEPT !.named = @ \cup {"consumer"}] /\ stage = "valid"
      BY <1>2, <2>1 DEF validateConsumer
    <3>2. /\ cfg'.retries = cfg.retries /\ cfg'.initial = cfg.initial
          /\ cfg'.max = cfg.max /\ cfg'.named = cfg.named \cup {"consumer"}
      BY <3>1 DEF ConsumerDefaults, Typed, Settings
    <3> QED
      BY <3>1, <3>2 DEF Checked
  <2> QED
    BY <1>2, <2>1 DEF validateConsumer, Checked
<1>3. CASE Retry \/ UNCHANGED vars
  BY <1>3 DEF Retry, vars, Checked
<1> QED
  BY <1>1, <1>2, <1>3 DEF Next

LEMMA UsableNext ==
    Typed /\ Checked /\ AcceptedUsable /\ [Next]_vars => AcceptedUsable'
<1> SUFFICES ASSUME Typed, Checked, AcceptedUsable, [Next]_vars PROVE AcceptedUsable'
  OBVIOUS
<1>1. CASE Validate
  BY <1>1 DEF Validate, AcceptedUsable
<1>2. CASE validateConsumer
  <2>1. CASE stage' = "accepted"
    <3>1. /\ ConsumerInput(cfg) /\ TimesFit(ConsumerDefaults(cfg)) /\ stage = "valid"
          /\ cfg' = [ConsumerDefaults(cfg) EXCEPT !.named = @ \cup {"consumer"}]
      BY <1>2, <2>1 DEF validateConsumer
    <3>2. /\ cfg'.concurrency >= 1 /\ cfg'.interval > 0 /\ cfg'.shutdown > 0
          /\ cfg'.retries >= 1
      BY <3>1 DEF ConsumerInput, ConsumerDefaults, Or, Typed, Settings, Checked
    <3>3. cfg'.idle >= cfg'.interval
      BY <3>1 DEF TimesFit, ConsumerDefaults, Or, Typed, Settings
    <3>4. cfg'.named = cfg.named \cup {"consumer"}
      BY <3>1 DEF ConsumerDefaults, Typed, Settings
    <3>5. cfg'.named = Required \cup {"consumer"}
      BY <3>1, <3>4 DEF ConsumerInput, Checked, Typed, Settings, Required
    <3> QED
      BY <3>2, <3>3, <3>5 DEF AcceptedUsable
  <2> QED
    BY <2>1 DEF AcceptedUsable
<1>3. CASE Retry \/ UNCHANGED vars
  BY <1>3 DEF Retry, vars, AcceptedUsable
<1> QED
  BY <1>1, <1>2, <1>3 DEF Next

(* Whatever settings are given, those NewConsumer accepts have slots, a    *)
(* claim loop that runs, reclaims no more frequent than the sweeps, a      *)
(* drain that ends, and a name in every field.                             *)
THEOREM AcceptedAlwaysUsable == Spec => []AcceptedUsable
<1>1. Init => Typed /\ Checked /\ AcceptedUsable
  BY TypedInit DEF Init, Checked, AcceptedUsable
<1>2. Typed /\ Checked /\ AcceptedUsable /\ [Next]_vars
         => (Typed /\ Checked /\ AcceptedUsable)'
  BY TypedNext, CheckedNext, UsableNext
<1> QED
  BY <1>1, <1>2, PTL DEF Spec
-----------------------------------------------------------------------------
LEMMA TypesNext ==
    ASSUME Powers
    PROVE  TypeOK /\ Checked /\ [Next]_vars => TypeOK'
<1> SUFFICES ASSUME TypeOK, Checked, [Next]_vars PROVE TypeOK'
  OBVIOUS
<1>1. Typed /\ Typed'
  BY TypedNext DEF TypeOK, Typed, Settings
<1>2. Checked'
  BY <1>1, CheckedNext
<1>3. CASE Validate
  <2>1. tries' = 0 /\ slept' = slept /\ stage' # "accepted"
    BY <1>3 DEF Validate, TypeOK
  <2> QED
    BY <1>1, <2>1 DEF TypeOK, Typed, Settings
<1>4. CASE validateConsumer
  <2>1. tries' = 0 /\ slept' = slept
    BY <1>4 DEF validateConsumer, TypeOK
  <2>2. stage' = "accepted" => cfg'.retries \in Int /\ 0 <= cfg'.retries
    BY <1>1, <1>2 DEF Checked, Typed, Settings
  <2>3. tries' \in 0..(IF stage' = "accepted" THEN cfg'.retries ELSE 0)
    BY <2>1, <2>2
  <2> QED
    BY <1>1, <2>1, <2>3 DEF TypeOK, Typed, Settings
<1>5. CASE Retry
  <2>1. /\ stage = "accepted" /\ stage' = stage /\ cfg' = cfg
        /\ tries < cfg.retries /\ tries' = tries + 1
    BY <1>5 DEF Retry
  <2>2. tries \in Nat /\ cfg.retries \in Int /\ cfg.initial \in Int /\ cfg.max \in Int
    BY <1>1, <2>1 DEF TypeOK, Typed, Settings
  <2>3. backoffUpperBound(cfg, tries) \in Int
    BY <2>2, Doubled
  <2>4. \A t \in Jitter(backoffUpperBound(cfg, tries)) : t \in Nat
    BY <2>3 DEF Jitter
  <2>5. slept' \in Nat
    BY <1>5, <2>4 DEF Retry, TypeOK
  <2>6. tries' \in 0..(IF stage' = "accepted" THEN cfg'.retries ELSE 0)
    BY <2>1, <2>2
  <2> QED
    BY <1>1, <2>5, <2>6 DEF TypeOK, Typed, Settings
<1>6. CASE UNCHANGED vars
  BY <1>6 DEF vars, TypeOK
<1> QED
  BY <1>3, <1>4, <1>5, <1>6 DEF Next

LEMMA TypesInvariant ==
    ASSUME Powers
    PROVE  Spec => [](TypeOK /\ Checked)
<1>1. Init => TypeOK /\ Checked
  BY TypedInit DEF Init, TypeOK, Typed, Settings, Checked
<1>2. TypeOK => Typed
  BY DEF TypeOK, Typed, Settings
<1>3. TypeOK /\ Checked /\ [Next]_vars => (TypeOK /\ Checked)'
  BY <1>2, TypesNext, CheckedNext
<1> QED
  BY <1>1, <1>3, PTL DEF Spec

(* No retry goes beyond MaxImmediateRetries, and no sleep of runWithRetry  *)
(* is negative, even where the arithmetic of its bound wraps around.       *)
THEOREM ConfigTypes ==
    ASSUME Powers
    PROVE  Spec => []TypeOK
  BY TypesInvariant, PTL
-----------------------------------------------------------------------------
(* Behind Validate the durations that can be summed up fit. *)
Fits ==
    /\ stage = "given" => cfg.retries \in Counts /\ cfg.max \in Backoffs
    /\ stage \in {"valid", "accepted"} => (cfg.retries + 1) * cfg.max <= Half

LEMMA FitsNext ==
    ASSUME Roomy
    PROVE  Typed /\ Fits /\ [Next]_vars => Fits'
<1> SUFFICES ASSUME Typed, Fits, [Next]_vars PROVE Fits'
  OBVIOUS
<1>1. CASE Validate
  <2>1. CASE ValidInput(cfg) /\ stage' = "valid"
    <3>1. cfg' = [cfg EXCEPT !.retries = Or(@, 3), !.initial = Or(@, 1), !.max = Or(@, 50)]
      BY <1>1, <2>1 DEF Validate
    <3>2. cfg'.retries = Or(cfg.retries, 3) /\ cfg'.max = Or(cfg.max, 50)
      BY <3>1 DEF Typed, Settings
    <3>3. cfg.retries \in Counts /\ cfg.retries >= 0 /\ cfg.max \in Backoffs /\ cfg.max >= 0
      BY <1>1, <2>1 DEF Validate, ValidInput, Fits
    <3>4. (Or(cfg.retries, 3) + 1) * Or(cfg.max, 50) <= Half
      BY <3>3, Zenon DEF Roomy
    <3> QED
      BY <2>1, <3>2, <3>4 DEF Fits
  <2> QED
    BY <1>1, <2>1 DEF Validate, Fits
<1>2. CASE validateConsumer
  <2>1. CASE stage' = "accepted"
    <3>1. cfg' = [ConsumerDefaults(cfg) EXCEPT !.named = @ \cup {"consumer"}] /\ stage = "valid"
      BY <1>2, <2>1 DEF validateConsumer
    <3>2. cfg'.retries = cfg.retries /\ cfg'.max = cfg.max
      BY <3>1 DEF ConsumerDefaults, Typed, Settings
    <3> QED
      BY <2>1, <3>1, <3>2 DEF Fits
  <2> QED
    BY <1>2, <2>1 DEF validateConsumer, Fits
<1>3. CASE Retry \/ UNCHANGED vars
  BY <1>3 DEF Retry, vars, Fits
<1> QED
  BY <1>1, <1>2, <1>3 DEF Next

LEMMA FitsInvariant ==
    ASSUME Powers, Roomy
    PROVE  Spec => []Fits
<1>1. Init => Fits
  BY DEF Init, Fits
<1>2. TypeOK => Typed
  BY DEF TypeOK, Typed, Settings
<1>3. TypeOK /\ Fits /\ [Next]_vars => Fits'
  BY <1>2, FitsNext
<1> QED
  BY <1>1, <1>3, TypesInvariant, PTL DEF Spec

LEMMA Factors ==
    ASSUME TypeOK, Checked, Fits, stage \in {"valid", "accepted"}, Powers
    PROVE  /\ cfg.initial \in Nat /\ cfg.max \in Nat /\ cfg.retries \in Nat
           /\ cfg.max >= 1 /\ cfg.retries >= 1 /\ (cfg.retries + 1) * cfg.max <= Half
           /\ 2 * cfg.max <= Half
<1>1. /\ cfg.initial \in Nat /\ cfg.max \in Nat /\ cfg.retries \in Nat
      /\ cfg.max >= 1 /\ cfg.retries >= 1
  BY DEF TypeOK, Checked
<1>2. (cfg.retries + 1) * cfg.max <= Half
  BY DEF Fits
<1>3. PICK n \in Nat : n = cfg.retries + 1 /\ n >= 2
  BY <1>1
<1>4. PICK m \in Nat : m = cfg.max
  BY <1>1
<1>5. 2 * m <= n * m
  BY <1>3, Times
<1>6. 2 * m \in Nat /\ n * m \in Nat /\ Half \in Nat
  BY Widths
<1>7. n * m <= Half
  BY <1>2, <1>3, <1>4
<1> QED
  BY <1>1, <1>2, <1>4, <1>5, <1>6, <1>7

(* Where the longest backoff fits into a duration, backoffUpperBound, which *)
(* doubles in a loop, has the closed form its documentation gives.         *)
THEOREM BackoffDocumented ==
    ASSUME Powers, Roomy
    PROVE  Spec => []BackoffAsDocumented
<1>1. TypeOK /\ Checked /\ Fits => BackoffAsDocumented
  <2> SUFFICES ASSUME TypeOK, Checked, Fits, stage = "accepted"
               PROVE  backoffUpperBound(cfg, tries) = Documented(cfg, tries)
    BY DEF BackoffAsDocumented, Documented
  <2>1. tries \in Nat
    BY DEF TypeOK
  <2>2. cfg.initial \in Nat /\ cfg.max \in Nat /\ 2 * cfg.max <= Half
    BY Factors
  <2> QED
    BY <2>1, <2>2, UpperBound
<1> QED
  BY <1>1, TypesInvariant, FitsInvariant, PTL
-----------------------------------------------------------------------------
(* t holds the sums of the bounds, and all retries together stay below     *)
(* ClaimMinIdle.                                                           *)
Plan(c, t) ==
    /\ t \in [0..c.retries -> Int]
    /\ t[0] = 0
    /\ \A k \in 1..c.retries : t[k] = t[k-1] + backoffUpperBound(c, k-1)
    /\ t[c.retries] < c.idle

(* What a delivery has slept is within the sum up to its retry. *)
Spent ==
    /\ stage # "accepted" => slept = 0
    /\ stage = "accepted" => \E t : Plan(cfg, t) /\ slept <= t[tries]

LEMMA SpentNext ==
    ASSUME Powers, Roomy
    PROVE  TypeOK /\ Checked /\ Fits /\ Spent /\ [Next]_vars => Spent'
<1> SUFFICES ASSUME TypeOK, Checked, Fits, Spent, [Next]_vars PROVE Spent'
  OBVIOUS
<1>1. CASE Validate
  BY <1>1 DEF Validate, Spent
<1>2. CASE validateConsumer
  <2>1. CASE stage' = "accepted"
    <3> DEFINE c == ConsumerDefaults(cfg)
    <3>1. /\ stage = "valid" /\ TimesFit(c) /\ tries' = tries /\ slept' = slept
          /\ cfg' = [c EXCEPT !.named = @ \cup {"consumer"}]
      BY <1>2, <2>1 DEF validateConsumer
    <3>2. c \in Settings /\ cfg \in Settings
      BY Defaulting DEF TypeOK, Settings
    <3>3. c.retries = cfg.retries /\ c.initial = cfg.initial /\ c.max = cfg.max
      BY <3>2 DEF ConsumerDefaults, Settings
    <3> HIDE DEF c
    <3>4. /\ c.initial \in Nat /\ c.max \in Nat /\ c.retries \in Nat
          /\ c.max >= 1 /\ c.retries >= 1 /\ (c.retries + 1) * c.max <= Half
      BY <3>1, <3>3, Factors
    <3>5. PICK t \in [0..c.retries -> Int] :
             /\ t[0] = 0
             /\ \A k \in 1..c.retries : t[k] = t[k-1] + backoffUpperBound(c, k-1)
             /\ worstCaseBackoff(c) = t[c.retries]
      BY <3>4, WorstCase
    <3>6. Plan(c, t)
      BY <3>1, <3>5 DEF TimesFit, Plan
    <3>7. /\ cfg'.retries = c.retries /\ cfg'.initial = c.initial
          /\ cfg'.max = c.max /\ cfg'.idle = c.idle
      BY <3>1, <3>2 DEF Settings
    <3>8. \A k : backoffUpperBound(cfg', k) = backoffUpperBound(c, k)
      BY <3>7 DEF backoffUpperBound
    <3>9. Plan(cfg', t)
      BY <3>6, <3>7, <3>8 DEF Plan
    <3>10. tries' = 0 /\ slept' = 0
      BY <3>1 DEF TypeOK, Spent
    <3>11. slept' <= t[tries']
      BY <3>5, <3>10
    <3> QED
      BY <2>1, <3>9, <3>11 DEF Spent
  <2> QED
    BY <1>2, <2>1 DEF validateConsumer, Spent
<1>3. CASE Retry
  <2>1. /\ stage = "accepted" /\ stage' = stage /\ cfg' = cfg
        /\ tries < cfg.retries /\ tries' = tries + 1
    BY <1>3 DEF Retry
  <2>2. PICK t : Plan(cfg, t) /\ slept <= t[tries]
    BY <2>1 DEF Spent
  <2>3. tries \in Nat /\ cfg.retries \in Nat /\ slept \in Nat
    BY <2>1, Factors DEF TypeOK
  <2>4. tries \in 0..cfg.retries /\ tries + 1 \in 1..cfg.retries /\ (tries + 1) - 1 = tries
    BY <2>1, <2>3
  <2>5. PICK u \in Int : u = backoffUpperBound(cfg, tries) /\ u >= 0
    <3>1. cfg.initial \in Nat /\ cfg.max \in Nat /\ 2 * cfg.max <= Half
      BY <2>1, Factors
    <3>2. backoffUpperBound(cfg, tries) \in 0..cfg.max
      BY <2>3, <3>1, UpperBound
    <3> QED
      BY <3>1, <3>2
  <2>6. t[tries + 1] = t[tries] + u /\ t[tries] \in Int
    BY <2>2, <2>4, <2>5 DEF Plan
  <2>7. PICK x \in Jitter(u) : slept' = slept + x
    BY <1>3, <2>5 DEF Retry
  <2>8. x \in Int /\ x <= u
    BY <2>5, <2>7 DEF Jitter
  <2>9. slept' <= t[tries']
    BY <2>1, <2>2, <2>3, <2>5, <2>6, <2>7, <2>8
  <2> QED
    BY <2>1, <2>2, <2>9 DEF Spent
<1>4. CASE UNCHANGED vars
  BY <1>4 DEF vars, Spent
<1> QED
  BY <1>1, <1>2, <1>3, <1>4 DEF Next

(* The sums grow: a delivery in the middle of its retries is below the     *)
(* sum of all of them.                                                     *)
LEMMA SpentBelow ==
    ASSUME Powers, TypeOK, Checked, Fits, Spent
    PROVE  SleepsBelowClaimMinIdle
<1> SUFFICES ASSUME stage = "accepted" PROVE slept < cfg.idle
  BY DEF SleepsBelowClaimMinIdle
<1>1. PICK t : Plan(cfg, t) /\ slept <= t[tries]
  BY DEF Spent
<1>2. PICK n \in Nat : n = cfg.retries
  BY Factors
<1>3. cfg.initial \in Nat /\ cfg.max \in Nat /\ 2 * cfg.max <= Half
  BY Factors
<1>4. t \in [0..n -> Int] /\ t[n] < cfg.idle
  BY <1>1, <1>2 DEF Plan
<1>5. tries \in 0..n /\ slept \in Nat /\ cfg.idle \in Int
  BY <1>2 DEF TypeOK
<1> DEFINE S == {k \in 0..n : tries <= k => t[tries] <= t[k]}
<1>6. 0 \in S
  BY <1>4, <1>5
<1>7. ASSUME NEW k \in 1..n, k - 1 \in S PROVE k \in S
  <2>1. k - 1 \in Nat /\ k \in 0..n /\ k - 1 \in 0..n
    OBVIOUS
  <2>2. backoffUpperBound(cfg, k - 1) \in 0..cfg.max
    BY <1>3, <2>1, UpperBound
  <2>3. PICK u \in Nat : u = backoffUpperBound(cfg, k - 1)
    BY <1>3, <2>2
  <2>4. t[k] = t[k-1] + u /\ t[k] \in Int /\ t[k-1] \in Int /\ t[tries] \in Int
    BY <1>1, <1>2, <1>4, <1>5, <2>1, <2>3 DEF Plan
  <2>5. tries <= k - 1 => t[tries] <= t[k-1]
    BY <1>7
  <2>6. ASSUME tries <= k PROVE t[tries] <= t[k]
    <3>1. CASE tries = k
      BY <2>4, <3>1
    <3>2. CASE tries <= k - 1
      BY <2>4, <2>5, <3>2
    <3> QED
      BY <1>5, <2>6, <3>1, <3>2
  <2> QED
    BY <2>1, <2>6
<1> HIDE DEF S
<1>8. \A k \in 0..n : k \in S
  BY <1>6, <1>7, Upto, Zenon
<1>9. n \in 0..n
  OBVIOUS
<1>10. t[tries] <= t[n] /\ t[tries] \in Int /\ t[n] \in Int
  BY <1>4, <1>5, <1>8, <1>9 DEF S
<1> QED
  BY <1>1, <1>4, <1>5, <1>10

(* README: "NewConsumer rejects a config whose worst-case backoff reaches  *)
(* Consumer.ClaimMinIdle".  Where the sums fit into a duration, the        *)
(* retries of one delivery never sleep for as long as ClaimMinIdle.        *)
THEOREM SleepsBounded ==
    ASSUME Powers, Roomy
    PROVE  Spec => []SleepsBelowClaimMinIdle
<1>1. Init => Spent
  BY DEF Init, Spent
<1>2. TypeOK /\ Checked /\ Fits /\ Spent /\ [Next]_vars => Spent'
  BY SpentNext
<1>3. TypeOK /\ Checked /\ Fits /\ Spent => SleepsBelowClaimMinIdle
  BY SpentBelow
<1> QED
  BY <1>1, <1>2, <1>3, TypesInvariant, FitsInvariant, PTL DEF Spec
=============================================================================
