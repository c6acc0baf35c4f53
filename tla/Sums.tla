-------------------------------- MODULE Sums --------------------------------
(***************************************************************************)
(* What the proofs need to know of sums over the elements of an array, as  *)
(* the programs form them in a loop: the sum is a number, grows and        *)
(* shrinks with one element, and reaches its maximum only when every       *)
(* element has.                                                            *)
(***************************************************************************)
EXTENDS Integers, WellFoundedInduction, TLAPS

(* A minute for every leaf that does not name a prover. *)
USE SMTT(60)

(* PartialSums(v, n)[i] is v[0] + ... + v[i - 1], for i up to n. *)
PartialSums(v, n) ==
    LET sum[i \in 0 .. n] == IF i = 0 THEN 0 ELSE sum[i - 1] + v[i - 1]
    IN  sum

SumUpTo(v, n) == PartialSums(v, n)[n]

-----------------------------------------------------------------------------
(* A set of natural numbers that is not empty has a least element.  It     *)
(* stands for induction: what fails for some number fails for a least one. *)
LEMMA Least ==
    ASSUME NEW T, T \subseteq Nat, T # {}
    PROVE  \E x \in T : \A y \in T : x <= y
  <1>1. IsWellFoundedOn(OpToRel(<, Nat), Nat)
    BY NatLessThanWellFounded, Zenon
  <1>2. \A x, y \in Nat : y < x => <<y, x>> \in OpToRel(<, Nat)
    BY DEF OpToRel
  <1>3. PICK R : /\ IsWellFoundedOn(R, Nat)
                 /\ \A x, y \in Nat : y < x => <<y, x>> \in R
    BY <1>1, <1>2, Zenon
  <1>4. PICK x \in T : \A y \in T : ~(<<y, x>> \in R)
    BY <1>3, WFMin, ZenonT(30)
  <1>5. ASSUME NEW y \in T PROVE x <= y
    <2>1. x \in Nat /\ y \in Nat
      BY <1>4, Zenon
    <2>2. ~(y < x)
      BY <1>3, <1>4, <2>1, Zenon
    <2> QED
      BY <2>1, <2>2
  <1> QED
    BY <1>5

(* What the definition of PartialSums asks of a function. *)
IsSums(f, v, n) ==
    f = [i \in 0 .. n |-> IF i = 0 THEN 0 ELSE f[i - 1] + v[i - 1]]

(* There is such a function, for every length of the array. *)
LEMMA SumsExist ==
    ASSUME NEW v, NEW N \in Nat
    PROVE  \E f : IsSums(f, v, N)
  <1> DEFINE T == {n \in Nat : ~\E f : IsSums(f, v, n)}
  <1> SUFFICES ASSUME T # {} PROVE FALSE
    OBVIOUS
  <1>1. PICK n \in T : \A k \in T : n <= k
    BY Least, ZenonT(30)
  <1>2. n # 0
    <2>1. IsSums([i \in 0 .. 0 |-> 0], v, 0)
      BY DEF IsSums
    <2> QED
      BY <1>1, <2>1
  <1>3. n - 1 \in Nat /\ n - 1 \notin T /\ n \in Nat
    BY <1>1, <1>2
  <1>4. PICK f : IsSums(f, v, n - 1)
    BY <1>3
  <1> DEFINE g == [i \in 0 .. n |-> IF i = n THEN f[n - 1] + v[n - 1] ELSE f[i]]
  <1>5. IsSums(g, v, n)
    <2>1. \A i \in 0 .. n - 1 : f[i] = IF i = 0 THEN 0 ELSE f[i - 1] + v[i - 1]
      BY <1>4 DEF IsSums
    <2>2. ASSUME NEW i \in 0 .. n
          PROVE  g[i] = IF i = 0 THEN 0 ELSE g[i - 1] + v[i - 1]
      <3>1. CASE i = n
        BY <1>2, <1>3, <3>1
      <3>2. CASE i # n
        BY <1>2, <1>3, <2>1, <3>2
      <3> QED
        BY <3>1, <3>2
    <2>3. g = [i \in 0 .. n |-> g[i]]
      OBVIOUS
    <2> HIDE DEF g
    <2> QED
      BY <2>2, <2>3, ZenonT(30) DEF IsSums
  <1> QED
    BY <1>1, <1>5

(* So PartialSums satisfies its own equation. *)
LEMMA SumsDef ==
    ASSUME NEW v, NEW N \in Nat
    PROVE  /\ PartialSums(v, N)[0] = 0
           /\ \A i \in 0 .. N : i # 0 =>
                 PartialSums(v, N)[i] = PartialSums(v, N)[i - 1] + v[i - 1]
  <1>1. \E f : f = [i \in 0 .. N |-> IF i = 0 THEN 0 ELSE f[i - 1] + v[i - 1]]
    BY SumsExist, ZenonT(30) DEF IsSums
  <1>2. PartialSums(v, N) =
           CHOOSE f : f = [i \in 0 .. N |-> IF i = 0 THEN 0 ELSE f[i - 1] + v[i - 1]]
    BY DEF PartialSums
  <1>3. IsSums(PartialSums(v, N), v, N)
    BY <1>1, <1>2, Zenon DEF IsSums
  <1> QED
    BY <1>3 DEF IsSums

(* Every function that satisfies the equation has the same sum. *)
LEMMA SumsUnique ==
    ASSUME NEW N \in Nat, NEW v, NEW f, IsSums(f, v, N)
    PROVE  f[N] = SumUpTo(v, N)
  <1> DEFINE F == PartialSums(v, N)
             T == {n \in Nat : n <= N /\ F[n] # f[n]}
  <1>0. SUFFICES ASSUME T # {} PROVE FALSE
    BY DEF SumUpTo
  <1>1. PICK n \in T : \A k \in T : n <= k
    BY <1>0, Least, ZenonT(30)
  <1>2. F[0] = 0 /\ \A i \in 0 .. N : i # 0 => F[i] = F[i - 1] + v[i - 1]
    BY SumsDef
  <1> HIDE DEF F
  <1>3. f[0] = 0 /\ \A i \in 0 .. N : i # 0 => f[i] = f[i - 1] + v[i - 1]
    BY DEF IsSums
  <1>4. n # 0 /\ n \in 0 .. N
    BY <1>1, <1>2, <1>3
  <1>5. n - 1 \in 0 .. N /\ n - 1 \notin T
    BY <1>1, <1>4
  <1>6. F[n - 1] = f[n - 1]
    BY <1>5
  <1> QED
    BY <1>1, <1>2, <1>3, <1>4, <1>6

(* The sums of numbers are numbers. *)
LEMMA SumsType ==
    ASSUME NEW N \in Nat, NEW v \in [0 .. N - 1 -> Int]
    PROVE  \A n \in 0 .. N : PartialSums(v, N)[n] \in Int
  <1> DEFINE F == PartialSums(v, N)
             T == {n \in Nat : n <= N /\ F[n] \notin Int}
  <1> SUFFICES ASSUME T # {} PROVE FALSE
    OBVIOUS
  <1>1. PICK n \in T : \A k \in T : n <= k
    BY Least, ZenonT(30)
  <1>2. F[0] = 0 /\ \A i \in 0 .. N : i # 0 => F[i] = F[i - 1] + v[i - 1]
    BY SumsDef, ZenonT(30)
  <1> HIDE DEF F
  <1>3. n # 0 /\ n \in 0 .. N
    BY <1>1, <1>2
  <1>4. n - 1 \in 0 .. N /\ n - 1 \notin T
    BY <1>1, <1>3
  <1>5. F[n - 1] \in Int /\ v[n - 1] \in Int
    BY <1>3, <1>4
  <1> QED
    BY <1>1, <1>2, <1>3, <1>5

(* The sum of natural numbers is one. *)
LEMMA SumIsNat ==
    ASSUME NEW N \in Nat, NEW v \in [0 .. N - 1 -> Nat]
    PROVE  SumUpTo(v, N) \in Nat
  <1> DEFINE F == PartialSums(v, N)
             T == {n \in Nat : n <= N /\ F[n] \notin Nat}
  <1>0. SUFFICES ASSUME T # {} PROVE FALSE
    BY DEF SumUpTo
  <1>1. PICK n \in T : \A k \in T : n <= k
    BY <1>0, Least, ZenonT(30)
  <1>2. F[0] = 0 /\ \A i \in 0 .. N : i # 0 => F[i] = F[i - 1] + v[i - 1]
    BY SumsDef, ZenonT(30)
  <1> HIDE DEF F
  <1>3. n # 0 /\ n \in 0 .. N
    BY <1>1, <1>2
  <1>4. n - 1 \in 0 .. N /\ n - 1 \notin T
    BY <1>1, <1>3
  <1>5. F[n - 1] \in Nat /\ v[n - 1] \in Nat
    BY <1>3, <1>4
  <1> QED
    BY <1>1, <1>2, <1>3, <1>5

(* One element changes, and the sum with it. *)
LEMMA SumUpdate ==
    ASSUME NEW N \in Nat, NEW v \in [0 .. N - 1 -> Int],
           NEW w \in [0 .. N - 1 -> Int], NEW k \in 0 .. N - 1,
           \A i \in 0 .. N - 1 : i # k => w[i] = v[i]
    PROVE  SumUpTo(w, N) = SumUpTo(v, N) + w[k] - v[k]
  <1> DEFINE F == PartialSums(v, N)
             G == PartialSums(w, N)
             T == {n \in Nat :
                     /\ n <= N
                     /\ G[n] # IF n <= k THEN F[n] ELSE F[n] + w[k] - v[k]}
  <1>1. F[0] = 0 /\ \A i \in 0 .. N : i # 0 => F[i] = F[i - 1] + v[i - 1]
    BY SumsDef, ZenonT(30)
  <1>2. G[0] = 0 /\ \A i \in 0 .. N : i # 0 => G[i] = G[i - 1] + w[i - 1]
    BY SumsDef, ZenonT(30)
  <1>3. \A n \in 0 .. N : F[n] \in Int /\ G[n] \in Int
    BY SumsType
  <1>4. SumUpTo(w, N) = G[N] /\ SumUpTo(v, N) = F[N]
    BY DEF SumUpTo
  <1> HIDE DEF F, G
  <1>5. ASSUME T # {} PROVE FALSE
    <2>1. PICK n \in T : \A j \in T : n <= j
      BY <1>5, Least, ZenonT(30)
    <2>2. n # 0 /\ n \in 0 .. N
      BY <1>1, <1>2, <2>1
    <2>3. n - 1 \in 0 .. N - 1 /\ n - 1 \in 0 .. N /\ n - 1 \notin T
      BY <2>1, <2>2
    <2>4. G[n - 1] = IF n - 1 <= k THEN F[n - 1] ELSE F[n - 1] + w[k] - v[k]
      BY <2>3
    <2>5. /\ F[n] = F[n - 1] + v[n - 1] /\ G[n] = G[n - 1] + w[n - 1]
          /\ F[n - 1] \in Int /\ v[n - 1] \in Int /\ w[n - 1] \in Int
          /\ v[k] \in Int /\ w[k] \in Int
      BY <1>1, <1>2, <1>3, <2>2, <2>3
    <2>6. CASE n - 1 < k
      <3>1. w[n - 1] = v[n - 1] /\ n <= k
        BY <2>2, <2>3, <2>6
      <3> QED
        BY <2>1, <2>2, <2>4, <2>5, <2>6, <3>1
    <2>7. CASE n - 1 = k
      BY <2>1, <2>2, <2>4, <2>5, <2>7
    <2>8. CASE n - 1 > k
      <3>1. w[n - 1] = v[n - 1] /\ ~(n <= k)
        BY <2>2, <2>3, <2>8
      <3> QED
        BY <2>1, <2>2, <2>4, <2>5, <2>8, <3>1
    <2> QED
      BY <2>2, <2>6, <2>7, <2>8
  <1>6. N \in 0 .. N /\ ~(N <= k) /\ N \notin T
    BY <1>5
  <1> QED
    BY <1>4, <1>6

(* The sum of an array of zeros. *)
LEMMA SumOfZeros ==
    ASSUME NEW N \in Nat, NEW v, \A i \in 0 .. N - 1 : v[i] = 0
    PROVE  SumUpTo(v, N) = 0
  <1> DEFINE F == PartialSums(v, N)
             T == {n \in Nat : n <= N /\ F[n] # 0}
  <1>0. SUFFICES ASSUME T # {} PROVE FALSE
    BY DEF SumUpTo
  <1>1. PICK n \in T : \A k \in T : n <= k
    BY <1>0, Least, ZenonT(30)
  <1>2. F[0] = 0 /\ \A i \in 0 .. N : i # 0 => F[i] = F[i - 1] + v[i - 1]
    BY SumsDef
  <1> HIDE DEF F
  <1>3. n # 0 /\ n \in 0 .. N
    BY <1>1, <1>2
  <1>4. n - 1 \in 0 .. N /\ n - 1 \notin T /\ v[n - 1] = 0
    BY <1>1, <1>3
  <1>5. F[n - 1] = 0
    BY <1>4
  <1> QED
    BY <1>1, <1>2, <1>3, <1>4, <1>5

(* Elements of at most m add up to no more than N * m, and to N * m only if *)
(* every one of them is m.                                                  *)
LEMMA SumIsMaximal ==
    ASSUME NEW N \in Nat, NEW m \in Nat, NEW v \in [0 .. N - 1 -> Int],
           \A i \in 0 .. N - 1 : v[i] <= m, SumUpTo(v, N) = N * m
    PROVE  \A i \in 0 .. N - 1 : v[i] = m
  <1> DEFINE F == PartialSums(v, N)
             T == {n \in Nat :
                     /\ n <= N
                     /\ ~ /\ F[n] <= n * m
                          /\ \A i \in 0 .. n - 1 : v[i] # m => F[n] < n * m}
  <1>1. F[0] = 0 /\ \A i \in 0 .. N : i # 0 => F[i] = F[i - 1] + v[i - 1]
    BY SumsDef, ZenonT(30)
  <1>2. \A n \in 0 .. N : F[n] \in Int
    BY SumsType
  <1>3. F[N] = N * m
    BY DEF SumUpTo
  <1> HIDE DEF F
  <1>4. ASSUME T # {} PROVE FALSE
    <2>1. PICK n \in T : \A j \in T : n <= j
      BY <1>4, Least, ZenonT(30)
    <2>2. n # 0 /\ n \in 0 .. N
      BY <1>1, <2>1
    <2>3. n - 1 \in 0 .. N - 1 /\ n - 1 \in 0 .. N /\ n - 1 \notin T
      BY <2>1, <2>2
    <2>4. F[n - 1] <= (n - 1) * m /\ \A i \in 0 .. n - 2 : v[i] # m => F[n - 1] < (n - 1) * m
      BY <2>3
    <2>5. /\ F[n] = F[n - 1] + v[n - 1]
          /\ F[n - 1] \in Int /\ v[n - 1] \in Int /\ v[n - 1] <= m
      BY <1>1, <1>2, <2>2, <2>3
    <2>6. n * m = (n - 1) * m + m /\ (n - 1) * m \in Int
      BY <2>2
    <2>7. F[n] <= n * m
      BY <2>4, <2>5, <2>6
    <2>8. ASSUME NEW i \in 0 .. n - 1, v[i] # m PROVE F[n] < n * m
      <3>1. CASE i = n - 1
        BY <2>4, <2>5, <2>6, <2>8, <3>1
      <3>2. CASE i # n - 1
        <4>1. F[n - 1] < (n - 1) * m
          BY <2>2, <2>4, <2>8, <3>2
        <4> QED
          BY <2>5, <2>6, <4>1
      <3> QED
        BY <3>1, <3>2
    <2> QED
      BY <2>1, <2>7, <2>8
  <1>5. N \in 0 .. N /\ N \notin T /\ N * m \in Int
    BY <1>4
  <1> QED
    BY <1>2, <1>3, <1>5
=============================================================================
