---------------------- MODULE DetectorEvaluation_proofs ----------------------
(***************************************************************************)
(* Proofs about DetectorEvaluation, for any corpus, evidence, holdout      *)
(* plans, selections of workloads and sessions, in this order: the pairing *)
(* of samples, the sealing of the final holdout, the acceptance before a   *)
(* matrix, types, the account of every run, splits, and what is refused.   *)
(***************************************************************************)
EXTENDS DetectorEvaluation, WellFoundedInduction, FiniteSetTheorems, TLAPS

-----------------------------------------------------------------------------
(* Numbers *)

LessThan == {p \in Nat \X Nat : p[1] < p[2]}

LEMMA LeastNumber ==
  ASSUME NEW T, T \subseteq Nat, T # {}
  PROVE  \E x \in T : \A y \in T : x <= y
  <1>1. IsWellFoundedOn(LessThan, Nat)
    BY NatLessThanWellFounded DEF OpToRel, LessThan
  <1>2. PICK x \in T : \A y \in T : ~(<<y, x>> \in LessThan)
    BY <1>1, WFMin, Zenon
  <1>3. \A y \in T : ~(y < x)
    BY <1>2 DEF LessThan
  <1>4. QED
    BY <1>3

(* A finite set of integers has a greatest and a least element. *)
LEMMA Greatest ==
  ASSUME NEW S, S \subseteq Int, S # {}, IsFiniteSet(S)
  PROVE  \E x \in S : \A y \in S : y <= x
  <1> DEFINE T == {n \in Nat : \E R : /\ R \subseteq Int /\ R # {} /\ IsFiniteSet(R)
                                      /\ Cardinality(R) = n
                                      /\ ~\E x \in R : \A y \in R : y <= x}
  <1>1. ASSUME T # {} PROVE FALSE
    <2>1. T \subseteq Nat
      OBVIOUS
    <2>2. PICK n \in T : \A m \in T : n <= m
      <3> HIDE DEF T
      <3>1. QED
        BY <1>1, <2>1, LeastNumber
    <2>3. PICK R : /\ R \subseteq Int /\ R # {} /\ IsFiniteSet(R) /\ Cardinality(R) = n
                   /\ ~\E x \in R : \A y \in R : y <= x
      OBVIOUS
    <2>4. PICK z \in R : TRUE
      BY <2>3
    <2> DEFINE Q == R \ {z}
    <2>5. IsFiniteSet(Q) /\ Cardinality(Q) = n - 1
      BY <2>3, FS_RemoveElement
    <2>6. CASE Q = {}
      <3>1. R = {z}
        BY <2>6
      <3>2. QED
        BY <2>3, <3>1
    <2>7. CASE Q # {}
      <3>1. Cardinality(Q) \in Nat /\ n - 1 \notin T
        <4>1. Cardinality(Q) \in Nat
          BY <2>5, FS_CardinalityType
        <4>2. n \in Nat /\ ~(n <= n - 1)
          BY <2>1, <2>2
        <4> HIDE DEF T
        <4>3. QED
          BY <2>2, <4>1, <4>2
      <3>2. PICK x \in Q : \A y \in Q : y <= x
        BY <3>1, <2>3, <2>5, <2>7
      <3>3. CASE z <= x
        BY <2>3, <3>2, <3>3
      <3>4. CASE ~(z <= x)
        BY <2>3, <3>2, <3>4
      <3>5. QED
        BY <3>3, <3>4
    <2>8. QED
      BY <2>6, <2>7
  <1>2. Cardinality(S) \in Nat
    BY FS_CardinalityType
  <1>3. QED
    BY <1>1, <1>2

LEMMA Least ==
  ASSUME NEW S, S \subseteq Int, S # {}, IsFiniteSet(S)
  PROVE  \E x \in S : \A y \in S : x <= y
  <1> DEFINE R == {-x : x \in S}
  <1>0. IsFiniteSet(R)
    <2> DEFINE f == [x \in S |-> -x]
    <2>1. f \in Surjection(S, R)
      BY DEF Surjection
    <2>2. QED
      BY <2>1, FS_Surjection
  <1>1. R \subseteq Int /\ R # {} /\ IsFiniteSet(R)
    <2>1. \A x \in S : -x \in Int
      OBVIOUS
    <2>2. R # {}
      OBVIOUS
    <2>3. R \subseteq Int
      BY <2>1
    <2> HIDE DEF R
    <2>4. QED
      BY <1>0, <2>2, <2>3
  <1>2. PICK x \in R : \A y \in R : y <= x
    <2> HIDE DEF R
    <2>1. QED
      BY <1>1, Greatest
  <1>3. PICK z \in S : x = -z
    OBVIOUS
  <1>4. \A y \in S : -y \in R
    OBVIOUS
  <1>5. ASSUME NEW y \in S PROVE z <= y
    BY <1>2, <1>3, <1>4
  <1>6. QED
    BY <1>5

LEMMA MinIs ==
  ASSUME NEW S, S \subseteq Int, S # {}, IsFiniteSet(S)
  PROVE  Min(S) \in S /\ \A y \in S : Min(S) <= y
  BY Least DEF Min

LEMMA MaxIs ==
  ASSUME NEW S, S \subseteq Int, S # {}, IsFiniteSet(S)
  PROVE  Max(S) \in S /\ \A y \in S : y <= Max(S)
  BY Greatest DEF Max

LEMMA MinOfNats ==
  ASSUME NEW S, S \subseteq Nat, S # {}
  PROVE  Min(S) \in S /\ \A y \in S : Min(S) <= y
  BY LeastNumber DEF Min

-----------------------------------------------------------------------------
(* Pairing.  The recursion of AlignedPairs goes on to later samples only,   *)
(* so that a function that solves it is built from the last samples        *)
(* backwards.                                                              *)

Places == Nat \X Nat

(* One step of the pairing, from the samples not before those of a place. *)
PairStep(g, left, right, at) ==
  LET ls == {x \in left : x >= at[1]}
      rs == {y \in right : y >= at[2]}
  IN  IF ls = {} \/ rs = {} THEN {}
      ELSE IF Distance(Min(ls), Min(rs)) <= Tolerance
           THEN {<<Min(ls), Min(rs)>>} \cup g[<<Min(ls) + 1, Min(rs) + 1>>]
      ELSE IF Min(ls) < Min(rs) THEN g[<<Min(ls) + 1, at[2]>>]
      ELSE g[<<at[1], Min(rs) + 1>>]

(* g has the value of the recursion at every place beyond k. *)
Solves(g, left, right, k) ==
  /\ g = [p \in Places |-> g[p]]
  /\ \A p \in Places : p[1] + p[2] >= k => g[p] = PairStep(g, left, right, p)

LEMMA SolutionGoesOn ==
  ASSUME NEW left \in SUBSET Nat, NEW right \in SUBSET Nat, NEW k \in Nat,
         NEW g, Solves(g, left, right, k + 1)
  PROVE  \E h : Solves(h, left, right, k)
  <1> DEFINE h == [p \in Places |->
                     IF p[1] + p[2] = k THEN PairStep(g, left, right, p) ELSE g[p]]
  <1>1. \A p \in Places : h[p] = IF p[1] + p[2] = k THEN PairStep(g, left, right, p) ELSE g[p]
    OBVIOUS
  <1>2. \A i, j \in Nat : i + j > k => h[<<i, j>>] = g[<<i, j>>]
    BY <1>1 DEF Places
  <1>3. h = [p \in Places |-> h[p]]
    OBVIOUS
  <1> HIDE DEF h
  <1>4. ASSUME NEW p \in Places, p[1] + p[2] >= k
        PROVE  PairStep(h, left, right, p) = PairStep(g, left, right, p)
    <2> DEFINE ls == {x \in left : x >= p[1]}
               rs == {y \in right : y >= p[2]}
               x == Min(ls)
               y == Min(rs)
    <2>1. CASE ls = {} \/ rs = {}
      BY <2>1 DEF PairStep
    <2>2. CASE ls # {} /\ rs # {}
      <3>0. p[1] \in Nat /\ p[2] \in Nat
        BY DEF Places
      <3>1. x \in Nat /\ x >= p[1] /\ y \in Nat /\ y >= p[2]
        <4>1. ls \subseteq Nat /\ rs \subseteq Nat
          OBVIOUS
        <4>2. x \in ls /\ y \in rs
          <5> HIDE DEF ls, rs
          <5>1. QED
            BY <4>1, <2>2, MinOfNats
        <4>3. QED
          BY <4>2
      <3> HIDE DEF x, y
      <3>2. /\ h[<<x + 1, y + 1>>] = g[<<x + 1, y + 1>>]
            /\ h[<<x + 1, p[2]>>] = g[<<x + 1, p[2]>>]
            /\ h[<<p[1], y + 1>>] = g[<<p[1], y + 1>>]
        BY <3>0, <3>1, <1>2, <1>4
      <3>3. QED
        BY <3>2 DEF PairStep, x, y
    <2>3. QED
      BY <2>1, <2>2
  <1>5. ASSUME NEW p \in Places, p[1] + p[2] >= k
        PROVE  h[p] = PairStep(h, left, right, p)
    <2>0. p[1] \in Nat /\ p[2] \in Nat
      BY DEF Places
    <2>1. CASE p[1] + p[2] = k
      BY <2>1, <1>1, <1>4, <1>5
    <2>2. CASE p[1] + p[2] # k
      <3>1. p[1] + p[2] >= k + 1
        BY <1>5, <2>0, <2>2
      <3>2. h[p] = g[p] /\ g[p] = PairStep(g, left, right, p)
        BY <3>1, <2>2, <1>1 DEF Solves
      <3>3. QED
        BY <3>2, <1>4, <1>5
    <2>3. QED
      BY <2>1, <2>2
  <1>6. QED
    BY <1>3, <1>5 DEF Solves

(* Finite sets of times end before some time. *)
LEMMA AllBefore ==
  ASSUME NEW left \in SUBSET Nat, NEW right \in SUBSET Nat,
         IsFiniteSet(left), IsFiniteSet(right)
  PROVE  \E m \in Nat : \A x \in left \cup right : x < m
  <1>1. CASE left \cup right = {}
    BY <1>1
  <1>2. CASE left \cup right # {}
    <2>1. IsFiniteSet(left \cup right)
      BY FS_Union
    <2>2. left \cup right \subseteq Int
      OBVIOUS
    <2>3. PICK x \in left \cup right : \A y \in left \cup right : y <= x
      BY <1>2, <2>1, <2>2, Greatest
    <2>4. x + 1 \in Nat /\ \A y \in left \cup right : y < x + 1
      BY <2>3
    <2>5. QED
      BY <2>4
  <1>3. QED
    BY <1>1, <1>2

LEMMA SolutionExists ==
  ASSUME NEW left \in SUBSET Nat, NEW right \in SUBSET Nat,
         IsFiniteSet(left), IsFiniteSet(right)
  PROVE  \E g : Solves(g, left, right, 0)
  <1>1. PICK m \in Nat : \A x \in left \cup right : x < m
    BY AllBefore
  <1> DEFINE T == {d \in Nat : d <= 2 * m /\ ~\E g : Solves(g, left, right, 2 * m - d)}
  <1>2. \E g : Solves(g, left, right, 2 * m)
    <2> DEFINE g == [p \in Places |-> {}]
    <2>1. g = [p \in Places |-> g[p]]
      OBVIOUS
    <2>2. ASSUME NEW p \in Places, p[1] + p[2] >= 2 * m
          PROVE  g[p] = PairStep(g, left, right, p)
      <3>1. p[1] \in Nat /\ p[2] \in Nat
        BY DEF Places
      <3>2. p[1] >= m \/ p[2] >= m
        BY <2>2, <3>1
      <3>3. {x \in left : x >= p[1]} = {} \/ {y \in right : y >= p[2]} = {}
        <4>1. CASE p[1] >= m
          <5>1. \A x \in left : ~(x >= p[1])
            BY <4>1, <3>1, <1>1
          <5>2. QED
            BY <5>1
        <4>2. CASE p[2] >= m
          <5>1. \A y \in right : ~(y >= p[2])
            BY <4>2, <3>1, <1>1
          <5>2. QED
            BY <5>1
        <4>3. QED
          BY <3>2, <4>1, <4>2
      <3>4. QED
        BY <3>3 DEF PairStep
    <2> HIDE DEF g
    <2>3. QED
      BY <2>1, <2>2 DEF Solves
  <1>3. ASSUME T # {} PROVE FALSE
    <2>1. T \subseteq Nat
      OBVIOUS
    <2> HIDE DEF T
    <2>2. PICK d \in T : \A e \in T : d <= e
      BY <1>3, <2>1, LeastNumber
    <2>3. d \in Nat /\ d <= 2 * m /\ ~\E g : Solves(g, left, right, 2 * m - d)
      BY DEF T
    <2>4. d # 0
      <3>1. 2 * m - 0 = 2 * m
        OBVIOUS
      <3>2. QED
        BY <2>3, <1>2, <3>1
    <2>5. d - 1 \in Nat /\ d - 1 \notin T
      BY <2>2, <2>3, <2>4
    <2>6. PICK g : Solves(g, left, right, 2 * m - (d - 1))
      BY <2>3, <2>5 DEF T
    <2>7. 2 * m - (d - 1) = (2 * m - d) + 1 /\ 2 * m - d \in Nat
      BY <2>3
    <2>8. \E h : Solves(h, left, right, 2 * m - d)
      BY <2>6, <2>7, SolutionGoesOn
    <2>9. QED
      BY <2>3, <2>8
  <1>4. QED
    <2>1. 2 * m \in Nat /\ 2 * m - 2 * m = 0
      OBVIOUS
    <2>2. 2 * m \notin T
      BY <1>3
    <2>3. QED
      BY <2>1, <2>2

(* The function that align_gpu_samples computes. *)
LEMMA AlignedPairsIs ==
  ASSUME NEW left \in SUBSET Nat, NEW right \in SUBSET Nat,
         IsFiniteSet(left), IsFiniteSet(right)
  PROVE  \E g : Solves(g, left, right, 0) /\ AlignedPairs(left, right) = g[<<0, 0>>]
  <1> DEFINE R(g) == [p \in Places |-> PairStep(g, left, right, p)]
             f == CHOOSE g : g = R(g)
  <1>1. \A g : Solves(g, left, right, 0) <=> g = R(g)
    <2>0. \A p \in Places : p[1] + p[2] >= 0
      BY DEF Places
    <2>1. ASSUME NEW g, g = R(g) PROVE Solves(g, left, right, 0)
      <3>1. \A p \in Places : g[p] = PairStep(g, left, right, p)
        BY <2>1
      <3>2. g = [p \in Places |-> g[p]]
        BY <2>1, <3>1
      <3>3. QED
        BY <3>1, <3>2 DEF Solves
    <2>2. ASSUME NEW g, Solves(g, left, right, 0) PROVE g = R(g)
      <3>1. \A p \in Places : g[p] = PairStep(g, left, right, p)
        BY <2>0, <2>2 DEF Solves
      <3>2. g = [p \in Places |-> g[p]]
        BY <2>2 DEF Solves
      <3>3. QED
        BY <3>1, <3>2
    <2>3. QED
      BY <2>1, <2>2
  <1>2. \E g : g = R(g)
    BY <1>1, SolutionExists
  <1>3. f = R(f)
    BY <1>2
  <1>4. AlignedPairs(left, right) = f[<<0, 0>>]
    BY DEF AlignedPairs, PairStep, Places
  <1>5. QED
    BY <1>1, <1>3, <1>4

-----------------------------------------------------------------------------

(* The samples of the other GPU that are near to one of s. *)
Near(s, right) == {y \in right : \E x \in s : Distance(x, y) <= Tolerance}

(* A matching that is as large as a set of samples with few samples near   *)
(* them lets any matching be.                                              *)
IsGreatest(pairs, left, right) ==
  /\ pairs \subseteq left \X right
  /\ IsMatching(pairs)
  /\ \E s \in SUBSET left :
       Cardinality(pairs) + Cardinality(s) = Cardinality(left) + Cardinality(Near(s, right))

LEMMA MatchingBound ==
  ASSUME NEW left, NEW right, IsFiniteSet(left), IsFiniteSet(right),
         NEW pairs \in SUBSET (left \X right), IsMatching(pairs), NEW s \in SUBSET left
  PROVE  /\ IsFiniteSet(pairs) /\ Cardinality(pairs) \in Nat
         /\ Cardinality(pairs) + Cardinality(s) <= Cardinality(left) + Cardinality(Near(s, right))
  <1> DEFINE A == {p \in pairs : p[1] \in s}
             B == {p \in pairs : p[1] \notin s}
             f == [p \in A |-> p[2]]
             h == [p \in B |-> p[1]]
  <1>1. /\ IsFiniteSet(s) /\ IsFiniteSet(left \ s)
        /\ Cardinality(left \ s) = Cardinality(left) - Cardinality(s)
    <2>1. IsFiniteSet(s)
      BY FS_Subset
    <2>2. left \cap s = s
      OBVIOUS
    <2>3. QED
      BY <2>1, <2>2, FS_Difference
  <1>2. IsFiniteSet(Near(s, right))
    <2>1. Near(s, right) \subseteq right
      BY DEF Near
    <2>2. QED
      BY <2>1, FS_Subset
  <1>3. \A p \in pairs : p = <<p[1], p[2]>> /\ p[1] \in left /\ p[2] \in right
    OBVIOUS
  <1>4. \A p, q \in pairs : (p[1] = q[1]) = (p[2] = q[2])
    BY DEF IsMatching
  <1>5. IsFiniteSet(A) /\ Cardinality(A) <= Cardinality(Near(s, right))
    <2>1. \A p \in A : f[p] \in Near(s, right)
      BY <1>3 DEF Near, IsMatching
    <2>2. \A p, q \in A : f[p] = f[q] => p = q
      BY <1>3, <1>4
    <2>3. f \in Injection(A, Near(s, right))
      BY <2>1, <2>2 DEF Injection, IsInjective
    <2>4. QED
      BY <1>2, <2>3, FS_Injection
  <1>6. IsFiniteSet(B) /\ Cardinality(B) <= Cardinality(left \ s)
    <2>1. \A p \in B : h[p] \in left \ s
      BY <1>3
    <2>2. \A p, q \in B : h[p] = h[q] => p = q
      BY <1>3, <1>4
    <2>3. h \in Injection(B, left \ s)
      BY <2>1, <2>2 DEF Injection, IsInjective
    <2>4. QED
      BY <1>1, <2>3, FS_Injection
  <1>7. A \cup B = pairs /\ A \cap B = {}
    OBVIOUS
  <1> HIDE DEF A, B
  <1>8. IsFiniteSet(pairs) /\ Cardinality(pairs) = Cardinality(A) + Cardinality(B)
    <2>1. IsFiniteSet(A \cup B)
          /\ Cardinality(A \cup B) = Cardinality(A) + Cardinality(B) - Cardinality(A \cap B)
      BY <1>5, <1>6, FS_Union
    <2>2. Cardinality(A) \in Nat /\ Cardinality(B) \in Nat /\ Cardinality(A \cap B) = 0
      BY <1>5, <1>6, <1>7, FS_CardinalityType, FS_EmptySet
    <2>3. IsFiniteSet(pairs)
          /\ Cardinality(pairs) = Cardinality(A) + Cardinality(B) - Cardinality(A \cap B)
      BY <1>7, <2>1, Zenon
    <2>4. QED
      BY <2>2, <2>3
  <1>9. /\ Cardinality(A) \in Nat /\ Cardinality(B) \in Nat /\ Cardinality(left) \in Nat
        /\ Cardinality(s) \in Nat /\ Cardinality(Near(s, right)) \in Nat
    BY <1>1, <1>2, <1>5, <1>6, FS_CardinalityType
  <1>10. QED
    BY <1>1, <1>5, <1>6, <1>8, <1>9

LEMMA NothingToPair ==
  ASSUME NEW left, NEW right, IsFiniteSet(left), left = {} \/ right = {}
  PROVE  IsGreatest({}, left, right)
  <1>1. Near(left, right) = {}
    BY DEF Near
  <1>2. Cardinality({}) = 0 /\ Cardinality(left) \in Nat
    BY FS_EmptySet, FS_CardinalityType
  <1>3. QED
    BY <1>1, <1>2 DEF IsGreatest, IsMatching

(* What the next three lemmas are about: finite sets with least elements. *)
Firsts(left, right, x, y) ==
  /\ left \in SUBSET Nat /\ right \in SUBSET Nat
  /\ IsFiniteSet(left) /\ IsFiniteSet(right)
  /\ x \in left /\ \A z \in left : x <= z
  /\ y \in right /\ \A z \in right : y <= z

LEMMA PairedFirsts ==
  ASSUME NEW left, NEW right, NEW x, NEW y, Firsts(left, right, x, y),
         Distance(x, y) <= Tolerance,
         NEW pairs, IsGreatest(pairs, left \ {x}, right \ {y})
  PROVE  IsGreatest({<<x, y>>} \cup pairs, left, right)
  <1> DEFINE all == {<<x, y>>} \cup pairs
  <1>1. PICK s \in SUBSET (left \ {x}) :
          Cardinality(pairs) + Cardinality(s)
            = Cardinality(left \ {x}) + Cardinality(Near(s, right \ {y}))
    BY DEF IsGreatest
  <1>2. pairs \subseteq (left \ {x}) \X (right \ {y})
    BY DEF IsGreatest
  <1>3. all \subseteq left \X right
    BY <1>2 DEF Firsts
  <1>4. IsMatching(all)
    <2>1. \A p \in pairs : p[1] # x /\ p[2] # y
      BY <1>2
    <2>2. \A p \in all : Distance(p[1], p[2]) <= Tolerance
      BY DEF IsGreatest, IsMatching
    <2>3. \A p, q \in all : (p[1] = q[1]) = (p[2] = q[2])
      <3>1. \A p, q \in pairs : (p[1] = q[1]) = (p[2] = q[2])
        BY DEF IsGreatest, IsMatching
      <3>2. QED
        BY <2>1, <3>1
    <2>4. QED
      BY <2>2, <2>3 DEF IsMatching
  <1>5. /\ IsFiniteSet(left \ {x}) /\ IsFiniteSet(right \ {y}) /\ IsFiniteSet(s)
        /\ Cardinality(left \ {x}) = Cardinality(left) - 1
    BY FS_RemoveElement, FS_Subset DEF Firsts
  <1>6. IsFiniteSet(pairs) /\ Cardinality(all) = Cardinality(pairs) + 1
    <2>1. IsFiniteSet(pairs)
      BY <1>2, <1>5, MatchingBound DEF IsGreatest
    <2>2. <<x, y>> \notin pairs
      BY <1>2
    <2>3. all = pairs \cup {<<x, y>>}
      OBVIOUS
    <2>4. QED
      BY <2>1, <2>2, <2>3, FS_AddElement
  <1>7. IsFiniteSet(Near(s, right \ {y}))
    <2>1. Near(s, right \ {y}) \subseteq right
      BY DEF Near
    <2>2. QED
      BY <2>1, FS_Subset DEF Firsts
  <1>8. /\ Cardinality(pairs) \in Nat /\ Cardinality(s) \in Nat /\ Cardinality(left) \in Nat
        /\ Cardinality(Near(s, right \ {y})) \in Nat
    BY <1>5, <1>6, <1>7, FS_CardinalityType DEF Firsts
  <1> HIDE DEF all
  <1>9. CASE y \notin Near(s, right)
    <2>1. Near(s, right) = Near(s, right \ {y})
      BY <1>9 DEF Near
    <2>2. Cardinality(all) + Cardinality(s) = Cardinality(left) + Cardinality(Near(s, right))
      BY <1>1, <1>5, <1>6, <1>8, <2>1
    <2>3. s \in SUBSET left
      BY <1>1
    <2>4. IsGreatest(all, left, right)
      BY <1>3, <1>4, <2>2, <2>3 DEF IsGreatest
    <2>5. QED
      BY <2>4 DEF all
  <1>10. CASE y \in Near(s, right)
    <2> DEFINE t == s \cup {x}
    <2>1. Near(t, right) = Near(s, right \ {y}) \cup {y}
      <3>1. PICK z \in s : Distance(z, y) <= Tolerance
        BY <1>10 DEF Near
      <3>2. x \in Nat /\ y \in Nat /\ z \in Nat /\ x <= z /\ Tolerance \in Nat
        BY <1>1, ExtractionAssumption DEF Firsts
      <3>3. ASSUME NEW w \in right, Distance(x, w) <= Tolerance
            PROVE  Distance(z, w) <= Tolerance
        <4>1. w \in Nat /\ y <= w
          BY DEF Firsts
        <4>2. QED
          BY <3>1, <3>2, <3>3, <4>1 DEF Distance
      <3>4. Near(t, right) = Near(s, right)
        BY <3>3 DEF Near
      <3>5. Near(s, right) = Near(s, right \ {y}) \cup {y}
        BY <1>10 DEF Near
      <3>6. QED
        BY <3>4, <3>5
    <2>2. y \notin Near(s, right \ {y})
      BY DEF Near
    <2>3. Cardinality(Near(t, right)) = Cardinality(Near(s, right \ {y})) + 1
      BY <1>7, <2>1, <2>2, FS_AddElement
    <2>4. Cardinality(t) = Cardinality(s) + 1
      BY <1>1, <1>5, FS_AddElement
    <2>5. t \in SUBSET left
      BY <1>1 DEF Firsts
    <2> HIDE DEF t
    <2>6. Cardinality(all) + Cardinality(t) = Cardinality(left) + Cardinality(Near(t, right))
      BY <1>1, <1>5, <1>6, <1>8, <2>3, <2>4
    <2>7. IsGreatest(all, left, right)
      BY <1>3, <1>4, <2>5, <2>6 DEF IsGreatest
    <2>8. QED
      BY <2>7 DEF all
  <1>11. QED
    BY <1>9, <1>10

LEMMA FirstLeftPassed ==
  ASSUME NEW left, NEW right, NEW x, NEW y, Firsts(left, right, x, y),
         ~(Distance(x, y) <= Tolerance), x < y,
         NEW pairs, IsGreatest(pairs, left \ {x}, right)
  PROVE  IsGreatest(pairs, left, right)
  <1>1. PICK s \in SUBSET (left \ {x}) :
          Cardinality(pairs) + Cardinality(s)
            = Cardinality(left \ {x}) + Cardinality(Near(s, right))
    BY DEF IsGreatest
  <1> DEFINE t == s \cup {x}
  <1>2. Near(t, right) = Near(s, right)
    <2>1. ASSUME NEW w \in right PROVE ~(Distance(x, w) <= Tolerance)
      <3>1. w \in Nat /\ y <= w /\ x \in Nat /\ y \in Nat /\ Tolerance \in Nat
        BY ExtractionAssumption DEF Firsts
      <3>2. QED
        BY <3>1 DEF Distance
    <2>2. QED
      BY <2>1 DEF Near
  <1>3. IsFiniteSet(left \ {x}) /\ Cardinality(left \ {x}) = Cardinality(left) - 1
    BY FS_RemoveElement DEF Firsts
  <1>4. IsFiniteSet(s)
    BY <1>3, FS_Subset
  <1>5. Cardinality(t) = Cardinality(s) + 1
    BY <1>1, <1>4, FS_AddElement
  <1>6. IsFiniteSet(Near(s, right))
    <2>1. Near(s, right) \subseteq right
      BY DEF Near
    <2>2. QED
      BY <2>1, FS_Subset DEF Firsts
  <1>7. pairs \subseteq (left \ {x}) \X right /\ IsMatching(pairs)
    BY DEF IsGreatest
  <1>8. IsFiniteSet(pairs)
    BY <1>3, <1>7, MatchingBound DEF Firsts
  <1>9. /\ Cardinality(pairs) \in Nat /\ Cardinality(s) \in Nat /\ Cardinality(left) \in Nat
        /\ Cardinality(Near(s, right)) \in Nat
    BY <1>4, <1>6, <1>8, FS_CardinalityType DEF Firsts
  <1>10. t \in SUBSET left
    BY <1>1 DEF Firsts
  <1> HIDE DEF t
  <1>11. Cardinality(pairs) + Cardinality(t) = Cardinality(left) + Cardinality(Near(t, right))
    BY <1>1, <1>2, <1>3, <1>5, <1>9
  <1>12. pairs \subseteq left \X right
    BY <1>7
  <1>13. QED
    BY <1>7, <1>10, <1>11, <1>12 DEF IsGreatest

LEMMA FirstRightPassed ==
  ASSUME NEW left, NEW right, NEW x, NEW y, Firsts(left, right, x, y),
         ~(Distance(x, y) <= Tolerance), ~(x < y),
         NEW pairs, IsGreatest(pairs, left, right \ {y})
  PROVE  IsGreatest(pairs, left, right)
  <1>1. PICK s \in SUBSET left :
          Cardinality(pairs) + Cardinality(s)
            = Cardinality(left) + Cardinality(Near(s, right \ {y}))
    BY DEF IsGreatest
  <1>2. Near(s, right) = Near(s, right \ {y})
    <2>1. ASSUME NEW z \in s PROVE ~(Distance(z, y) <= Tolerance)
      <3>1. z \in Nat /\ x <= z /\ x \in Nat /\ y \in Nat /\ Tolerance \in Nat
        BY <1>1, ExtractionAssumption DEF Firsts
      <3>2. QED
        BY <3>1 DEF Distance
    <2>2. QED
      BY <2>1 DEF Near
  <1>3. pairs \subseteq left \X right /\ IsMatching(pairs)
    BY DEF IsGreatest
  <1>4. QED
    BY <1>1, <1>2, <1>3 DEF IsGreatest

(* Every value of the recursion is as large as it can be. *)
LEMMA SolutionIsGreatest ==
  ASSUME NEW left \in SUBSET Nat, NEW right \in SUBSET Nat,
         IsFiniteSet(left), IsFiniteSet(right), NEW g, Solves(g, left, right, 0)
  PROVE  IsGreatest(g[<<0, 0>>], left, right)
  <1> DEFINE L(p) == {x \in left : x >= p[1]}
             R(p) == {y \in right : y >= p[2]}
             Bad(d, m) == \E p \in Places : /\ p[1] + p[2] + d >= m
                                            /\ ~IsGreatest(g[p], L(p), R(p))
  <1>1. PICK m \in Nat : \A x \in left \cup right : x < m
    BY AllBefore
  <1>2. \A p \in Places : p[1] \in Nat /\ p[2] \in Nat
    BY DEF Places
  <1>3. \A p \in Places : L(p) \in SUBSET Nat /\ R(p) \in SUBSET Nat
                          /\ IsFiniteSet(L(p)) /\ IsFiniteSet(R(p))
    BY FS_Subset
  <1>4. \A p \in Places : g[p] = PairStep(g, left, right, p)
    <2>1. \A p \in Places : p[1] + p[2] >= 0
      BY <1>2
    <2>2. QED
      BY <2>1 DEF Solves
  <1> DEFINE D == {d \in Nat : Bad(d, 2 * m)}
  <1>5. ASSUME D # {} PROVE FALSE
    <2>1. D \subseteq Nat
      OBVIOUS
    <2>2. PICK d \in D : \A e \in D : d <= e
      <3> HIDE DEF D
      <3>1. QED
        BY <1>5, <2>1, LeastNumber
    <2>3. PICK p \in Places : p[1] + p[2] + d >= 2 * m /\ ~IsGreatest(g[p], L(p), R(p))
      BY <2>2
    <2>4. ASSUME NEW q \in Places, q[1] + q[2] > p[1] + p[2]
          PROVE  IsGreatest(g[q], L(q), R(q)) \/ d = 0
      <3>1. CASE d # 0
        <4>1. d - 1 \in Nat /\ d - 1 \notin D
          <5>1. d \in Nat
            BY <2>2
          <5> HIDE DEF D
          <5>2. QED
            BY <2>2, <3>1, <5>1
        <4>2. q[1] + q[2] + (d - 1) >= 2 * m
          BY <1>2, <2>3, <2>4, <2>2
        <4>3. QED
          BY <4>1, <4>2
      <3>2. QED
        BY <3>1
    <2> DEFINE x == Min(L(p))
               y == Min(R(p))
    <2>5. CASE L(p) = {} \/ R(p) = {}
      <3>1. g[p] = {}
        BY <1>4, <2>5 DEF PairStep
      <3>2. IsGreatest({}, L(p), R(p))
        <4> HIDE DEF L, R
        <4>1. QED
          BY <1>3, <2>5, NothingToPair
      <3>3. QED
        BY <2>3, <3>1, <3>2
    <2>6. CASE L(p) # {} /\ R(p) # {}
      <3>1. /\ x \in L(p) /\ \A z \in L(p) : x <= z
            /\ y \in R(p) /\ \A z \in R(p) : y <= z
        <4>1. L(p) \subseteq Nat /\ R(p) \subseteq Nat
          BY <1>3
        <4> HIDE DEF L, R
        <4>2. QED
          BY <4>1, <2>6, MinOfNats
      <3>2. Firsts(L(p), R(p), x, y)
        <4> HIDE DEF L, R, x, y
        <4>1. QED
          BY <1>3, <3>1 DEF Firsts
      <3>3. x \in Nat /\ y \in Nat /\ p[1] <= x /\ p[2] <= y /\ x < m /\ y < m
        BY <1>1, <3>1
      <3>4. d # 0
        BY <1>2, <2>3, <3>3, <2>2
      <3>5. g[p] = IF Distance(x, y) <= Tolerance
                   THEN {<<x, y>>} \cup g[<<x + 1, y + 1>>]
                   ELSE IF x < y THEN g[<<x + 1, p[2]>>] ELSE g[<<p[1], y + 1>>]
        BY <1>4, <2>6 DEF PairStep
      <3>6. /\ L(<<x + 1, y + 1>>) = L(p) \ {x} /\ R(<<x + 1, y + 1>>) = R(p) \ {y}
            /\ L(<<x + 1, p[2]>>) = L(p) \ {x} /\ R(<<x + 1, p[2]>>) = R(p)
            /\ L(<<p[1], y + 1>>) = L(p) /\ R(<<p[1], y + 1>>) = R(p) \ {y}
        <4> HIDE DEF x, y
        <4>1. ASSUME NEW z \in left PROVE (z >= x + 1) <=> (z \in L(p) /\ z # x)
          <5>1. z \in Nat /\ p[1] \in Nat
            BY <1>2
          <5>2. z \in L(p) <=> z >= p[1]
            OBVIOUS
          <5>3. z \in L(p) => x <= z
            BY <3>1
          <5> HIDE DEF L
          <5>4. QED
            BY <5>1, <5>2, <5>3, <3>3
        <4>2. ASSUME NEW z \in right PROVE (z >= y + 1) <=> (z \in R(p) /\ z # y)
          <5>1. z \in Nat /\ p[2] \in Nat
            BY <1>2
          <5>2. z \in R(p) <=> z >= p[2]
            OBVIOUS
          <5>3. z \in R(p) => y <= z
            BY <3>1
          <5> HIDE DEF R
          <5>4. QED
            BY <5>1, <5>2, <5>3, <3>3
        <4>3. QED
          BY <4>1, <4>2
      <3> HIDE DEF L, R, x, y
      <3>7. CASE Distance(x, y) <= Tolerance
        <4>1. IsGreatest(g[<<x + 1, y + 1>>], L(p) \ {x}, R(p) \ {y})
          <5>1. <<x + 1, y + 1>> \in Places /\ (x + 1) + (y + 1) > p[1] + p[2]
            BY <1>2, <3>3 DEF Places
          <5>2. QED
            BY <2>4, <3>4, <3>6, <5>1
        <4>2. QED
          BY <2>3, <3>2, <3>5, <3>7, <4>1, PairedFirsts
      <3>8. CASE ~(Distance(x, y) <= Tolerance) /\ x < y
        <4>1. IsGreatest(g[<<x + 1, p[2]>>], L(p) \ {x}, R(p))
          <5>1. <<x + 1, p[2]>> \in Places /\ (x + 1) + p[2] > p[1] + p[2]
            BY <1>2, <3>3 DEF Places
          <5>2. QED
            BY <2>4, <3>4, <3>6, <5>1
        <4>2. QED
          BY <2>3, <3>2, <3>5, <3>8, <4>1, FirstLeftPassed
      <3>9. CASE ~(Distance(x, y) <= Tolerance) /\ ~(x < y)
        <4>1. IsGreatest(g[<<p[1], y + 1>>], L(p), R(p) \ {y})
          <5>1. <<p[1], y + 1>> \in Places /\ p[1] + (y + 1) > p[1] + p[2]
            BY <1>2, <3>3 DEF Places
          <5>2. QED
            BY <2>4, <3>4, <3>6, <5>1
        <4>2. QED
          BY <2>3, <3>2, <3>5, <3>9, <4>1, FirstRightPassed
      <3>10. QED
        BY <3>7, <3>8, <3>9
    <2>7. QED
      BY <2>5, <2>6
  <1>6. <<0, 0>> \in Places /\ L(<<0, 0>>) = left /\ R(<<0, 0>>) = right
    <2>1. \A z \in left \cup right : z >= 0
      OBVIOUS
    <2>2. QED
      BY <2>1 DEF Places
  <1>7. 2 * m \in Nat /\ 2 * m \notin D
    <2> HIDE DEF D
    <2>1. QED
      BY <1>5
  <1>8. 0 + 0 + 2 * m >= 2 * m
    OBVIOUS
  <1>9. QED
    BY <1>6, <1>7, <1>8

(* align_gpu_samples finds a matching, and none is larger. *)
LEMMA PairsAreGreatest ==
  ASSUME NEW left \in SUBSET Nat, NEW right \in SUBSET Nat,
         IsFiniteSet(left), IsFiniteSet(right)
  PROVE  IsGreatest(AlignedPairs(left, right), left, right)
  BY AlignedPairsIs, SolutionIsGreatest

LEMMA PairsAreMaximum ==
  ASSUME NEW left \in SUBSET Nat, NEW right \in SUBSET Nat,
         IsFiniteSet(left), IsFiniteSet(right)
  PROVE  Cardinality(AlignedPairs(left, right)) = MaximumMatching(left, right)
  <1> DEFINE pairs == AlignedPairs(left, right)
             N == {Cardinality(left) - (Cardinality(s) - Cardinality(Near(s, right))) :
                     s \in SUBSET left}
  <1>1. IsGreatest(pairs, left, right)
    BY PairsAreGreatest
  <1> HIDE DEF pairs
  <1>2. pairs \in SUBSET (left \X right) /\ IsMatching(pairs)
    BY <1>1 DEF IsGreatest
  <1>3. ASSUME NEW s \in SUBSET left
        PROVE  /\ Cardinality(s) \in Nat /\ Cardinality(Near(s, right)) \in Nat
               /\ Cardinality(left) \in Nat
    <2>1. Near(s, right) \in SUBSET right
      BY DEF Near
    <2>2. QED
      BY <2>1, FS_Subset, FS_CardinalityType
  <1>4. Cardinality(pairs) \in Nat
    <2>1. {} \in SUBSET left
      OBVIOUS
    <2>2. QED
      BY <1>2, <2>1, MatchingBound
  <1>5. Cardinality(pairs) \in N
    <2>1. PICK s \in SUBSET left :
            Cardinality(pairs) + Cardinality(s) = Cardinality(left) + Cardinality(Near(s, right))
      BY <1>1 DEF IsGreatest
    <2>2. Cardinality(pairs) = Cardinality(left) - (Cardinality(s) - Cardinality(Near(s, right)))
      BY <1>3, <1>4, <2>1
    <2>3. QED
      BY <2>2
  <1>6. ASSUME NEW s \in SUBSET left
        PROVE  Cardinality(pairs) <= Cardinality(left) - (Cardinality(s) - Cardinality(Near(s, right)))
    <2>1. Cardinality(pairs) + Cardinality(s) <= Cardinality(left) + Cardinality(Near(s, right))
      BY <1>2, MatchingBound
    <2>2. QED
      BY <1>3, <1>4, <2>1
  <1>7. \A n \in N : n \in Int /\ Cardinality(pairs) <= n
    BY <1>3, <1>6
  <1>8. MaximumMatching(left, right) = Min(N)
    BY DEF MaximumMatching, Near
  <1> HIDE DEF N
  <1>9. \E n \in N : \A k \in N : n <= k
    BY <1>5, <1>7
  <1>10. Min(N) \in N /\ \A k \in N : Min(N) <= k
    BY <1>9 DEF Min
  <1>11. Min(N) = Cardinality(pairs)
    BY <1>4, <1>5, <1>7, <1>10
  <1>12. QED
    BY <1>8, <1>11 DEF pairs

-----------------------------------------------------------------------------
(* The plan of a matrix.  FlattenSeq is a recursive function; that it      *)
(* exists and what it returns is shown by a least counterexample.          *)

(* f[i] is the concatenation of the first i sequences of s, up to n. *)
Concatenates(f, s, n) == f = [i \in 1 .. n |-> IF i = 1 THEN s[i] ELSE f[i - 1] \o s[i]]

LEMMA ConcatenationGoesOn ==
  ASSUME NEW s, NEW f, NEW n \in Nat, n > 0, Concatenates(f, s, n)
  PROVE  \E g : Concatenates(g, s, n + 1)
  <1> DEFINE g == [i \in 1 .. n + 1 |-> IF i = n + 1 THEN f[n] \o s[n + 1] ELSE f[i]]
             h == [i \in 1 .. n + 1 |-> IF i = 1 THEN s[i] ELSE g[i - 1] \o s[i]]
  <1>1. \A i \in 1 .. n : f[i] = IF i = 1 THEN s[i] ELSE f[i - 1] \o s[i]
    BY DEF Concatenates
  <1>2. \A i \in 1 .. n : g[i] = f[i]
    OBVIOUS
  <1>3. g[n + 1] = f[n] \o s[n + 1]
    <2>1. n + 1 \in 1 .. n + 1
      OBVIOUS
    <2>2. QED
      BY <2>1, Zenon
  <1>4. h[1] = s[1] /\ \A i \in 2 .. n + 1 : h[i] = g[i - 1] \o s[i]
    <2> HIDE DEF g
    <2>1. 1 \in 1 .. n + 1 /\ \A i \in 2 .. n + 1 : i \in 1 .. n + 1 /\ i # 1
      OBVIOUS
    <2>2. QED
      BY <2>1, Zenon
  <1>5. ASSUME NEW i \in 1 .. n + 1 PROVE g[i] = h[i]
    <2> HIDE DEF g, h
    <2>1. CASE i = n + 1
      <3>1. i \in 2 .. n + 1 /\ i - 1 = n /\ n \in 1 .. n
        BY <2>1
      <3>2. h[i] = g[n] \o s[i] /\ g[n] = f[n]
        BY <3>1, <1>2, <1>4
      <3>3. QED
        BY <3>2, <2>1, <1>3
    <2>2. CASE i = 1 /\ i # n + 1
      BY <2>2, <1>1, <1>2, <1>4
    <2>3. CASE i # 1 /\ i # n + 1
      <3>1. i \in 1 .. n /\ i - 1 \in 1 .. n /\ i \in 2 .. n + 1
        BY <2>3
      <3>2. g[i] = f[i] /\ g[i - 1] = f[i - 1]
        BY <3>1, <1>2
      <3>3. f[i] = f[i - 1] \o s[i]
        BY <3>1, <2>3, <1>1
      <3>4. QED
        BY <3>1, <3>2, <3>3, <1>4
    <2>4. QED
      BY <2>1, <2>2, <2>3
  <1>6. g = h
    BY <1>5
  <1>7. QED
    BY <1>6 DEF Concatenates

LEMMA ConcatenationExists ==
  ASSUME NEW s, NEW n \in Nat, n > 0
  PROVE  \E f : Concatenates(f, s, n)
  <1> DEFINE T == {m \in Nat : m > 0 /\ ~\E f : Concatenates(f, s, m)}
  <1>1. ASSUME T # {} PROVE FALSE
    <2>1. T \subseteq Nat
      OBVIOUS
    <2> HIDE DEF T
    <2>2. PICK m \in T : \A y \in T : m <= y
      BY <1>1, <2>1, LeastNumber
    <2>3. m \in Nat /\ m > 0 /\ ~\E f : Concatenates(f, s, m)
      BY DEF T
    <2>4. CASE m = 1
      <3>1. Concatenates([i \in 1 .. 1 |-> IF i = 1 THEN s[i] ELSE s[i]], s, 1)
        BY DEF Concatenates
      <3>2. QED
        BY <2>3, <2>4, <3>1
    <2>5. CASE m # 1
      <3>1. m - 1 \in Nat /\ m - 1 > 0 /\ m - 1 \notin T
        BY <2>2, <2>3, <2>5
      <3>2. PICK f : Concatenates(f, s, m - 1)
        BY <3>1 DEF T
      <3>3. \E g : Concatenates(g, s, (m - 1) + 1)
        BY <3>1, <3>2, ConcatenationGoesOn
      <3>4. QED
        BY <2>3, <3>3
    <2>6. QED
      BY <2>4, <2>5
  <1>2. QED
    BY <1>1

(* Flattening sequences over V gives a sequence over V. *)
LEMMA FlattenType ==
  ASSUME NEW V, NEW s \in Seq(Seq(V))
  PROVE  FlattenSeq(s) \in Seq(V)
  <1>1. CASE s = <<>>
    BY <1>1 DEF FlattenSeq
  <1>2. CASE s # <<>>
    <2> DEFINE n == Len(s)
               f == CHOOSE g : Concatenates(g, s, n)
    <2>1. n \in Nat /\ n > 0 /\ \A i \in 1 .. n : s[i] \in Seq(V)
      BY <1>2
    <2>2. Concatenates(f, s, n)
      BY <2>1, ConcatenationExists
    <2>3. FlattenSeq(s) = f[n]
      BY <2>1 DEF FlattenSeq, Concatenates
    <2> HIDE DEF f
    <2>4. \A i \in 1 .. n : f[i] = IF i = 1 THEN s[i] ELSE f[i - 1] \o s[i]
      BY <2>2 DEF Concatenates
    <2> DEFINE T == {m \in 1 .. n : f[m] \notin Seq(V)}
    <2>5. ASSUME T # {} PROVE FALSE
      <3>1. T \subseteq Nat
        OBVIOUS
      <3> HIDE DEF T, n
      <3>2. PICK m \in T : \A y \in T : m <= y
        BY <2>5, <3>1, LeastNumber
      <3>3. m \in 1 .. n /\ f[m] \notin Seq(V)
        BY DEF T
      <3>4. CASE m = 1
        BY <3>3, <3>4, <2>1, <2>4
      <3>5. CASE m # 1
        <4>1. m - 1 \in 1 .. n /\ m - 1 \notin T
          BY <2>1, <3>2, <3>3, <3>5
        <4>2. f[m - 1] \in Seq(V) /\ s[m] \in Seq(V)
          BY <4>1, <3>3, <2>1 DEF T
        <4>3. f[m] = f[m - 1] \o s[m]
          BY <3>3, <3>5, <2>4
        <4>4. QED
          BY <4>2, <4>3, <3>3
      <3>6. QED
        BY <3>4, <3>5
    <2>6. QED
      BY <2>1, <2>3, <2>5
  <1>3. QED
    BY <1>1, <1>2

-----------------------------------------------------------------------------

RightRound(p, plan, session, release) ==
  p.round = RoundFor(plan, p.workload.family, session, p.workload.config, release)

(* The slots of a matrix, each with the round of its workload. *)
MatrixSlots(plan, selection, session, release) ==
  {p \in [workload : Range(selection), slot : Nat, round : Rounds] :
     RightRound(p, plan, session, release)}

LEMMA SlotsType ==
  ASSUME NEW plan, NEW selection \in Selections \cup {PeriodicStudy}, NEW session, NEW release,
         NEW i \in DOMAIN selection
  PROVE  PlannedFor(selection[i],
                    RoundFor(plan, selection[i].family, session, selection[i].config, release))
           \in Seq(MatrixSlots(plan, selection, session, release))
  <1> DEFINE V == MatrixSlots(plan, selection, session, release)
             w == selection[i]
             round == RoundFor(plan, w.family, session, w.config, release)
             n == IF round = "sealed_final_holdout" THEN 1 ELSE w.segments
  <1>1. n \in Nat
    BY EvaluationAssumption
  <1>2. w \in Range(selection)
    BY DEF Range
  <1>3. round \in Rounds
    BY DEF RoundFor, Rounds
  <1> HIDE DEF n
  <1>4. ASSUME NEW k \in 1 .. n
        PROVE  [workload |-> w, slot |-> k - 1, round |-> round] \in V
    BY <1>2, <1>3 DEF MatrixSlots, RightRound
  <1> HIDE DEF V, w, round
  <1>5. [k \in 1 .. n |-> [workload |-> w, slot |-> k - 1, round |-> round]] \in Seq(V)
    BY <1>1, <1>4
  <1>6. QED
    BY <1>5 DEF PlannedFor, n, w, round, V

LEMMA MatrixPlanType ==
  ASSUME NEW plan, NEW selection \in Selections \cup {PeriodicStudy}, NEW session, NEW release
  PROVE  MatrixPlan(plan, selection, session, release)
           \in Seq(MatrixSlots(plan, selection, session, release))
  <1> DEFINE V == MatrixSlots(plan, selection, session, release)
             round(w) == RoundFor(plan, w.family, session, w.config, release)
             s == [i \in DOMAIN selection |-> PlannedFor(selection[i], round(selection[i]))]
  <1>1. selection \in Seq(Range(selection))
    BY EvaluationAssumption
  <1>2. \A i \in DOMAIN selection : PlannedFor(selection[i], round(selection[i])) \in Seq(V)
    BY SlotsType
  <1> HIDE DEF V
  <1>3. s \in Seq(Seq(V))
    BY <1>1, <1>2
  <1> HIDE DEF s
  <1>4. FlattenSeq(s) \in Seq(V)
    BY <1>3, FlattenType
  <1>5. QED
    BY <1>4 DEF MatrixPlan, s, V

-----------------------------------------------------------------------------
(* The holdout stays sealed *)

IsPlanned(c, plan) ==
  /\ \E S : c.plans \in Seq(S)
  /\ \E S : c.finalized \in Seq(S)
  /\ c.kind = "matrix" =>
       /\ plan # Absent
       /\ \A i \in DOMAIN c.plans : RightRound(c.plans[i], plan, c.session, c.release)

(* Of the runs of a tree and of an evaluation, when this plan is declared. *)
RunsAreOpen(runs, plan) ==
  \A run \in runs : run.kind = "matrix" =>
    /\ plan # Absent
    /\ OfFinalHoldout(plan, run.workload, run.session) => run.released

FrozenIsOpen(e, plan) ==
  /\ \A run \in e.frozen.scored : OfFinalHoldout(plan, run.workload, run.session) => e.released
  /\ \A s \in e.frozen.fitted :
       ~OfFinalHoldout(plan, PlanOf[s], PlanOf[s].session) /\ e.split[s] = "train"

IsTree(t) ==
  t = [plans |-> t.plans, torn |-> t.torn, runs |-> t.runs, extractions |-> t.extractions,
       newest |-> t.newest, evaluation |-> t.evaluation]

HInv ==
  /\ IsTree(tree)
  /\ holdout \in HoldoutPlans \cup {Absent}
  /\ stage # "saving" => evaluation = Absent
  /\ stage = "collecting" => IsPlanned(call, holdout)
  /\ RunsAreOpen(tree.runs, holdout)
  /\ evaluation # Absent => FrozenIsOpen(evaluation, holdout)

LEMMA HInvSuffices == HInv => HoldoutStaysSealed
  BY DEF HInv, HoldoutStaysSealed, RunsAreOpen, FrozenIsOpen

LEMMA FinalHoldoutIsFinalIdentity ==
  ASSUME NEW plan, NEW w, NEW session
  PROVE  OfFinalHoldout(plan, w, session) = IsFinalIdentity(plan, w.family, session, w.config)
  BY DEF OfFinalHoldout, IsFinalIdentity

LEMMA HInvInit == Init => HInv
  <1> SUFFICES ASSUME Init PROVE HInv
    OBVIOUS
  <1>1. PICK torn : tree = EmptyTree(torn)
    BY DEF Init
  <1>2. QED
    BY <1>1 DEF Init, HInv, EmptyTree, IsTree, RunsAreOpen

LEMMA KeepExtraction ==
  ASSUME HInv, ExtractRun \/ FinishExtraction \/ Analyse \/ Dismiss
  PROVE  HInv'
  <1>1. /\ UNCHANGED <<holdout, evaluation>>
        /\ stage' \notin {"saving", "collecting"}
        /\ stage # "saving"
    <2>1. CASE ExtractRun
      BY <2>1 DEF ExtractRun
    <2>2. CASE FinishExtraction
      BY <2>2 DEF FinishExtraction
    <2>3. CASE Analyse
      BY <2>3 DEF Analyse
    <2>4. CASE Dismiss
      BY <2>4 DEF Dismiss
    <2>5. QED
      BY <2>1, <2>2, <2>3, <2>4
  <1>2. tree' = tree \/ tree' = [tree EXCEPT !.newest = "benign"]
    BY DEF ExtractRun, FinishExtraction, Analyse, Dismiss
  <1>3. tree'.runs = tree.runs /\ IsTree(tree')
    <2>1. IsTree(tree)
      BY DEF HInv
    <2>2. QED
      BY <1>2, <2>1 DEF IsTree
  <1>4. QED
    BY <1>1, <1>3 DEF HInv

LEMMA KeepEvaluateDetector ==
  ASSUME HInv, NEW loaded, NEW gate, NEW extraction, NEW plan \in {Absent, holdout},
         NEW release, EvaluateDetector(loaded, gate, extraction, plan, release)
  PROVE  HInv'
  <1>1. holdout' = holdout /\ tree' = tree /\ stage = "idle"
    BY DEF EvaluateDetector, EvaluationRaises
  <1>2. CASE stage' = "idle" /\ evaluation' = Absent
    BY <1>1, <1>2 DEF HInv
  <1>3. ASSUME NEW split,
               stage' = "saving",
               evaluation' = [split    |-> split,
                              rows     |-> AdversarialRows(extraction),
                              released |-> release,
                              frozen   |-> HeldOutFamilies(plan, split,
                                             AdversarialRows(extraction), release)]
        PROVE  HInv'
    <2> DEFINE rows == AdversarialRows(extraction)
               f == HeldOutFamilies(plan, split, rows, release)
    <2>1. CASE f = NothingFrozen
      BY <1>1, <1>3, <2>1 DEF HInv, FrozenIsOpen, NothingFrozen
    <2>2. CASE f = [fitted |-> FrozenTrain(plan, split), scored |-> Scored(plan, rows, release)]
               /\ plan # Absent
      <3>1. plan = holdout
        BY <2>2
      <3>2. ASSUME NEW run \in Scored(plan, rows, release), ~release
            PROVE  ~OfFinalHoldout(holdout, run.workload, run.session)
        BY <3>1, <3>2, FinalHoldoutIsFinalIdentity DEF Scored, RowFinal
      <3>3. ASSUME NEW s \in FrozenTrain(plan, split)
            PROVE  /\ ~OfFinalHoldout(holdout, PlanOf[s], PlanOf[s].session)
                   /\ split[s] = "train"
        BY <3>1, FinalHoldoutIsFinalIdentity DEF FrozenTrain, In
      <3>4. /\ evaluation'.frozen.scored = Scored(plan, rows, release)
            /\ evaluation'.frozen.fitted = FrozenTrain(plan, split)
            /\ evaluation'.released = release /\ evaluation'.split = split
        BY <1>3, <2>2
      <3>5. FrozenIsOpen(evaluation', holdout)
        BY <1>3, <3>2, <3>3, <3>4 DEF FrozenIsOpen, EvaluateDetector
      <3>6. QED
        BY <1>1, <1>3, <3>5 DEF HInv
    <2>3. QED
      BY <2>1, <2>2 DEF HeldOutFamilies
  <1>4. QED
    BY <1>2, <1>3 DEF EvaluateDetector, EvaluationRaises, Ends, Goes

LEMMA KeepSaveEvaluation ==
  ASSUME HInv, SaveEvaluation
  PROVE  HInv'
  <1>1. holdout' = holdout /\ stage' = "idle" /\ evaluation' = Absent
    BY DEF SaveEvaluation, Ends, Cut
  <1>2. tree' = tree \/ \E v : tree' = [tree EXCEPT !.evaluation = v]
    BY DEF SaveEvaluation, Cut
  <1>3. tree'.runs = tree.runs /\ IsTree(tree')
    <2>1. IsTree(tree)
      BY DEF HInv
    <2>2. QED
      BY <1>2, <2>1 DEF IsTree
  <1>4. QED
    BY <1>1, <1>3 DEF HInv

(* A plan is written for this call, or the call ends. *)
LEMMA KeepWritePlan ==
  ASSUME HInv, stage = "idle", NEW kind, NEW session, NEW release, NEW plans,
         WritePlan(kind, session, release, plans),
         NEW S, plans \in Seq(S),
         holdout' \in HoldoutPlans \cup {Absent},
         holdout \in {Absent, holdout'},
         kind = "matrix" =>
           /\ holdout' # Absent
           /\ \A i \in DOMAIN plans : RightRound(plans[i], holdout', session, release)
  PROVE  HInv'
  <1>1. evaluation = Absent /\ evaluation' = Absent
    BY DEF WritePlan, Ends, Cut, HInv
  <1>2. tree'.runs = tree.runs /\ IsTree(tree')
    <2>1. \/ tree' = [tree EXCEPT !.plans = @ \cup {session}]
          \/ tree' = tree
      BY DEF WritePlan
    <2>2. IsTree(tree)
      BY DEF HInv
    <2>3. QED
      BY <2>1, <2>2 DEF IsTree
  <1>3. RunsAreOpen(tree.runs, holdout')
    BY DEF HInv, RunsAreOpen
  <1>4. CASE stage' = "idle"
    BY <1>1, <1>2, <1>3, <1>4 DEF HInv
  <1>5. CASE /\ stage' = "collecting"
             /\ call' = [kind |-> kind, session |-> session, release |-> release,
                         plans |-> plans, finalized |-> <<>>]
    <2>1. /\ call'.plans = plans /\ call'.finalized = <<>> /\ call'.kind = kind
          /\ call'.session = session /\ call'.release = release
      BY <1>5
    <2>2. <<>> \in Seq(S)
      OBVIOUS
    <2>3. IsPlanned(call', holdout')
      BY <2>1, <2>2 DEF IsPlanned
    <2>4. QED
      BY <1>1, <1>2, <1>3, <1>5, <2>3 DEF HInv
  <1>6. QED
    BY <1>4, <1>5 DEF WritePlan, Goes, Cut, Ends

LEMMA KeepRaise ==
  ASSUME HInv, stage = "idle", NEW cause, MatrixRaises(cause)
  PROVE  HInv'
  BY DEF HInv, MatrixRaises, Ends

LEMMA KeepMatrix ==
  ASSUME HInv, NEW session, NEW approval, NEW final_approval, NEW release,
         NEW selection \in Selections \cup {PeriodicStudy}, NEW plan \in HoldoutPlans,
         RunAdversarialMatrix(session, approval, final_approval, release, selection, plan)
  PROVE  HInv'
  <1> DEFINE plans == MatrixPlan(plan, selection, session, release)
             S == MatrixSlots(plan, selection, session, release)
  <1>1. plans \in Seq(S)
    BY MatrixPlanType
  <1>2. \A i \in DOMAIN plans : RightRound(plans[i], plan, session, release)
    <2>1. \A p \in S : RightRound(p, plan, session, release)
      BY DEF MatrixSlots
    <2> HIDE DEF S, plans
    <2>2. QED
      BY <1>1, <2>1
  <1>3. plan # Absent
    BY EvaluationAssumption
  <1>4. stage = "idle" /\ holdout \in {Absent, plan}
    BY DEF RunAdversarialMatrix
  <1> HIDE DEF S
  <1>5. CASE WritePlan("matrix", session, release, plans) /\ holdout' = plan
    <2> HIDE DEF plans
    <2>1. QED
      BY <1>1, <1>2, <1>3, <1>4, <1>5, KeepWritePlan
  <1>6. CASE \E cause : MatrixRaises(cause)
    BY <1>4, <1>6, KeepRaise
  <1>7. QED
    BY <1>5, <1>6 DEF RunAdversarialMatrix

LEMMA KeepSeries ==
  ASSUME HInv, NEW session, NEW approval, RunSegmentedSeries(session, approval)
  PROVE  HInv'
  <1> DEFINE plans == PlannedFor(Series, "none")
             S == [workload : {Series}, slot : Nat, round : {"none"}]
  <1>1. plans \in Seq(S)
    <2>1. Series.segments \in Nat
      BY EvaluationAssumption
    <2>2. plans = [i \in 1 .. Series.segments |->
                     [workload |-> Series, slot |-> i - 1, round |-> "none"]]
      BY DEF PlannedFor
    <2>3. \A i \in 1 .. Series.segments :
            [workload |-> Series, slot |-> i - 1, round |-> "none"] \in S
      OBVIOUS
    <2> HIDE DEF S
    <2>4. QED
      BY <2>1, <2>2, <2>3
  <1>2. stage = "idle"
    BY DEF RunSegmentedSeries
  <1>3. CASE WritePlan("series", session, FALSE, PlannedFor(Series, "none")) /\ holdout' = holdout
    <2>1. holdout' \in HoldoutPlans \cup {Absent} /\ holdout \in {Absent, holdout'}
      BY <1>3 DEF HInv
    <2> HIDE DEF plans, S
    <2>2. WritePlan("series", session, FALSE, plans) /\ "series" # "matrix"
      BY <1>3 DEF plans
    <2>3. QED
      BY <1>1, <1>2, <2>1, <2>2, KeepWritePlan
  <1>4. CASE \E cause : MatrixRaises(cause)
    BY <1>2, <1>4, KeepRaise
  <1>5. QED
    BY <1>3, <1>4 DEF RunSegmentedSeries

LEMMA KeepFinalize ==
  ASSUME NEW run, NEW plan, IsPlanned(call, plan), Finalize(run)
  PROVE  IsPlanned(call', plan)
  <1>1. PICK S : call.finalized \in Seq(S)
    BY DEF IsPlanned
  <1>2. Append(call.finalized, run) \in Seq(S \cup {run})
    BY <1>1
  <1>3. call' = [call EXCEPT !.finalized = Append(@, run)]
    BY DEF Finalize
  <1>4. QED
    BY <1>2, <1>3 DEF IsPlanned

LEMMA NextIsPlanned ==
  ASSUME NEW plan, IsPlanned(call, plan), Len(call.finalized) < Len(call.plans)
  PROVE  Len(call.finalized) + 1 \in DOMAIN call.plans
  <1>1. PICK S : call.finalized \in Seq(S)
    BY DEF IsPlanned
  <1>2. PICK R : call.plans \in Seq(R)
    BY DEF IsPlanned
  <1>3. QED
    BY <1>1, <1>2

LEMMA KeepSkipSealed ==
  ASSUME HInv, SkipSealed
  PROVE  HInv'
  <1>1. stage = "collecting" /\ Finalize(Absent) /\ UNCHANGED <<holdout, tree, stage, evaluation>>
    BY DEF SkipSealed
  <1>2. IsPlanned(call', holdout)
    BY <1>1, KeepFinalize DEF HInv
  <1>3. QED
    BY <1>1, <1>2 DEF HInv

LEMMA KeepMakeRun ==
  ASSUME HInv, NEW kind, MakeRun(kind)
  PROVE  HInv'
  <1>1. stage = "collecting" /\ call.kind = kind /\ ~IsSealed(NextPlanned)
        /\ Len(call.finalized) < Len(call.plans) /\ holdout' = holdout
    BY DEF MakeRun
  <1>2. IsPlanned(call, holdout) /\ IsTree(tree) /\ evaluation = Absent
    BY <1>1 DEF HInv
  <1>3. CASE Cut /\ (UNCHANGED tree \/ tree' = [tree EXCEPT !.torn = @ \cup {call.session}])
    <2>1. tree'.runs = tree.runs /\ IsTree(tree')
      BY <1>2, <1>3 DEF IsTree
    <2>2. QED
      BY <1>1, <1>3, <2>1 DEF Cut, Ends, HInv
  <1>4. ASSUME NEW completed \in BOOLEAN, NEW run,
               run = [workload |-> NextPlanned.workload, slot |-> NextPlanned.slot,
                      session |-> call.session, kind |-> kind, released |-> call.release],
               tree' = [tree EXCEPT !.runs = @ \cup {run}],
               Finalize(IF completed THEN run ELSE Absent),
               UNCHANGED <<stage, evaluation, refusal, faults>>
        PROVE  HInv'
    <2>1. IsTree(tree') /\ tree'.runs = tree.runs \cup {run}
      BY <1>2, <1>4 DEF IsTree
    <2>2. IsPlanned(call', holdout)
      BY <1>2, <1>4, KeepFinalize
    <2>3. ASSUME kind = "matrix"
          PROVE  /\ holdout # Absent
                 /\ OfFinalHoldout(holdout, run.workload, run.session) => run.released
      <3> DEFINE w == NextPlanned.workload
      <3>1. RightRound(NextPlanned, holdout, call.session, call.release) /\ holdout # Absent
        BY <1>1, <1>2, <2>3, NextIsPlanned DEF IsPlanned, NextPlanned
      <3>2. NextPlanned.round # "sealed_final_holdout"
        BY <1>1 DEF IsSealed
      <3>3. IsFinalIdentity(holdout, w.family, call.session, w.config) => call.release
        BY <3>1, <3>2 DEF RightRound, RoundFor
      <3>4. run.workload = w /\ run.session = call.session /\ run.released = call.release
        BY <1>4
      <3>5. QED
        BY <3>1, <3>3, <3>4, FinalHoldoutIsFinalIdentity
    <2>4. run.kind = kind
      BY <1>4
    <2>5. RunsAreOpen(tree'.runs, holdout)
      BY <2>1, <2>3, <2>4 DEF HInv, RunsAreOpen
    <2>6. QED
      BY <1>1, <1>2, <1>4, <2>1, <2>2, <2>5 DEF HInv
  <1>5. QED
    BY <1>3, <1>4 DEF MakeRun

LEMMA KeepComplete ==
  ASSUME HInv, NEW kind, Complete(kind)
  PROVE  HInv'
  <1>1. holdout' = holdout /\ stage' = "idle" /\ evaluation' = Absent
    BY DEF Complete, Ends, Cut
  <1>2. tree' = tree \/ \E v, w : tree' = [tree EXCEPT !.extractions = v, !.newest = w]
    BY DEF Complete
  <1>3. tree'.runs = tree.runs /\ IsTree(tree')
    <2>1. IsTree(tree)
      BY DEF HInv
    <2>2. QED
      BY <1>2, <2>1 DEF IsTree
  <1>4. QED
    BY <1>1, <1>3 DEF HInv

LEMMA HInvStep ==
  ASSUME HInv, [Next]_vars
  PROVE  HInv'
  <1>1. CASE UNCHANGED vars
    BY <1>1 DEF vars, HInv
  <1>2. CASE ExtractRun \/ FinishExtraction \/ Analyse \/ Dismiss
    BY <1>2, KeepExtraction
  <1>3. CASE \E loaded \in LoadableExtractions, gate \in Gates, release \in BOOLEAN :
               \E extraction \in {Absent} \cup tree.extractions, plan \in {Absent, holdout} :
                 EvaluateDetector(loaded, gate, extraction, plan, release)
    BY <1>3, KeepEvaluateDetector
  <1>4. CASE SaveEvaluation
    BY <1>4, KeepSaveEvaluation
  <1>5. CASE \E session \in Sessions, approval, final_approval, release \in BOOLEAN :
               \E selection \in Selections, plan \in HoldoutPlans :
                 RunAdversarialMatrix(session, approval, final_approval, release, selection, plan)
    BY <1>5, KeepMatrix
  <1>6. CASE \E session \in Sessions, approval \in BOOLEAN : RunSegmentedSeries(session, approval)
    BY <1>6, KeepSeries
  <1>7. CASE \E session \in Sessions, approval \in BOOLEAN, plan \in HoldoutPlans :
               RunPeriodicSynchronizationStudy(session, approval, plan)
    BY <1>7, KeepMatrix DEF RunPeriodicSynchronizationStudy
  <1>8. CASE SkipSealed
    BY <1>8, KeepSkipSealed
  <1>9. CASE MakeMatrixRun \/ MakeSegment
    BY <1>9, KeepMakeRun DEF MakeMatrixRun, MakeSegment
  <1>10. CASE CompleteMatrix \/ CompleteSeries
    BY <1>10, KeepComplete DEF CompleteMatrix, CompleteSeries
  <1>11. QED
    BY <1>1, <1>2, <1>3, <1>4, <1>5, <1>6, <1>7, <1>8, <1>9, <1>10 DEF Next

(* Until it is released, no run of the final holdout is collected by the   *)
(* matrix or scored by an evaluation, and the frozen baseline is fitted on *)
(* training runs outside it: by family, session and configuration, whatever *)
(* plan the project declares.                                              *)
THEOREM HoldoutCorrect == Spec => []HoldoutStaysSealed
  <1>1. Init => HInv
    BY HInvInit
  <1>2. HInv /\ [Next]_vars => HInv'
    BY HInvStep
  <1>3. HInv => HoldoutStaysSealed
    BY HInvSuffices
  <1>4. QED
    BY <1>1, <1>2, <1>3, PTL DEF Spec

-----------------------------------------------------------------------------
(* No matrix before an acceptance *)

(* Each class was seen, and no family has one or two primary runs. *)
Covered ==
  /\ Values(PlanOf, PrimaryRuns, "label") = Labels
  /\ \A s \in PrimaryRuns : Cardinality(OfFamily(PlanOf[s].family)) >= 3

MatrixRuns(runs) == {run \in runs : run.kind = "matrix"}

(* Whatever rests on an evaluation that was accepted. *)
RestsOnAcceptance ==
  \/ stage = "saving"
  \/ tree.evaluation = "saved"
  \/ stage = "collecting" /\ call.kind = "matrix"
  \/ MatrixRuns(tree.runs) # {}

EInv ==
  /\ IsTree(tree)
  /\ stage \in {"extracting", "analysed"} => ~RestsOnAcceptance
  /\ RestsOnAcceptance => Covered

LEMMA EInvSuffices == EInv => AcceptancePrecedesCollection
  BY DEF EInv, AcceptancePrecedesCollection, RestsOnAcceptance, MatrixRuns, Covered

LEMMA EInvInit == Init => EInv
  <1> SUFFICES ASSUME Init PROVE EInv
    OBVIOUS
  <1>1. Absent # "saved"
    BY EvaluationAssumption
  <1>2. stage = "extracting" /\ \E torn : tree = EmptyTree(torn)
    BY DEF Init
  <1>3. tree.runs = {} /\ tree.evaluation = Absent /\ IsTree(tree)
    BY <1>2 DEF EmptyTree, IsTree
  <1>4. QED
    BY <1>1, <1>2, <1>3 DEF EInv, RestsOnAcceptance, MatrixRuns

(* Whatever the gate asked for: the three-class split makes each family a  *)
(* stratum, needs three runs of every stratum, and needs all classes.      *)
LEMMA EvaluationIsCovered ==
  ASSUME SecondarySplitExists
  PROVE  Covered
  <1> DEFINE groups == GroupsOf(PrimaryRuns)
             families == AllFamilies(groups)
  <1>1. /\ DOMAIN groups = PrimaryRuns /\ \A s \in PrimaryRuns : groups[s] = PlanOf[s]
        /\ families = {PlanOf[s].family : s \in PrimaryRuns}
    BY DEF GroupsOf, AllFamilies, Values
  <1>2. StrataAreLarge(groups, families) /\ Values(groups, PrimaryRuns, "label") = Labels
    BY DEF SecondarySplitExists
  <1> HIDE DEF groups, families
  <1>3. \A r \in PrimaryRuns : StratumOf(groups[r], families) = <<"family", PlanOf[r].family>>
    BY <1>1 DEF StratumOf
  <1>4. ASSUME NEW s \in PrimaryRuns
        PROVE  Cardinality(OfFamily(PlanOf[s].family)) >= 3
    <2> DEFINE f == PlanOf[s].family
    <2>1. Stratum(groups, families, <<"family", f>>) = OfFamily(f)
      <3>1. \A r \in PrimaryRuns :
              (<<"family", PlanOf[r].family>> = <<"family", f>>) = (PlanOf[r].family = f)
        OBVIOUS
      <3>2. QED
        BY <1>1, <1>3, <3>1 DEF Stratum, OfFamily
    <2>2. <<"family", f>> \in Strata(groups, families)
      BY <1>1, <1>3 DEF Strata
    <2>3. QED
      BY <1>2, <2>1, <2>2 DEF StrataAreLarge
  <1>5. Values(PlanOf, PrimaryRuns, "label") = Labels
    BY <1>1, <1>2 DEF Values
  <1>6. QED
    BY <1>4, <1>5 DEF Covered

LEMMA CoverageIsKept ==
  ASSUME EInv, coverage' = coverage, RestsOnAcceptance' => RestsOnAcceptance, IsTree(tree'),
         stage \notin {"extracting", "analysed"}, stage' \notin {"extracting", "analysed"}
  PROVE  EInv'
  BY DEF EInv, PrimaryRuns, Covered, OfFamily

LEMMA EInvExtraction ==
  ASSUME EInv, ExtractRun \/ FinishExtraction \/ Analyse \/ Dismiss
  PROVE  EInv'
  <1>1. stage \in {"extracting", "analysed"} /\ stage' \notin {"saving", "collecting"}
    <2>1. CASE ExtractRun
      BY <2>1 DEF ExtractRun
    <2>2. CASE FinishExtraction
      BY <2>2 DEF FinishExtraction
    <2>3. CASE Analyse
      BY <2>3 DEF Analyse
    <2>4. CASE Dismiss
      BY <2>4 DEF Dismiss
    <2>5. QED
      BY <2>1, <2>2, <2>3, <2>4
  <1>2. tree' = tree \/ tree' = [tree EXCEPT !.newest = "benign"]
    BY DEF ExtractRun, FinishExtraction, Analyse, Dismiss
  <1>3. tree'.runs = tree.runs /\ tree'.evaluation = tree.evaluation /\ IsTree(tree')
    <2>1. IsTree(tree)
      BY DEF EInv
    <2>2. QED
      BY <1>2, <2>1 DEF IsTree
  <1>4. ~RestsOnAcceptance
    BY <1>1 DEF EInv
  <1>5. ~RestsOnAcceptance'
    BY <1>1, <1>3, <1>4 DEF RestsOnAcceptance
  <1>6. QED
    BY <1>3, <1>5 DEF EInv

LEMMA EInvEvaluate ==
  ASSUME EInv, NEW loaded, NEW gate, NEW extraction, NEW plan, NEW release,
         EvaluateDetector(loaded, gate, extraction, plan, release)
  PROVE  EInv'
  <1>1. tree' = tree /\ stage = "idle" /\ coverage' = coverage
    BY DEF EvaluateDetector, EvaluationRaises
  <1>2. CASE stage' = "idle"
    BY <1>1, <1>2, CoverageIsKept DEF EInv, RestsOnAcceptance
  <1>3. CASE stage' = "saving" /\ SecondarySplitExists
    BY <1>1, <1>3, EvaluationIsCovered DEF EInv, PrimaryRuns, Covered, OfFamily
  <1>4. QED
    BY <1>2, <1>3 DEF EvaluateDetector, EvaluationRaises, Ends, Goes

LEMMA EInvSave ==
  ASSUME EInv, SaveEvaluation
  PROVE  EInv'
  <1>1. stage = "saving" /\ stage' = "idle" /\ coverage' = coverage
    BY DEF SaveEvaluation, Ends, Cut
  <1>2. tree' = tree \/ \E v : tree' = [tree EXCEPT !.evaluation = v]
    BY DEF SaveEvaluation, Cut
  <1>3. IsTree(tree')
    <2>1. IsTree(tree)
      BY DEF EInv
    <2>2. QED
      BY <1>2, <2>1 DEF IsTree
  <1>4. QED
    BY <1>1, <1>3, CoverageIsKept DEF RestsOnAcceptance

LEMMA EInvPlan ==
  ASSUME EInv, stage = "idle", coverage' = coverage, NEW kind, NEW session, NEW release,
         NEW plans, WritePlan(kind, session, release, plans),
         kind = "matrix" => AcceptanceOnFile
  PROVE  EInv'
  <1>1. tree'.runs = tree.runs /\ tree'.evaluation = tree.evaluation /\ IsTree(tree')
    <2>1. tree' = tree \/ \E v : tree' = [tree EXCEPT !.plans = v]
      BY DEF WritePlan
    <2>2. IsTree(tree)
      BY DEF EInv
    <2>3. QED
      BY <2>1, <2>2 DEF IsTree
  <1>2. CASE stage' = "idle"
    BY <1>1, <1>2, CoverageIsKept DEF RestsOnAcceptance
  <1>3. CASE stage' = "collecting" /\ call'.kind = kind
    BY <1>1, <1>3, CoverageIsKept DEF RestsOnAcceptance, AcceptanceOnFile
  <1>4. QED
    BY <1>2, <1>3 DEF WritePlan, Goes, Cut, Ends

LEMMA EInvRaise ==
  ASSUME EInv, stage = "idle", coverage' = coverage, NEW cause, MatrixRaises(cause)
  PROVE  EInv'
  <1>1. tree' = tree /\ stage' = "idle"
    BY DEF MatrixRaises, Ends
  <1>2. IsTree(tree)
    BY DEF EInv
  <1>3. QED
    BY <1>1, <1>2, CoverageIsKept DEF RestsOnAcceptance

LEMMA EInvMatrix ==
  ASSUME EInv, NEW session, NEW approval, NEW final_approval, NEW release, NEW selection, NEW plan,
         RunAdversarialMatrix(session, approval, final_approval, release, selection, plan)
  PROVE  EInv'
  <1> DEFINE plans == MatrixPlan(plan, selection, session, release)
  <1> HIDE DEF plans
  <1>1. stage = "idle" /\ coverage' = coverage
    BY DEF RunAdversarialMatrix
  <1>2. CASE WritePlan("matrix", session, release, plans) /\ AcceptanceOnFile
    BY <1>1, <1>2, EInvPlan
  <1>3. CASE \E cause : MatrixRaises(cause)
    BY <1>1, <1>3, EInvRaise
  <1>4. QED
    BY <1>2, <1>3 DEF RunAdversarialMatrix, plans

LEMMA EInvSeries ==
  ASSUME EInv, NEW session, NEW approval, RunSegmentedSeries(session, approval)
  PROVE  EInv'
  <1>1. stage = "idle" /\ coverage' = coverage
    BY DEF RunSegmentedSeries
  <1>2. CASE WritePlan("series", session, FALSE, PlannedFor(Series, "none"))
    <2>1. "series" # "matrix"
      OBVIOUS
    <2>2. QED
      BY <1>1, <1>2, <2>1, EInvPlan
  <1>3. CASE \E cause : MatrixRaises(cause)
    BY <1>1, <1>3, EInvRaise
  <1>4. QED
    BY <1>2, <1>3 DEF RunSegmentedSeries

LEMMA EInvCollect ==
  ASSUME EInv, SkipSealed \/ (\E kind : MakeRun(kind)) \/ (\E kind : Complete(kind))
  PROVE  EInv'
  <1>1. stage = "collecting" /\ coverage' = coverage /\ stage' \in {"collecting", "idle"}
    BY DEF SkipSealed, MakeRun, Complete, Cut, Ends
  <1>2. IsTree(tree)
    BY DEF EInv
  <1>3. CASE SkipSealed
    <2>1. tree' = tree /\ call' = [call EXCEPT !.finalized = Append(@, Absent)]
      BY <1>3 DEF SkipSealed, Finalize
    <2>2. call'.kind = call.kind
      BY <2>1
    <2>3. QED
      BY <1>1, <1>2, <2>1, <2>2, CoverageIsKept DEF RestsOnAcceptance
  <1>4. ASSUME NEW kind, MakeRun(kind) PROVE EInv'
    <2>1. CASE stage' = "idle" /\ (tree' = tree \/ \E v : tree' = [tree EXCEPT !.torn = v])
      <3>1. tree'.runs = tree.runs /\ tree'.evaluation = tree.evaluation /\ IsTree(tree')
        BY <1>2, <2>1 DEF IsTree
      <3>2. QED
        BY <1>1, <2>1, <3>1, CoverageIsKept DEF RestsOnAcceptance
    <2>2. ASSUME NEW completed \in BOOLEAN, NEW run,
                 run = [workload |-> NextPlanned.workload, slot |-> NextPlanned.slot,
                        session |-> call.session, kind |-> kind, released |-> call.release],
                 tree' = [tree EXCEPT !.runs = @ \cup {run}],
                 Finalize(IF completed THEN run ELSE Absent)
          PROVE  EInv'
      <3>1. IsTree(tree') /\ tree'.runs = tree.runs \cup {run}
            /\ tree'.evaluation = tree.evaluation
        BY <1>2, <2>2 DEF IsTree
      <3>2. call'.kind = call.kind /\ run.kind = call.kind
        BY <1>4, <2>2 DEF Finalize, MakeRun
      <3>3. MatrixRuns(tree'.runs) # {} => MatrixRuns(tree.runs) # {} \/ call.kind = "matrix"
        BY <3>1, <3>2 DEF MatrixRuns
      <3>4. RestsOnAcceptance' => RestsOnAcceptance
        BY <1>1, <3>1, <3>2, <3>3 DEF RestsOnAcceptance
      <3>5. QED
        BY <1>1, <3>1, <3>4, CoverageIsKept
    <2>3. QED
      BY <1>4, <2>1, <2>2 DEF MakeRun, Cut, Ends
  <1>5. ASSUME NEW kind, Complete(kind) PROVE EInv'
    <2>1. stage' = "idle"
      BY <1>5 DEF Complete, Ends, Cut
    <2>2. tree' = tree \/ \E v, w : tree' = [tree EXCEPT !.extractions = v, !.newest = w]
      BY <1>5 DEF Complete
    <2>3. tree'.runs = tree.runs /\ tree'.evaluation = tree.evaluation /\ IsTree(tree')
      BY <1>2, <2>2 DEF IsTree
    <2>4. QED
      BY <1>1, <2>1, <2>3, CoverageIsKept DEF RestsOnAcceptance
  <1>6. QED
    BY <1>3, <1>4, <1>5

LEMMA EInvStep ==
  ASSUME EInv, [Next]_vars
  PROVE  EInv'
  <1>1. CASE UNCHANGED vars
    BY <1>1 DEF vars, EInv, RestsOnAcceptance, PrimaryRuns, Covered, OfFamily
  <1>2. CASE Next
    BY <1>2, EInvExtraction, EInvEvaluate, EInvSave, EInvMatrix, EInvSeries, EInvCollect
       DEF Next, RunPeriodicSynchronizationStudy, MakeMatrixRun, MakeSegment, CompleteMatrix,
           CompleteSeries
  <1>3. QED
    BY <1>1, <1>2

(* No run of an adversarial matrix exists before each class was seen with  *)
(* the primary window, and each family that was seen was seen three times, *)
(* although the gate of the evaluation may ask for nothing.                *)
THEOREM AcceptanceCorrect == Spec => []AcceptancePrecedesCollection
  <1>1. Init => EInv
    BY EInvInit
  <1>2. EInv /\ [Next]_vars => EInv'
    BY EInvStep
  <1>3. EInv => AcceptancePrecedesCollection
    BY EInvSuffices
  <1>4. QED
    BY <1>1, <1>2, <1>3, PTL DEF Spec

-----------------------------------------------------------------------------
(* Types *)

LEMMA NextSlotIsOne ==
  ASSUME ~\A s \in Slots : coverage[s] # Absent
  PROVE  Min({s \in Slots : coverage[s] = Absent}) \in Slots
  <1>1. Slots \subseteq Nat
    <2>1. Cardinality(Slots) \in Nat /\ Slots = 1 .. Cardinality(Slots)
      BY EvaluationAssumption, FS_CardinalityType
    <2>2. QED
      BY <2>1
  <1>2. {s \in Slots : coverage[s] = Absent} \subseteq Nat
    BY <1>1
  <1>3. QED
    BY <1>2, MinOfNats

(* A run is extracted with the evidence there is of it. *)
LEMMA ExtractRunIs ==
  ASSUME ExtractRun
  PROVE  \E s \in Slots : \E e \in EvidenceOf[s] :
           /\ extracted' = Extracted(e)
           /\ coverage' = [coverage EXCEPT ![s] =
                             IF ValidRecord(extracted'.record) THEN extracted'.record.windows
                             ELSE Invalid]
  BY NextSlotIsOne DEF ExtractRun

LEMMA RecordWindows ==
  ASSUME NEW e
  PROVE  Extracted(e).record.windows \subseteq Windows
  BY DEF Extracted, NotAccepted, ExcludedRecord, CoverageRecord, IncludedRecord

(* Whatever the mode, a split assigns every run to a part. *)
LEMMA StratifiedType ==
  ASSUME NEW groups, NEW required, NEW a \in StratifiedAssignments(groups, required)
  PROVE  a \in [DOMAIN groups -> Splits]
  <1> DEFINE strata == Strata(groups, required)
             S(r) == StratumOf(groups[r], required)
  <1>1. PICK f : /\ \A s \in strata : f[s] \in StratumAssignments(Stratum(groups, required, s))
                 /\ a = [r \in DOMAIN groups |-> f[S(r)][r]]
    BY DEF StratifiedAssignments
  <1>2. ASSUME NEW r \in DOMAIN groups PROVE f[S(r)][r] \in Splits
    <2>1. S(r) \in strata /\ r \in Stratum(groups, required, S(r))
      BY DEF Strata, Stratum
    <2>2. f[S(r)] \in [Stratum(groups, required, S(r)) -> Splits]
      BY <1>1, <2>1 DEF StratumAssignments
    <2>3. QED
      BY <2>1, <2>2
  <1>3. QED
    BY <1>1, <1>2

LEMMA SplitType ==
  ASSUME NEW groups, NEW mode, NEW value, NEW required,
         NEW a \in SplitPlans(groups, mode, value, required)
  PROVE  a \in [DOMAIN groups -> Splits]
  <1>1. CASE a \in SessionAssignments(groups, required)
    BY <1>1 DEF SessionAssignments, BySession, Splits
  <1>2. CASE a \in StratifiedAssignments(groups, required)
    BY <1>2, StratifiedType
  <1>3. ASSUME NEW field, a \in DiagnosticHoldoutAssignments(groups, field, value)
        PROVE  a \in [DOMAIN groups -> Splits]
    BY <1>3 DEF DiagnosticHoldoutAssignments, Splits
  <1>4. QED
    BY <1>1, <1>2, <1>3 DEF SplitPlans

LEMMA TypeInit == Init => TypeOK
  <1> SUFFICES ASSUME Init PROVE TypeOK
    OBVIOUS
  <1>1. tree \in Trees
    <2>1. PICK torn \in SUBSET BenignSessions : tree = EmptyTree(torn)
      BY DEF Init
    <2>2. QED
      BY <2>1 DEF EmptyTree, Trees
  <1>2. coverage \in [Slots -> (SUBSET Windows) \cup {Absent, Invalid}]
    BY DEF Init
  <1>3. 0 \in 0 .. MaxFaults
    BY EvaluationAssumption
  <1>4. QED
    BY <1>1, <1>2, <1>3 DEF Init, TypeOK

LEMMA TypeExtraction ==
  ASSUME TypeOK, ExtractRun \/ FinishExtraction \/ Analyse \/ Dismiss
  PROVE  TypeOK'
  <1>1. /\ stage \in {"extracting", "analysed"}
        /\ stage' \in {"extracting", "analysed", "idle", "raised"}
        /\ UNCHANGED <<holdout, call, evaluation, faults>>
    BY DEF ExtractRun, FinishExtraction, Analyse, Dismiss
  <1>2. coverage' \in [Slots -> (SUBSET Windows) \cup {Absent, Invalid}]
    <2>1. CASE ExtractRun
      <3>1. PICK s \in Slots : \E e :
              /\ extracted' = Extracted(e)
              /\ coverage' = [coverage EXCEPT ![s] =
                                IF ValidRecord(extracted'.record) THEN extracted'.record.windows
                                ELSE Invalid]
        BY <2>1, ExtractRunIs
      <3>2. extracted'.record.windows \in SUBSET Windows
        BY <3>1, RecordWindows
      <3>3. QED
        BY <3>1, <3>2 DEF TypeOK
    <2>2. CASE coverage' = coverage
      BY <2>2 DEF TypeOK
    <2>3. QED
      BY <2>1, <2>2 DEF FinishExtraction, Analyse, Dismiss
  <1>3. tree' \in Trees
    <2>1. tree' = tree \/ tree' = [tree EXCEPT !.newest = "benign"]
      BY DEF ExtractRun, FinishExtraction, Analyse, Dismiss
    <2>2. QED
      BY <2>1 DEF TypeOK, Trees
  <1>4. QED
    BY <1>1, <1>2, <1>3 DEF TypeOK

(* What is left of TypeOK after a step that leaves the coverage alone. *)
LEMMA TypeGoesOn ==
  ASSUME TypeOK, coverage' = coverage,
         stage' \in {"idle", "saving", "collecting"},
         holdout' \in HoldoutPlans \cup {Absent}, tree' \in Trees, faults' \in 0 .. MaxFaults,
         stage' = "collecting" => call' \in Calls /\ CollectsAsPlanned(call'),
         stage' # "collecting" => call' = Absent,
         stage' = "saving" => IsEvaluation(evaluation'),
         stage' # "saving" => evaluation' = Absent
  PROVE  TypeOK'
  <1>1. BinaryRuns' = BinaryRuns
    BY DEF BinaryRuns, PrimaryRuns
  <1>2. stage' = "saving" => IsEvaluation(evaluation)'
    BY <1>1 DEF IsEvaluation
  <1>3. stage' = "collecting" => CollectsAsPlanned(call)'
    BY DEF CollectsAsPlanned
  <1>4. QED
    BY <1>2, <1>3 DEF TypeOK

LEMMA FaultsType ==
  ASSUME TypeOK, Cut
  PROVE  faults' \in 0 .. MaxFaults
  BY EvaluationAssumption DEF TypeOK, Cut

LEMMA TypeRaise ==
  ASSUME TypeOK, coverage' = coverage, UNCHANGED <<tree, holdout, faults>>, NEW cause, Ends(cause)
  PROVE  TypeOK'
  BY TypeGoesOn DEF TypeOK, Ends

LEMMA TypeEvaluate ==
  ASSUME TypeOK, NEW loaded, NEW gate, NEW extraction \in {Absent} \cup tree.extractions,
         NEW plan, NEW release, EvaluateDetector(loaded, gate, extraction, plan, release)
  PROVE  TypeOK'
  <1>1. coverage' = coverage /\ stage = "idle"
    BY DEF EvaluateDetector
  <1>2. CASE \E cause : EvaluationRaises(cause)
    BY <1>1, <1>2, TypeRaise DEF EvaluationRaises
  <1>3. ASSUME NEW split \in PrimarySplits,
               evaluation' = [split    |-> split,
                              rows     |-> AdversarialRows(extraction),
                              released |-> release,
                              frozen   |-> HeldOutFamilies(plan, split,
                                             AdversarialRows(extraction), release)],
               Goes("saving"), UNCHANGED <<call, tree, holdout, faults>>
        PROVE  TypeOK'
    <2> DEFINE rows == AdversarialRows(extraction)
               frozen == HeldOutFamilies(plan, split, rows, release)
    <2>1. split \in [BinaryRuns -> Splits]
      BY SplitType DEF PrimarySplits, GroupsOf
    <2>2. rows \subseteq AdversarialRuns
      BY DEF AdversarialRows, TypeOK, Trees
    <2>3. frozen.scored \subseteq rows /\ frozen.fitted \subseteq BinaryRuns
      <3>1. Scored(plan, rows, release) \subseteq rows
        BY DEF Scored
      <3>2. FrozenTrain(plan, split) \subseteq BinaryRuns
        BY <2>1 DEF FrozenTrain, In
      <3>3. QED
        BY <3>1, <3>2 DEF HeldOutFamilies, NothingFrozen
    <2>4. /\ evaluation'.split = split /\ evaluation'.rows = rows
          /\ evaluation'.frozen = frozen
      BY <1>3
    <2> HIDE DEF rows, frozen
    <2>5. IsEvaluation(evaluation')
      BY <2>1, <2>2, <2>3, <2>4 DEF IsEvaluation
    <2>6. stage' = "saving"
      BY <1>3 DEF Goes
    <2>7. QED
      BY <1>1, <1>3, <2>5, <2>6, TypeGoesOn DEF TypeOK
  <1>4. QED
    BY <1>2, <1>3 DEF EvaluateDetector

LEMMA TypeSave ==
  ASSUME TypeOK, SaveEvaluation
  PROVE  TypeOK'
  <1>1. /\ coverage' = coverage /\ holdout' = holdout
        /\ stage' = "idle" /\ call' = Absent /\ evaluation' = Absent
    BY DEF SaveEvaluation, Cut, Ends
  <1>2. tree' \in Trees
    <2>1. \E left : /\ left \in {tree.evaluation, Torn, "saved"}
                   /\ tree' = [tree EXCEPT !.evaluation = left]
      BY DEF SaveEvaluation
    <2>2. QED
      BY <2>1 DEF TypeOK, Trees
  <1>3. faults' \in 0 .. MaxFaults
    BY FaultsType DEF SaveEvaluation, TypeOK
  <1>4. QED
    BY <1>1, <1>2, <1>3, TypeGoesOn DEF TypeOK

LEMMA TypeWritePlan ==
  ASSUME TypeOK, stage = "idle", coverage' = coverage, holdout' \in HoldoutPlans \cup {Absent},
         NEW kind \in Kinds, NEW session \in Sessions, NEW release \in BOOLEAN,
         NEW plans \in Seq(PlannedRuns), WritePlan(kind, session, release, plans)
  PROVE  TypeOK'
  <1>1. tree' \in Trees
    <2>1. tree' = tree \/ tree' = [tree EXCEPT !.plans = tree.plans \cup {session}]
      BY DEF WritePlan
    <2>2. tree.plans \cup {session} \in SUBSET Sessions
      BY DEF TypeOK, Trees
    <2>3. QED
      BY <2>1, <2>2 DEF TypeOK, Trees
  <1>2. CASE Cut
    <2>1. stage' = "idle" /\ call' = Absent /\ evaluation' = Absent
      BY <1>2 DEF Cut, Ends
    <2>2. faults' \in 0 .. MaxFaults
      BY <1>2, FaultsType
    <2>3. QED
      BY <1>1, <2>1, <2>2, TypeGoesOn
  <1>3. CASE /\ call' = [kind |-> kind, session |-> session, release |-> release,
                         plans |-> plans, finalized |-> <<>>]
             /\ Goes("collecting") /\ UNCHANGED <<evaluation, faults>>
    <2>1. <<>> \in Seq(AdversarialRuns \cup {Absent})
      OBVIOUS
    <2>2. call' \in Calls
      BY <1>3, <2>1 DEF Calls
    <2>3. CollectsAsPlanned(call')
      <3>1. call'.finalized = <<>> /\ call'.plans = plans
        BY <1>3
      <3>2. QED
        BY <3>1 DEF CollectsAsPlanned
    <2>4. stage' = "collecting" /\ evaluation' = Absent /\ faults' = faults
      BY <1>3 DEF Goes, TypeOK
    <2>5. QED
      BY <1>1, <2>2, <2>3, <2>4, TypeGoesOn DEF TypeOK
  <1>4. QED
    BY <1>2, <1>3 DEF WritePlan

LEMMA TypeMatrix ==
  ASSUME TypeOK, NEW session \in Sessions, NEW approval, NEW final_approval,
         NEW release \in BOOLEAN, NEW selection \in Selections \cup {PeriodicStudy},
         NEW plan \in HoldoutPlans,
         RunAdversarialMatrix(session, approval, final_approval, release, selection, plan)
  PROVE  TypeOK'
  <1> DEFINE plans == MatrixPlan(plan, selection, session, release)
             S == MatrixSlots(plan, selection, session, release)
  <1>1. plans \in Seq(PlannedRuns)
    <2>1. plans \in Seq(S)
      BY MatrixPlanType
    <2>2. S \subseteq PlannedRuns
      BY DEF MatrixSlots, PlannedRuns, Workloads
    <2> HIDE DEF plans, S
    <2>3. QED
      BY <2>1, <2>2
  <1> HIDE DEF plans
  <1>2. stage = "idle" /\ coverage' = coverage
    BY DEF RunAdversarialMatrix
  <1>3. CASE WritePlan("matrix", session, release, plans) /\ holdout' = plan
    <2>1. "matrix" \in Kinds
      BY DEF Kinds
    <2>2. QED
      BY <1>1, <1>2, <1>3, <2>1, TypeWritePlan
  <1>4. CASE \E cause : MatrixRaises(cause)
    BY <1>2, <1>4, TypeRaise DEF MatrixRaises
  <1>5. QED
    BY <1>3, <1>4 DEF RunAdversarialMatrix, plans

LEMMA TypeSeries ==
  ASSUME TypeOK, NEW session \in Sessions, NEW approval, RunSegmentedSeries(session, approval)
  PROVE  TypeOK'
  <1> DEFINE plans == PlannedFor(Series, "none")
  <1>1. plans \in Seq(PlannedRuns)
    <2>1. Series.segments \in Nat
      BY EvaluationAssumption
    <2>2. plans = [i \in 1 .. Series.segments |->
                     [workload |-> Series, slot |-> i - 1, round |-> "none"]]
      BY DEF PlannedFor
    <2>3. ASSUME NEW i \in 1 .. Series.segments
          PROVE  [workload |-> Series, slot |-> i - 1, round |-> "none"] \in PlannedRuns
      <3>1. Series \in Workloads /\ i - 1 \in Nat /\ "none" \in Rounds
        BY <2>1 DEF Workloads, Rounds
      <3>2. QED
        BY <3>1 DEF PlannedRuns
    <2>4. QED
      BY <2>1, <2>2, <2>3
  <1> HIDE DEF plans
  <1>2. stage = "idle" /\ coverage' = coverage
    BY DEF RunSegmentedSeries
  <1>3. CASE WritePlan("series", session, FALSE, plans) /\ holdout' = holdout
    <2>1. "series" \in Kinds /\ FALSE \in BOOLEAN /\ holdout' \in HoldoutPlans \cup {Absent}
      BY <1>3 DEF Kinds, TypeOK
    <2>2. QED
      BY <1>1, <1>2, <1>3, <2>1, TypeWritePlan
  <1>4. CASE \E cause : MatrixRaises(cause)
    BY <1>2, <1>4, TypeRaise DEF MatrixRaises
  <1>5. QED
    BY <1>3, <1>4 DEF RunSegmentedSeries, plans

(* The next planned run of a call, and the call when it is finalized. *)
LEMMA TypeFinalize ==
  ASSUME TypeOK, stage = "collecting", Len(call.finalized) < Len(call.plans),
         NEW run \in AdversarialRuns \cup {Absent}, Finalize(run),
         run # Absent => /\ run.workload = NextPlanned.workload /\ run.slot = NextPlanned.slot
                         /\ run.session = call.session /\ run.kind = call.kind
  PROVE  call' \in Calls /\ CollectsAsPlanned(call')
  <1> DEFINE done == Append(call.finalized, run)
  <1>1. call \in Calls /\ CollectsAsPlanned(call)
    BY DEF TypeOK
  <1>2. call.finalized \in Seq(AdversarialRuns \cup {Absent}) /\ call.plans \in Seq(PlannedRuns)
    BY <1>1 DEF Calls
  <1>3. /\ done \in Seq(AdversarialRuns \cup {Absent}) /\ Len(done) = Len(call.finalized) + 1
        /\ DOMAIN done = 1 .. Len(call.finalized) + 1
        /\ \A i \in 1 .. Len(call.finalized) : done[i] = call.finalized[i]
        /\ done[Len(call.finalized) + 1] = run
    BY <1>2
  <1>4. Len(call.finalized) \in Nat /\ Len(call.plans) \in Nat
        /\ DOMAIN call.finalized = 1 .. Len(call.finalized)
    BY <1>2
  <1> HIDE DEF done
  <1>5. /\ call'.finalized = done /\ call'.plans = call.plans /\ call'.session = call.session
        /\ call'.kind = call.kind
    BY <1>1 DEF Finalize, Calls, done
  <1>6. call' \in Calls
    <2>1. call' = [call EXCEPT !.finalized = done]
      BY DEF Finalize, done
    <2>2. QED
      BY <1>1, <1>3, <2>1 DEF Calls
  <1>7. ASSUME NEW i \in DOMAIN done, done[i] # Absent
        PROVE  /\ done[i].workload = call.plans[i].workload /\ done[i].slot = call.plans[i].slot
               /\ done[i].session = call.session /\ done[i].kind = call.kind
    <2>1. CASE i = Len(call.finalized) + 1
      BY <1>3, <1>7, <2>1 DEF NextPlanned
    <2>2. CASE i # Len(call.finalized) + 1
      <3>1. i \in DOMAIN call.finalized /\ done[i] = call.finalized[i]
        BY <1>3, <1>4, <2>2
      <3>2. QED
        BY <1>1, <1>7, <3>1 DEF CollectsAsPlanned
    <2>3. QED
      BY <2>1, <2>2
  <1>8. Len(done) <= Len(call.plans)
    BY <1>3, <1>4
  <1>9. QED
    BY <1>5, <1>6, <1>7, <1>8 DEF CollectsAsPlanned

LEMMA TypeSkip ==
  ASSUME TypeOK, SkipSealed
  PROVE  TypeOK'
  <1>1. /\ stage = "collecting" /\ stage' = "collecting"
        /\ UNCHANGED <<coverage, holdout, tree, evaluation, faults>>
    BY DEF SkipSealed
  <1>2. call' \in Calls /\ CollectsAsPlanned(call')
    BY TypeFinalize DEF SkipSealed
  <1>3. QED
    BY <1>1, <1>2, TypeGoesOn DEF TypeOK

LEMMA TypeMakeRun ==
  ASSUME TypeOK, NEW kind, MakeRun(kind)
  PROVE  TypeOK'
  <1>1. /\ stage = "collecting" /\ call.kind = kind /\ Len(call.finalized) < Len(call.plans)
        /\ coverage' = coverage /\ holdout' = holdout
    BY DEF MakeRun
  <1>2. CASE Cut /\ (UNCHANGED tree \/ tree' = [tree EXCEPT !.torn = @ \cup {call.session}])
    <2>1. stage' = "idle" /\ call' = Absent /\ evaluation' = Absent
      BY <1>2 DEF Cut, Ends
    <2>2. faults' \in 0 .. MaxFaults
      BY <1>2, FaultsType
    <2>3. tree' \in Trees
      <3> DEFINE more == tree.torn \cup {call.session}
      <3>1. more \in SUBSET (Sessions \cup BenignSessions)
        BY <1>1 DEF TypeOK, Trees, Calls
      <3>2. tree' = tree \/ tree' = [tree EXCEPT !.torn = more]
        BY <1>2
      <3> HIDE DEF more
      <3>3. QED
        BY <3>1, <3>2 DEF TypeOK, Trees
    <2>4. QED
      BY <1>1, <2>1, <2>2, <2>3, TypeGoesOn DEF TypeOK
  <1>3. ASSUME NEW completed \in BOOLEAN, NEW run,
               run = [workload |-> NextPlanned.workload, slot |-> NextPlanned.slot,
                      session |-> call.session, kind |-> kind, released |-> call.release],
               tree' = [tree EXCEPT !.runs = @ \cup {run}],
               Finalize(IF completed THEN run ELSE Absent),
               UNCHANGED <<stage, evaluation, refusal, faults>>
        PROVE  TypeOK'
    <2>1. call \in Calls
      BY <1>1 DEF TypeOK
    <2>2. NextPlanned \in PlannedRuns
      <3>1. call.finalized \in Seq(AdversarialRuns \cup {Absent}) /\ call.plans \in Seq(PlannedRuns)
        BY <2>1 DEF Calls
      <3>2. Len(call.finalized) + 1 \in 1 .. Len(call.plans)
        BY <1>1, <3>1
      <3>3. QED
        BY <3>1, <3>2 DEF NextPlanned
    <2>3. run \in AdversarialRuns
      BY <1>1, <1>3, <2>1, <2>2 DEF PlannedRuns, AdversarialRuns, Calls
    <2>4. tree' \in Trees
      <3>1. tree.runs \cup {run} \in SUBSET AdversarialRuns
        BY <2>3 DEF TypeOK, Trees
      <3>2. tree' = [tree EXCEPT !.runs = tree.runs \cup {run}]
        BY <1>3
      <3>3. QED
        BY <3>1, <3>2 DEF TypeOK, Trees
    <2>5. call' \in Calls /\ CollectsAsPlanned(call')
      <3> DEFINE done == IF completed THEN run ELSE Absent
      <3>1. done \in AdversarialRuns \cup {Absent} /\ Finalize(done)
        BY <1>3, <2>3
      <3>2. done # Absent => /\ done.workload = NextPlanned.workload
                             /\ done.slot = NextPlanned.slot
                             /\ done.session = call.session /\ done.kind = call.kind
        BY <1>1, <1>3
      <3> HIDE DEF done
      <3>3. QED
        BY <1>1, <3>1, <3>2, TypeFinalize
    <2>6. QED
      BY <1>1, <1>3, <2>4, <2>5, TypeGoesOn DEF TypeOK
  <1>4. QED
    BY <1>2, <1>3 DEF MakeRun

LEMMA TypeComplete ==
  ASSUME TypeOK, NEW kind, Complete(kind)
  PROVE  TypeOK'
  <1>1. /\ stage = "collecting" /\ coverage' = coverage /\ holdout' = holdout
        /\ stage' = "idle" /\ call' = Absent /\ evaluation' = Absent
    BY DEF Complete, Cut, Ends
  <1>2. faults' \in 0 .. MaxFaults
    BY FaultsType DEF Complete, TypeOK
  <1>3. tree' \in Trees
    <2>1. call \in Calls
      BY <1>1 DEF TypeOK
    <2>2. Accepted \subseteq AdversarialRuns
      <3>1. call.finalized \in Seq(AdversarialRuns \cup {Absent})
        BY <2>1 DEF Calls
      <3>2. QED
        BY <3>1 DEF Accepted
    <2>3. ASSUME NEW rows \in SUBSET {run \in Accepted : LongEnough(run)},
                 tree' = [tree EXCEPT
                            !.extractions = @ \cup {[session |-> call.session, rows |-> rows]},
                            !.newest = "adversarial"]
          PROVE  tree' \in Trees
      <3> DEFINE more == tree.extractions \cup {[session |-> call.session, rows |-> rows]}
      <3>1. more \in SUBSET [session : Sessions, rows : SUBSET AdversarialRuns]
        BY <2>1, <2>2 DEF TypeOK, Trees, Calls
      <3>2. tree' = [tree EXCEPT !.extractions = more, !.newest = "adversarial"]
        BY <2>3
      <3> HIDE DEF more
      <3>3. QED
        BY <3>1, <3>2 DEF TypeOK, Trees
    <2>4. QED
      BY <2>3 DEF Complete, TypeOK
  <1>4. QED
    BY <1>1, <1>2, <1>3, TypeGoesOn DEF TypeOK

LEMMA TypeStep ==
  ASSUME TypeOK, [Next]_vars
  PROVE  TypeOK'
  <1>1. CASE UNCHANGED vars
    BY <1>1 DEF vars, TypeOK, CollectsAsPlanned, IsEvaluation, BinaryRuns, PrimaryRuns
  <1>2. CASE Next
    BY <1>2, TypeExtraction, TypeEvaluate, TypeSave, TypeMatrix, TypeSeries, TypeSkip, TypeMakeRun,
       TypeComplete
       DEF Next, RunPeriodicSynchronizationStudy, MakeMatrixRun, MakeSegment, CompleteMatrix,
           CompleteSeries
  <1>3. QED
    BY <1>1, <1>2

(* Every variable keeps its type: a call collects the runs it planned in   *)
(* their order, whatever fails, and an evaluation lives until it is saved. *)
THEOREM TypeCorrect == Spec => []TypeOK
  BY TypeInit, TypeStep, PTL DEF Spec

-----------------------------------------------------------------------------
(* Pairing *)

(* The run extracted last is a planned one, with what was found of it. *)
ExtractedIsFound ==
  extracted = Absent \/ \E s \in Slots : \E e \in EvidenceOf[s] : extracted = Extracted(e)

LEMMA ExtractedInit == Init => ExtractedIsFound
  BY DEF Init, ExtractedIsFound

LEMMA OnlyExtractRunExtracts ==
  ASSUME [Next]_vars
  PROVE  ExtractRun \/ extracted' = extracted \/ extracted' = Absent
  BY DEF Next, vars, FinishExtraction, Analyse, Dismiss, EvaluateDetector, SaveEvaluation,
     RunAdversarialMatrix, RunSegmentedSeries, RunPeriodicSynchronizationStudy, SkipSealed,
     MakeMatrixRun, CompleteMatrix, MakeSegment, CompleteSeries, MakeRun, Complete

LEMMA ExtractedStep ==
  ASSUME ExtractedIsFound, [Next]_vars
  PROVE  ExtractedIsFound'
  BY OnlyExtractRunExtracts, ExtractRunIs DEF ExtractedIsFound

LEMMA EvidenceIs ==
  ASSUME ExtractedIsFound, extracted # Absent, extracted.evidence # Absent
  PROVE  LET e == extracted.evidence
         IN  /\ e \in EvidenceOver(Nat) /\ \A g \in GPUs : IsFiniteSet(e.samples[g])
             /\ extracted.record = CoverageRecord(e)
  <1>0. PICK s \in Slots : \E e \in EvidenceOf[s] : extracted = Extracted(e)
    BY DEF ExtractedIsFound
  <1>1. PICK e \in EvidenceOf[s] : extracted = Extracted(e)
    BY <1>0
  <1>2. extracted.evidence = e /\ (e # Absent => extracted.record = CoverageRecord(e))
    BY <1>1 DEF Extracted
  <1>3. e \in EvidenceOf[s] \ {Absent}
    BY <1>2
  <1>4. e \in EvidenceOver(Nat) /\ \A g \in GPUs : IsFiniteSet(e.samples[g])
    BY <1>3, EvidenceAssumption
  <1>5. QED
    BY <1>2, <1>3, <1>4

LEMMA PairingSuffices == ExtractedIsFound => PairingIsMaximum
  <1> SUFFICES ASSUME ExtractedIsFound, extracted # Absent, extracted.evidence # Absent
               PROVE  LET samples == extracted.evidence.samples
                          pairs   == AlignedPairs(samples[0], samples[1])
                      IN  /\ IsMatching(pairs)
                          /\ Cardinality(pairs) = MaximumMatching(samples[0], samples[1])
    BY DEF PairingIsMaximum
  <1> DEFINE left == extracted.evidence.samples[0]
             right == extracted.evidence.samples[1]
  <1>1. /\ left \in SUBSET Nat /\ right \in SUBSET Nat
        /\ IsFiniteSet(left) /\ IsFiniteSet(right)
    BY EvidenceIs DEF EvidenceOver, GPUs
  <1> HIDE DEF left, right
  <1>2. IsMatching(AlignedPairs(left, right))
    BY <1>1, PairsAreGreatest DEF IsGreatest
  <1>3. Cardinality(AlignedPairs(left, right)) = MaximumMatching(left, right)
    BY <1>1, PairsAreMaximum
  <1>4. QED
    BY <1>2, <1>3 DEF left, right

(* The greedy alignment pairs as many samples as any pairing could, for    *)
(* every tolerance and whatever the samples of the two GPUs are.           *)
THEOREM PairingCorrect == Spec => []PairingIsMaximum
  <1>1. Init => ExtractedIsFound
    BY ExtractedInit
  <1>2. ExtractedIsFound /\ [Next]_vars => ExtractedIsFound'
    BY ExtractedStep
  <1>3. ExtractedIsFound => PairingIsMaximum
    BY PairingSuffices
  <1>4. QED
    BY <1>1, <1>2, <1>3, PTL DEF Spec

-----------------------------------------------------------------------------
(* Accounting for every run *)

LEMMA MaxOfTwo ==
  ASSUME NEW a \in Int, NEW b \in Int
  PROVE  Max({a, b}) \in {a, b} /\ a <= Max({a, b}) /\ b <= Max({a, b})
  <1>1. \E x \in {a, b} : \A y \in {a, b} : y <= x
    BY a <= b \/ b <= a
  <1>2. Max({a, b}) \in {a, b} /\ \A y \in {a, b} : y <= Max({a, b})
    BY <1>1 DEF Max
  <1>3. QED
    BY <1>2

LEMMA MinOfTwo ==
  ASSUME NEW a \in Int, NEW b \in Int
  PROVE  Min({a, b}) \in {a, b} /\ Min({a, b}) <= a /\ Min({a, b}) <= b
  <1>1. \E x \in {a, b} : \A y \in {a, b} : x <= y
    BY a <= b \/ b <= a
  <1>2. Min({a, b}) \in {a, b} /\ \A y \in {a, b} : Min({a, b}) <= y
    BY <1>1 DEF Min
  <1>3. QED
    BY <1>2

LEMMA TwoElements ==
  ASSUME NEW S, IsFiniteSet(S), NEW x \in S, NEW y \in S, x # y
  PROVE  Cardinality(S) \in Nat /\ Cardinality(S) >= 2
  <1>1. IsFiniteSet(S \ {x}) /\ Cardinality(S \ {x}) = Cardinality(S) - 1
    BY FS_RemoveElement
  <1>2. y \in S \ {x}
    OBVIOUS
  <1>3. /\ IsFiniteSet((S \ {x}) \ {y})
        /\ Cardinality((S \ {x}) \ {y}) = Cardinality(S \ {x}) - 1
    BY <1>1, <1>2, FS_RemoveElement
  <1>4. Cardinality(S) \in Nat /\ Cardinality((S \ {x}) \ {y}) \in Nat
    BY <1>3, FS_CardinalityType
  <1>5. QED
    BY <1>1, <1>3, <1>4

(* Two pairs of near samples are enough for two pairs of the alignment. *)
LEMMA TwoPairs ==
  ASSUME NEW left \in SUBSET Nat, NEW right \in SUBSET Nat,
         IsFiniteSet(left), IsFiniteSet(right),
         NEW x \in left, NEW u \in right, NEW y \in left, NEW v \in right,
         x < y, u < v, Distance(x, u) <= Tolerance, Distance(y, v) <= Tolerance
  PROVE  Cardinality(AlignedPairs(left, right)) >= 2
  <1> DEFINE P == {<<x, u>>, <<y, v>>}
             pairs == AlignedPairs(left, right)
  <1>1. P \in SUBSET (left \X right)
    OBVIOUS
  <1>2. x # y /\ u # v
    OBVIOUS
  <1>3. IsMatching(P)
    BY <1>2 DEF IsMatching
  <1>4. <<x, u>> \in P /\ <<y, v>> \in P /\ <<x, u>> # <<y, v>>
    BY <1>2
  <1> HIDE DEF P
  <1>5. IsGreatest(pairs, left, right)
    BY PairsAreGreatest
  <1> HIDE DEF pairs
  <1>6. pairs \in SUBSET (left \X right) /\ IsMatching(pairs)
    BY <1>5 DEF IsGreatest
  <1>7. PICK s \in SUBSET left :
          Cardinality(pairs) + Cardinality(s) = Cardinality(left) + Cardinality(Near(s, right))
    BY <1>5 DEF IsGreatest
  <1>8. Cardinality(pairs) \in Nat
    BY <1>6, MatchingBound
  <1>9. /\ IsFiniteSet(P)
        /\ Cardinality(P) + Cardinality(s) <= Cardinality(left) + Cardinality(Near(s, right))
    BY <1>1, <1>3, MatchingBound
  <1>10. Cardinality(P) \in Nat /\ Cardinality(P) >= 2
    BY <1>4, <1>9, TwoElements
  <1>11. Cardinality(s) \in Nat
    BY FS_Subset, FS_CardinalityType
  <1>12. Cardinality(pairs) >= 2
    BY <1>7, <1>8, <1>9, <1>10, <1>11
  <1>13. QED
    BY <1>12 DEF pairs

(* What is found of a run, and whether the runs are sampled finitely often. *)
IsEvidence(e) == e \in EvidenceOver(Nat) /\ \A g \in GPUs : IsFiniteSet(e.samples[g])

LEMMA CommonIs ==
  ASSUME NEW e, IsEvidence(e), BothSampled(e)
  PROVE  LET first(g) == Min(e.samples[g])
             last(g)  == Max(e.samples[g])
         IN  /\ \A g \in GPUs : /\ first(g) \in Nat /\ last(g) \in Nat
                                /\ \A x \in e.samples[g] : first(g) <= x /\ x <= last(g)
             /\ CommonStart(e) \in {first(0), first(1)} /\ CommonEnd(e) \in {last(0), last(1)}
  <1> DEFINE first(g) == Min(e.samples[g])
             last(g)  == Max(e.samples[g])
  <1>1. ASSUME NEW g \in GPUs
        PROVE  /\ first(g) \in Nat /\ last(g) \in Nat
               /\ \A x \in e.samples[g] : first(g) <= x /\ x <= last(g)
    <2>1. e.samples[g] \in SUBSET Nat /\ e.samples[g] # {} /\ IsFiniteSet(e.samples[g])
      BY DEF IsEvidence, EvidenceOver, BothSampled
    <2>2. first(g) \in e.samples[g] /\ \A x \in e.samples[g] : first(g) <= x
      BY <2>1, MinOfNats
    <2>3. last(g) \in e.samples[g] /\ \A x \in e.samples[g] : x <= last(g)
      BY <2>1, MaxIs
    <2>4. QED
      BY <2>1, <2>2, <2>3
  <1>2. /\ first(0) \in Int /\ first(1) \in Int /\ last(0) \in Int /\ last(1) \in Int
    BY <1>1 DEF GPUs
  <1>3. CommonStart(e) = Max({first(0), first(1)}) /\ CommonEnd(e) = Min({last(0), last(1)})
    <2>1. {first(g) : g \in GPUs} = {first(0), first(1)}
      BY DEF GPUs
    <2>2. {last(g) : g \in GPUs} = {last(0), last(1)}
      BY DEF GPUs
    <2>3. QED
      BY <2>1, <2>2 DEF CommonStart, CommonEnd
  <1> HIDE DEF first, last
  <1>4. CommonStart(e) \in {first(0), first(1)} /\ CommonEnd(e) \in {last(0), last(1)}
    BY <1>2, <1>3, MaxOfTwo, MinOfTwo
  <1>5. QED
    BY <1>1, <1>4 DEF first, last

LEMMA OnlyNoOverlapIsInvalid ==
  ASSUME NEW e, IsEvidence(e), ~ValidRecord(CoverageRecord(e))
  PROVE  CommonEnd(e) < CommonStart(e)
  <1>1. HasInterval(e) /\ CoverageRecord(e).interval = <<CommonStart(e), CommonEnd(e)>>
    <2>1. CASE Reason(e) = "none"
      <3>1. HasInterval(e)
        BY <2>1 DEF Reason, HasInterval
      <3>2. QED
        BY <2>1, <3>1 DEF CoverageRecord, IncludedRecord
    <2>2. CASE Reason(e) # "none"
      BY <2>2 DEF CoverageRecord, ExcludedRecord, ValidRecord
    <2>3. QED
      BY <2>1, <2>2
  <1>2. BothSampled(e)
    BY <1>1 DEF HasInterval, TelemetryReason
  <1>3. CommonStart(e) \in Nat /\ CommonEnd(e) \in Nat
    BY <1>2, CommonIs DEF GPUs
  <1>4. QED
    BY <1>1, <1>3 DEF ValidRecord

(* A run that is sampled steadily through a long enough measured interval. *)
IsSteady(e) ==
  /\ e.measured # NoInterval
  /\ e.measured[2] - e.measured[1] >= PrimaryWindow + 2
  /\ SteadilySampled(e, 2)

LEMMA MeasuredType ==
  ASSUME NEW e, IsEvidence(e), IsSteady(e)
  PROVE  /\ e.measured[1] \in Nat /\ e.measured[2] \in Nat
         /\ PrimaryWindow \in Nat /\ PrimaryWindow >= 4
         /\ e.measured[2] >= e.measured[1] + PrimaryWindow + 2
         /\ \A g \in GPUs : e.samples[g] \in SUBSET Nat /\ IsFiniteSet(e.samples[g])
  <1>1. e.measured \in Nat \X Nat
    BY DEF IsEvidence, IsSteady, EvidenceOver
  <1>2. PrimaryWindow \in Nat /\ PrimaryWindow >= 4
    BY ExtractionAssumption
  <1>3. \A g \in GPUs : e.samples[g] \in SUBSET Nat /\ IsFiniteSet(e.samples[g])
    BY DEF IsEvidence, EvidenceOver
  <1>4. QED
    BY <1>1, <1>2, <1>3 DEF IsSteady

(* Within the interval each GPU has a sample in any two units of time. *)
LEMMA SteadySample ==
  ASSUME NEW e, IsEvidence(e), IsSteady(e), NEW g \in GPUs, NEW t \in Nat,
         e.measured[1] <= t, t + 1 <= e.measured[2]
  PROVE  \E x \in e.samples[g] : t <= x /\ x <= t + 1
  <1>1. t \in e.measured[1] .. e.measured[2] - 2 + 1
    BY MeasuredType
  <1>2. Within(e.samples[g], t, t + 2) # {}
    BY <1>1 DEF IsSteady, SteadilySampled
  <1>3. PICK x \in e.samples[g] : t <= x /\ x < t + 2
    BY <1>2 DEF Within
  <1>4. x \in Nat
    BY MeasuredType
  <1>5. QED
    BY <1>3, <1>4

(* In any two units the GPUs have samples that pair up. *)
LEMMA SteadyPair ==
  ASSUME NEW e, IsEvidence(e), IsSteady(e), NEW t \in Nat,
         e.measured[1] <= t, t + 1 <= e.measured[2]
  PROVE  \E x \in e.samples[0], u \in e.samples[1] :
           /\ t <= x /\ x <= t + 1 /\ t <= u /\ u <= t + 1
           /\ Distance(x, u) <= Tolerance
  <1>1. 0 \in GPUs /\ 1 \in GPUs /\ 1 - 0 = 1
    BY DEF GPUs
  <1>2. PICK x \in e.samples[0] : t <= x /\ x <= t + 1
    BY <1>1, SteadySample
  <1>3. x \in Nat /\ Tolerance \in Nat /\ e.samples[1] \subseteq Nat
    BY <1>1, MeasuredType, ExtractionAssumption
  <1>4. CASE Tolerance = 0
    <2>1. x \in Within(e.samples[0], e.measured[1], e.measured[2] + 1)
      BY <1>2, <1>3, MeasuredType DEF Within
    <2>2. PICK u \in e.samples[1] : Distance(x, u) <= Tolerance
      BY <1>1, <2>1 DEF IsSteady, SteadilySampled
    <2>3. u = x
      BY <1>3, <1>4, <2>2 DEF Distance
    <2>4. QED
      BY <1>2, <2>2, <2>3
  <1>5. CASE Tolerance >= 1
    <2>1. PICK u \in e.samples[1] : t <= u /\ u <= t + 1
      BY <1>1, SteadySample
    <2>2. Distance(x, u) <= Tolerance
      BY <1>2, <1>3, <1>5, <2>1 DEF Distance
    <2>3. QED
      BY <1>2, <2>1, <2>2
  <1>6. QED
    BY <1>3, <1>4, <1>5

(* The usable interval loses at most a unit at either end. *)
LEMMA SteadyInterval ==
  ASSUME NEW e, IsEvidence(e), IsSteady(e)
  PROVE  /\ BothSampled(e)
         /\ CommonStart(e) \in Nat /\ CommonEnd(e) \in Nat /\ CommonStart(e) < CommonEnd(e)
         /\ UsableStart(e) \in Nat /\ UsableEnd(e) \in Nat
         /\ e.measured[1] <= UsableStart(e) /\ UsableStart(e) <= e.measured[1] + 1
         /\ e.measured[2] - 1 <= UsableEnd(e) /\ UsableEnd(e) <= e.measured[2]
  <1> DEFINE a == e.measured[1]
             b == e.measured[2]
  <1>1. /\ a \in Nat /\ b \in Nat /\ PrimaryWindow \in Nat /\ PrimaryWindow >= 4
        /\ b >= a + PrimaryWindow + 2
    BY MeasuredType
  <1>2. ASSUME NEW g \in GPUs
        PROVE  /\ \E x \in e.samples[g] : x <= a + 1
               /\ \E x \in e.samples[g] : b - 1 <= x
    <2>1. \E x \in e.samples[g] : a <= x /\ x <= a + 1
      BY <1>1, SteadySample
    <2>2. b - 1 \in Nat /\ a <= b - 1 /\ (b - 1) + 1 <= b
      BY <1>1
    <2>3. \E x \in e.samples[g] : b - 1 <= x /\ x <= b - 1 + 1
      <3> DEFINE t == b - 1
      <3>1. t \in Nat /\ e.measured[1] <= t /\ t + 1 <= e.measured[2]
        BY <2>2
      <3> HIDE DEF t
      <3>2. \E x \in e.samples[g] : t <= x /\ x <= t + 1
        BY <3>1, SteadySample
      <3>3. QED
        BY <3>2 DEF t
    <2>4. QED
      BY <2>1, <2>3
  <1> HIDE DEF a, b
  <1>3. BothSampled(e)
    BY <1>2 DEF BothSampled
  <1>4. CommonStart(e) \in Nat /\ CommonEnd(e) \in Nat
    BY <1>3, CommonIs DEF GPUs
  <1>5. ASSUME NEW g \in GPUs
        PROVE  /\ Min(e.samples[g]) \in Nat /\ Max(e.samples[g]) \in Nat
               /\ Min(e.samples[g]) <= a + 1 /\ b - 1 <= Max(e.samples[g])
    <2>1. PICK x \in e.samples[g] : x <= a + 1
      BY <1>2
    <2>2. PICK y \in e.samples[g] : b - 1 <= y
      BY <1>2
    <2>3. /\ Min(e.samples[g]) \in Nat /\ Max(e.samples[g]) \in Nat
          /\ Min(e.samples[g]) <= x /\ y <= Max(e.samples[g])
      BY <1>3, CommonIs
    <2>4. x \in Nat /\ y \in Nat
      BY MeasuredType
    <2>5. QED
      BY <1>1, <2>1, <2>2, <2>3, <2>4
  <1>6. CommonStart(e) <= a + 1 /\ b - 1 <= CommonEnd(e)
    <2>1. \/ CommonStart(e) = Min(e.samples[0])
          \/ CommonStart(e) = Min(e.samples[1])
      BY <1>3, CommonIs
    <2>2. \/ CommonEnd(e) = Max(e.samples[0])
          \/ CommonEnd(e) = Max(e.samples[1])
      BY <1>3, CommonIs
    <2>3. QED
      BY <1>5, <2>1, <2>2 DEF GPUs
  <1>7. UsableStart(e) = Max({CommonStart(e), a}) /\ UsableEnd(e) = Min({CommonEnd(e), b})
    BY DEF IsSteady, UsableStart, UsableEnd, a, b
  <1>8. /\ UsableStart(e) \in {CommonStart(e), a} /\ a <= UsableStart(e)
        /\ UsableEnd(e) \in {CommonEnd(e), b} /\ UsableEnd(e) <= b
    <2>1. a \in Int /\ b \in Int /\ CommonStart(e) \in Int /\ CommonEnd(e) \in Int
      BY <1>1, <1>4
    <2>2. UsableStart(e) \in {CommonStart(e), a} /\ a <= UsableStart(e)
      BY <1>7, <2>1, MaxOfTwo, Zenon
    <2>3. UsableEnd(e) \in {CommonEnd(e), b} /\ UsableEnd(e) <= b
      BY <1>7, <2>1, MinOfTwo, Zenon
    <2>4. QED
      BY <2>2, <2>3
  <1>9. CommonStart(e) < CommonEnd(e)
    BY <1>1, <1>4, <1>6
  <1>10. /\ UsableStart(e) <= a + 1 /\ b - 1 <= UsableEnd(e)
         /\ UsableStart(e) \in Nat /\ UsableEnd(e) \in Nat
    BY <1>1, <1>4, <1>6, <1>8
  <1>11. QED
    BY <1>3, <1>4, <1>8, <1>9, <1>10 DEF a, b

(* Four units into the usable interval there are two pairs. *)
LEMMA SteadyPairs ==
  ASSUME NEW e, IsEvidence(e), IsSteady(e)
  PROVE  /\ UsableEnd(e) - UsableStart(e) >= PrimaryWindow
         /\ \E x, y \in e.samples[0], u, v \in e.samples[1] :
              /\ x < y /\ u < v /\ Distance(x, u) <= Tolerance /\ Distance(y, v) <= Tolerance
              /\ \A z \in {x, y, u, v} : UsableStart(e) <= z /\ z < UsableStart(e) + 4
  <1> DEFINE s == UsableStart(e)
  <1>1. /\ s \in Nat /\ UsableEnd(e) \in Nat
        /\ e.measured[1] <= s /\ s <= e.measured[1] + 1
        /\ e.measured[2] - 1 <= UsableEnd(e) /\ UsableEnd(e) <= e.measured[2]
    BY SteadyInterval
  <1>2. /\ e.measured[1] \in Nat /\ e.measured[2] \in Nat
        /\ PrimaryWindow \in Nat /\ PrimaryWindow >= 4
        /\ e.measured[2] >= e.measured[1] + PrimaryWindow + 2
        /\ e.samples[0] \subseteq Nat /\ e.samples[1] \subseteq Nat
    BY MeasuredType DEF GPUs
  <1>3. UsableEnd(e) - s >= PrimaryWindow
    BY <1>1, <1>2
  <1> HIDE DEF s
  <1>4. s + 1 <= e.measured[2] /\ s + 2 \in Nat /\ e.measured[1] <= s + 2
        /\ (s + 2) + 1 <= e.measured[2]
    BY <1>1, <1>2
  <1>5. PICK x \in e.samples[0], u \in e.samples[1] :
          /\ s <= x /\ x <= s + 1 /\ s <= u /\ u <= s + 1 /\ Distance(x, u) <= Tolerance
    BY <1>1, <1>4, SteadyPair
  <1>6. PICK y \in e.samples[0], v \in e.samples[1] :
          /\ s + 2 <= y /\ y <= (s + 2) + 1 /\ s + 2 <= v /\ v <= (s + 2) + 1
          /\ Distance(y, v) <= Tolerance
    BY <1>4, SteadyPair
  <1>7. x \in Nat /\ y \in Nat /\ u \in Nat /\ v \in Nat
    BY <1>2
  <1>8. x < y /\ u < v
    BY <1>1, <1>5, <1>6, <1>7
  <1>9. \A z \in {x, y, u, v} : s <= z /\ z < s + 4
    BY <1>1, <1>5, <1>6, <1>7
  <1>10. QED
    BY <1>3, <1>5, <1>6, <1>8, <1>9 DEF s

(* Hence the first primary window yields a row. *)
LEMMA SteadyRow ==
  ASSUME NEW e, IsEvidence(e), IsSteady(e)
  PROVE  /\ Cardinality(UsablePairs(e)) >= 2
         /\ UsableStart(e) \in FeatureRows(e, PrimaryWindow)
  <1> DEFINE s == UsableStart(e)
             in == [g \in GPUs |-> Within(e.samples[g], s, s + PrimaryWindow)]
             usable(g) == {t \in e.samples[g] : s <= t /\ t <= UsableEnd(e)}
  <1>1. UsableEnd(e) - s >= PrimaryWindow /\ s \in Nat /\ UsableEnd(e) \in Nat
    BY SteadyPairs, SteadyInterval
  <1>2. PrimaryWindow \in Nat /\ PrimaryWindow >= 4
    BY MeasuredType
  <1>3. \A g \in GPUs : e.samples[g] \in SUBSET Nat /\ IsFiniteSet(e.samples[g])
    BY MeasuredType
  <1> HIDE DEF s
  <1>4. PICK x \in e.samples[0], y \in e.samples[0], u \in e.samples[1], v \in e.samples[1] :
          /\ x < y /\ u < v /\ Distance(x, u) <= Tolerance /\ Distance(y, v) <= Tolerance
          /\ \A z \in {x, y, u, v} : s <= z /\ z < s + 4
    BY SteadyPairs DEF s
  <1>5. x \in Nat /\ y \in Nat /\ u \in Nat /\ v \in Nat
    BY <1>3 DEF GPUs
  <1>6. \A z \in {x, y, u, v} : s <= z /\ z < s + PrimaryWindow /\ z <= UsableEnd(e)
    <2>1. ASSUME NEW z \in {x, y, u, v}
          PROVE  s <= z /\ z < s + PrimaryWindow /\ z <= UsableEnd(e)
      <3>1. z \in Nat /\ s <= z /\ z < s + 4
        BY <1>4, <1>5
      <3>2. QED
        BY <1>1, <1>2, <3>1
    <2>2. QED
      BY <2>1
  <1>7. ASSUME NEW g \in GPUs
        PROVE  /\ Within(e.samples[g], s, s + PrimaryWindow) \in SUBSET Nat
               /\ IsFiniteSet(Within(e.samples[g], s, s + PrimaryWindow))
               /\ usable(g) \in SUBSET Nat /\ IsFiniteSet(usable(g))
    <2>1. /\ Within(e.samples[g], s, s + PrimaryWindow) \in SUBSET e.samples[g]
          /\ usable(g) \in SUBSET e.samples[g]
      BY DEF Within
    <2> HIDE DEF usable
    <2>2. QED
      BY <1>3, <2>1, FS_Subset
  <1>8. in[0] = Within(e.samples[0], s, s + PrimaryWindow)
        /\ in[1] = Within(e.samples[1], s, s + PrimaryWindow)
    BY DEF GPUs
  <1>9. x \in in[0] /\ y \in in[0] /\ u \in in[1] /\ v \in in[1]
    BY <1>6, <1>8 DEF Within
  <1>10. x \in usable(0) /\ y \in usable(0) /\ u \in usable(1) /\ v \in usable(1)
    BY <1>6
  <1>11. /\ in[0] \in SUBSET Nat /\ in[1] \in SUBSET Nat
         /\ IsFiniteSet(in[0]) /\ IsFiniteSet(in[1])
         /\ usable(0) \in SUBSET Nat /\ usable(1) \in SUBSET Nat
         /\ IsFiniteSet(usable(0)) /\ IsFiniteSet(usable(1))
    <2>1. 0 \in GPUs /\ 1 \in GPUs
      BY DEF GPUs
    <2> HIDE DEF in, usable
    <2>2. QED
      BY <1>7, <1>8, <2>1
  <1>12. YieldsRow(e, PrimaryWindow, s)
    <2> HIDE DEF in
    <2>1. Cardinality(AlignedPairs(in[0], in[1])) >= 2
      BY <1>4, <1>9, <1>11, TwoPairs
    <2>2. x # y /\ u # v
      BY <1>4, <1>5
    <2>3. Cardinality(in[0]) >= 2
      BY <1>9, <1>11, <2>2, TwoElements
    <2>4. Cardinality(in[1]) >= 2
      BY <1>9, <1>11, <2>2, TwoElements
    <2>5. \A g \in GPUs : Cardinality(in[g]) >= 2
      BY <2>3, <2>4 DEF GPUs
    <2>6. QED
      BY <2>1, <2>5 DEF YieldsRow, in
  <1>13. s \in WindowStarts(e, PrimaryWindow)
    <2>1. Stride(PrimaryWindow) \in Nat /\ Stride(PrimaryWindow) >= 1
      <3> DEFINE half == PrimaryWindow \div 2
      <3>1. half \in Int /\ Stride(PrimaryWindow) = Max({1, half})
        BY <1>2 DEF Stride
      <3> HIDE DEF half
      <3>2. 1 \in Int
        OBVIOUS
      <3>3. Max({1, half}) \in {1, half} /\ 1 <= Max({1, half})
        BY <3>1, <3>2, MaxOfTwo, Zenon
      <3>4. QED
        BY <3>1, <3>3
    <2>2. (s - s) % Stride(PrimaryWindow) = 0
      <3>1. s - s = 0
        BY <1>1
      <3>2. 0 % Stride(PrimaryWindow) = 0
        BY <2>1
      <3>3. QED
        BY <3>1, <3>2
    <2>3. s \in s .. UsableEnd(e) - PrimaryWindow
      BY <1>1, <1>2
    <2>4. QED
      BY <2>2, <2>3 DEF WindowStarts, s
  <1>14. s \in FeatureRows(e, PrimaryWindow)
    BY <1>12, <1>13 DEF FeatureRows
  <1>15. Cardinality(UsablePairs(e)) >= 2
    <2> DEFINE left == usable(0)
               right == usable(1)
    <2>1. UsablePairs(e) = AlignedPairs(left, right)
      BY DEF UsablePairs, s
    <2> HIDE DEF usable
    <2>2. Cardinality(AlignedPairs(left, right)) >= 2
      BY <1>4, <1>10, <1>11, TwoPairs
    <2>3. QED
      BY <2>1, <2>2
  <1>16. QED
    BY <1>14, <1>15 DEF s

LEMMA UsableDurationIs ==
  ASSUME NEW e, UsableStart(e) \in Nat, UsableEnd(e) \in Nat
  PROVE  UsableDuration(e) \in Int /\ UsableEnd(e) - UsableStart(e) <= UsableDuration(e)
  <1> DEFINE d == UsableEnd(e) - UsableStart(e)
  <1>1. d \in Int /\ UsableDuration(e) = Max({0, d})
    BY DEF UsableDuration
  <1> HIDE DEF d
  <1>2. 0 \in Int
    OBVIOUS
  <1>3. Max({0, d}) \in {0, d} /\ d <= Max({0, d})
    BY <1>1, <1>2, MaxOfTwo, Zenon
  <1>4. UsableDuration(e) \in Int /\ d <= UsableDuration(e)
    BY <1>1, <1>3
  <1>5. QED
    BY <1>4 DEF d

LEMMA SteadyRunIsIncluded ==
  ASSUME NEW e, IsEvidence(e), IsSteady(e), ManifestReason(e) = "none", e.telemetry = "valid"
  PROVE  PrimaryWindow \in CoverageRecord(e).windows
  <1>1. /\ BothSampled(e) /\ CommonStart(e) \in Nat /\ CommonEnd(e) \in Nat
        /\ CommonStart(e) < CommonEnd(e) /\ UsableStart(e) \in Nat /\ UsableEnd(e) \in Nat
    BY SteadyInterval
  <1>2. UsableEnd(e) - UsableStart(e) >= PrimaryWindow
    BY SteadyPairs
  <1>3. /\ Windows \subseteq Nat /\ IsFiniteSet(Windows) /\ PrimaryWindow \in Windows
    BY ExtractionAssumption
  <1>4. UsableDuration(e) >= Min(Windows)
    <2>1. UsableEnd(e) - UsableStart(e) \in Int
      BY <1>1
    <2>2. UsableDuration(e) \in Int /\ UsableEnd(e) - UsableStart(e) <= UsableDuration(e)
      BY <1>1, UsableDurationIs
    <2>3. Min(Windows) \in Nat /\ Min(Windows) <= PrimaryWindow
      BY <1>3, MinOfNats
    <2>4. QED
      BY <1>2, <1>3, <2>1, <2>2, <2>3
  <1>5. Cardinality(UsablePairs(e)) >= 2 /\ FeatureRows(e, PrimaryWindow) # {}
    BY SteadyRow
  <1>6. Cardinality(UsablePairs(e)) \in Nat
    <2> DEFINE usable(g) == {t \in e.samples[g] : UsableStart(e) <= t /\ t <= UsableEnd(e)}
               left == usable(0)
               right == usable(1)
    <2>1. left \in SUBSET Nat /\ right \in SUBSET Nat /\ IsFiniteSet(left) /\ IsFiniteSet(right)
      <3>1. /\ e.samples[0] \in SUBSET Nat /\ e.samples[1] \in SUBSET Nat
            /\ IsFiniteSet(e.samples[0]) /\ IsFiniteSet(e.samples[1])
        BY MeasuredType DEF GPUs
      <3>2. left \in SUBSET e.samples[0] /\ right \in SUBSET e.samples[1]
        OBVIOUS
      <3> HIDE DEF left, right
      <3>3. QED
        BY <3>1, <3>2, FS_Subset
    <2>2. UsablePairs(e) = AlignedPairs(left, right)
      BY DEF UsablePairs
    <2> HIDE DEF left, right
    <2>3. UsablePairs(e) \in SUBSET (left \X right) /\ IsMatching(UsablePairs(e))
      BY <2>1, <2>2, PairsAreGreatest DEF IsGreatest
    <2>4. {} \in SUBSET left
      OBVIOUS
    <2>5. QED
      BY <2>1, <2>3, <2>4, MatchingBound
  <1>7. IntervalReason(e) = "none"
    <2>1. ~(CommonEnd(e) <= CommonStart(e))
      BY <1>1
    <2>2. ~(UsableDuration(e) < Min(Windows))
      <3>1. UsableDuration(e) \in Int
        BY <1>1, UsableDurationIs
      <3>2. Min(Windows) \in Nat
        BY <1>3, MinOfNats
      <3>3. QED
        BY <1>4, <3>1, <3>2
    <2>3. ~(Cardinality(UsablePairs(e)) < 2)
      BY <1>5, <1>6
    <2>4. ~\A w \in Windows : FeatureRows(e, w) = {}
      BY <1>3, <1>5
    <2>5. QED
      BY <2>1, <2>2, <2>3, <2>4 DEF IntervalReason
  <1>8. TelemetryReason(e) = "none"
    BY <1>1 DEF TelemetryReason
  <1>9. Reason(e) = "none"
    BY <1>7, <1>8 DEF Reason
  <1>10. QED
    BY <1>3, <1>5, <1>9 DEF CoverageRecord, IncludedRecord

(* The invariant behind the theorem: an extraction raises only after it    *)
(* found an invalid record.                                                *)
AccountInv ==
  /\ ExtractedIsFound
  /\ stage = "raised" => \E s \in Slots : coverage[s] = Invalid

LEMMA AccountStep ==
  ASSUME AccountInv, [Next]_vars
  PROVE  AccountInv'
  <1>1. ExtractedIsFound'
    BY ExtractedStep DEF AccountInv
  <1>2. FinishExtraction \/ (stage' = stage /\ (stage = "extracting" \/ coverage' = coverage))
        \/ stage' \in {"idle", "analysed", "extracting", "saving", "collecting"}
    <2>1. CASE \/ ExtractRun \/ Analyse \/ Dismiss \/ SaveEvaluation \/ SkipSealed \/ UNCHANGED vars
      BY <2>1 DEF ExtractRun, Analyse, Dismiss, SaveEvaluation, SkipSealed, Cut, Ends, vars
    <2>2. ASSUME NEW loaded, NEW gate, NEW extraction, NEW plan, NEW release,
                 EvaluateDetector(loaded, gate, extraction, plan, release)
          PROVE  stage' \in {"idle", "saving"}
      BY <2>2 DEF EvaluateDetector, EvaluationRaises, Ends, Goes
    <2>3. ASSUME NEW kind, NEW session, NEW release, NEW plans,
                 WritePlan(kind, session, release, plans)
          PROVE  stage' \in {"idle", "collecting"}
      BY <2>3 DEF WritePlan, Cut, Ends, Goes
    <2>4. ASSUME NEW session, NEW approval, NEW final_approval, NEW release, NEW selection, NEW plan,
                 RunAdversarialMatrix(session, approval, final_approval, release, selection, plan)
          PROVE  stage' \in {"idle", "collecting"}
      BY <2>3, <2>4 DEF RunAdversarialMatrix, MatrixRaises, Ends
    <2>5. ASSUME NEW session, NEW approval, RunSegmentedSeries(session, approval)
          PROVE  stage' \in {"idle", "collecting"}
      BY <2>3, <2>5 DEF RunSegmentedSeries, MatrixRaises, Ends
    <2>6. ASSUME NEW kind, MakeRun(kind) \/ Complete(kind)
          PROVE  stage' \in {"idle", "collecting"}
      BY <2>6 DEF MakeRun, Complete, Cut, Ends
    <2>7. QED
      BY <2>1, <2>2, <2>4, <2>5, <2>6
         DEF Next, RunPeriodicSynchronizationStudy, MakeMatrixRun, MakeSegment, CompleteMatrix,
             CompleteSeries
  <1>3. CASE FinishExtraction
    BY <1>1, <1>3 DEF FinishExtraction, ResultIsValid, AccountInv
  <1>4. QED
    BY <1>1, <1>2, <1>3 DEF AccountInv

LEMMA AccountSuffices == AccountInv => EveryRunIsAccountedFor
  <1> SUFFICES ASSUME AccountInv, extracted # Absent, extracted.evidence # Absent
               PROVE  LET e == extracted.evidence
                      IN  /\ ~ValidRecord(extracted.record) => CommonEnd(e) < CommonStart(e)
                          /\ (/\ e.manifest = "valid" /\ e.own_corpus /\ e.exit_status = "completed"
                              /\ e.participation_valid /\ e.as_planned /\ e.telemetry = "valid"
                              /\ e.measured # NoInterval
                              /\ e.measured[2] - e.measured[1] >= PrimaryWindow + 2
                              /\ SteadilySampled(e, 2)) =>
                                PrimaryWindow \in extracted.record.windows
    BY DEF AccountInv, EveryRunIsAccountedFor
  <1> DEFINE e == extracted.evidence
  <1>1. IsEvidence(e) /\ extracted.record = CoverageRecord(e)
    BY EvidenceIs DEF AccountInv, IsEvidence
  <1> HIDE DEF e
  <1>2. ~ValidRecord(extracted.record) => CommonEnd(e) < CommonStart(e)
    BY <1>1, OnlyNoOverlapIsInvalid
  <1>3. ASSUME e.manifest = "valid", e.own_corpus, e.exit_status = "completed",
               e.participation_valid, e.as_planned, e.telemetry = "valid",
               e.measured # NoInterval, e.measured[2] - e.measured[1] >= PrimaryWindow + 2,
               SteadilySampled(e, 2)
        PROVE  PrimaryWindow \in extracted.record.windows
    <2>1. ManifestReason(e) = "none" /\ IsSteady(e)
      BY <1>3 DEF ManifestReason, IsSteady
    <2>2. QED
      BY <1>1, <1>3, <2>1, SteadyRunIsIncluded
  <1>4. QED
    BY <1>2, <1>3 DEF e

(* extract_feature_result drops no run that was sampled as it should be, and *)
(* raises only over telemetry without any overlap of the two GPUs: for all *)
(* window lengths, tolerances, warmups and times of the samples.           *)
THEOREM AccountCorrect == Spec => []EveryRunIsAccountedFor
  <1>1. Init => AccountInv
    BY ExtractedInit DEF Init, AccountInv
  <1>2. AccountInv /\ [Next]_vars => AccountInv'
    BY AccountStep
  <1>3. AccountInv => EveryRunIsAccountedFor
    BY AccountSuffices
  <1>4. QED
    BY <1>1, <1>2, <1>3, PTL DEF Spec

-----------------------------------------------------------------------------
(* Splits *)

(* The number of elements before x. *)
Rank(S, x) == Cardinality({y \in S : y < x})

LEMMA RankIs ==
  ASSUME NEW S, IsFiniteSet(S), S \subseteq Int, NEW x \in S
  PROVE  Rank(S, x) \in Nat /\ Rank(S, x) < Cardinality(S) /\ Cardinality(S) \in Nat
  <1> DEFINE before == {y \in S : y < x}
  <1>1. IsFiniteSet(S \ {x}) /\ Cardinality(S \ {x}) = Cardinality(S) - 1
    BY FS_RemoveElement
  <1>2. before \subseteq S \ {x}
    OBVIOUS
  <1>3. /\ Rank(S, x) = Cardinality(before)
        /\ Cardinality(before) <= Cardinality(S \ {x}) /\ Cardinality(before) \in Nat
        /\ Cardinality(S) \in Nat
    <2> HIDE DEF before
    <2>1. /\ IsFiniteSet(before) /\ Cardinality(before) <= Cardinality(S \ {x})
      BY <1>1, <1>2, FS_Subset
    <2>2. Cardinality(before) \in Nat /\ Cardinality(S) \in Nat
      BY <2>1, FS_CardinalityType
    <2>3. QED
      BY <2>1, <2>2 DEF before, Rank
  <1>4. QED
    BY <1>1, <1>3

(* Every place in the ascending order of a finite set is taken. *)
LEMMA RankIsOnto ==
  ASSUME NEW S, IsFiniteSet(S), S \subseteq Int, NEW k \in Nat, k < Cardinality(S)
  PROVE  \E x \in S : Rank(S, x) = k
  <1> DEFINE T == {n \in Nat : \E R : /\ R \subseteq Int /\ IsFiniteSet(R)
                                      /\ Cardinality(R) = n /\ k < n
                                      /\ ~\E x \in R : Rank(R, x) = k}
  <1>1. ASSUME T # {} PROVE FALSE
    <2>1. T \subseteq Nat
      OBVIOUS
    <2>2. PICK n \in T : \A m \in T : n <= m
      <3> HIDE DEF T
      <3>1. QED
        BY <1>1, <2>1, LeastNumber
    <2>3. PICK R : /\ R \subseteq Int /\ IsFiniteSet(R) /\ Cardinality(R) = n /\ k < n
                   /\ ~\E x \in R : Rank(R, x) = k
      OBVIOUS
    <2>4. R # {}
      BY <2>3, FS_EmptySet
    <2>5. PICK z \in R : \A y \in R : y <= z
      BY <2>3, <2>4, Greatest
    <2> DEFINE Q == R \ {z}
    <2>6. IsFiniteSet(Q) /\ Cardinality(Q) = n - 1 /\ Q \subseteq Int
      BY <2>3, FS_RemoveElement
    <2>7. {y \in R : y < z} = Q
      <3>1. ASSUME NEW y \in R PROVE y < z <=> y # z
        BY <2>3, <2>5
      <3>2. QED
        BY <3>1
    <2>8. CASE k = n - 1
      <3>1. Rank(R, z) = n - 1
        BY <2>6, <2>7 DEF Rank
      <3>2. QED
        BY <2>3, <2>8, <3>1
    <2>9. CASE k # n - 1
      <3>1. n \in Nat /\ n - 1 \in Nat /\ k < n - 1 /\ n - 1 \notin T
        BY <2>2, <2>3, <2>9
      <3>2. PICK x \in Q : Rank(Q, x) = k
        BY <2>6, <3>1
      <3>3. {y \in R : y < x} = {y \in Q : y < x}
        BY <2>3, <2>5
      <3>4. Rank(R, x) = k
        BY <3>2, <3>3 DEF Rank
      <3>5. QED
        BY <2>3, <3>4
    <2>10. QED
      BY <2>8, <2>9
  <1>2. Cardinality(S) \in Nat
    BY FS_CardinalityType
  <1>3. QED
    BY <1>1, <1>2

(* The fold in which a group is tested. *)
FoldOf(groups, mode, n, field, id) ==
  LET place == Rank(GroupIds(groups, field), id)
  IN  IF mode = "leave_one_group_out" THEN place ELSE place % n

LEMMA GroupIdsAre ==
  ASSUME NEW groups \in AnalystGroups, NEW field \in {"run", "session"}
  PROVE  IsFiniteSet(GroupIds(groups, field)) /\ GroupIds(groups, field) \subseteq Int
  <1> DEFINE D == DOMAIN groups
             f == [r \in D |-> GroupOf(groups, field, r)]
  <1>1. IsFiniteSet(D) /\ D \subseteq Int /\ \A r \in D : groups[r].session \in Int
    BY AnalystAssumption
  <1>2. \A r \in D : GroupOf(groups, field, r) \in Int
    BY <1>1 DEF GroupOf
  <1>3. f \in Surjection(D, GroupIds(groups, field))
    BY DEF Surjection, GroupIds
  <1>4. IsFiniteSet(GroupIds(groups, field))
    BY <1>1, <1>3, FS_Surjection
  <1>5. QED
    BY <1>2, <1>4 DEF GroupIds

(* The folds of cross-validation, by the fold of each group. *)
LEMMA FoldsAre ==
  ASSUME NEW groups, NEW mode, NEW n, NEW field,
         CrossValidationFolds(groups, mode, n, field) # <<>>
  PROVE  LET folds == CrossValidationFolds(groups, mode, n, field)
         IN  /\ DOMAIN folds = 1 .. FoldCount(groups, mode, n, field)
             /\ \A i \in DOMAIN folds :
                  /\ folds[i].test =
                       {r \in DOMAIN groups :
                          FoldOf(groups, mode, n, field, GroupOf(groups, field, r)) = i - 1}
                  /\ folds[i].train = DOMAIN groups \ folds[i].test
             /\ ~(Cardinality(GroupIds(groups, field)) < 2)
             /\ mode = "group_kfold" => n \in 2 .. Cardinality(GroupIds(groups, field))
  <1> DEFINE folds == CrossValidationFolds(groups, mode, n, field)
             test(i) == {r \in DOMAIN groups :
                           GroupOf(groups, field, r) \in TestGroups(groups, mode, n, field, i - 1)}
  <1>1. /\ ~(Cardinality(GroupIds(groups, field)) < 2)
        /\ mode = "group_kfold" => n \in 2 .. Cardinality(GroupIds(groups, field))
        /\ folds = [i \in 1 .. FoldCount(groups, mode, n, field) |->
                      [test |-> test(i), train |-> DOMAIN groups \ test(i)]]
    BY DEF CrossValidationFolds
  <1>2. ASSUME NEW i, NEW r \in DOMAIN groups
        PROVE  (GroupOf(groups, field, r) \in TestGroups(groups, mode, n, field, i - 1))
                 <=> FoldOf(groups, mode, n, field, GroupOf(groups, field, r)) = i - 1
    <2>1. GroupOf(groups, field, r) \in GroupIds(groups, field)
      BY DEF GroupIds
    <2>2. QED
      BY <2>1 DEF TestGroups, FoldOf, Rank
  <1>3. \A i : test(i) = {r \in DOMAIN groups :
                            FoldOf(groups, mode, n, field, GroupOf(groups, field, r)) = i - 1}
    BY <1>2
  <1> HIDE DEF test
  <1>4. DOMAIN folds = 1 .. FoldCount(groups, mode, n, field)
    BY <1>1
  <1>5. \A i \in DOMAIN folds :
          folds[i].test = test(i) /\ folds[i].train = DOMAIN groups \ test(i)
    BY <1>1
  <1> HIDE DEF folds
  <1>6. QED
    BY <1>1, <1>3, <1>4, <1>5 DEF folds

LEMMA FoldsSound ==
  ASSUME NEW groups \in AnalystGroups, NEW mode \in {"group_kfold", "leave_one_group_out"},
         NEW n, NEW field \in {"run", "session"}
  PROVE  FoldsAreSound(groups, field, CrossValidationFolds(groups, mode, n, field))
  <1> DEFINE folds == CrossValidationFolds(groups, mode, n, field)
             ids == GroupIds(groups, field)
             count == FoldCount(groups, mode, n, field)
             fold(id) == FoldOf(groups, mode, n, field, id)
             group(r) == GroupOf(groups, field, r)
  <1> SUFFICES ASSUME folds # <<>> PROVE FoldsAreSound(groups, field, folds)
    BY DEF FoldsAreSound
  <1>1. IsFiniteSet(ids) /\ ids \subseteq Int /\ Cardinality(ids) \in Nat
    BY GroupIdsAre, FS_CardinalityType
  <1>2. /\ DOMAIN folds = 1 .. count
        /\ \A i \in DOMAIN folds :
             /\ folds[i].test = {r \in DOMAIN groups : fold(group(r)) = i - 1}
             /\ folds[i].train = DOMAIN groups \ folds[i].test
        /\ mode = "group_kfold" => n \in 2 .. Cardinality(ids)
    BY FoldsAre
  <1>3. \A r \in DOMAIN groups : group(r) \in ids
    BY DEF GroupIds
  <1>4. \A id \in ids : \E r \in DOMAIN groups : group(r) = id
    BY DEF GroupIds
  <1>5. count \in Nat /\ count <= Cardinality(ids)
    BY <1>1, <1>2 DEF FoldCount
  <1>6. ASSUME NEW id \in ids
        PROVE  fold(id) \in Nat /\ fold(id) < count
    <2>1. Rank(ids, id) \in Nat /\ Rank(ids, id) < Cardinality(ids)
      BY <1>1, RankIs
    <2>2. CASE mode = "leave_one_group_out"
      BY <2>1, <2>2 DEF FoldOf, FoldCount
    <2>3. CASE mode = "group_kfold"
      <3>1. n \in Nat /\ n > 0 /\ count = n /\ fold(id) = Rank(ids, id) % n
        BY <1>1, <1>2, <2>3 DEF FoldOf, FoldCount
      <3>2. QED
        BY <2>1, <3>1
    <2>4. QED
      BY <2>2, <2>3
  <1>7. ASSUME NEW k \in Nat, k < count
        PROVE  \E id \in ids : fold(id) = k
    <2>1. PICK id \in ids : Rank(ids, id) = k
      BY <1>1, <1>5, <1>7, RankIsOnto
    <2>2. CASE mode = "leave_one_group_out"
      BY <2>1, <2>2 DEF FoldOf
    <2>3. CASE mode = "group_kfold"
      <3>1. n \in Nat /\ n > 0 /\ count = n /\ fold(id) = k % n
        BY <1>1, <1>2, <2>1, <2>3 DEF FoldOf, FoldCount
      <3>2. k % n = k
        BY <1>7, <3>1
      <3>3. QED
        BY <3>1, <3>2
    <2>4. QED
      BY <2>2, <2>3
  <1> HIDE DEF folds, ids, count, fold, group
  <1>8. ASSUME NEW r \in DOMAIN groups
        PROVE  Cardinality({i \in DOMAIN folds : r \in folds[i].test}) = 1
    <2> DEFINE place == fold(group(r)) + 1
    <2>1. fold(group(r)) \in Nat /\ fold(group(r)) < count
      BY <1>3, <1>6
    <2>2. place \in DOMAIN folds
      BY <1>2, <1>5, <2>1
    <2>3. ASSUME NEW i \in DOMAIN folds PROVE r \in folds[i].test <=> i = place
      <3>1. i \in Int
        BY <1>2, <1>5
      <3>2. r \in folds[i].test <=> fold(group(r)) = i - 1
        BY <1>2
      <3>3. QED
        BY <2>1, <3>1, <3>2
    <2> HIDE DEF place
    <2>4. {i \in DOMAIN folds : r \in folds[i].test} = {place}
      BY <2>2, <2>3
    <2>5. Cardinality({place}) = 1
      BY FS_Singleton
    <2>6. QED
      BY <2>4, <2>5, Zenon
  <1>9. ASSUME NEW i \in DOMAIN folds
        PROVE  /\ folds[i].test # {} /\ folds[i].train = DOMAIN groups \ folds[i].test
               /\ field # "run" => Values(groups, folds[i].test, field)
                                     \cap Values(groups, folds[i].train, field) = {}
    <2>1. i - 1 \in Nat /\ i - 1 < count
      BY <1>2, <1>5
    <2>2. PICK id \in ids : fold(id) = i - 1
      <3> DEFINE k == i - 1
      <3>1. k \in Nat /\ k < count
        BY <2>1
      <3> HIDE DEF k
      <3>2. \E id \in ids : fold(id) = k
        BY <3>1, <1>7
      <3>3. QED
        BY <3>2 DEF k
    <2>3. PICK r \in DOMAIN groups : group(r) = id
      BY <1>4
    <2>4. r \in folds[i].test
      BY <1>2, <2>2, <2>3
    <2>5. ASSUME field # "run", NEW q \in folds[i].test, NEW p \in folds[i].train,
                 groups[q][field] = groups[p][field]
          PROVE  FALSE
      <3>1. group(q) = group(p)
        BY <2>5 DEF GroupOf, group
      <3>2. /\ q \in DOMAIN groups /\ fold(group(q)) = i - 1
            /\ p \in DOMAIN groups /\ p \notin folds[i].test
        BY <1>2
      <3>3. QED
        BY <1>2, <3>1, <3>2
    <2>6. QED
      BY <1>2, <2>4, <2>5 DEF Values
  <1>10. QED
    BY <1>8, <1>9 DEF FoldsAreSound

LEMMA SplitSound ==
  ASSUME NEW groups, NEW mode, NEW value, NEW a \in SplitPlans(groups, mode, value, AllFamilies(groups))
  PROVE  SplitIsSound(mode, value, groups, a)
  <1> DEFINE required == AllFamilies(groups)
             diagnostic == {"family_holdout", "configuration_holdout"}
  <1>1. CASE mode \in diagnostic
    <2> DEFINE field == IF mode = "family_holdout" THEN "family" ELSE "config"
               heldout == {r \in DOMAIN groups : groups[r][field] = value}
    <2>1. a \in DiagnosticHoldoutAssignments(groups, field, value)
      BY <1>1 DEF SplitPlans
    <2>2. PICK draw : a = [r \in DOMAIN groups |->
                             CASE r \in heldout -> "test"
                               [] r \in draw    -> "validation"
                               [] OTHER         -> "train"]
                      /\ draw \in ValidationDraws(groups, DOMAIN groups \ heldout)
      BY <2>1 DEF DiagnosticHoldoutAssignments
    <2>3. draw \cap heldout = {}
      BY <2>2 DEF ValidationDraws
    <2>4. DOMAIN a = DOMAIN groups
      BY <2>2
    <2>5. ASSUME NEW r \in DOMAIN groups PROVE a[r] = "test" <=> r \in heldout
      <3>1. a[r] = CASE r \in heldout -> "test"
                     [] r \in draw    -> "validation"
                     [] OTHER         -> "train"
        BY <2>2
      <3>2. CASE r \in heldout
        BY <2>3, <3>1, <3>2
      <3>3. CASE r \notin heldout
        BY <3>1, <3>3
      <3>4. QED
        BY <3>2, <3>3
    <2>6. In(a, "test") = heldout
      BY <2>4, <2>5 DEF In
    <2>7. QED
      BY <1>1, <2>6 DEF SplitIsSound
  <1>2. CASE mode \notin diagnostic
    <2>1. PrimaryIsValid(groups, required, a)
      BY <1>2 DEF SplitPlans
    <2>2. ASSUME mode = "session_holdout", NEW q \in DOMAIN groups, NEW r \in DOMAIN groups,
                 groups[q].session = groups[r].session
          PROVE  a[q] = a[r]
      <3>1. a \in SessionAssignments(groups, required)
        BY <2>2 DEF SplitPlans
      <3>2. PICK test, validation : a = BySession(groups, test, validation)
        BY <3>1 DEF SessionAssignments
      <3>3. QED
        BY <2>2, <3>2 DEF BySession
    <2>3. QED
      BY <1>2, <2>1, <2>2 DEF SplitIsSound, PrimaryIsValid
  <1>3. QED
    BY <1>1, <1>2

(* What an analyst asked and was answered. *)
AskedForSplit(asked, groups, mode, value) ==
  /\ asked.kind = "split" /\ asked.groups = groups
  /\ asked.mode = mode /\ asked.value = value
  /\ asked.answer \in SplitPlans(groups, mode, value, AllFamilies(groups))

AskedForFolds(asked, groups, mode, n, field) ==
  /\ asked.kind = "folds" /\ asked.groups = groups /\ asked.field = field
  /\ asked.answer = CrossValidationFolds(groups, mode, n, field)

(* An analyst was answered by one of the planners. *)
AnalysisIsAnswered ==
  analysis # Absent =>
    \E groups \in AnalystGroups :
      \/ \E mode, value : AskedForSplit(analysis, groups, mode, value)
      \/ \E mode \in {"group_kfold", "leave_one_group_out"}, field \in {"run", "session"} : \E n :
           AskedForFolds(analysis, groups, mode, n, field)

(* An evaluation is one of a split that the planner gave. *)
EvaluationIsSplit == evaluation # Absent => evaluation.split \in PrimarySplits

SplitsInv == TypeOK /\ AnalysisIsAnswered /\ EvaluationIsSplit

LEMMA SplitsSuffice == SplitsInv => SplitsAreSound
  <1> SUFFICES ASSUME SplitsInv PROVE SplitsAreSound
    OBVIOUS
  <1>1. ASSUME analysis # Absent
        PROVE  IF analysis.kind = "split"
               THEN SplitIsSound(analysis.mode, analysis.value, analysis.groups, analysis.answer)
               ELSE FoldsAreSound(analysis.groups, analysis.field, analysis.answer)
    <2>1. PICK groups \in AnalystGroups :
            \/ \E mode, value : AskedForSplit(analysis, groups, mode, value)
            \/ \E mode \in {"group_kfold", "leave_one_group_out"}, field \in {"run", "session"} : \E n :
                 AskedForFolds(analysis, groups, mode, n, field)
      BY <1>1 DEF SplitsInv, AnalysisIsAnswered
    <2>2. ASSUME NEW mode, NEW value, AskedForSplit(analysis, groups, mode, value)
          PROVE  /\ analysis.kind = "split"
                 /\ SplitIsSound(analysis.mode, analysis.value, analysis.groups, analysis.answer)
      BY <2>2, SplitSound DEF AskedForSplit
    <2>3. ASSUME NEW mode \in {"group_kfold", "leave_one_group_out"}, NEW n,
                 NEW field \in {"run", "session"}, AskedForFolds(analysis, groups, mode, n, field)
          PROVE  /\ analysis.kind = "folds"
                 /\ FoldsAreSound(analysis.groups, analysis.field, analysis.answer)
      BY <2>3, FoldsSound DEF AskedForFolds
    <2>4. QED
      BY <2>1, <2>2, <2>3
  <1>2. ASSUME evaluation # Absent
        PROVE  LET groups == GroupsOf(BinaryRuns)
               IN  PartsAreComplete(groups, AllFamilies(groups), evaluation.split)
    <2>1. evaluation.split \in PrimarySplits
      BY <1>2 DEF SplitsInv, EvaluationIsSplit
    <2>2. QED
      BY <2>1 DEF PrimarySplits, SplitPlans, PrimaryIsValid
  <1>3. QED
    BY <1>1, <1>2 DEF SplitsAreSound

LEMMA AnalysisStep ==
  ASSUME AnalysisIsAnswered, [Next]_vars
  PROVE  AnalysisIsAnswered'
  <1>1. Analyse \/ analysis' = analysis \/ analysis' = Absent
    BY DEF Next, vars, ExtractRun, FinishExtraction, Dismiss, EvaluateDetector, SaveEvaluation,
       RunAdversarialMatrix, RunSegmentedSeries, RunPeriodicSynchronizationStudy, SkipSealed,
       MakeMatrixRun, CompleteMatrix, MakeSegment, CompleteSeries, MakeRun, Complete
  <1>2. CASE analysis' = analysis \/ analysis' = Absent
    BY <1>2 DEF AnalysisIsAnswered, AskedForSplit, AskedForFolds
  <1>3. CASE Analyse
    <2>1. PICK groups \in AnalystGroups :
            \/ \E mode, value : AskForSplit(groups, mode, value)
            \/ AskForFolds(groups)
      BY <1>3 DEF Analyse
    <2>2. ASSUME NEW mode, NEW value, AskForSplit(groups, mode, value)
          PROVE  AskedForSplit(analysis', groups, mode, value)
      BY <2>2 DEF AskForSplit, AskedForSplit
    <2>3. ASSUME AskForFolds(groups)
          PROVE  \E mode \in {"group_kfold", "leave_one_group_out"}, field \in {"run", "session"} : \E n :
                   AskedForFolds(analysis', groups, mode, n, field)
      <3>1. PICK mode \in {"group_kfold", "leave_one_group_out"} :
              \E n \in 2 .. Cardinality(DOMAIN groups) : \E field \in {"run", "session"} :
                analysis' = [kind |-> "folds", groups |-> groups, field |-> field,
                             answer |-> CrossValidationFolds(groups, mode, n, field)]
        BY <2>3, Zenon DEF AskForFolds
      <3>2. PICK n \in 2 .. Cardinality(DOMAIN groups) : \E field \in {"run", "session"} :
              analysis' = [kind |-> "folds", groups |-> groups, field |-> field,
                           answer |-> CrossValidationFolds(groups, mode, n, field)]
        BY <3>1
      <3>3. PICK field \in {"run", "session"} :
              analysis' = [kind |-> "folds", groups |-> groups, field |-> field,
                           answer |-> CrossValidationFolds(groups, mode, n, field)]
        BY <3>2
      <3>4. AskedForFolds(analysis', groups, mode, n, field)
        BY <3>3 DEF AskedForFolds
      <3>5. QED
        BY <3>4
    <2>4. QED
      BY <2>1, <2>2, <2>3 DEF AnalysisIsAnswered, AskedForSplit, AskedForFolds
  <1>4. QED
    BY <1>1, <1>2, <1>3

LEMMA EvaluationStep ==
  ASSUME TypeOK, EvaluationIsSplit, [Next]_vars
  PROVE  EvaluationIsSplit'
  <1>1. CASE UNCHANGED vars
    BY <1>1 DEF vars, EvaluationIsSplit, PrimarySplits, GroupsOf, AllFamilies, BinaryRuns, PrimaryRuns
  <1>2. CASE Next
    <2>1. SUFFICES ASSUME evaluation' # Absent PROVE EvaluationIsSplit'
      BY DEF EvaluationIsSplit
    <2>2. TypeOK'
      BY <1>2, TypeStep
    <2>3. stage' = "saving"
      BY <2>1, <2>2 DEF TypeOK
    <2>4. PICK loaded, gate, extraction, plan, release :
            EvaluateDetector(loaded, gate, extraction, plan, release)
      <3>1. CASE \/ ExtractRun \/ FinishExtraction \/ Analyse \/ Dismiss \/ SaveEvaluation \/ SkipSealed
        BY <2>3, <3>1 DEF ExtractRun, FinishExtraction, Analyse, Dismiss, SaveEvaluation, SkipSealed,
           Cut, Ends
      <3>2. ASSUME NEW kind, NEW session, NEW release, NEW plans,
                   WritePlan(kind, session, release, plans)
            PROVE  stage' # "saving"
        BY <3>2 DEF WritePlan, Cut, Ends, Goes
      <3>3. ASSUME NEW session, NEW approval, NEW final_approval, NEW release, NEW selection,
                   NEW plan,
                   RunAdversarialMatrix(session, approval, final_approval, release, selection, plan)
            PROVE  stage' # "saving"
        BY <3>2, <3>3 DEF RunAdversarialMatrix, MatrixRaises, Ends
      <3>4. ASSUME NEW session, NEW approval, RunSegmentedSeries(session, approval)
            PROVE  stage' # "saving"
        BY <3>2, <3>4 DEF RunSegmentedSeries, MatrixRaises, Ends
      <3>5. ASSUME NEW kind, MakeRun(kind) \/ Complete(kind)
            PROVE  stage' # "saving"
        BY <3>5 DEF MakeRun, Complete, Cut, Ends
      <3>6. QED
        BY <1>2, <2>3, <3>1, <3>3, <3>4, <3>5
           DEF Next, RunPeriodicSynchronizationStudy, MakeMatrixRun, MakeSegment, CompleteMatrix,
               CompleteSeries
    <2>5. coverage' = coverage
      BY <2>4 DEF EvaluateDetector
    <2>6. PrimarySplits' = PrimarySplits
      BY <2>5 DEF PrimarySplits, GroupsOf, AllFamilies, BinaryRuns, PrimaryRuns
    <2>7. evaluation'.split \in PrimarySplits
      <3>1. ~\E cause : EvaluationRaises(cause)
        BY <2>3 DEF EvaluationRaises, Ends
      <3>2. PICK split \in PrimarySplits :
              evaluation' = [split    |-> split,
                             rows     |-> AdversarialRows(extraction),
                             released |-> release,
                             frozen   |-> HeldOutFamilies(plan, split,
                                            AdversarialRows(extraction), release)]
        BY <2>4, <3>1 DEF EvaluateDetector
      <3>3. evaluation'.split = split
        BY <3>2
      <3>4. QED
        BY <3>3
    <2>8. QED
      BY <2>6, <2>7 DEF EvaluationIsSplit
  <1>3. QED
    BY <1>1, <1>2

(* make_split_plan, assign_cross_validation_folds and the split of an       *)
(* evaluation leak nothing, for all groups, fractions and numbers of folds. *)
THEOREM SplitsCorrect == Spec => []SplitsAreSound
  <1>1. Init => SplitsInv
    BY TypeInit DEF Init, SplitsInv, AnalysisIsAnswered, EvaluationIsSplit
  <1>2. SplitsInv /\ [Next]_vars => SplitsInv'
    BY TypeStep, AnalysisStep, EvaluationStep DEF SplitsInv
  <1>3. SplitsInv => SplitsAreSound
    BY SplitsSuffice
  <1>4. QED
    BY <1>1, <1>2, <1>3, PTL DEF Spec

-----------------------------------------------------------------------------
(* The stratified split of large strata *)

LEMMA ShareIs ==
  ASSUME NEW n \in Nat, NEW tenths \in 1 .. 9
  PROVE  Share(n, tenths) \in Nat /\ Share(n, tenths) >= 1
  <1> DEFINE m == n * tenths
             r == RoundTenths(m)
  <1>1. m \in Nat
    OBVIOUS
  <1>2. r \in Int
    <2> HIDE DEF m
    <2>1. m \div 10 \in Int
      BY <1>1
    <2>2. QED
      BY <2>1 DEF RoundTenths
  <1>3. Share(n, tenths) = Max({1, r})
    BY DEF Share
  <1> HIDE DEF r
  <1>4. 1 \in Int
    OBVIOUS
  <1>5. Max({1, r}) \in {1, r} /\ 1 <= Max({1, r})
    BY <1>2, <1>4, MaxOfTwo, Zenon
  <1>6. QED
    BY <1>2, <1>3, <1>5

(* Of a stratum of three runs or more each part gets one at least. *)
LEMMA CountsLeaveARun ==
  ASSUME NEW n \in Nat, n >= 3
  PROVE  /\ TestCount(n) \in Nat /\ ValidationCount(n) \in Nat
         /\ TestCount(n) >= 1 /\ ValidationCount(n) >= 1
         /\ TestCount(n) + ValidationCount(n) <= n - 1
  <1> DEFINE t == Share(n, TestTenths)
             v == Share(n, ValidationTenths)
             over == t + v - (n - 1)
             excess == Excess(n)
             rest == v - excess
             vc == ValidationCount(n)
  <1>1. t \in Nat /\ t >= 1 /\ v \in Nat /\ v >= 1
    BY SplitAssumption, ShareIs
  <1>2. TestCount(n) = t - (excess - (v - vc))
    BY DEF TestCount
  <1> HIDE DEF t, v, vc
  <1>3. over \in Int /\ excess = Max({0, over})
    BY <1>1 DEF Excess, t, v
  <1> HIDE DEF excess
  <1>4. excess \in {0, over} /\ 0 <= excess /\ over <= excess
    <2> HIDE DEF over
    <2>1. 0 \in Int
      OBVIOUS
    <2>2. QED
      BY <1>3, <2>1, MaxOfTwo, Zenon
  <1>5. rest \in Int /\ vc = Max({1, rest})
    BY <1>1, <1>3, <1>4 DEF ValidationCount, v, vc, excess
  <1>6. vc \in {1, rest} /\ 1 <= vc /\ rest <= vc
    <2> HIDE DEF rest
    <2>1. 1 \in Int
      OBVIOUS
    <2>2. QED
      BY <1>5, <2>1, MaxOfTwo, Zenon
  <1>7. QED
    BY <1>1, <1>2, <1>3, <1>4, <1>5, <1>6 DEF vc

(* A finite set has a subset of every smaller size. *)
LEMMA SubsetOfSize ==
  ASSUME NEW S, IsFiniteSet(S), NEW k \in Nat, k <= Cardinality(S)
  PROVE  \E U \in SUBSET S : Cardinality(U) = k
  <1> DEFINE T == {n \in Nat : \E R : /\ IsFiniteSet(R) /\ Cardinality(R) = n /\ k <= n
                                      /\ ~\E U \in SUBSET R : Cardinality(U) = k}
  <1>1. ASSUME T # {} PROVE FALSE
    <2>1. T \subseteq Nat
      OBVIOUS
    <2>2. PICK n \in T : \A m \in T : n <= m
      <3> HIDE DEF T
      <3>1. QED
        BY <1>1, <2>1, LeastNumber
    <2>3. PICK R : /\ IsFiniteSet(R) /\ Cardinality(R) = n /\ k <= n
                   /\ ~\E U \in SUBSET R : Cardinality(U) = k
      OBVIOUS
    <2>4. n \in Nat /\ k < n
      <3>1. k # n
        BY <2>3
      <3>2. QED
        BY <2>3, <3>1
    <2>5. R # {}
      BY <2>3, <2>4, FS_EmptySet
    <2>6. PICK z \in R : TRUE
      BY <2>5
    <2> DEFINE Q == R \ {z}
    <2>7. IsFiniteSet(Q) /\ Cardinality(Q) = n - 1
      BY <2>3, FS_RemoveElement
    <2>8. n - 1 \in Nat /\ k <= n - 1 /\ n - 1 \notin T
      BY <2>2, <2>4
    <2>9. PICK U \in SUBSET Q : Cardinality(U) = k
      BY <2>7, <2>8
    <2>10. QED
      BY <2>3, <2>9
  <1>2. Cardinality(S) \in Nat
    BY FS_CardinalityType
  <1>3. QED
    BY <1>1, <1>2

(* A large stratum can be assigned, and then each part has a run of it. *)
LEMMA AssignmentExists ==
  ASSUME NEW runs, IsFiniteSet(runs), Cardinality(runs) >= 3
  PROVE  StratumAssignments(runs) # {}
  <1> DEFINE n == Cardinality(runs)
             t == TestCount(n)
             v == ValidationCount(n)
  <1>1. n \in Nat
    BY FS_CardinalityType
  <1>2. t \in Nat /\ v \in Nat /\ t + v <= n - 1
    BY <1>1, CountsLeaveARun
  <1>3. t <= n
    BY <1>1, <1>2
  <1> HIDE DEF t, v
  <1>4. PICK A \in SUBSET runs : Cardinality(A) = t
    BY <1>2, <1>3, SubsetOfSize
  <1>5. IsFiniteSet(runs \ A) /\ Cardinality(runs \ A) = n - t
    <2>1. runs \cap A = A
      OBVIOUS
    <2>2. IsFiniteSet(A)
      BY FS_Subset
    <2>3. IsFiniteSet(runs \ A)
          /\ Cardinality(runs \ A) = Cardinality(runs) - Cardinality(runs \cap A)
      BY <2>2, FS_Difference
    <2>4. QED
      BY <1>4, <2>1, <2>3
  <1>6. v <= Cardinality(runs \ A)
    BY <1>1, <1>2, <1>5
  <1>7. PICK B \in SUBSET (runs \ A) : Cardinality(B) = v
    BY <1>2, <1>5, <1>6, SubsetOfSize
  <1> DEFINE a == [r \in runs |-> IF r \in A THEN "test"
                                  ELSE IF r \in B THEN "validation" ELSE "train"]
  <1>8. a \in [runs -> Splits]
    BY DEF Splits
  <1>9. In(a, "test") = A /\ In(a, "validation") = B
    <2>1. \A r \in runs : (a[r] = "test" <=> r \in A) /\ (a[r] = "validation" <=> r \in B)
      OBVIOUS
    <2>2. DOMAIN a = runs
      OBVIOUS
    <2> HIDE DEF a
    <2>3. QED
      BY <2>1, <2>2 DEF In
  <1> HIDE DEF a
  <1>10. a \in StratumAssignments(runs)
    BY <1>4, <1>7, <1>8, <1>9 DEF StratumAssignments, t, v
  <1>11. QED
    BY <1>10

LEMMA AssignmentIsComplete ==
  ASSUME NEW runs, IsFiniteSet(runs), Cardinality(runs) >= 3,
         NEW a \in StratumAssignments(runs), NEW split \in Splits
  PROVE  \E r \in runs : a[r] = split
  <1> DEFINE n == Cardinality(runs)
             A == In(a, "test")
             B == In(a, "validation")
  <1>1. n \in Nat
    BY FS_CardinalityType
  <1>2. /\ TestCount(n) \in Nat /\ ValidationCount(n) \in Nat
        /\ TestCount(n) >= 1 /\ ValidationCount(n) >= 1
        /\ TestCount(n) + ValidationCount(n) <= n - 1
    BY <1>1, CountsLeaveARun
  <1>3. /\ a \in [runs -> Splits]
        /\ Cardinality(A) = TestCount(n) /\ Cardinality(B) = ValidationCount(n)
    BY DEF StratumAssignments
  <1>4. A \subseteq runs /\ B \subseteq runs /\ IsFiniteSet(A) /\ IsFiniteSet(B)
    <2>1. A \subseteq runs /\ B \subseteq runs
      BY <1>3 DEF In
    <2> HIDE DEF A, B
    <2>2. QED
      BY <2>1, FS_Subset
  <1>5. CASE split = "test"
    <2>1. A # {}
      <3> HIDE DEF A, B
      <3>1. Cardinality(A) # 0
        BY <1>2, <1>3
      <3>2. QED
        BY <3>1, FS_EmptySet, Zenon
    <2>2. QED
      BY <1>3, <1>5, <2>1 DEF In
  <1>6. CASE split = "validation"
    <2>1. B # {}
      <3> HIDE DEF A, B
      <3>1. Cardinality(B) # 0
        BY <1>2, <1>3
      <3>2. QED
        BY <3>1, FS_EmptySet, Zenon
    <2>2. QED
      BY <1>3, <1>6, <2>1 DEF In
  <1>7. CASE split = "train"
    <2>1. ASSUME ~\E r \in runs : a[r] = split PROVE FALSE
      <3>1. \A r \in runs : a[r] = "test" \/ a[r] = "validation"
        BY <1>3, <1>7, <2>1 DEF Splits
      <3>2. A \cup B = runs /\ A \cap B = {}
        BY <1>3, <3>1 DEF In
      <3> HIDE DEF A, B
      <3>3. Cardinality(A \cup B) = Cardinality(A) + Cardinality(B) - Cardinality(A \cap B)
        BY <1>4, FS_Union
      <3>4. Cardinality(A \cap B) = 0
        BY <3>2, FS_EmptySet, Zenon
      <3>5. Cardinality(A \cup B) = n
        BY <3>2, Zenon
      <3>6. QED
        BY <1>1, <1>2, <1>3, <3>3, <3>4, <3>5
    <2>2. QED
      BY <2>1
  <1>8. QED
    BY <1>5, <1>6, <1>7 DEF Splits

(* A stratified split gives every part a run of every stratum. *)
LEMMA StratifiedIs ==
  ASSUME NEW groups, IsFiniteSet(DOMAIN groups), NEW required, StrataAreLarge(groups, required)
  PROVE  /\ StratifiedAssignments(groups, required) # {}
         /\ \A a \in StratifiedAssignments(groups, required) :
              /\ DOMAIN a = DOMAIN groups
              /\ \A r \in DOMAIN groups : \A split \in Splits : \E q \in DOMAIN groups :
                   /\ StratumOf(groups[q], required) = StratumOf(groups[r], required)
                   /\ a[q] = split
  <1> DEFINE strata == Strata(groups, required)
             runs(s) == Stratum(groups, required, s)
             choice == [s \in strata |-> StratumAssignments(runs(s))]
             S(r) == StratumOf(groups[r], required)
             chosen == [s \in strata |-> CHOOSE x \in StratumAssignments(runs(s)) : TRUE]
             result(f) == [r \in DOMAIN groups |-> f[S(r)][r]]
             fs == {f \in [strata -> UNION {choice[s] : s \in strata}] :
                      \A s \in strata : f[s] \in choice[s]}
  <1>1. StratifiedAssignments(groups, required) = {result(f) : f \in fs}
    BY DEF StratifiedAssignments
  <1>2. ASSUME NEW s \in strata
        PROVE  /\ IsFiniteSet(runs(s)) /\ Cardinality(runs(s)) >= 3
               /\ choice[s] = StratumAssignments(runs(s))
    <2>1. runs(s) \subseteq DOMAIN groups
      BY DEF Stratum
    <2>2. Cardinality(runs(s)) >= 3
      BY DEF StrataAreLarge
    <2> HIDE DEF runs
    <2>3. QED
      BY <2>1, <2>2, FS_Subset
  <1>3. chosen \in fs
    <2>1. ASSUME NEW s \in strata PROVE chosen[s] \in choice[s]
      <3>1. StratumAssignments(runs(s)) # {}
        <4> HIDE DEF runs, strata
        <4>1. QED
          BY <1>2, AssignmentExists
      <3>2. QED
        BY <3>1
    <2> HIDE DEF choice
    <2>2. DOMAIN chosen = strata /\ chosen = [s \in strata |-> chosen[s]]
      OBVIOUS
    <2> HIDE DEF chosen
    <2>3. QED
      BY <2>1, <2>2
  <1> HIDE DEF chosen, fs
  <1>4. StratifiedAssignments(groups, required) # {}
    BY <1>1, <1>3
  <1>5. ASSUME NEW f \in fs, NEW r \in DOMAIN groups, NEW split \in Splits
        PROVE  \E q \in DOMAIN groups : S(q) = S(r) /\ result(f)[q] = split
    <2>1. S(r) \in strata
      BY DEF Strata
    <2>2. f[S(r)] \in StratumAssignments(runs(S(r)))
      BY <1>2, <2>1 DEF fs
    <2>3. PICK q \in runs(S(r)) : f[S(r)][q] = split
      <3> DEFINE s == S(r)
      <3>1. s \in strata /\ f[s] \in StratumAssignments(runs(s))
        BY <2>1, <2>2
      <3> HIDE DEF s, runs, strata
      <3>2. \E q \in runs(s) : f[s][q] = split
        BY <1>2, <3>1, AssignmentIsComplete
      <3>3. QED
        BY <3>2 DEF s
    <2>4. q \in DOMAIN groups /\ S(q) = S(r)
      BY DEF Stratum
    <2>5. result(f)[q] = split
      BY <2>3, <2>4
    <2>6. QED
      BY <2>4, <2>5
  <1>6. QED
    BY <1>1, <1>4, <1>5

-----------------------------------------------------------------------------
(* What the gate and the three-class split give *)

(* A corpus in which each class was seen. *)
ClassesAreSeen == \A l \in Labels : \E s \in PrimaryRuns : PlanOf[s].label = l

(* Every class of the corpus is seen in a required family. *)
LEMMA GateSeesClasses ==
  ASSUME NEW gate \in Gates, CoverageGatePasses(gate), RequiredFamilies \subseteq gate.required
  PROVE  ClassesAreSeen
  <1> SUFFICES ASSUME NEW l \in Labels PROVE \E s \in PrimaryRuns : PlanOf[s].label = l
    BY DEF ClassesAreSeen
  <1>1. PICK f \in RequiredFamilies : \A s \in Slots : PlanOf[s].family = f => PlanOf[s].label = l
    BY CatalogueAssumption
  <1>2. Cardinality(OfFamily(f)) >= gate.minimum /\ gate.minimum >= 1 /\ gate.minimum \in Int
    BY EvaluationAssumption DEF CoverageGatePasses
  <1>3. OfFamily(f) # {}
    BY <1>2, FS_EmptySet
  <1>4. QED
    BY <1>1, <1>3 DEF OfFamily, PrimaryRuns

(* So does the three-class split. *)
LEMMA SplitSeesClasses ==
  ASSUME SecondarySplitExists
  PROVE  ClassesAreSeen
  BY EvaluationIsCovered DEF Covered, Values, ClassesAreSeen

LEMMA BinaryLabels ==
  ASSUME ClassesAreSeen
  PROVE  Values(GroupsOf(BinaryRuns), BinaryRuns, "label") = {"training", "inference"}
  <1>1. /\ \E s \in BinaryRuns : PlanOf[s].label = "training"
        /\ \E s \in BinaryRuns : PlanOf[s].label = "inference"
    BY DEF ClassesAreSeen, Labels, BinaryRuns
  <1>2. QED
    BY <1>1 DEF Values, GroupsOf, BinaryRuns

LEMMA RunsAreFinite ==
  /\ IsFiniteSet(PrimaryRuns) /\ IsFiniteSet(BinaryRuns)
  /\ PrimaryRuns \subseteq Slots /\ BinaryRuns \subseteq PrimaryRuns
  <1>1. PrimaryRuns \subseteq Slots /\ BinaryRuns \subseteq PrimaryRuns
    BY DEF PrimaryRuns, BinaryRuns
  <1>2. IsFiniteSet(Slots)
    BY EvaluationAssumption
  <1>3. QED
    BY <1>1, <1>2, FS_Subset

(* No family has one or two primary runs. *)
FamiliesAreLarge == \A s \in PrimaryRuns : Cardinality(OfFamily(PlanOf[s].family)) >= 3

LEMMA GateMakesFamiliesLarge ==
  ASSUME NEW gate \in Gates, CoverageGatePasses(gate),
         ~\E f \in AllFamilies(PlanOf) :
            /\ Cardinality(OfFamily(f)) \in 1 .. 2
            /\ f \in gate.required => gate.minimum < 3
  PROVE  FamiliesAreLarge
  <1> SUFFICES ASSUME NEW s \in PrimaryRuns PROVE Cardinality(OfFamily(PlanOf[s].family)) >= 3
    BY DEF FamiliesAreLarge
  <1> DEFINE f == PlanOf[s].family
  <1>1. f \in AllFamilies(PlanOf) /\ s \in OfFamily(f) /\ OfFamily(f) \subseteq PrimaryRuns
    BY RunsAreFinite, EvaluationAssumption DEF AllFamilies, Values, OfFamily
  <1>2. gate.minimum \in Int
    BY EvaluationAssumption
  <1> HIDE DEF f
  <1>3. IsFiniteSet(OfFamily(f)) /\ Cardinality(OfFamily(f)) \in Nat
    BY <1>1, RunsAreFinite, FS_Subset, FS_CardinalityType
  <1>4. Cardinality(OfFamily(f)) # 0
    BY <1>1, <1>3, FS_EmptySet
  <1>5. CASE f \in gate.required /\ gate.minimum >= 3
    <2>1. Cardinality(OfFamily(f)) >= gate.minimum
      BY <1>5 DEF CoverageGatePasses
    <2>2. QED
      BY <1>2, <1>3, <1>5, <2>1 DEF f
  <1>6. CASE ~(f \in gate.required /\ gate.minimum >= 3)
    <2>1. Cardinality(OfFamily(f)) \notin 1 .. 2
      BY <1>1, <1>2, <1>6
    <2>2. QED
      BY <1>3, <1>4, <2>1 DEF f
  <1>7. QED
    BY <1>5, <1>6

(* With every family a stratum, the strata are the families. *)
LEMMA FamiliesAreStrata ==
  ASSUME NEW runs \in {PrimaryRuns, BinaryRuns}, FamiliesAreLarge
  PROVE  StrataAreLarge(GroupsOf(runs), AllFamilies(GroupsOf(runs)))
  <1> DEFINE groups == GroupsOf(runs)
             required == AllFamilies(groups)
  <1>1. DOMAIN groups = runs /\ \A r \in runs : groups[r] = PlanOf[r]
    BY DEF GroupsOf
  <1>2. ASSUME NEW r \in runs PROVE StratumOf(groups[r], required) = <<"family", PlanOf[r].family>>
    BY <1>1 DEF StratumOf, AllFamilies, Values
  <1>3. ASSUME NEW r \in runs
        PROVE  Stratum(groups, required, StratumOf(groups[r], required)) = OfFamily(PlanOf[r].family)
    <2>1. \A q \in runs : StratumOf(groups[q], required) = StratumOf(groups[r], required)
                            <=> PlanOf[q].family = PlanOf[r].family
      BY <1>2
    <2>2. ASSUME NEW q \in PrimaryRuns, PlanOf[q].family = PlanOf[r].family PROVE q \in runs
      <3>1. CASE runs = BinaryRuns
        <4>1. PlanOf[q].label = PlanOf[r].label
          BY <2>2, <3>1, RunsAreFinite, CatalogueAssumption
        <4>2. QED
          BY <2>2, <3>1, <4>1 DEF BinaryRuns
      <3>2. QED
        BY <3>1
    <2>3. runs \subseteq PrimaryRuns
      BY RunsAreFinite
    <2> HIDE DEF groups, required
    <2>4. Stratum(groups, required, StratumOf(groups[r], required))
            = {q \in runs : PlanOf[q].family = PlanOf[r].family}
      BY <1>1, <2>1 DEF Stratum
    <2>5. QED
      BY <2>2, <2>3, <2>4 DEF OfFamily
  <1>4. runs \subseteq PrimaryRuns
    BY RunsAreFinite
  <1> HIDE DEF groups, required
  <1>5. ASSUME NEW s \in Strata(groups, required)
        PROVE  Cardinality(Stratum(groups, required, s)) >= 3
    <2>1. PICK r \in runs : s = StratumOf(groups[r], required)
      BY <1>1 DEF Strata
    <2>2. QED
      BY <1>3, <1>4, <2>1 DEF FamiliesAreLarge
  <1>6. StrataAreLarge(groups, required)
    BY <1>5 DEF StrataAreLarge
  <1>7. QED
    BY <1>6 DEF groups, required

LEMMA SecondaryExists ==
  ASSUME ClassesAreSeen, FamiliesAreLarge
  PROVE  SecondarySplitExists
  <1> DEFINE groups == GroupsOf(PrimaryRuns)
  <1>1. StrataAreLarge(groups, AllFamilies(groups))
    BY FamiliesAreStrata
  <1>2. Values(groups, PrimaryRuns, "label") = Labels
    <2>1. \A s \in PrimaryRuns : PlanOf[s].label \in Labels
      BY RunsAreFinite, CatalogueAssumption
    <2>2. \A l \in Labels : \E s \in PrimaryRuns : PlanOf[s].label = l
      BY DEF ClassesAreSeen
    <2>3. QED
      BY <2>1, <2>2 DEF Values, GroupsOf
  <1>3. QED
    BY <1>1, <1>2 DEF SecondarySplitExists

LEMMA TwoLabels == Cardinality({"training", "inference"}) >= 2
  <1>1. "training" \in {"training", "inference"} /\ "inference" \in {"training", "inference"}
        /\ "training" # "inference"
    OBVIOUS
  <1>2. IsFiniteSet({"training", "inference"})
    <2>1. {"training", "inference"} = {"training"} \cup {"inference"}
      OBVIOUS
    <2>2. IsFiniteSet({"training"} \cup {"inference"})
      BY FS_Singleton, FS_Union
    <2>3. QED
      BY <2>1, <2>2, Zenon
  <1>3. QED
    BY <1>1, <1>2, TwoElements

(* A split with complete parts is a valid one. *)
LEMMA CompleteIsValid ==
  ASSUME ClassesAreSeen,
         NEW a \in [BinaryRuns -> Splits],
         PartsAreComplete(GroupsOf(BinaryRuns), AllFamilies(GroupsOf(BinaryRuns)), a)
  PROVE  PrimaryIsValid(GroupsOf(BinaryRuns), AllFamilies(GroupsOf(BinaryRuns)), a)
  <1> DEFINE groups == GroupsOf(BinaryRuns)
  <1>1. DOMAIN groups = BinaryRuns
    BY DEF GroupsOf
  <1>2. Values(groups, DOMAIN groups, "label") = {"training", "inference"}
    BY <1>1, BinaryLabels
  <1> HIDE DEF groups
  <1>3. ASSUME NEW split \in Splits PROVE In(a, split) # {}
    <2>1. Values(groups, In(a, split), "label") = {"training", "inference"}
      BY <1>2 DEF PartsAreComplete, groups
    <2>2. QED
      BY <2>1 DEF Values
  <1>4. Cardinality(Values(groups, DOMAIN groups, "label")) >= 2
    BY <1>2, TwoLabels, Zenon
  <1>5. QED
    BY <1>3, <1>4 DEF PrimaryIsValid, groups

LEMMA StratifiedIsComplete ==
  ASSUME FamiliesAreLarge,
         NEW a \in StratifiedAssignments(GroupsOf(BinaryRuns), AllFamilies(GroupsOf(BinaryRuns)))
  PROVE  /\ a \in [BinaryRuns -> Splits]
         /\ PartsAreComplete(GroupsOf(BinaryRuns), AllFamilies(GroupsOf(BinaryRuns)), a)
  <1> DEFINE groups == GroupsOf(BinaryRuns)
             required == AllFamilies(groups)
  <1>1. DOMAIN groups = BinaryRuns /\ \A r \in BinaryRuns : groups[r] = PlanOf[r]
    BY DEF GroupsOf
  <1>2. \A r \in BinaryRuns : groups[r].family \in required
    BY <1>1 DEF AllFamilies, Values
  <1>3. StrataAreLarge(groups, required)
    BY FamiliesAreStrata
  <1>4. IsFiniteSet(DOMAIN groups)
    BY <1>1, RunsAreFinite
  <1> HIDE DEF groups, required
  <1>5. /\ DOMAIN a = DOMAIN groups
        /\ \A r \in DOMAIN groups : \A split \in Splits : \E q \in DOMAIN groups :
             /\ StratumOf(groups[q], required) = StratumOf(groups[r], required)
             /\ a[q] = split
    BY <1>3, <1>4, StratifiedIs DEF groups, required
  <1>6. ASSUME NEW r \in BinaryRuns, NEW split \in Splits
        PROVE  \E q \in In(a, split) : /\ q \in BinaryRuns
                                       /\ PlanOf[q].family = PlanOf[r].family
                                       /\ PlanOf[q].label = PlanOf[r].label
    <2>1. PICK q \in BinaryRuns :
            /\ StratumOf(groups[q], required) = StratumOf(groups[r], required)
            /\ a[q] = split
      BY <1>1, <1>5
    <2>2. q \in In(a, split)
      BY <1>1, <1>5, <2>1 DEF In
    <2>3. PlanOf[q].family = PlanOf[r].family
      BY <1>1, <1>2, <2>1 DEF StratumOf
    <2>4. q \in Slots /\ r \in Slots
      BY RunsAreFinite
    <2>5. QED
      BY <2>2, <2>3, <2>4, CatalogueAssumption
  <1>7. a \in [BinaryRuns -> Splits]
    <2>1. a \in [DOMAIN groups -> Splits]
      BY StratifiedType DEF groups, required
    <2>2. QED
      BY <1>1, <2>1
  <1>8. ASSUME NEW split \in Splits
        PROVE  /\ Values(groups, In(a, split), "label") = Values(groups, DOMAIN groups, "label")
               /\ required \subseteq Values(groups, In(a, split), "family")
    <2>1. In(a, split) \subseteq BinaryRuns
      BY <1>1, <1>5 DEF In
    <2>2. Values(groups, In(a, split), "label") = Values(groups, DOMAIN groups, "label")
      BY <1>1, <1>6, <2>1 DEF Values
    <2>3. required \subseteq Values(groups, In(a, split), "family")
      BY <1>1, <1>6, <2>1 DEF Values, required, AllFamilies
    <2>4. QED
      BY <2>2, <2>3
  <1>9. PartsAreComplete(groups, required, a)
    BY <1>8 DEF PartsAreComplete
  <1>10. QED
    BY <1>7, <1>9 DEF groups, required

LEMMA PrimaryExists ==
  ASSUME ClassesAreSeen, FamiliesAreLarge
  PROVE  PrimarySplits # {}
  <1> DEFINE groups == GroupsOf(BinaryRuns)
             required == AllFamilies(groups)
             sessions == SessionAssignments(groups, required)
             stratified == StratifiedAssignments(groups, required)
  <1>1. DOMAIN groups = BinaryRuns
    BY DEF GroupsOf
  <1>2. PrimarySplits = {a \in (IF sessions # {} THEN sessions ELSE stratified) :
                           PrimaryIsValid(groups, required, a)}
    BY DEF PrimarySplits, SplitPlans
  <1>3. CASE sessions # {}
    <2>1. PICK a : a \in sessions
      BY <1>3
    <2>2. PartsAreComplete(groups, required, a)
      BY <2>1 DEF SessionAssignments
    <2>3. a \in [BinaryRuns -> Splits]
      BY <1>1, <2>1 DEF SessionAssignments, BySession, Splits
    <2>4. PrimaryIsValid(groups, required, a)
      BY <2>2, <2>3, CompleteIsValid
    <2> HIDE DEF groups, required, sessions, stratified
    <2>5. QED
      BY <1>2, <1>3, <2>1, <2>4
  <1>4. CASE sessions = {}
    <2>1. StrataAreLarge(groups, required) /\ IsFiniteSet(DOMAIN groups)
      BY <1>1, FamiliesAreStrata, RunsAreFinite
    <2>2. PICK a : a \in stratified
      <3> HIDE DEF groups, required
      <3>1. QED
        BY <2>1, StratifiedIs
    <2>3. PrimaryIsValid(groups, required, a)
      BY <2>2, StratifiedIsComplete, CompleteIsValid
    <2> HIDE DEF groups, required, sessions, stratified
    <2>4. QED
      BY <1>2, <1>4, <2>2, <2>3
  <1>5. QED
    BY <1>3, <1>4

(* With no family of one or two runs and with every class, there is a split. *)
LEMMA SplitIsRefusedForCause ==
  ASSUME NEW gate \in Gates, CoverageGatePasses(gate), PrimarySplits = {} \/ ~SecondarySplitExists
  PROVE  \/ \E f \in AllFamilies(PlanOf) :
              /\ Cardinality(OfFamily(f)) \in 1 .. 2
              /\ f \in gate.required => gate.minimum < 3
         \/ /\ \E l \in Labels : \A s \in PrimaryRuns : PlanOf[s].label # l
            /\ ~(RequiredFamilies \subseteq gate.required)
  <1>1. CASE ~FamiliesAreLarge
    BY <1>1, GateMakesFamiliesLarge
  <1>2. CASE FamiliesAreLarge
    <2>1. ~ClassesAreSeen
      BY <1>2, PrimaryExists, SecondaryExists
    <2>2. ~(RequiredFamilies \subseteq gate.required)
      BY <2>1, GateSeesClasses
    <2>3. QED
      BY <2>1, <2>2 DEF ClassesAreSeen
  <1>3. QED
    BY <1>1, <1>2

(* Each part of the primary split has both classes. *)
LEMMA PartsHaveLabels ==
  ASSUME ClassesAreSeen, NEW split \in PrimarySplits, NEW part \in Splits
  PROVE  /\ In(split, part) \subseteq BinaryRuns
         /\ Values(PlanOf, In(split, part), "label") = {"training", "inference"}
  <1> DEFINE groups == GroupsOf(BinaryRuns)
  <1>1. DOMAIN groups = BinaryRuns /\ \A r \in BinaryRuns : groups[r] = PlanOf[r]
    BY DEF GroupsOf
  <1>2. Values(groups, BinaryRuns, "label") = {"training", "inference"}
    BY BinaryLabels
  <1>3. PartsAreComplete(groups, AllFamilies(groups), split) /\ split \in [BinaryRuns -> Splits]
    BY <1>1, SplitType DEF PrimarySplits, SplitPlans, PrimaryIsValid
  <1> HIDE DEF groups
  <1>4. In(split, part) \subseteq BinaryRuns
    BY <1>3 DEF In
  <1>5. Values(groups, In(split, part), "label") = {"training", "inference"}
    BY <1>1, <1>2, <1>3 DEF PartsAreComplete
  <1>6. Values(groups, In(split, part), "label") = Values(PlanOf, In(split, part), "label")
    BY <1>1, <1>4 DEF Values
  <1>7. QED
    BY <1>4, <1>5, <1>6

LEMMA WindowsAreRefusedForCause ==
  ASSUME ClassesAreSeen, NEW split \in PrimarySplits,
         \A s \in Slots : coverage[s] \subseteq Windows,
         ~WindowDiagnosticsPossible(split)
  PROVE  \E s \in PrimaryRuns : coverage[s] # Windows
  <1> SUFFICES ASSUME \A s \in PrimaryRuns : coverage[s] = Windows PROVE FALSE
    OBVIOUS
  <1>1. PICK w \in UNION {coverage[s] : s \in Slots}, part \in Splits :
          Values(PlanOf, {s \in In(split, part) : w \in coverage[s]}, "label")
            # {"training", "inference"}
    BY DEF WindowDiagnosticsPossible
  <1>2. w \in Windows
    OBVIOUS
  <1>3. In(split, part) \subseteq PrimaryRuns
    BY PartsHaveLabels, RunsAreFinite
  <1>4. {s \in In(split, part) : w \in coverage[s]} = In(split, part)
    BY <1>2, <1>3
  <1>5. Values(PlanOf, In(split, part), "label") = {"training", "inference"}
    BY PartsHaveLabels
  <1>6. QED
    BY <1>1, <1>4, <1>5

LEMMA FrozenIsRefusedForCause ==
  ASSUME ClassesAreSeen, NEW split \in PrimarySplits,
         NEW plan, ~FrozenFitPossible(plan, split)
  PROVE  \E s \in Slots : OfFinalHoldout(plan, PlanOf[s], PlanOf[s].session)
  <1> SUFFICES ASSUME \A s \in Slots : ~OfFinalHoldout(plan, PlanOf[s], PlanOf[s].session)
               PROVE  FALSE
    OBVIOUS
  <1>1. "train" \in Splits
    BY DEF Splits
  <1>2. /\ In(split, "train") \subseteq Slots
        /\ Values(PlanOf, In(split, "train"), "label") = {"training", "inference"}
    BY <1>1, PartsHaveLabels, RunsAreFinite
  <1>3. FrozenTrain(plan, split) = In(split, "train")
    BY <1>2 DEF FrozenTrain, IsFinalIdentity, OfFinalHoldout
  <1>4. QED
    BY <1>2, <1>3 DEF FrozenFitPossible

(* The ids of two sequences of planned runs without a common one. *)
LEMMA UniqueGoesOn ==
  ASSUME NEW V, NEW p \in Seq(V), NEW q \in Seq(V), PlanIdsAreUnique(p), PlanIdsAreUnique(q),
         \A i \in DOMAIN p, j \in DOMAIN q : PlanId(p[i]) # PlanId(q[j])
  PROVE  PlanIdsAreUnique(p \o q)
  <1> DEFINE both == p \o q
             m == Len(p)
  <1>1. /\ m \in Nat /\ Len(q) \in Nat /\ DOMAIN p = 1 .. m /\ DOMAIN q = 1 .. Len(q)
        /\ DOMAIN both = 1 .. m + Len(q)
        /\ \A i \in DOMAIN both : both[i] = IF i <= m THEN p[i] ELSE q[i - m]
    OBVIOUS
  <1> HIDE DEF both, m
  <1>2. ASSUME NEW i \in DOMAIN both, NEW j \in DOMAIN both, PlanId(both[i]) = PlanId(both[j])
        PROVE  i = j
    <2>1. CASE i <= m /\ j <= m
      BY <1>1, <1>2, <2>1 DEF PlanIdsAreUnique
    <2>2. CASE i > m /\ j > m
      <3>1. i - m \in DOMAIN q /\ j - m \in DOMAIN q
        BY <1>1, <2>2
      <3>2. both[i] = q[i - m] /\ both[j] = q[j - m]
        BY <1>1, <2>2
      <3>3. i - m = j - m
        BY <1>2, <3>1, <3>2 DEF PlanIdsAreUnique
      <3>4. QED
        BY <1>1, <3>3
    <2>3. CASE i <= m /\ j > m
      <3>1. i \in DOMAIN p /\ j - m \in DOMAIN q
        BY <1>1, <2>3
      <3>2. both[i] = p[i] /\ both[j] = q[j - m]
        BY <1>1, <2>3
      <3>3. QED
        BY <1>2, <3>1, <3>2
    <2>4. CASE i > m /\ j <= m
      <3>1. j \in DOMAIN p /\ i - m \in DOMAIN q
        BY <1>1, <2>4
      <3>2. both[j] = p[j] /\ both[i] = q[i - m]
        BY <1>1, <2>4
      <3>3. QED
        BY <1>2, <3>1, <3>2
    <2>5. QED
      BY <1>1, <2>1, <2>2, <2>3, <2>4
  <1>3. QED
    BY <1>2 DEF PlanIdsAreUnique, both

LEMMA InConcatenation ==
  ASSUME NEW V, NEW p \in Seq(V), NEW q \in Seq(V), NEW i \in DOMAIN (p \o q)
  PROVE  \/ i \in DOMAIN p /\ (p \o q)[i] = p[i]
         \/ \E j \in DOMAIN q : (p \o q)[i] = q[j]
  <1>1. CASE i <= Len(p)
    BY <1>1
  <1>2. CASE i > Len(p)
    <2>1. i - Len(p) \in DOMAIN q /\ (p \o q)[i] = q[i - Len(p)]
      BY <1>2
    <2>2. QED
      BY <2>1
  <1>3. QED
    BY <1>1, <1>2

(* The runs of one workload: their ids differ in the slot. *)
LEMMA PlannedForIs ==
  ASSUME NEW w, w.segments \in Nat, NEW round
  PROVE  LET p == PlannedFor(w, round)
         IN  /\ \E V : p \in Seq(V)
             /\ \A i \in DOMAIN p : p[i].workload = w
             /\ PlanIdsAreUnique(p)
  <1> DEFINE n == IF round = "sealed_final_holdout" THEN 1 ELSE w.segments
             V == [workload : {w}, slot : Nat, round : {round}]
             p == PlannedFor(w, round)
  <1>1. n \in Nat /\ p = [i \in 1 .. n |-> [workload |-> w, slot |-> i - 1, round |-> round]]
    BY DEF PlannedFor
  <1> HIDE DEF n
  <1>2. ASSUME NEW i \in 1 .. n
        PROVE  [workload |-> w, slot |-> i - 1, round |-> round] \in V
    BY <1>1
  <1> HIDE DEF p, V
  <1>3. p \in Seq(V)
    BY <1>1, <1>2
  <1>4. \A i \in DOMAIN p : p[i].workload = w /\ p[i].slot = i - 1 /\ i \in Nat
    BY <1>1
  <1>5. \A i, j \in DOMAIN p : PlanId(p[i]) = PlanId(p[j]) => i = j
    BY <1>4 DEF PlanId
  <1>6. QED
    BY <1>3, <1>4, <1>5 DEF PlanIdsAreUnique, p

(* Workloads of different strategies never share a plan id. *)
LEMMA IdsAreRefusedForCause ==
  ASSUME NEW plan, NEW selection \in Selections \cup {PeriodicStudy}, selection # <<>>,
         NEW session, NEW release,
         ~PlanIdsAreUnique(MatrixPlan(plan, selection, session, release))
  PROVE  \E i, j \in DOMAIN selection : i # j /\ selection[i].family = selection[j].family
  <1> SUFFICES ASSUME \A i, j \in DOMAIN selection :
                        selection[i].family = selection[j].family => i = j
               PROVE  FALSE
    OBVIOUS
  <1> DEFINE round(w) == RoundFor(plan, w.family, session, w.config, release)
             s == [i \in DOMAIN selection |-> PlannedFor(selection[i], round(selection[i]))]
             n == Len(selection)
             V == MatrixSlots(plan, selection, session, release)
             f == CHOOSE g : Concatenates(g, s, n)
  <1>1. /\ n \in Nat /\ n > 0 /\ DOMAIN selection = 1 .. n
        /\ \A i \in 1 .. n : selection[i].segments \in Nat
    <2>1. selection \in Seq(Range(selection))
          /\ \A i \in DOMAIN selection : selection[i].segments \in Nat \ {0}
      BY EvaluationAssumption
    <2>2. QED
      BY <2>1
  <1>2. /\ DOMAIN s = 1 .. n /\ Len(s) = n
        /\ \A i \in 1 .. n : s[i] = PlannedFor(selection[i], round(selection[i]))
    BY <1>1
  <1>3. MatrixPlan(plan, selection, session, release) = FlattenSeq(s)
    BY DEF MatrixPlan
  <1>4. \A i \in 1 .. n : s[i] \in Seq(V)
    BY <1>1, <1>2, SlotsType
  <1> HIDE DEF s, n, V
  <1>5. Concatenates(f, s, n)
    BY <1>1, ConcatenationExists
  <1>6. FlattenSeq(s) = f[n]
    <2>1. s # <<>>
      BY <1>1, <1>2
    <2>2. QED
      BY <1>2, <2>1 DEF FlattenSeq, Concatenates
  <1> HIDE DEF f
  <1>7. \A i \in 1 .. n : f[i] = IF i = 1 THEN s[i] ELSE f[i - 1] \o s[i]
    BY <1>5 DEF Concatenates
  <1>8. ASSUME NEW k \in 1 .. n
        PROVE  /\ PlanIdsAreUnique(s[k])
               /\ \A i \in DOMAIN s[k] : s[k][i].workload = selection[k]
    BY <1>1, <1>2, PlannedForIs
  <1> DEFINE Good(m) == /\ f[m] \in Seq(V) /\ PlanIdsAreUnique(f[m])
                        /\ \A i \in DOMAIN f[m] : \E k \in 1 .. m :
                             f[m][i].workload.family = selection[k].family
             T == {m \in 1 .. n : ~Good(m)}
  <1>9. ASSUME T # {} PROVE FALSE
    <2>1. T \subseteq Nat
      BY <1>1
    <2>2. PICK m \in T : \A y \in T : m <= y
      <3> HIDE DEF T
      <3>1. QED
        BY <1>9, <2>1, LeastNumber
    <2>3. m \in 1 .. n /\ ~Good(m)
      OBVIOUS
    <2>4. CASE m = 1
      <3>1. f[1] = s[1] /\ 1 \in 1 .. n
        BY <1>1, <1>7
      <3>2. \A i \in DOMAIN f[1] : f[1][i].workload.family = selection[1].family
        BY <1>8, <3>1
      <3>3. Good(1)
        BY <1>4, <1>8, <3>1, <3>2
      <3>4. QED
        BY <2>3, <2>4, <3>3
    <2>5. CASE m # 1
      <3> DEFINE l == m - 1
      <3>1. l \in 1 .. n /\ l \in 1 .. m /\ l < m /\ f[m] = f[l] \o s[m] /\ m = l + 1
        <4>1. m \in Nat /\ m <= n /\ m > 1
          BY <1>1, <2>3, <2>5
        <4>2. f[m] = f[l] \o s[m]
          BY <1>7, <2>3, <2>5
        <4>3. QED
          BY <1>1, <4>1, <4>2
      <3>2. Good(l)
        <4>1. ~(m <= l)
          BY <3>1, <2>3
        <4>2. l \notin T
          BY <2>2, <4>1
        <4> HIDE DEF Good, l
        <4>3. QED
          BY <3>1, <4>2
      <3> HIDE DEF l
      <3>3. f[l] \in Seq(V) /\ s[m] \in Seq(V)
        BY <1>4, <2>3, <3>2
      <3>4. ASSUME NEW i \in DOMAIN f[l], NEW j \in DOMAIN s[m]
            PROVE  PlanId(f[l][i]) # PlanId(s[m][j])
        <4>1. PICK k \in 1 .. l : f[l][i].workload.family = selection[k].family
          BY <3>2
        <4>2. s[m][j].workload.family = selection[m].family
          BY <1>8, <2>3
        <4>3. k \in DOMAIN selection /\ m \in DOMAIN selection /\ k # m
          BY <1>1, <2>3, <3>1
        <4>4. f[l][i].workload.family # s[m][j].workload.family
          BY <4>1, <4>2, <4>3
        <4>5. QED
          BY <4>4 DEF PlanId
      <3>5. PlanIdsAreUnique(f[m])
        <4>1. PlanIdsAreUnique(f[l]) /\ PlanIdsAreUnique(s[m])
          BY <1>8, <2>3, <3>2
        <4>2. PlanIdsAreUnique(f[l] \o s[m])
          BY <3>3, <3>4, <4>1, UniqueGoesOn
        <4>3. QED
          BY <3>1, <4>2
      <3>6. ASSUME NEW i \in DOMAIN f[m]
            PROVE  \E k \in 1 .. m : f[m][i].workload.family = selection[k].family
        <4>1. CASE i \in DOMAIN f[l] /\ f[m][i] = f[l][i]
          <5>1. PICK k \in 1 .. l : f[l][i].workload.family = selection[k].family
            BY <3>2, <4>1
          <5>2. k \in 1 .. m
            BY <2>3, <3>1
          <5>3. QED
            BY <4>1, <5>1, <5>2
        <4>2. ASSUME NEW j \in DOMAIN s[m], f[m][i] = s[m][j]
              PROVE  \E k \in 1 .. m : f[m][i].workload.family = selection[k].family
          <5>1. m \in 1 .. m /\ s[m][j].workload = selection[m]
            BY <1>8, <2>3
          <5>2. QED
            BY <4>2, <5>1
        <4>3. \/ i \in DOMAIN f[l] /\ f[m][i] = f[l][i]
              \/ \E j \in DOMAIN s[m] : f[m][i] = s[m][j]
          <5> DEFINE p == f[l]
                     q == s[m]
          <5>1. p \in Seq(V) /\ q \in Seq(V) /\ f[m] = p \o q
            BY <3>1, <3>3
          <5>2. i \in DOMAIN (p \o q)
            BY <5>1
          <5> HIDE DEF p, q
          <5>3. \/ i \in DOMAIN p /\ (p \o q)[i] = p[i]
                \/ \E j \in DOMAIN q : (p \o q)[i] = q[j]
            BY <5>1, <5>2, InConcatenation
          <5>4. QED
            BY <5>1, <5>3 DEF p, q
        <4>4. QED
          BY <4>1, <4>2, <4>3
      <3>7. f[m] \in Seq(V)
        BY <3>1, <3>3
      <3>8. QED
        BY <2>3, <3>5, <3>6, <3>7
    <2>6. QED
      BY <2>4, <2>5
  <1>10. Good(n)
    <2> HIDE DEF Good
    <2>1. QED
      BY <1>1, <1>9
  <1>11. QED
    BY <1>3, <1>6, <1>10

(* The property, of any refusal r. *)
ForCause(r) ==
  r # Absent =>
    /\ r.how = "split" =>
         \/ \E f \in AllFamilies(PlanOf) :
              /\ Cardinality(OfFamily(f)) \in 1 .. 2
              /\ f \in r.gate.required => r.gate.minimum < 3
         \/ /\ \E l \in Labels : \A s \in PrimaryRuns : PlanOf[s].label # l
            /\ ~(RequiredFamilies \subseteq r.gate.required)
    /\ r.how = "window diagnostic" => \E s \in PrimaryRuns : coverage[s] # Windows
    /\ r.how = "frozen baseline" =>
         \E s \in Slots : OfFinalHoldout(r.plan, PlanOf[s], PlanOf[s].session)
    /\ r.how = "manifests" =>
         tree.torn \cap BenignSessions # {} \/ \E session \in Sessions : Unfinished(session)
    /\ r.how = "plan ids" =>
         \E i, j \in DOMAIN r.selection : i # j /\ r.selection[i].family = r.selection[j].family

LEMMA RefusalIs == EvaluationIsRefusedForCause <=> ForCause(refusal)
  BY DEF EvaluationIsRefusedForCause, ForCause

(* Whoever died over a manifest left the collection unfinished: its session *)
(* is used up.                                                             *)
TornAreUnfinished ==
  /\ tree.torn \subseteq Sessions \cup BenignSessions
  /\ \A session \in tree.torn \ BenignSessions : Unfinished(session)

(* The running collection has its plan and no extraction yet. *)
CallIsUnfinished ==
  stage = "collecting" => call.session \notin tree.torn /\ Unfinished(call.session)

TornInv ==
  /\ \A x \in tree.extractions : x.session \in tree.plans
  /\ TornAreUnfinished
  /\ CallIsUnfinished

(* Once the corpus is extracted, its runs have windows and no more change; *)
(* a call that goes on has refused nothing.                                *)
RefusalInv ==
  /\ stage \in {"extracting", "analysed", "saving", "collecting"} => refusal = Absent
  /\ stage \notin {"extracting", "analysed", "raised"} => \A s \in Slots : coverage[s] \subseteq Windows
  /\ ForCause(refusal)

LEMMA RefusalGoesOn ==
  ASSUME RefusalInv, stage \notin {"extracting", "analysed", "raised"}, coverage' = coverage,
         stage' \notin {"extracting", "analysed", "raised"}, ForCause(refusal'),
         tree' = tree \/ refusal' = Absent,
         stage' \in {"saving", "collecting"} => refusal' = Absent
  PROVE  RefusalInv'
  <1>1. PrimaryRuns' = PrimaryRuns /\ \A f : OfFamily(f)' = OfFamily(f)
    BY DEF PrimaryRuns, OfFamily
  <1>2. ForCause(refusal)'
    <2>1. CASE refusal' = Absent
      BY <2>1 DEF ForCause
    <2>2. CASE tree' = tree
      BY <1>1, <2>2 DEF ForCause, OfFamily, AllFamilies, Unfinished
    <2>3. QED
      BY <2>1, <2>2
  <1>3. QED
    BY <1>2 DEF RefusalInv

LEMMA NoRefusal == ForCause(Absent)
  BY DEF ForCause

LEMMA RefusalExtraction ==
  ASSUME TypeOK, RefusalInv, ExtractRun \/ FinishExtraction \/ Analyse \/ Dismiss
  PROVE  RefusalInv'
  <1>1. stage \in {"extracting", "analysed"} /\ refusal = Absent
    BY DEF ExtractRun, FinishExtraction, Analyse, Dismiss, RefusalInv
  <1>2. CASE ExtractRun \/ Analyse \/ Dismiss
    <2>1. stage' \in {"extracting", "analysed"} /\ refusal' = Absent
      BY <1>1, <1>2 DEF ExtractRun, Analyse, Dismiss
    <2>2. QED
      BY <2>1 DEF RefusalInv, ForCause
  <1>3. CASE FinishExtraction
    <2>1. \A s \in Slots : coverage[s] # Absent /\ coverage' = coverage
      BY <1>3 DEF FinishExtraction
    <2>2. CASE ResultIsValid
      <3>1. stage' = "idle" /\ refusal' = Absent
        BY <1>1, <1>3, <2>2 DEF FinishExtraction
      <3>2. \A s \in Slots : coverage'[s] \subseteq Windows
        BY <1>3, <2>1, <2>2 DEF ResultIsValid, TypeOK, FinishExtraction
      <3>3. QED
        BY <3>1, <3>2 DEF RefusalInv, ForCause
    <2>3. CASE ~ResultIsValid
      <3>1. stage' = "raised" /\ refusal'.how = "invalid record"
        <4>1. stage' = "raised" /\ refusal' = [how |-> "invalid record"]
          BY <1>3, <2>3 DEF FinishExtraction
        <4>2. QED
          BY <4>1
      <3>2. QED
        BY <3>1 DEF RefusalInv, ForCause
    <2>4. QED
      BY <2>2, <2>3
  <1>4. QED
    BY <1>2, <1>3

LEMMA RefusalEvaluate ==
  ASSUME RefusalInv, TornInv, NEW loaded, NEW gate \in Gates, NEW extraction, NEW plan, NEW release,
         EvaluateDetector(loaded, gate, extraction, plan, release)
  PROVE  RefusalInv'
  <1>1. stage = "idle" /\ coverage' = coverage /\ \A s \in Slots : coverage[s] \subseteq Windows
    BY DEF EvaluateDetector, RefusalInv
  <1>2. ASSUME NEW cause, EvaluationRaises(cause), ForCause(cause) PROVE RefusalInv'
    <2>1. stage' = "idle" /\ refusal' = cause /\ tree' = tree
      BY <1>2 DEF EvaluationRaises, Ends
    <2>2. QED
      BY <1>1, <1>2, <2>1, RefusalGoesOn
  <1>3. CASE loaded # "benign" \/ ~CoverageGatePasses(gate)
    BY <1>2, <1>3, NoRefusal DEF EvaluateDetector
  <1>4. CASE ~(loaded # "benign" \/ ~CoverageGatePasses(gate))
    <2>1. CoverageGatePasses(gate) /\ (SecondarySplitExists => ClassesAreSeen)
      BY <1>4, SplitSeesClasses
    <2>2. CASE PrimarySplits = {} \/ ~SecondarySplitExists
      <3> DEFINE cause == [how |-> "split", gate |-> gate]
      <3>1. ForCause(cause)
        BY <2>1, <2>2, SplitIsRefusedForCause DEF ForCause
      <3>2. EvaluationRaises(cause)
        BY <1>4, <2>2 DEF EvaluateDetector
      <3> HIDE DEF cause
      <3>3. QED
        BY <1>2, <3>1, <3>2
    <2>3. ASSUME SecondarySplitExists, NEW split \in PrimarySplits,
                 ~WindowDiagnosticsPossible(split), EvaluationRaises([how |-> "window diagnostic"])
          PROVE  RefusalInv'
      <3> DEFINE cause == [how |-> "window diagnostic"]
      <3>1. ForCause(cause)
        BY <1>1, <2>1, <2>3, WindowsAreRefusedForCause DEF ForCause
      <3> HIDE DEF cause
      <3>2. QED
        BY <1>2, <2>3, <3>1 DEF cause
    <2>4. ASSUME SecondarySplitExists, NEW split \in PrimarySplits,
                 ~FrozenFitPossible(plan, split), EvaluationRaises([how |-> "frozen baseline", plan |-> plan])
          PROVE  RefusalInv'
      <3> DEFINE cause == [how |-> "frozen baseline", plan |-> plan]
      <3>1. ForCause(cause)
        BY <2>1, <2>4, FrozenIsRefusedForCause DEF ForCause
      <3> HIDE DEF cause
      <3>2. QED
        BY <1>2, <2>4, <3>1 DEF cause
    <2>5. CASE tree.torn # {} /\ EvaluationRaises([how |-> "manifests"])
      <3> DEFINE cause == [how |-> "manifests"]
      <3>1. tree.torn \cap BenignSessions # {} \/ \E session \in Sessions : Unfinished(session)
        BY <2>5 DEF TornInv, TornAreUnfinished
      <3>2. ForCause(cause)
        BY <3>1 DEF ForCause
      <3> HIDE DEF cause
      <3>3. QED
        BY <1>2, <2>5, <3>2 DEF cause
    <2>6. CASE Goes("saving")
      BY <1>1, <2>6, NoRefusal, RefusalGoesOn DEF Goes
    <2>7. QED
      BY <1>4, <2>2, <2>3, <2>4, <2>5, <2>6 DEF EvaluateDetector
  <1>5. QED
    BY <1>3, <1>4

LEMMA RefusalMatrix ==
  ASSUME RefusalInv, NEW session, NEW approval, NEW final_approval, NEW release,
         NEW selection \in Selections \cup {PeriodicStudy}, NEW plan,
         RunAdversarialMatrix(session, approval, final_approval, release, selection, plan)
  PROVE  RefusalInv'
  <1> DEFINE plans == MatrixPlan(plan, selection, session, release)
             first == \/ ~approval
                      \/ release /\ ~final_approval
                      \/ ~ValidHoldoutPlan(plan)
                      \/ ~AcceptanceOnFile
                      \/ selection = <<>> \/ ~IsInjective(selection)
  <1>1. stage = "idle" /\ coverage' = coverage
    BY DEF RunAdversarialMatrix
  <1>2. ASSUME NEW cause, MatrixRaises(cause), ForCause(cause) PROVE RefusalInv'
    <2>1. stage' = "idle" /\ refusal' = cause /\ tree' = tree
      BY <1>2 DEF MatrixRaises, Ends
    <2>2. QED
      BY <1>1, <1>2, <2>1, RefusalGoesOn
  <1>3. CASE MatrixRaises(Absent)
    BY <1>2, <1>3, NoRefusal
  <1>4. CASE ~first /\ ~PlanIdsAreUnique(plans)
             /\ MatrixRaises([how |-> "plan ids", selection |-> selection])
    <2> DEFINE cause == [how |-> "plan ids", selection |-> selection]
    <2>1. \E i, j \in DOMAIN selection : i # j /\ selection[i].family = selection[j].family
      BY <1>4, IdsAreRefusedForCause
    <2>2. ForCause(cause)
      BY <2>1 DEF ForCause
    <2> HIDE DEF cause
    <2>3. QED
      BY <1>2, <1>4, <2>2 DEF cause
  <1>5. CASE WritePlan("matrix", session, release, plans)
    <2>1. stage' \in {"idle", "collecting"} /\ refusal' = Absent
      BY <1>5 DEF WritePlan, Cut, Ends, Goes
    <2>2. QED
      BY <1>1, <2>1, NoRefusal, RefusalGoesOn
  <1>6. QED
    BY <1>3, <1>4, <1>5 DEF RunAdversarialMatrix

LEMMA RefusalSeries ==
  ASSUME RefusalInv, NEW session, NEW approval, RunSegmentedSeries(session, approval)
  PROVE  RefusalInv'
  <1>1. /\ stage = "idle" /\ coverage' = coverage
        /\ stage' \in {"idle", "collecting"} /\ refusal' = Absent
    BY DEF RunSegmentedSeries, MatrixRaises, WritePlan, Cut, Ends, Goes
  <1>2. QED
    BY <1>1, NoRefusal, RefusalGoesOn

LEMMA RefusalCollect ==
  ASSUME RefusalInv, SaveEvaluation \/ SkipSealed \/ \E kind : MakeRun(kind) \/ Complete(kind)
  PROVE  RefusalInv'
  <1>1. /\ stage \in {"saving", "collecting"} /\ coverage' = coverage
        /\ stage' \in {"idle", "saving", "collecting"} /\ refusal' \in {refusal, Absent}
    BY DEF SaveEvaluation, SkipSealed, MakeRun, Complete, Cut, Ends
  <1>2. refusal' = Absent
    BY <1>1 DEF RefusalInv
  <1>3. QED
    BY <1>1, <1>2, NoRefusal, RefusalGoesOn

LEMMA RefusalStep ==
  ASSUME TypeOK, TornInv, RefusalInv, [Next]_vars
  PROVE  RefusalInv'
  <1>1. CASE UNCHANGED vars
    BY <1>1 DEF vars, RefusalInv, ForCause, OfFamily, PrimaryRuns, AllFamilies, Unfinished
  <1>2. CASE Next
    BY <1>2, RefusalExtraction, RefusalEvaluate, RefusalMatrix, RefusalSeries, RefusalCollect
       DEF Next, RunPeriodicSynchronizationStudy, MakeMatrixRun, MakeSegment, CompleteMatrix,
           CompleteSeries
  <1>3. QED
    BY <1>1, <1>2

(* Nothing in the tree that a session rests on has changed. *)
LEMMA TornGoesOn ==
  ASSUME TornInv, UNCHANGED <<tree.plans, tree.torn, tree.extractions>>,
         stage' = "collecting" => stage = "collecting" /\ call'.session = call.session
  PROVE  TornInv'
  BY DEF TornInv, TornAreUnfinished, CallIsUnfinished, Unfinished

LEMMA TornPlan ==
  ASSUME TypeOK, TornInv, NEW kind, NEW session \in Sessions, session \notin tree.plans, NEW release,
         NEW plans, WritePlan(kind, session, release, plans)
  PROVE  TornInv'
  <1>1. CASE Cut /\ UNCHANGED tree
    BY <1>1, TornGoesOn DEF Cut, Ends
  <1>2. CASE tree' = [tree EXCEPT !.plans = @ \cup {session}]
    <2>1. /\ tree'.plans = tree.plans \cup {session}
          /\ UNCHANGED <<tree.torn, tree.extractions>>
      BY <1>2 DEF TypeOK, Trees
    <2>2. session \notin BenignSessions
      BY EvaluationAssumption DEF BenignSessions
    <2>3. session \notin tree.torn /\ \A x \in tree.extractions : x.session # session
      BY <2>2 DEF TornInv, TornAreUnfinished, Unfinished
    <2>4. TornAreUnfinished' /\ \A x \in tree'.extractions : x.session \in tree'.plans
      BY <2>1 DEF TornInv, TornAreUnfinished, Unfinished
    <2>5. Unfinished(session)'
      BY <2>1, <2>3 DEF Unfinished
    <2>6. stage' = "collecting" => call'.session = session
      BY DEF WritePlan, Cut, Ends
    <2>7. CallIsUnfinished'
      BY <2>1, <2>3, <2>5, <2>6 DEF CallIsUnfinished, Unfinished
    <2>8. QED
      BY <2>4, <2>7 DEF TornInv
  <1>3. QED
    BY <1>1, <1>2 DEF WritePlan

LEMMA TornMakeRun ==
  ASSUME TypeOK, TornInv, NEW kind, MakeRun(kind)
  PROVE  TornInv'
  <1>1. stage = "collecting" /\ call \in Calls /\ tree \in Trees
    BY DEF MakeRun, TypeOK
  <1>2. CASE Cut /\ UNCHANGED tree
    BY <1>2, TornGoesOn DEF Cut, Ends
  <1>3. CASE Cut /\ tree' = [tree EXCEPT !.torn = @ \cup {call.session}]
    <2>1. /\ tree'.torn = tree.torn \cup {call.session}
          /\ UNCHANGED <<tree.plans, tree.extractions>> /\ stage' = "idle"
      BY <1>1, <1>3 DEF Trees, Cut, Ends
    <2>2. call.session \in Sessions /\ Unfinished(call.session)
      BY <1>1 DEF Calls, TornInv, CallIsUnfinished
    <2>3. TornAreUnfinished'
      BY <2>1, <2>2 DEF TornInv, TornAreUnfinished, Unfinished
    <2>4. QED
      BY <2>1, <2>3 DEF TornInv, CallIsUnfinished
  <1>4. ASSUME NEW run, NEW done, tree' = [tree EXCEPT !.runs = @ \cup {run}], Finalize(done)
        PROVE  TornInv'
    <2>1. UNCHANGED <<tree.plans, tree.torn, tree.extractions>>
      BY <1>1, <1>4 DEF Trees
    <2>2. call'.session = call.session
      BY <1>1, <1>4 DEF Finalize, Calls
    <2>3. QED
      BY <1>1, <2>1, <2>2, TornGoesOn
  <1>5. QED
    BY <1>2, <1>3, <1>4 DEF MakeRun

LEMMA TornComplete ==
  ASSUME TypeOK, TornInv, NEW kind, Complete(kind)
  PROVE  TornInv'
  <1>1. stage = "collecting" /\ tree \in Trees /\ stage' = "idle" /\ call.session \in Sessions
    BY DEF Complete, TypeOK, Cut, Ends, Calls
  <1>2. CASE UNCHANGED tree
    BY <1>1, <1>2, TornGoesOn
  <1>3. ASSUME NEW rows,
               tree' = [tree EXCEPT
                          !.extractions = @ \cup {[session |-> call.session, rows |-> rows]},
                          !.newest = "adversarial"]
        PROVE  TornInv'
    <2> DEFINE x == [session |-> call.session, rows |-> rows]
    <2>1. tree'.extractions = tree.extractions \cup {x} /\ UNCHANGED <<tree.plans, tree.torn>>
      BY <1>1, <1>3 DEF Trees
    <2>2. x.session = call.session
      OBVIOUS
    <2> HIDE DEF x
    <2>3. call.session \notin tree.torn /\ call.session \in tree.plans
      BY <1>1 DEF TornInv, CallIsUnfinished, Unfinished
    <2>4. TornAreUnfinished'
      BY <2>1, <2>2, <2>3 DEF TornInv, TornAreUnfinished, Unfinished
    <2>5. QED
      BY <1>1, <2>1, <2>2, <2>3, <2>4 DEF TornInv, CallIsUnfinished
  <1>4. QED
    BY <1>2, <1>3 DEF Complete

LEMMA TornStep ==
  ASSUME TypeOK, TornInv, [Next]_vars
  PROVE  TornInv'
  <1>1. tree = [tree EXCEPT !.plans = tree.plans] /\ tree \in Trees
    BY DEF TypeOK, Trees
  <1>2. CASE ExtractRun \/ FinishExtraction \/ Analyse \/ Dismiss \/ UNCHANGED vars
    <2>1. tree' = tree \/ tree' = [tree EXCEPT !.newest = "benign"]
      BY <1>2 DEF ExtractRun, FinishExtraction, Analyse, Dismiss, vars
    <2>2. UNCHANGED <<tree.plans, tree.torn, tree.extractions>>
      BY <1>1, <2>1 DEF Trees
    <2>3. stage' = "collecting" => stage = "collecting" /\ call'.session = call.session
      BY <1>2 DEF ExtractRun, FinishExtraction, Analyse, Dismiss, vars
    <2>4. QED
      BY <2>2, <2>3, TornGoesOn
  <1>3. ASSUME NEW loaded, NEW gate, NEW extraction, NEW plan, NEW release,
               EvaluateDetector(loaded, gate, extraction, plan, release)
        PROVE  TornInv'
    <2>1. tree' = tree /\ stage' # "collecting"
      BY <1>3 DEF EvaluateDetector, EvaluationRaises, Ends, Goes
    <2>2. QED
      BY <2>1, TornGoesOn
  <1>4. CASE SaveEvaluation
    <2>1. stage' # "collecting" /\ \E left : tree' = [tree EXCEPT !.evaluation = left]
      BY <1>4 DEF SaveEvaluation, Cut, Ends
    <2>2. UNCHANGED <<tree.plans, tree.torn, tree.extractions>>
      BY <1>1, <2>1 DEF Trees
    <2>3. QED
      BY <2>1, <2>2, TornGoesOn
  <1>5. ASSUME NEW cause, MatrixRaises(cause) PROVE TornInv'
    BY <1>5, TornGoesOn DEF MatrixRaises, Ends
  <1>6. ASSUME NEW session \in Sessions, NEW approval, NEW final_approval, NEW release,
               NEW selection, NEW plan,
               RunAdversarialMatrix(session, approval, final_approval, release, selection, plan)
        PROVE  TornInv'
    <2>1. \/ \E cause : MatrixRaises(cause)
          \/ /\ session \notin tree.plans
             /\ \E plans : WritePlan("matrix", session, release, plans)
      BY <1>6 DEF RunAdversarialMatrix
    <2>2. QED
      BY <1>5, <2>1, TornPlan
  <1>7. ASSUME NEW session \in Sessions, NEW approval, RunSegmentedSeries(session, approval)
        PROVE  TornInv'
    <2>1. \/ \E cause : MatrixRaises(cause)
          \/ /\ session \notin tree.plans
             /\ \E plans : WritePlan("series", session, FALSE, plans)
      BY <1>7 DEF RunSegmentedSeries
    <2>2. QED
      BY <1>5, <2>1, TornPlan
  <1>8. CASE SkipSealed
    <2>1. tree' = tree /\ stage = "collecting" /\ call'.session = call.session
      BY <1>8 DEF SkipSealed, Finalize, TypeOK, Calls
    <2>2. QED
      BY <2>1, TornGoesOn
  <1>9. QED
    BY <1>2, <1>3, <1>4, <1>6, <1>7, <1>8, TornMakeRun, TornComplete
       DEF Next, RunPeriodicSynchronizationStudy, MakeMatrixRun, MakeSegment, CompleteMatrix,
           CompleteSeries

LEMMA TornInit == Init => TornInv
  <1> SUFFICES ASSUME Init PROVE TornInv
    OBVIOUS
  <1>1. PICK torn \in SUBSET BenignSessions : tree = EmptyTree(torn)
    BY DEF Init
  <1>2. tree.torn = torn /\ tree.extractions = {} /\ stage # "collecting"
    BY <1>1 DEF EmptyTree, Init
  <1>3. QED
    BY <1>2 DEF TornInv, TornAreUnfinished, CallIsUnfinished

(* What evaluate_detector and run_adversarial_matrix refuse after their     *)
(* gates, they refuse for a cause outside of them: for all corpora, holdout *)
(* plans and selections, and for all gates a caller may ask for.  A         *)
(* stratified split of strata of three or more exists whatever the         *)
(* fractions are, and a session that is torn is never finished.            *)
THEOREM RefusalCorrect == Spec => []EvaluationIsRefusedForCause
  <1>1. Init => TypeOK /\ TornInv /\ RefusalInv
    BY TypeInit, TornInit, NoRefusal DEF Init, RefusalInv
  <1>2. TypeOK /\ TornInv /\ RefusalInv /\ [Next]_vars => (TypeOK /\ TornInv /\ RefusalInv)'
    BY TypeStep, TornStep, RefusalStep
  <1>3. RefusalInv => EvaluationIsRefusedForCause
    BY RefusalIs DEF RefusalInv
  <1>4. QED
    BY <1>1, <1>2, <1>3, PTL DEF Spec

=============================================================================
