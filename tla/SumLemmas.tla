------------------------------ MODULE SumLemmas ------------------------------
(***************************************************************************)
(* Sums over a finite set, whatever the order in which a fold of the       *)
(* community modules takes the elements.                                   *)
(***************************************************************************)
EXTENDS Integers, FiniteSets, FiniteSetTheorems, WellFoundedInduction, TLAPS

(* The prover has no induction over an operator, but a set of numbers with *)
(* 0 and every successor is Nat.                                           *)
LEMMA EveryNumber ==
  ASSUME NEW P \in SUBSET Nat, 0 \in P, \A n \in P : n + 1 \in P
  PROVE  P = Nat
<1>1. SUFFICES ASSUME Nat \ P # {} PROVE FALSE
  OBVIOUS
<1>2. PICK n \in Nat \ P : \A m \in Nat \ P : <<m, n>> \notin OpToRel(<, Nat)
  BY <1>1, WFMin, NatLessThanWellFounded
<1>3. n \in Nat /\ n \notin P /\ \A m \in Nat \ P : ~(m < n)
  BY <1>2 DEF OpToRel
<1>4. n # 0
  BY <1>3
<1>5. n - 1 \in Nat /\ n - 1 < n /\ (n - 1) + 1 = n
  BY <1>3, <1>4
<1>6. n - 1 \notin P
  BY <1>3, <1>5
<1>. QED
  BY <1>3, <1>5, <1>6

(* What MapThenSumSet is by its definition: a walk through the subsets.    *)
First(s)       == CHOOSE x \in s : TRUE
Rest(s)        == s \ {First(s)}
Turn(F, g, s)  == IF s = {} THEN 0 ELSE F[First(s)] + g[Rest(s)]
Follows(g, F, S) == \A s \in SUBSET S : g[s] = Turn(F, g, s)
Walk(F, S)     == CHOOSE g : g = [s \in SUBSET S |-> Turn(F, g, s)]
Total(F, S)    == Walk(F, S)[S]

LEMMA FirstIsIn == \A s : s # {} => First(s) \in s
  BY DEF First

LEMMA RestIsSmaller ==
  ASSUME NEW s, IsFiniteSet(s), s # {}
  PROVE  /\ IsFiniteSet(Rest(s)) /\ Cardinality(Rest(s)) \in Nat
         /\ Cardinality(Rest(s)) + 1 = Cardinality(s)
<1>1. First(s) \in s
  BY FirstIsIn
<1>2. IsFiniteSet(Rest(s)) /\ Cardinality(Rest(s)) = Cardinality(s) - 1
  BY <1>1, FS_RemoveElement DEF Rest
<1>3. Cardinality(s) \in Nat /\ Cardinality(Rest(s)) \in Nat
  BY <1>2, FS_CardinalityType
<1>. QED
  BY <1>2, <1>3

LEMMA PartIsFinite ==
  ASSUME NEW S, IsFiniteSet(S), NEW s \in SUBSET S
  PROVE  IsFiniteSet(s) /\ Cardinality(s) \in Nat /\ (Cardinality(s) = 0 <=> s = {})
  BY FS_Subset, FS_CardinalityType, FS_EmptySet

(* Two walks that agree on the elements agree on every subset.             *)
LEMMA WalksAgree ==
  ASSUME NEW S, IsFiniteSet(S), NEW F, NEW H, \A x \in S : F[x] = H[x],
         NEW g, NEW h, Follows(g, F, S), Follows(h, H, S)
  PROVE  \A s \in SUBSET S : g[s] = h[s]
<1>. DEFINE P == {n \in Nat : \A s \in SUBSET S : Cardinality(s) = n => g[s] = h[s]}
<1>1. 0 \in P
  <2>1. \A s \in SUBSET S : Cardinality(s) = 0 => g[s] = h[s]
    BY PartIsFinite DEF Turn, Follows
  <2>. QED
    BY <2>1
<1>2. ASSUME NEW n \in P PROVE n + 1 \in P
  <2>1. SUFFICES ASSUME NEW s \in SUBSET S, Cardinality(s) = n + 1 PROVE g[s] = h[s]
    OBVIOUS
  <2>2. s # {} /\ IsFiniteSet(s)
    BY <2>1, PartIsFinite
  <2>3. Cardinality(Rest(s)) = n /\ Rest(s) \in SUBSET S
    <3>1. Cardinality(Rest(s)) \in Nat /\ Cardinality(Rest(s)) + 1 = Cardinality(s)
      BY <2>2, RestIsSmaller
    <3>2. Rest(s) \in SUBSET S
      BY DEF Rest
    <3>. QED
      BY <2>1, <3>1, <3>2
  <2>4. g[Rest(s)] = h[Rest(s)] /\ F[First(s)] = H[First(s)]
    BY <2>2, <2>3, FirstIsIn
  <2>. QED
    BY <2>2, <2>4 DEF Turn, Follows
<1>3. P = Nat
  <2>1. P \in SUBSET Nat
    OBVIOUS
  <2>. HIDE DEF P
  <2>. QED
    BY <1>1, <1>2, <2>1, EveryNumber
<1>. QED
  BY <1>3, PartIsFinite

(* The walk exists: extended one size at a time, it is right everywhere.   *)
LEMMA WalkExists ==
  ASSUME NEW S, IsFiniteSet(S), NEW F \in [S -> Nat]
  PROVE  \E g : g \in [SUBSET S -> Nat] /\ Follows(g, F, S)
<1>. DEFINE Right(g, n) == \A s \in SUBSET S : Cardinality(s) <= n => g[s] = Turn(F, g, s)
            P == {n \in Nat : \E g \in [SUBSET S -> Nat] : Right(g, n)}
<1>1. 0 \in P
  <2>1. Right([s \in SUBSET S |-> 0], 0)
    BY PartIsFinite DEF Turn
  <2>. QED
    BY <2>1
<1>2. ASSUME NEW n \in P PROVE n + 1 \in P
  <2>1. PICK g \in [SUBSET S -> Nat] : Right(g, n)
    OBVIOUS
  <2>. DEFINE h == [s \in SUBSET S |-> Turn(F, g, s)]
  <2>2. h \in [SUBSET S -> Nat]
    BY FirstIsIn DEF Turn, Rest
  <2>3. ASSUME NEW s \in SUBSET S, Cardinality(s) <= n + 1 PROVE h[s] = Turn(F, h, s)
    <3>1. CASE s = {}
      BY <3>1 DEF Turn
    <3>2. CASE s # {}
      <4>1. IsFiniteSet(s) /\ Rest(s) \in SUBSET S
        BY FS_Subset DEF Rest
      <4>2. Cardinality(Rest(s)) <= n
        BY <2>3, <3>2, <4>1, RestIsSmaller
      <4>3. g[Rest(s)] = h[Rest(s)]
        BY <2>1, <4>1, <4>2
      <4>. QED
        BY <3>2, <4>3 DEF Turn
    <3>. QED
      BY <3>1, <3>2
  <2>4. Right(h, n + 1)
    BY <2>3
  <2>. HIDE DEF h
  <2>. QED
    BY <2>2, <2>4
<1>3. P = Nat
  <2>1. P \in SUBSET Nat
    OBVIOUS
  <2>. HIDE DEF P
  <2>. QED
    BY <1>1, <1>2, <2>1, EveryNumber
<1>4. Cardinality(S) \in P
  BY <1>3, FS_CardinalityType
<1>5. PICK g \in [SUBSET S -> Nat] : Right(g, Cardinality(S))
  BY <1>4
<1>6. \A s \in SUBSET S : Cardinality(s) <= Cardinality(S)
  BY FS_Subset
<1>7. Follows(g, F, S)
  BY <1>5, <1>6 DEF Follows
<1>. QED
  BY <1>7

LEMMA WalkIsRight ==
  ASSUME NEW S, IsFiniteSet(S), NEW F \in [S -> Nat]
  PROVE  Walk(F, S) \in [SUBSET S -> Nat] /\ Follows(Walk(F, S), F, S)
<1>1. PICK g : g \in [SUBSET S -> Nat] /\ Follows(g, F, S)
  BY WalkExists
<1>2. g = [s \in SUBSET S |-> Turn(F, g, s)]
  BY <1>1 DEF Follows
<1>. DEFINE W == Walk(F, S)
<1>3. W = [s \in SUBSET S |-> Turn(F, W, s)]
  BY <1>2 DEF Walk
<1>. HIDE DEF W
<1>4. Follows(W, F, S)
  BY <1>3 DEF Follows
<1>5. \A s \in SUBSET S : W[s] = g[s]
  <2>1. \A x \in S : F[x] = F[x]
    OBVIOUS
  <2>. QED
    BY <1>1, <1>4, <2>1, WalksAgree
<1>6. \A s \in SUBSET S : W[s] \in Nat
  BY <1>1, <1>5
<1>7. DOMAIN W = SUBSET S /\ W = [s \in DOMAIN W |-> W[s]]
  BY <1>3
<1>8. W \in [SUBSET S -> Nat]
  BY <1>6, <1>7
<1>. QED
  BY <1>4, <1>8 DEF W

(* The order of the walk does not matter.                                  *)
LEMMA AnyFirst ==
  ASSUME NEW S, IsFiniteSet(S), NEW F \in [S -> Nat]
  PROVE  \A s \in SUBSET S : \A x \in s : Walk(F, S)[s] = F[x] + Walk(F, S)[s \ {x}]
<1>. DEFINE W == Walk(F, S)
            P == {n \in Nat : \A s \in SUBSET S : Cardinality(s) = n =>
                                \A x \in s : W[s] = F[x] + W[s \ {x}]}
<1>1. W \in [SUBSET S -> Nat] /\ Follows(W, F, S)
  BY WalkIsRight
<1>. HIDE DEF W
<1>2. 0 \in P
  <2>1. \A s \in SUBSET S : Cardinality(s) = 0 => s = {}
    BY PartIsFinite
  <2>. QED
    BY <2>1
<1>3. ASSUME NEW n \in P PROVE n + 1 \in P
  <2>1. SUFFICES ASSUME NEW s \in SUBSET S, Cardinality(s) = n + 1, NEW x \in s
                 PROVE  W[s] = F[x] + W[s \ {x}]
    OBVIOUS
  <2>. DEFINE y == First(s)
  <2>2. y \in s /\ W[s] = F[y] + W[s \ {y}]
    BY <1>1, FirstIsIn DEF Turn, Rest, Follows
  <2>. HIDE DEF y
  <2>3. CASE x = y
    BY <2>2, <2>3
  <2>4. CASE x # y
    <3>1. IsFiniteSet(s)
      BY FS_Subset
    <3>2. Cardinality(s \ {x}) = n /\ Cardinality(s \ {y}) = n
      <4>1. Cardinality(s \ {x}) = Cardinality(s) - 1
        BY <3>1, FS_RemoveElement
      <4>2. Cardinality(s \ {y}) = Cardinality(s) - 1
        BY <2>2, <3>1, FS_RemoveElement
      <4>. QED
        BY <2>1, <4>1, <4>2
    <3>3. W[s \ {y}] = F[x] + W[(s \ {y}) \ {x}]
      BY <2>4, <3>2
    <3>4. W[s \ {x}] = F[y] + W[(s \ {x}) \ {y}]
      BY <2>2, <2>4, <3>2
    <3>5. (s \ {x}) \ {y} = (s \ {y}) \ {x}
      OBVIOUS
    <3>6. F[x] \in Nat /\ F[y] \in Nat /\ W[(s \ {y}) \ {x}] \in Nat
      BY <1>1, <2>2
    <3>7. F[y] + (F[x] + W[(s \ {y}) \ {x}]) = F[x] + (F[y] + W[(s \ {y}) \ {x}])
      BY <3>6
    <3>. QED
      BY <2>2, <3>3, <3>4, <3>5, <3>7, Zenon
  <2>. QED
    BY <2>3, <2>4
<1>4. P = Nat
  <2>1. P \in SUBSET Nat
    OBVIOUS
  <2>. HIDE DEF P
  <2>. QED
    BY <1>2, <1>3, <2>1, EveryNumber
<1>5. \A s \in SUBSET S : \A x \in s : W[s] = F[x] + W[s \ {x}]
  BY <1>4, PartIsFinite
<1>. QED
  BY <1>5 DEF W

(* The three facts about sums that are used below.                         *)
LEMMA TotalIsNumber ==
  ASSUME NEW S, IsFiniteSet(S), NEW F \in [S -> Nat]
  PROVE  Total(F, S) \in Nat /\ (S = {} => Total(F, S) = 0)
<1>1. S \in SUBSET S
  OBVIOUS
<1>. DEFINE W == Walk(F, S)
<1>2. W \in [SUBSET S -> Nat] /\ Follows(W, F, S)
  BY WalkIsRight
<1>. HIDE DEF W
<1>3. W[S] \in Nat /\ W[S] = Turn(F, W, S)
  BY <1>1, <1>2 DEF Follows
<1>. QED
  BY <1>3 DEF Total, Turn, W

LEMMA TotalDepends ==
  ASSUME NEW S, IsFiniteSet(S), NEW F \in [S -> Nat],
         NEW L, S \subseteq L, IsFiniteSet(L), NEW H \in [L -> Nat],
         \A x \in S : F[x] = H[x]
  PROVE  Total(F, S) = Walk(H, L)[S]
<1>1. Follows(Walk(F, S), F, S)
  BY WalkIsRight
<1>2. Follows(Walk(H, L), H, L)
  BY WalkIsRight
<1>3. Follows(Walk(H, L), H, S)
  BY <1>2 DEF Follows
<1>4. \A s \in SUBSET S : Walk(F, S)[s] = Walk(H, L)[s]
  BY <1>1, <1>3, WalksAgree
<1>. QED
  BY <1>4 DEF Total

LEMMA TotalOfOneMore ==
  ASSUME NEW L, IsFiniteSet(L), NEW H \in [L -> Nat], NEW x \in L,
         NEW F \in [L \ {x} -> Nat], \A y \in L \ {x} : F[y] = H[y]
  PROVE  Total(H, L) = H[x] + Total(F, L \ {x})
<1>1. IsFiniteSet(L \ {x}) /\ L \ {x} \subseteq L
  BY FS_RemoveElement
<1>2. Total(F, L \ {x}) = Walk(H, L)[L \ {x}]
  BY <1>1, TotalDepends
<1>3. Walk(H, L)[L] = H[x] + Walk(H, L)[L \ {x}]
  BY AnyFirst
<1>. QED
  BY <1>2, <1>3 DEF Total
=============================================================================
