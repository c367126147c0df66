--------------------------- MODULE ServerReadsProofs ---------------------------
(***************************************************************************)
(* Theorems about the reads of a server, for any callers, plugins, paths,  *)
(* sizes and limits.                                                       *)
(*                                                                         *)
(* Their admission: the counters of the scheduler are those of the tasks   *)
(* that hold a slot, nobody waits who could have had one, nothing is       *)
(* started late, and nobody is overtaken by a later task of the same       *)
(* plugin that needs as much.  What they get and leave behind: a channel   *)
(* serves one read, a shared read lives as long as somebody wants it, a    *)
(* page is current, and the cache of listings is exact and refreshed.      *)
(*                                                                         *)
(* drain is a fold over the queue, and the bytes reserved or held are a    *)
(* fold over a set.  A fold is the one function that satisfies its         *)
(* equation; that there is one, and what it returns, is shown by looking   *)
(* at the least length (or size) at which it fails.                        *)
(***************************************************************************)
EXTENDS MCServerReads, Selections, FiniteSetTheorems, SequenceTheorems, WellFoundedInduction, TLAPS

-----------------------------------------------------------------------------
(* Natural numbers and functions defined by recursion on them.             *)

\* A set of natural numbers has a least element.
LEMMA LeastExists ==
  ASSUME NEW S, S \subseteq Nat, S # {}
  PROVE  \E x \in S : \A y \in S : x <= y
<1> DEFINE R == OpToRel(<, Nat)
<1>1. IsWellFoundedOn(R, Nat)
  BY NatLessThanWellFounded
<1>2. PICK x \in S : \A y \in S : ~(<<y, x>> \in R)
  <2> HIDE DEF R
  <2> QED
    BY <1>1, WFMin
<1>3. ASSUME NEW y \in S PROVE x <= y
  <2>1. ~(y < x)
    BY <1>2 DEF OpToRel
  <2> QED
    BY <2>1
<1> QED
  BY <1>3

\* ... and one below a number a greatest.
LEMMA GreatestExists ==
  ASSUME NEW n \in Nat, NEW S, S \subseteq 1..n, S # {}
  PROVE  \E x \in S : \A y \in S : y <= x
<1> DEFINE T == {n - x : x \in S}
<1>1. T \subseteq Nat /\ T # {}
  <2>1. ASSUME NEW x \in S PROVE n - x \in Nat
    OBVIOUS
  <2>2. PICK x \in S : TRUE
    OBVIOUS
  <2>3. n - x \in T
    OBVIOUS
  <2> QED
    BY <2>1, <2>3
<1>2. PICK z \in T : \A y \in T : z <= y
  <2> HIDE DEF T
  <2> QED
    BY <1>1, LeastExists
<1>3. PICK x \in S : z = n - x
  OBVIOUS
<1>4. ASSUME NEW y \in S PROVE y <= x
  <2>1. n - x <= n - y
    BY <1>2, <1>3
  <2>2. n \in Int /\ x \in Int /\ y \in Int
    OBVIOUS
  <2> QED
    BY <2>1, <2>2
<1> QED
  BY <1>4

\* C chooses an element of each set; h is the fold of G over the subsets of S.
Chooses(C, S) == \A s \in SUBSET S : s # {} => C[s] \in s

\* h folds G over the subsets of S, in the order in which C chooses.
IsFold(h, S, base, C, G) ==
  \A s \in SUBSET S : h[s] = IF s = {} THEN base ELSE G[<<C[s], h[s \ {C[s]}]>>]

\* A fold over a finite set exists.
LEMMA FoldExists ==
  ASSUME NEW S, IsFiniteSet(S), NEW D, NEW base \in D,
         NEW C, Chooses(C, S),
         NEW G \in [S \X D -> D]
  PROVE  \E h \in [SUBSET S -> D] : IsFold(h, S, base, C, G)
<1> USE DEF Chooses, IsFold
<1> DEFINE Level(n) == {s \in SUBSET S : Cardinality(s) <= n}
           Good(n, h) == /\ h \in [Level(n) -> D]
                         /\ \A s \in Level(n) :
                              h[s] = IF s = {} THEN base ELSE G[<<C[s], h[s \ {C[s]}]>>]
           Bad == {n \in Nat : ~ \E h : Good(n, h)}
<1>1. \A s \in SUBSET S : IsFiniteSet(s) /\ Cardinality(s) \in Nat
  BY FS_Subset, FS_CardinalityType
<1>2. \A n \in Nat : \A s \in Level(n + 1) : s # {} => s \ {C[s]} \in Level(n)
  <2> SUFFICES ASSUME NEW n \in Nat, NEW s \in Level(n + 1), s # {}
               PROVE  s \ {C[s]} \in Level(n)
    OBVIOUS
  <2>1. C[s] \in s /\ IsFiniteSet(s) /\ Cardinality(s) \in Nat
    BY <1>1
  <2>2. Cardinality(s \ {C[s]}) = Cardinality(s) - 1
    BY <2>1, FS_RemoveElement
  <2> QED
    BY <2>1, <2>2
<1>3. Bad = {}
  <2> SUFFICES ASSUME Bad # {} PROVE FALSE
    OBVIOUS
  <2>1. PICK n \in Bad : \A k \in Bad : n <= k
    <3>1. Bad \subseteq Nat
      OBVIOUS
    <3> HIDE DEF Bad
    <3> QED
      BY <3>1, LeastExists
  <2>2. CASE n = 0
    <3> DEFINE g == [s \in Level(0) |-> base]
    <3>1. \A s \in Level(0) : s = {}
      BY <1>1, FS_EmptySet
    <3>2. Good(0, g)
      BY <3>1
    <3> QED
      BY <2>1, <2>2, <3>2
  <2>3. CASE n # 0
    <3>1. n \in Nat /\ n - 1 \in Nat /\ n - 1 \notin Bad
      <4>1. n \in Nat
        BY <2>1
      <4>2. n - 1 \in Nat /\ ~(n <= n - 1)
        BY <4>1, <2>3
      <4> HIDE DEF Bad
      <4> QED
        BY <2>1, <4>1, <4>2
    <3>2. PICK h : Good(n - 1, h)
      BY <3>1
    <3> DEFINE g == [s \in Level(n) |-> IF s = {} THEN base ELSE G[<<C[s], h[s \ {C[s]}]>>]]
    <3>3. \A s \in Level(n) : s # {} => s \ {C[s]} \in Level(n - 1)
      <4>1. (n - 1) + 1 = n
        BY <3>1
      <4> HIDE DEF Level
      <4> QED
        BY <1>2, <3>1, <4>1
    <3>4. \A s \in Level(n) : s # {} => C[s] \in S /\ h[s \ {C[s]}] \in D
      BY <3>2, <3>3
    <3>5. g \in [Level(n) -> D]
      BY <3>4
    <3>6. \A s \in Level(n - 1) : s \in Level(n) /\ g[s] = h[s]
      <4>1. Level(n - 1) \subseteq Level(n)
        BY <1>1, <3>1
      <4> QED
        BY <4>1, <3>2
    <3>7. \A s \in Level(n) : g[s] = IF s = {} THEN base ELSE G[<<C[s], g[s \ {C[s]}]>>]
      <4> SUFFICES ASSUME NEW s \in Level(n), s # {}
                   PROVE  g[s] = G[<<C[s], g[s \ {C[s]}]>>]
        OBVIOUS
      <4>1. g[s \ {C[s]}] = h[s \ {C[s]}]
        BY <3>3, <3>6
      <4> QED
        BY <4>1
    <3>8. Good(n, g)
      BY <3>5, <3>7
    <3> QED
      BY <2>1, <3>8
  <2> QED
    BY <2>2, <2>3
<1>4. Cardinality(S) \in Nat
  BY FS_CardinalityType
<1>5. PICK h : Good(Cardinality(S), h)
  BY <1>3, <1>4
<1>6. Level(Cardinality(S)) = SUBSET S
  BY FS_Subset
<1> QED
  BY <1>5, <1>6

\* Two functions that satisfy the equation of a fold agree.
LEMMA FoldUnique ==
  ASSUME NEW S, IsFiniteSet(S), NEW base,
         NEW C, Chooses(C, S),
         NEW G, NEW g, NEW h, IsFold(g, S, base, C, G), IsFold(h, S, base, C, G)
  PROVE  \A s \in SUBSET S : g[s] = h[s]
<1> USE DEF Chooses, IsFold
<1> DEFINE Bad == {n \in Nat : \E s \in SUBSET S : Cardinality(s) = n /\ g[s] # h[s]}
<1>1. \A s \in SUBSET S : IsFiniteSet(s) /\ Cardinality(s) \in Nat
  BY FS_Subset, FS_CardinalityType
<1>2. Bad = {}
  <2> SUFFICES ASSUME Bad # {} PROVE FALSE
    OBVIOUS
  <2>1. PICK n \in Bad : \A k \in Bad : n <= k
    <3>1. Bad \subseteq Nat
      OBVIOUS
    <3> HIDE DEF Bad
    <3> QED
      BY <3>1, LeastExists
  <2>2. PICK s \in SUBSET S : Cardinality(s) = n /\ g[s] # h[s]
    BY <2>1
  <2>3. s # {}
    BY <2>2
  <2>4. C[s] \in s /\ s \ {C[s]} \in SUBSET S
    BY <2>3
  <2>5. g[s \ {C[s]}] # h[s \ {C[s]}]
    BY <2>2, <2>3, <2>4
  <2>6. Cardinality(s \ {C[s]}) = n - 1 /\ n - 1 \in Nat
    <3>1. IsFiniteSet(s) /\ Cardinality(s \ {C[s]}) \in Nat
      BY <1>1, <2>4
    <3>2. Cardinality(s \ {C[s]}) = Cardinality(s) - 1
      BY <2>4, <3>1, FS_RemoveElement
    <3> QED
      BY <2>2, <3>1, <3>2
  <2>7. n - 1 \in Bad
    BY <2>4, <2>5, <2>6
  <2>8. n \in Nat /\ ~(n <= n - 1)
    BY <2>1
  <2> HIDE DEF Bad
  <2> QED
    BY <2>1, <2>7, <2>8
<1>3. ASSUME NEW s \in SUBSET S PROVE g[s] = h[s]
  <2>1. Cardinality(s) \in Nat /\ Cardinality(s) \notin Bad
    BY <1>1, <1>2
  <2> QED
    BY <2>1
<1> QED
  BY <1>3

-----------------------------------------------------------------------------
(* Sums over sets.                                                         *)

\* The sum of W over a set.
SumOf(W, S) == MapThenSumSet(LAMBDA x : W[x], S)

\* The definition of the sum, expanded.
LEMMA SumShape ==
  ASSUME NEW W, NEW S
  PROVE  SumOf(W, S) =
           (CHOOSE sum : sum =
              [s \in SUBSET S |->
                 IF s = {} THEN 0
                 ELSE W[CHOOSE x \in s : TRUE] + sum[s \ {CHOOSE x \in s : TRUE}]])[S]
BY DEF SumOf, MapThenSumSet, MapThenFoldSet

\* One element chosen from each set, and what it adds.
Choice(D) == [s \in SUBSET D |-> CHOOSE x \in s : TRUE]
Adding(D, W) == [z \in D \X Nat |-> W[z[1]] + z[2]]

\* Every set that is not empty gives one of its elements.
LEMMA ChoiceChooses ==
  ASSUME NEW D
  PROVE  \A s \in SUBSET D : s # {} => Choice(D)[s] \in s
BY DEF Choice

\* The sums are natural numbers.
LEMMA AddingType ==
  ASSUME NEW D, NEW W \in [D -> Nat]
  PROVE  Adding(D, W) \in [D \X Nat -> Nat]
BY DEF Adding

\* The sum of a set is given by one function for all of its subsets.
SummedBy(D, W, S, h) ==
  h \in [SUBSET S -> Nat] /\ IsFold(h, S, 0, Choice(D), Adding(D, W)) /\ SumOf(W, S) = h[S]

\* The sum is the fold of the library.
LEMMA SumIsFold ==
  ASSUME NEW D, IsFiniteSet(D), NEW W \in [D -> Nat], NEW S \in SUBSET D
  PROVE  \E h : SummedBy(D, W, S, h)
<1> DEFINE Sum == CHOOSE sum : sum =
              [s \in SUBSET S |->
                 IF s = {} THEN 0
                 ELSE W[CHOOSE x \in s : TRUE] + sum[s \ {CHOOSE x \in s : TRUE}]]
           GG == [z \in S \X Nat |-> Adding(D, W)[z]]
<1>1. IsFiniteSet(S)
  BY FS_Subset
<1>2. GG \in [S \X Nat -> Nat]
  <2>1. Adding(D, W) \in [D \X Nat -> Nat]
    BY AddingType
  <2> QED BY <2>1
<1>3. PICK h \in [SUBSET S -> Nat] :
        IsFold(h, S, 0, Choice(D), GG)
  <2>1. Chooses(Choice(D), S)
    BY ChoiceChooses DEF Chooses
  <2>2. 0 \in Nat
    OBVIOUS
  <2> HIDE DEF GG
  <2> QED
    BY <1>1, <1>2, <2>1, <2>2, FoldExists
<1> USE DEF IsFold
<1>4. \A s \in SUBSET S : s # {} =>
        /\ Choice(D)[s] \in S /\ Choice(D)[s] = (CHOOSE x \in s : TRUE)
        /\ s \ {Choice(D)[s]} \in SUBSET S /\ h[s \ {Choice(D)[s]}] \in Nat
        /\ GG[<<Choice(D)[s], h[s \ {Choice(D)[s]}]>>] = W[Choice(D)[s]] + h[s \ {Choice(D)[s]}]
        /\ Adding(D, W)[<<Choice(D)[s], h[s \ {Choice(D)[s]}]>>] = W[Choice(D)[s]] + h[s \ {Choice(D)[s]}]
  <2> SUFFICES ASSUME NEW s \in SUBSET S, s # {}
               PROVE /\ Choice(D)[s] \in S /\ Choice(D)[s] = (CHOOSE x \in s : TRUE)
                     /\ s \ {Choice(D)[s]} \in SUBSET S /\ h[s \ {Choice(D)[s]}] \in Nat
                     /\ GG[<<Choice(D)[s], h[s \ {Choice(D)[s]}]>>] = W[Choice(D)[s]] + h[s \ {Choice(D)[s]}]
                     /\ Adding(D, W)[<<Choice(D)[s], h[s \ {Choice(D)[s]}]>>] = W[Choice(D)[s]] + h[s \ {Choice(D)[s]}]
    OBVIOUS
  <2>1. Choice(D)[s] \in S /\ Choice(D)[s] = (CHOOSE x \in s : TRUE)
    BY ChoiceChooses DEF Choice
  <2>2. s \ {Choice(D)[s]} \in SUBSET S /\ h[s \ {Choice(D)[s]}] \in Nat
    BY <1>3
  <2>3. Adding(D, W)[<<Choice(D)[s], h[s \ {Choice(D)[s]}]>>] = W[Choice(D)[s]] + h[s \ {Choice(D)[s]}]
    BY <2>1, <2>2 DEF Adding
  <2> QED
    BY <2>1, <2>2, <2>3
<1>5. h = [s \in SUBSET S |-> IF s = {} THEN 0
                 ELSE W[CHOOSE x \in s : TRUE] + h[s \ {CHOOSE x \in s : TRUE}]]
  <2>1. \A s \in SUBSET S : h[s] = IF s = {} THEN 0
                 ELSE W[CHOOSE x \in s : TRUE] + h[s \ {CHOOSE x \in s : TRUE}]
    BY <1>3, <1>4
  <2> QED
    BY <1>3, <2>1
<1>6. Sum = [s \in SUBSET S |-> IF s = {} THEN 0
                 ELSE W[CHOOSE x \in s : TRUE] + Sum[s \ {CHOOSE x \in s : TRUE}]]
  BY <1>5
<1>7. \A s \in SUBSET S : Sum[s] = IF s = {} THEN 0
                 ELSE W[CHOOSE x \in s : TRUE] + Sum[s \ {CHOOSE x \in s : TRUE}]
  <2> HIDE DEF Sum
  <2> QED
    BY <1>6
<1>8. SumOf(W, S) = Sum[S]
  BY SumShape
<1> DEFINE GS == [z \in S \X (Nat \cup {Sum[s] : s \in SUBSET S}) |-> W[z[1]] + z[2]]
<1>9. IsFold(Sum, S, 0, Choice(D), GS)
  <2> HIDE DEF Sum
  <2>1. ASSUME NEW s \in SUBSET S, s # {}
        PROVE  GS[<<Choice(D)[s], Sum[s \ {Choice(D)[s]}]>>] = W[Choice(D)[s]] + Sum[s \ {Choice(D)[s]}]
    <3>1. Choice(D)[s] \in S /\ Sum[s \ {Choice(D)[s]}] \in Nat \cup {Sum[u] : u \in SUBSET S}
      BY <1>4, <2>1
    <3> QED
      BY <3>1
  <2>2. ASSUME NEW s \in SUBSET S, s # {}
        PROVE  Sum[s] = GS[<<Choice(D)[s], Sum[s \ {Choice(D)[s]}]>>]
    <3>1. GS[<<Choice(D)[s], Sum[s \ {Choice(D)[s]}]>>] = W[Choice(D)[s]] + Sum[s \ {Choice(D)[s]}]
      BY <2>1, <2>2
    <3>2. Choice(D)[s] = (CHOOSE x \in s : TRUE)
      BY <1>4, <2>2
    <3> DEFINE c == CHOOSE x \in s : TRUE
    <3>3. Sum[s] = W[c] + Sum[s \ {c}]
      BY <1>7, <2>2
    <3> HIDE DEF GS
    <3> QED
      BY <3>1, <3>2, <3>3
  <2> HIDE DEF GS
  <2> QED
    BY <1>7, <2>2
<1>10. IsFold(h, S, 0, Choice(D), GS)
  <2> HIDE DEF Sum
  <2> QED
    BY <1>3, <1>4
<1> HIDE DEF IsFold
<1>11. Sum[S] = h[S]
  <2>1. Chooses(Choice(D), S)
    BY ChoiceChooses DEF Chooses
  <2> HIDE DEF Sum, GS
  <2> QED
    BY <1>1, <1>9, <1>10, <2>1, FoldUnique
<1>12. IsFold(h, S, 0, Choice(D), Adding(D, W))
  BY <1>3, <1>4 DEF IsFold
<1>13. SummedBy(D, W, S, h)
  <2> HIDE DEF Sum, GS, GG
  <2> QED BY <1>3, <1>8, <1>11, <1>12 DEF SummedBy
<1> QED
  BY <1>13

\* One element more.
LEMMA SumStep ==
  ASSUME NEW D, IsFiniteSet(D), NEW W \in [D -> Nat]
  PROVE  /\ SumOf(W, {}) = 0
         /\ \A S \in SUBSET D : SumOf(W, S) \in Nat
         /\ \A S \in SUBSET D : S # {} => SumOf(W, S) = W[Choice(D)[S]] + SumOf(W, S \ {Choice(D)[S]})
<1>1. ASSUME NEW S \in SUBSET D PROVE SumOf(W, S) \in Nat
  <2>1. PICK h : SummedBy(D, W, S, h)
    BY SumIsFold
  <2> QED
    BY <2>1 DEF SummedBy
<1>2. SumOf(W, {}) = 0
  <2> DEFINE none == {}
  <2>0. none \in SUBSET D
    OBVIOUS
  <2> HIDE DEF none
  <2>1. PICK h : SummedBy(D, W, none, h)
    BY <2>0, SumIsFold
  <2> QED
    BY <2>1 DEF SummedBy, IsFold, none
<1>3. ASSUME NEW S \in SUBSET D, S # {}
      PROVE  SumOf(W, S) = W[Choice(D)[S]] + SumOf(W, S \ {Choice(D)[S]})
  <2> DEFINE R == S \ {Choice(D)[S]}
  <2>1. Choice(D)[S] \in S /\ R \in SUBSET D /\ SUBSET R \subseteq SUBSET S
    BY <1>3, ChoiceChooses
  <2>2g. PICK g : SummedBy(D, W, S, g)
    BY SumIsFold
  <2>2. g \in [SUBSET S -> Nat] /\ IsFold(g, S, 0, Choice(D), Adding(D, W)) /\ SumOf(W, S) = g[S]
    BY <2>2g DEF SummedBy
  <2>3h. PICK h : SummedBy(D, W, R, h)
    <3> HIDE DEF R
    <3> QED
      BY <2>1, SumIsFold
  <2>3. h \in [SUBSET R -> Nat] /\ IsFold(h, R, 0, Choice(D), Adding(D, W)) /\ SumOf(W, R) = h[R]
    <3> HIDE DEF R
    <3> QED
      BY <2>3h DEF SummedBy
  <2>4. g[R] = h[R]
    <3>1. IsFiniteSet(R)
      BY <2>1, FS_Subset
    <3>2. Chooses(Choice(D), R)
      BY <2>1, ChoiceChooses DEF Chooses
    <3>3. IsFold(g, R, 0, Choice(D), Adding(D, W))
      BY <2>1, <2>2 DEF IsFold
    <3> HIDE DEF R
    <3> QED
      BY <3>1, <3>2, <3>3, <2>3, FoldUnique
  <2>5. g[S] = Adding(D, W)[<<Choice(D)[S], g[R]>>] /\ g[R] \in Nat /\ Choice(D)[S] \in D
    BY <1>3, <2>1, <2>2 DEF IsFold
  <2>6. Adding(D, W)[<<Choice(D)[S], g[R]>>] = W[Choice(D)[S]] + g[R]
    <3> HIDE DEF R
    <3> QED
      BY <2>5 DEF Adding
  <2> QED
    BY <2>2, <2>3, <2>4, <2>5, <2>6
<1> QED
  BY <1>1, <1>2, <1>3

\* A task more adds its bytes.
LEMMA SumAdd ==
  ASSUME NEW D, IsFiniteSet(D), NEW W \in [D -> Nat]
  PROVE  \A S \in SUBSET D, t \in D : t \notin S => SumOf(W, S \cup {t}) = SumOf(W, S) + W[t]
<1> DEFINE Bad == {n \in Nat : \E S \in SUBSET D, t \in D :
                     /\ t \notin S /\ Cardinality(S) = n
                     /\ SumOf(W, S \cup {t}) # SumOf(W, S) + W[t]}
<1>1. \A s \in SUBSET D : IsFiniteSet(s) /\ Cardinality(s) \in Nat /\ SumOf(W, s) \in Nat
  BY FS_Subset, FS_CardinalityType, SumStep
<1>2. \A t \in D : W[t] \in Nat
  OBVIOUS
<1>3. Bad = {}
  <2> SUFFICES ASSUME Bad # {} PROVE FALSE
    OBVIOUS
  <2>1. PICK n \in Bad : \A k \in Bad : n <= k
    <3>1. Bad \subseteq Nat
      OBVIOUS
    <3> HIDE DEF Bad
    <3> QED
      BY <3>1, LeastExists
  <2>2. PICK S \in SUBSET D, t \in D :
          t \notin S /\ Cardinality(S) = n /\ SumOf(W, S \cup {t}) # SumOf(W, S) + W[t]
    BY <2>1
  <2> DEFINE U == S \cup {t}
             c == Choice(D)[U]
  <2>3. U \in SUBSET D /\ U # {} /\ c \in U
    BY ChoiceChooses
  <2>4. SumOf(W, U) = W[c] + SumOf(W, U \ {c})
    <3> HIDE DEF U
    <3> QED
      BY <2>3, SumStep
  <2>5. c # t
    <3> SUFFICES ASSUME c = t PROVE FALSE
      OBVIOUS
    <3>1. U \ {c} = S
      BY <2>2
    <3>2. SumOf(W, U) = W[t] + SumOf(W, S)
      <4> HIDE DEF U, c
      <4> QED BY <2>4, <3>1
    <3>3. SumOf(W, U) # SumOf(W, S) + W[t]
      BY <2>2
    <3>4. W[t] \in Nat /\ SumOf(W, S) \in Nat
      BY <1>1, <1>2, <2>2
    <3> HIDE DEF U, c
    <3> QED BY <3>2, <3>3, <3>4
  <2> DEFINE R == S \ {c}
  <2>6. c \in S /\ c \in D /\ R \in SUBSET D /\ U \ {c} = R \cup {t} /\ R \cup {c} = S
        /\ c \notin R /\ t \notin R
    <3> HIDE DEF c
    <3> QED
      BY <2>2, <2>3, <2>5
  <2>7. n \in Nat /\ Cardinality(R) = n - 1 /\ n - 1 \in Nat
    <3>1. IsFiniteSet(S) /\ c \in S
      BY <1>1, <2>6
    <3>2. Cardinality(R) = Cardinality(S) - 1 /\ Cardinality(R) \in Nat
      <4> HIDE DEF c
      <4> QED
        BY <1>1, <2>6, <3>1, FS_RemoveElement
    <3> QED
      BY <2>1, <2>2, <3>2
  <2>8. n - 1 \notin Bad
    <3>1. ~(n <= n - 1)
      BY <2>7
    <3> HIDE DEF Bad
    <3> QED
      BY <2>1, <3>1
  <2>9. \A x \in D : x \notin R => SumOf(W, R \cup {x}) = SumOf(W, R) + W[x]
    <3> HIDE DEF R
    <3> QED
      BY <2>6, <2>7, <2>8
  <2>10. SumOf(W, U \ {c}) = SumOf(W, R) + W[t] /\ SumOf(W, S) = SumOf(W, R) + W[c]
    <3> HIDE DEF R, U, c
    <3> QED
      BY <2>6, <2>9
  <2>11. SumOf(W, R) \in Nat /\ W[c] \in Nat /\ W[t] \in Nat
    <3> HIDE DEF R, U, c
    <3> QED
      BY <1>1, <1>2, <2>6
  <2>12. SumOf(W, U) # SumOf(W, S) + W[t]
    BY <2>2
  <2> HIDE DEF R, U, c
  <2> QED
    BY <2>4, <2>10, <2>11, <2>12
<1>4. ASSUME NEW S \in SUBSET D, NEW t \in D, t \notin S
      PROVE  SumOf(W, S \cup {t}) = SumOf(W, S) + W[t]
  <2>1. Cardinality(S) \in Nat /\ Cardinality(S) \notin Bad
    BY <1>1, <1>3
  <2> QED
    BY <1>4, <2>1
<1> QED
  BY <1>4

\* A smaller set has a smaller sum.
LEMMA SumGrows ==
  ASSUME NEW D, IsFiniteSet(D), NEW W \in [D -> Nat], NEW T \in SUBSET D, NEW S \in SUBSET T
  PROVE  SumOf(W, S) <= SumOf(W, T)
<1> DEFINE Bad == {n \in Nat : \E U \in SUBSET D : S \subseteq U /\ Cardinality(U) = n /\ ~(SumOf(W, S) <= SumOf(W, U))}
<1>1. \A s \in SUBSET D : IsFiniteSet(s) /\ Cardinality(s) \in Nat /\ SumOf(W, s) \in Nat
  BY FS_Subset, FS_CardinalityType, SumStep
<1>2. S \in SUBSET D /\ \A x \in D : W[x] \in Nat
  OBVIOUS
<1>3. Bad = {}
  <2> SUFFICES ASSUME Bad # {} PROVE FALSE
    OBVIOUS
  <2>1. PICK n \in Bad : \A k \in Bad : n <= k
    <3>1. Bad \subseteq Nat
      OBVIOUS
    <3> HIDE DEF Bad
    <3> QED
      BY <3>1, LeastExists
  <2>2. PICK U \in SUBSET D : S \subseteq U /\ Cardinality(U) = n /\ ~(SumOf(W, S) <= SumOf(W, U))
    BY <2>1
  <2>3. U # S
    BY <1>1, <1>2, <2>2
  <2>4. PICK x \in U : x \notin S
    BY <2>2, <2>3
  <2> DEFINE R == U \ {x}
  <2>5. R \in SUBSET D /\ S \subseteq R /\ x \in D /\ x \notin R /\ R \cup {x} = U
    BY <2>2, <2>4
  <2>6. Cardinality(R) = n - 1 /\ n - 1 \in Nat
    <3>1. Cardinality(R) = Cardinality(U) - 1 /\ Cardinality(R) \in Nat
      BY <1>1, <2>4, <2>5, FS_RemoveElement
    <3> QED BY <2>1, <2>2, <3>1
  <2> HIDE DEF R
  <2>7. SumOf(W, R \cup {x}) = SumOf(W, R) + W[x]
    BY <2>5, SumAdd
  <2>8. SumOf(W, R) \in Nat /\ SumOf(W, S) \in Nat /\ W[x] \in Nat /\ SumOf(W, U) = SumOf(W, R) + W[x]
    BY <1>1, <1>2, <2>5, <2>7
  <2>9. ~(SumOf(W, S) <= SumOf(W, R))
    BY <2>2, <2>8
  <2>10. n - 1 \in Bad
    BY <2>5, <2>6, <2>9
  <2>11. n \in Nat /\ ~(n <= n - 1)
    BY <2>1
  <2> HIDE DEF Bad
  <2> QED
    BY <2>1, <2>10, <2>11
<1>4. Cardinality(T) \in Nat /\ Cardinality(T) \notin Bad
  BY <1>1, <1>3
<1> QED
  BY <1>4

-----------------------------------------------------------------------------
(* What is left of a sequence.                                             *)

\* What Ordered makes of a finite set and a strict total order on it.
LEMMA OrderedFacts ==
  ASSUME NEW S, IsFiniteSet(S), NEW R,
         \A x, y, z \in S : <<x, y>> \in R /\ <<y, z>> \in R => <<x, z>> \in R,
         \A x \in S : <<x, x>> \notin R,
         \A x, y \in S : x # y => <<x, y>> \in R \/ <<y, x>> \in R
  PROVE  /\ Ordered(S, R) \in [1..Cardinality(S) -> S]
         /\ Cardinality(S) \in Nat
         /\ \A m, n \in 1..Cardinality(S) : Ordered(S, R)[m] = Ordered(S, R)[n] => m = n
         /\ \A x \in S : \E n \in 1..Cardinality(S) : Ordered(S, R)[n] = x
<1> DEFINE c == Cardinality(S)
           Below(x) == {y \in S : <<y, x>> \in R}
           T == 0..c - 1
           rank == [x \in S |-> Cardinality(Below(x))]
<1>1. c \in Nat
  BY FS_CardinalityType
<1>2. ASSUME NEW x \in S PROVE rank[x] \in T
  <2>1. Below(x) \in SUBSET S /\ Below(x) # S
    OBVIOUS
  <2>2. IsFiniteSet(Below(x)) /\ Cardinality(Below(x)) <= c /\ Cardinality(Below(x)) # c
    <3> HIDE DEF Below
    <3> QED
      BY <2>1, FS_Subset
  <2>3. Cardinality(Below(x)) \in Nat
    BY <2>2, FS_CardinalityType
  <2> HIDE DEF c, Below
  <2> QED
    BY <1>1, <2>2, <2>3
<1>3. ASSUME NEW x \in S, NEW y \in S, <<y, x>> \in R PROVE rank[y] < rank[x]
  <2>1. Below(y) \in SUBSET Below(x) /\ Below(y) # Below(x) /\ Below(x) \in SUBSET S
    BY <1>3
  <2>2. IsFiniteSet(Below(x))
    <3> HIDE DEF Below
    <3> QED
      BY <2>1, FS_Subset
  <2>3. Cardinality(Below(y)) <= Cardinality(Below(x)) /\ Cardinality(Below(y)) # Cardinality(Below(x))
    <3> HIDE DEF Below
    <3> QED
      BY <2>1, <2>2, FS_Subset
  <2>4. rank[x] \in Nat /\ rank[y] \in Nat
    BY <1>1, <1>2
  <2>5. rank[x] = Cardinality(Below(x)) /\ rank[y] = Cardinality(Below(y))
    OBVIOUS
  <2> HIDE DEF rank, Below
  <2> QED
    BY <2>3, <2>4, <2>5
<1>4. ASSUME NEW x \in S, NEW y \in S, rank[x] = rank[y] PROVE x = y
  <2>1. rank[x] \in Nat
    BY <1>1, <1>2
  <2>2. ~(rank[x] < rank[y]) /\ ~(rank[y] < rank[x])
    BY <1>4, <2>1
  <2> HIDE DEF rank
  <2> QED
    BY <1>3, <2>2
<1>5. rank \in Injection(S, T)
  BY <1>2, <1>4 DEF Injection, IsInjective
<1>6. IsFiniteSet(T) /\ Cardinality(T) = c
  <2>1. 0 \in Int /\ c - 1 \in Int /\ (IF 0 > c - 1 THEN 0 ELSE (c - 1) - 0 + 1) = c
    BY <1>1
  <2> HIDE DEF c
  <2> QED
    BY <2>1, FS_Interval
<1>7. rank \in Surjection(S, T)
  <2> HIDE DEF rank, T
  <2> QED
    BY <1>5, <1>6, FS_Injection
<1>8. ASSUME NEW n \in 1..c PROVE Ordered(S, R)[n] \in S /\ rank[Ordered(S, R)[n]] = n - 1
  <2>1. n - 1 \in T
    BY <1>1
  <2>2. \E x \in S : rank[x] = n - 1
    <3> HIDE DEF rank, T
    <3> QED
      BY <1>7, <2>1 DEF Surjection
  <2>3. \E x \in S : Cardinality(Below(x)) = n - 1
    BY <2>2
  <2>4. Ordered(S, R)[n] = CHOOSE x \in S : Cardinality(Below(x)) = n - 1
    BY DEF Ordered
  <2>5. Ordered(S, R)[n] \in S /\ Cardinality(Below(Ordered(S, R)[n])) = n - 1
    <3> HIDE DEF Below
    <3> QED
      BY <2>3, <2>4
  <2> QED
    BY <2>5
<1>9. Ordered(S, R) \in [1..c -> S]
  BY <1>8 DEF Ordered
<1>10. ASSUME NEW m \in 1..c, NEW n \in 1..c, Ordered(S, R)[m] = Ordered(S, R)[n] PROVE m = n
  <2>1. m - 1 = n - 1
    <3> HIDE DEF rank, c
    <3> QED
      BY <1>8, <1>10
  <2> QED
    BY <2>1, <1>1
<1>11. ASSUME NEW x \in S PROVE \E n \in 1..c : Ordered(S, R)[n] = x
  <2>1. rank[x] \in T
    BY <1>2
  <2>2. rank[x] + 1 \in 1..c /\ (rank[x] + 1) - 1 = rank[x]
    <3> HIDE DEF rank, c
    <3> QED
      BY <1>1, <2>1
  <2>3. Ordered(S, R)[rank[x] + 1] \in S /\ rank[Ordered(S, R)[rank[x] + 1]] = rank[x]
    <3> HIDE DEF rank, c
    <3> QED
      BY <1>8, <2>2
  <2>4. Ordered(S, R)[rank[x] + 1] = x
    BY <1>4, <2>3
  <2> HIDE DEF rank, c
  <2> QED
    BY <2>2, <2>4
<1> QED
  BY <1>1, <1>9, <1>10, <1>11

\* The chosen positions of a sequence, in order.
LEMMA SelectedFacts ==
  ASSUME NEW s, NEW n \in Nat, DOMAIN s = 1..n, NEW K \in SUBSET (1..n)
  PROVE  \E e \in [1..Cardinality(K) -> K] :
           /\ Cardinality(K) \in Nat /\ Cardinality(K) <= n
           /\ K # 1..n => Cardinality(K) < n
           /\ \A i, j \in 1..Cardinality(K) : e[i] = e[j] => i = j
           /\ \A k \in K : \E i \in 1..Cardinality(K) : e[i] = k
           /\ Selected(s, K) = [i \in 1..Cardinality(K) |-> s[e[i]]]
<1> DEFINE R == {p \in K \X K : p[1] < p[2]}
           order == Ordered(K, R)
           c == Cardinality(K)
<1>1. IsFiniteSet(1..n) /\ Cardinality(1..n) = n
  BY FS_Interval
<1>2. IsFiniteSet(K) /\ c <= n /\ (K # 1..n => c # n)
  <2> HIDE DEF c
  <2>1. IsFiniteSet(K) /\ Cardinality(K) <= Cardinality(1..n) /\ (K # 1..n => Cardinality(K) # Cardinality(1..n))
    BY <1>1, FS_Subset
  <2> QED
    BY <1>1, <2>1 DEF c
<1>3. \A x \in K : x \in Nat
  OBVIOUS
<1>4. /\ \A x, y, z \in K : <<x, y>> \in R /\ <<y, z>> \in R => <<x, z>> \in R
      /\ \A x \in K : <<x, x>> \notin R
      /\ \A x, y \in K : x # y => <<x, y>> \in R \/ <<y, x>> \in R
  BY <1>3
<1>5. /\ order \in [1..c -> K] /\ c \in Nat
      /\ \A i, j \in 1..c : order[i] = order[j] => i = j
      /\ \A x \in K : \E i \in 1..c : order[i] = x
  <2> HIDE DEF R
  <2> QED
    BY <1>2, <1>4, OrderedFacts
<1>6. Selected(s, K) = [i \in 1..c |-> s[order[i]]]
  BY <1>5 DEF Selected
<1>7. K # 1..n => c < n
  BY <1>2, <1>5
<1> HIDE DEF order, c, R
<1>8. order \in [1..Cardinality(K) -> K]
  BY <1>5 DEF c
<1> QED
  BY <1>2, <1>5, <1>6, <1>7, <1>8 DEF c

-----------------------------------------------------------------------------
(* The bytes that tasks have reserved.                                     *)

\* The bytes of nobody, and of a task more.
LEMMA TotalSums ==
  /\ TotalSize({}) = 0
  /\ \A S \in SUBSET Tasks : TotalSize(S) \in Nat
  /\ \A S \in SUBSET Tasks, t \in Tasks : t \notin S => TotalSize(S \cup {t}) = TotalSize(S) + Size[t]
<1> DEFINE D == Tasks  W == Size
<1>1. \A S : TotalSize(S) = SumOf(W, S)
  BY DEF TotalSize, SumOf
<1>2. IsFiniteSet(D) /\ W \in [D -> Nat]
  BY SchedulerAssumption
<1> HIDE DEF D, W
<1>3. /\ SumOf(W, {}) = 0
      /\ \A S \in SUBSET D : SumOf(W, S) \in Nat
      /\ \A S \in SUBSET D, t \in D : t \notin S => SumOf(W, S \cup {t}) = SumOf(W, S) + W[t]
  BY <1>2, SumStep, SumAdd
<1> QED
  BY <1>1, <1>3 DEF D, W

-----------------------------------------------------------------------------
(* The queue.                                                              *)

\* Taking a task out of a queue that has it once.
LEMMA RemoveFirstFacts ==
  ASSUME NEW q \in Seq(Tasks), IsInjective(q), NEW t \in ToSet(q)
  PROVE  /\ RemoveFirst(q, t) \in Seq(Tasks) /\ IsInjective(RemoveFirst(q, t))
         /\ ToSet(RemoveFirst(q, t)) = ToSet(q) \ {t}
         /\ Len(RemoveFirst(q, t)) = Len(q) - 1
         /\ \A i, j \in DOMAIN q : i < j /\ q[i] # t /\ q[j] # t =>
              \E k, l \in DOMAIN RemoveFirst(q, t) :
                k < l /\ RemoveFirst(q, t)[k] = q[i] /\ RemoveFirst(q, t)[l] = q[j]
<1> DEFINE I == {i \in 1..Len(q) : q[i] = t}
           r == RemoveFirst(q, t)
<1>1. PICK m \in 1..Len(q) : q[m] = t
  BY DEF ToSet
<1>2. I = {m}
  BY <1>1 DEF IsInjective
<1>3. Min(I) = m
  BY <1>1, <1>2 DEF Min
<1>4. r = SubSeq(q, 1, m - 1) \o SubSeq(q, m + 1, Len(q))
  BY <1>1, <1>2, <1>3 DEF RemoveFirst, RemoveAt, SelectInSeq
<1>5. /\ r \in Seq(Tasks) /\ Len(r) = Len(q) - 1
      /\ \A i \in 1..Len(q) - 1 : r[i] = IF i < m THEN q[i] ELSE q[i + 1]
  <2>1. SubSeq(q, 1, m - 1) \in Seq(Tasks) /\ Len(SubSeq(q, 1, m - 1)) = m - 1
        /\ \A i \in 1..m - 1 : SubSeq(q, 1, m - 1)[i] = q[i]
    BY <1>1
  <2>2. SubSeq(q, m + 1, Len(q)) \in Seq(Tasks) /\ Len(SubSeq(q, m + 1, Len(q))) = Len(q) - m
        /\ \A i \in 1..Len(q) - m : SubSeq(q, m + 1, Len(q))[i] = q[i + m]
    BY <1>1
  <2> DEFINE a == SubSeq(q, 1, m - 1)
             b == SubSeq(q, m + 1, Len(q))
  <2> HIDE DEF a, b, r
  <2>3. r = a \o b
    BY <1>4 DEF a, b
  <2>4. a \in Seq(Tasks) /\ b \in Seq(Tasks) /\ Len(a) = m - 1 /\ Len(b) = Len(q) - m
    BY <2>1, <2>2 DEF a, b
  <2>5. /\ r \in Seq(Tasks) /\ Len(r) = Len(a) + Len(b)
        /\ \A i \in 1..Len(a) + Len(b) : r[i] = IF i <= Len(a) THEN a[i] ELSE b[i - Len(a)]
    BY <2>3, <2>4, ConcatProperties
  <2>6. Len(q) \in Nat /\ Len(r) = Len(q) - 1
    BY <1>1, <2>4, <2>5
  <2>7. ASSUME NEW i \in 1..Len(q) - 1 PROVE r[i] = IF i < m THEN q[i] ELSE q[i + 1]
    <3>1. r[i] = IF i <= m - 1 THEN a[i] ELSE b[i - (m - 1)]
      BY <1>1, <2>4, <2>5, <2>6
    <3>2. CASE i < m
      <4>1. i \in 1..m - 1
        BY <1>1, <3>2
      <4> QED
        BY <2>1, <3>1, <3>2, <4>1 DEF a
    <3>3. CASE ~(i < m)
      <4>1. i - (m - 1) \in 1..Len(q) - m /\ i - (m - 1) + m = i + 1 /\ ~(i <= m - 1)
        BY <1>1, <2>6, <3>3
      <4>2. b[i - (m - 1)] = q[i - (m - 1) + m]
        BY <2>2, <4>1 DEF b
      <4> QED
        BY <3>1, <3>3, <4>1, <4>2
    <3> QED
      BY <3>2, <3>3
  <2> QED
    BY <2>5, <2>6, <2>7
<1> HIDE DEF r, I
<1>6. DOMAIN r = 1..Len(q) - 1 /\ DOMAIN q = 1..Len(q) /\ Len(q) \in Nat
  BY <1>5
<1>7. ASSUME NEW i \in DOMAIN q, q[i] # t
      PROVE  \E k \in DOMAIN r : r[k] = q[i] /\ k = IF i < m THEN i ELSE i - 1
  <2>1. i # m /\ i \in 1..Len(q)
    BY <1>1, <1>6, <1>7
  <2>2. CASE i < m
    <3>1. i \in DOMAIN r
      BY <1>1, <1>6, <2>1, <2>2
    <3> QED
      BY <1>5, <1>6, <2>2, <3>1
  <2>3. CASE ~(i < m)
    <3>1. i - 1 \in DOMAIN r /\ ~(i - 1 < m) /\ (i - 1) + 1 = i
      BY <1>1, <1>6, <2>1, <2>3
    <3> QED
      BY <1>5, <1>6, <2>3, <3>1
  <2> QED
    BY <2>2, <2>3
<1>8. IsInjective(r)
  <2> SUFFICES ASSUME NEW i \in DOMAIN r, NEW j \in DOMAIN r, r[i] = r[j]
               PROVE  i = j
    BY DEF IsInjective
  <2>1. PICK k \in DOMAIN q : k = (IF i < m THEN i ELSE i + 1) /\ r[i] = q[k]
    BY <1>1, <1>5, <1>6
  <2>2. PICK l \in DOMAIN q : l = (IF j < m THEN j ELSE j + 1) /\ r[j] = q[l]
    BY <1>1, <1>5, <1>6
  <2>3. k = l
    BY <2>1, <2>2 DEF IsInjective
  <2> QED
    BY <1>1, <1>6, <2>1, <2>2, <2>3
<1>9. ToSet(r) = ToSet(q) \ {t}
  <2>1. ASSUME NEW i \in DOMAIN r PROVE r[i] \in ToSet(q) \ {t}
    <3>1. PICK k \in DOMAIN q : k = (IF i < m THEN i ELSE i + 1) /\ r[i] = q[k]
      BY <1>1, <1>5, <1>6
    <3>2. k # m
      BY <1>1, <1>6, <3>1
    <3>3. q[k] # t
      BY <1>1, <1>6, <3>2 DEF IsInjective
    <3> QED
      BY <3>1, <3>3 DEF ToSet
  <2>2. ASSUME NEW x \in ToSet(q) \ {t} PROVE x \in ToSet(r)
    <3>1. PICK i \in DOMAIN q : q[i] = x
      BY DEF ToSet
    <3> QED
      BY <1>7, <3>1 DEF ToSet
  <2> QED
    BY <2>1, <2>2 DEF ToSet
<1>10. ASSUME NEW i \in DOMAIN q, NEW j \in DOMAIN q, i < j, q[i] # t, q[j] # t
       PROVE  \E k, l \in DOMAIN r : k < l /\ r[k] = q[i] /\ r[l] = q[j]
  <2>1. PICK k \in DOMAIN r : r[k] = q[i] /\ k = IF i < m THEN i ELSE i - 1
    BY <1>7, <1>10
  <2>2. PICK l \in DOMAIN r : r[l] = q[j] /\ l = IF j < m THEN j ELSE j - 1
    BY <1>7, <1>10
  <2>3. i # m /\ j # m
    BY <1>1, <1>10
  <2>4. k < l
    BY <1>1, <1>6, <1>10, <2>1, <2>2, <2>3
  <2> QED
    BY <2>1, <2>2, <2>4
<1> QED
  BY <1>5, <1>8, <1>9, <1>10 DEF r

\* A task that is not in a queue, at its end.
LEMMA AppendFacts ==
  ASSUME NEW q \in Seq(Tasks), IsInjective(q), NEW t \in Tasks, t \notin ToSet(q)
  PROVE  /\ Append(q, t) \in Seq(Tasks) /\ IsInjective(Append(q, t))
         /\ ToSet(Append(q, t)) = ToSet(q) \cup {t}
         /\ Len(Append(q, t)) = Len(q) + 1
         /\ \A i \in DOMAIN q : i \in DOMAIN Append(q, t) /\ Append(q, t)[i] = q[i]
<1> DEFINE r == Append(q, t)
<1>1. /\ r \in Seq(Tasks) /\ Len(r) = Len(q) + 1 /\ Len(q) \in Nat
      /\ \A i \in 1..Len(q) : r[i] = q[i]
      /\ r[Len(q) + 1] = t
  OBVIOUS
<1>2. DOMAIN r = 1..Len(q) + 1 /\ DOMAIN q = 1..Len(q)
  BY <1>1
<1> HIDE DEF r
<1>3. \A i \in DOMAIN q : q[i] # t
  BY DEF ToSet
<1>4. IsInjective(r)
  <2> SUFFICES ASSUME NEW i \in DOMAIN r, NEW j \in DOMAIN r, r[i] = r[j] PROVE i = j
    BY DEF IsInjective
  <2>1. i \in DOMAIN q \/ i = Len(q) + 1
    BY <1>1, <1>2
  <2>2. j \in DOMAIN q \/ j = Len(q) + 1
    BY <1>1, <1>2
  <2> QED
    BY <1>1, <1>2, <1>3, <2>1, <2>2 DEF IsInjective
<1>5. ToSet(r) = ToSet(q) \cup {t}
  <2>1. ASSUME NEW i \in DOMAIN r PROVE r[i] \in ToSet(q) \cup {t}
    <3>1. i \in DOMAIN q \/ i = Len(q) + 1
      BY <1>1, <1>2
    <3> QED
      BY <1>1, <1>2, <3>1 DEF ToSet
  <2>2. ASSUME NEW i \in DOMAIN q PROVE q[i] \in ToSet(r)
    <3>1. i \in DOMAIN r /\ r[i] = q[i]
      BY <1>1, <1>2
    <3> QED
      BY <3>1 DEF ToSet
  <2>3. t \in ToSet(r)
    BY <1>1, <1>2 DEF ToSet
  <2> QED
    BY <2>1, <2>2, <2>3 DEF ToSet
<1>6. \A i \in DOMAIN q : i \in DOMAIN r /\ r[i] = q[i]
  BY <1>1, <1>2
<1> QED
  BY <1>1, <1>4, <1>5, <1>6 DEF r

-----------------------------------------------------------------------------
(* One pass over the queue.                                                *)

\* The record of the pool.
PoolRecord ==
  [queue : Seq(Tasks), active : Nat, reserved : Nat, counts : [Keys -> Nat]]

\* What drain does with the task it looks at.
Look(q, t) == IF Fits(q, t) THEN Take(q, t) ELSE q

\* The tasks of a plugin.
OfKey(S, k) == {t \in S : KeyOf[t] = k}

\* What a drain takes from the queue.
Taken(p, q) == ToSet(p.queue) \ ToSet(q.queue)

\* The counters of a pool are those of the tasks in H.
Counts(q, H) ==
  /\ q.active = Cardinality(H) /\ q.reserved = TotalSize(H)
  /\ \A k \in Keys : q.counts[k] = Cardinality(OfKey(H, k))

\* Pool q is what drain has made of p when it has looked at the first n tasks,
\* and H had their slots before.
Passed(p, q, n, H) ==
  /\ q \in PoolRecord /\ IsInjective(q.queue)
  /\ ToSet(q.queue) \subseteq ToSet(p.queue) /\ Len(q.queue) <= Len(p.queue)
  /\ \A i \in DOMAIN p.queue : i > n => p.queue[i] \in ToSet(q.queue)
  /\ \A i \in DOMAIN p.queue : i <= n /\ p.queue[i] \in ToSet(q.queue) => ~Fits(q, p.queue[i])
  /\ Counts(q, H \cup Taken(p, q))
  /\ p.active <= MaxConcurrent => q.active <= MaxConcurrent
  /\ p.reserved <= MaxReserved => q.reserved <= MaxReserved
  /\ \A k \in Keys : p.counts[k] <= MaxPerKey => q.counts[k] <= MaxPerKey
  /\ \A i, j \in DOMAIN p.queue :
       /\ i < j /\ p.queue[j] \in Taken(p, q)
       /\ KeyOf[p.queue[i]] = KeyOf[p.queue[j]] /\ Size[p.queue[i]] <= Size[p.queue[j]]
       => p.queue[i] \in Taken(p, q)

\* What taking a task does to the counters.
LEMMA TakeFacts ==
  ASSUME NEW q \in PoolRecord, IsInjective(q.queue), NEW t \in ToSet(q.queue)
  PROVE  /\ Take(q, t) \in PoolRecord
         /\ Take(q, t).queue = RemoveFirst(q.queue, t)
         /\ Take(q, t).active = q.active + 1
         /\ Take(q, t).reserved = q.reserved + Size[t]
         /\ \A k \in Keys : Take(q, t).counts[k] = IF k = KeyOf[t] THEN q.counts[k] + 1 ELSE q.counts[k]
<1>1. t \in Tasks
  BY DEF ToSet, PoolRecord
<1>2. KeyOf[t] \in Keys /\ Size[t] \in Nat
  BY <1>1, SchedulerAssumption
<1>3. RemoveFirst(q.queue, t) \in Seq(Tasks)
  BY RemoveFirstFacts DEF PoolRecord
<1> DEFINE r == RemoveFirst(q.queue, t)
           c == [q.counts EXCEPT ![KeyOf[t]] = @ + 1]
<1>4. q.active \in Nat /\ q.reserved \in Nat /\ q.counts \in [Keys -> Nat] /\ q.queue \in Seq(Tasks)
      /\ q = [queue |-> q.queue, active |-> q.active, reserved |-> q.reserved, counts |-> q.counts]
  BY DEF PoolRecord
<1>5. c \in [Keys -> Nat]
      /\ \A k \in Keys : c[k] = IF k = KeyOf[t] THEN q.counts[k] + 1 ELSE q.counts[k]
  BY <1>2, <1>4
<1>6. Take(q, t) = [q EXCEPT !.queue = r, !.active = @ + 1, !.reserved = @ + Size[t], !.counts = c]
  BY <1>4 DEF Take
<1> HIDE DEF r, c
<1>7. Take(q, t) = [queue |-> r, active |-> q.active + 1, reserved |-> q.reserved + Size[t], counts |-> c]
  BY <1>4, <1>6
<1> QED
  BY <1>2, <1>3, <1>4, <1>5, <1>7 DEF PoolRecord, r

\* The sets that a pass counts are finite; a task more is one more.
LEMMA CountAdd ==
  ASSUME NEW S \in SUBSET Tasks, NEW t \in Tasks, t \notin S
  PROVE  /\ Cardinality(S) \in Nat /\ Cardinality(S \cup {t}) = Cardinality(S) + 1
         /\ \A k \in Keys : /\ Cardinality(OfKey(S, k)) \in Nat
                            /\ Cardinality(OfKey(S \cup {t}, k)) =
                                 IF k = KeyOf[t] THEN Cardinality(OfKey(S, k)) + 1
                                 ELSE Cardinality(OfKey(S, k))
<1>1. IsFiniteSet(S)
  BY SchedulerAssumption, FS_Subset
<1>2. Cardinality(S) \in Nat /\ Cardinality(S \cup {t}) = Cardinality(S) + 1
  BY <1>1, FS_CardinalityType, FS_AddElement
<1>3. ASSUME NEW k \in Keys
      PROVE  /\ Cardinality(OfKey(S, k)) \in Nat
             /\ Cardinality(OfKey(S \cup {t}, k)) =
                  IF k = KeyOf[t] THEN Cardinality(OfKey(S, k)) + 1 ELSE Cardinality(OfKey(S, k))
  <2>1. OfKey(S, k) \subseteq S
    BY DEF OfKey
  <2>2. IsFiniteSet(OfKey(S, k)) /\ Cardinality(OfKey(S, k)) \in Nat
    BY <1>1, <2>1, FS_Subset, FS_CardinalityType
  <2>3. CASE k = KeyOf[t]
    <3>1. OfKey(S \cup {t}, k) = OfKey(S, k) \cup {t} /\ t \notin OfKey(S, k)
      BY <2>3 DEF OfKey
    <3>2. Cardinality(OfKey(S, k) \cup {t}) = Cardinality(OfKey(S, k)) + 1
      BY <2>2, <3>1, FS_AddElement
    <3> QED
      BY <2>2, <2>3, <3>1, <3>2
  <2>4. CASE k # KeyOf[t]
    <3>1. OfKey(S \cup {t}, k) = OfKey(S, k)
      BY <2>4 DEF OfKey
    <3> QED
      BY <2>2, <2>4, <3>1
  <2> QED
    BY <2>3, <2>4
<1> QED
  BY <1>2, <1>3

\* What does not fit before a task is taken does not fit after it.
LEMMA TakeFillsUp ==
  ASSUME NEW q \in PoolRecord, IsInjective(q.queue), NEW t \in ToSet(q.queue),
         NEW u \in Tasks, ~Fits(q, u)
  PROVE  ~Fits(Take(q, t), u)
<1>1. t \in Tasks
  BY DEF ToSet, PoolRecord
<1>2. KeyOf[u] \in Keys /\ Size[t] \in Nat /\ Size[u] \in Nat
  BY <1>1, SchedulerAssumption
<1>3. /\ q.active \in Nat /\ q.reserved \in Nat /\ q.counts[KeyOf[u]] \in Nat
      /\ MaxConcurrent \in Nat /\ MaxPerKey \in Nat /\ MaxReserved \in Nat
  BY <1>2, SchedulerAssumption DEF PoolRecord
<1>4. /\ Take(q, t).active >= q.active /\ Take(q, t).reserved >= q.reserved
      /\ Take(q, t).counts[KeyOf[u]] >= q.counts[KeyOf[u]]
      /\ Take(q, t).active \in Nat /\ Take(q, t).reserved \in Nat
      /\ Take(q, t).counts[KeyOf[u]] \in Nat
  BY <1>2, <1>3, TakeFacts
<1> QED
  BY <1>2, <1>3, <1>4 DEF Fits

\* A look at a task that takes it leaves less room, never more.
LEMMA LookPasses ==
  ASSUME NEW p \in PoolRecord, IsInjective(p.queue), NEW n \in Nat, n + 1 \in DOMAIN p.queue,
         NEW H \in SUBSET Tasks, H \cap ToSet(p.queue) = {}, NEW q, Passed(p, q, n, H)
  PROVE  Passed(p, Look(q, p.queue[n + 1]), n + 1, H)
<1> DEFINE u == p.queue[n + 1]
           r == Take(q, u)
<1>1. /\ q \in PoolRecord /\ IsInjective(q.queue) /\ u \in ToSet(q.queue) /\ u \in Tasks
      /\ DOMAIN p.queue \subseteq Nat
  BY DEF Passed, PoolRecord
<1>2. \A i \in DOMAIN p.queue : p.queue[i] \in Tasks
  BY DEF PoolRecord
<1>3. CASE ~Fits(q, u)
  <2>1. \A i \in DOMAIN p.queue : i > n + 1 => i > n
    BY <1>1
  <2>2. \A i \in DOMAIN p.queue : i <= n + 1 => i <= n \/ i = n + 1
    BY <1>1
  <2>3. Look(q, u) = q
    BY <1>3 DEF Look
  <2> HIDE DEF u
  <2>4. \A i \in DOMAIN p.queue : i <= n + 1 /\ p.queue[i] \in ToSet(q.queue) => ~Fits(q, p.queue[i])
    BY <1>3, <2>2 DEF Passed, u
  <2>5. Passed(p, q, n + 1, H)
    BY <2>1, <2>4 DEF Passed
  <2> QED
    BY <2>3, <2>5 DEF u
<1>4. CASE Fits(q, u)
  <2> DEFINE G == Taken(p, q)
             N == Taken(p, r)
             A == H \cup G
             B == H \cup N
  <2>1. Look(q, u) = r
    BY <1>4 DEF Look
  <2> HIDE DEF u, r
  <2>2. /\ r \in PoolRecord /\ r.queue = RemoveFirst(q.queue, u)
        /\ r.active = q.active + 1 /\ r.reserved = q.reserved + Size[u]
        /\ \A k \in Keys : r.counts[k] = IF k = KeyOf[u] THEN q.counts[k] + 1 ELSE q.counts[k]
    BY <1>1, TakeFacts DEF r
  <2>3. /\ IsInjective(r.queue) /\ ToSet(r.queue) = ToSet(q.queue) \ {u}
        /\ Len(r.queue) = Len(q.queue) - 1
    <3>1. q.queue \in Seq(Tasks)
      BY <1>1 DEF PoolRecord
    <3> QED
      BY <1>1, <2>2, <3>1, RemoveFirstFacts
  <2>4. ToSet(q.queue) \subseteq ToSet(p.queue) /\ u \in ToSet(p.queue)
    BY <1>1 DEF Passed
  <2>5. N = G \cup {u} /\ B = A \cup {u} /\ u \notin A /\ A \in SUBSET Tasks
    <3>1. ToSet(p.queue) \subseteq Tasks
      BY <1>2 DEF ToSet
    <3> QED
      BY <1>1, <2>3, <2>4, <3>1 DEF Taken
  <2>6. /\ Cardinality(B) = Cardinality(A) + 1 /\ TotalSize(B) = TotalSize(A) + Size[u]
        /\ \A k \in Keys : Cardinality(OfKey(B, k)) =
                              IF k = KeyOf[u] THEN Cardinality(OfKey(A, k)) + 1
                              ELSE Cardinality(OfKey(A, k))
    <3> HIDE DEF A, B
    <3> QED
      BY <1>1, <2>5, CountAdd, TotalSums
  <2>7. /\ q.active \in Nat /\ q.reserved \in Nat /\ p.active \in Nat /\ p.reserved \in Nat
        /\ q.counts \in [Keys -> Nat] /\ p.counts \in [Keys -> Nat] /\ Size[u] \in Nat
        /\ KeyOf[u] \in Keys /\ MaxConcurrent \in Nat /\ MaxPerKey \in Nat /\ MaxReserved \in Nat
    BY <1>1, SchedulerAssumption DEF PoolRecord
  <2>8. Counts(q, A)
    BY DEF Passed
  <2>9. /\ q.active < MaxConcurrent /\ q.counts[KeyOf[u]] < MaxPerKey
        /\ q.reserved + Size[u] <= MaxReserved
    BY <1>4 DEF Fits
  <2>10. Counts(r, B)
    <3> HIDE DEF A, B
    <3> QED
      BY <2>2, <2>6, <2>8 DEF Counts
  <2>11. /\ p.active <= MaxConcurrent => r.active <= MaxConcurrent
         /\ p.reserved <= MaxReserved => r.reserved <= MaxReserved
         /\ \A k \in Keys : p.counts[k] <= MaxPerKey => r.counts[k] <= MaxPerKey
    <3>1. \A k \in Keys : p.counts[k] <= MaxPerKey => q.counts[k] <= MaxPerKey
      BY DEF Passed
    <3> QED
      BY <2>2, <2>7, <2>9, <3>1
  <2>12. \A i \in DOMAIN p.queue : i > n + 1 => p.queue[i] \in ToSet(r.queue)
    <3> SUFFICES ASSUME NEW i \in DOMAIN p.queue, i > n + 1 PROVE p.queue[i] \in ToSet(r.queue)
      OBVIOUS
    <3>1. i > n /\ i # n + 1
      BY <1>1
    <3>2. p.queue[i] # u
      BY <3>1 DEF IsInjective, u
    <3> QED
      BY <2>3, <3>1, <3>2 DEF Passed
  <2>13. \A i \in DOMAIN p.queue : i <= n + 1 /\ p.queue[i] \in ToSet(r.queue) => ~Fits(r, p.queue[i])
    <3> SUFFICES ASSUME NEW i \in DOMAIN p.queue, i <= n + 1, p.queue[i] \in ToSet(r.queue)
                 PROVE  ~Fits(r, p.queue[i])
      OBVIOUS
    <3>1. p.queue[i] # u /\ p.queue[i] \in ToSet(q.queue)
      BY <2>3
    <3>2. i # n + 1
      BY <3>1 DEF u
    <3>3. i <= n
      BY <1>1, <3>2
    <3>4. ~Fits(q, p.queue[i])
      BY <3>1, <3>3 DEF Passed
    <3> QED
      BY <1>1, <1>2, <3>4, TakeFillsUp DEF r
  <2>14. \A i, j \in DOMAIN p.queue :
           /\ i < j /\ p.queue[j] \in N
           /\ KeyOf[p.queue[i]] = KeyOf[p.queue[j]] /\ Size[p.queue[i]] <= Size[p.queue[j]]
           => p.queue[i] \in N
    <3> SUFFICES ASSUME NEW i \in DOMAIN p.queue, NEW j \in DOMAIN p.queue, i < j, p.queue[j] \in N,
                        KeyOf[p.queue[i]] = KeyOf[p.queue[j]], Size[p.queue[i]] <= Size[p.queue[j]]
                 PROVE  p.queue[i] \in N
      OBVIOUS
    <3>1. CASE p.queue[j] \in G
      <4>1. p.queue[i] \in G
        BY <3>1 DEF Passed
      <4> QED
        BY <2>5, <4>1
    <3>2. CASE p.queue[j] = u
      <4>1. j = n + 1
        BY <3>2 DEF IsInjective, u
      <4>2. i <= n
        BY <1>1, <4>1
      <4>3. Size[p.queue[i]] \in Nat /\ KeyOf[p.queue[i]] = KeyOf[u] /\ Size[p.queue[i]] <= Size[u]
        BY <1>2, <3>2, SchedulerAssumption
      <4>4. Fits(q, p.queue[i])
        BY <2>7, <2>9, <4>3 DEF Fits
      <4>5. p.queue[i] \notin ToSet(q.queue)
        BY <4>2, <4>4 DEF Passed
      <4>6. p.queue[i] \in G
        BY <4>5 DEF Taken, ToSet
      <4> QED
        BY <2>5, <4>6
    <3> QED
      BY <2>5, <3>1, <3>2
  <2>15. ToSet(r.queue) \subseteq ToSet(p.queue) /\ Len(r.queue) <= Len(p.queue)
    <3>1. Len(q.queue) \in Nat /\ Len(p.queue) \in Nat /\ Len(q.queue) <= Len(p.queue)
      BY <1>1 DEF Passed, PoolRecord
    <3> QED
      BY <2>3, <2>4, <3>1
  <2>16. Passed(p, r, n + 1, H)
    BY <2>2, <2>3, <2>10, <2>11, <2>12, <2>13, <2>14, <2>15 DEF Passed
  <2> QED
    BY <2>1, <2>16 DEF u
<1> QED
  BY <1>3, <1>4

\* Looking at a task, in the queue or not, leaves a pool.
LEMMA LookType ==
  ASSUME NEW q \in PoolRecord, IsInjective(q.queue), NEW t \in Tasks
  PROVE  Look(q, t) \in PoolRecord /\ IsInjective(Look(q, t).queue)
<1>1. CASE t \in ToSet(q.queue)
  <2>1. q.queue \in Seq(Tasks)
    BY DEF PoolRecord
  <2> QED
    BY <1>1, <2>1, TakeFacts, RemoveFirstFacts DEF Look
<1>2. CASE t \notin ToSet(q.queue)
  <2>1. RemoveFirst(q.queue, t) = q.queue
    <3>1. DOMAIN q.queue = 1..Len(q.queue)
      BY DEF PoolRecord
    <3> QED
      BY <1>2, <3>1 DEF RemoveFirst, ToSet
  <2>2. Take(q, t) = [q EXCEPT !.active = @ + 1, !.reserved = @ + Size[t], !.counts[KeyOf[t]] = @ + 1]
    BY <2>1 DEF Take, PoolRecord
  <2>3. KeyOf[t] \in Keys /\ Size[t] \in Nat
    BY SchedulerAssumption
  <2>4. Take(q, t) \in PoolRecord /\ Take(q, t).queue = q.queue
    <3> DEFINE c == [q.counts EXCEPT ![KeyOf[t]] = @ + 1]
    <3>1. q.active \in Nat /\ q.reserved \in Nat /\ q.counts \in [Keys -> Nat] /\ q.queue \in Seq(Tasks)
          /\ q = [queue |-> q.queue, active |-> q.active, reserved |-> q.reserved, counts |-> q.counts]
      BY DEF PoolRecord
    <3>2. c \in [Keys -> Nat]
      BY <2>3, <3>1
    <3>3. Take(q, t) = [q EXCEPT !.active = @ + 1, !.reserved = @ + Size[t], !.counts = c]
      BY <2>2
    <3> HIDE DEF c
    <3>4. Take(q, t) = [queue |-> q.queue, active |-> q.active + 1, reserved |-> q.reserved + Size[t], counts |-> c]
      BY <3>1, <3>3
    <3> QED
      BY <2>3, <3>1, <3>2, <3>4 DEF PoolRecord
  <2> QED
    BY <2>4 DEF Look
<1> QED
  BY <1>1, <1>2

\* The definition of drain, expanded.
LEMMA DrainShape ==
  ASSUME NEW p
  PROVE  Drain(p) =
           (CHOOSE fold : fold =
              [s \in SUBSET DOMAIN p.queue |->
                 IF s = {} THEN p
                 ELSE Look(fold[s \ {Max(s)}], p.queue[Max(s)])])[DOMAIN p.queue]
BY DEF Drain, FoldLeft, MapThenFoldSet, Look

\* drain is a pass over the whole queue.
LEMMA DrainPasses ==
  ASSUME NEW p \in PoolRecord, IsInjective(p.queue),
         NEW H \in SUBSET Tasks, H \cap ToSet(p.queue) = {}, Counts(p, H)
  PROVE  Passed(p, Drain(p), Len(p.queue), H)
<1> DEFINE S == DOMAIN p.queue
           D == {q \in PoolRecord : IsInjective(q.queue)}
           Newest == [s \in SUBSET S |-> Max(s)]
           LL == [z \in S \X D |-> Look(z[2], p.queue[z[1]])]
           fold == CHOOSE f : f = [s \in SUBSET S |-> IF s = {} THEN p
                                     ELSE Look(f[s \ {Max(s)}], p.queue[Max(s)])]
<1>1. S = 1..Len(p.queue) /\ Len(p.queue) \in Nat /\ \A i \in S : p.queue[i] \in Tasks
  BY DEF PoolRecord
<1>2. IsFiniteSet(S)
  BY <1>1, FS_Interval
<1>3. \A s \in SUBSET S : s # {} => Max(s) \in s /\ \A i \in s : Max(s) >= i
  <2> SUFFICES ASSUME NEW s \in SUBSET S, s # {}
               PROVE  Max(s) \in s /\ \A i \in s : Max(s) >= i
    OBVIOUS
  <2>1. \E x \in s : \A y \in s : y <= x
    BY <1>1, GreatestExists
  <2>2. \E x \in s : \A y \in s : x >= y
    BY <1>1, <2>1
  <2> QED
    BY <2>2 DEF Max
<1>4. Chooses(Newest, S)
  BY <1>3 DEF Chooses
<1>5. LL \in [S \X D -> D]
  BY <1>1, LookType
<1>6. p \in D
  OBVIOUS
<1>7. PICK h \in [SUBSET S -> D] : IsFold(h, S, p, Newest, LL)
  <2> HIDE DEF S, D, Newest, LL
  <2> QED
    BY <1>2, <1>4, <1>5, <1>6, FoldExists
<1>8. ASSUME NEW s \in SUBSET S, s # {}
      PROVE  h[s] = Look(h[s \ {Max(s)}], p.queue[Max(s)])
  <2>1. Newest[s] = Max(s) /\ Max(s) \in S /\ s \ {Max(s)} \in SUBSET S
    BY <1>3, <1>8
  <2>2. h[s \ {Max(s)}] \in D
    BY <1>7, <2>1
  <2>3. h[s] = LL[<<Max(s), h[s \ {Max(s)}]>>]
    <3> HIDE DEF S, D, Newest, LL
    <3> QED
      BY <1>7, <1>8, <2>1 DEF IsFold
  <2> HIDE DEF D
  <2> QED
    BY <2>1, <2>2, <2>3
<1>9. h[{}] = p
  <2> HIDE DEF S, D, Newest, LL
  <2> QED
    BY <1>7 DEF IsFold
<1>10. fold = [s \in SUBSET S |-> IF s = {} THEN p ELSE Look(fold[s \ {Max(s)}], p.queue[Max(s)])]
  <2>1. h = [s \in SUBSET S |-> IF s = {} THEN p ELSE Look(h[s \ {Max(s)}], p.queue[Max(s)])]
    <3> HIDE DEF S, D, Newest, LL
    <3> QED
      BY <1>7, <1>8, <1>9
  <2> HIDE DEF S
  <2> QED
    BY <2>1
<1>11. \A s \in SUBSET S : fold[s] = IF s = {} THEN p ELSE Look(fold[s \ {Max(s)}], p.queue[Max(s)])
  <2> HIDE DEF S, fold
  <2> QED
    BY <1>10
<1>12. Drain(p) = fold[S]
  BY DrainShape
<1> HIDE DEF fold, Newest, LL, D
<1> DEFINE Bad == {n \in Nat : n <= Len(p.queue) /\ ~Passed(p, fold[1..n], n, H)}
<1>13. Passed(p, fold[1..0], 0, H)
  <2>1. fold[1..0] = p
    <3>1. 1..0 = {} /\ {} \in SUBSET S
      OBVIOUS
    <3> HIDE DEF S
    <3> QED
      BY <1>11, <3>1
  <2>2. H \cup Taken(p, p) = H /\ \A x : x \notin Taken(p, p)
    BY DEF Taken
  <2>3. \A i \in DOMAIN p.queue : p.queue[i] \in ToSet(p.queue) /\ i > 0 /\ ~(i <= 0)
    BY <1>1 DEF ToSet
  <2>4. Len(p.queue) <= Len(p.queue)
    BY <1>1
  <2>5. Passed(p, p, 0, H)
    BY <2>2, <2>3, <2>4 DEF Passed
  <2> QED
    BY <2>1, <2>5
<1>14. Bad = {}
  <2> SUFFICES ASSUME Bad # {} PROVE FALSE
    OBVIOUS
  <2>1. PICK n \in Bad : \A k \in Bad : n <= k
    <3>1. Bad \subseteq Nat
      OBVIOUS
    <3> HIDE DEF Bad
    <3> QED
      BY <3>1, LeastExists
  <2>2. n \in Nat /\ n <= Len(p.queue) /\ ~Passed(p, fold[1..n], n, H)
    BY <2>1
  <2>3. n # 0
    BY <1>13, <2>2
  <2>4. n - 1 \in Nat /\ n - 1 <= Len(p.queue) /\ ~(n <= n - 1) /\ (n - 1) + 1 = n /\ n \in S
    BY <1>1, <2>2, <2>3
  <2>5. n - 1 \notin Bad
    <3> HIDE DEF Bad
    <3> QED
      BY <2>1, <2>4
  <2>6. Passed(p, fold[1..n - 1], n - 1, H)
    BY <2>4, <2>5
  <2>7. 1..n \in SUBSET S /\ 1..n # {} /\ Max(1..n) = n /\ (1..n) \ {n} = 1..n - 1
    <3>1. 1..n \in SUBSET S /\ 1..n # {} /\ n \in 1..n
      BY <1>1, <2>2, <2>3
    <3>2. Max(1..n) \in 1..n /\ Max(1..n) >= n
      BY <1>3, <3>1
    <3>3. Max(1..n) = n
      BY <2>2, <3>2
    <3>4. (1..n) \ {n} = 1..n - 1
      BY <2>2, <2>3
    <3> QED
      BY <3>1, <3>3, <3>4
  <2>8. fold[1..n] = Look(fold[1..n - 1], p.queue[n])
    <3> HIDE DEF S
    <3> QED
      BY <1>11, <2>7
  <2>9. Passed(p, fold[1..n], n, H)
    <3>1. (n - 1) + 1 \in DOMAIN p.queue
      BY <2>4
    <3>2. Passed(p, Look(fold[1..n - 1], p.queue[(n - 1) + 1]), (n - 1) + 1, H)
      BY <2>4, <2>6, <3>1, LookPasses
    <3> QED
      BY <2>4, <2>8, <3>2
  <2> QED
    BY <2>2, <2>9
<1>15. Passed(p, fold[1..Len(p.queue)], Len(p.queue), H)
  BY <1>1, <1>14
<1> QED
  BY <1>1, <1>12, <1>15

-----------------------------------------------------------------------------
(* The invariant.                                                          *)

\* What a task can be.
States == {"idle", "queued", "granted", "running", "refused"}

\* Who has a slot.
HoldersIn(st) == {t \in Tasks : st[t] \in {"granted", "running", "refused"}}

\* Pool and tasks agree: PoolExact but for what the queue could still give.
Agree(p, st) ==
  /\ p \in PoolRecord /\ st \in [Tasks -> States]
  /\ IsInjective(p.queue) /\ Len(p.queue) <= MaxQueued
  /\ ToSet(p.queue) = {t \in Tasks : st[t] = "queued"}
  /\ Counts(p, HoldersIn(st))
  /\ p.active <= MaxConcurrent /\ p.reserved <= MaxReserved
  /\ \A k \in Keys : p.counts[k] <= MaxPerKey

\* Nobody who waits would fit.
Drawn(p) == \A t \in ToSet(p.queue) : ~Fits(p, t)

\* The rest of PoolExact.
Rest ==
  /\ aborted \subseteq Tasks
  /\ session \in [Keys -> 1..MaxSession] /\ meant \in [Tasks -> 0..MaxSession]

\* The parts of the property.
LEMMA PoolExactParts == PoolExact <=> Agree(pool, state) /\ Drawn(pool) /\ Rest
BY DEF PoolExact, TypeOK, LimitsHold, WorkConserving, Agree, Drawn, Rest, Counts, PoolRecord,
       Holders, HoldersOf, HoldersIn, OfKey, States

\* Who leaves the queue in a drain has a slot.
Granted(p, st) ==
  [t \in Tasks |-> IF t \in Taken(p, Drain(p)) THEN "granted" ELSE st[t]]

\* The counters agree after a drain if they agreed before it.
LEMMA DrainAgrees ==
  ASSUME NEW p, NEW st, Agree(p, st)
  PROVE  Agree(Drain(p), Granted(p, st)) /\ Drawn(Drain(p))
<1> DEFINE H == HoldersIn(st)
           q == Drain(p)
           G == Taken(p, q)
<1>1. /\ p \in PoolRecord /\ IsInjective(p.queue) /\ st \in [Tasks -> States]
      /\ H \in SUBSET Tasks /\ H \cap ToSet(p.queue) = {} /\ Counts(p, H)
  BY DEF Agree, HoldersIn
<1>2. Passed(p, q, Len(p.queue), H)
  <2> HIDE DEF H
  <2> QED
    BY <1>1, DrainPasses
<1> HIDE DEF q
<1>3. ToSet(p.queue) = {t \in Tasks : st[t] = "queued"} /\ ToSet(q.queue) \subseteq ToSet(p.queue)
  BY <1>2 DEF Agree, Passed
<1>4. Granted(p, st) \in [Tasks -> States] /\ HoldersIn(Granted(p, st)) = H \cup G
  BY <1>1, <1>3 DEF Granted, HoldersIn, Taken, States, q
<1>5. ToSet(q.queue) = {t \in Tasks : Granted(p, st)[t] = "queued"}
  BY <1>3 DEF Granted, Taken, q
<1>6. Len(q.queue) <= MaxQueued
  <2>1. Len(q.queue) \in Nat /\ Len(p.queue) \in Nat /\ Len(q.queue) <= Len(p.queue)
        /\ Len(p.queue) <= MaxQueued
    BY <1>1, <1>2 DEF Passed, PoolRecord, Agree
  <2> QED
    BY <2>1, SchedulerAssumption
<1>7. Agree(q, Granted(p, st))
  BY <1>2, <1>4, <1>5, <1>6 DEF Agree, Passed
<1>8. Drawn(q)
  <2> SUFFICES ASSUME NEW t \in ToSet(q.queue) PROVE ~Fits(q, t)
    BY DEF Drawn
  <2>1. PICK i \in DOMAIN p.queue : p.queue[i] = t
    BY <1>3 DEF ToSet
  <2>2. i <= Len(p.queue)
    BY <1>1, <2>1 DEF PoolRecord
  <2> QED
    BY <1>2, <2>1, <2>2 DEF Passed
<1> QED
  BY <1>7, <1>8 DEF q

\* A step that drains.
LEMMA DrainedStep ==
  ASSUME NEW p, NEW t \in Tasks, state \in [Tasks -> States], Drained(p, t),
         Agree(p, [state EXCEPT ![t] = "idle"])
  PROVE  Agree(pool', state') /\ Drawn(pool')
<1> DEFINE st == [state EXCEPT ![t] = "idle"]
<1>1. pool' = Drain(p)
  BY DEF Drained
<1>2. state' = Granted(p, st)
  BY DEF Drained, Granted, Taken
<1> QED
  BY <1>1, <1>2, DrainAgrees

\* A queued task that leaves the queue without a slot.
LEMMA LeaveAgrees ==
  ASSUME Agree(pool, state), Drawn(pool), NEW t \in Tasks, state[t] = "queued"
  PROVE  LET p == [pool EXCEPT !.queue = RemoveFirst(@, t)]
         IN  Agree(p, [state EXCEPT ![t] = "idle"]) /\ Drawn(p)
<1> DEFINE p == [pool EXCEPT !.queue = RemoveFirst(@, t)]
           st == [state EXCEPT ![t] = "idle"]
<1>1. pool \in PoolRecord /\ state \in [Tasks -> States] /\ IsInjective(pool.queue)
      /\ pool.queue \in Seq(Tasks) /\ t \in ToSet(pool.queue)
  BY DEF Agree, PoolRecord
<1>2. /\ RemoveFirst(pool.queue, t) \in Seq(Tasks) /\ IsInjective(RemoveFirst(pool.queue, t))
      /\ ToSet(RemoveFirst(pool.queue, t)) = ToSet(pool.queue) \ {t}
      /\ Len(RemoveFirst(pool.queue, t)) = Len(pool.queue) - 1
  BY <1>1, RemoveFirstFacts
<1>3. /\ p \in PoolRecord /\ p.queue = RemoveFirst(pool.queue, t) /\ p.active = pool.active
      /\ p.reserved = pool.reserved /\ p.counts = pool.counts
  BY <1>1, <1>2 DEF PoolRecord
<1>4. st \in [Tasks -> States] /\ HoldersIn(st) = HoldersIn(state)
  BY <1>1 DEF HoldersIn, States
<1>5. ToSet(p.queue) = {u \in Tasks : st[u] = "queued"}
  BY <1>1, <1>2, <1>3 DEF Agree
<1>6. Len(p.queue) <= MaxQueued
  <2>1. Len(pool.queue) \in Nat /\ Len(pool.queue) <= MaxQueued
    BY <1>1 DEF Agree
  <2> QED
    BY <1>2, <1>3, <2>1, SchedulerAssumption
<1> HIDE DEF p, st
<1>7. Counts(p, HoldersIn(st))
  BY <1>3, <1>4 DEF Agree, Counts
<1>8. Agree(p, st)
  BY <1>2, <1>3, <1>4, <1>5, <1>6, <1>7 DEF Agree
<1>9. Drawn(p)
  <2>1. ToSet(p.queue) \subseteq ToSet(pool.queue)
    BY <1>2, <1>3
  <2>2. \A u : Fits(p, u) <=> Fits(pool, u)
    BY <1>3 DEF Fits
  <2> QED
    BY <2>1, <2>2 DEF Drawn
<1> QED
  BY <1>8, <1>9 DEF p, st

\* A task that ends gives back what it had.
LEMMA ReleaseAgrees ==
  ASSUME Agree(pool, state), NEW t \in Tasks, state[t] \in {"running", "refused"}
  PROVE  Agree(Release(pool, t), [state EXCEPT ![t] = "idle"])
<1> DEFINE p == Release(pool, t)
           st == [state EXCEPT ![t] = "idle"]
           H == HoldersIn(st)
           c == [pool.counts EXCEPT ![KeyOf[t]] = @ - 1]
<1>1. pool \in PoolRecord /\ state \in [Tasks -> States] /\ KeyOf[t] \in Keys /\ Size[t] \in Nat
  BY SchedulerAssumption DEF Agree
<1>2. HoldersIn(state) = H \cup {t} /\ t \notin H /\ H \in SUBSET Tasks
  BY <1>1 DEF HoldersIn
<1>3. st \in [Tasks -> States] /\ {u \in Tasks : st[u] = "queued"} = {u \in Tasks : state[u] = "queued"}
  BY <1>1 DEF States
<1> HIDE DEF H, st
<1>4. /\ Cardinality(H) \in Nat /\ Cardinality(H \cup {t}) = Cardinality(H) + 1
      /\ TotalSize(H) \in Nat /\ TotalSize(H \cup {t}) = TotalSize(H) + Size[t]
      /\ \A k \in Keys : /\ Cardinality(OfKey(H, k)) \in Nat
                         /\ Cardinality(OfKey(H \cup {t}, k)) =
                              IF k = KeyOf[t] THEN Cardinality(OfKey(H, k)) + 1
                              ELSE Cardinality(OfKey(H, k))
  BY <1>2, CountAdd, TotalSums
<1>5. pool.active = Cardinality(H) + 1 /\ pool.reserved = TotalSize(H) + Size[t]
      /\ \A k \in Keys : pool.counts[k] = IF k = KeyOf[t] THEN Cardinality(OfKey(H, k)) + 1
                                          ELSE Cardinality(OfKey(H, k))
  BY <1>2, <1>4 DEF Agree, Counts
<1>6. /\ pool.queue \in Seq(Tasks) /\ pool.counts \in [Keys -> Nat]
      /\ pool = [queue |-> pool.queue, active |-> pool.active, reserved |-> pool.reserved,
                 counts |-> pool.counts]
  BY <1>1 DEF PoolRecord
<1>7. c \in [Keys -> Nat] /\ \A k \in Keys : c[k] = Cardinality(OfKey(H, k))
  <2>1. ASSUME NEW k \in Keys PROVE c[k] = Cardinality(OfKey(H, k))
    BY <1>1, <1>4, <1>5, <1>6
  <2>2. c = [k \in Keys |-> c[k]]
    BY <1>6
  <2> HIDE DEF c
  <2> QED
    BY <1>4, <2>1, <2>2
<1>8. p = [queue |-> pool.queue, active |-> pool.active - 1, reserved |-> pool.reserved - Size[t],
           counts |-> c]
  <2>1. p = [pool EXCEPT !.active = @ - 1, !.reserved = @ - Size[t], !.counts = c]
    BY <1>6 DEF Release
  <2> HIDE DEF p, c
  <2> QED
    BY <1>6, <2>1
<1> HIDE DEF p, c
<1>9. pool.active - 1 = Cardinality(H) /\ pool.reserved - Size[t] = TotalSize(H)
  BY <1>1, <1>4, <1>5
<1>10. p \in PoolRecord /\ Counts(p, H)
  BY <1>4, <1>6, <1>7, <1>8, <1>9 DEF PoolRecord, Counts
<1>11. p.active <= MaxConcurrent /\ p.reserved <= MaxReserved /\ \A k \in Keys : p.counts[k] <= MaxPerKey
  <2>1. MaxConcurrent \in Nat /\ MaxReserved \in Nat /\ MaxPerKey \in Nat
    BY SchedulerAssumption
  <2>2. pool.active <= MaxConcurrent /\ pool.reserved <= MaxReserved
        /\ \A k \in Keys : pool.counts[k] <= MaxPerKey
    BY DEF Agree
  <2>3. p.active <= MaxConcurrent /\ p.reserved <= MaxReserved
    BY <1>1, <1>4, <1>5, <1>8, <1>9, <2>1, <2>2
  <2>4. ASSUME NEW k \in Keys PROVE p.counts[k] <= MaxPerKey
    BY <1>4, <1>5, <1>7, <1>8, <2>1, <2>2
  <2> QED
    BY <2>3, <2>4
<1>12. Agree(p, st)
  BY <1>3, <1>8, <1>10, <1>11 DEF Agree, H
<1> QED
  BY <1>12 DEF p, st

\* They agree at the start.
LEMMA InitExact == Init => PoolExact
<1> SUFFICES ASSUME Init PROVE Agree(pool, state) /\ Drawn(pool) /\ Rest
  BY PoolExactParts
<1>1. HoldersIn(state) = {} /\ \A k : OfKey({}, k) = {}
  BY DEF Init, HoldersIn, OfKey
<1>2. Cardinality({}) = 0 /\ TotalSize({}) = 0
  BY FS_EmptySet, TotalSums
<1>3. pool \in PoolRecord /\ pool.queue = << >> /\ IsInjective(pool.queue) /\ ToSet(pool.queue) = {}
  BY DEF Init, PoolRecord, IsInjective, ToSet
<1>4. Counts(pool, HoldersIn(state))
  BY <1>1, <1>2 DEF Init, Counts
<1>5. Agree(pool, state)
  BY <1>3, <1>4, SchedulerAssumption DEF Init, Agree, States
<1>6. Drawn(pool)
  BY <1>3 DEF Drawn
<1>7. Rest
  BY SchedulerAssumption DEF Init, Rest
<1> QED
  BY <1>5, <1>6, <1>7

\* What is common to the steps of a task.
LEMMA SubmitSteps ==
  ASSUME Agree(pool, state), NEW t \in Tasks, Submit(t)
  PROVE  LET p == [pool EXCEPT !.queue = Append(@, t)]
             st == [state EXCEPT ![t] = "queued"]
         IN  /\ p \in PoolRecord /\ p.queue = Append(pool.queue, t)
             /\ Agree(p, st) /\ pool' = Drain(p) /\ state' = Granted(p, st)
<1> DEFINE p == [pool EXCEPT !.queue = Append(@, t)]
           st == [state EXCEPT ![t] = "queued"]
<1>1. pool \in PoolRecord /\ state \in [Tasks -> States] /\ IsInjective(pool.queue)
      /\ pool.queue \in Seq(Tasks) /\ state[t] = "idle" /\ t \notin ToSet(pool.queue)
  BY DEF Agree, PoolRecord, Submit
<1>2. /\ Append(pool.queue, t) \in Seq(Tasks) /\ IsInjective(Append(pool.queue, t))
      /\ ToSet(Append(pool.queue, t)) = ToSet(pool.queue) \cup {t}
      /\ Len(Append(pool.queue, t)) = Len(pool.queue) + 1
  BY <1>1, AppendFacts
<1>3. /\ p \in PoolRecord /\ p.queue = Append(pool.queue, t) /\ p.active = pool.active
      /\ p.reserved = pool.reserved /\ p.counts = pool.counts
  BY <1>1, <1>2 DEF PoolRecord
<1>4. st \in [Tasks -> States] /\ HoldersIn(st) = HoldersIn(state)
  BY <1>1 DEF HoldersIn, States
<1>5. ToSet(p.queue) = {u \in Tasks : st[u] = "queued"}
  BY <1>1, <1>2, <1>3 DEF Agree
<1>6. Len(p.queue) <= MaxQueued
  <2>1. Len(pool.queue) \in Nat /\ Len(pool.queue) < MaxQueued
    BY <1>1 DEF Submit
  <2> QED
    BY <1>2, <1>3, <2>1, SchedulerAssumption
<1>7. pool' = Drain(p) /\ state' = Granted(p, st)
  <2>1. pool' = Drain(p)
    BY DEF Submit
  <2>2. state' = [u \in Tasks |-> IF u \in Taken(p, Drain(p)) THEN "granted"
                                  ELSE IF u = t THEN "queued" ELSE state[u]]
    BY DEF Submit, Taken
  <2>3. \A u \in Tasks : st[u] = IF u = t THEN "queued" ELSE state[u]
    BY <1>1
  <2> HIDE DEF p, st
  <2>4. state' = Granted(p, st)
    BY <2>2, <2>3 DEF Granted
  <2> QED
    BY <2>1, <2>4
<1> HIDE DEF p, st
<1>8. Counts(p, HoldersIn(st))
  BY <1>3, <1>4 DEF Agree, Counts
<1>9. Agree(p, st)
  BY <1>2, <1>3, <1>4, <1>5, <1>6, <1>8 DEF Agree
<1> QED
  BY <1>3, <1>7, <1>9 DEF p, st

\* Every step keeps that.
LEMMA NextExact == PoolExact /\ [Next]_vars => PoolExact'
<1> SUFFICES ASSUME Agree(pool, state), Drawn(pool), Rest, [Next]_vars
             PROVE  Agree(pool', state') /\ Drawn(pool') /\ Rest'
  <2>1. PoolExact' <=> Agree(pool', state') /\ Drawn(pool') /\ Rest'
    BY DEF PoolExact, TypeOK, LimitsHold, WorkConserving, Agree, Drawn, Rest, Counts, PoolRecord,
           Holders, HoldersOf, HoldersIn, OfKey, States
  <2> QED
    BY <2>1, PoolExactParts
<1>1. state \in [Tasks -> States] /\ pool \in PoolRecord
  BY DEF Agree
<1>2. ASSUME NEW t \in Tasks, Submit(t) PROVE Agree(pool', state') /\ Drawn(pool') /\ Rest'
  <2>1. Agree(pool', state') /\ Drawn(pool')
    <3> DEFINE p == [pool EXCEPT !.queue = Append(@, t)]
               st == [state EXCEPT ![t] = "queued"]
    <3>1. Agree(p, st) /\ pool' = Drain(p) /\ state' = Granted(p, st)
      BY <1>2, SubmitSteps
    <3> HIDE DEF p, st
    <3> QED
      BY <3>1, DrainAgrees
  <2>2. Rest'
    <3>1. session[KeyOf[t]] \in 1..MaxSession
      BY SchedulerAssumption DEF Rest
    <3>2. session[KeyOf[t]] \in 0..MaxSession
      BY <3>1
    <3> QED
      BY <1>2, <3>2 DEF Rest, Submit
  <2> QED
    BY <2>1, <2>2
<1>3. ASSUME NEW t \in Tasks, Abort(t) PROVE Agree(pool', state') /\ Drawn(pool') /\ Rest'
  <2>1. CASE state[t] = "queued"
    <3>1. Agree([pool EXCEPT !.queue = RemoveFirst(@, t)], [state EXCEPT ![t] = "idle"])
      BY <2>1, LeaveAgrees
    <3>2. Drained([pool EXCEPT !.queue = RemoveFirst(@, t)], t)
      BY <1>3, <2>1 DEF Abort
    <3> QED
      BY <1>1, <1>3, <3>1, <3>2, DrainedStep DEF Abort, Rest
  <2>2. CASE state[t] # "queued"
    BY <1>3, <2>2 DEF Abort, Rest
  <2> QED
    BY <2>1, <2>2
<1>4. ASSUME NEW t \in Tasks, Renew(t) PROVE Agree(pool', state') /\ Drawn(pool') /\ Rest'
  BY <1>4 DEF Renew, Rest
<1>5. ASSUME NEW t \in Tasks, TimeOut(t) PROVE Agree(pool', state') /\ Drawn(pool') /\ Rest'
  <2>1. state[t] = "queued" /\ pool' = [pool EXCEPT !.queue = RemoveFirst(@, t)]
        /\ state' = [state EXCEPT ![t] = "idle"]
    BY <1>5 DEF TimeOut
  <2>2. Agree(pool', state') /\ Drawn(pool')
    BY <2>1, LeaveAgrees
  <2> QED
    BY <1>5, <2>2 DEF TimeOut, Rest
<1>6. ASSUME NEW t \in Tasks, Begin(t) PROVE Agree(pool', state') /\ Drawn(pool') /\ Rest'
  <2>1. /\ state[t] = "granted" /\ state'[t] \in {"refused", "running"}
        /\ state' = [state EXCEPT ![t] = state'[t]] /\ pool' = pool
    BY <1>1, <1>6 DEF Begin
  <2>2. state' \in [Tasks -> States] /\ HoldersIn(state') = HoldersIn(state)
        /\ {u \in Tasks : state'[u] = "queued"} = {u \in Tasks : state[u] = "queued"}
    BY <1>1, <2>1 DEF HoldersIn, States
  <2>3. Agree(pool', state')
    BY <2>1, <2>2 DEF Agree
  <2>4. Drawn(pool') /\ Rest'
    BY <1>6, <2>1 DEF Begin, Rest
  <2> QED
    BY <2>3, <2>4
<1>7. ASSUME NEW t \in Tasks, End(t) PROVE Agree(pool', state') /\ Drawn(pool') /\ Rest'
  <2>1. Agree(Release(pool, t), [state EXCEPT ![t] = "idle"])
    BY <1>7, ReleaseAgrees DEF End
  <2> QED
    BY <1>1, <1>7, <2>1, DrainedStep DEF End, Rest
<1>8. ASSUME NEW k \in Keys, Reconnect(k) PROVE Agree(pool', state') /\ Drawn(pool') /\ Rest'
  <2>1. session' \in [Keys -> 1..MaxSession]
    <3>1. session[k] + 1 \in 1..MaxSession
      BY <1>8, SchedulerAssumption DEF Reconnect, Rest
    <3> QED
      BY <1>8, <3>1 DEF Reconnect, Rest
  <2> QED
    BY <1>8, <2>1 DEF Reconnect, Rest
<1>9. CASE UNCHANGED vars
  BY <1>9 DEF vars, Rest
<1> QED
  BY <1>2, <1>3, <1>4, <1>5, <1>6, <1>7, <1>8, <1>9 DEF Next, TaskStep

\* Slots and bytes are counted exactly, the limits hold, and no task waits that
\* could have a slot (run and drain of the scheduler).
THEOREM PoolStaysExact == Spec => []PoolExact
<1> QED
  BY InitExact, NextExact, PTL DEF Spec

-----------------------------------------------------------------------------
(* The action properties.                                                  *)

\* A granted task is in time when it begins.
LEMMA BeginsInTime ==
  ASSUME TypeOK, [Next]_vars, NEW t \in Tasks, state[t] = "granted", state'[t] = "running"
  PROVE  t \notin aborted /\ meant[t] = session[KeyOf[t]]
<1>1. state \in [Tasks -> States]
  BY DEF TypeOK, States
<1>2. ASSUME NEW u \in Tasks, Begin(u) PROVE t \notin aborted /\ meant[t] = session[KeyOf[t]]
  <2>1. u = t
    BY <1>1, <1>2 DEF Begin
  <2> QED
    BY <1>1, <1>2, <2>1 DEF Begin
<1>3. ASSUME NEW p, NEW u \in Tasks, Drained(p, u) PROVE FALSE
  BY <1>3 DEF Drained
<1>4. ASSUME NEW u \in Tasks, Submit(u) PROVE FALSE
  BY <1>4 DEF Submit
<1>5. ASSUME NEW u \in Tasks, Abort(u) PROVE FALSE
  BY <1>3, <1>5 DEF Abort
<1>6. ASSUME NEW u \in Tasks, Renew(u) \/ TimeOut(u) PROVE FALSE
  BY <1>1, <1>6 DEF Renew, TimeOut
<1>7. ASSUME NEW u \in Tasks, End(u) PROVE FALSE
  BY <1>3, <1>7 DEF End
<1>8. ASSUME NEW k \in Keys, Reconnect(k) PROVE FALSE
  BY <1>8 DEF Reconnect
<1>9. CASE UNCHANGED vars
  BY <1>9 DEF vars
<1> QED
  BY <1>2, <1>4, <1>5, <1>6, <1>7, <1>8, <1>9 DEF Next, TaskStep

\* No remote request is sent for a caller that has given up, or on another
\* connection than the one it was meant for (boundedRead, query).
THEOREM NothingIsLate == Spec => NothingLate
<1>1. PoolExact /\ [Next]_vars =>
        [\A t \in Tasks : state[t] = "granted" /\ state'[t] = "running"
           => t \notin aborted /\ meant[t] = session[KeyOf[t]]]_vars
  BY BeginsInTime DEF PoolExact
<1> QED
  BY <1>1, PoolStaysExact, PTL DEF Spec, NothingLate

\* A drain that grants a task a slot grants one to each task before it in the
\* queue that is of the same plugin and needs no more.
LEMMA DrainKeepsOrder ==
  ASSUME NEW p, NEW st, Agree(p, st), NEW i \in DOMAIN p.queue, NEW j \in DOMAIN p.queue, i < j,
         KeyOf[p.queue[i]] = KeyOf[p.queue[j]], Size[p.queue[i]] <= Size[p.queue[j]],
         p.queue[j] \in Taken(p, Drain(p))
  PROVE  p.queue[i] \in Taken(p, Drain(p))
<1> DEFINE H == HoldersIn(st)
<1>1. /\ p \in PoolRecord /\ IsInjective(p.queue) /\ st \in [Tasks -> States]
      /\ H \in SUBSET Tasks /\ H \cap ToSet(p.queue) = {} /\ Counts(p, H)
  BY DEF Agree, HoldersIn
<1>2. Passed(p, Drain(p), Len(p.queue), H)
  <2> HIDE DEF H
  <2> QED
    BY <1>1, DrainPasses
<1> QED
  BY <1>2 DEF Passed

\* A drain overtakes nobody.
LEMMA OvertakesNobody ==
  ASSUME PoolExact, [Next]_vars, NEW t \in Tasks, NEW u \in Tasks,
         state[u] = "queued", state'[u] = "granted", Ahead(t, u),
         KeyOf[t] = KeyOf[u], Size[t] <= Size[u], state'[t] = "queued"
  PROVE  FALSE
<1>1. Agree(pool, state) /\ Drawn(pool) /\ state \in [Tasks -> States] /\ pool.queue \in Seq(Tasks)
      /\ IsInjective(pool.queue)
  BY PoolExactParts DEF Agree, PoolRecord
<1>2. PICK i \in DOMAIN pool.queue, j \in DOMAIN pool.queue : i < j /\ pool.queue[i] = t /\ pool.queue[j] = u
  BY DEF Ahead
<1>3. t # u
  BY <1>1, <1>2 DEF IsInjective
<1>4. ASSUME NEW p, NEW st, Agree(p, st), NEW k \in DOMAIN p.queue, NEW l \in DOMAIN p.queue, k < l,
             p.queue[k] = t, p.queue[l] = u, u \in Taken(p, Drain(p)), t \notin Taken(p, Drain(p))
      PROVE  FALSE
  BY <1>4, DrainKeepsOrder
<1>5. ASSUME NEW p, NEW st, state' = Granted(p, st), st[u] # "granted"
      PROVE  u \in Taken(p, Drain(p)) /\ t \notin Taken(p, Drain(p))
  BY <1>5 DEF Granted
<1>6. ASSUME NEW p, NEW v \in Tasks, Drained(p, v)
      PROVE  u \in Taken(p, Drain(p)) /\ t \notin Taken(p, Drain(p)) /\ v # t
  BY <1>6 DEF Drained, Taken
<1>7. ASSUME NEW v \in Tasks, Submit(v) PROVE FALSE
  <2> DEFINE p == [pool EXCEPT !.queue = Append(@, v)]
             st == [state EXCEPT ![v] = "queued"]
  <2>1. p.queue = Append(pool.queue, v) /\ Agree(p, st) /\ state' = Granted(p, st)
    BY <1>1, <1>7, SubmitSteps
  <2>2. i \in DOMAIN p.queue /\ p.queue[i] = t /\ j \in DOMAIN p.queue /\ p.queue[j] = u
    <3>1. v \notin ToSet(pool.queue)
      BY <1>1, <1>7 DEF Submit, Agree
    <3> HIDE DEF p
    <3> QED
      BY <1>1, <1>2, <2>1, <3>1, AppendFacts
  <2>3. st[u] # "granted"
    BY <1>1
  <2> HIDE DEF p, st
  <2> QED
    BY <1>2, <1>4, <1>5, <2>1, <2>2, <2>3
<1>8. ASSUME NEW v \in Tasks, Abort(v) PROVE FALSE
  <2> DEFINE p == [pool EXCEPT !.queue = RemoveFirst(@, v)]
             st == [state EXCEPT ![v] = "idle"]
  <2>1. state[v] = "queued" /\ Drained(p, v)
    BY <1>8 DEF Abort
  <2>2. Agree(p, st)
    BY <1>1, <2>1, LeaveAgrees
  <2>3. u \in Taken(p, Drain(p)) /\ t \notin Taken(p, Drain(p)) /\ v # t
    BY <1>6, <2>1
  <2>4. p.queue = RemoveFirst(pool.queue, v)
    BY <1>1 DEF Agree, PoolRecord
  <2>5. v \in ToSet(pool.queue)
    BY <1>1, <2>1 DEF Agree
  <2>6. v # u
    <3>1. u \in ToSet(p.queue)
      BY <2>3 DEF Taken
    <3> HIDE DEF p
    <3> QED
      BY <1>1, <2>4, <2>5, <3>1, RemoveFirstFacts
  <2> HIDE DEF p, st
  <2>7. \E k, l \in DOMAIN p.queue : k < l /\ p.queue[k] = t /\ p.queue[l] = u
    BY <1>1, <1>2, <2>3, <2>4, <2>5, <2>6, RemoveFirstFacts
  <2> QED
    BY <1>4, <2>2, <2>3, <2>7
<1>9. ASSUME NEW v \in Tasks, End(v) PROVE FALSE
  <2> DEFINE p == Release(pool, v)
             st == [state EXCEPT ![v] = "idle"]
  <2>1. Agree(p, st)
    BY <1>1, <1>9, ReleaseAgrees DEF End
  <2>2. u \in Taken(p, Drain(p)) /\ t \notin Taken(p, Drain(p))
    BY <1>6, <1>9 DEF End
  <2>3. p.queue = pool.queue
    BY <1>1 DEF Agree, PoolRecord, Release
  <2> HIDE DEF p, st
  <2> QED
    BY <1>2, <1>4, <2>1, <2>2, <2>3
<1>10. ASSUME NEW v \in Tasks, Renew(v) \/ TimeOut(v) \/ Begin(v) PROVE FALSE
  BY <1>1, <1>10 DEF Renew, TimeOut, Begin
<1>11. ASSUME NEW k \in Keys, Reconnect(k) PROVE FALSE
  BY <1>11 DEF Reconnect
<1>12. CASE UNCHANGED vars
  BY <1>12 DEF vars
<1> QED
  BY <1>7, <1>8, <1>9, <1>10, <1>11, <1>12 DEF Next, TaskStep

\* A task is not overtaken by a later one of the same plugin that needs as
\* much or more, whoever leaves the queue between them (drain).
THEOREM NobodyIsOvertaken == Spec => NoOvertaking
<1>1. PoolExact /\ [Next]_vars =>
        [\A t, u \in Tasks :
           (state[u] = "queued" /\ state'[u] = "granted" /\ Ahead(t, u)
            /\ KeyOf[t] = KeyOf[u] /\ Size[t] <= Size[u]) => state'[t] # "queued"]_vars
  BY OvertakesNobody
<1> QED
  BY <1>1, PoolStaysExact, PTL DEF Spec, NoOvertaking

-----------------------------------------------------------------------------
(* DirectoryReads: the directories the window sees.                        *)

\* The instance counts and selects as the library does.
LEMMA TreeSizes == \A S : Tree!Cardinality(S) = Cardinality(S)
<1>1. ASSUME NEW S PROVE Tree!Cardinality(S) = Cardinality(S)
  BY DEF Tree!Cardinality, Cardinality
<1> QED BY <1>1

\* ... and selects.
LEMMA TreeSelects ==
  ASSUME NEW s, NEW K PROVE Tree!Selected(s, K) = Selected(s, K)
BY DEF Tree!Selected, Selected, Tree!Ordered, Ordered, Tree!Cardinality, Cardinality

\* From the assumptions of the instance.
LEMMA TreeGiven == None \notin Paths \cup Reads /\ IsFiniteSet(Channels) /\ MaxIdle \in Nat
BY ServerReadsAssumption DEF Tree!TreeAssumption, Tree!IsFiniteSet, IsFiniteSet

\* A path, or none.
MaybePath == Paths \cup {None}

\* A snapshot: whether its listing is complete, and whether links of it are unresolved.
ItemRecord == [listed : BOOLEAN, pending : BOOLEAN]

\* A read.
ReadRecord == [at : {"none", "starting", "opening", "working"}, item : MaybePath,
               kind : Tree!Kinds, users : SUBSET Callers, abort : {"no", "broken", "stopped"}]

\* A call of the window.
CallerRecord == [at : {"idle", "waiting", "answered", "checked", "page"},
                 item : MaybePath, read : Reads \cup {None}, fresh : BOOLEAN, links : BOOLEAN]

\* A channel.
ChannelRecord == [at : {"free", "opening", "leased", "closed", "idle"},
                  read : Reads \cup {None}, disposed : BOOLEAN]

\* The listing of p is under way, and somebody wants it.
Scans(rd, q, p) == rd[q].kind = "scan" /\ rd[q].users # {} /\ rd[q].item = p

\* A read is aborted exactly when nobody wants it or its snapshot has gone; what is in X is
\* about to be cleared, or has no listing yet.
ReadsAgree(cur, rd, X) ==
  \A r \in Reads :
    /\ rd[r].at = "none" => rd[r] = Tree!NoRead
    /\ rd[r].at # "none" => (rd[r].abort = "stopped" <=> rd[r].users = {} \/ rd[r].item = None)
    /\ rd[r].item \in cur \cup {None}
    /\ rd[r].kind = "scan" /\ rd[r].users = {} => rd[r].item \in X \cup {None}

\* A snapshot without a complete listing has one listing under way, which is wanted.
ListingsRun(cur, it, rd, X) ==
  \A p \in cur \ X : ~it[p].listed =>
    /\ \E r \in Reads : Scans(rd, r, p)
    /\ \A r, q \in Reads : Scans(rd, r, p) /\ Scans(rd, q, p) => r = q

\* Callers and reads know each other.
CallersAgree(cur, rd, cl) ==
  /\ \A c \in Callers : /\ cl[c].at = "waiting" <=> cl[c].read # None
                        /\ cl[c].item \in cur \cup {None}
                        /\ cl[c].read # None => cl[c].item = rd[cl[c].read].item
  /\ \A r \in Reads, c \in Callers : c \in rd[r].users <=> cl[c].read = r

\* A caller that is past the listing, or waits for what comes after it.
Later(rd, c) == c.at \in {"answered", "checked"} \/ (c.read # None /\ rd[c.read].kind # "scan")

\* A caller that is past the links, if it wanted them.
AtLast(rd, c) == c.at = "checked" \/ (c.read # None /\ rd[c.read].kind = "page")

\* Who is past a step has its result, as long as its snapshot is there.
PagesKnown(it, rd, cl) ==
  \A c \in Callers : cl[c].item # None =>
     /\ Later(rd, cl[c]) => it[cl[c].item].listed
     /\ AtLast(rd, cl[c]) /\ cl[c].links => ~it[cl[c].item].pending

\* The types.
TreeTyped(sn, it, rd, cl) ==
  /\ sn \in Seq(Paths) /\ Tree!IsInjective(sn)
  /\ it \in [Paths -> ItemRecord]
  /\ rd \in [Reads -> ReadRecord]
  /\ cl \in [Callers -> CallerRecord]

\* The snapshots, the reads and the callers agree.
TreeAgrees(sn, it, rd, cl, X) ==
  /\ TreeTyped(sn, it, rd, cl)
  /\ ReadsAgree(Tree!Range(sn), rd, X)
  /\ ListingsRun(Tree!Range(sn), it, rd, X)
  /\ CallersAgree(Tree!Range(sn), rd, cl)
  /\ PagesKnown(it, rd, cl)

\* A read that opens or works has one channel, and that channel no other read.
ChansAgree(rd, ch) ==
  /\ ch \in [Channels -> ChannelRecord]
  /\ \A r \in Reads : rd[r].at \in {"opening", "working"} => \E h \in Channels : ch[h].read = r
  /\ \A h \in Channels : ch[h].read # None =>
       \/ rd[ch[h].read].at = "opening" /\ ch[h].at = "opening"
       \/ rd[ch[h].read].at = "working" /\ ch[h].at \in {"leased", "closed"}
  /\ \A h, k \in Channels : ch[h].read = ch[k].read /\ ch[h].read # None => h = k
  /\ \A h \in Channels : ch[h].at \in {"leased", "closed"} => ch[h].read # None

\* The channels kept for later.
IdleOf(ch) == {h \in Channels : ch[h].at = "idle"}

\* A connection that is lost leaves no channel in use or kept; one that is opening will be
\* disposed of.
PoolAgrees(ch, cn) ==
  /\ cn \in BOOLEAN
  /\ Cardinality(IdleOf(ch)) <= MaxIdle
  /\ ~cn => \A h \in Channels : ch[h].at \notin {"idle", "leased"} /\ (ch[h].at = "opening" => ch[h].disposed)

\* The invariant.
TreeInv == TreeAgrees(snapshots, item, read, caller, {}) /\ ChansAgree(read, chan) /\ PoolAgrees(chan, conn)

\* Snapshots are taken out of their order.
LEMMA WithoutFacts ==
  ASSUME NEW order \in Seq(Paths), Tree!IsInjective(order), NEW S
  PROVE  /\ Tree!Without(S, order) \in Seq(Paths) /\ Tree!IsInjective(Tree!Without(S, order))
         /\ Tree!Range(Tree!Without(S, order)) = Tree!Range(order) \ S
<1> DEFINE K == {n \in DOMAIN order : order[n] \notin S}
           g == Tree!Without(S, order)
<1>1. DOMAIN order = 1..Len(order) /\ Len(order) \in Nat /\ \A n \in 1..Len(order) : order[n] \in Paths
  OBVIOUS
<1>2. K \in SUBSET (1..Len(order)) /\ g = Selected(order, K)
  BY <1>1, TreeSelects DEF Tree!Without
<1>a. \A n \in K : n \in DOMAIN order /\ order[n] \notin S
  OBVIOUS
<1>b. \A n \in DOMAIN order : order[n] \notin S => n \in K
  OBVIOUS
<1> HIDE DEF K, g
<1>3. PICK e \in [1..Cardinality(K) -> K] :
           /\ Cardinality(K) \in Nat
           /\ \A i, j \in 1..Cardinality(K) : e[i] = e[j] => i = j
           /\ \A k \in K : \E i \in 1..Cardinality(K) : e[i] = k
           /\ g = [i \in 1..Cardinality(K) |-> order[e[i]]]
  BY <1>1, <1>2, SelectedFacts
<1>4. \A i \in 1..Cardinality(K) : e[i] \in DOMAIN order /\ order[e[i]] \notin S /\ g[i] = order[e[i]]
  BY <1>3, <1>a
<1>5. g \in Seq(Paths) /\ DOMAIN g = 1..Cardinality(K)
  BY <1>1, <1>3, <1>4
<1>6. Tree!IsInjective(g)
  BY <1>3, <1>4, <1>5 DEF Tree!IsInjective
<1>7. ASSUME NEW p \in Tree!Range(g) PROVE p \in Tree!Range(order) \ S
  BY <1>4, <1>5 DEF Tree!Range
<1>8. ASSUME NEW p \in Tree!Range(order) \ S PROVE p \in Tree!Range(g)
  <2>1. PICK n \in DOMAIN order : order[n] = p
    BY DEF Tree!Range
  <2>2. n \in K
    BY <1>b, <2>1
  <2>3. PICK i \in 1..Cardinality(K) : e[i] = n
    BY <1>3, <2>2
  <2> QED
    BY <1>4, <1>5, <2>1, <2>3 DEF Tree!Range
<1> QED
  BY <1>5, <1>6, <1>7, <1>8 DEF g

\* A snapshot is put at its end.
LEMMA AppendedFacts ==
  ASSUME NEW s \in Seq(Paths), Tree!IsInjective(s), NEW p \in Paths, p \notin Tree!Range(s)
  PROVE  /\ Append(s, p) \in Seq(Paths) /\ Tree!IsInjective(Append(s, p))
         /\ Tree!Range(Append(s, p)) = Tree!Range(s) \cup {p}
<1>1. DOMAIN s = 1..Len(s) /\ Len(s) \in Nat
  OBVIOUS
<1>2. DOMAIN Append(s, p) = 1..Len(s) + 1 /\ Append(s, p)[Len(s) + 1] = p
      /\ \A i \in 1..Len(s) : Append(s, p)[i] = s[i]
  OBVIOUS
<1>3. \A i \in 1..Len(s) + 1 : i \in 1..Len(s) \/ i = Len(s) + 1
  BY <1>1
<1>4. Append(s, p) \in Seq(Paths)
  OBVIOUS
<1>5. Tree!IsInjective(Append(s, p))
  BY <1>1, <1>2, <1>3 DEF Tree!IsInjective, Tree!Range
<1>6. ASSUME NEW q \in Tree!Range(Append(s, p)) PROVE q \in Tree!Range(s) \cup {p}
  BY <1>1, <1>2, <1>3 DEF Tree!Range
<1>7. ASSUME NEW q \in Tree!Range(s) \cup {p} PROVE q \in Tree!Range(Append(s, p))
  <2>1. CASE q = p
    <3>1. Len(s) + 1 \in DOMAIN Append(s, p)
      BY <1>1, <1>2
    <3> QED BY <1>2, <2>1, <3>1 DEF Tree!Range
  <2>2. CASE q \in Tree!Range(s)
    <3>1. PICK i \in DOMAIN s : s[i] = q
      BY <2>2 DEF Tree!Range
    <3>2. i \in DOMAIN Append(s, p) /\ Append(s, p)[i] = q
      BY <1>1, <1>2, <3>1
    <3> QED BY <3>2 DEF Tree!Range
  <2> QED BY <2>1, <2>2
<1> QED
  BY <1>4, <1>5, <1>6, <1>7

\* What the cache drops are paths.
LEMMA TrimmedType ==
  ASSUME NEW order \in Seq(Paths), NEW keep, NEW its
  PROVE  Tree!Trimmed(order, keep, its) \in SUBSET Paths
<1> DEFINE oldest(n) == {order[i] : i \in 1..n} \ {keep}
           fits(S) == Tree!Cardinality(S) <= MaxDirectories /\ Tree!Cardinality({p \in S : its[p].listed}) <= MaxEntries
           N == {n \in 0..Len(order) : n = Len(order) \/ fits(Tree!Range(order) \ oldest(n))}
<1>1. Len(order) \in Nat /\ \A i \in 1..Len(order) : order[i] \in Paths
  OBVIOUS
<1>2. Len(order) \in N /\ N \subseteq Nat
  BY <1>1
<1>3. Tree!Min(N) \in N
  <2> HIDE DEF N
  <2>1. \E n \in N : \A m \in N : n <= m
    BY <1>2, LeastExists
  <2> QED
    BY <2>1 DEF Tree!Min
<1>4. Tree!Trimmed(order, keep, its) = oldest(Tree!Min(N))
  BY DEF Tree!Trimmed
<1> DEFINE m == Tree!Min(N)
<1>5. m \in 0..Len(order)
  BY <1>3
<1> HIDE DEF m
<1>6. \A i \in 1..m : order[i] \in Paths
  BY <1>1, <1>5
<1> QED
  BY <1>4, <1>6 DEF m

\* Three of the types.
Typed(it, rd, cl) ==
  /\ it \in [Paths -> ItemRecord]
  /\ rd \in [Reads -> ReadRecord]
  /\ cl \in [Callers -> CallerRecord]

\* What the types say of each field.
LEMMA Fields ==
  ASSUME NEW it, NEW rd, NEW cl, Typed(it, rd, cl)
  PROVE  /\ DOMAIN it = Paths /\ DOMAIN rd = Reads /\ DOMAIN cl = Callers
         /\ \A p \in Paths : it[p].listed \in BOOLEAN /\ it[p].pending \in BOOLEAN
         /\ \A r \in Reads : /\ rd[r].item \in MaybePath /\ rd[r].users \in SUBSET Callers
                             /\ rd[r].kind \in {"scan", "links", "page"}
                             /\ rd[r].abort \in {"no", "broken", "stopped"}
                             /\ rd[r].at \in {"none", "starting", "opening", "working"}
                             /\ rd[r] = [at |-> rd[r].at, item |-> rd[r].item, kind |-> rd[r].kind,
                                         users |-> rd[r].users, abort |-> rd[r].abort]
         /\ \A c \in Callers : /\ cl[c].item \in MaybePath /\ cl[c].read \in Reads \cup {None}
                               /\ cl[c].at \in {"idle", "waiting", "answered", "checked", "page"}
                               /\ cl[c].fresh \in BOOLEAN /\ cl[c].links \in BOOLEAN
                               /\ cl[c] = [at |-> cl[c].at, item |-> cl[c].item, read |-> cl[c].read,
                                           fresh |-> cl[c].fresh, links |-> cl[c].links]
  BY DEF Typed, ItemRecord, ReadRecord, CallerRecord, Tree!Kinds

\* A record of these fields is a read.
LEMMA MakeRead ==
  ASSUME NEW a \in {"none", "starting", "opening", "working"}, NEW i \in MaybePath,
         NEW k \in {"scan", "links", "page"}, NEW u \in SUBSET Callers, NEW b \in {"no", "broken", "stopped"}
  PROVE  [at |-> a, item |-> i, kind |-> k, users |-> u, abort |-> b] \in ReadRecord
  BY DEF ReadRecord, Tree!Kinds

\* ... and one of these a caller.
LEMMA MakeCaller ==
  ASSUME NEW a \in {"idle", "waiting", "answered", "checked", "page"}, NEW i \in MaybePath,
         NEW r \in Reads \cup {None}, NEW f \in BOOLEAN, NEW l \in BOOLEAN
  PROVE  [at |-> a, item |-> i, read |-> r, fresh |-> f, links |-> l] \in CallerRecord
  BY DEF CallerRecord

\* The snapshots in S are cleared: their reads are cut, their callers know no snapshot.
ClearedOf(S, order, its, rd, cl, sn2, it2, rd2, cl2) ==
  /\ S \in SUBSET Paths /\ TreeAgrees(order, its, rd, cl, S)
  /\ sn2 = Tree!Without(S, order) /\ it2 = [p \in Paths |-> IF p \in S THEN Tree!NoItem ELSE its[p]]
  /\ rd2 = Tree!Cut(S, rd)
  /\ cl2 = [c \in Callers |-> IF cl[c].item \in S THEN [cl[c] EXCEPT !.item = None] ELSE cl[c]]

\* What is left agrees.
LEMMA ClearedAgrees ==
  ASSUME NEW S, NEW order, NEW its, NEW rd, NEW cl,
         NEW sn2, NEW it2, NEW rd2, NEW cl2,
         ClearedOf(S, order, its, rd, cl, sn2, it2, rd2, cl2)
  PROVE  /\ TreeAgrees(sn2, it2, rd2, cl2, {})
         /\ Tree!Range(sn2) = Tree!Range(order) \ S
         /\ \A r \in Reads : rd2[r].at = rd[r].at
         /\ \A c \in Callers : cl2[c].at = cl[c].at
<1>0. S \in SUBSET Paths /\ TreeAgrees(order, its, rd, cl, S)
  BY DEF ClearedOf
<1> USE <1>0
<1>1. Typed(its, rd, cl) /\ order \in Seq(Paths) /\ Tree!IsInjective(order)
  BY DEF TreeAgrees, TreeTyped, Typed
<1>2. None \notin Paths /\ None \notin Reads
  BY TreeGiven
<1> DEFINE cur == Tree!Range(order)
<1>3. sn2 \in Seq(Paths) /\ Tree!IsInjective(sn2) /\ Tree!Range(sn2) = cur \ S
  BY <1>1, WithoutFacts DEF ClearedOf
<1>4. cur \subseteq Paths
  BY <1>1 DEF Tree!Range
<1>5. it2 = [p \in Paths |-> IF p \in S THEN Tree!NoItem ELSE its[p]]
  BY DEF ClearedOf
<1>6. /\ rd2 = [r \in Reads |-> rd2[r]]
      /\ \A r \in Reads : IF rd[r].item \in S THEN rd2[r] = [rd[r] EXCEPT !.abort = "stopped", !.item = None]
                                              ELSE rd2[r] = rd[r]
  BY DEF Tree!Cut, ClearedOf
<1>7. /\ cl2 = [c \in Callers |-> cl2[c]]
      /\ \A c \in Callers : IF cl[c].item \in S THEN cl2[c] = [cl[c] EXCEPT !.item = None]
                                                ELSE cl2[c] = cl[c]
  BY DEF ClearedOf
<1>8. \A r \in Reads : /\ rd2[r].at = rd[r].at /\ rd2[r].kind = rd[r].kind /\ rd2[r].users = rd[r].users
                       /\ rd[r].item \in S => rd2[r].item = None /\ rd2[r].abort = "stopped"
                                  /\ rd2[r] = [at |-> rd[r].at, item |-> None, kind |-> rd[r].kind,
                                                 users |-> rd[r].users, abort |-> "stopped"]
                       /\ rd[r].item \notin S => rd2[r] = rd[r]
  <2> SUFFICES ASSUME NEW r \in Reads
               PROVE  /\ rd2[r].at = rd[r].at /\ rd2[r].kind = rd[r].kind /\ rd2[r].users = rd[r].users
                      /\ rd[r].item \in S => rd2[r].item = None /\ rd2[r].abort = "stopped"
                                  /\ rd2[r] = [at |-> rd[r].at, item |-> None, kind |-> rd[r].kind,
                                                 users |-> rd[r].users, abort |-> "stopped"]
                      /\ rd[r].item \notin S => rd2[r] = rd[r]
    OBVIOUS
  <2>1. rd[r] = [at |-> rd[r].at, item |-> rd[r].item, kind |-> rd[r].kind, users |-> rd[r].users, abort |-> rd[r].abort]
    BY <1>1, Fields
  <2> QED
    BY <1>6, <2>1
<1>9. \A c \in Callers : /\ cl2[c].at = cl[c].at /\ cl2[c].read = cl[c].read
                         /\ cl2[c].links = cl[c].links /\ cl2[c].fresh = cl[c].fresh
                         /\ cl[c].item \in S => cl2[c].item = None
                                  /\ cl2[c] = [at |-> cl[c].at, item |-> None, read |-> cl[c].read,
                                                   fresh |-> cl[c].fresh, links |-> cl[c].links]
                         /\ cl[c].item \notin S => cl2[c] = cl[c]
  <2> SUFFICES ASSUME NEW c \in Callers
               PROVE  /\ cl2[c].at = cl[c].at /\ cl2[c].read = cl[c].read
                      /\ cl2[c].links = cl[c].links /\ cl2[c].fresh = cl[c].fresh
                      /\ cl[c].item \in S => cl2[c].item = None
                                  /\ cl2[c] = [at |-> cl[c].at, item |-> None, read |-> cl[c].read,
                                                   fresh |-> cl[c].fresh, links |-> cl[c].links]
                      /\ cl[c].item \notin S => cl2[c] = cl[c]
    OBVIOUS
  <2>1. cl[c] = [at |-> cl[c].at, item |-> cl[c].item, read |-> cl[c].read, fresh |-> cl[c].fresh, links |-> cl[c].links]
    BY <1>1, Fields
  <2> QED
    BY <1>7, <2>1
<1>10. TreeTyped(sn2, it2, rd2, cl2)
  <2>1. it2 \in [Paths -> ItemRecord]
    BY <1>1, <1>5 DEF Typed, Tree!NoItem, ItemRecord
  <2>2. rd2 \in [Reads -> ReadRecord]
    <3>1. ASSUME NEW r \in Reads PROVE rd2[r] \in ReadRecord
      <4>1. CASE rd[r].item \in S
        <5>1. None \in MaybePath
          BY DEF MaybePath
        <5>2. /\ rd[r].users \in SUBSET Callers /\ rd[r].kind \in {"scan", "links", "page"}
              /\ rd[r].at \in {"none", "starting", "opening", "working"}
          BY <1>1, Fields
        <5>3. rd2[r] = [at |-> rd[r].at, item |-> None, kind |-> rd[r].kind,
                          users |-> rd[r].users, abort |-> "stopped"]
          BY <1>8, <4>1
        <5> DEFINE a == rd[r].at  k == rd[r].kind  u == rd[r].users
        <5>4. a \in {"none", "starting", "opening", "working"} /\ k \in {"scan", "links", "page"}
              /\ u \in SUBSET Callers /\ "stopped" \in {"no", "broken", "stopped"}
          BY <5>2
        <5> HIDE DEF a, k, u
        <5>5. [at |-> a, item |-> None, kind |-> k, users |-> u, abort |-> "stopped"] \in ReadRecord
          BY <5>1, <5>4, MakeRead
        <5> QED BY <5>3, <5>5 DEF a, k, u
      <4>2. CASE rd[r].item \notin S
        BY <1>1, <1>8, <4>2 DEF Typed
      <4> QED BY <4>1, <4>2
    <3> QED BY <1>6, <3>1
  <2>3. cl2 \in [Callers -> CallerRecord]
    <3>1. ASSUME NEW c \in Callers PROVE cl2[c] \in CallerRecord
      <4>1. CASE cl[c].item \in S
        <5>1. None \in MaybePath
          BY DEF MaybePath
        <5>2. /\ cl[c].at \in {"idle", "waiting", "answered", "checked", "page"}
              /\ cl[c].read \in Reads \cup {None}
              /\ cl[c].fresh \in BOOLEAN /\ cl[c].links \in BOOLEAN
          BY <1>1, Fields
        <5>3. cl2[c] = [at |-> cl[c].at, item |-> None, read |-> cl[c].read,
                            fresh |-> cl[c].fresh, links |-> cl[c].links]
          BY <1>9, <4>1
        <5> DEFINE a == cl[c].at  i == cl[c].read  f == cl[c].fresh  l == cl[c].links
        <5>4. /\ a \in {"idle", "waiting", "answered", "checked", "page"} /\ i \in Reads \cup {None}
              /\ f \in BOOLEAN /\ l \in BOOLEAN
          BY <5>2
        <5> HIDE DEF a, i, f, l
        <5>5. [at |-> a, item |-> None, read |-> i, fresh |-> f, links |-> l] \in CallerRecord
          BY <5>1, <5>4, MakeCaller
        <5> QED BY <5>3, <5>5 DEF a, i, f, l
      <4>2. CASE cl[c].item \notin S
        BY <1>1, <1>9, <4>2 DEF Typed
      <4> QED BY <4>1, <4>2
    <3> QED BY <1>7, <3>1
  <2> QED
    BY <1>3, <2>1, <2>2, <2>3 DEF TreeTyped
<1> HIDE DEF cur
<1>11. ReadsAgree(cur \ S, rd2, {})
  <2>1. ReadsAgree(cur, rd, S)
    BY DEF TreeAgrees, cur
  <2> SUFFICES ASSUME NEW r \in Reads
               PROVE  /\ rd2[r].at = "none" => rd2[r] = Tree!NoRead
                      /\ rd2[r].at # "none" => (rd2[r].abort = "stopped" <=> rd2[r].users = {} \/ rd2[r].item = None)
                      /\ rd2[r].item \in (cur \ S) \cup {None}
                      /\ rd2[r].kind = "scan" /\ rd2[r].users = {} => rd2[r].item \in {} \cup {None}
    BY DEF ReadsAgree
  <2>2. CASE rd[r].item \in S
    <3>1. rd[r].at # "none"
      BY <1>2, <2>1, <2>2 DEF ReadsAgree, Tree!NoRead
    <3> QED
      BY <1>8, <2>2, <3>1
  <2>3. CASE rd[r].item \notin S
    BY <1>8, <2>1, <2>3 DEF ReadsAgree
  <2> QED
    BY <2>2, <2>3
<1>12. ListingsRun(cur \ S, it2, rd2, {})
  <2>1. ListingsRun(cur, its, rd, S)
    BY DEF TreeAgrees, cur
  <2> SUFFICES ASSUME NEW p \in cur \ S, ~it2[p].listed
               PROVE  /\ \E r \in Reads : Scans(rd2, r, p)
                      /\ \A r, q \in Reads : Scans(rd2, r, p) /\ Scans(rd2, q, p) => r = q
    BY DEF ListingsRun
  <2>2. it2[p] = its[p] /\ p # None
    BY <1>2, <1>4, <1>5 DEF cur
  <2>3. \A r \in Reads : Scans(rd2, r, p) <=> Scans(rd, r, p)
    BY <1>8, <2>2 DEF Scans
  <2> QED
    BY <2>1, <2>2, <2>3 DEF ListingsRun
<1>13. CallersAgree(cur \ S, rd2, cl2)
  <2>1. CallersAgree(cur, rd, cl)
    BY DEF TreeAgrees, cur
  <2>2. \A c \in Callers : cl[c].read \in Reads \cup {None}
    BY <1>1, Fields
  <2>a. \A r \in Reads, c \in Callers : c \in rd[r].users <=> cl[c].read = r
    BY <2>1 DEF CallersAgree
  <2>b. (\A r \in Reads : rd2[r].users = rd[r].users) /\ \A c \in Callers : cl2[c].read = cl[c].read
    BY <1>8, <1>9
  <2>3. \A r \in Reads, c \in Callers : c \in rd2[r].users <=> cl2[c].read = r
    BY <2>a, <2>b
  <2>c. ASSUME NEW c \in Callers
        PROVE  /\ (cl2[c].at = "waiting") <=> (cl2[c].read # None)
               /\ cl2[c].item \in (cur \ S) \cup {None}
               /\ cl2[c].read # None => cl2[c].item = rd2[cl2[c].read].item
    <3>4. /\ (cl[c].at = "waiting") <=> (cl[c].read # None)
          /\ cl[c].item \in cur \cup {None}
          /\ cl[c].read # None => cl[c].item = rd[cl[c].read].item
      BY <2>1 DEF CallersAgree
    <3>5. CASE cl[c].item \in S
      <4>1. cl2[c].at = cl[c].at /\ cl2[c].read = cl[c].read /\ cl2[c].item = None
        BY <1>9, <3>5
      <4>2. cl[c].read # None => rd2[cl[c].read].item = None
        BY <1>8, <2>2, <3>4, <3>5
      <4> QED
        BY <3>4, <4>1, <4>2
    <3>6. CASE cl[c].item \notin S
      <4>1. cl2[c].at = cl[c].at /\ cl2[c].read = cl[c].read /\ cl2[c].item = cl[c].item
        BY <1>9, <3>6
      <4>2. cl[c].read # None => rd2[cl[c].read].item = cl[c].item
        BY <1>8, <2>2, <3>4, <3>6
      <4> QED
        BY <3>4, <3>6, <4>1, <4>2
    <3> QED
      BY <3>5, <3>6
  <2> QED
    BY <2>3, <2>c DEF CallersAgree
<1>14. PagesKnown(it2, rd2, cl2)
  <2>1. PagesKnown(its, rd, cl) /\ CallersAgree(cur, rd, cl)
    BY DEF TreeAgrees, cur
  <2> SUFFICES ASSUME NEW c \in Callers, cl2[c].item # None
               PROVE  /\ Later(rd2, cl2[c]) => it2[cl2[c].item].listed
                      /\ AtLast(rd2, cl2[c]) /\ cl2[c].links => ~it2[cl2[c].item].pending
    BY DEF PagesKnown
  <2>2. cl[c].item \notin S /\ cl2[c] = cl[c]
    BY <1>9
  <2>3. cl[c].item \in cur
    BY <2>1, <2>2 DEF CallersAgree
  <2>4. it2[cl[c].item] = its[cl[c].item]
    BY <1>4, <1>5, <2>2, <2>3 DEF cur
  <2>5. cl[c].read \in Reads \cup {None}
    BY <1>1, Fields
  <2>6. (Later(rd2, cl[c]) <=> Later(rd, cl[c])) /\ (AtLast(rd2, cl[c]) <=> AtLast(rd, cl[c]))
    BY <1>8, <2>5 DEF Later, AtLast
  <2> QED
    BY <2>1, <2>2, <2>4, <2>6 DEF PagesKnown
<1> QED
  BY <1>3, <1>8, <1>9, <1>10, <1>11, <1>12, <1>13, <1>14 DEF TreeAgrees, cur

\* The same for a step that ends with a clear.
LEMMA BecomesAgrees ==
  ASSUME NEW S \in SUBSET Paths, NEW order, NEW its, NEW rd, NEW cl,
         TreeAgrees(order, its, rd, cl, S), Tree!Becomes(S, order, its, rd, cl)
  PROVE  /\ TreeAgrees(snapshots', item', read', caller', {})
         /\ Tree!Range(snapshots') = Tree!Range(order) \ S
         /\ \A r \in Reads : read'[r].at = rd[r].at
         /\ \A c \in Callers : caller'[c].at = cl[c].at
<1>1. ClearedOf(S, order, its, rd, cl, snapshots', item', read', caller')
  BY DEF Tree!Becomes, ClearedOf
<1> QED
  BY <1>1, ClearedAgrees

\* What TreeAgrees says, one by one.
LEMMA Parts ==
  ASSUME NEW sn, NEW it, NEW rd, NEW cl, NEW X, TreeAgrees(sn, it, rd, cl, X)
  PROVE  /\ Typed(it, rd, cl) /\ sn \in Seq(Paths) /\ Tree!IsInjective(sn) /\ Tree!Range(sn) \subseteq Paths
         /\ None \notin Paths /\ None \notin Reads
         /\ \A r \in Reads :
              /\ rd[r].at = "none" => rd[r] = Tree!NoRead
              /\ rd[r].at = "none" => rd[r].users = {} /\ rd[r].item = None
              /\ rd[r].at # "none" => ((rd[r].abort = "stopped") <=> (rd[r].users = {} \/ rd[r].item = None))
              /\ rd[r].item \in Tree!Range(sn) \cup {None}
              /\ rd[r].kind = "scan" /\ rd[r].users = {} => rd[r].item \in X \cup {None}
         /\ \A c \in Callers :
              /\ (cl[c].at = "waiting") <=> (cl[c].read # None)
              /\ cl[c].item \in Tree!Range(sn) \cup {None}
              /\ cl[c].read # None => cl[c].item = rd[cl[c].read].item
         /\ \A r \in Reads, c \in Callers : c \in rd[r].users <=> cl[c].read = r
<1>1. Typed(it, rd, cl) /\ sn \in Seq(Paths) /\ Tree!IsInjective(sn)
  BY DEF TreeAgrees, TreeTyped, Typed
<1>2. Tree!Range(sn) \subseteq Paths
  BY <1>1 DEF Tree!Range
<1>3. None \notin Paths /\ None \notin Reads
  BY TreeGiven
<1>4. \A r \in Reads :
              /\ rd[r].at = "none" => rd[r] = Tree!NoRead
              /\ rd[r].at # "none" => ((rd[r].abort = "stopped") <=> (rd[r].users = {} \/ rd[r].item = None))
              /\ rd[r].item \in Tree!Range(sn) \cup {None}
              /\ rd[r].kind = "scan" /\ rd[r].users = {} => rd[r].item \in X \cup {None}
  BY DEF TreeAgrees, ReadsAgree
<1>5. \A r \in Reads : rd[r].at = "none" => rd[r].users = {} /\ rd[r].item = None
  BY <1>4 DEF Tree!NoRead
<1>6. \A c \in Callers :
              /\ (cl[c].at = "waiting") <=> (cl[c].read # None)
              /\ cl[c].item \in Tree!Range(sn) \cup {None}
              /\ cl[c].read # None => cl[c].item = rd[cl[c].read].item
  BY DEF TreeAgrees, CallersAgree
<1>7. \A r \in Reads, c \in Callers : c \in rd[r].users <=> cl[c].read = r
  BY DEF TreeAgrees, CallersAgree
<1> QED
  BY <1>1, <1>2, <1>3, <1>4, <1>5, <1>6, <1>7

\* ... and what gives it.
LEMMA Compose ==
  ASSUME NEW sn \in Seq(Paths), Tree!IsInjective(sn), NEW it, NEW rd, NEW cl, NEW X, Typed(it, rd, cl),
         \A r \in Reads :
              /\ rd[r].at = "none" => rd[r] = Tree!NoRead
              /\ rd[r].at # "none" => ((rd[r].abort = "stopped") <=> (rd[r].users = {} \/ rd[r].item = None))
              /\ rd[r].item \in Tree!Range(sn) \cup {None}
              /\ rd[r].kind = "scan" /\ rd[r].users = {} => rd[r].item \in X \cup {None},
         \A p \in Tree!Range(sn) \ X : ~it[p].listed =>
            /\ \E r \in Reads : Scans(rd, r, p)
            /\ \A r, q \in Reads : Scans(rd, r, p) /\ Scans(rd, q, p) => r = q,
         \A c \in Callers :
              /\ (cl[c].at = "waiting") <=> (cl[c].read # None)
              /\ cl[c].item \in Tree!Range(sn) \cup {None}
              /\ cl[c].read # None => cl[c].item = rd[cl[c].read].item,
         \A r \in Reads, c \in Callers : c \in rd[r].users <=> cl[c].read = r,
         \A c \in Callers : cl[c].item # None =>
              /\ Later(rd, cl[c]) => it[cl[c].item].listed
              /\ AtLast(rd, cl[c]) /\ cl[c].links => ~it[cl[c].item].pending
  PROVE  TreeAgrees(sn, it, rd, cl, X)
<1>1. TreeTyped(sn, it, rd, cl)
  BY DEF TreeTyped, Typed
<1>2. ReadsAgree(Tree!Range(sn), rd, X)
  BY DEF ReadsAgree
<1>3. ListingsRun(Tree!Range(sn), it, rd, X)
  BY DEF ListingsRun
<1>4. CallersAgree(Tree!Range(sn), rd, cl)
  BY DEF CallersAgree
<1>5. PagesKnown(it, rd, cl)
  BY DEF PagesKnown
<1> QED
  BY <1>1, <1>2, <1>3, <1>4, <1>5 DEF TreeAgrees

\* The step answers no caller with a page.
NoNewPage == \A c \in Callers : caller'[c].at = "page" => caller[c].at = "page"

\* What the end of a read leaves of its snapshot.
SettledItem(it, p, ok, kind) ==
  IF ~ok \/ p = None THEN it
  ELSE IF kind = "scan" THEN [it EXCEPT ![p].listed = TRUE]
  ELSE IF kind = "links" THEN [it EXCEPT ![p].pending = FALSE]
  ELSE it

\* A snapshot with other values.
LEMMA ItemWith ==
  ASSUME NEW x, NEW l, NEW n, NEW v, x = [listed |-> l, pending |-> n]
  PROVE  /\ [x EXCEPT !.listed = v] = [listed |-> v, pending |-> n]
         /\ [x EXCEPT !.pending = v] = [listed |-> l, pending |-> v]
  OBVIOUS

\* A listing that is complete stays so, and links that are resolved too.
LEMMA SettledItemFacts ==
  ASSUME NEW it, it \in [Paths -> ItemRecord], NEW p \in Paths \cup {None}, None \notin Paths,
         NEW ok \in BOOLEAN, NEW kind, NEW its, its = SettledItem(it, p, ok, kind)
  PROVE  /\ its \in [Paths -> ItemRecord]
         /\ \A q \in Paths :
              /\ it[q].listed => its[q].listed
              /\ its[q].listed /\ ~it[q].listed => q = p /\ ok /\ kind = "scan"
              /\ ok /\ kind = "scan" /\ q = p => its[q].listed
              /\ its[q].pending => it[q].pending
              /\ ok /\ kind = "links" /\ q = p => ~its[q].pending
<1>1. \A q \in Paths : it[q] = [listed |-> it[q].listed, pending |-> it[q].pending]
                       /\ it[q].listed \in BOOLEAN /\ it[q].pending \in BOOLEAN
  BY DEF ItemRecord
<1>2. \A l, n \in BOOLEAN : [listed |-> l, pending |-> n] \in ItemRecord
  BY DEF ItemRecord
<1>3. DOMAIN it = Paths
  OBVIOUS
<1>4. CASE ~ok \/ p = None \/ (kind # "scan" /\ kind # "links")
  <2>1. its = it
    BY <1>4 DEF SettledItem
  <2> QED BY <1>4, <2>1
<1>5. CASE ok /\ p # None /\ kind = "scan"
  <2>1. its = [it EXCEPT ![p].listed = TRUE] /\ p \in Paths
    BY <1>5 DEF SettledItem
  <2> DEFINE w == [it[p] EXCEPT !.listed = TRUE]
  <2>2. w = [listed |-> TRUE, pending |-> it[p].pending]
    <3>1. it[p] = [listed |-> it[p].listed, pending |-> it[p].pending]
      BY <2>1, <1>1
    <3> DEFINE v == TRUE
    <3>2. w = [it[p] EXCEPT !.listed = v]
      OBVIOUS
    <3> HIDE DEF w, v
    <3>3. w = [listed |-> v, pending |-> it[p].pending]
      BY <3>1, <3>2, ItemWith
    <3> QED BY <3>3 DEF v
  <2>3. its = [it EXCEPT ![p] = w]
    BY <2>1, <1>3
  <2> HIDE DEF w
  <2>4. DOMAIN its = Paths /\ \A q \in Paths : its[q] = IF q = p THEN w ELSE it[q]
    BY <2>1, <2>3, <1>3
  <2>5. w \in ItemRecord
    BY <1>1, <1>2, <2>1, <2>2
  <2>6. its = [q \in Paths |-> its[q]]
    BY <2>3, <1>3
  <2>7. \A q \in Paths : its[q] \in ItemRecord
    BY <2>4, <2>5
  <2>8. w.listed = TRUE /\ w.pending = it[p].pending
    BY <2>2
  <2>9. its \in [Paths -> ItemRecord]
    BY <2>6, <2>7
  <2>10. \A q \in Paths : q # p => its[q] = it[q]
    BY <2>4
  <2>11. its[p] = w
    BY <2>1, <2>4
  <2> QED BY <1>1, <1>5, <2>8, <2>9, <2>10, <2>11
<1>6. CASE ok /\ p # None /\ kind = "links"
  <2>1. its = [it EXCEPT ![p].pending = FALSE] /\ p \in Paths
    BY <1>6 DEF SettledItem
  <2> DEFINE w == [it[p] EXCEPT !.pending = FALSE]
  <2>2. w = [listed |-> it[p].listed, pending |-> FALSE]
    <3>1. it[p] = [listed |-> it[p].listed, pending |-> it[p].pending]
      BY <2>1, <1>1
    <3> DEFINE v == FALSE
    <3>2. w = [it[p] EXCEPT !.pending = v]
      OBVIOUS
    <3> HIDE DEF w, v
    <3>3. w = [listed |-> it[p].listed, pending |-> v]
      BY <3>1, <3>2, ItemWith
    <3> QED BY <3>3 DEF v
  <2>3. its = [it EXCEPT ![p] = w]
    BY <2>1, <1>3
  <2> HIDE DEF w
  <2>4. DOMAIN its = Paths /\ \A q \in Paths : its[q] = IF q = p THEN w ELSE it[q]
    BY <2>1, <2>3, <1>3
  <2>5. w \in ItemRecord
    BY <1>1, <1>2, <2>1, <2>2
  <2>6. its = [q \in Paths |-> its[q]]
    BY <2>3, <1>3
  <2>7. \A q \in Paths : its[q] \in ItemRecord
    BY <2>4, <2>5
  <2>8. w.listed = it[p].listed /\ w.pending = FALSE
    BY <2>2
  <2>9. its \in [Paths -> ItemRecord]
    BY <2>6, <2>7
  <2>10. \A q \in Paths : q # p => its[q] = it[q]
    BY <2>4
  <2>11. its[p] = w
    BY <2>1, <2>4
  <2> QED BY <1>1, <1>6, <2>8, <2>9, <2>10, <2>11
<1> QED
  BY <1>4, <1>5, <1>6

\* A read ends: its callers are answered or refused, and a listing that failed is cleared.
LEMMA SettlesStep ==
  ASSUME TreeAgrees(snapshots, item, read, caller, {}), NEW r \in Reads, read[r].at # "none",
         NEW ok \in BOOLEAN, NEW also \in BOOLEAN, ok => read[r].abort # "stopped",
         Tree!Settles(r, ok, also)
  PROVE  /\ TreeAgrees(snapshots', item', read', caller', {})
         /\ \A q \in Reads : read'[q].at = IF q = r THEN "none" ELSE read[q].at
         /\ NoNewPage
<1> DEFINE p == read[r].item
           scan == read[r].kind = "scan"
           after == IF scan THEN "answered" ELSE "checked"
           rd == [read EXCEPT ![r] = Tree!NoRead]
           cl == [c \in Callers |->
                    IF c \notin read[r].users THEN caller[c]
                    ELSE IF ok THEN [caller[c] EXCEPT !.at = after, !.read = None]
                    ELSE Tree!NoCaller]
           ItsOf == IF ~ok \/ p = None THEN item
                 ELSE IF scan THEN [item EXCEPT ![p].listed = TRUE]
                 ELSE IF read[r].kind = "links" THEN [item EXCEPT ![p].pending = FALSE]
                 ELSE item
<1>1. PICK its \in {ItsOf} : \E S \in {(IF ok THEN IF scan THEN Tree!Trimmed(snapshots, p, its) ELSE {}
                       ELSE IF scan \/ also THEN {p} ELSE {}) \ {None}} :
         Tree!Becomes(S, snapshots, its, rd, cl)
  BY DEF Tree!Settles
<1>2. PICK S \in {(IF ok THEN IF scan THEN Tree!Trimmed(snapshots, p, its) ELSE {}
                       ELSE IF scan \/ also THEN {p} ELSE {}) \ {None}} :
         Tree!Becomes(S, snapshots, its, rd, cl)
  BY <1>1
<1>p. /\ Typed(item, read, caller) /\ snapshots \in Seq(Paths) /\ Tree!IsInjective(snapshots) /\ Tree!Range(snapshots) \subseteq Paths
      /\ None \notin Paths /\ None \notin Reads
      /\ \A q \in Reads :
           /\ read[q].at = "none" => read[q] = Tree!NoRead
           /\ read[q].at = "none" => read[q].users = {} /\ read[q].item = None
           /\ read[q].at # "none" => ((read[q].abort = "stopped") <=> (read[q].users = {} \/ read[q].item = None))
           /\ read[q].item \in Tree!Range(snapshots) \cup {None}
           /\ read[q].kind = "scan" /\ read[q].users = {} => read[q].item \in {} \cup {None}
      /\ \A c \in Callers :
           /\ (caller[c].at = "waiting") <=> (caller[c].read # None)
           /\ caller[c].item \in Tree!Range(snapshots) \cup {None}
           /\ caller[c].read # None => caller[c].item = read[caller[c].read].item
      /\ \A q \in Reads, c \in Callers : c \in read[q].users <=> caller[c].read = q
  BY Parts
<1>f. /\ DOMAIN item = Paths /\ DOMAIN read = Reads /\ DOMAIN caller = Callers
      /\ \A q \in Reads : read[q].users \in SUBSET Callers /\ read[q].item \in MaybePath
                          /\ read[q].kind \in {"scan", "links", "page"}
      /\ \A c \in Callers : caller[c].read \in Reads \cup {None} /\ caller[c].links \in BOOLEAN /\ caller[c].fresh \in BOOLEAN
                            /\ caller[c].item \in MaybePath
                            /\ caller[c] = [at |-> caller[c].at, item |-> caller[c].item, read |-> caller[c].read,
                                           fresh |-> caller[c].fresh, links |-> caller[c].links]
  BY <1>p, Fields
<1>3. S \in SUBSET Paths
  <2>1. Tree!Trimmed(snapshots, p, its) \in SUBSET Paths
    BY <1>p, TrimmedType
  <2>2. p \in Paths \cup {None}
    BY <1>p
  <2> HIDE DEF p
  <2> QED
    BY <1>2, <2>1, <2>2
<1>4. ~ok /\ scan /\ p # None => p \in S
  BY <1>2
<1>5. its \in [Paths -> ItemRecord] /\ \A q \in Paths :
         /\ item[q].listed => its[q].listed
         /\ its[q].listed /\ ~item[q].listed => q = p /\ ok /\ scan
         /\ ok /\ scan /\ q = p => its[q].listed
         /\ its[q].pending => item[q].pending
         /\ ok /\ read[r].kind = "links" /\ q = p => ~its[q].pending
  <2>1. its = SettledItem(item, read[r].item, ok, read[r].kind)
    BY <1>1 DEF SettledItem
  <2>2. item \in [Paths -> ItemRecord] /\ p \in Paths \cup {None} /\ None \notin Paths
    BY <1>p DEF Typed
  <2> QED
    BY <2>1, <2>2, SettledItemFacts
<1>6. \A q \in Reads : rd[q] = IF q = r THEN Tree!NoRead ELSE read[q]
  BY <1>f
<1>7. rd \in [Reads -> ReadRecord]
  <2>1. Tree!NoRead \in ReadRecord
    BY DEF Tree!NoRead, ReadRecord, Tree!Kinds, MaybePath
  <2> QED
    BY <1>p, <2>1 DEF Typed
<1>8. \A c \in Callers :
        /\ c \in read[r].users /\ ok => cl[c] = [at |-> after, item |-> caller[c].item, read |-> None,
                                       fresh |-> caller[c].fresh, links |-> caller[c].links]
        /\ c \in read[r].users /\ ~ok => cl[c] = Tree!NoCaller
        /\ c \notin read[r].users => cl[c] = caller[c]
  <2> HIDE DEF after
  <2> SUFFICES ASSUME NEW c \in Callers
               PROVE  /\ c \in read[r].users /\ ok => cl[c] = [at |-> after, item |-> caller[c].item, read |-> None,
                                       fresh |-> caller[c].fresh, links |-> caller[c].links]
                      /\ c \in read[r].users /\ ~ok => cl[c] = Tree!NoCaller
                      /\ c \notin read[r].users => cl[c] = caller[c]
    OBVIOUS
  <2>1. caller[c] = [at |-> caller[c].at, item |-> caller[c].item, read |-> caller[c].read,
                     fresh |-> caller[c].fresh, links |-> caller[c].links]
    BY <1>f
  <2> QED BY <2>1
<1>9. cl \in [Callers -> CallerRecord]
  <2>1. Tree!NoCaller \in CallerRecord
    BY DEF Tree!NoCaller, CallerRecord, MaybePath
  <2>2. ASSUME NEW c \in Callers PROVE [at |-> after, item |-> caller[c].item, read |-> None,
                                       fresh |-> caller[c].fresh, links |-> caller[c].links] \in CallerRecord
    BY <1>f, MakeCaller
  <2>3. caller \in [Callers -> CallerRecord]
    BY <1>p DEF Typed
  <2>4. ASSUME NEW c \in Callers PROVE cl[c] \in CallerRecord
    BY <1>8, <2>1, <2>2, <2>3
  <2>5. cl = [c \in Callers |-> cl[c]]
    OBVIOUS
  <2> HIDE DEF cl
  <2> QED
    BY <2>4, <2>5
<1>a. /\ Tree!NoRead.at = "none" /\ Tree!NoRead.item = None /\ Tree!NoRead.users = {} /\ Tree!NoRead.kind = "scan"
      /\ Tree!NoCaller.at = "idle" /\ Tree!NoCaller.read = None /\ Tree!NoCaller.item = None
  BY DEF Tree!NoRead, Tree!NoCaller
<1> HIDE DEF rd, cl
<1>b. ASSUME NEW c \in Callers
      PROVE  /\ c \in read[r].users /\ ok => cl[c].at = after /\ cl[c].read = None /\ cl[c].item = p
                                                         /\ cl[c].links = caller[c].links
             /\ c \in read[r].users /\ ~ok => cl[c].at = "idle" /\ cl[c].read = None /\ cl[c].item = None
             /\ c \notin read[r].users => cl[c] = caller[c]
  <2>1. c \in read[r].users => caller[c].read = r /\ caller[c].item = p
    BY <1>p
  <2> HIDE DEF after, p
  <2>2. CASE c \in read[r].users /\ ok
    <3>1. cl[c] = [at |-> after, item |-> caller[c].item, read |-> None,
                   fresh |-> caller[c].fresh, links |-> caller[c].links]
      BY <1>8, <2>2
    <3>2. cl[c].at = after /\ cl[c].read = None /\ cl[c].item = caller[c].item /\ cl[c].links = caller[c].links
      BY <3>1
    <3> QED BY <3>2, <2>1, <2>2
  <2>3. CASE c \in read[r].users /\ ~ok
    BY <1>8, <1>a, <2>3
  <2>4. CASE c \notin read[r].users
    BY <1>8, <2>4
  <2> QED BY <2>2, <2>3, <2>4
<1>10. \A q \in Reads :
           /\ rd[q].at = "none" => rd[q] = Tree!NoRead
           /\ rd[q].at # "none" => ((rd[q].abort = "stopped") <=> (rd[q].users = {} \/ rd[q].item = None))
           /\ rd[q].item \in Tree!Range(snapshots) \cup {None}
           /\ rd[q].kind = "scan" /\ rd[q].users = {} => rd[q].item \in S \cup {None}
  BY <1>6, <1>a, <1>p
<1>11. \A q \in Tree!Range(snapshots) \ S : ~its[q].listed =>
            /\ \E x \in Reads : Scans(rd, x, q)
            /\ \A x, y \in Reads : Scans(rd, x, q) /\ Scans(rd, y, q) => x = y
  <2> SUFFICES ASSUME NEW q \in Tree!Range(snapshots) \ S, ~its[q].listed
               PROVE  /\ \E x \in Reads : Scans(rd, x, q)
                      /\ \A x, y \in Reads : Scans(rd, x, q) /\ Scans(rd, y, q) => x = y
    OBVIOUS
  <2>1. q \in Paths /\ q # None /\ ~item[q].listed
    BY <1>p, <1>5
  <2>2. /\ \E x \in Reads : Scans(read, x, q)
        /\ \A x, y \in Reads : Scans(read, x, q) /\ Scans(read, y, q) => x = y
    BY <2>1 DEF TreeAgrees, ListingsRun
  <2>3. ~Scans(read, r, q)
    <3> SUFFICES ASSUME scan, q = p PROVE FALSE
      BY DEF Scans
    <3>1. ~ok
      BY <1>5, <2>1
    <3> QED
      BY <1>4, <2>1, <3>1
  <2>4. \A x \in Reads : Scans(rd, x, q) <=> Scans(read, x, q)
    <3>1. ~Scans(rd, r, q)
      BY <1>6, <1>a DEF Scans
    <3>2. \A x \in Reads : x # r => rd[x] = read[x]
      BY <1>6
    <3> QED
      BY <2>3, <3>1, <3>2 DEF Scans
  <2> QED
    BY <2>2, <2>4
<1>12. \A c \in Callers :
           /\ (cl[c].at = "waiting") <=> (cl[c].read # None)
           /\ cl[c].item \in Tree!Range(snapshots) \cup {None}
           /\ cl[c].read # None => cl[c].item = rd[cl[c].read].item
  <2> SUFFICES ASSUME NEW c \in Callers
               PROVE  /\ (cl[c].at = "waiting") <=> (cl[c].read # None)
                      /\ cl[c].item \in Tree!Range(snapshots) \cup {None}
                      /\ cl[c].read # None => cl[c].item = rd[cl[c].read].item
    OBVIOUS
  <2>1. CASE c \in read[r].users
    BY <1>b, <1>p, <2>1
  <2>2. CASE c \notin read[r].users
    <3>1. cl[c] = caller[c] /\ caller[c].read # r
      BY <1>b, <1>p, <2>2
    <3>2. caller[c].read # None => rd[caller[c].read] = read[caller[c].read]
      BY <1>6, <1>f, <3>1
    <3> QED BY <1>p, <3>1, <3>2
  <2> QED
    BY <2>1, <2>2
<1>13. \A q \in Reads, c \in Callers : c \in rd[q].users <=> cl[c].read = q
  BY <1>6, <1>a, <1>b, <1>p
<1>14. ASSUME NEW c \in Callers, cl[c].item # None
       PROVE  /\ Later(rd, cl[c]) => its[cl[c].item].listed
              /\ AtLast(rd, cl[c]) /\ cl[c].links => ~its[cl[c].item].pending
  <2>0. PagesKnown(item, read, caller)
    BY DEF TreeAgrees
  <2>1. CASE c \in read[r].users
    <3>1. ok /\ cl[c].at = after /\ cl[c].read = None /\ cl[c].item = p /\ cl[c].links = caller[c].links
      BY <1>b, <1>14, <2>1
    <3>2. caller[c].read = r /\ caller[c].item = p /\ p \in Paths
      BY <1>p, <1>14, <2>1, <3>1
    <3>3. CASE scan
      BY <1>5, <3>1, <3>2, <3>3 DEF Later, AtLast
    <3>4. CASE ~scan
      <4>1. item[p].listed
        BY <1>p, <2>0, <3>2, <3>4, <1>14, <3>1 DEF PagesKnown, Later
      <4>2. CASE read[r].kind = "links"
        BY <1>5, <3>2, <3>1, <4>1, <4>2
      <4>3. CASE read[r].kind = "page"
        <5>1. caller[c].links => ~item[p].pending
          BY <1>p, <2>0, <3>2, <4>3, <1>14, <3>1 DEF PagesKnown, AtLast
        <5> QED
          BY <1>5, <3>2, <3>1, <4>1, <5>1
      <4> QED
        BY <1>f, <3>4, <4>2, <4>3
    <3> QED
      BY <3>3, <3>4
  <2>2. CASE c \notin read[r].users
    <3>1. cl[c] = caller[c] /\ caller[c].read # r /\ caller[c].item \in Paths
      BY <1>b, <1>p, <1>14, <2>2
    <3>2. caller[c].read # None => rd[caller[c].read] = read[caller[c].read]
      BY <1>6, <1>f, <3>1
    <3>3. (Later(rd, caller[c]) <=> Later(read, caller[c])) /\ (AtLast(rd, caller[c]) <=> AtLast(read, caller[c]))
      BY <3>2 DEF Later, AtLast
    <3> QED
      BY <1>5, <1>14, <2>0, <3>1, <3>3 DEF PagesKnown
  <2> QED
    BY <2>1, <2>2
<1> HIDE DEF p, scan, after, ItsOf
<1>15. Typed(its, rd, cl)
  BY <1>5, <1>7, <1>9 DEF Typed
<1>16. TreeAgrees(snapshots, its, rd, cl, S)
  BY <1>p, <1>10, <1>11, <1>12, <1>13, <1>14, <1>15, Compose
<1>17. /\ TreeAgrees(snapshots', item', read', caller', {})
       /\ \A q \in Reads : read'[q].at = rd[q].at
       /\ \A c \in Callers : caller'[c].at = cl[c].at
  BY <1>2, <1>3, <1>16, BecomesAgrees
<1>18. NoNewPage
  BY <1>17, <1>b DEF NoNewPage, after
<1>19. \A q \in Reads : rd[q].at = IF q = r THEN "none" ELSE read[q].at
  BY <1>6, <1>a
<1> QED
  BY <1>17, <1>18, <1>19

\* A read with other values.
LEMMA ReadWith ==
  ASSUME NEW x, NEW a, NEW i, NEW k, NEW u, NEW b, NEW v, NEW s,
         x = [at |-> a, item |-> i, kind |-> k, users |-> u, abort |-> b]
  PROVE  /\ [x EXCEPT !.users = v, !.abort = s] = [at |-> a, item |-> i, kind |-> k, users |-> v, abort |-> s]
         /\ [x EXCEPT !.users = v] = [at |-> a, item |-> i, kind |-> k, users |-> v, abort |-> b]
         /\ [x EXCEPT !.at = s] = [at |-> s, item |-> i, kind |-> k, users |-> u, abort |-> b]
         /\ [x EXCEPT !.abort = s] = [at |-> a, item |-> i, kind |-> k, users |-> u, abort |-> s]
<1>1. [x EXCEPT !.users = v] = [at |-> a, item |-> i, kind |-> k, users |-> v, abort |-> b]
  OBVIOUS
<1>2. [x EXCEPT !.at = s] = [at |-> s, item |-> i, kind |-> k, users |-> u, abort |-> b]
  OBVIOUS
<1>3. [x EXCEPT !.abort = s] = [at |-> a, item |-> i, kind |-> k, users |-> u, abort |-> s]
  OBVIOUS
<1>4. [x EXCEPT !.users = v, !.abort = s] = [at |-> a, item |-> i, kind |-> k, users |-> v, abort |-> s]
  <2> DEFINE y == [x EXCEPT !.users = v]
  <2>1. [x EXCEPT !.users = v, !.abort = s] = [y EXCEPT !.abort = s]
    OBVIOUS
  <2>2. y = [at |-> a, item |-> i, kind |-> k, users |-> v, abort |-> b]
    BY <1>1
  <2> HIDE DEF y
  <2>3. [y EXCEPT !.abort = s] = [at |-> a, item |-> i, kind |-> k, users |-> v, abort |-> s]
    BY <2>2
  <2> QED BY <2>1, <2>3
<1> QED
  BY <1>1, <1>2, <1>3, <1>4

\* Callers go, and reads that nobody wants any more are aborted.
LEMMA GoneStep ==
  ASSUME TreeAgrees(snapshots, item, read, caller, {}), NEW S \in SUBSET Callers, NEW forgotten \in SUBSET Tree!Current,
         Tree!Gone(S, forgotten)
  PROVE  /\ TreeAgrees(snapshots', item', read', caller', {})
         /\ \A q \in Reads : read'[q].at = read[q].at
         /\ NoNewPage
<1> DEFINE rd == Tree!Left(S, read)
           cl == [c \in Callers |-> IF c \in S THEN Tree!NoCaller ELSE caller[c]]
           X == forgotten \cup Tree!Abandoned(rd)
<1>1. Tree!Becomes(X, snapshots, item, rd, cl)
  BY DEF Tree!Gone
<1>p. /\ Typed(item, read, caller) /\ snapshots \in Seq(Paths) /\ Tree!IsInjective(snapshots) /\ Tree!Range(snapshots) \subseteq Paths
      /\ None \notin Paths /\ None \notin Reads
      /\ \A q \in Reads :
           /\ read[q].at = "none" => read[q] = Tree!NoRead
           /\ read[q].at = "none" => read[q].users = {} /\ read[q].item = None
           /\ read[q].at # "none" => ((read[q].abort = "stopped") <=> (read[q].users = {} \/ read[q].item = None))
           /\ read[q].item \in Tree!Range(snapshots) \cup {None}
           /\ read[q].kind = "scan" /\ read[q].users = {} => read[q].item \in {} \cup {None}
      /\ \A c \in Callers :
           /\ (caller[c].at = "waiting") <=> (caller[c].read # None)
           /\ caller[c].item \in Tree!Range(snapshots) \cup {None}
           /\ caller[c].read # None => caller[c].item = read[caller[c].read].item
      /\ \A q \in Reads, c \in Callers : c \in read[q].users <=> caller[c].read = q
  BY Parts
<1>f. /\ DOMAIN read = Reads
      /\ \A q \in Reads : /\ read[q].users \in SUBSET Callers /\ read[q].item \in MaybePath
                          /\ read[q].kind \in {"scan", "links", "page"}
                          /\ read[q].at \in {"none", "starting", "opening", "working"}
                          /\ read[q].abort \in {"no", "broken", "stopped"}
                          /\ read[q] = [at |-> read[q].at, item |-> read[q].item, kind |-> read[q].kind,
                                        users |-> read[q].users, abort |-> read[q].abort]
      /\ \A c \in Callers : caller[c].read \in Reads \cup {None}
  <2>1. Typed(item, read, caller)
    BY <1>p
  <2>2. DOMAIN read = Reads
    BY <2>1, Fields
  <2>3. ASSUME NEW q \in Reads
        PROVE  /\ read[q].users \in SUBSET Callers /\ read[q].item \in MaybePath
               /\ read[q].kind \in {"scan", "links", "page"}
               /\ read[q].at \in {"none", "starting", "opening", "working"}
               /\ read[q].abort \in {"no", "broken", "stopped"}
               /\ read[q] = [at |-> read[q].at, item |-> read[q].item, kind |-> read[q].kind,
                             users |-> read[q].users, abort |-> read[q].abort]
    BY <2>1, Fields
  <2>4. \A c \in Callers : caller[c].read \in Reads \cup {None}
    BY <2>1, Fields
  <2> QED
    BY <2>2, <2>3, <2>4
<1>2. DOMAIN rd = Reads /\ \A q \in Reads :
        rd[q] = IF read[q].users \cap S = {} THEN read[q]
                ELSE IF read[q].users \subseteq S THEN [read[q] EXCEPT !.users = {}, !.abort = "stopped"]
                ELSE [read[q] EXCEPT !.users = @ \ S]
  BY DEF Tree!Left
<1>3. ASSUME NEW q \in Reads
      PROVE  /\ rd[q].at = read[q].at /\ rd[q].item = read[q].item /\ rd[q].kind = read[q].kind
             /\ rd[q].users = read[q].users \ S
             /\ rd[q].abort = IF read[q].users # {} /\ read[q].users \subseteq S THEN "stopped" ELSE read[q].abort
             /\ read[q].users \cap S = {} => rd[q] = read[q]
             /\ rd[q] \in ReadRecord
  <2>1. CASE read[q].users \cap S = {}
    <3>1. rd[q] = read[q] /\ read[q].users = read[q].users \ S
      BY <1>2, <2>1
    <3>2. read[q] \in ReadRecord
      BY <1>p DEF Typed
    <3>3. ~(read[q].users # {} /\ read[q].users \subseteq S)
      BY <2>1
    <3> QED BY <3>1, <3>2, <3>3
  <2> DEFINE a == read[q].at  k == read[q].kind  u == read[q].users  i == read[q].item  b == read[q].abort
  <2>2. /\ a \in {"none", "starting", "opening", "working"} /\ k \in {"scan", "links", "page"}
        /\ u \in SUBSET Callers /\ i \in MaybePath /\ b \in {"no", "broken", "stopped"}
        /\ read[q] = [at |-> a, item |-> i, kind |-> k, users |-> u, abort |-> b]
    BY <1>f
  <2>3. CASE u \cap S # {} /\ u \subseteq S
    <3>1. rd[q] = [at |-> a, item |-> i, kind |-> k, users |-> {}, abort |-> "stopped"]
      <4>1. rd[q] = [read[q] EXCEPT !.users = {}, !.abort = "stopped"]
        BY <1>2, <2>3
      <4>2. read[q] = [at |-> a, item |-> i, kind |-> k, users |-> u, abort |-> b]
        BY <2>2
      <4> DEFINE e == {}  st == "stopped"  x == read[q]
      <4>3. rd[q] = [x EXCEPT !.users = e, !.abort = st] /\ x = [at |-> a, item |-> i, kind |-> k, users |-> u, abort |-> b]
        BY <4>1, <4>2
      <4> HIDE DEF a, k, u, i, b, e, st, x
      <4>4. rd[q] = [at |-> a, item |-> i, kind |-> k, users |-> e, abort |-> st]
        BY <4>3, ReadWith
      <4> QED BY <4>4 DEF e, st
    <3>2. u \ S = {} /\ u # {}
      BY <2>3
    <3>3. {} \in SUBSET Callers /\ "stopped" \in {"no", "broken", "stopped"}
      OBVIOUS
    <3> HIDE DEF a, k, u, i, b
    <3>4. [at |-> a, item |-> i, kind |-> k, users |-> {}, abort |-> "stopped"] \in ReadRecord
      BY <2>2, <3>3, MakeRead
    <3> QED BY <2>3, <3>1, <3>2, <3>4 DEF a, k, u, i, b
  <2>4. CASE u \cap S # {} /\ ~(u \subseteq S)
    <3>1. rd[q] = [at |-> a, item |-> i, kind |-> k, users |-> u \ S, abort |-> b]
      <4>1. rd[q] = [read[q] EXCEPT !.users = u \ S]
        BY <1>2, <2>4, <1>f
      <4> HIDE DEF a, k, u, i, b
      <4> QED BY <4>1, <2>2
    <3>2. u \ S \in SUBSET Callers
      BY <2>2
    <3> HIDE DEF a, k, u, i, b
    <3>4. [at |-> a, item |-> i, kind |-> k, users |-> u \ S, abort |-> b] \in ReadRecord
      BY <2>2, <3>2, MakeRead
    <3> QED BY <2>4, <3>1, <3>4 DEF a, k, u, i, b
  <2> QED
    BY <2>1, <2>3, <2>4
<1>4. rd \in [Reads -> ReadRecord]
  <2>1. rd = [q \in Reads |-> rd[q]]
    BY DEF Tree!Left
  <2> HIDE DEF rd
  <2> QED
    BY <1>3, <2>1
<1>5. \A c \in Callers : cl[c] = IF c \in S THEN Tree!NoCaller ELSE caller[c]
  OBVIOUS
<1>6. cl \in [Callers -> CallerRecord]
  <2>1. Tree!NoCaller \in CallerRecord
    BY DEF Tree!NoCaller, CallerRecord, MaybePath
  <2> QED
    BY <1>p, <2>1 DEF Typed
<1>a. Tree!NoCaller.at = "idle" /\ Tree!NoCaller.read = None /\ Tree!NoCaller.item = None
  BY DEF Tree!NoCaller
<1>7. X \in SUBSET Paths
  BY <1>p DEF Tree!Abandoned, Tree!Current
<1>8. \A p \in Tree!Range(snapshots), q \in Reads : rd[q].item = p /\ rd[q].kind = "scan" /\ rd[q].users = {} => p \in X
  BY DEF Tree!Abandoned, Tree!Current
<1> HIDE DEF rd, cl, X
<1>10. \A q \in Reads :
           /\ rd[q].at = "none" => rd[q] = Tree!NoRead
           /\ rd[q].at # "none" => ((rd[q].abort = "stopped") <=> (rd[q].users = {} \/ rd[q].item = None))
           /\ rd[q].item \in Tree!Range(snapshots) \cup {None}
           /\ rd[q].kind = "scan" /\ rd[q].users = {} => rd[q].item \in X \cup {None}
  <2> SUFFICES ASSUME NEW q \in Reads
               PROVE  /\ rd[q].at = "none" => rd[q] = Tree!NoRead
                      /\ rd[q].at # "none" => ((rd[q].abort = "stopped") <=> (rd[q].users = {} \/ rd[q].item = None))
                      /\ rd[q].item \in Tree!Range(snapshots) \cup {None}
                      /\ rd[q].kind = "scan" /\ rd[q].users = {} => rd[q].item \in X \cup {None}
    OBVIOUS
  <2>1. /\ rd[q].at = read[q].at /\ rd[q].item = read[q].item /\ rd[q].users = read[q].users \ S
        /\ rd[q].abort = IF read[q].users # {} /\ read[q].users \subseteq S THEN "stopped" ELSE read[q].abort
        /\ read[q].users \cap S = {} => rd[q] = read[q]
    BY <1>3
  <2>2. rd[q].item \in Tree!Range(snapshots) \cup {None}
    BY <1>p, <2>1
  <2>3. rd[q].at = "none" => rd[q] = Tree!NoRead
    <3> SUFFICES ASSUME rd[q].at = "none" PROVE rd[q] = Tree!NoRead
      OBVIOUS
    <3>1. read[q].at = "none"
      BY <2>1
    <3>2. read[q] = Tree!NoRead /\ read[q].users = {}
      BY <1>p, <3>1
    <3>3. rd[q] = read[q]
      BY <2>1, <3>2
    <3> QED BY <3>2, <3>3
  <2>4. rd[q].at # "none" => ((rd[q].abort = "stopped") <=> (rd[q].users = {} \/ rd[q].item = None))
    BY <1>p, <2>1
  <2> QED
    BY <1>8, <2>2, <2>3, <2>4
<1>11. \A p \in Tree!Range(snapshots) \ X : ~item[p].listed =>
            /\ \E x \in Reads : Scans(rd, x, p)
            /\ \A x, y \in Reads : Scans(rd, x, p) /\ Scans(rd, y, p) => x = y
  <2> SUFFICES ASSUME NEW p \in Tree!Range(snapshots) \ X, ~item[p].listed
               PROVE  /\ \E x \in Reads : Scans(rd, x, p)
                      /\ \A x, y \in Reads : Scans(rd, x, p) /\ Scans(rd, y, p) => x = y
    OBVIOUS
  <2>1. /\ \E x \in Reads : Scans(read, x, p)
        /\ \A x, y \in Reads : Scans(read, x, p) /\ Scans(read, y, p) => x = y
    BY DEF TreeAgrees, ListingsRun
  <2>2. \A x \in Reads : Scans(rd, x, p) <=> Scans(read, x, p)
    BY <1>3, <1>8 DEF Scans
  <2> QED
    BY <2>1, <2>2
<1>12. \A c \in Callers :
           /\ (cl[c].at = "waiting") <=> (cl[c].read # None)
           /\ cl[c].item \in Tree!Range(snapshots) \cup {None}
           /\ cl[c].read # None => cl[c].item = rd[cl[c].read].item
  BY <1>p, <1>f, <1>3, <1>5, <1>a
<1>13. \A q \in Reads, c \in Callers : c \in rd[q].users <=> cl[c].read = q
  BY <1>p, <1>3, <1>5, <1>a
<1>14. ASSUME NEW c \in Callers, cl[c].item # None
       PROVE  /\ Later(rd, cl[c]) => item[cl[c].item].listed
              /\ AtLast(rd, cl[c]) /\ cl[c].links => ~item[cl[c].item].pending
  <2>1. cl[c] = caller[c]
    BY <1>5, <1>a, <1>14
  <2>2. (Later(rd, caller[c]) <=> Later(read, caller[c])) /\ (AtLast(rd, caller[c]) <=> AtLast(read, caller[c]))
    BY <1>3, <1>f DEF Later, AtLast
  <2>3. PagesKnown(item, read, caller)
    BY DEF TreeAgrees
  <2> QED
    BY <1>14, <2>1, <2>2, <2>3 DEF PagesKnown
<1>15. Typed(item, rd, cl)
  BY <1>4, <1>6, <1>p DEF Typed
<1>16. TreeAgrees(snapshots, item, rd, cl, X)
  BY <1>p, <1>10, <1>11, <1>12, <1>13, <1>14, <1>15, Compose
<1>17. /\ TreeAgrees(snapshots', item', read', caller', {})
       /\ \A q \in Reads : read'[q].at = rd[q].at
       /\ \A c \in Callers : caller'[c].at = cl[c].at
  BY <1>1, <1>7, <1>16, BecomesAgrees
<1>18. NoNewPage
  BY <1>17, <1>5, <1>a DEF NoNewPage
<1> QED
  BY <1>17, <1>18, <1>3

\* What agrees does so whatever is about to be cleared.
LEMMA WidenAgrees ==
  ASSUME NEW sn, NEW it, NEW rd, NEW cl, NEW X, TreeAgrees(sn, it, rd, cl, {})
  PROVE  TreeAgrees(sn, it, rd, cl, X)
  BY DEF TreeAgrees, ReadsAgree, ListingsRun

\* A snapshot is added before its listing starts.
LEMMA ExtendAgrees ==
  ASSUME NEW sn, NEW it, NEW rd, NEW cl, TreeAgrees(sn, it, rd, cl, {}),
         NEW p \in Paths, p \notin Tree!Range(sn), NEW it2 \in [Paths -> ItemRecord],
         \A q \in Paths : q # p => it2[q] = it[q]
  PROVE  TreeAgrees(Append(sn, p), it2, rd, cl, {p})
<1>p. /\ Typed(it, rd, cl) /\ sn \in Seq(Paths) /\ Tree!IsInjective(sn) /\ Tree!Range(sn) \subseteq Paths
      /\ None \notin Paths /\ None \notin Reads
      /\ \A q \in Reads :
           /\ rd[q].at = "none" => rd[q] = Tree!NoRead
           /\ rd[q].at # "none" => ((rd[q].abort = "stopped") <=> (rd[q].users = {} \/ rd[q].item = None))
           /\ rd[q].item \in Tree!Range(sn) \cup {None}
           /\ rd[q].kind = "scan" /\ rd[q].users = {} => rd[q].item \in {} \cup {None}
      /\ \A c \in Callers :
           /\ (cl[c].at = "waiting") <=> (cl[c].read # None)
           /\ cl[c].item \in Tree!Range(sn) \cup {None}
           /\ cl[c].read # None => cl[c].item = rd[cl[c].read].item
      /\ \A q \in Reads, c \in Callers : c \in rd[q].users <=> cl[c].read = q
  BY Parts
<1> DEFINE sn2 == Append(sn, p)
<1>1. sn2 \in Seq(Paths) /\ Tree!IsInjective(sn2) /\ Tree!Range(sn2) = Tree!Range(sn) \cup {p}
  BY <1>p, AppendedFacts
<1> HIDE DEF sn2
<1>2. Typed(it2, rd, cl)
  BY <1>p DEF Typed
<1>3. \A q \in Reads :
           /\ rd[q].at = "none" => rd[q] = Tree!NoRead
           /\ rd[q].at # "none" => ((rd[q].abort = "stopped") <=> (rd[q].users = {} \/ rd[q].item = None))
           /\ rd[q].item \in Tree!Range(sn2) \cup {None}
           /\ rd[q].kind = "scan" /\ rd[q].users = {} => rd[q].item \in {p} \cup {None}
  BY <1>p, <1>1
<1>4. \A q \in Tree!Range(sn2) \ {p} : ~it2[q].listed =>
            /\ \E x \in Reads : Scans(rd, x, q)
            /\ \A x, y \in Reads : Scans(rd, x, q) /\ Scans(rd, y, q) => x = y
  <2> SUFFICES ASSUME NEW q \in Tree!Range(sn2) \ {p}, ~it2[q].listed
               PROVE  /\ \E x \in Reads : Scans(rd, x, q)
                      /\ \A x, y \in Reads : Scans(rd, x, q) /\ Scans(rd, y, q) => x = y
    OBVIOUS
  <2>1. q \in Tree!Range(sn) \ {} /\ it2[q] = it[q]
    BY <1>p, <1>1
  <2> QED
    BY <2>1 DEF TreeAgrees, ListingsRun
<1>5. \A c \in Callers :
           /\ (cl[c].at = "waiting") <=> (cl[c].read # None)
           /\ cl[c].item \in Tree!Range(sn2) \cup {None}
           /\ cl[c].read # None => cl[c].item = rd[cl[c].read].item
  BY <1>p, <1>1
<1>6. ASSUME NEW c \in Callers, cl[c].item # None
      PROVE  /\ Later(rd, cl[c]) => it2[cl[c].item].listed
             /\ AtLast(rd, cl[c]) /\ cl[c].links => ~it2[cl[c].item].pending
  <2>1. cl[c].item \in Paths /\ it2[cl[c].item] = it[cl[c].item]
    BY <1>p, <1>6
  <2>2. PagesKnown(it, rd, cl)
    BY DEF TreeAgrees
  <2> QED
    BY <1>6, <2>1, <2>2 DEF PagesKnown
<1>7. \A q \in Reads, c \in Callers : c \in rd[q].users <=> cl[c].read = q
  BY <1>p
<1>8. TreeAgrees(sn2, it2, rd, cl, {p})
  BY <1>1, <1>2, <1>3, <1>4, <1>5, <1>6, <1>7, Compose
<1> QED
  BY <1>8 DEF sn2

\* A caller begins to wait for a read: one that is under way, or a new one.
Joined(r, old, new, c, p) ==
  /\ old.at # "none" /\ old.item = p /\ old.users # {}
  /\ new.at = old.at /\ new.kind = old.kind /\ new.abort = old.abort

\* ... or a new one.
Started(r, old, new, c, p) ==
  /\ old = Tree!NoRead /\ new.at # "none" /\ new.abort = "no"

\* c waits for r from now on.
WaitsOf(sn, it, rd, cl, X, Y, c, r, p, R, fresh, links, rd2, cl2) ==
  /\ TreeAgrees(sn, it, rd, cl, Y)
  /\ c \in Callers /\ cl[c].read = None /\ r \in Reads /\ p \in Tree!Range(sn)
  /\ R \in ReadRecord /\ R.users = rd[r].users \cup {c} /\ R.item = p
  /\ \/ Joined(r, rd[r], R, c, p) /\ Y = X
     \/ Started(r, rd[r], R, c, p) /\ R.kind # "scan" /\ Y = X
     \/ Started(r, rd[r], R, c, p) /\ R.kind = "scan" /\ Y = X \cup {p} /\ \A q \in Reads : rd[q].item # p
  /\ fresh \in BOOLEAN /\ links \in BOOLEAN
  /\ R.kind # "scan" => it[p].listed
  /\ R.kind = "page" /\ links => ~it[p].pending
  /\ rd2 = [q \in Reads |-> rd2[q]] /\ cl2 = [d \in Callers |-> cl2[d]]
  /\ \A q \in Reads : rd2[q] = IF q = r THEN R ELSE rd[q]
  /\ \A d \in Callers : cl2[d] = IF d = c THEN [at |-> "waiting", item |-> p, read |-> r, fresh |-> fresh, links |-> links]
                                     ELSE cl[d]

\* ... which agrees, and gives a new snapshot its listing.
LEMMA WaitsAgrees ==
  ASSUME NEW sn, NEW it, NEW rd, NEW cl, NEW X, NEW Y, NEW c, NEW r, NEW p, NEW R, NEW fresh, NEW links, NEW rd2, NEW cl2,
         WaitsOf(sn, it, rd, cl, X, Y, c, r, p, R, fresh, links, rd2, cl2)
  PROVE  TreeAgrees(sn, it, rd2, cl2, X)
<1>0. /\ TreeAgrees(sn, it, rd, cl, Y)
      /\ c \in Callers /\ cl[c].read = None /\ r \in Reads /\ p \in Tree!Range(sn)
      /\ R \in ReadRecord /\ R.users = rd[r].users \cup {c} /\ R.item = p
      /\ \/ Joined(r, rd[r], R, c, p) /\ Y = X
         \/ Started(r, rd[r], R, c, p) /\ R.kind # "scan" /\ Y = X
         \/ Started(r, rd[r], R, c, p) /\ R.kind = "scan" /\ Y = X \cup {p} /\ \A q \in Reads : rd[q].item # p
      /\ fresh \in BOOLEAN /\ links \in BOOLEAN
      /\ R.kind # "scan" => it[p].listed
      /\ R.kind = "page" /\ links => ~it[p].pending
      /\ rd2 = [q \in Reads |-> rd2[q]] /\ cl2 = [d \in Callers |-> cl2[d]]
      /\ \A q \in Reads : rd2[q] = IF q = r THEN R ELSE rd[q]
      /\ \A d \in Callers : cl2[d] = IF d = c THEN [at |-> "waiting", item |-> p, read |-> r, fresh |-> fresh, links |-> links]
                                     ELSE cl[d]
  BY DEF WaitsOf
<1> USE <1>0
<1>p. /\ Typed(it, rd, cl) /\ sn \in Seq(Paths) /\ Tree!IsInjective(sn) /\ Tree!Range(sn) \subseteq Paths
      /\ None \notin Paths /\ None \notin Reads
      /\ \A q \in Reads :
           /\ rd[q].at = "none" => rd[q] = Tree!NoRead
           /\ rd[q].at # "none" => ((rd[q].abort = "stopped") <=> (rd[q].users = {} \/ rd[q].item = None))
           /\ rd[q].item \in Tree!Range(sn) \cup {None}
           /\ rd[q].kind = "scan" /\ rd[q].users = {} => rd[q].item \in Y \cup {None}
      /\ \A d \in Callers :
           /\ (cl[d].at = "waiting") <=> (cl[d].read # None)
           /\ cl[d].item \in Tree!Range(sn) \cup {None}
           /\ cl[d].read # None => cl[d].item = rd[cl[d].read].item
      /\ \A q \in Reads, d \in Callers : d \in rd[q].users <=> cl[d].read = q
  BY Parts
<1>q. ASSUME NEW d \in Callers PROVE cl[d].read \in Reads \cup {None}
  <2>1. Typed(it, rd, cl)
    BY <1>p
  <2>2. cl[d] \in CallerRecord
    BY <2>1 DEF Typed
  <2> QED BY <2>2 DEF CallerRecord
<1>a. Tree!NoRead.users = {} /\ Tree!NoRead.item = None /\ Tree!NoRead.at = "none"
  BY DEF Tree!NoRead
<1> DEFINE w == [at |-> "waiting", item |-> p, read |-> r, fresh |-> fresh, links |-> links]
<1>b. w.at = "waiting" /\ w.item = p /\ w.read = r /\ w.links = links
  OBVIOUS
<1>c. w \in CallerRecord
  <2>1. "waiting" \in {"idle", "waiting", "answered", "checked", "page"} /\ p \in MaybePath /\ r \in Reads \cup {None}
    BY <1>p DEF MaybePath
  <2> QED BY <2>1, MakeCaller
<1>d. \A d \in Callers : cl2[d] = IF d = c THEN w ELSE cl[d]
  OBVIOUS
<1> HIDE DEF w
<1>1. Typed(it, rd2, cl2)
  <2>1. it \in [Paths -> ItemRecord] /\ rd \in [Reads -> ReadRecord] /\ cl \in [Callers -> CallerRecord]
    BY <1>p DEF Typed
  <2>2. rd2 \in [Reads -> ReadRecord]
    <3>1. \A q \in Reads : rd2[q] \in ReadRecord
      BY <2>1
    <3> QED BY <3>1
  <2>3. cl2 \in [Callers -> CallerRecord]
    <3>1. \A d \in Callers : cl2[d] \in CallerRecord
      BY <2>1, <1>c, <1>d
    <3> QED BY <3>1
  <2> QED BY <2>1, <2>2, <2>3 DEF Typed
<1>2. R.users # {} /\ p # None /\ R.at # "none" /\ R.abort # "stopped"
  <2>1. R.users # {} /\ p # None
    BY <1>p
  <2>2. CASE Joined(r, rd[r], R, c, p)
    BY <1>p, <2>1, <2>2 DEF Joined
  <2>3. CASE Started(r, rd[r], R, c, p)
    BY <2>1, <2>3 DEF Started
  <2> QED BY <2>1, <2>2, <2>3
<1>3. \A q \in Reads :
           /\ rd2[q].at = "none" => rd2[q] = Tree!NoRead
           /\ rd2[q].at # "none" => ((rd2[q].abort = "stopped") <=> (rd2[q].users = {} \/ rd2[q].item = None))
           /\ rd2[q].item \in Tree!Range(sn) \cup {None}
           /\ rd2[q].kind = "scan" /\ rd2[q].users = {} => rd2[q].item \in X \cup {None}
  <2> SUFFICES ASSUME NEW q \in Reads
               PROVE  /\ rd2[q].at = "none" => rd2[q] = Tree!NoRead
                      /\ rd2[q].at # "none" => ((rd2[q].abort = "stopped") <=> (rd2[q].users = {} \/ rd2[q].item = None))
                      /\ rd2[q].item \in Tree!Range(sn) \cup {None}
                      /\ rd2[q].kind = "scan" /\ rd2[q].users = {} => rd2[q].item \in X \cup {None}
    OBVIOUS
  <2>1. CASE q = r
    <3>1. rd2[q] = R
      BY <2>1
    <3> QED BY <1>2, <3>1
  <2>2. CASE q # r
    <3>1. rd2[q] = rd[q]
      BY <2>2
    <3> QED BY <1>p, <3>1
  <2> QED BY <2>1, <2>2
<1>4. \A d \in Callers :
           /\ (cl2[d].at = "waiting") <=> (cl2[d].read # None)
           /\ cl2[d].item \in Tree!Range(sn) \cup {None}
           /\ cl2[d].read # None => cl2[d].item = rd2[cl2[d].read].item
  <2> SUFFICES ASSUME NEW d \in Callers
               PROVE  /\ (cl2[d].at = "waiting") <=> (cl2[d].read # None)
                      /\ cl2[d].item \in Tree!Range(sn) \cup {None}
                      /\ cl2[d].read # None => cl2[d].item = rd2[cl2[d].read].item
    OBVIOUS
  <2>1. CASE d = c
    <3>1. cl2[d] = w /\ r # None /\ rd2[r] = R
      BY <1>d, <1>p, <2>1
    <3> QED BY <1>b, <3>1
  <2>2. CASE d # c
    <3>1. cl2[d] = cl[d]
      BY <1>d, <2>2
    <3>2. CASE cl[d].read = r
      <4>1. rd[r].users # {}
        BY <1>p, <3>2
      <4>2. rd[r].item = p
        BY <4>1, <1>a DEF Joined, Started
      <4> QED BY <1>p, <3>1, <3>2, <4>2
    <3>3. CASE cl[d].read # r
      <4>1. cl[d].read # None => rd2[cl[d].read] = rd[cl[d].read]
        BY <1>q, <3>3
      <4> QED BY <1>p, <3>1, <4>1
    <3> QED BY <3>2, <3>3
  <2> QED BY <2>1, <2>2
<1>5. \A q \in Reads, d \in Callers : d \in rd2[q].users <=> cl2[d].read = q
  <2> SUFFICES ASSUME NEW q \in Reads, NEW d \in Callers
               PROVE  (d \in rd2[q].users) <=> (cl2[d].read = q)
    OBVIOUS
  <2>1. (d \in rd[q].users) <=> (cl[d].read = q)
    BY <1>p
  <2>2. CASE d = c
    <3>1. cl2[d].read = r /\ d \notin rd[q].users
      BY <1>b, <1>d, <1>p, <2>1, <2>2
    <3> QED BY <3>1, <2>2
  <2>3. CASE d # c
    <3>1. cl2[d] = cl[d]
      BY <1>d, <2>3
    <3> QED BY <2>1, <2>3, <3>1
  <2> QED BY <2>2, <2>3
<1>6. ASSUME NEW d \in Callers, cl2[d].item # None
      PROVE  /\ Later(rd2, cl2[d]) => it[cl2[d].item].listed
             /\ AtLast(rd2, cl2[d]) /\ cl2[d].links => ~it[cl2[d].item].pending
  <2>0. PagesKnown(it, rd, cl)
    BY DEF TreeAgrees
  <2>1. CASE d = c
    <3>1. cl2[d] = w /\ rd2[r] = R
      BY <1>d, <2>1
    <3> QED BY <1>b, <3>1 DEF Later, AtLast
  <2>2. CASE d # c
    <3>1. cl2[d] = cl[d]
      BY <1>d, <2>2
    <3>2. cl[d].read # None => rd2[cl[d].read].kind = rd[cl[d].read].kind
      <4>1. CASE cl[d].read = r
        <5>1. rd[r].users # {}
          BY <1>p, <4>1
        <5>2. R.kind = rd[r].kind
          BY <5>1, <1>a DEF Joined, Started
        <5> QED BY <4>1, <5>2
      <4>2. CASE cl[d].read # r
        BY <1>q, <4>2
      <4> QED BY <4>1, <4>2
    <3>3. (Later(rd2, cl[d]) <=> Later(rd, cl[d])) /\ (AtLast(rd2, cl[d]) <=> AtLast(rd, cl[d]))
      BY <3>2 DEF Later, AtLast
    <3> QED BY <1>6, <2>0, <3>1, <3>3 DEF PagesKnown
  <2> QED BY <2>1, <2>2
<1>7. \A q \in Tree!Range(sn) \ X : ~it[q].listed =>
            /\ \E x \in Reads : Scans(rd2, x, q)
            /\ \A x, y \in Reads : Scans(rd2, x, q) /\ Scans(rd2, y, q) => x = y
  <2> SUFFICES ASSUME NEW q \in Tree!Range(sn) \ X, ~it[q].listed
               PROVE  /\ \E x \in Reads : Scans(rd2, x, q)
                      /\ \A x, y \in Reads : Scans(rd2, x, q) /\ Scans(rd2, y, q) => x = y
    OBVIOUS
  <2>0. ListingsRun(Tree!Range(sn), it, rd, Y)
    BY DEF TreeAgrees
  <2>1. \A x \in Reads : x # r => (Scans(rd2, x, q) <=> Scans(rd, x, q))
    BY DEF Scans
  <2>2. CASE q \notin Y
    <3>1. /\ \E x \in Reads : Scans(rd, x, q)
          /\ \A x, y \in Reads : Scans(rd, x, q) /\ Scans(rd, y, q) => x = y
      BY <2>0, <2>2 DEF ListingsRun
    <3>2. Scans(rd2, r, q) <=> Scans(rd, r, q)
      <4>1. rd2[r] = R
        OBVIOUS
      <4>2. CASE Joined(r, rd[r], R, c, p)
        BY <4>1, <4>2, <1>2 DEF Joined, Scans
      <4>3. CASE Started(r, rd[r], R, c, p) /\ R.kind # "scan"
        BY <4>1, <4>3, <1>a DEF Started, Scans
      <4>4. CASE Started(r, rd[r], R, c, p) /\ R.kind = "scan" /\ Y = X \cup {p}
        BY <4>1, <4>4, <1>a, <2>2 DEF Started, Scans
      <4> QED BY <4>2, <4>3, <4>4
    <3> QED BY <2>1, <3>1, <3>2
  <2>3. CASE q \in Y
    <3>1. q = p /\ R.kind = "scan" /\ \A x \in Reads : rd[x].item # p
      BY <2>3
    <3>2. \A x \in Reads : ~Scans(rd, x, q)
      BY <3>1 DEF Scans
    <3>3. Scans(rd2, r, q)
      BY <1>2, <3>1 DEF Scans
    <3> QED BY <2>1, <3>2, <3>3
  <2> QED BY <2>2, <2>3
<1> QED
  BY <1>p, <1>1, <1>3, <1>4, <1>5, <1>6, <1>7, Compose

\* A caller that does not wait has its record replaced by one that does not wait.
LEMMA RestsAgrees ==
  ASSUME TreeAgrees(snapshots, item, read, caller, {}),
         NEW c \in Callers, caller[c].read = None,
         NEW w \in CallerRecord, w.read = None, w.at # "waiting", w.item \in Tree!Range(snapshots) \cup {None},
         w.item # None => /\ w.at = "answered" => item[w.item].listed
                          /\ w.at # "checked",
         NEW sn2 \in Seq(Paths), Tree!IsInjective(sn2), Tree!Range(sn2) = Tree!Range(snapshots),
         NEW cl2, cl2 = [caller EXCEPT ![c] = w]
  PROVE  TreeAgrees(sn2, item, read, cl2, {})
<1>p. /\ Typed(item, read, caller) /\ snapshots \in Seq(Paths) /\ Tree!IsInjective(snapshots) /\ Tree!Range(snapshots) \subseteq Paths
      /\ None \notin Paths /\ None \notin Reads
      /\ \A q \in Reads :
           /\ read[q].at = "none" => read[q] = Tree!NoRead
           /\ read[q].at = "none" => read[q].users = {} /\ read[q].item = None
           /\ read[q].at # "none" => ((read[q].abort = "stopped") <=> (read[q].users = {} \/ read[q].item = None))
           /\ read[q].item \in Tree!Range(snapshots) \cup {None}
           /\ read[q].kind = "scan" /\ read[q].users = {} => read[q].item \in {} \cup {None}
      /\ \A d \in Callers :
           /\ (caller[d].at = "waiting") <=> (caller[d].read # None)
           /\ caller[d].item \in Tree!Range(snapshots) \cup {None}
           /\ caller[d].read # None => caller[d].item = read[caller[d].read].item
      /\ \A q \in Reads, d \in Callers : d \in read[q].users <=> caller[d].read = q
  BY Parts
<1>1. caller \in [Callers -> CallerRecord]
  BY <1>p DEF Typed
<1>2. \A d \in Callers : cl2[d] = IF d = c THEN w ELSE caller[d]
  BY <1>1
<1>3. Typed(item, read, cl2)
  <2>1. cl2 \in [Callers -> CallerRecord]
    BY <1>1
  <2> QED BY <1>p, <2>1 DEF Typed
<1>4. \A d \in Callers :
           /\ (cl2[d].at = "waiting") <=> (cl2[d].read # None)
           /\ cl2[d].item \in Tree!Range(sn2) \cup {None}
           /\ cl2[d].read # None => cl2[d].item = read[cl2[d].read].item
  BY <1>p, <1>2
<1>5. \A q \in Reads, d \in Callers : d \in read[q].users <=> cl2[d].read = q
  BY <1>p, <1>2
<1>6. ASSUME NEW d \in Callers, cl2[d].item # None
      PROVE  /\ Later(read, cl2[d]) => item[cl2[d].item].listed
             /\ AtLast(read, cl2[d]) /\ cl2[d].links => ~item[cl2[d].item].pending
  <2>0. PagesKnown(item, read, caller)
    BY DEF TreeAgrees
  <2>1. CASE d = c
    BY <1>2, <1>6, <2>1 DEF Later, AtLast
  <2>2. CASE d # c
    BY <1>2, <1>6, <2>0, <2>2 DEF PagesKnown
  <2> QED BY <2>1, <2>2
<1>7. \A q \in Tree!Range(sn2) \ {} : ~item[q].listed =>
            /\ \E x \in Reads : Scans(read, x, q)
            /\ \A x, y \in Reads : Scans(read, x, q) /\ Scans(read, y, q) => x = y
  BY DEF TreeAgrees, ListingsRun
<1>8. \A q \in Reads :
           /\ read[q].at = "none" => read[q] = Tree!NoRead
           /\ read[q].at # "none" => ((read[q].abort = "stopped") <=> (read[q].users = {} \/ read[q].item = None))
           /\ read[q].item \in Tree!Range(sn2) \cup {None}
           /\ read[q].kind = "scan" /\ read[q].users = {} => read[q].item \in {} \cup {None}
  BY <1>p
<1>9. sn2 \in Seq(Paths) /\ Tree!IsInjective(sn2)
  OBVIOUS
<1>10. ReadsAgree(Tree!Range(sn2), read, {})
  BY <1>8 DEF ReadsAgree
<1>11. ListingsRun(Tree!Range(sn2), item, read, {})
  BY <1>7 DEF ListingsRun
<1>12. CallersAgree(Tree!Range(sn2), read, cl2)
  BY <1>4, <1>5 DEF CallersAgree
<1>13. PagesKnown(item, read, cl2)
  BY <1>6 DEF PagesKnown
<1>14. TreeTyped(sn2, item, read, cl2)
  BY <1>3, <1>9 DEF TreeTyped, Typed
<1> QED
  BY <1>10, <1>11, <1>12, <1>13, <1>14 DEF TreeAgrees

\* What a step owes when it leaves the channels alone: at most it starts reads.
TreeStep == /\ TreeAgrees(snapshots', item', read', caller', {})
            /\ \A q \in Reads : read'[q].at \in {"starting", read[q].at}
                                /\ (read'[q].at # read[q].at => read[q].at = "none")
            /\ UNCHANGED <<chan, conn>>

\* list, when the snapshot is there.
LEMMA ListKnownStep ==
  ASSUME TreeAgrees(snapshots, item, read, caller, {}), NEW c \in Callers, NEW p \in Paths,
         NEW links \in BOOLEAN, Tree!ListKnown(c, p, links)
  PROVE  TreeStep /\ NoNewPage
<1>1. /\ caller[c].at = "idle" /\ p \in Tree!Range(snapshots) /\ item[p].listed
      /\ snapshots' = Append(Tree!Without({p}, snapshots), p)
      /\ caller' = [caller EXCEPT ![c] = [at |-> "answered", item |-> p, read |-> None,
                                      fresh |-> FALSE, links |-> links]]
      /\ UNCHANGED <<item, read, chan, conn>>
  BY DEF Tree!ListKnown, Tree!Current
<1>2. /\ Typed(item, read, caller) /\ snapshots \in Seq(Paths) /\ Tree!IsInjective(snapshots)
      /\ caller[c].read = None
  BY <1>1, Parts
<1>3. Tree!Without({p}, snapshots) \in Seq(Paths) /\ Tree!IsInjective(Tree!Without({p}, snapshots))
      /\ Tree!Range(Tree!Without({p}, snapshots)) = Tree!Range(snapshots) \ {p}
  BY <1>2, WithoutFacts
<1>4. snapshots' \in Seq(Paths) /\ Tree!IsInjective(snapshots') /\ Tree!Range(snapshots') = Tree!Range(snapshots)
  <2> DEFINE w == Tree!Without({p}, snapshots)
  <2>1. w \in Seq(Paths) /\ Tree!IsInjective(w) /\ p \notin Tree!Range(w) /\ Tree!Range(w) \cup {p} = Tree!Range(snapshots)
        /\ snapshots' = Append(w, p)
    BY <1>1, <1>3
  <2> HIDE DEF w
  <2> QED BY <2>1, AppendedFacts
<1> DEFINE w == [at |-> "answered", item |-> p, read |-> None, fresh |-> FALSE, links |-> links]
<1>5. w.at = "answered" /\ w.item = p /\ w.read = None
  OBVIOUS
<1>6. w \in CallerRecord
  BY DEF CallerRecord, MaybePath
<1>7. caller' = [caller EXCEPT ![c] = w]
  BY <1>1
<1> HIDE DEF w
<1>8. TreeAgrees(snapshots', item, read, caller', {})
  BY <1>1, <1>2, <1>4, <1>5, <1>6, <1>7, RestsAgrees
<1>9. NoNewPage
  <2>1. DOMAIN caller = Callers
    BY <1>2 DEF Typed
  <2> QED BY <1>5, <1>7, <2>1 DEF NoNewPage
<1> QED
  BY <1>1, <1>8, <1>9 DEF TreeStep

\* A page is given of a snapshot that is current and complete.
NewPages == \A c \in Callers : caller'[c].at = "page" /\ caller[c].at # "page" =>
       LET p == caller[c].item
       IN /\ p \in Tree!Current /\ item[p].listed
          /\ caller[c].links => ~item[p].pending

\* A caller in another state.
LEMMA CallerWith ==
  ASSUME NEW x, NEW a, NEW i, NEW r, NEW f, NEW l, NEW v,
         x = [at |-> a, item |-> i, read |-> r, fresh |-> f, links |-> l]
  PROVE  [x EXCEPT !.at = v] = [at |-> v, item |-> i, read |-> r, fresh |-> f, links |-> l]
  OBVIOUS

\* The record of no caller.
LEMMA NoCallerFields ==
  /\ Tree!NoCaller \in CallerRecord /\ Tree!NoCaller.at = "idle" /\ Tree!NoCaller.item = None /\ Tree!NoCaller.read = None
  /\ [Tree!NoCaller EXCEPT !.at = "page"] = [at |-> "page", item |-> None, read |-> None, fresh |-> FALSE, links |-> FALSE]
<1>1. Tree!NoCaller \in CallerRecord
  BY DEF Tree!NoCaller, CallerRecord, MaybePath
<1>2. Tree!NoCaller.at = "idle" /\ Tree!NoCaller.item = None /\ Tree!NoCaller.read = None
  BY DEF Tree!NoCaller
<1>3. [Tree!NoCaller EXCEPT !.at = "page"] = [at |-> "page", item |-> None, read |-> None, fresh |-> FALSE, links |-> FALSE]
  <2> DEFINE x == Tree!NoCaller  a == "idle"  f == FALSE  v == "page"
  <2>1. x = [at |-> a, item |-> None, read |-> None, fresh |-> f, links |-> f]
    BY DEF Tree!NoCaller
  <2>2. [Tree!NoCaller EXCEPT !.at = "page"] = [x EXCEPT !.at = v]
    OBVIOUS
  <2> HIDE DEF x, a, f, v
  <2>3. [x EXCEPT !.at = v] = [at |-> v, item |-> None, read |-> None, fresh |-> f, links |-> f]
    BY <2>1, CallerWith
  <2> QED
    BY <2>2, <2>3 DEF f, v
<1> QED
  BY <1>1, <1>2, <1>3

\* A caller is refused.
LEMMA DismissedStep ==
  ASSUME TreeAgrees(snapshots, item, read, caller, {}), NEW c \in Callers, caller[c].at # "waiting",
         Tree!Dismissed(c), UNCHANGED <<snapshots, item, read>>
  PROVE  TreeAgrees(snapshots', item', read', caller', {}) /\ NoNewPage
<1>1. /\ Typed(item, read, caller) /\ snapshots \in Seq(Paths) /\ Tree!IsInjective(snapshots)
      /\ caller[c].read = None
  BY Parts
<1>2. caller' = [caller EXCEPT ![c] = Tree!NoCaller]
  BY DEF Tree!Dismissed
<1>3. TreeAgrees(snapshots, item, read, caller', {})
  BY <1>1, <1>2, NoCallerFields, RestsAgrees
<1>4. NoNewPage
  <2>1. DOMAIN caller = Callers
    BY <1>1 DEF Typed
  <2> QED BY <1>2, <2>1, NoCallerFields DEF NoNewPage
<1> QED
  BY <1>3, <1>4

\* What c has waited for is there.
MayServe(c) ==
  /\ caller[c].item # None
  /\ \/ caller[c].at = "checked"
     \/ caller[c].at = "answered" /\ ~(caller[c].links /\ item[caller[c].item].pending)

\* It gets its page.
LEMMA ServedStep ==
  ASSUME TreeAgrees(snapshots, item, read, caller, {}), NEW c \in Callers, MayServe(c), Tree!Served(c), UNCHANGED <<snapshots, item, read>>
  PROVE  TreeAgrees(snapshots', item', read', caller', {}) /\ NewPages
<1>1. /\ Typed(item, read, caller) /\ snapshots \in Seq(Paths) /\ Tree!IsInjective(snapshots)
      /\ caller[c].read = None /\ caller[c].item \in Tree!Range(snapshots) \cup {None}
  BY Parts DEF MayServe
<1> DEFINE w == [Tree!NoCaller EXCEPT !.at = "page"]
<1>2. caller' = [caller EXCEPT ![c] = w]
  BY DEF Tree!Served
<1>3. w \in CallerRecord /\ w.at = "page" /\ w.item = None /\ w.read = None
  <2>1. w = [at |-> "page", item |-> None, read |-> None, fresh |-> FALSE, links |-> FALSE]
    BY NoCallerFields
  <2> HIDE DEF w
  <2> QED BY <2>1 DEF CallerRecord, MaybePath
<1> HIDE DEF w
<1>4. TreeAgrees(snapshots, item, read, caller', {})
  BY <1>1, <1>2, <1>3, RestsAgrees
<1>5. NewPages
  <2>1. DOMAIN caller = Callers
    BY <1>1 DEF Typed
  <2>2. \A d \in Callers : d # c => caller'[d] = caller[d]
    BY <1>2, <2>1
  <2>3. PagesKnown(item, read, caller)
    BY DEF TreeAgrees
  <2>4. item[caller[c].item].listed
    BY <2>3 DEF PagesKnown, Later, MayServe
  <2>5. caller[c].links => ~item[caller[c].item].pending
    BY <2>3 DEF PagesKnown, AtLast, MayServe
  <2> QED
    BY <1>1, <2>2, <2>4, <2>5 DEF NewPages, Tree!Current, MayServe
<1> QED
  BY <1>4, <1>5

\* No page is none that is wrong.
LEMMA NoNewPages == NoNewPage => NewPages
  BY DEF NoNewPage, NewPages

\* The page of a caller whose last read is over.
LEMMA FinishStep ==
  ASSUME TreeAgrees(snapshots, item, read, caller, {}), NEW c \in Callers, Tree!Finish(c)
  PROVE  TreeStep /\ NewPages
<1>1. caller[c].at = "checked" /\ UNCHANGED <<snapshots, item, read, chan, conn>>
      /\ IF caller[c].item # None THEN Tree!Served(c) ELSE Tree!Dismissed(c)
  BY DEF Tree!Finish, Tree!Lookup
<1>2. TreeAgrees(snapshots', item', read', caller', {}) /\ NewPages
  <2>1. CASE caller[c].item # None
    <3>1. caller[c].at = "checked" /\ Tree!Served(c) /\ UNCHANGED <<snapshots, item, read>>
      BY <1>1, <2>1
    <3>2. MayServe(c)
      BY <2>1, <3>1 DEF MayServe
    <3> QED BY <3>1, <3>2, ServedStep
  <2>2. CASE caller[c].item = None
    <3>1. Tree!Dismissed(c) /\ caller[c].at # "waiting"
      BY <1>1, <2>2
    <3>2. TreeAgrees(snapshots', item', read', caller', {}) /\ NoNewPage
      BY <1>1, <3>1, DismissedStep
    <3> QED BY <3>2, NoNewPages
  <2> QED BY <2>1, <2>2
<1> QED
  BY <1>1, <1>2 DEF TreeStep

\* The window has seen its page.
LEMMA SeenStep ==
  ASSUME TreeAgrees(snapshots, item, read, caller, {}), NEW c \in Callers, Tree!Seen(c)
  PROVE  TreeStep /\ NoNewPage
<1>1. caller[c].at = "page" /\ UNCHANGED <<snapshots, item, read, chan, conn>> /\ Tree!Dismissed(c)
  BY DEF Tree!Seen
<1>2. TreeAgrees(snapshots', item', read', caller', {}) /\ NoNewPage
  BY <1>1, DismissedStep
<1> QED
  BY <1>1, <1>2 DEF TreeStep

\* A read that is free is nobody's.
LEMMA FreeReads ==
  ASSUME TreeAgrees(snapshots, item, read, caller, {}), NEW r \in Tree!NextFree
  PROVE  r \in Reads /\ read[r] = Tree!NoRead /\ \A c \in Callers : caller[c].read # r
<1>1. r \in Reads /\ Tree!Free(r)
  BY DEF Tree!NextFree
<1>2. read[r].at = "none" /\ \A c \in Callers : caller[c].read # r
  BY <1>1 DEF Tree!Free, Tree!Under
<1> QED
  BY <1>1, <1>2, Parts

\* A read that starts.
LEMMA StartingFields ==
  ASSUME NEW p \in Paths, NEW kind \in Tree!Kinds, NEW c \in Callers
  PROVE  /\ Tree!Starting(p, kind, c) \in ReadRecord /\ Tree!Starting(p, kind, c).at = "starting"
         /\ Tree!Starting(p, kind, c).item = p /\ Tree!Starting(p, kind, c).kind = kind
         /\ Tree!Starting(p, kind, c).users = {c} /\ Tree!Starting(p, kind, c).abort = "no"
<1>1. Tree!Starting(p, kind, c) = [at |-> "starting", item |-> p, kind |-> kind, users |-> {c}, abort |-> "no"]
  BY DEF Tree!Starting
<1>2. p \in MaybePath /\ {c} \in SUBSET Callers /\ "starting" \in {"none", "starting", "opening", "working"}
      /\ "no" \in {"no", "broken", "stopped"} /\ kind \in {"scan", "links", "page"}
  BY DEF MaybePath, Tree!Kinds
<1>3. [at |-> "starting", item |-> p, kind |-> kind, users |-> {c}, abort |-> "no"] \in ReadRecord
  BY <1>2, MakeRead
<1> QED
  BY <1>1, <1>3

\* A caller goes on after its listing: with the page, or after a read of its links or of the
\* directory itself.
LEMMA ResumeStep ==
  ASSUME TreeAgrees(snapshots, item, read, caller, {}), NEW c \in Callers, Tree!Resume(c)
  PROVE  TreeStep /\ NewPages
<1> DEFINE p == caller[c].item
           needs == caller[c].links /\ p # None /\ item[p].pending
           kind == IF needs THEN "links" ELSE "page"
           known == {r \in Reads : read[r].users # {} /\ read[r].item = p /\ read[r].kind = kind}
<1>1. /\ caller[c].at = "answered" /\ UNCHANGED <<snapshots, item, chan, conn>>
      /\ IF p = None THEN Tree!Dismissed(c) /\ UNCHANGED read
         ELSE IF ~needs /\ caller[c].fresh THEN Tree!Served(c) /\ UNCHANGED read
         ELSE \E r \in IF known # {} THEN known ELSE Tree!NextFree :
               /\ read' = [read EXCEPT ![r] = IF known # {} THEN [read[r] EXCEPT !.users = @ \cup {c}]
                                              ELSE Tree!Starting(p, kind, c)]
               /\ caller' = Tree!Waits(c, p, r, FALSE, caller[c].links)
  BY DEF Tree!Resume, Tree!Lookup
<1>2. CASE p = None
  <2>1. Tree!Dismissed(c) /\ UNCHANGED <<snapshots, item, read>> /\ caller[c].at # "waiting"
    BY <1>1, <1>2
  <2>2. TreeAgrees(snapshots', item', read', caller', {}) /\ NoNewPage
    BY <2>1, DismissedStep
  <2> QED BY <1>1, <2>1, <2>2, NoNewPages DEF TreeStep
<1>3. CASE p # None /\ ~needs /\ caller[c].fresh
  <2>1. Tree!Served(c) /\ UNCHANGED <<snapshots, item, read>>
    BY <1>1, <1>3
  <2>2. MayServe(c)
    BY <1>1, <1>3 DEF MayServe
  <2>3. TreeAgrees(snapshots', item', read', caller', {}) /\ NewPages
    BY <2>1, <2>2, ServedStep
  <2> QED BY <1>1, <2>1, <2>3 DEF TreeStep
<1>4. CASE p # None /\ ~(~needs /\ caller[c].fresh)
  <2>1. PICK r \in IF known # {} THEN known ELSE Tree!NextFree :
               /\ read' = [read EXCEPT ![r] = IF known # {} THEN [read[r] EXCEPT !.users = @ \cup {c}]
                                              ELSE Tree!Starting(p, kind, c)]
               /\ caller' = Tree!Waits(c, p, r, FALSE, caller[c].links)
    BY <1>1, <1>4
  <2>p. /\ Typed(item, read, caller) /\ snapshots \in Seq(Paths) /\ Tree!IsInjective(snapshots) /\ Tree!Range(snapshots) \subseteq Paths
        /\ caller[c].read = None /\ p \in Tree!Range(snapshots)
        /\ PagesKnown(item, read, caller)
    BY <1>1, <1>4, Parts DEF TreeAgrees
  <2>2. /\ DOMAIN read = Reads /\ DOMAIN caller = Callers /\ caller[c].links \in BOOLEAN
        /\ read \in [Reads -> ReadRecord]
    <3>1. caller[c] \in CallerRecord
      BY <2>p DEF Typed
    <3> QED BY <2>p, <3>1 DEF Typed, CallerRecord
  <2>3. item[p].listed
    BY <1>1, <1>4, <2>p DEF PagesKnown, Later
  <2>4. kind \in Tree!Kinds /\ kind # "scan" /\ (kind = "page" /\ caller[c].links => ~item[p].pending)
    BY <1>4 DEF Tree!Kinds
  <2>5. /\ caller' = [d \in Callers |-> caller'[d]]
        /\ \A d \in Callers : caller'[d] = IF d = c THEN [at |-> "waiting", item |-> p, read |-> r, fresh |-> FALSE, links |-> caller[c].links]
                                       ELSE caller[d]
    BY <2>1, <2>2 DEF Tree!Waits
  <2>6. NoNewPage
    BY <2>5 DEF NoNewPage
  <2>7. ASSUME r \in Reads, NEW R \in ReadRecord, read' = [read EXCEPT ![r] = R],
               R.kind = kind, R.users = read[r].users \cup {c}, R.item = p,
               Joined(r, read[r], R, c, p) \/ Started(r, read[r], R, c, p)
        PROVE  TreeAgrees(snapshots, item, read', caller', {})
    <3> DEFINE rd2 == read'  cl2 == caller'  links == caller[c].links  fresh == FALSE
    <3>1. rd2 = [q \in Reads |-> rd2[q]] /\ \A q \in Reads : rd2[q] = IF q = r THEN R ELSE read[q]
      BY <2>2, <2>7
    <3>2. cl2 = [d \in Callers |-> cl2[d]] /\ \A d \in Callers : cl2[d] =
             IF d = c THEN [at |-> "waiting", item |-> p, read |-> r, fresh |-> fresh, links |-> links] ELSE caller[d]
      BY <2>5
    <3>3. DOMAIN rd2 = Reads /\ DOMAIN cl2 = Callers
      BY <3>1, <3>2
    <3>4. links \in BOOLEAN /\ fresh \in BOOLEAN /\ (R.kind # "scan" => item[p].listed) /\ (R.kind = "page" /\ links => ~item[p].pending)
      BY <2>2, <2>3, <2>4, <2>7
    <3>5. R.kind # "scan"
      BY <2>4, <2>7
    <3> HIDE DEF rd2, cl2, links, fresh, p, kind, known
    <3>7. WaitsOf(snapshots, item, read, caller, {}, {}, c, r, p, R, fresh, links, rd2, cl2)
      BY <2>7, <2>p, <3>1, <3>2, <3>3, <3>4, <3>5 DEF WaitsOf
    <3>6. TreeAgrees(snapshots, item, rd2, cl2, {})
      BY <3>7, WaitsAgrees
    <3> QED BY <3>6 DEF rd2, cl2
  <2>8. CASE known # {}
    <3>1. r \in Reads /\ read[r].users # {} /\ read[r].item = p /\ read[r].kind = kind
      BY <2>8
    <3> DEFINE R == [read[r] EXCEPT !.users = read[r].users \cup {c}]
    <3>2. read' = [read EXCEPT ![r] = R]
      <4> HIDE DEF p, kind, known
      <4> QED BY <2>1, <2>2, <2>8, <3>1
    <3>3. /\ R = [at |-> read[r].at, item |-> read[r].item, kind |-> read[r].kind, users |-> read[r].users \cup {c}, abort |-> read[r].abort]
          /\ R \in ReadRecord
      <4>1. read[r] \in ReadRecord
        BY <2>2, <3>1
      <4> DEFINE x == read[r]  a == read[r].at  k == read[r].kind  u == read[r].users  i == read[r].item  b == read[r].abort  v == read[r].users \cup {c}
      <4>2. /\ a \in {"none", "starting", "opening", "working"} /\ k \in {"scan", "links", "page"}
            /\ u \in SUBSET Callers /\ i \in MaybePath /\ b \in {"no", "broken", "stopped"}
            /\ x = [at |-> a, item |-> i, kind |-> k, users |-> u, abort |-> b] /\ v \in SUBSET Callers
        BY <4>1 DEF ReadRecord, Tree!Kinds
      <4>3. R = [x EXCEPT !.users = v]
        OBVIOUS
      <4> HIDE DEF x, a, k, u, i, b, v, R
      <4>4. R = [at |-> a, item |-> i, kind |-> k, users |-> v, abort |-> b]
        BY <4>2, <4>3, ReadWith
      <4>5. [at |-> a, item |-> i, kind |-> k, users |-> v, abort |-> b] \in ReadRecord
        BY <4>2, MakeRead
      <4> QED BY <4>4, <4>5 DEF x, a, k, u, i, b, v
    <3> HIDE DEF R
    <3>4. R.at = read[r].at /\ R.item = p /\ R.kind = kind /\ R.users = read[r].users \cup {c} /\ R.abort = read[r].abort
      <4> HIDE DEF p, kind
      <4> QED BY <3>1, <3>3
    <3>5. read[r].at # "none"
      BY <3>1, Parts
    <3>6. Joined(r, read[r], R, c, p)
      BY <3>1, <3>4, <3>5 DEF Joined
    <3>7. TreeAgrees(snapshots, item, read', caller', {})
      <4> HIDE DEF p, kind, known
      <4> QED BY <2>7, <3>1, <3>2, <3>3, <3>4, <3>6
    <3>8. \A q \in Reads : read'[q].at = read[q].at
      BY <2>2, <3>2, <3>4
    <3> QED BY <1>1, <2>6, <3>7, <3>8, NoNewPages DEF TreeStep
  <2>9. CASE known = {}
    <3>1. r \in Tree!NextFree /\ read' = [read EXCEPT ![r] = Tree!Starting(p, kind, c)]
      BY <2>1, <2>9
    <3>2. r \in Reads /\ read[r] = Tree!NoRead
      BY <3>1, FreeReads
    <3> DEFINE R == Tree!Starting(p, kind, c)
    <3>3. /\ R \in ReadRecord /\ R.at = "starting" /\ R.item = p /\ R.kind = kind /\ R.users = {c} /\ R.abort = "no"
      <4>1. p \in Paths
        BY <2>p
      <4> HIDE DEF p, kind
      <4> QED BY <2>4, <4>1, StartingFields
    <3> HIDE DEF R
    <3>4. Tree!NoRead.users = {} /\ Tree!NoRead.at = "none"
      BY DEF Tree!NoRead
    <3>5. Started(r, read[r], R, c, p) /\ R.users = read[r].users \cup {c}
      BY <3>2, <3>3, <3>4 DEF Started
    <3>6. read' = [read EXCEPT ![r] = R]
      BY <3>1 DEF R
    <3>7. TreeAgrees(snapshots, item, read', caller', {})
      <4> HIDE DEF p, kind, known
      <4> QED BY <2>7, <3>2, <3>3, <3>5, <3>6
    <3>8. \A q \in Reads : read'[q].at = IF q = r THEN "starting" ELSE read[q].at
      BY <2>2, <3>6, <3>3
    <3> QED BY <1>1, <2>6, <3>2, <3>4, <3>7, <3>8, NoNewPages DEF TreeStep
  <2> QED BY <2>8, <2>9
<1> QED
  BY <1>2, <1>3, <1>4

\* A snapshot is replaced: the old one is cleared, the new one has no listing yet.
LEMMA ReplacedAgrees ==
  ASSUME TreeAgrees(snapshots, item, read, caller, {}), NEW p \in Paths, NEW its,
         its = [item EXCEPT ![p] = [listed |-> FALSE, pending |-> p \in Linked]]
  PROVE  /\ TreeAgrees(Append(Tree!Without({p}, snapshots), p), its, Tree!Cut({p}, read),
                       [d \in Callers |-> IF caller[d].item = p THEN [caller[d] EXCEPT !.item = None]
                                          ELSE caller[d]], {p})
         /\ p \in Tree!Range(Append(Tree!Without({p}, snapshots), p))
         /\ Append(Tree!Without({p}, snapshots), p) \in Seq(Paths)
         /\ \A q \in Reads : Tree!Cut({p}, read)[q].item # p
         /\ \A q \in Reads : Tree!Cut({p}, read)[q].at = read[q].at /\ (read[q] = Tree!NoRead => Tree!Cut({p}, read)[q] = Tree!NoRead)
<1> DEFINE sn == Tree!Without({p}, snapshots)
           rd == Tree!Cut({p}, read)
           cl == [d \in Callers |-> IF caller[d].item = p THEN [caller[d] EXCEPT !.item = None]
                                          ELSE caller[d]]
           it == [q \in Paths |-> IF q \in {p} THEN Tree!NoItem ELSE item[q]]
<1>1. TreeAgrees(snapshots, item, read, caller, {p})
  BY WidenAgrees
<1>2. ClearedOf({p}, snapshots, item, read, caller, sn, it, rd, cl)
  BY <1>1 DEF ClearedOf
<1>4. /\ TreeAgrees(sn, it, rd, cl, {})
      /\ Tree!Range(sn) = Tree!Range(snapshots) \ {p}
      /\ \A r \in Reads : rd[r].at = read[r].at
  <2> DEFINE S == {p}
  <2>1. ClearedOf(S, snapshots, item, read, caller, sn, it, rd, cl)
    BY <1>2
  <2> HIDE DEF sn, it, rd, cl, S
  <2>2. /\ TreeAgrees(sn, it, rd, cl, {})
        /\ Tree!Range(sn) = Tree!Range(snapshots) \ S
        /\ \A r \in Reads : rd[r].at = read[r].at
    BY <2>1, ClearedAgrees
  <2> QED BY <2>2 DEF S
<1>5. its \in [Paths -> ItemRecord] /\ \A q \in Paths : q # p => its[q] = it[q]
  <2>1. item \in [Paths -> ItemRecord]
    BY DEF TreeAgrees, TreeTyped
  <2> DEFINE w == [listed |-> FALSE, pending |-> p \in Linked]
  <2>2. w \in ItemRecord
    BY DEF ItemRecord
  <2>3. its = [item EXCEPT ![p] = w]
    OBVIOUS
  <2> HIDE DEF w
  <2> QED BY <2>1, <2>2, <2>3
<1> HIDE DEF it, rd, cl
<1>6. p \notin Tree!Range(sn) /\ sn \in Seq(Paths) /\ Tree!IsInjective(sn)
  BY <1>4, Parts DEF TreeAgrees, TreeTyped
<1> HIDE DEF sn
<1>7. TreeAgrees(Append(sn, p), its, rd, cl, {p})
  BY <1>4, <1>5, <1>6, ExtendAgrees
<1>8. p \in Tree!Range(Append(sn, p)) /\ Append(sn, p) \in Seq(Paths)
  <2>1. Tree!Range(Append(sn, p)) = Tree!Range(sn) \cup {p} /\ Append(sn, p) \in Seq(Paths)
    BY <1>6, AppendedFacts
  <2> QED BY <2>1
<1>9. \A q \in Reads : rd[q].item # p
  <2>1. \A q \in Reads : rd[q].item \in Tree!Range(sn) \cup {None}
    BY <1>4 DEF TreeAgrees, ReadsAgree
  <2>2. None \notin Paths
    BY TreeGiven
  <2> QED BY <1>6, <2>1, <2>2
<1>10. \A q \in Reads : read[q] = Tree!NoRead => rd[q] = Tree!NoRead
  <2>1. Tree!NoRead.at = "none"
    BY DEF Tree!NoRead
  <2>2. \A q \in Reads : rd[q].at = "none" => rd[q] = Tree!NoRead
    BY <1>4 DEF TreeAgrees, ReadsAgree
  <2> QED BY <1>4, <2>1, <2>2
<1> QED
  BY <1>4, <1>7, <1>8, <1>9, <1>10 DEF sn, rd, cl

\* list, when it reads anew.
LEMMA ListFreshStep ==
  ASSUME TreeAgrees(snapshots, item, read, caller, {}), NEW c \in Callers, NEW p \in Paths, NEW links \in BOOLEAN,
         Tree!ListFresh(c, p, links)
  PROVE  TreeStep /\ NoNewPage
<1>1. caller[c].at = "idle" /\ UNCHANGED <<chan, conn>>
  BY DEF Tree!ListFresh
<1>p. /\ Typed(item, read, caller) /\ caller[c].read = None
  BY <1>1, Parts
<1>2. /\ DOMAIN read = Reads /\ DOMAIN caller = Callers /\ read \in [Reads -> ReadRecord] /\ caller \in [Callers -> CallerRecord]
  BY <1>p DEF Typed
<1>3. CASE p \in Tree!Current /\ ~item[p].listed
  <2>1. PICK r \in Tree!Scanning :
              /\ read[r].item = p
              /\ read' = [read EXCEPT ![r].users = @ \cup {c}]
              /\ caller' = Tree!Waits(c, p, r, TRUE, links)
              /\ UNCHANGED <<snapshots, item>>
    BY <1>3 DEF Tree!ListFresh
  <2>2. r \in Reads /\ read[r].kind = "scan" /\ read[r].users # {} /\ p \in Tree!Range(snapshots)
    BY <1>3 DEF Tree!Scanning, Tree!Current
  <2> DEFINE R == [read[r] EXCEPT !.users = read[r].users \cup {c}]
  <2>3. read' = [read EXCEPT ![r] = R]
    BY <2>1, <2>2, <1>2
  <2>4. /\ R = [at |-> read[r].at, item |-> read[r].item, kind |-> read[r].kind, users |-> read[r].users \cup {c}, abort |-> read[r].abort]
        /\ R \in ReadRecord
    <3>1. read[r] \in ReadRecord
      BY <1>2, <2>2
    <3> DEFINE x == read[r]  a == read[r].at  k == read[r].kind  u == read[r].users  i == read[r].item  b == read[r].abort  v == read[r].users \cup {c}
    <3>2. /\ a \in {"none", "starting", "opening", "working"} /\ k \in {"scan", "links", "page"}
          /\ u \in SUBSET Callers /\ i \in MaybePath /\ b \in {"no", "broken", "stopped"}
          /\ x = [at |-> a, item |-> i, kind |-> k, users |-> u, abort |-> b] /\ v \in SUBSET Callers
      BY <3>1 DEF ReadRecord, Tree!Kinds
    <3>3. R = [x EXCEPT !.users = v]
      OBVIOUS
    <3> HIDE DEF x, a, k, u, i, b, v, R
    <3>4. R = [at |-> a, item |-> i, kind |-> k, users |-> v, abort |-> b]
      BY <3>2, <3>3, ReadWith
    <3>5. [at |-> a, item |-> i, kind |-> k, users |-> v, abort |-> b] \in ReadRecord
      BY <3>2, MakeRead
    <3> QED BY <3>4, <3>5 DEF x, a, k, u, i, b, v
  <2> HIDE DEF R
  <2>5. R.at = read[r].at /\ R.item = p /\ R.kind = "scan" /\ R.users = read[r].users \cup {c} /\ R.abort = read[r].abort
    BY <2>1, <2>2, <2>4
  <2>6. read[r].at # "none"
    BY <2>2, Parts
  <2>7. Joined(r, read[r], R, c, p)
    BY <2>1, <2>2, <2>5, <2>6 DEF Joined
  <2> DEFINE rd2 == read'  cl2 == caller'  fresh == TRUE
  <2>8. rd2 = [q \in Reads |-> rd2[q]] /\ \A q \in Reads : rd2[q] = IF q = r THEN R ELSE read[q]
    BY <1>2, <2>3
  <2>9. cl2 = [d \in Callers |-> cl2[d]] /\ \A d \in Callers : cl2[d] =
           IF d = c THEN [at |-> "waiting", item |-> p, read |-> r, fresh |-> fresh, links |-> links] ELSE caller[d]
    BY <1>2, <2>1 DEF Tree!Waits
  <2>10. DOMAIN rd2 = Reads /\ DOMAIN cl2 = Callers /\ fresh \in BOOLEAN
    BY <2>8, <2>9
  <2>11. (R.kind # "scan" => item[p].listed) /\ (R.kind = "page" /\ links => ~item[p].pending)
    BY <2>5
  <2>12. TreeAgrees(snapshots, item, rd2, cl2, {})
    <3> HIDE DEF rd2, cl2, fresh
    <3>1. WaitsOf(snapshots, item, read, caller, {}, {}, c, r, p, R, fresh, links, rd2, cl2)
      BY <1>p, <2>2, <2>4, <2>5, <2>7, <2>8, <2>9, <2>10, <2>11 DEF WaitsOf
    <3> QED
      BY <3>1, WaitsAgrees
  <2>13. NoNewPage
    BY <2>9 DEF NoNewPage
  <2>14. \A q \in Reads : read'[q].at = read[q].at
    BY <2>5, <2>8
  <2> HIDE DEF rd2, cl2
  <2>15. TreeAgrees(snapshots', item', read', caller', {})
    BY <2>1, <2>12 DEF rd2, cl2
  <2> QED
    BY <1>1, <2>13, <2>14, <2>15 DEF TreeStep
<1>4. CASE ~(p \in Tree!Current /\ ~item[p].listed)
  <2> DEFINE order == Append(Tree!Without({p}, snapshots), p)
             its == [item EXCEPT ![p] = [listed |-> FALSE, pending |-> p \in Linked]]
             rd == Tree!Cut({p}, read)
             cl == [d \in Callers |-> IF caller[d].item = p THEN [caller[d] EXCEPT !.item = None]
                                      ELSE caller[d]]
  <2>1. PICK r \in Tree!NextFree :
           Tree!Becomes(Tree!Trimmed(order, p, its), order, its,
                   [rd EXCEPT ![r] = Tree!Starting(p, "scan", c)],
                   [cl EXCEPT ![c] = Tree!Waits(c, p, r, TRUE, links)[c]])
    BY <1>4 DEF Tree!ListFresh
  <2>2. r \in Reads /\ read[r] = Tree!NoRead
    BY FreeReads
  <2>3. /\ TreeAgrees(order, its, rd, cl, {p})
        /\ p \in Tree!Range(order) /\ order \in Seq(Paths)
        /\ \A q \in Reads : rd[q].item # p
        /\ \A q \in Reads : rd[q].at = read[q].at /\ (read[q] = Tree!NoRead => rd[q] = Tree!NoRead)
    <3> HIDE DEF order, rd, cl
    <3> QED BY ReplacedAgrees DEF order, rd, cl
  <2>4. DOMAIN rd = Reads /\ DOMAIN cl = Callers
    BY DEF Tree!Cut
  <2>5. cl[c].read = None
    <3>1. caller[c] = [at |-> caller[c].at, item |-> caller[c].item, read |-> caller[c].read,
                       fresh |-> caller[c].fresh, links |-> caller[c].links]
      BY <1>p, Fields
    <3>2. [caller[c] EXCEPT !.item = None].read = caller[c].read
      BY <3>1
    <3> QED BY <1>p, <3>2
  <2>b. \A d \in Callers : cl[d].at = caller[d].at
    <3> SUFFICES ASSUME NEW d \in Callers PROVE cl[d].at = caller[d].at
      OBVIOUS
    <3>1. caller[d] = [at |-> caller[d].at, item |-> caller[d].item, read |-> caller[d].read,
                       fresh |-> caller[d].fresh, links |-> caller[d].links]
      BY <1>p, Fields
    <3>2. [caller[d] EXCEPT !.item = None].at = caller[d].at
      BY <3>1
    <3> QED BY <3>2
  <2> DEFINE R == Tree!Starting(p, "scan", c)
             T == Tree!Trimmed(order, p, its)
             rd2 == [rd EXCEPT ![r] = R]
             cl2 == [cl EXCEPT ![c] = Tree!Waits(c, p, r, TRUE, links)[c]]
             fresh == TRUE
  <2>6. /\ R \in ReadRecord /\ R.at = "starting" /\ R.item = p /\ R.kind = "scan" /\ R.users = {c} /\ R.abort = "no"
    BY StartingFields DEF Tree!Kinds
  <2>7. Tree!Waits(c, p, r, TRUE, links)[c] = [at |-> "waiting", item |-> p, read |-> r, fresh |-> fresh, links |-> links]
    BY <1>2 DEF Tree!Waits
  <2>8. Tree!Becomes(T, order, its, rd2, cl2)
    BY <2>1
  <2>9. T \in SUBSET Paths
    <3> HIDE DEF order, its
    <3> QED BY <2>3, TrimmedType
  <2> HIDE DEF order, its, rd, cl, R, T
  <2>10. rd2 = [q \in Reads |-> rd2[q]] /\ \A q \in Reads : rd2[q] = IF q = r THEN R ELSE rd[q]
    BY <2>4
  <2>11. cl2 = [d \in Callers |-> cl2[d]] /\ \A d \in Callers : cl2[d] =
           IF d = c THEN [at |-> "waiting", item |-> p, read |-> r, fresh |-> fresh, links |-> links] ELSE cl[d]
    BY <2>4, <2>7
  <2>12. DOMAIN rd2 = Reads /\ DOMAIN cl2 = Callers /\ fresh \in BOOLEAN
    BY <2>4
  <2>13. Tree!NoRead.users = {}
    BY DEF Tree!NoRead
  <2>14. Started(r, rd[r], R, c, p) /\ R.users = rd[r].users \cup {c}
    BY <2>2, <2>3, <2>6, <2>13 DEF Started
  <2>a. \A d \in Callers : cl2[d].at = "waiting" \/ cl2[d].at = caller[d].at
    <3>1. \A d \in Callers : d # c => cl2[d] = cl[d]
      BY <2>11
    <3>3. cl2[c] = [at |-> "waiting", item |-> p, read |-> r, fresh |-> fresh, links |-> links]
      BY <2>11
    <3>2. cl2[c].at = "waiting"
      <4> HIDE DEF cl2, fresh
      <4> QED BY <3>3
    <3> HIDE DEF cl2
    <3> QED BY <2>b, <3>1, <3>2
  <2> HIDE DEF rd2, cl2, fresh
  <2>15. TreeAgrees(order, its, rd2, cl2, {})
    <3> DEFINE X == {}  Y == {p}
    <3>1. Y = X \cup {p} /\ TreeAgrees(order, its, rd, cl, Y)
      BY <2>3
    <3>2. (R.kind # "scan" => its[p].listed) /\ (R.kind = "page" /\ links => ~its[p].pending)
      BY <2>6
    <3> HIDE DEF X, Y
    <3>4. WaitsOf(order, its, rd, cl, X, Y, c, r, p, R, fresh, links, rd2, cl2)
      BY <2>2, <2>3, <2>5, <2>6, <2>10, <2>11, <2>12, <2>14, <3>1, <3>2 DEF WaitsOf
    <3>3. TreeAgrees(order, its, rd2, cl2, X)
      BY <3>4, WaitsAgrees
    <3> QED BY <3>3 DEF X
  <2>16. /\ TreeAgrees(snapshots', item', read', caller', {})
         /\ \A q \in Reads : read'[q].at = rd2[q].at
         /\ \A d \in Callers : caller'[d].at = cl2[d].at
    BY <2>8, <2>9, <2>15, BecomesAgrees, WidenAgrees
  <2>17. NoNewPage
    BY <2>16, <2>a DEF NoNewPage
  <2>18. Tree!NoRead.at = "none"
    BY DEF Tree!NoRead
  <2>19. \A q \in Reads : read'[q].at = IF q = r THEN "starting" ELSE read[q].at
    BY <2>3, <2>6, <2>10, <2>16
  <2> QED
    BY <1>1, <2>2, <2>16, <2>17, <2>18, <2>19 DEF TreeStep
<1> QED
  BY <1>3, <1>4

\* What a read wants and whose it is stay the same.
LEMMA RecordAgrees ==
  ASSUME TreeAgrees(snapshots, item, read, caller, {}), NEW r \in Reads, read[r].at # "none",
         NEW R \in ReadRecord, R.at # "none", R.item = read[r].item, R.kind = read[r].kind, R.users = read[r].users,
         (R.abort = "stopped") <=> (read[r].abort = "stopped"),
         NEW rd2, rd2 = [read EXCEPT ![r] = R]
  PROVE  /\ TreeAgrees(snapshots, item, rd2, caller, {})
         /\ \A q \in Reads : rd2[q].at = IF q = r THEN R.at ELSE read[q].at
<1>p. /\ Typed(item, read, caller) /\ snapshots \in Seq(Paths) /\ Tree!IsInjective(snapshots) /\ Tree!Range(snapshots) \subseteq Paths
      /\ None \notin Paths /\ None \notin Reads
      /\ \A q \in Reads :
           /\ read[q].at = "none" => read[q] = Tree!NoRead
           /\ read[q].at = "none" => read[q].users = {} /\ read[q].item = None
           /\ read[q].at # "none" => ((read[q].abort = "stopped") <=> (read[q].users = {} \/ read[q].item = None))
           /\ read[q].item \in Tree!Range(snapshots) \cup {None}
           /\ read[q].kind = "scan" /\ read[q].users = {} => read[q].item \in {} \cup {None}
      /\ \A d \in Callers :
           /\ (caller[d].at = "waiting") <=> (caller[d].read # None)
           /\ caller[d].item \in Tree!Range(snapshots) \cup {None}
           /\ caller[d].read # None => caller[d].item = read[caller[d].read].item
      /\ \A q \in Reads, d \in Callers : d \in read[q].users <=> caller[d].read = q
  BY Parts
<1>1. read \in [Reads -> ReadRecord] /\ caller \in [Callers -> CallerRecord]
  BY <1>p DEF Typed
<1>2. \A q \in Reads : rd2[q] = IF q = r THEN R ELSE read[q]
  BY <1>1
<1>3. \A q \in Reads : rd2[q].item = read[q].item /\ rd2[q].kind = read[q].kind /\ rd2[q].users = read[q].users
  BY <1>2
<1>4. ASSUME NEW d \in Callers PROVE caller[d].read \in Reads \cup {None}
  <2>1. caller[d] \in CallerRecord
    BY <1>1
  <2> QED BY <2>1 DEF CallerRecord
<1>5. TreeTyped(snapshots, item, rd2, caller)
  <2>1. rd2 \in [Reads -> ReadRecord]
    BY <1>1
  <2> QED BY <1>p, <2>1 DEF TreeTyped, Typed
<1>6. ReadsAgree(Tree!Range(snapshots), rd2, {})
  <2> SUFFICES ASSUME NEW q \in Reads
               PROVE  /\ rd2[q].at = "none" => rd2[q] = Tree!NoRead
                      /\ rd2[q].at # "none" => ((rd2[q].abort = "stopped") <=> (rd2[q].users = {} \/ rd2[q].item = None))
                      /\ rd2[q].item \in Tree!Range(snapshots) \cup {None}
                      /\ rd2[q].kind = "scan" /\ rd2[q].users = {} => rd2[q].item \in {} \cup {None}
    BY DEF ReadsAgree
  <2>1. CASE q = r
    BY <1>2, <1>p, <2>1
  <2>2. CASE q # r
    BY <1>2, <1>p, <2>2
  <2> QED BY <2>1, <2>2
<1>7. ListingsRun(Tree!Range(snapshots), item, rd2, {})
  BY <1>3 DEF TreeAgrees, ListingsRun, Scans
<1>8. CallersAgree(Tree!Range(snapshots), rd2, caller)
  BY <1>p, <1>3, <1>4 DEF CallersAgree
<1>9. PagesKnown(item, rd2, caller)
  <2>1. PagesKnown(item, read, caller)
    BY DEF TreeAgrees
  <2>2. \A d \in Callers : (Later(rd2, caller[d]) <=> Later(read, caller[d])) /\ (AtLast(rd2, caller[d]) <=> AtLast(read, caller[d]))
    BY <1>3, <1>4 DEF Later, AtLast
  <2> QED BY <2>1, <2>2 DEF PagesKnown
<1>10. TreeAgrees(snapshots, item, rd2, caller, {})
  BY <1>5, <1>6, <1>7, <1>8, <1>9 DEF TreeAgrees
<1> QED
  BY <1>2, <1>10

\* A read in another stage, or aborted.
LEMMA ReadFields ==
  ASSUME TreeAgrees(snapshots, item, read, caller, {}), NEW r \in Reads
  PROVE  /\ DOMAIN read = Reads
         /\ \A a \in {"none", "starting", "opening", "working"} :
              /\ [read[r] EXCEPT !.at = a] \in ReadRecord
              /\ [read[r] EXCEPT !.at = a].at = a
              /\ [read[r] EXCEPT !.at = a].item = read[r].item
              /\ [read[r] EXCEPT !.at = a].kind = read[r].kind
              /\ [read[r] EXCEPT !.at = a].users = read[r].users
              /\ [read[r] EXCEPT !.at = a].abort = read[r].abort
         /\ \A a \in {"no", "broken", "stopped"} :
              /\ [read[r] EXCEPT !.abort = a] \in ReadRecord
              /\ [read[r] EXCEPT !.abort = a].at = read[r].at
              /\ [read[r] EXCEPT !.abort = a].item = read[r].item
              /\ [read[r] EXCEPT !.abort = a].kind = read[r].kind
              /\ [read[r] EXCEPT !.abort = a].users = read[r].users
              /\ [read[r] EXCEPT !.abort = a].abort = a
         /\ read[r].abort \in {"no", "broken", "stopped"}
         /\ read[r].at \in {"none", "starting", "opening", "working"}
<1>1. read \in [Reads -> ReadRecord]
  BY DEF TreeAgrees, TreeTyped
<1> DEFINE x == read[r]  a0 == read[r].at  k == read[r].kind  u == read[r].users  i == read[r].item  b == read[r].abort
<1>2. x \in ReadRecord
  BY <1>1
<1>3. /\ a0 \in {"none", "starting", "opening", "working"} /\ k \in {"scan", "links", "page"}
      /\ u \in SUBSET Callers /\ i \in MaybePath /\ b \in {"no", "broken", "stopped"}
      /\ x = [at |-> a0, item |-> i, kind |-> k, users |-> u, abort |-> b]
  BY <1>2 DEF ReadRecord, Tree!Kinds
<1> HIDE DEF x, a0, k, u, i, b
<1>4. ASSUME NEW a \in {"none", "starting", "opening", "working"}
      PROVE  /\ [x EXCEPT !.at = a] = [at |-> a, item |-> i, kind |-> k, users |-> u, abort |-> b]
             /\ [at |-> a, item |-> i, kind |-> k, users |-> u, abort |-> b] \in ReadRecord
  <2>1. [x EXCEPT !.at = a] = [at |-> a, item |-> i, kind |-> k, users |-> u, abort |-> b]
    <3>1. x = [at |-> a0, item |-> i, kind |-> k, users |-> u, abort |-> b]
      BY <1>3
    <3> QED BY <3>1
  <2>2. [at |-> a, item |-> i, kind |-> k, users |-> u, abort |-> b] \in ReadRecord
    BY <1>3, MakeRead
  <2> QED BY <2>1, <2>2
<1>5. ASSUME NEW a \in {"no", "broken", "stopped"}
      PROVE  /\ [x EXCEPT !.abort = a] = [at |-> a0, item |-> i, kind |-> k, users |-> u, abort |-> a]
             /\ [at |-> a0, item |-> i, kind |-> k, users |-> u, abort |-> a] \in ReadRecord
  <2>1. [x EXCEPT !.abort = a] = [at |-> a0, item |-> i, kind |-> k, users |-> u, abort |-> a]
    <3>1. x = [at |-> a0, item |-> i, kind |-> k, users |-> u, abort |-> b]
      BY <1>3
    <3> QED BY <3>1
  <2>2. [at |-> a0, item |-> i, kind |-> k, users |-> u, abort |-> a] \in ReadRecord
    BY <1>3, MakeRead
  <2> QED BY <2>1, <2>2
<1>6. ASSUME NEW a \in {"none", "starting", "opening", "working"}
      PROVE   /\ [x EXCEPT !.at = a] \in ReadRecord
              /\ [x EXCEPT !.at = a].at = a
              /\ [x EXCEPT !.at = a].item = i
              /\ [x EXCEPT !.at = a].kind = k
              /\ [x EXCEPT !.at = a].users = u
              /\ [x EXCEPT !.at = a].abort = b
  BY <1>4
<1>7. ASSUME NEW a \in {"no", "broken", "stopped"}
      PROVE   /\ [x EXCEPT !.abort = a] \in ReadRecord
              /\ [x EXCEPT !.abort = a].at = a0
              /\ [x EXCEPT !.abort = a].item = i
              /\ [x EXCEPT !.abort = a].kind = k
              /\ [x EXCEPT !.abort = a].users = u
              /\ [x EXCEPT !.abort = a].abort = a
  BY <1>5
<1> QED
  BY <1>1, <1>3, <1>6, <1>7 DEF x, a0, k, u, i, b

\* What the types say of a channel.
LEMMA ChanFields ==
  ASSUME NEW ch, ch \in [Channels -> ChannelRecord]
  PROVE  /\ DOMAIN ch = Channels
         /\ Tree!NoChannel \in ChannelRecord /\ Tree!NoChannel.at = "free" /\ Tree!NoChannel.read = None /\ Tree!NoChannel.disposed = FALSE
         /\ \A h \in Channels : /\ ch[h].at \in {"free", "opening", "leased", "closed", "idle"}
                                /\ ch[h].read \in Reads \cup {None} /\ ch[h].disposed \in BOOLEAN
                                /\ ch[h] = [at |-> ch[h].at, read |-> ch[h].read, disposed |-> ch[h].disposed]
  BY DEF ChannelRecord, Tree!NoChannel

\* A record of these fields is a channel.
LEMMA MakeChannel ==
  ASSUME NEW a \in {"free", "opening", "leased", "closed", "idle"}, NEW r \in Reads \cup {None}, NEW d \in BOOLEAN
  PROVE  [at |-> a, read |-> r, disposed |-> d] \in ChannelRecord
  BY DEF ChannelRecord

\* A channel with other values.
LEMMA ChanWith ==
  ASSUME NEW x, NEW a, NEW r, NEW d, NEW v, NEW w, x = [at |-> a, read |-> r, disposed |-> d]
  PROVE  /\ [x EXCEPT !.at = v] = [at |-> v, read |-> r, disposed |-> d]
         /\ [x EXCEPT !.read = v] = [at |-> a, read |-> v, disposed |-> d]
         /\ [x EXCEPT !.disposed = v] = [at |-> a, read |-> r, disposed |-> v]
         /\ [x EXCEPT !.read = v, !.at = w] = [at |-> w, read |-> v, disposed |-> d]
<1>1. [x EXCEPT !.at = v] = [at |-> v, read |-> r, disposed |-> d]
  OBVIOUS
<1>2. [x EXCEPT !.read = v] = [at |-> a, read |-> v, disposed |-> d]
  OBVIOUS
<1>3. [x EXCEPT !.disposed = v] = [at |-> a, read |-> r, disposed |-> v]
  OBVIOUS
<1>4. [x EXCEPT !.read = v, !.at = w] = [at |-> w, read |-> v, disposed |-> d]
  <2> DEFINE y == [x EXCEPT !.read = v]
  <2>1. [x EXCEPT !.read = v, !.at = w] = [y EXCEPT !.at = w]
    OBVIOUS
  <2>2. y = [at |-> a, read |-> v, disposed |-> d]
    BY <1>2
  <2> HIDE DEF y
  <2>3. [y EXCEPT !.at = w] = [at |-> w, read |-> v, disposed |-> d]
    BY <2>2
  <2> QED BY <2>1, <2>3
<1> QED
  BY <1>1, <1>2, <1>3, <1>4

\* A read has ended, and its channel, if it had one, is not its own any more.
LEMMA ChansFreed ==
  ASSUME NEW rd, NEW rd2, NEW ch, NEW ch2, ChansAgree(rd, ch), NEW r \in Reads,
         \A q \in Reads : rd2[q].at = IF q = r THEN "none" ELSE rd[q].at,
         ch2 \in [Channels -> ChannelRecord], None \notin Reads,
         \A h \in Channels : ch[h].read = r \/ ch[h].read = None => ch2[h].read = None,
         \A h \in Channels : ch[h].read # r /\ ch[h].read # None => ch2[h] = ch[h],
         \A h \in Channels : ch2[h].at \in {"leased", "closed"} => ch2[h].read # None
  PROVE  ChansAgree(rd2, ch2)
<1>1. ch \in [Channels -> ChannelRecord]
  BY DEF ChansAgree
<1>2. \A h \in Channels : ch[h].read \in Reads \cup {None} /\ ch2[h].read \in Reads \cup {None}
  BY <1>1, ChanFields
<1>3. ASSUME NEW q \in Reads, rd2[q].at \in {"opening", "working"} PROVE \E h \in Channels : ch2[h].read = q
  <2>1. q # r /\ rd[q].at \in {"opening", "working"}
    BY <1>3
  <2>2. PICK h \in Channels : ch[h].read = q
    BY <2>1 DEF ChansAgree
  <2>3. ch2[h] = ch[h]
    BY <2>1, <2>2
  <2> QED BY <2>2, <2>3
<1>4. ASSUME NEW h \in Channels, ch2[h].read # None
      PROVE  \/ rd2[ch2[h].read].at = "opening" /\ ch2[h].at = "opening"
             \/ rd2[ch2[h].read].at = "working" /\ ch2[h].at \in {"leased", "closed"}
  <2>1. ch2[h] = ch[h] /\ ch[h].read # r /\ ch[h].read \in Reads /\ ch[h].read # None
    BY <1>2, <1>4
  <2> QED BY <2>1 DEF ChansAgree
<1>5. ASSUME NEW h \in Channels, NEW k \in Channels, ch2[h].read = ch2[k].read /\ ch2[h].read # None
      PROVE  h = k
  <2>1. ch2[h] = ch[h] /\ ch2[k] = ch[k]
    BY <1>5
  <2> QED BY <1>5, <2>1 DEF ChansAgree
<1> QED
  BY <1>3, <1>4, <1>5 DEF ChansAgree

\* Channels that are given up keep to the limit.
LEMMA PoolKeeps ==
  ASSUME NEW ch, NEW ch2, NEW cn, PoolAgrees(ch, cn), IdleOf(ch2) \subseteq IdleOf(ch),
         ~cn => \A h \in Channels : ch2[h].at \notin {"idle", "leased"} /\ (ch2[h].at = "opening" => ch2[h].disposed)
  PROVE  PoolAgrees(ch2, cn)
<1>1. IdleOf(ch) \subseteq Channels /\ IsFiniteSet(Channels) /\ MaxIdle \in Nat
  BY TreeGiven DEF IdleOf
<1>2. IsFiniteSet(IdleOf(ch))
  BY <1>1, FS_Subset
<1>3. Cardinality(IdleOf(ch2)) <= Cardinality(IdleOf(ch)) /\ Cardinality(IdleOf(ch)) \in Nat
      /\ IsFiniteSet(IdleOf(ch2))
  BY <1>2, FS_Subset, FS_CardinalityType
<1>4. Cardinality(IdleOf(ch2)) \in Nat
  BY <1>3, FS_CardinalityType
<1>5. Cardinality(IdleOf(ch2)) <= MaxIdle
  BY <1>1, <1>3, <1>4 DEF PoolAgrees
<1> QED
  BY <1>5 DEF PoolAgrees

\* What every step owes.
TreeGoal == /\ TreeAgrees(snapshots', item', read', caller', {})
            /\ ChansAgree(read', chan') /\ PoolAgrees(chan', conn')

\* What the invariant says, one by one.
LEMMA ChansParts ==
  ASSUME TreeInv
  PROVE  /\ TreeAgrees(snapshots, item, read, caller, {}) /\ ChansAgree(read, chan) /\ PoolAgrees(chan, conn)
         /\ chan \in [Channels -> ChannelRecord] /\ DOMAIN chan = Channels /\ conn \in BOOLEAN
         /\ None \notin Reads /\ DOMAIN read = Reads
         /\ \A r \in Reads : read[r].at \in {"opening", "working"} => \E h \in Channels : chan[h].read = r
         /\ \A h \in Channels : chan[h].read # None =>
              \/ read[chan[h].read].at = "opening" /\ chan[h].at = "opening"
              \/ read[chan[h].read].at = "working" /\ chan[h].at \in {"leased", "closed"}
         /\ \A h, k \in Channels : chan[h].read = chan[k].read /\ chan[h].read # None => h = k
         /\ \A h \in Channels : chan[h].at \in {"leased", "closed"} => chan[h].read # None
         /\ \A h \in Channels : chan[h].read \in Reads \cup {None}
         /\ ~conn => \A h \in Channels : chan[h].at \notin {"idle", "leased"} /\ (chan[h].at = "opening" => chan[h].disposed)
<1>1. TreeAgrees(snapshots, item, read, caller, {}) /\ ChansAgree(read, chan) /\ PoolAgrees(chan, conn)
  BY DEF TreeInv
<1>2. chan \in [Channels -> ChannelRecord]
  BY <1>1 DEF ChansAgree
<1>3. \A h \in Channels : chan[h].read \in Reads \cup {None}
  BY <1>2, ChanFields
<1>4. DOMAIN read = Reads
  BY <1>1 DEF TreeAgrees, TreeTyped
<1>5. None \notin Reads
  BY TreeGiven
<1>6. /\ \A r \in Reads : read[r].at \in {"opening", "working"} => \E h \in Channels : chan[h].read = r
      /\ \A h \in Channels : chan[h].read # None =>
              \/ read[chan[h].read].at = "opening" /\ chan[h].at = "opening"
              \/ read[chan[h].read].at = "working" /\ chan[h].at \in {"leased", "closed"}
      /\ \A h, k \in Channels : chan[h].read = chan[k].read /\ chan[h].read # None => h = k
      /\ \A h \in Channels : chan[h].at \in {"leased", "closed"} => chan[h].read # None
  BY <1>1 DEF ChansAgree
<1>7. conn \in BOOLEAN /\ (~conn => \A h \in Channels : chan[h].at \notin {"idle", "leased"} /\ (chan[h].at = "opening" => chan[h].disposed))
  BY <1>1 DEF PoolAgrees
<1> QED
  BY <1>1, <1>2, <1>3, <1>4, <1>5, <1>6, <1>7

\* A step that only starts reads leaves the channels in agreement.
LEMMA TreeStepKeeps ==
  ASSUME TreeInv, TreeStep
  PROVE  TreeGoal
<1>1. /\ TreeAgrees(snapshots', item', read', caller', {})
      /\ \A q \in Reads : read'[q].at \in {"starting", read[q].at}
                          /\ (read'[q].at # read[q].at => read[q].at = "none")
      /\ chan' = chan /\ conn' = conn
  BY DEF TreeStep
<1>2. ChansAgree(read', chan)
  <2>1. \A q \in Reads : read'[q].at \in {"opening", "working"} <=> read[q].at \in {"opening", "working"}
    BY <1>1
  <2>2. \A q \in Reads : read[q].at \in {"opening", "working"} => read'[q].at = read[q].at
    BY <1>1
  <2> QED
    BY <2>1, <2>2, ChansParts DEF ChansAgree
<1> QED
  BY <1>1, <1>2, ChansParts DEF TreeGoal

\* A read ends and the channels in S are closed, its own among them.
LEMMA EndsAndCloses ==
  ASSUME TreeInv, NEW r \in Reads, read[r].at # "none", NEW ok \in BOOLEAN, NEW also \in BOOLEAN,
         ok => read[r].abort # "stopped", Tree!Settles(r, ok, also),
         NEW S \in SUBSET Channels, chan' = Tree!Closed(S), conn' = conn,
         \A h \in Channels : chan[h].read = r => h \in S,
         \A h \in S : chan[h].read \in {r, None}
  PROVE  TreeGoal /\ NoNewPage
<1>1. /\ TreeAgrees(snapshots', item', read', caller', {})
      /\ \A q \in Reads : read'[q].at = IF q = r THEN "none" ELSE read[q].at
      /\ NoNewPage
  BY ChansParts, SettlesStep
<1>2. \A h \in Channels : chan'[h] = IF h \in S THEN Tree!NoChannel ELSE chan[h]
  BY DEF Tree!Closed
<1>3. chan' \in [Channels -> ChannelRecord]
  <2>1. chan' = [h \in Channels |-> chan'[h]]
    BY DEF Tree!Closed
  <2>2. Tree!NoChannel \in ChannelRecord /\ chan \in [Channels -> ChannelRecord]
    BY ChansParts, ChanFields
  <2>3. \A h \in Channels : chan'[h] \in ChannelRecord
    BY <1>2, <2>2
  <2> QED BY <2>1, <2>3
<1>4. Tree!NoChannel.at = "free" /\ Tree!NoChannel.read = None
  BY DEF Tree!NoChannel
<1>5. ChansAgree(read', chan')
  <2>1. \A h \in Channels : chan[h].read = r \/ chan[h].read = None => chan'[h].read = None
    BY <1>2, <1>4
  <2>2. \A h \in Channels : chan[h].read # r /\ chan[h].read # None => chan'[h] = chan[h]
    BY <1>2
  <2>3. \A h \in Channels : chan'[h].at \in {"leased", "closed"} => chan'[h].read # None
    BY <1>2, <1>4, ChansParts
  <2> QED
    BY <1>1, <1>3, <2>1, <2>2, <2>3, ChansParts, ChansFreed
<1>6. PoolAgrees(chan', conn')
  <2>1. IdleOf(chan') \subseteq IdleOf(chan)
    BY <1>2, <1>4 DEF IdleOf
  <2>2. ~conn => \A h \in Channels : chan'[h].at \notin {"idle", "leased"} /\ (chan'[h].at = "opening" => chan'[h].disposed)
    BY <1>2, <1>4, ChansParts
  <2> QED
    BY <2>1, <2>2, ChansParts, PoolKeeps
<1> QED
  BY <1>1, <1>5, <1>6 DEF TreeGoal

\* A read fails on its channel, or finds another directory.
LEMMA FailsStep ==
  ASSUME TreeInv, NEW r \in Reads, Tree!Fails(r) \/ Tree!PathChanges(r)
  PROVE  TreeGoal /\ NoNewPage
<1>1. read[r].at = "working" /\ chan' = Tree!Closed(Tree!ChannelOf(r)) /\ conn' = conn
      /\ \E also \in BOOLEAN : Tree!Settles(r, FALSE, also)
  BY DEF Tree!Fails, Tree!PathChanges
<1>2. PICK also \in BOOLEAN : Tree!Settles(r, FALSE, also)
  BY <1>1
<1> DEFINE S == Tree!ChannelOf(r)  ok == FALSE
<1>3. S \in SUBSET Channels /\ (\A h \in Channels : chan[h].read = r => h \in S) /\ \A h \in S : chan[h].read \in {r, None}
  BY DEF Tree!ChannelOf
<1>4. ok \in BOOLEAN /\ (ok => read[r].abort # "stopped") /\ Tree!Settles(r, ok, also) /\ chan' = Tree!Closed(S) /\ read[r].at # "none"
  BY <1>1, <1>2
<1> HIDE DEF S, ok
<1> QED
  BY <1>1, <1>3, <1>4, EndsAndCloses

\* A read begins: it takes an idle channel, or opens one.
LEMMA BeginStep ==
  ASSUME TreeInv, NEW r \in Reads, Tree!Begin(r)
  PROVE  TreeGoal /\ NoNewPage
<1>1. read[r].at = "starting" /\ conn' = conn
  BY DEF Tree!Begin
<1>n. \A h \in Channels : chan[h].read # r
  BY <1>1, ChansParts
<1>2. CASE read[r].abort = "stopped" \/ ~conn \/ (Tree!Idle = {} /\ Tree!Unused = {})
  <2>1. Tree!Settles(r, FALSE, FALSE) /\ chan' = chan
    BY <1>2 DEF Tree!Begin
  <2> DEFINE S == {}  ok == FALSE
  <2>2. Tree!Closed(S) = chan
    BY ChansParts DEF Tree!Closed
  <2>3. S \in SUBSET Channels /\ (\A h \in Channels : chan[h].read = r => h \in S) /\ \A h \in S : chan[h].read \in {r, None}
    BY <1>n
  <2>4. ok \in BOOLEAN /\ (ok => read[r].abort # "stopped") /\ Tree!Settles(r, ok, ok) /\ chan' = Tree!Closed(S) /\ read[r].at # "none"
    BY <1>1, <2>1, <2>2
  <2> HIDE DEF S, ok
  <2> QED
    BY <1>1, <2>3, <2>4, EndsAndCloses
<1>3. CASE ~(read[r].abort = "stopped" \/ ~conn \/ (Tree!Idle = {} /\ Tree!Unused = {}))
  <2> DEFINE found == Tree!Idle # {}
             a == IF found THEN "leased" ELSE "opening"
             b == IF found THEN "working" ELSE "opening"
  <2>1. PICK ch \in IF found THEN Tree!Idle ELSE {CHOOSE x \in Tree!Unused : TRUE} :
              /\ chan' = [chan EXCEPT ![ch].read = r, ![ch].at = a]
              /\ read' = [read EXCEPT ![r].at = b]
              /\ UNCHANGED <<snapshots, item, caller>>
    BY <1>3 DEF Tree!Begin
  <2>2. ch \in Channels /\ chan[ch].at = IF found THEN "idle" ELSE "free"
    BY <1>3 DEF Tree!Idle, Tree!Unused
  <2>3. chan[ch].read = None
    BY <2>2, ChansParts
  <2> DEFINE R == [read[r] EXCEPT !.at = b]
             C == [chan[ch] EXCEPT !.read = r, !.at = a]
  <2>4. b \in {"opening", "working"} /\ a \in {"leased", "opening"}
        /\ ((b = "opening" /\ a = "opening") \/ (b = "working" /\ a = "leased"))
    OBVIOUS
  <2>5. read' = [read EXCEPT ![r] = R]
    BY <2>1, ChansParts
  <2>6. R \in ReadRecord /\ R.at = b /\ R.item = read[r].item /\ R.kind = read[r].kind /\ R.users = read[r].users
        /\ R.abort = read[r].abort
    <3>1. b \in {"none", "starting", "opening", "working"} /\ TreeAgrees(snapshots, item, read, caller, {})
      BY <2>4, ChansParts
    <3> HIDE DEF a, b, found
    <3> QED BY <3>1, ReadFields
  <2>7. chan' = [chan EXCEPT ![ch] = C]
    <3>1. DOMAIN chan = Channels
      BY ChansParts
    <3>2. chan' = [chan EXCEPT ![ch].read = r, ![ch].at = a]
      BY <2>1
    <3> HIDE DEF a, b, found
    <3> DEFINE y == [chan[ch] EXCEPT !.read = r]
               f == [chan EXCEPT ![ch] = y]
    <3>3. chan' = [f EXCEPT ![ch] = [f[ch] EXCEPT !.at = a]]
      BY <3>1, <3>2, <2>2
    <3>4. f[ch] = y
      BY <3>1, <2>2
    <3>5. C = [y EXCEPT !.at = a]
      OBVIOUS
    <3>6. chan' = [f EXCEPT ![ch] = C]
      <4> HIDE DEF y, f, C
      <4> QED BY <3>3, <3>4, <3>5
    <3> HIDE DEF C, y
    <3> QED BY <3>1, <3>6, <2>2
  <2>8. C = [at |-> a, read |-> r, disposed |-> chan[ch].disposed] /\ C \in ChannelRecord
    <3> DEFINE x == chan[ch]  d == chan[ch].disposed  a0 == chan[ch].at  r0 == chan[ch].read
    <3>1. x = [at |-> a0, read |-> r0, disposed |-> d] /\ d \in BOOLEAN
      BY <2>2, ChansParts, ChanFields
    <3>2. C = [x EXCEPT !.read = r, !.at = a]
      OBVIOUS
    <3> HIDE DEF x, d, a0, r0, a, b, found, C
    <3>3. C = [at |-> a, read |-> r, disposed |-> d]
      BY <3>1, <3>2, ChanWith
    <3>4. [at |-> a, read |-> r, disposed |-> d] \in ChannelRecord
      BY <2>4, <3>1, MakeChannel
    <3> QED BY <3>3, <3>4 DEF d
  <2> HIDE DEF R, C, a, b, found
  <2>9. C.at = a /\ C.read = r /\ C.disposed = chan[ch].disposed
    BY <2>8
  <2>10. /\ TreeAgrees(snapshots, item, read', caller, {})
         /\ \A q \in Reads : read'[q].at = IF q = r THEN b ELSE read[q].at
    <3> DEFINE rd2 == read'
    <3>1. rd2 = [read EXCEPT ![r] = R] /\ read[r].at # "none" /\ R.at # "none" /\ ((R.abort = "stopped") <=> (read[r].abort = "stopped"))
      BY <1>1, <2>4, <2>5, <2>6
    <3> HIDE DEF rd2
    <3>2. /\ TreeAgrees(snapshots, item, rd2, caller, {})
          /\ \A q \in Reads : rd2[q].at = IF q = r THEN R.at ELSE read[q].at
      BY <2>6, <3>1, ChansParts, RecordAgrees
    <3> QED BY <2>6, <3>2 DEF rd2
  <2>11. chan' \in [Channels -> ChannelRecord] /\ \A h \in Channels : chan'[h] = IF h = ch THEN C ELSE chan[h]
    BY <2>2, <2>7, <2>8, ChansParts
  <2>12. ChansAgree(read', chan')
    <3>1. ASSUME NEW q \in Reads, read'[q].at \in {"opening", "working"} PROVE \E h \in Channels : chan'[h].read = q
      <4>1. CASE q = r
        BY <2>2, <2>9, <2>11, <4>1
      <4>2. CASE q # r
        <5>1. PICK h \in Channels : chan[h].read = q
          BY <2>10, <3>1, <4>2, ChansParts
        <5>2. h # ch
          BY <2>3, <5>1, ChansParts
        <5> QED BY <2>11, <5>1, <5>2
      <4> QED BY <4>1, <4>2
    <3>2. ASSUME NEW h \in Channels, chan'[h].read # None
          PROVE  \/ read'[chan'[h].read].at = "opening" /\ chan'[h].at = "opening"
                 \/ read'[chan'[h].read].at = "working" /\ chan'[h].at \in {"leased", "closed"}
      <4>1. CASE h = ch
        BY <2>4, <2>9, <2>10, <2>11, <4>1
      <4>2. CASE h # ch
        BY <1>n, <2>10, <2>11, <3>2, <4>2, ChansParts
      <4> QED BY <4>1, <4>2
    <3>3. ASSUME NEW h \in Channels, NEW k \in Channels, chan'[h].read = chan'[k].read /\ chan'[h].read # None
          PROVE  h = k
      BY <1>n, <2>9, <2>11, <3>3, ChansParts
    <3>4. \A h \in Channels : chan'[h].at \in {"leased", "closed"} => chan'[h].read # None
      BY <2>9, <2>11, ChansParts
    <3> QED
      BY <2>11, <3>1, <3>2, <3>3, <3>4 DEF ChansAgree
  <2>13. PoolAgrees(chan', conn')
    <3>1. IdleOf(chan') \subseteq IdleOf(chan)
      BY <2>4, <2>9, <2>11 DEF IdleOf
    <3>2. conn
      BY <1>3, ChansParts
    <3> QED
      BY <1>1, <3>1, <3>2, ChansParts, PoolKeeps
  <2>14. NoNewPage
    BY <2>1 DEF NoNewPage
  <2> QED
    BY <2>1, <2>10, <2>12, <2>13, <2>14 DEF TreeGoal
<1> QED
  BY <1>2, <1>3

\* Channels that no read has are closed.
LEMMA UnreadCloses ==
  ASSUME TreeInv, NEW S, \A h \in Channels : h \in S => chan[h].read = None,
         NEW ch2, ch2 = Tree!Closed(S)
  PROVE  ChansAgree(read, ch2) /\ PoolAgrees(ch2, conn)
<1>2. \A h \in Channels : ch2[h] = IF h \in S THEN Tree!NoChannel ELSE chan[h]
  BY DEF Tree!Closed
<1>3. Tree!NoChannel.at = "free" /\ Tree!NoChannel.read = None
  BY DEF Tree!NoChannel
<1>4. ch2 \in [Channels -> ChannelRecord]
  <2>1. ch2 = [h \in Channels |-> ch2[h]]
    BY DEF Tree!Closed
  <2>2. Tree!NoChannel \in ChannelRecord /\ chan \in [Channels -> ChannelRecord]
    BY ChansParts, ChanFields
  <2>3. \A h \in Channels : ch2[h] \in ChannelRecord
    BY <1>2, <2>2
  <2> QED BY <2>1, <2>3
<1>5. \A h \in Channels : ch2[h].read = chan[h].read
  BY <1>2, <1>3
<1>6. \A h \in Channels : chan[h].read # None => ch2[h] = chan[h]
  BY <1>2
<1>7. ChansAgree(read, ch2)
  <2>1. \A q \in Reads : read[q].at \in {"opening", "working"} => \E h \in Channels : ch2[h].read = q
    BY <1>5, ChansParts
  <2>2. ASSUME NEW h \in Channels, ch2[h].read # None
        PROVE  \/ read[ch2[h].read].at = "opening" /\ ch2[h].at = "opening"
               \/ read[ch2[h].read].at = "working" /\ ch2[h].at \in {"leased", "closed"}
    BY <1>5, <1>6, <2>2, ChansParts
  <2>3. \A h, k \in Channels : ch2[h].read = ch2[k].read /\ ch2[h].read # None => h = k
    BY <1>5, ChansParts
  <2>4. \A h \in Channels : ch2[h].at \in {"leased", "closed"} => ch2[h].read # None
    BY <1>2, <1>3, ChansParts
  <2> QED
    BY <1>4, <2>1, <2>2, <2>3, <2>4 DEF ChansAgree
<1>8. PoolAgrees(ch2, conn)
  <2>1. IdleOf(ch2) \subseteq IdleOf(chan)
    BY <1>2, <1>3 DEF IdleOf
  <2>2. ~conn => \A h \in Channels : ch2[h].at \notin {"idle", "leased"} /\ (ch2[h].at = "opening" => ch2[h].disposed)
    BY <1>2, <1>3, ChansParts
  <2> QED
    BY <2>1, <2>2, ChansParts, PoolKeeps
<1> QED
  BY <1>7, <1>8

\* Settled or not: the channel that was opening is closed.
LEMMA LateOpenStep ==
  ASSUME TreeInv, NEW ch \in Channels, chan[ch].at = "opening", chan' = Tree!Closed({ch}), conn' = conn,
         IF chan[ch].read = None THEN UNCHANGED <<snapshots, item, read, caller>> ELSE Tree!Settles(chan[ch].read, FALSE, FALSE)
  PROVE  TreeGoal /\ NoNewPage
<1> DEFINE r == chan[ch].read
           S == {ch}
<1>0. S \in SUBSET Channels /\ chan' = Tree!Closed(S) /\ ch \in S /\ \A h \in S : h = ch
  OBVIOUS
<1>1. CASE r # None
  <2>1. r \in Reads /\ read[r].at = "opening" /\ Tree!Settles(r, FALSE, FALSE)
    BY <1>1, ChansParts
  <2> DEFINE ok == FALSE
  <2>2. ok \in BOOLEAN /\ (ok => read[r].abort # "stopped") /\ Tree!Settles(r, ok, ok) /\ read[r].at # "none"
    BY <2>1
  <2>3. (\A h \in Channels : chan[h].read = r => h \in S) /\ \A h \in S : chan[h].read \in {r, None}
    BY <1>0, <1>1, ChansParts
  <2> HIDE DEF r, S, ok
  <2> QED
    BY <1>0, <2>1, <2>2, <2>3, EndsAndCloses
<1>2. CASE r = None
  <2>1. snapshots' = snapshots /\ item' = item /\ read' = read /\ caller' = caller
    BY <1>2
  <2> DEFINE ch2 == chan'
  <2>2. ch2 = Tree!Closed(S) /\ \A h \in Channels : h \in S => chan[h].read = None
    BY <1>0, <1>2
  <2> HIDE DEF ch2, S, r
  <2>3. ChansAgree(read, ch2) /\ PoolAgrees(ch2, conn)
    BY <2>2, UnreadCloses
  <2>4. ChansAgree(read', chan') /\ PoolAgrees(chan', conn')
    BY <2>1, <2>3 DEF ch2
  <2> QED
    BY <2>1, <2>4, ChansParts DEF TreeGoal, NoNewPage
<1> QED
  BY <1>1, <1>2

\* A channel is open.
LEMMA OpensStep ==
  ASSUME TreeInv, NEW ch \in Channels, Tree!Opens(ch)
  PROVE  TreeGoal /\ NoNewPage
<1> DEFINE r == chan[ch].read
<1>1. chan[ch].at = "opening" /\ conn' = conn
  BY DEF Tree!Opens
<1>2. CASE r = None \/ chan[ch].disposed \/ Tree!Aborting(r)
  <2>1. chan' = Tree!Closed({ch}) /\ IF r = None THEN UNCHANGED <<snapshots, item, read, caller>> ELSE Tree!Settles(r, FALSE, FALSE)
    BY <1>2 DEF Tree!Opens
  <2> QED
    BY <1>1, <2>1, LateOpenStep
<1>3. CASE ~(r = None \/ chan[ch].disposed \/ Tree!Aborting(r))
  <2>1. /\ chan' = [chan EXCEPT ![ch].at = "leased"]
        /\ read' = [read EXCEPT ![r].at = "working"]
        /\ UNCHANGED <<snapshots, item, caller>>
    BY <1>3 DEF Tree!Opens
  <2>2. r \in Reads /\ read[r].at = "opening" /\ conn /\ r # None
    BY <1>1, <1>3, ChansParts
  <2> DEFINE R == [read[r] EXCEPT !.at = "working"]
             C == [chan[ch] EXCEPT !.at = "leased"]
  <2>3. R \in ReadRecord /\ R.at = "working" /\ R.item = read[r].item /\ R.kind = read[r].kind /\ R.users = read[r].users
        /\ R.abort = read[r].abort
    <3> DEFINE b == "working"
    <3>1. b \in {"none", "starting", "opening", "working"} /\ TreeAgrees(snapshots, item, read, caller, {})
          /\ R = [read[r] EXCEPT !.at = b]
      BY ChansParts
    <3>2. r \in Reads
      BY <2>2
    <3> HIDE DEF b, r, R
    <3>3. R.at = b /\ R \in ReadRecord /\ R.item = read[r].item /\ R.kind = read[r].kind /\ R.users = read[r].users
          /\ R.abort = read[r].abort
      BY <3>1, <3>2, ReadFields
    <3> QED BY <3>3 DEF b
  <2>4. C = [at |-> "leased", read |-> r, disposed |-> chan[ch].disposed] /\ C \in ChannelRecord
    <3>1. chan[ch] = [at |-> chan[ch].at, read |-> r, disposed |-> chan[ch].disposed] /\ chan[ch].disposed \in BOOLEAN
      BY ChansParts, ChanFields
    <3> DEFINE d == chan[ch].disposed  x == chan[ch]  rr == r  a0 == chan[ch].at
    <3>2. x = [at |-> a0, read |-> rr, disposed |-> d] /\ C = [x EXCEPT !.at = "leased"] /\ d \in BOOLEAN /\ rr \in Reads \cup {None}
      BY <3>1, <2>2
    <3> HIDE DEF d, x, rr, a0, C, r
    <3>3. C = [at |-> "leased", read |-> rr, disposed |-> d]
      BY <3>2
    <3>4. [at |-> "leased", read |-> rr, disposed |-> d] \in ChannelRecord
      BY <3>2, MakeChannel
    <3> QED BY <3>3, <3>4 DEF d, rr
  <2>5. read' = [read EXCEPT ![r] = R] /\ chan' = [chan EXCEPT ![ch] = C]
    BY <2>1, <2>2, ChansParts
  <2> HIDE DEF R, C
  <2>6. C.at = "leased" /\ C.read = r
    BY <2>4
  <2>7. /\ TreeAgrees(snapshots, item, read', caller, {})
        /\ \A q \in Reads : read'[q].at = IF q = r THEN "working" ELSE read[q].at
    <3> DEFINE rd2 == read'
    <3>1. rd2 = [read EXCEPT ![r] = R] /\ read[r].at # "none" /\ R.at # "none" /\ ((R.abort = "stopped") <=> (read[r].abort = "stopped"))
      BY <2>2, <2>3, <2>5
    <3> HIDE DEF rd2, r
    <3>2. /\ TreeAgrees(snapshots, item, rd2, caller, {})
          /\ \A q \in Reads : rd2[q].at = IF q = r THEN R.at ELSE read[q].at
      BY <2>2, <2>3, <3>1, ChansParts, RecordAgrees
    <3> QED BY <2>3, <3>2 DEF rd2
  <2>8. chan' \in [Channels -> ChannelRecord] /\ \A h \in Channels : chan'[h] = IF h = ch THEN C ELSE chan[h]
    BY <2>4, <2>5, ChansParts
  <2>9. \A h \in Channels : chan'[h].read = chan[h].read
    BY <2>6, <2>8
  <2>10. \A h \in Channels : h # ch => chan[h].read # r
    BY <2>2, ChansParts
  <2>11. ChansAgree(read', chan')
    <3>1. ASSUME NEW q \in Reads, read'[q].at \in {"opening", "working"} PROVE \E h \in Channels : chan'[h].read = q
      BY <2>7, <2>9, <3>1, ChansParts
    <3>2. ASSUME NEW h \in Channels, chan'[h].read # None
          PROVE  \/ read'[chan'[h].read].at = "opening" /\ chan'[h].at = "opening"
                 \/ read'[chan'[h].read].at = "working" /\ chan'[h].at \in {"leased", "closed"}
      <4>1. CASE h = ch
        BY <2>2, <2>6, <2>7, <2>8, <4>1
      <4>2. CASE h # ch
        BY <2>7, <2>8, <2>10, <3>2, <4>2, ChansParts
      <4> QED BY <4>1, <4>2
    <3>3. \A h, k \in Channels : chan'[h].read = chan'[k].read /\ chan'[h].read # None => h = k
      BY <2>9, ChansParts
    <3>4. \A h \in Channels : chan'[h].at \in {"leased", "closed"} => chan'[h].read # None
      BY <2>2, <2>6, <2>8, ChansParts
    <3> QED
      BY <2>8, <3>1, <3>2, <3>3, <3>4 DEF ChansAgree
  <2>12. PoolAgrees(chan', conn')
    <3>1. IdleOf(chan') \subseteq IdleOf(chan)
      BY <2>6, <2>8 DEF IdleOf
    <3> QED
      BY <1>1, <2>2, <3>1, ChansParts, PoolKeeps
  <2> QED
    BY <2>1, <2>7, <2>11, <2>12 DEF TreeGoal, NoNewPage
<1> QED
  BY <1>2, <1>3

\* It cannot be opened.
LEMMA OpenFailsStep ==
  ASSUME TreeInv, NEW ch \in Channels, Tree!OpenFails(ch)
  PROVE  TreeGoal /\ NoNewPage
<1>1. /\ chan[ch].at = "opening" /\ conn' = conn /\ chan' = Tree!Closed({ch})
      /\ IF chan[ch].read = None THEN UNCHANGED <<snapshots, item, read, caller>> ELSE Tree!Settles(chan[ch].read, FALSE, FALSE)
  BY DEF Tree!OpenFails
<1> QED
  BY <1>1, LateOpenStep

\* The record of r becomes R, wanted for the same and by the same.
RecordOf(r, R, rd2) ==
  /\ TreeAgrees(snapshots, item, read, caller, {}) /\ r \in Reads /\ read[r].at # "none"
  /\ R \in ReadRecord /\ R.at # "none" /\ R.item = read[r].item /\ R.kind = read[r].kind /\ R.users = read[r].users
  /\ ((R.abort = "stopped") <=> (read[r].abort = "stopped"))
  /\ rd2 = [read EXCEPT ![r] = R]

\* RecordAgrees, for one definition.
LEMMA RecordOfAgrees ==
  ASSUME NEW r, NEW R, NEW rd2, RecordOf(r, R, rd2)
  PROVE  /\ TreeAgrees(snapshots, item, rd2, caller, {})
         /\ \A q \in Reads : rd2[q].at = IF q = r THEN R.at ELSE read[q].at
<1>1. /\ TreeAgrees(snapshots, item, read, caller, {}) /\ r \in Reads /\ read[r].at # "none"
      /\ R \in ReadRecord /\ R.at # "none" /\ R.item = read[r].item /\ R.kind = read[r].kind /\ R.users = read[r].users
      /\ ((R.abort = "stopped") <=> (read[r].abort = "stopped"))
      /\ rd2 = [read EXCEPT ![r] = R]
  BY DEF RecordOf
<1>2. TreeAgrees(snapshots, item, rd2, caller, {})
  BY <1>1, RecordAgrees
<1>3. \A q \in Reads : rd2[q].at = IF q = r THEN R.at ELSE read[q].at
  <2>1. DOMAIN read = Reads
    BY <1>1 DEF TreeAgrees, TreeTyped
  <2> QED BY <1>1, <2>1
<1> QED BY <1>2, <1>3

\* The record of a read that aborts: nothing but that changes.
LEMMA AbortsStep ==
  ASSUME TreeInv, NEW r \in Reads, read[r].at # "none", read[r].abort # "stopped", NEW a, a \in {"no", "broken"},
         read' = [read EXCEPT ![r].abort = a], UNCHANGED <<snapshots, item, caller>>
  PROVE  /\ TreeAgrees(snapshots', item', read', caller', {}) /\ NoNewPage
         /\ \A q \in Reads : read'[q].at = read[q].at
<1> DEFINE R == [read[r] EXCEPT !.abort = a]
           rd2 == read'
<1>1. a \in {"no", "broken", "stopped"} /\ a # "stopped" /\ TreeAgrees(snapshots, item, read, caller, {})
  BY ChansParts
<1>2. R \in ReadRecord /\ R.at = read[r].at /\ R.item = read[r].item /\ R.kind = read[r].kind /\ R.users = read[r].users
      /\ R.abort = a
  BY <1>1, ReadFields
<1>3. rd2 = [read EXCEPT ![r] = R]
  BY ChansParts
<1>4. R.at # "none" /\ ((R.abort = "stopped") <=> (read[r].abort = "stopped"))
  BY <1>1, <1>2
<1> HIDE DEF R, rd2
<1>4a. read[r].at # "none" /\ R.at # "none" /\ R.item = read[r].item /\ R.kind = read[r].kind /\ R.users = read[r].users
  BY <1>2, <1>4
<1>5. /\ TreeAgrees(snapshots, item, rd2, caller, {})
      /\ \A q \in Reads : rd2[q].at = IF q = r THEN R.at ELSE read[q].at
  <2>1. RecordOf(r, R, rd2)
    BY <1>1, <1>2, <1>3, <1>4, <1>4a DEF RecordOf
  <2> QED
    BY <2>1, RecordOfAgrees
<1> QED
  BY <1>2, <1>5 DEF rd2, NoNewPage

\* The timeout of a read.
LEMMA TimesOutStep ==
  ASSUME TreeInv, NEW r \in Reads, Tree!TimesOut(r)
  PROVE  TreeGoal /\ NoNewPage
<1>1. /\ read[r].at \in {"opening", "working"} /\ read[r].abort = "no"
      /\ read' = [read EXCEPT ![r].abort = "broken"]
      /\ UNCHANGED <<snapshots, item, caller, chan, conn>>
  BY DEF Tree!TimesOut, Tree!Aborting
<1> DEFINE a == "broken"
<1>2. a \in {"no", "broken"} /\ read[r].at # "none" /\ read[r].abort # "stopped" /\ read' = [read EXCEPT ![r].abort = a]
      /\ UNCHANGED <<snapshots, item, caller>>
  BY <1>1
<1> HIDE DEF a
<1>3. /\ TreeAgrees(snapshots', item', read', caller', {}) /\ NoNewPage
      /\ \A q \in Reads : read'[q].at = read[q].at
  BY <1>2, AbortsStep
<1>4. TreeStep
  BY <1>1, <1>3 DEF TreeStep
<1> QED
  BY <1>3, <1>4, TreeStepKeeps

\* The reads that a server's loss, a cancellation or a change aborts keep their
\* channels.
LEMMA AtAgrees ==
  ASSUME NEW rd, NEW rd2, NEW ch, ChansAgree(rd, ch), \A q \in Reads : rd2[q].at = rd[q].at
  PROVE  ChansAgree(rd2, ch)
<1>1. /\ ch \in [Channels -> ChannelRecord]
      /\ \A r \in Reads : rd[r].at \in {"opening", "working"} => \E h \in Channels : ch[h].read = r
      /\ \A h \in Channels : ch[h].read # None =>
           \/ rd[ch[h].read].at = "opening" /\ ch[h].at = "opening"
           \/ rd[ch[h].read].at = "working" /\ ch[h].at \in {"leased", "closed"}
      /\ \A h, k \in Channels : ch[h].read = ch[k].read /\ ch[h].read # None => h = k
      /\ \A h \in Channels : ch[h].at \in {"leased", "closed"} => ch[h].read # None
  BY DEF ChansAgree
<1>2. \A h \in Channels : ch[h].read \in Reads \cup {None}
  BY <1>1, ChanFields
<1>3. \A r \in Reads : rd2[r].at \in {"opening", "working"} => \E h \in Channels : ch[h].read = r
  BY <1>1
<1>4. ASSUME NEW h \in Channels, ch[h].read # None
      PROVE  \/ rd2[ch[h].read].at = "opening" /\ ch[h].at = "opening"
             \/ rd2[ch[h].read].at = "working" /\ ch[h].at \in {"leased", "closed"}
  BY <1>1, <1>2, <1>4
<1> QED
  BY <1>1, <1>3, <1>4 DEF ChansAgree

\* Callers that go leave the channels alone.
LEMMA GoneKeeps ==
  ASSUME TreeInv, NEW S \in SUBSET Callers, NEW forgotten \in SUBSET Tree!Current, Tree!Gone(S, forgotten), UNCHANGED <<chan, conn>>
  PROVE  TreeGoal /\ NoNewPage
<1>1. /\ TreeAgrees(snapshots', item', read', caller', {})
      /\ \A q \in Reads : read'[q].at = read[q].at
      /\ NoNewPage
  BY GoneStep, ChansParts
<1> DEFINE rd2 == read'
<1>2. \A q \in Reads : rd2[q].at = read[q].at
  BY <1>1
<1> HIDE DEF rd2
<1>3. ChansAgree(rd2, chan)
  BY <1>2, AtAgrees, ChansParts
<1>4. ChansAgree(read', chan') /\ PoolAgrees(chan', conn')
  BY <1>3, ChansParts DEF rd2
<1> QED
  BY <1>1, <1>4 DEF TreeGoal

\* cancel.
LEMMA CancelStep ==
  ASSUME TreeInv, NEW c \in Callers, Tree!Cancel(c)
  PROVE  TreeGoal /\ NoNewPage
<1> DEFINE S == {c}  forgotten == {}
<1>1. Tree!Gone(S, forgotten) /\ UNCHANGED <<chan, conn>> /\ S \in SUBSET Callers /\ forgotten \in SUBSET Tree!Current
  BY DEF Tree!Cancel
<1> HIDE DEF S, forgotten
<1> QED
  BY <1>1, GoneKeeps

\* The scope of the window closes.
LEMMA ScopeStep ==
  ASSUME TreeInv, Tree!ScopeCloses
  PROVE  TreeGoal /\ NoNewPage
<1> DEFINE S == {c \in Callers : caller[c].at # "page"}  forgotten == Tree!Current
<1>1. Tree!Gone(S, forgotten) /\ UNCHANGED <<chan, conn>> /\ S \in SUBSET Callers /\ forgotten \in SUBSET Tree!Current
  BY DEF Tree!ScopeCloses, Tree!Interrupted
<1> HIDE DEF S, forgotten
<1> QED
  BY <1>1, GoneKeeps

\* The connection is lost.
LEMMA LostStep ==
  ASSUME TreeInv, Tree!Lost
  PROVE  TreeGoal /\ NoNewPage
<1> DEFINE S == {c \in Callers : caller[c].at # "page"}  forgotten == Tree!Current
<1>1. Tree!Gone(S, forgotten) /\ S \in SUBSET Callers /\ forgotten \in SUBSET Tree!Current /\ conn' = FALSE
  BY DEF Tree!Lost, Tree!Interrupted
<1>2. /\ TreeAgrees(snapshots', item', read', caller', {})
      /\ \A q \in Reads : read'[q].at = read[q].at
      /\ NoNewPage
  <2> HIDE DEF S, forgotten
  <2> QED BY <1>1, GoneStep, ChansParts
<1>3. /\ chan' = [h \in Channels |-> chan'[h]]
      /\ \A h \in Channels :
           /\ chan[h].at = "idle" => chan'[h] = Tree!NoChannel
           /\ chan[h].at = "leased" => chan'[h] = [chan[h] EXCEPT !.at = "closed"]
           /\ chan[h].at = "opening" => chan'[h] = [chan[h] EXCEPT !.disposed = TRUE]
           /\ chan[h].at \notin {"idle", "leased", "opening"} => chan'[h] = chan[h]
  BY DEF Tree!Lost
<1>4. Tree!NoChannel.at = "free" /\ Tree!NoChannel.read = None /\ Tree!NoChannel \in ChannelRecord
  BY ChansParts, ChanFields
<1>5. ASSUME NEW h \in Channels
      PROVE  /\ chan'[h] \in ChannelRecord /\ chan'[h].read = chan[h].read
             /\ chan[h].at = "opening" => chan'[h].at = "opening" /\ chan'[h].disposed
             /\ chan[h].at = "leased" => chan'[h].at = "closed"
             /\ chan[h].at \in {"closed", "free"} => chan'[h].at = chan[h].at
             /\ chan[h].at = "idle" => chan'[h].at = "free"
  <2> DEFINE x == chan[h]  a == chan[h].at  r == chan[h].read  d == chan[h].disposed  tt == TRUE
  <2>1. /\ x = [at |-> a, read |-> r, disposed |-> d] /\ d \in BOOLEAN /\ r \in Reads \cup {None} /\ x \in ChannelRecord
        /\ a \in {"free", "opening", "leased", "closed", "idle"}
    <3>1. chan \in [Channels -> ChannelRecord]
      BY ChansParts
    <3>2. chan[h] \in ChannelRecord
      BY <3>1
    <3> QED BY <3>1, <3>2, ChanFields
  <2>2. CASE a = "idle"
    <3>1. r = None
      BY <2>2, ChansParts
    <3> QED BY <1>3, <1>4, <2>2, <3>1
  <2>3. CASE a = "leased"
    <3> DEFINE y == [x EXCEPT !.at = "closed"]
    <3>1. chan'[h] = y
      BY <1>3, <2>3
    <3>2. y = [at |-> "closed", read |-> r, disposed |-> d] /\ y \in ChannelRecord
      <4> DEFINE cc == "closed"
      <4>1. cc \in {"free", "opening", "leased", "closed", "idle"} /\ y = [x EXCEPT !.at = cc]
        OBVIOUS
      <4> HIDE DEF x, a, r, d, y, cc
      <4>2. y = [at |-> cc, read |-> r, disposed |-> d]
        BY <2>1, <4>1
      <4>3. [at |-> cc, read |-> r, disposed |-> d] \in ChannelRecord
        BY <2>1, <4>1, MakeChannel
      <4> QED BY <4>2, <4>3 DEF cc
    <3> HIDE DEF y
    <3>3. y.at = "closed" /\ y.read = r
      BY <3>2
    <3> QED BY <2>3, <3>1, <3>2, <3>3
  <2>4. CASE a = "opening"
    <3> DEFINE y == [x EXCEPT !.disposed = tt]
    <3>1. chan'[h] = y
      BY <1>3, <2>4
    <3>2. y = [at |-> a, read |-> r, disposed |-> tt] /\ y \in ChannelRecord
      <4>1. tt \in BOOLEAN /\ y = [x EXCEPT !.disposed = tt]
        OBVIOUS
      <4> HIDE DEF x, a, r, d, tt, y
      <4>2. y = [at |-> a, read |-> r, disposed |-> tt]
        BY <2>1, <4>1
      <4>3. [at |-> a, read |-> r, disposed |-> tt] \in ChannelRecord
        BY <2>1, <4>1, MakeChannel
      <4> QED BY <4>2, <4>3
    <3> HIDE DEF y, tt
    <3>3. y.at = a /\ y.read = r /\ y.disposed = tt
      BY <3>2
    <3>4. tt
      BY DEF tt
    <3> QED BY <2>4, <3>1, <3>2, <3>3, <3>4
  <2>5. CASE a \in {"closed", "free"}
    <3>1. chan'[h] = x
      BY <1>3, <2>5
    <3> QED BY <2>1, <2>5, <3>1
  <2> QED
    BY <2>1, <2>2, <2>3, <2>4, <2>5
<1>6. chan' \in [Channels -> ChannelRecord]
  BY <1>3, <1>5
<1>7. ChansAgree(read', chan')
  <2>1. \A r \in Reads : read'[r].at \in {"opening", "working"} => \E h \in Channels : chan'[h].read = r
    BY <1>2, <1>5, ChansParts
  <2>2. ASSUME NEW h \in Channels, chan'[h].read # None
        PROVE  \/ read'[chan'[h].read].at = "opening" /\ chan'[h].at = "opening"
               \/ read'[chan'[h].read].at = "working" /\ chan'[h].at \in {"leased", "closed"}
    <3>1. /\ chan'[h].read = chan[h].read /\ chan[h].read \in Reads /\ read'[chan[h].read].at = read[chan[h].read].at
          /\ \/ read[chan[h].read].at = "opening" /\ chan[h].at = "opening"
             \/ read[chan[h].read].at = "working" /\ chan[h].at \in {"leased", "closed"}
      BY <1>2, <1>5, <2>2, ChansParts
    <3>2. CASE chan[h].at = "opening"
      BY <1>5, <3>1, <3>2
    <3>3. CASE chan[h].at = "leased"
      BY <1>5, <3>1, <3>3
    <3>4. CASE chan[h].at = "closed"
      BY <1>5, <3>1, <3>4
    <3> QED BY <3>1, <3>2, <3>3, <3>4
  <2>3. \A h, k \in Channels : chan'[h].read = chan'[k].read /\ chan'[h].read # None => h = k
    BY <1>5, ChansParts
  <2>4. ASSUME NEW h \in Channels, chan'[h].at \in {"leased", "closed"} PROVE chan'[h].read # None
    <3>1. chan[h].at \in {"free", "opening", "leased", "closed", "idle"}
      BY ChansParts, ChanFields
    <3>2. chan[h].at \in {"leased", "closed"}
      BY <1>5, <2>4, <3>1
    <3> QED BY <1>5, <3>2, ChansParts
  <2> QED
    BY <1>6, <2>1, <2>2, <2>3, <2>4 DEF ChansAgree
<1>8. PoolAgrees(chan', conn')
  <2>1. \A h \in Channels : chan'[h].at \notin {"idle", "leased"} /\ (chan'[h].at = "opening" => chan'[h].disposed)
    <3> SUFFICES ASSUME NEW h \in Channels
                 PROVE  chan'[h].at \notin {"idle", "leased"} /\ (chan'[h].at = "opening" => chan'[h].disposed)
      OBVIOUS
    <3>1. chan[h].at \in {"free", "opening", "leased", "closed", "idle"}
      BY ChansParts, ChanFields
    <3> QED BY <1>5, <3>1
  <2>2. IdleOf(chan') = {}
    BY <2>1 DEF IdleOf
  <2>3. Cardinality(IdleOf(chan')) <= MaxIdle
    <3>1. Cardinality(IdleOf(chan')) = 0
      BY <2>2, FS_EmptySet
    <3>2. MaxIdle \in Nat
      BY TreeGiven
    <3> QED BY <3>1, <3>2
  <2>4. conn' \in BOOLEAN
    BY <1>1
  <2> QED
    BY <2>1, <2>3, <2>4 DEF PoolAgrees
<1> QED
  BY <1>2, <1>7, <1>8 DEF TreeGoal

\* It is there again.
LEMMA ConnectsStep ==
  ASSUME TreeInv, Tree!Connects
  PROVE  TreeGoal /\ NoNewPage
<1>1. conn' = TRUE /\ UNCHANGED <<snapshots, item, read, caller, chan>>
  BY DEF Tree!Connects
<1>2. PoolAgrees(chan', conn')
  BY <1>1, ChansParts DEF PoolAgrees
<1> QED
  BY <1>1, <1>2, ChansParts DEF TreeGoal, NoNewPage

\* A change on the server clears every snapshot.
LEMMA ChangesStep ==
  ASSUME TreeInv, Tree!Changes
  PROVE  TreeGoal /\ NoNewPage
<1> DEFINE S == Tree!Current
<1>1. Tree!Becomes(S, snapshots, item, read, caller) /\ UNCHANGED <<chan, conn>>
  BY DEF Tree!Changes
<1>2. S \in SUBSET Paths
  BY ChansParts, Parts DEF Tree!Current
<1> HIDE DEF S
<1>3. TreeAgrees(snapshots, item, read, caller, S)
  BY ChansParts, WidenAgrees
<1>4. /\ TreeAgrees(snapshots', item', read', caller', {})
      /\ \A q \in Reads : read'[q].at = read[q].at
      /\ \A c \in Callers : caller'[c].at = caller[c].at
  BY <1>1, <1>2, <1>3, BecomesAgrees
<1> DEFINE rd2 == read'
<1>5. \A q \in Reads : rd2[q].at = read[q].at
  BY <1>4
<1> HIDE DEF rd2
<1>6. ChansAgree(rd2, chan)
  BY <1>5, AtAgrees, ChansParts
<1>7. ChansAgree(read', chan') /\ PoolAgrees(chan', conn')
  BY <1>1, <1>6, ChansParts DEF rd2
<1> QED
  BY <1>4, <1>7 DEF TreeGoal, NoNewPage

\* A read succeeds, and its channel is kept or closed.
LEMMA SucceedsStep ==
  ASSUME TreeInv, NEW r \in Reads, Tree!Succeeds(r)
  PROVE  TreeGoal /\ NoNewPage
<1>1. read[r].at = "working" /\ read[r].abort = "no" /\ Tree!Settles(r, TRUE, FALSE) /\ conn' = conn
  BY DEF Tree!Succeeds, Tree!Aborting
<1>2. PICK ch \in Tree!ChannelOf(r) :
       chan' = IF chan[ch].at = "closed" \/ MaxIdle = 0 THEN Tree!Closed({ch})
               ELSE [x \in Channels |-> IF x = ch THEN [Tree!NoChannel EXCEPT !.at = "idle"]
                                        ELSE IF x \in Tree!Idle /\ Cardinality(Tree!Idle) >= MaxIdle THEN Tree!NoChannel
                                        ELSE chan[x]]
  BY TreeSizes DEF Tree!Succeeds
<1>3. ch \in Channels /\ chan[ch].read = r /\ chan[ch].at \in {"leased", "closed"}
      /\ \A h \in Channels : chan[h].read = r => h = ch
  BY <1>1, ChansParts DEF Tree!ChannelOf
<1> DEFINE ok == TRUE  no == FALSE
<1>4. ok \in BOOLEAN /\ no \in BOOLEAN /\ (ok => read[r].abort # "stopped") /\ Tree!Settles(r, ok, no) /\ read[r].at # "none"
  BY <1>1
<1> HIDE DEF ok, no
<1>5. CASE chan[ch].at = "closed" \/ MaxIdle = 0
  <2> DEFINE S == {ch}
  <2>1. S \in SUBSET Channels /\ chan' = Tree!Closed(S) /\ (\A h \in Channels : chan[h].read = r => h \in S)
        /\ \A h \in S : chan[h].read \in {r, None}
    BY <1>2, <1>3, <1>5
  <2> HIDE DEF S
  <2> QED
    BY <1>1, <1>4, <2>1, EndsAndCloses
<1>6. CASE ~(chan[ch].at = "closed" \/ MaxIdle = 0)
  <2>1. /\ TreeAgrees(snapshots', item', read', caller', {})
        /\ \A q \in Reads : read'[q].at = IF q = r THEN "none" ELSE read[q].at
        /\ NoNewPage
    BY <1>4, ChansParts, SettlesStep
  <2> DEFINE I == [Tree!NoChannel EXCEPT !.at = "idle"]
             full == Cardinality(Tree!Idle) >= MaxIdle
             ch2 == chan'
  <2>2. ch2 = [x \in Channels |-> IF x = ch THEN I ELSE IF x \in Tree!Idle /\ full THEN Tree!NoChannel ELSE chan[x]]
    BY <1>2, <1>6
  <2>3. I \in ChannelRecord /\ I.at = "idle" /\ I.read = None
    BY DEF Tree!NoChannel, ChannelRecord
  <2> HIDE DEF I, full, ch2
  <2>4. \A h \in Channels : ch2[h] = IF h = ch THEN I ELSE IF h \in Tree!Idle /\ full THEN Tree!NoChannel ELSE chan[h]
    BY <2>2
  <2>5. Tree!NoChannel \in ChannelRecord /\ Tree!NoChannel.at = "free" /\ Tree!NoChannel.read = None
    BY ChansParts, ChanFields
  <2>6. ch2 \in [Channels -> ChannelRecord]
    <3>1. \A h \in Channels : chan[h] \in ChannelRecord
      BY ChansParts
    <3>2. \A h \in Channels : ch2[h] \in ChannelRecord
      BY <2>3, <2>4, <2>5, <3>1
    <3> QED BY <2>2, <3>2
  <2>7. \A h \in Tree!Idle : h \in Channels /\ chan[h].at = "idle" /\ chan[h].read = None /\ h # ch
    BY <1>3, ChansParts DEF Tree!Idle
  <2>8. ChansAgree(read', ch2)
    <3>1. \A h \in Channels : chan[h].read = r \/ chan[h].read = None => ch2[h].read = None
      BY <1>3, <2>3, <2>4, <2>5
    <3>2. \A h \in Channels : chan[h].read # r /\ chan[h].read # None => ch2[h] = chan[h]
      BY <1>3, <2>4, <2>7
    <3>3. \A h \in Channels : ch2[h].at \in {"leased", "closed"} => ch2[h].read # None
      BY <2>3, <2>4, <2>5, ChansParts
    <3> QED
      BY <2>1, <2>6, <3>1, <3>2, <3>3, ChansParts, ChansFreed
  <2>9. conn
    BY <1>3, <1>6, ChansParts
  <2>10. Cardinality(IdleOf(ch2)) <= MaxIdle
    <3>1. MaxIdle \in Nat /\ IsFiniteSet(Channels) /\ MaxIdle # 0
      BY <1>6, TreeGiven
    <3>2. Tree!Idle \subseteq Channels /\ ch \notin Tree!Idle
      BY <2>7
    <3>3. IsFiniteSet(Tree!Idle) /\ Cardinality(Tree!Idle) \in Nat
      BY <3>1, <3>2, FS_Subset, FS_CardinalityType
    <3>4. CASE full
      <4>1. IdleOf(ch2) = {ch}
        BY <1>3, <2>3, <2>4, <2>5, <3>4 DEF IdleOf, Tree!Idle
      <4>2. Cardinality({ch}) = 1
        BY FS_Singleton
      <4> QED BY <3>1, <4>1, <4>2
    <3>5. CASE ~full
      <4>1. IdleOf(ch2) = Tree!Idle \cup {ch}
        BY <1>3, <2>3, <2>4, <2>5, <3>5 DEF IdleOf, Tree!Idle
      <4>2. Cardinality(Tree!Idle \cup {ch}) = Cardinality(Tree!Idle) + 1
        BY <3>2, <3>3, FS_AddElement
      <4> QED BY <3>1, <3>3, <3>5, <4>1, <4>2 DEF full
    <3> QED BY <3>4, <3>5
  <2>11. PoolAgrees(ch2, conn)
    BY <2>9, <2>10, ChansParts DEF PoolAgrees
  <2>12. ChansAgree(read', chan') /\ PoolAgrees(chan', conn')
    BY <1>1, <2>8, <2>11 DEF ch2
  <2> QED
    BY <2>1, <2>12 DEF TreeGoal
<1> QED
  BY <1>5, <1>6

\* An aborted read is ended by force.
LEMMA ForceEndStep ==
  ASSUME TreeInv, NEW r \in Reads, Tree!ForceEnd(r)
  PROVE  TreeGoal /\ NoNewPage
<1>1. read[r].at \in {"opening", "working"} /\ Tree!Settles(r, FALSE, FALSE) /\ conn' = conn
      /\ chan' = IF read[r].at = "working" THEN Tree!Closed(Tree!ChannelOf(r))
                 ELSE [h \in Channels |-> IF chan[h].read = r THEN [chan[h] EXCEPT !.read = None] ELSE chan[h]]
  BY DEF Tree!ForceEnd
<1> DEFINE ok == FALSE
<1>2. ok \in BOOLEAN /\ (ok => read[r].abort # "stopped") /\ Tree!Settles(r, ok, ok) /\ read[r].at # "none"
  BY <1>1
<1> HIDE DEF ok
<1>3. CASE read[r].at = "working"
  <2> DEFINE S == Tree!ChannelOf(r)
  <2>1. S \in SUBSET Channels /\ chan' = Tree!Closed(S) /\ (\A h \in Channels : chan[h].read = r => h \in S)
        /\ \A h \in S : chan[h].read \in {r, None}
    BY <1>1, <1>3 DEF Tree!ChannelOf
  <2> HIDE DEF S
  <2> QED
    BY <1>1, <1>2, <2>1, EndsAndCloses
<1>4. CASE read[r].at = "opening"
  <2>1. /\ TreeAgrees(snapshots', item', read', caller', {})
        /\ \A q \in Reads : read'[q].at = IF q = r THEN "none" ELSE read[q].at
        /\ NoNewPage
    BY <1>2, ChansParts, SettlesStep
  <2> DEFINE ch2 == chan'
  <2>2. ch2 = [h \in Channels |-> IF chan[h].read = r THEN [chan[h] EXCEPT !.read = None] ELSE chan[h]]
    BY <1>1, <1>4
  <2>3. \A h \in Channels : chan[h].read = r => chan[h].at = "opening"
    BY <1>4, ChansParts
  <2> HIDE DEF ch2
  <2>4. ASSUME NEW h \in Channels
        PROVE  /\ ch2[h] \in ChannelRecord /\ ch2[h].at = chan[h].at /\ ch2[h].disposed = chan[h].disposed
               /\ chan[h].read = r => ch2[h].read = None
               /\ chan[h].read # r => ch2[h] = chan[h]
    <3> DEFINE x == chan[h]  a == chan[h].at  q == chan[h].read  d == chan[h].disposed
               y == [x EXCEPT !.read = None]
    <3>1. /\ x = [at |-> a, read |-> q, disposed |-> d] /\ d \in BOOLEAN /\ x \in ChannelRecord
          /\ a \in {"free", "opening", "leased", "closed", "idle"}
      <4>1. chan \in [Channels -> ChannelRecord]
        BY ChansParts
      <4>2. chan[h] \in ChannelRecord
        BY <4>1
      <4> QED BY <4>1, <4>2, ChanFields
    <3>2. ch2[h] = IF q = r THEN y ELSE x
      BY <2>2
    <3>3. y = [at |-> a, read |-> None, disposed |-> d]
      <4> HIDE DEF x, a, q, d
      <4> QED BY <3>1
    <3>4. [at |-> a, read |-> None, disposed |-> d] \in ChannelRecord
      <4> HIDE DEF x, a, q, d
      <4> QED BY <3>1, MakeChannel
    <3> HIDE DEF y
    <3> QED BY <3>1, <3>2, <3>3, <3>4
  <2>5. ch2 \in [Channels -> ChannelRecord]
    BY <2>2, <2>4
  <2>6. ChansAgree(read', ch2)
    <3>1. \A h \in Channels : chan[h].read = r \/ chan[h].read = None => ch2[h].read = None
      BY <2>4
    <3>2. \A h \in Channels : chan[h].read # r /\ chan[h].read # None => ch2[h] = chan[h]
      BY <2>4
    <3>3. ASSUME NEW h \in Channels, ch2[h].at \in {"leased", "closed"} PROVE ch2[h].read # None
      <4>1. chan[h].at \in {"leased", "closed"}
        BY <2>4, <3>3
      <4>2. chan[h].read # None /\ chan[h].read # r
        BY <2>3, <4>1, ChansParts
      <4> QED BY <2>4, <4>2
    <3> QED
      BY <2>1, <2>5, <3>1, <3>2, <3>3, ChansParts, ChansFreed
  <2>7. PoolAgrees(ch2, conn)
    <3>1. IdleOf(ch2) \subseteq IdleOf(chan)
      BY <2>4 DEF IdleOf
    <3>2. ~conn => \A h \in Channels : ch2[h].at \notin {"idle", "leased"} /\ (ch2[h].at = "opening" => ch2[h].disposed)
      BY <2>4, ChansParts
    <3> QED
      BY <3>1, <3>2, ChansParts, PoolKeeps
  <2>8. ChansAgree(read', chan') /\ PoolAgrees(chan', conn')
    BY <1>1, <2>6, <2>7 DEF ch2
  <2> QED
    BY <2>1, <2>8 DEF TreeGoal
<1> QED
  BY <1>1, <1>3, <1>4

\* A channel closes by itself.
LEMMA ClosesStep ==
  ASSUME TreeInv, NEW ch \in Channels, Tree!ChannelCloses(ch)
  PROVE  TreeGoal /\ NoNewPage
<1>1. chan[ch].at \in {"leased", "closed", "idle"} /\ UNCHANGED <<snapshots, item, caller, conn>>
  BY DEF Tree!ChannelCloses
<1>2. CASE chan[ch].at = "idle"
  <2> DEFINE ch2 == chan'  S == {ch}
  <2>1. ch2 = Tree!Closed(S) /\ read' = read
    BY <1>2 DEF Tree!ChannelCloses
  <2>2. \A h \in Channels : h \in S => chan[h].read = None
    BY <1>2, ChansParts
  <2> HIDE DEF ch2, S
  <2>3. ChansAgree(read, ch2) /\ PoolAgrees(ch2, conn)
    BY <2>1, <2>2, UnreadCloses
  <2>4. ChansAgree(read', chan') /\ PoolAgrees(chan', conn')
    BY <1>1, <2>1, <2>3 DEF ch2
  <2> QED
    BY <1>1, <2>1, <2>4, ChansParts DEF TreeGoal, NoNewPage
<1>3. CASE chan[ch].at # "idle"
  <2> DEFINE r == chan[ch].read  C == [chan[ch] EXCEPT !.at = "closed"]  ch2 == chan'
  <2>1. r \in Reads /\ read[r].at = "working" /\ r # None
    BY <1>1, <1>3, ChansParts
  <2>2. ch2 = [chan EXCEPT ![ch] = C] /\ read' = [read EXCEPT ![r].abort = IF @ = "no" THEN "broken" ELSE @]
    BY <1>3 DEF Tree!ChannelCloses
  <2>3. /\ TreeAgrees(snapshots', item', read', caller', {}) /\ NoNewPage
        /\ \A q \in Reads : read'[q].at = read[q].at
    <3>1. read[r].abort \in {"no", "broken", "stopped"}
      BY <2>1, ReadFields, ChansParts
    <3>2. CASE read[r].abort = "stopped"
      <4>1. read' = read
        <5> DEFINE R == [read[r] EXCEPT !.abort = IF @ = "no" THEN "broken" ELSE @]
        <5>1. read' = [read EXCEPT ![r] = R]
          BY <2>2, <2>1, ChansParts
        <5>2. read \in [Reads -> ReadRecord]
          BY ChansParts DEF TreeAgrees, TreeTyped
        <5>3. read[r] \in ReadRecord
          BY <2>1, <5>2
        <5>4. R = read[r]
          BY <3>2, <5>3 DEF ReadRecord
        <5> HIDE DEF R, r
        <5> QED BY <5>1, <5>2, <5>4
      <4> QED BY <1>1, <4>1, ChansParts DEF NoNewPage
    <3>3. CASE read[r].abort # "stopped"
      <4> DEFINE a == "broken"
      <4>1. a \in {"no", "broken"} /\ read[r].at # "none" /\ read' = [read EXCEPT ![r].abort = a]
        BY <2>1, <2>2, <3>1, <3>3
      <4> HIDE DEF a, r
      <4> QED BY <1>1, <2>1, <3>3, <4>1, AbortsStep
    <3> QED BY <3>2, <3>3
  <2>4. C = [at |-> "closed", read |-> r, disposed |-> chan[ch].disposed] /\ C \in ChannelRecord
    <3>1. chan[ch] = [at |-> chan[ch].at, read |-> r, disposed |-> chan[ch].disposed] /\ chan[ch].disposed \in BOOLEAN
      BY ChansParts, ChanFields
    <3> DEFINE d == chan[ch].disposed  x == chan[ch]  rr == r  a0 == chan[ch].at  cc == "closed"
    <3>2. x = [at |-> a0, read |-> rr, disposed |-> d] /\ C = [x EXCEPT !.at = cc] /\ d \in BOOLEAN /\ rr \in Reads \cup {None}
          /\ cc \in {"free", "opening", "leased", "closed", "idle"}
      BY <2>1, <3>1
    <3> HIDE DEF d, x, rr, a0, C, r, cc
    <3>3. C = [at |-> cc, read |-> rr, disposed |-> d]
      BY <3>2
    <3>4. [at |-> cc, read |-> rr, disposed |-> d] \in ChannelRecord
      BY <3>2, MakeChannel
    <3> QED BY <3>3, <3>4 DEF d, rr, cc
  <2> HIDE DEF C, ch2
  <2>5. C.at = "closed" /\ C.read = r
    BY <2>4
  <2>6. ch2 \in [Channels -> ChannelRecord] /\ \A h \in Channels : ch2[h] = IF h = ch THEN C ELSE chan[h]
    BY <2>2, <2>4, ChansParts
  <2>7. \A h \in Channels : ch2[h].read = chan[h].read
    BY <2>5, <2>6
  <2>8. \A h \in Channels : ch2[h].at # chan[h].at => chan[h].at \in {"leased", "closed"} /\ ch2[h].at = "closed"
    BY <1>1, <1>3, <2>5, <2>6
  <2> HIDE DEF r
  <2>9. ChansAgree(read, ch2)
    <3>1. \A q \in Reads : read[q].at \in {"opening", "working"} => \E h \in Channels : ch2[h].read = q
      BY <2>7, ChansParts
    <3>2. ASSUME NEW h \in Channels, ch2[h].read # None
          PROVE  \/ read[ch2[h].read].at = "opening" /\ ch2[h].at = "opening"
                 \/ read[ch2[h].read].at = "working" /\ ch2[h].at \in {"leased", "closed"}
      BY <2>7, <2>8, <3>2, ChansParts
    <3>3. \A h, k \in Channels : ch2[h].read = ch2[k].read /\ ch2[h].read # None => h = k
      BY <2>7, ChansParts
    <3>4. \A h \in Channels : ch2[h].at \in {"leased", "closed"} => ch2[h].read # None
      BY <2>7, <2>8, ChansParts
    <3> QED
      BY <2>6, <3>1, <3>2, <3>3, <3>4 DEF ChansAgree
  <2>10. PoolAgrees(ch2, conn)
    <3>1. IdleOf(ch2) \subseteq IdleOf(chan)
      BY <2>8 DEF IdleOf
    <3>2. ~conn => \A h \in Channels : ch2[h].at \notin {"idle", "leased"} /\ (ch2[h].at = "opening" => ch2[h].disposed)
      BY <2>5, <2>6, ChansParts
    <3> QED
      BY <3>1, <3>2, ChansParts, PoolKeeps
  <2>11. ChansAgree(read', ch2)
    <3> DEFINE rd2 == read'
    <3>1. \A q \in Reads : rd2[q].at = read[q].at
      BY <2>3
    <3> HIDE DEF rd2
    <3>2. ChansAgree(rd2, ch2)
      BY <2>9, <3>1, AtAgrees
    <3> QED BY <3>2 DEF rd2
  <2>12. ChansAgree(read', chan') /\ PoolAgrees(chan', conn')
    BY <1>1, <2>10, <2>11 DEF ch2
  <2> QED
    BY <2>3, <2>12 DEF TreeGoal
<1> QED
  BY <1>2, <1>3

\* The invariant holds at the start.
LEMMA TreeInitially == Tree!Init => TreeInv
<1> SUFFICES ASSUME Tree!Init PROVE TreeInv
  OBVIOUS
<1>1. /\ snapshots = <<>> /\ item = [p \in Paths |-> Tree!NoItem] /\ read = [r \in Reads |-> Tree!NoRead]
      /\ caller = [c \in Callers |-> Tree!NoCaller] /\ chan = [h \in Channels |-> Tree!NoChannel] /\ conn = TRUE
  BY DEF Tree!Init
<1>2. Tree!NoItem \in ItemRecord /\ Tree!NoRead \in ReadRecord /\ Tree!NoCaller \in CallerRecord /\ Tree!NoChannel \in ChannelRecord
  BY DEF Tree!NoItem, Tree!NoRead, Tree!NoCaller, Tree!NoChannel, ItemRecord, ReadRecord, CallerRecord, ChannelRecord, MaybePath, Tree!Kinds
<1>3. /\ Tree!NoRead.at = "none" /\ Tree!NoRead.item = None /\ Tree!NoRead.kind = "scan" /\ Tree!NoRead.users = {}
      /\ Tree!NoCaller.at = "idle" /\ Tree!NoCaller.item = None /\ Tree!NoCaller.read = None
      /\ Tree!NoChannel.at = "free" /\ Tree!NoChannel.read = None
  BY DEF Tree!NoRead, Tree!NoCaller, Tree!NoChannel
<1>4. None \notin Reads /\ MaxIdle \in Nat
  BY TreeGiven
<1>5. Tree!Range(snapshots) = {} /\ snapshots \in Seq(Paths) /\ Tree!IsInjective(snapshots)
  BY <1>1 DEF Tree!Range, Tree!IsInjective
<1>6. TreeTyped(snapshots, item, read, caller)
  BY <1>1, <1>2, <1>5 DEF TreeTyped
<1>7. ReadsAgree(Tree!Range(snapshots), read, {})
  BY <1>1, <1>3, <1>5 DEF ReadsAgree
<1>8. ListingsRun(Tree!Range(snapshots), item, read, {})
  BY <1>5 DEF ListingsRun
<1>9. CallersAgree(Tree!Range(snapshots), read, caller)
  BY <1>1, <1>3, <1>4, <1>5 DEF CallersAgree
<1>10. PagesKnown(item, read, caller)
  BY <1>1, <1>3 DEF PagesKnown
<1>11. ChansAgree(read, chan)
  BY <1>1, <1>2, <1>3, <1>4 DEF ChansAgree
<1>12. PoolAgrees(chan, conn)
  <2>1. IdleOf(chan) = {}
    BY <1>1, <1>3 DEF IdleOf
  <2>2. Cardinality(IdleOf(chan)) = 0
    BY <2>1, FS_EmptySet
  <2> QED BY <1>1, <1>4, <2>2 DEF PoolAgrees
<1> QED
  BY <1>6, <1>7, <1>8, <1>9, <1>10, <1>11, <1>12 DEF TreeInv, TreeAgrees

\* Every step keeps it and gives no wrong page.
LEMMA TreeKeeps == TreeInv /\ [Tree!Next]_(Tree!vars) => TreeInv' /\ (NewPages \/ UNCHANGED Tree!vars)
<1> SUFFICES ASSUME TreeInv, [Tree!Next]_(Tree!vars) PROVE TreeInv' /\ (NewPages \/ UNCHANGED Tree!vars)
  OBVIOUS
<1>g. TreeGoal => TreeInv'
  BY DEF TreeGoal, TreeInv
<1>a. TreeAgrees(snapshots, item, read, caller, {})
  BY ChansParts
<1>1. CASE UNCHANGED Tree!vars
  <2>1. snapshots' = snapshots /\ item' = item /\ read' = read /\ caller' = caller /\ chan' = chan /\ conn' = conn
    BY <1>1 DEF Tree!vars
  <2> QED
    BY <1>1, <2>1 DEF TreeInv
<1>2. ASSUME NEW c \in Callers, Tree!Request(c) \/ Tree!Resume(c) \/ Tree!Finish(c) PROVE TreeGoal /\ NewPages
  <2>1. CASE Tree!Resume(c)
    BY <1>a, <2>1, ResumeStep, TreeStepKeeps
  <2>2. CASE Tree!Finish(c)
    BY <1>a, <2>2, FinishStep, TreeStepKeeps
  <2>3. CASE Tree!Seen(c)
    BY <1>a, <2>3, SeenStep, TreeStepKeeps, NoNewPages
  <2>4. CASE Tree!Cancel(c)
    BY <2>4, CancelStep, NoNewPages
  <2>5. ASSUME NEW p \in Paths, NEW links \in {FALSE, (p \in Linked)}, Tree!ListFresh(c, p, links) \/ Tree!ListKnown(c, p, links)
        PROVE  TreeGoal /\ NewPages
    <3>1. links \in BOOLEAN
      <4>1. links = FALSE \/ links = (p \in Linked)
        OBVIOUS
      <4>2. CASE links = FALSE
        BY <4>2
      <4>3. CASE links = (p \in Linked)
        <5>1. CASE p \in Linked
          BY <4>3, <5>1
        <5>2. CASE p \notin Linked
          BY <4>3, <5>2
        <5> QED BY <5>1, <5>2
      <4> QED BY <4>1, <4>2, <4>3
    <3>2. TreeStep /\ NoNewPage
      BY <1>a, <2>5, <3>1, ListFreshStep, ListKnownStep
    <3> QED BY <3>2, TreeStepKeeps, NoNewPages
  <2> QED
    BY <1>2, <2>1, <2>2, <2>3, <2>4, <2>5 DEF Tree!Request
<1>3. ASSUME NEW r \in Reads, Tree!ReadStep(r) PROVE TreeGoal /\ NewPages
  BY <1>3, BeginStep, SucceedsStep, FailsStep, TimesOutStep, ForceEndStep, NoNewPages DEF Tree!ReadStep
<1>4. ASSUME NEW ch \in Channels, Tree!ChannelStep(ch) PROVE TreeGoal /\ NewPages
  BY <1>4, OpensStep, OpenFailsStep, ClosesStep, NoNewPages DEF Tree!ChannelStep
<1>5. ASSUME Tree!Lost \/ Tree!Connects \/ Tree!ScopeCloses \/ Tree!Changes PROVE TreeGoal /\ NewPages
  BY <1>5, LostStep, ConnectsStep, ScopeStep, ChangesStep, NoNewPages
<1>6. ASSUME Tree!Next PROVE TreeGoal /\ NewPages
  <2>1. CASE \E c \in Callers : Tree!Request(c) \/ Tree!Resume(c) \/ Tree!Finish(c)
    BY <1>2, <2>1
  <2>2. CASE \E r \in Reads : Tree!ReadStep(r)
    BY <1>3, <2>2
  <2>3. CASE \E ch \in Channels : Tree!ChannelStep(ch)
    BY <1>4, <2>3
  <2> QED
    BY <1>5, <1>6, <2>1, <2>2, <2>3 DEF Tree!Next
<1>7. CASE Tree!Next
  BY <1>6, <1>7, <1>g
<1> QED
  BY <1>1, <1>7

\* It gives the property.
LEMMA TreeShowsOwned == TreeInv => Tree!ReadsOwned
<1> SUFFICES ASSUME TreeInv PROVE Tree!ReadsOwned
  OBVIOUS
<1>1. /\ Typed(item, read, caller) /\ snapshots \in Seq(Paths) /\ Tree!IsInjective(snapshots)
      /\ \A r \in Reads :
           /\ read[r].at # "none" => ((read[r].abort = "stopped") <=> (read[r].users = {} \/ read[r].item = None))
           /\ read[r].item \in Tree!Range(snapshots) \cup {None}
      /\ \A c \in Callers :
           /\ (caller[c].at = "waiting") <=> (caller[c].read # None)
           /\ caller[c].item \in Tree!Range(snapshots) \cup {None}
      /\ \A r \in Reads, c \in Callers : c \in read[r].users <=> caller[c].read = r
  BY ChansParts, Parts
<1>2. item \in [Paths -> ItemRecord] /\ read \in [Reads -> ReadRecord] /\ caller \in [Callers -> CallerRecord]
  BY <1>1 DEF Typed
<1>3. Tree!TypeOK
  BY <1>1, <1>2, ChansParts DEF Tree!TypeOK, ItemRecord, ReadRecord, CallerRecord, ChannelRecord, MaybePath
<1>4. Tree!ChannelsOwned
  <2>1. ASSUME NEW r \in Reads
        PROVE  CASE read[r].at = "opening" -> \E ch \in Channels : Tree!ChannelOf(r) = {ch} /\ chan[ch].at = "opening"
                 [] read[r].at = "working" -> \E ch \in Channels : Tree!ChannelOf(r) = {ch} /\ chan[ch].at \in {"leased", "closed"}
                 [] OTHER -> Tree!ChannelOf(r) = {}
    <3>1. CASE read[r].at \in {"opening", "working"}
      <4>1. PICK ch \in Channels : chan[ch].read = r
        BY <3>1, ChansParts
      <4>2. Tree!ChannelOf(r) = {ch}
        BY <4>1, ChansParts DEF Tree!ChannelOf
      <4>3. (read[r].at = "opening" /\ chan[ch].at = "opening") \/ (read[r].at = "working" /\ chan[ch].at \in {"leased", "closed"})
        BY <4>1, ChansParts
      <4> QED BY <4>2, <4>3
    <3>2. CASE read[r].at \notin {"opening", "working"}
      <4>1. Tree!ChannelOf(r) = {}
        BY <3>2, ChansParts DEF Tree!ChannelOf
      <4> QED BY <3>2, <4>1
    <3> QED BY <3>1, <3>2
  <2>2. Cardinality(Tree!Idle) <= MaxIdle
    BY ChansParts DEF PoolAgrees, IdleOf, Tree!Idle
  <2> QED
    BY <2>1, <2>2, ChansParts, TreeSizes DEF Tree!ChannelsOwned
<1>5. Tree!ReadsWanted
  <2>1. \A r \in Reads : read[r].users = {c \in Callers : caller[c].read = r}
    <3> SUFFICES ASSUME NEW r \in Reads PROVE read[r].users = {c \in Callers : caller[c].read = r}
      OBVIOUS
    <3>1. read[r].users \in SUBSET Callers
      BY <1>1, Fields
    <3> QED BY <1>1, <3>1
  <2>2. ASSUME NEW p \in Tree!Current, ~item[p].listed
        PROVE  Cardinality({r \in Tree!Scanning : read[r].item = p}) = 1
    <3>1. ListingsRun(Tree!Range(snapshots), item, read, {})
      BY ChansParts DEF TreeAgrees
    <3>2. /\ \E r \in Reads : Scans(read, r, p)
          /\ \A r, q \in Reads : Scans(read, r, p) /\ Scans(read, q, p) => r = q
      BY <2>2, <3>1 DEF ListingsRun, Tree!Current
    <3>3. PICK r \in Reads : Scans(read, r, p)
      BY <3>2
    <3>4. {q \in Tree!Scanning : read[q].item = p} = {r}
      BY <3>2, <3>3 DEF Tree!Scanning, Scans
    <3>5. Cardinality({r}) = 1
      BY FS_Singleton
    <3> QED BY <3>4, <3>5
  <2> QED
    BY <1>1, <2>1, <2>2, TreeSizes DEF Tree!ReadsWanted, Tree!Current, Tree!Under
<1> QED
  BY <1>3, <1>4, <1>5 DEF Tree!ReadsOwned

-----------------------------------------------------------------------------
(* ListingCache: the listings that the search and the schema keep.         *)

\* The instance selects as the library does.
LEMMA CacheSelects ==
  ASSUME NEW s, NEW K PROVE Cache!Selected(s, K) = Selected(s, K)
BY DEF Cache!Selected, Selected, Cache!Ordered, Ordered, Cache!Cardinality, Cardinality

\* From the assumptions of the instance.
LEMMA CacheGiven ==
  /\ IsFiniteSet(Listings) /\ Bytes \in [Listings -> Nat] /\ None \notin Askers
  /\ MaxBytes \in Nat /\ MaxListings \in Nat \ {0} /\ MaxVersion \in Nat /\ MaxCleared \in Nat
BY ServerReadsAssumption DEF Cache!CacheAssumption, Cache!IsFiniteSet, IsFiniteSet

\* A listing that is kept.
EntryRecord == [key : Listings, value : 0..MaxVersion, expired : BOOLEAN, epoch : 0..MaxCleared]

\* A call of the search or of the schema.
AskRecord == [at : {"idle", "loading", "joined", "waits", "follows", "done"},
              key : Listings \cup {None}, of : Askers \cup {None}, refresh : BOOLEAN,
              since : 0..MaxVersion, value : 0..MaxVersion \cup {None}, epoch : 0..MaxCleared]

\* No listing is kept twice.
KeysOnce(es) == \A m, n \in DOMAIN es : es[m].key = es[n].key => m = n

\* The entries keep to the limits, are of after the last clear, and are not being loaded.
EntriesAgree(es, clr, pen) ==
  /\ es \in Seq(EntryRecord) /\ KeysOnce(es)
  /\ Len(es) <= MaxListings /\ Cache!Total(es) <= MaxBytes
  /\ \A n \in DOMAIN es : es[n].epoch = clr /\ pen[es[n].key] = None

\* A pending load is one that runs, of after the last clear.
PendingLoads(clr, pen, as) ==
  \A k \in Listings : pen[k] # None =>
     as[pen[k]].at = "loading" /\ as[pen[k]].key = k /\ as[pen[k]].epoch = clr

\* Who has joined, joined a load that runs.
JoinedLoads(as) == \A a \in Askers : as[a].at = "joined" => as[a].of \in Askers /\ as[as[a].of].at = "loading"

\* Who follows a refresh asked in the moment of its owner.
Followed(ref, as) ==
  \A a \in Askers : as[a].at = "follows" =>
     /\ as[a].key \in Listings /\ as[a].of # None /\ ref[as[a].key] = as[a].of
     /\ as[as[a].of].since = as[a].since

\* A refresh has an owner that is not done.
Owners(ref, as) ==
  \A k \in Listings : ref[k] # None =>
     as[ref[k]].at \in {"waits", "joined", "loading"} /\ as[ref[k]].key = k /\ as[ref[k]].refresh

\* Who waits to refresh waits for the load that is pending, if for any.
Waiting(usr, pen, as) ==
  \A a \in Askers : as[a].at = "waits" =>
     /\ usr = "search" /\ as[a].refresh /\ as[a].value = None
     /\ as[a].of # None => pen[as[a].key] = as[a].of

\* Nobody asks in the future.
Known(con, as) ==
  \A a \in Askers : /\ as[a].since <= con
                    /\ as[a].at \in {"loading", "joined", "waits", "follows"} => as[a].key \in Listings

\* What a refresh gets was read after it was asked for.
NewEnough(pen, as) ==
  /\ \A a \in Askers : as[a].at = "loading" /\ as[a].value # None /\ as[a].refresh => as[a].since <= as[a].value
  /\ \A b \in Askers : as[b].at = "joined" /\ as[b].refresh /\ as[as[b].of].value # None =>
       as[b].since <= as[as[b].of].value
  /\ \A b \in Askers : as[b].at = "waits" /\ as[b].of = None /\ pen[as[b].key] # None
                       /\ as[pen[as[b].key]].value # None => as[b].since <= as[pen[as[b].key]].value
  /\ \A a \in Askers : as[a].at = "done" /\ as[a].refresh => as[a].value \in Nat /\ as[a].since <= as[a].value

\* The types.
AsksTyped(pen, ref, as) ==
  /\ pen \in [Listings -> Askers \cup {None}] /\ ref \in [Listings -> Askers \cup {None}]
  /\ as \in [Askers -> AskRecord]

\* The calls agree.
AsksAgree(usr, con, clr, pen, ref, as) ==
  /\ AsksTyped(pen, ref, as)
  /\ PendingLoads(clr, pen, as) /\ JoinedLoads(as) /\ Followed(ref, as) /\ Owners(ref, as)
  /\ Waiting(usr, pen, as) /\ Known(con, as)
  /\ usr = "search" => NewEnough(pen, as)

\* The invariant.
CacheInv ==
  /\ user \in {"search", "schema"} /\ content \in 0..MaxVersion /\ cleared \in 0..MaxCleared
  /\ bytes = Cache!Total(entries)
  /\ EntriesAgree(entries, cleared, pending)
  /\ AsksAgree(user, content, cleared, pending, refreshes, ask)

\* The call of a, and those who joined it.
With(as, a) == {b \in Askers : as[b].at = "joined" /\ as[b].of = a} \cup {a}

\* ... and those who follow one of them.
Sharing(as, a) == With(as, a) \cup {b \in Askers : as[b].at = "follows" /\ as[b].of \in With(as, a)}

\* The bytes kept are the sum over the listings kept.
LEMMA HeldFacts ==
  ASSUME NEW es \in Seq(EntryRecord)
  PROVE  /\ Cache!Held(es) = {es[n].key : n \in DOMAIN es} /\ Cache!Held(es) \in SUBSET Listings
         /\ Cache!Total(es) = SumOf(Bytes, Cache!Held(es))
         /\ \A n \in DOMAIN es : es[n] \in EntryRecord /\ es[n].key \in Listings
         /\ DOMAIN es = 1..Len(es) /\ Len(es) \in Nat
<1>1. DOMAIN es = 1..Len(es) /\ Len(es) \in Nat
  OBVIOUS
<1>2. \A n \in DOMAIN es : es[n] \in EntryRecord
  BY <1>1
<1>3. \A n \in DOMAIN es : es[n].key \in Listings
  BY <1>2 DEF EntryRecord
<1>4. Cache!Held(es) = {es[n].key : n \in DOMAIN es}
  BY DEF Cache!Held, Cache!Range
<1>5. Cache!Total(es) = SumOf(Bytes, Cache!Held(es))
  BY DEF Cache!Total, SumOf, Cache!MapThenSumSet, Cache!MapThenFoldSet, MapThenSumSet, MapThenFoldSet
<1> QED
  BY <1>1, <1>2, <1>3, <1>4, <1>5

\* Less kept, no more bytes.
LEMMA TotalGrows ==
  ASSUME NEW es \in Seq(EntryRecord), NEW es2 \in Seq(EntryRecord), Cache!Held(es2) \subseteq Cache!Held(es)
  PROVE  Cache!Total(es2) <= Cache!Total(es) /\ Cache!Total(es2) \in Nat /\ Cache!Total(es) \in Nat
<1> DEFINE D == Listings  W == Bytes  S == Cache!Held(es2)  T == Cache!Held(es)
<1>1. IsFiniteSet(D) /\ W \in [D -> Nat]
  BY CacheGiven
<1>2. T \in SUBSET D /\ S \in SUBSET T /\ S \in SUBSET D
  BY HeldFacts
<1>3. Cache!Total(es2) = SumOf(W, S) /\ Cache!Total(es) = SumOf(W, T)
  BY HeldFacts
<1> HIDE DEF D, W, S, T
<1>4. SumOf(W, S) <= SumOf(W, T)
  BY <1>1, <1>2, SumGrows
<1>5. SumOf(W, S) \in Nat /\ SumOf(W, T) \in Nat
  BY <1>1, <1>2, SumStep
<1> QED
  BY <1>3, <1>4, <1>5

\* e counts the positions in K in their order.
Chosen(s, n, K, e) ==
  /\ e \in [1..Cardinality(K) -> K]
  /\ Cardinality(K) \in Nat /\ Cardinality(K) <= n
  /\ K # 1..n => Cardinality(K) < n
  /\ \A i, j \in 1..Cardinality(K) : e[i] = e[j] => i = j
  /\ \A k \in K : \E i \in 1..Cardinality(K) : e[i] = k
  /\ Cache!Selected(s, K) = [i \in 1..Cardinality(K) |-> s[e[i]]]

\* There is such a count.
LEMMA ChosenExists ==
  ASSUME NEW s, NEW n \in Nat, DOMAIN s = 1..n, NEW K \in SUBSET (1..n)
  PROVE  \E e : Chosen(s, n, K, e)
<1>1. PICK e \in [1..Cardinality(K) -> K] :
           /\ Cardinality(K) \in Nat /\ Cardinality(K) <= n
           /\ K # 1..n => Cardinality(K) < n
           /\ \A i, j \in 1..Cardinality(K) : e[i] = e[j] => i = j
           /\ \A k \in K : \E i \in 1..Cardinality(K) : e[i] = k
           /\ Cache!Selected(s, K) = [i \in 1..Cardinality(K) |-> s[e[i]]]
  BY SelectedFacts, CacheSelects
<1>2. Chosen(s, n, K, e)
  BY <1>1 DEF Chosen
<1> QED BY <1>2

\* What is left of the entries.
LEMMA SelectedEntries ==
  ASSUME NEW es \in Seq(EntryRecord), KeysOnce(es), NEW K \in SUBSET DOMAIN es, NEW es2, es2 = Cache!Selected(es, K)
  PROVE  /\ es2 \in Seq(EntryRecord) /\ KeysOnce(es2)
         /\ Len(es2) \in Nat /\ Len(es2) <= Len(es) /\ (K # DOMAIN es => Len(es2) < Len(es))
         /\ \A i \in DOMAIN es2 : \E j \in K : es2[i] = es[j]
         /\ \A j \in K : \E i \in DOMAIN es2 : es2[i] = es[j]
         /\ Cache!Held(es2) \subseteq Cache!Held(es)
<1>1. DOMAIN es = 1..Len(es) /\ Len(es) \in Nat /\ \A n \in DOMAIN es : es[n] \in EntryRecord
  BY HeldFacts
<1>p. K \in SUBSET (1..Len(es))
  BY <1>1
<1>2. PICK e : Chosen(es, Len(es), K, e)
  BY <1>1, <1>p, ChosenExists
<1> DEFINE c == Cardinality(K)
<1>2c. /\ e \in [1..c -> K] /\ c \in Nat /\ c <= Len(es) /\ (K # DOMAIN es => c < Len(es))
       /\ \A i, j \in 1..c : e[i] = e[j] => i = j
       /\ \A k \in K : \E i \in 1..c : e[i] = k
       /\ es2 = [i \in 1..c |-> es[e[i]]]
  BY <1>1, <1>2 DEF Chosen
<1> HIDE DEF c
<1>3. DOMAIN es2 = 1..c /\ \A i \in 1..c : es2[i] = es[e[i]] /\ e[i] \in K /\ e[i] \in DOMAIN es
  BY <1>2c
<1>4. es2 \in Seq(EntryRecord) /\ Len(es2) = c
  <2>1. \A i \in 1..c : es[e[i]] \in EntryRecord
    BY <1>1, <1>3
  <2>2. es2 \in [1..c -> EntryRecord]
    BY <1>2c, <1>3, <2>1
  <2> QED BY <1>2c, <2>2
<1>5. KeysOnce(es2)
  BY <1>2c, <1>3 DEF KeysOnce
<1>6. \A i \in DOMAIN es2 : \E j \in K : es2[i] = es[j]
  BY <1>3
<1>7. \A j \in K : \E i \in DOMAIN es2 : es2[i] = es[j]
  BY <1>2c, <1>3
<1>8. Cache!Held(es2) \subseteq Cache!Held(es)
  <2>1. Cache!Held(es2) = {es2[i].key : i \in DOMAIN es2} /\ Cache!Held(es) = {es[i].key : i \in DOMAIN es}
    BY <1>4, HeldFacts
  <2> QED BY <1>3, <2>1
<1> QED
  BY <1>1, <1>2c, <1>4, <1>5, <1>6, <1>7, <1>8

\* ... agrees.
LEMMA SelectedAgrees ==
  ASSUME NEW es, NEW clr, NEW pen, EntriesAgree(es, clr, pen), NEW K \in SUBSET DOMAIN es, NEW es2, es2 = Cache!Selected(es, K)
  PROVE  EntriesAgree(es2, clr, pen)
<1>1. /\ es \in Seq(EntryRecord) /\ KeysOnce(es)
      /\ Len(es) <= MaxListings /\ Cache!Total(es) <= MaxBytes
      /\ \A n \in DOMAIN es : es[n].epoch = clr /\ pen[es[n].key] = None
  BY DEF EntriesAgree
<1>2. /\ es2 \in Seq(EntryRecord) /\ KeysOnce(es2) /\ Len(es2) \in Nat /\ Len(es2) <= Len(es)
      /\ \A i \in DOMAIN es2 : \E j \in K : es2[i] = es[j]
      /\ Cache!Held(es2) \subseteq Cache!Held(es)
  BY <1>1, SelectedEntries
<1>3. Cache!Total(es2) <= Cache!Total(es) /\ Cache!Total(es2) \in Nat /\ Cache!Total(es) \in Nat
  BY <1>1, <1>2, TotalGrows
<1>4. MaxListings \in Nat /\ MaxBytes \in Nat /\ Len(es) \in Nat
  BY <1>1, CacheGiven
<1>5. Len(es2) <= MaxListings /\ Cache!Total(es2) <= MaxBytes
  BY <1>1, <1>2, <1>3, <1>4
<1>6. \A i \in DOMAIN es2 : es2[i].epoch = clr /\ pen[es2[i].key] = None
  BY <1>1, <1>2
<1> QED
  BY <1>2, <1>5, <1>6 DEF EntriesAgree

\* A listing is put at the end.
AppendsTo(es, e, es2) ==
  es \in Seq(EntryRecord) /\ KeysOnce(es) /\ e \in EntryRecord /\ e.key \notin Cache!Held(es) /\ es2 = Append(es, e)

\* What that gives.
AppendedAre(es, e, es2) ==
  /\ es2 \in Seq(EntryRecord) /\ KeysOnce(es2)
  /\ Len(es2) = Len(es) + 1 /\ Cache!Held(es2) = Cache!Held(es) \cup {e.key}
  /\ \A i \in DOMAIN es2 : es2[i] = e \/ \E j \in DOMAIN es : es2[i] = es[j]
  /\ Cache!Total(es2) = Cache!Total(es) + Bytes[e.key]

\* It does.
LEMMA AppendsFacts ==
  ASSUME NEW es, NEW e, NEW es2, AppendsTo(es, e, es2)
  PROVE  AppendedAre(es, e, es2)
<1>a. es \in Seq(EntryRecord) /\ KeysOnce(es) /\ e \in EntryRecord /\ e.key \notin Cache!Held(es) /\ es2 = Append(es, e)
  BY DEF AppendsTo
<1>1. DOMAIN es = 1..Len(es) /\ Len(es) \in Nat /\ Cache!Held(es) = {es[n].key : n \in DOMAIN es} /\ Cache!Held(es) \in SUBSET Listings
      /\ Cache!Total(es) = SumOf(Bytes, Cache!Held(es))
  BY <1>a, HeldFacts
<1>2. es2 \in Seq(EntryRecord) /\ Len(es2) = Len(es) + 1 /\ DOMAIN es2 = 1..Len(es) + 1 /\ es2[Len(es) + 1] = e
      /\ \A i \in 1..Len(es) : es2[i] = es[i]
  BY <1>1, <1>a
<1>3. \A i \in 1..Len(es) + 1 : i \in 1..Len(es) \/ i = Len(es) + 1
  BY <1>1
<1>4. KeysOnce(es2)
  <2>1. \A i \in DOMAIN es : es[i].key # e.key
    BY <1>1, <1>a
  <2> QED BY <1>1, <1>2, <1>3, <1>a, <2>1 DEF KeysOnce
<1>5. Cache!Held(es2) = Cache!Held(es) \cup {e.key}
  <2>1. Cache!Held(es2) = {es2[n].key : n \in DOMAIN es2} /\ Cache!Total(es2) = SumOf(Bytes, Cache!Held(es2))
    BY <1>2, HeldFacts
  <2>2. ASSUME NEW x \in Cache!Held(es2) PROVE x \in Cache!Held(es) \cup {e.key}
    BY <1>1, <1>2, <1>3, <2>1
  <2>3. ASSUME NEW x \in Cache!Held(es) PROVE x \in Cache!Held(es2)
    <3>1. PICK n \in DOMAIN es : x = es[n].key
      BY <1>1
    <3>2. n \in DOMAIN es2 /\ es2[n] = es[n]
      BY <1>1, <1>2
    <3> QED BY <2>1, <3>1, <3>2
  <2>4. e.key \in Cache!Held(es2)
    <3>1. Len(es) + 1 \in DOMAIN es2
      BY <1>1, <1>2
    <3> QED BY <1>2, <2>1, <3>1
  <2> QED BY <2>2, <2>3, <2>4
<1>6. Cache!Total(es2) = Cache!Total(es) + Bytes[e.key]
  <2> DEFINE D == Listings  W == Bytes  S == Cache!Held(es)  t == e.key
  <2>1. IsFiniteSet(D) /\ W \in [D -> Nat]
    BY CacheGiven
  <2>2. S \in SUBSET D /\ t \in D /\ t \notin S
    BY <1>1, <1>a DEF EntryRecord
  <2>3. Cache!Total(es2) = SumOf(W, S \cup {t})
    BY <1>2, <1>5, HeldFacts
  <2> HIDE DEF D, W, S, t
  <2>4. SumOf(W, S \cup {t}) = SumOf(W, S) + W[t]
    BY <2>1, <2>2, SumAdd
  <2> QED BY <1>1, <2>3, <2>4 DEF W, S, t
<1> QED
  BY <1>2, <1>3, <1>4, <1>5, <1>6, <1>a DEF AppendedAre

\* What is left when enough of the oldest are gone.
LEMMA RoomFacts ==
  ASSUME NEW es \in Seq(EntryRecord), KeysOnce(es), NEW k \in Listings, Bytes[k] <= MaxBytes
  PROVE  /\ Cache!Room(es, k) \in Seq(EntryRecord) /\ KeysOnce(Cache!Room(es, k))
         /\ Len(Cache!Room(es, k)) \in Nat /\ Len(Cache!Room(es, k)) < MaxListings
         /\ Cache!Total(Cache!Room(es, k)) + Bytes[k] <= MaxBytes
         /\ \A i \in DOMAIN Cache!Room(es, k) : \E j \in DOMAIN es : Cache!Room(es, k)[i] = es[j]
<1>1. DOMAIN es = 1..Len(es) /\ Len(es) \in Nat
  BY HeldFacts
<1>2. MaxListings \in Nat \ {0} /\ MaxBytes \in Nat /\ Bytes[k] \in Nat
  BY CacheGiven
<1> DEFINE L == Len(es)
           fits(n) == /\ Len(es) - n < MaxListings
                      /\ Cache!Total(SubSeq(es, n + 1, Len(es))) + Bytes[k] <= MaxBytes
           G == {n \in 0..L : fits(n)}
<1>3. G # {}
  <2>1. SubSeq(es, L + 1, L) = <<>>
    BY <1>1
  <2>2. Cache!Total(<<>>) = 0
    <3>1. Cache!Held(<<>>) = {}
      BY DEF Cache!Held, Cache!Range
    <3>2. Cache!Total(<<>>) = SumOf(Bytes, {})
      BY <3>1 DEF Cache!Total, SumOf, Cache!MapThenSumSet, Cache!MapThenFoldSet, MapThenSumSet, MapThenFoldSet
    <3>3. IsFiniteSet(Listings) /\ Bytes \in [Listings -> Nat]
      BY CacheGiven
    <3>4. SumOf(Bytes, {}) = 0
      BY <3>3, SumStep
    <3> QED BY <3>2, <3>4
  <2>3. L \in 0..L /\ L - L = 0
    BY <1>1
  <2>4. fits(L)
    <3>1. Len(es) - L < MaxListings
      BY <1>2, <2>3
    <3>2. Cache!Total(SubSeq(es, L + 1, Len(es))) + Bytes[k] <= MaxBytes
      <4>1. SubSeq(es, L + 1, Len(es)) = <<>>
        BY <2>1
      <4>2. 0 + Bytes[k] <= MaxBytes
        BY <1>2
      <4> HIDE DEF L
      <4> QED BY <2>2, <4>1, <4>2
    <3> QED BY <3>1, <3>2
  <2> QED BY <2>3, <2>4
<1>4. PICK m \in G : m = Cache!Min(G)
  <2>1. G \subseteq Nat
    BY <1>1
  <2> HIDE DEF G
  <2>2. \E x \in G : \A y \in G : x <= y
    BY <1>3, <2>1, LeastExists
  <2> QED BY <2>2 DEF Cache!Min
<1>5. m \in 0..L /\ fits(m)
  BY <1>4
<1>6. Cache!Room(es, k) = SubSeq(es, m + 1, L)
  BY <1>4 DEF Cache!Room
<1> DEFINE R == SubSeq(es, m + 1, L)
<1>7. R \in Seq(EntryRecord) /\ Len(R) = L - m /\ DOMAIN R = 1..(L - m) /\ L - m \in Nat
      /\ \A i \in 1..(L - m) : R[i] = es[m + i] /\ m + i \in DOMAIN es
  <2>1. m + 1 \in 1..L + 1 /\ L \in Nat /\ m \in Nat /\ m <= L
    BY <1>1, <1>5
  <2>2. L - m \in Nat /\ L - (m + 1) + 1 = L - m
    BY <2>1
  <2>3. \A i \in 1..(L - m) : m + i \in 1..L /\ (m + 1) + i - 1 = m + i
    BY <2>1
  <2>4. R = [i \in 1..(L - m) |-> es[m + i]]
    <3>1. SubSeq(es, m + 1, L) = [i \in 1..(L - (m + 1) + 1) |-> es[(m + 1) + i - 1]]
      OBVIOUS
    <3> QED BY <2>1, <2>2, <2>3, <3>1
  <2>5. \A i \in 1..(L - m) : R[i] = es[m + i] /\ m + i \in DOMAIN es /\ es[m + i] \in EntryRecord
    BY <1>1, <2>3, <2>4, HeldFacts
  <2>6. DOMAIN R = 1..(L - m)
    BY <2>4
  <2> HIDE DEF R
  <2>7. R \in [1..(L - m) -> EntryRecord]
    BY <2>4, <2>5
  <2>8. R \in Seq(EntryRecord) /\ Len(R) = L - m
    <3> DEFINE d == L - m
    <3>1. d \in Nat /\ R \in [1..d -> EntryRecord]
      BY <2>2, <2>7
    <3> HIDE DEF d
    <3>2. R \in Seq(EntryRecord) /\ Len(R) = d
      BY <3>1
    <3> QED BY <3>2 DEF d
  <2> QED BY <2>2, <2>5, <2>6, <2>8
<1>8. KeysOnce(R)
  <2>1. m \in Nat
    BY <1>1, <1>5
  <2> HIDE DEF R
  <2> SUFFICES ASSUME NEW i \in DOMAIN R, NEW j \in DOMAIN R, R[i].key = R[j].key PROVE i = j
    BY DEF KeysOnce
  <2>2. R[i] = es[m + i] /\ R[j] = es[m + j] /\ m + i \in DOMAIN es /\ m + j \in DOMAIN es
    BY <1>7
  <2>2a. es[m + i].key = es[m + j].key
    BY <2>2
  <2>2b. m + i = m + j
    BY <2>2, <2>2a DEF KeysOnce
  <2>3. i \in Nat /\ j \in Nat
    BY <1>7
  <2> QED BY <2>1, <2>2b, <2>3
<1>9. Len(R) < MaxListings /\ Cache!Total(R) + Bytes[k] <= MaxBytes
  BY <1>5, <1>7
<1>10. \A i \in DOMAIN R : \E j \in DOMAIN es : R[i] = es[j]
  BY <1>7
<1> HIDE DEF R
<1> QED
  BY <1>6, <1>7, <1>8, <1>9, <1>10 DEF R

\* What the types say of a call.
LEMMA AskFields ==
  ASSUME NEW as, as \in [Askers -> AskRecord]
  PROVE  /\ DOMAIN as = Askers
         /\ \A a \in Askers :
              /\ as[a].at \in {"idle", "loading", "joined", "waits", "follows", "done"}
              /\ as[a].key \in Listings \cup {None} /\ as[a].of \in Askers \cup {None} /\ as[a].refresh \in BOOLEAN
              /\ as[a].since \in 0..MaxVersion /\ as[a].value \in 0..MaxVersion \cup {None}
              /\ as[a].epoch \in 0..MaxCleared
              /\ as[a] = [at |-> as[a].at, key |-> as[a].key, of |-> as[a].of, refresh |-> as[a].refresh,
                          since |-> as[a].since, value |-> as[a].value, epoch |-> as[a].epoch]
<1> SUFFICES ASSUME NEW a \in Askers
             PROVE /\ as[a].at \in {"idle", "loading", "joined", "waits", "follows", "done"}
              /\ as[a].key \in Listings \cup {None} /\ as[a].of \in Askers \cup {None} /\ as[a].refresh \in BOOLEAN
              /\ as[a].since \in 0..MaxVersion /\ as[a].value \in 0..MaxVersion \cup {None}
              /\ as[a].epoch \in 0..MaxCleared
              /\ as[a] = [at |-> as[a].at, key |-> as[a].key, of |-> as[a].of, refresh |-> as[a].refresh,
                          since |-> as[a].since, value |-> as[a].value, epoch |-> as[a].epoch]
  OBVIOUS
<1>1. as[a] \in AskRecord
  OBVIOUS
<1> QED
  BY <1>1 DEF AskRecord

\* A record of these fields is a call.
LEMMA MakeAsk ==
  ASSUME NEW s \in {"idle", "loading", "joined", "waits", "follows", "done"}, NEW k \in Listings \cup {None},
         NEW o \in Askers \cup {None}, NEW f \in BOOLEAN, NEW i \in 0..MaxVersion,
         NEW v \in 0..MaxVersion \cup {None}, NEW e \in 0..MaxCleared
  PROVE  [at |-> s, key |-> k, of |-> o, refresh |-> f, since |-> i, value |-> v, epoch |-> e] \in AskRecord
BY DEF AskRecord

\* The record of no call.
LEMMA NoAskFields ==
  /\ Cache!NoAsk = [at |-> "idle", key |-> None, of |-> None, refresh |-> FALSE, since |-> 0, value |-> None, epoch |-> 0]
  /\ Cache!NoAsk \in AskRecord /\ Cache!NoAsk.at = "idle" /\ Cache!NoAsk.since = 0
<1>1. MaxVersion \in Nat /\ MaxCleared \in Nat
  BY CacheGiven
<1> QED
  BY <1>1 DEF Cache!NoAsk, AskRecord

\* What AsksAgree says, one by one.
AsksAre(usr, con, clr, pen, ref, as) ==
  /\ pen \in [Listings -> Askers \cup {None}] /\ ref \in [Listings -> Askers \cup {None}] /\ as \in [Askers -> AskRecord]
  /\ None \notin Askers
  /\ \A k \in Listings : pen[k] # None =>
       pen[k] \in Askers /\ as[pen[k]].at = "loading" /\ as[pen[k]].key = k /\ as[pen[k]].epoch = clr
  /\ \A a \in Askers : as[a].at = "joined" => as[a].of \in Askers /\ as[as[a].of].at = "loading"
  /\ \A a \in Askers : as[a].at = "follows" =>
       /\ as[a].key \in Listings /\ as[a].of \in Askers /\ ref[as[a].key] = as[a].of /\ as[as[a].of].since = as[a].since
       /\ as[as[a].of].at \in {"waits", "joined", "loading"} /\ as[as[a].of].refresh
  /\ \A k \in Listings : ref[k] # None =>
       /\ ref[k] \in Askers /\ as[ref[k]].at \in {"waits", "joined", "loading"} /\ as[ref[k]].key = k
       /\ as[ref[k]].refresh
  /\ \A a \in Askers : as[a].at = "waits" =>
       /\ usr = "search" /\ as[a].refresh /\ as[a].value = None
       /\ as[a].of # None => pen[as[a].key] = as[a].of
  /\ \A a \in Askers : /\ as[a].since <= con
                       /\ as[a].at \in {"loading", "joined", "waits", "follows"} => as[a].key \in Listings
  /\ usr = "search" => NewEnough(pen, as)

\* It says so.
LEMMA AsksParts ==
  ASSUME NEW usr, NEW con, NEW clr, NEW pen, NEW ref, NEW as, AsksAgree(usr, con, clr, pen, ref, as)
  PROVE  AsksAre(usr, con, clr, pen, ref, as)
<1>1. /\ pen \in [Listings -> Askers \cup {None}] /\ ref \in [Listings -> Askers \cup {None}] /\ as \in [Askers -> AskRecord]
      /\ PendingLoads(clr, pen, as) /\ JoinedLoads(as) /\ Followed(ref, as) /\ Owners(ref, as)
      /\ Waiting(usr, pen, as) /\ Known(con, as)
      /\ usr = "search" => NewEnough(pen, as)
  BY DEF AsksAgree, AsksTyped
<1>2. None \notin Askers
  BY CacheGiven
<1>3. \A k \in Listings : pen[k] \in Askers \cup {None} /\ ref[k] \in Askers \cup {None}
  BY <1>1
<1>4. \A k \in Listings : pen[k] # None =>
              pen[k] \in Askers /\ as[pen[k]].at = "loading" /\ as[pen[k]].key = k /\ as[pen[k]].epoch = clr
  BY <1>1, <1>3 DEF PendingLoads
<1>5. \A k \in Listings : ref[k] # None =>
              /\ ref[k] \in Askers /\ as[ref[k]].at \in {"waits", "joined", "loading"} /\ as[ref[k]].key = k
              /\ as[ref[k]].refresh
  BY <1>1, <1>3 DEF Owners
<1>6. ASSUME NEW a \in Askers, as[a].at = "follows"
      PROVE   /\ as[a].key \in Listings /\ as[a].of \in Askers /\ ref[as[a].key] = as[a].of /\ as[as[a].of].since = as[a].since
              /\ as[as[a].of].at \in {"waits", "joined", "loading"} /\ as[as[a].of].refresh
  <2>1. as[a].key \in Listings /\ as[a].of # None /\ ref[as[a].key] = as[a].of /\ as[as[a].of].since = as[a].since
    BY <1>1, <1>6 DEF Followed
  <2> QED BY <1>5, <2>1
<1>7. \A a \in Askers : as[a].at = "joined" => as[a].of \in Askers /\ as[as[a].of].at = "loading"
  BY <1>1 DEF JoinedLoads
<1>8. \A a \in Askers : as[a].at = "waits" =>
              /\ usr = "search" /\ as[a].refresh /\ as[a].value = None
              /\ as[a].of # None => pen[as[a].key] = as[a].of
  BY <1>1 DEF Waiting
<1>9. \A a \in Askers : /\ as[a].since <= con
                        /\ as[a].at \in {"loading", "joined", "waits", "follows"} => as[a].key \in Listings
  BY <1>1 DEF Known
<1> QED
  BY <1>1, <1>2, <1>4, <1>5, <1>6, <1>7, <1>8, <1>9 DEF AsksAre

\* Those who share the call of a leave with it, and who waited for it goes on.
LeavesOf(usr, con, clr, pen, ref, as, a, pen2, ref2, as2) ==
  /\ AsksAgree(usr, con, clr, pen, ref, as) /\ a \in Askers /\ as[a].at \in {"idle", "waits", "loading", "done"}
  /\ pen2 = [k \in Listings |-> IF pen[k] = a THEN None ELSE pen[k]]
  /\ ref2 = [k \in Listings |-> IF ref[k] \in Sharing(as, a) THEN None ELSE ref[k]]
  /\ as2 \in [Askers -> AskRecord]
  /\ \A b \in Sharing(as, a) :
       /\ as2[b].at \in {"idle", "done"} /\ as2[b].since <= con
       /\ usr = "search" /\ as2[b].at = "done" /\ as2[b].refresh => as2[b].value \in Nat /\ as2[b].since <= as2[b].value
  /\ \A b \in Askers : b \notin Sharing(as, a) =>
       as2[b] = IF as[b].at = "waits" /\ as[b].of = a THEN [as[b] EXCEPT !.of = None] ELSE as[b]

\* Who shares the call of a.
LEMMA SharingFacts ==
  ASSUME NEW as, NEW a \in Askers, as \in [Askers -> AskRecord], NEW b \in Askers
  PROVE  /\ b \in Sharing(as, a) => (b = a) \/ (as[b].at = "joined" /\ as[b].of = a)
                                   \/ (as[b].at = "follows" /\ as[b].of \in Sharing(as, a))
         /\ b = a => b \in Sharing(as, a)
         /\ as[b].at = "joined" /\ as[b].of = a => b \in Sharing(as, a)
         /\ as[b].at = "follows" /\ as[b].of \in Sharing(as, a) /\ as[as[b].of].at # "follows" => b \in Sharing(as, a)
BY DEF Sharing, With

\* A call with other values.
LEMMA AskWith ==
  ASSUME NEW x, NEW s, NEW k, NEW o, NEW f, NEW i, NEW v, NEW e, NEW y, NEW z,
         x = [at |-> s, key |-> k, of |-> o, refresh |-> f, since |-> i, value |-> v, epoch |-> e]
  PROVE  /\ [x EXCEPT !.of = y] = [at |-> s, key |-> k, of |-> y, refresh |-> f, since |-> i, value |-> v, epoch |-> e]
         /\ [x EXCEPT !.value = y] = [at |-> s, key |-> k, of |-> o, refresh |-> f, since |-> i, value |-> y, epoch |-> e]
         /\ [x EXCEPT !.at = y, !.of = z] = [at |-> y, key |-> k, of |-> z, refresh |-> f, since |-> i, value |-> v, epoch |-> e]
         /\ [x EXCEPT !.at = y, !.epoch = z] = [at |-> y, key |-> k, of |-> o, refresh |-> f, since |-> i, value |-> v, epoch |-> z]
<1>1. [x EXCEPT !.of = y] = [at |-> s, key |-> k, of |-> y, refresh |-> f, since |-> i, value |-> v, epoch |-> e]
  OBVIOUS
<1>2. [x EXCEPT !.value = y] = [at |-> s, key |-> k, of |-> o, refresh |-> f, since |-> i, value |-> y, epoch |-> e]
  OBVIOUS
<1>3. [x EXCEPT !.at = y] = [at |-> y, key |-> k, of |-> o, refresh |-> f, since |-> i, value |-> v, epoch |-> e]
  OBVIOUS
<1> DEFINE w == [x EXCEPT !.at = y]
<1>4. [x EXCEPT !.at = y, !.of = z] = [at |-> y, key |-> k, of |-> z, refresh |-> f, since |-> i, value |-> v, epoch |-> e]
  <2>1. [x EXCEPT !.at = y, !.of = z] = [w EXCEPT !.of = z]
    OBVIOUS
  <2>2. w = [at |-> y, key |-> k, of |-> o, refresh |-> f, since |-> i, value |-> v, epoch |-> e]
    BY <1>3
  <2> HIDE DEF w
  <2>3. [w EXCEPT !.of = z] = [at |-> y, key |-> k, of |-> z, refresh |-> f, since |-> i, value |-> v, epoch |-> e]
    BY <2>2
  <2> QED BY <2>1, <2>3
<1>5. [x EXCEPT !.at = y, !.epoch = z] = [at |-> y, key |-> k, of |-> o, refresh |-> f, since |-> i, value |-> v, epoch |-> z]
  <2>1. [x EXCEPT !.at = y, !.epoch = z] = [w EXCEPT !.epoch = z]
    OBVIOUS
  <2>2. w = [at |-> y, key |-> k, of |-> o, refresh |-> f, since |-> i, value |-> v, epoch |-> e]
    BY <1>3
  <2> HIDE DEF w
  <2>3. [w EXCEPT !.epoch = z] = [at |-> y, key |-> k, of |-> o, refresh |-> f, since |-> i, value |-> v, epoch |-> z]
    BY <2>2
  <2> QED BY <2>1, <2>3
<1> QED BY <1>1, <1>2, <1>4, <1>5

\* What is left agrees: nobody waits for a call that has ended.
LEMMA LeavesAgrees ==
  ASSUME NEW usr, NEW con, NEW clr, NEW pen, NEW ref, NEW as, NEW a, NEW pen2, NEW ref2, NEW as2,
         LeavesOf(usr, con, clr, pen, ref, as, a, pen2, ref2, as2)
  PROVE  AsksAgree(usr, con, clr, pen2, ref2, as2)
<1> DEFINE S == Sharing(as, a)
<1>1. /\ AsksAgree(usr, con, clr, pen, ref, as) /\ a \in Askers /\ as[a].at \in {"idle", "waits", "loading", "done"}
      /\ pen2 = [k \in Listings |-> IF pen[k] = a THEN None ELSE pen[k]]
      /\ ref2 = [k \in Listings |-> IF ref[k] \in S THEN None ELSE ref[k]]
      /\ as2 \in [Askers -> AskRecord]
      /\ \A b \in S :
           /\ as2[b].at \in {"idle", "done"} /\ as2[b].since <= con
           /\ usr = "search" /\ as2[b].at = "done" /\ as2[b].refresh => as2[b].value \in Nat /\ as2[b].since <= as2[b].value
      /\ \A b \in Askers : b \notin S =>
           as2[b] = IF as[b].at = "waits" /\ as[b].of = a THEN [as[b] EXCEPT !.of = None] ELSE as[b]
  BY DEF LeavesOf
<1>2. AsksAre(usr, con, clr, pen, ref, as)
  BY <1>1, AsksParts
<1>20. /\ pen \in [Listings -> Askers \cup {None}] /\ ref \in [Listings -> Askers \cup {None}] /\ as \in [Askers -> AskRecord]
       /\ None \notin Askers
  BY <1>2 DEF AsksAre
<1>21. ASSUME NEW j \in Listings, pen[j] # None
       PROVE  pen[j] \in Askers /\ as[pen[j]].at = "loading" /\ as[pen[j]].key = j /\ as[pen[j]].epoch = clr
  BY <1>2, <1>21 DEF AsksAre
<1>22. ASSUME NEW b \in Askers, as[b].at = "joined" PROVE as[b].of \in Askers /\ as[as[b].of].at = "loading"
  BY <1>2, <1>22 DEF AsksAre
<1>23. ASSUME NEW b \in Askers, as[b].at = "follows"
       PROVE  /\ as[b].key \in Listings /\ as[b].of \in Askers /\ ref[as[b].key] = as[b].of
              /\ as[as[b].of].since = as[b].since
              /\ as[as[b].of].at \in {"waits", "joined", "loading"} /\ as[as[b].of].refresh
  BY <1>2, <1>23 DEF AsksAre
<1>24. ASSUME NEW j \in Listings, ref[j] # None
       PROVE  /\ ref[j] \in Askers /\ as[ref[j]].at \in {"waits", "joined", "loading"} /\ as[ref[j]].key = j
              /\ as[ref[j]].refresh
  BY <1>2, <1>24 DEF AsksAre
<1>25. ASSUME NEW b \in Askers, as[b].at = "waits"
       PROVE  /\ usr = "search" /\ as[b].refresh /\ as[b].value = None
              /\ as[b].of # None => pen[as[b].key] = as[b].of
  BY <1>2, <1>25 DEF AsksAre
<1>26. ASSUME NEW b \in Askers
       PROVE  /\ as[b].since <= con
              /\ as[b].at \in {"loading", "joined", "waits", "follows"} => as[b].key \in Listings
  BY <1>2 DEF AsksAre
<1>27. usr = "search" => NewEnough(pen, as)
  BY <1>2 DEF AsksAre
<1>28. ASSUME NEW b \in S
       PROVE  /\ as2[b].at \in {"idle", "done"} /\ as2[b].since <= con
              /\ usr = "search" /\ as2[b].at = "done" /\ as2[b].refresh => as2[b].value \in Nat /\ as2[b].since <= as2[b].value
  BY <1>1
<1>3. S \subseteq Askers /\ \A b \in Askers :
         /\ b \in S => (b = a) \/ (as[b].at = "joined" /\ as[b].of = a) \/ (as[b].at = "follows" /\ as[b].of \in S)
         /\ b = a => b \in S
         /\ as[b].at = "joined" /\ as[b].of = a => b \in S
         /\ as[b].at = "follows" /\ as[b].of \in S /\ as[as[b].of].at # "follows" => b \in S
  <2>1. S \subseteq Askers
    BY <1>1 DEF Sharing, With
  <2> QED BY <1>1, <1>20, <2>1, SharingFacts
<1> HIDE DEF S
<1>4. ASSUME NEW b \in Askers, b \notin S
      PROVE  /\ as2[b].at = as[b].at /\ as2[b].key = as[b].key /\ as2[b].refresh = as[b].refresh
             /\ as2[b].since = as[b].since /\ as2[b].value = as[b].value /\ as2[b].epoch = as[b].epoch
             /\ ~(as[b].at = "waits" /\ as[b].of = a) => as2[b].of = as[b].of
             /\ (as[b].at = "waits" /\ as[b].of = a) => as2[b].of = None
  <2>1. CASE as[b].at = "waits" /\ as[b].of = a
    <3> DEFINE x == as[b]  s == as[b].at  k == as[b].key  o == as[b].of  f == as[b].refresh  i == as[b].since
               v == as[b].value  e == as[b].epoch  y == [x EXCEPT !.of = None]
    <3>1. x = [at |-> s, key |-> k, of |-> o, refresh |-> f, since |-> i, value |-> v, epoch |-> e] /\ as2[b] = y
      BY <1>1, <1>4, <1>20, <2>1, AskFields
    <3>2. y = [at |-> s, key |-> k, of |-> None, refresh |-> f, since |-> i, value |-> v, epoch |-> e]
      <4> HIDE DEF x, s, k, o, f, i, v, e
      <4> QED BY <3>1, AskWith
    <3> HIDE DEF y
    <3> QED BY <2>1, <3>1, <3>2
  <2>2. CASE ~(as[b].at = "waits" /\ as[b].of = a)
    BY <1>1, <1>4, <2>2
  <2> QED BY <2>1, <2>2
<1>5. /\ \A k \in Listings : pen2[k] = IF pen[k] = a THEN None ELSE pen[k]
      /\ \A k \in Listings : ref2[k] = IF ref[k] \in S THEN None ELSE ref[k]
  BY <1>1
<1>6. AsksTyped(pen2, ref2, as2)
  BY <1>1, <1>20 DEF AsksTyped
<1>7. \A b \in Askers : as[b].at = "loading" /\ b # a => b \notin S
  BY <1>3
<1>8. PendingLoads(clr, pen2, as2)
  <2> SUFFICES ASSUME NEW k \in Listings, pen2[k] # None
               PROVE  as2[pen2[k]].at = "loading" /\ as2[pen2[k]].key = k /\ as2[pen2[k]].epoch = clr
    BY DEF PendingLoads
  <2> DEFINE p == pen[k]
  <2>1. p # None /\ p # a /\ pen2[k] = p
    BY <1>5
  <2>2. p \in Askers /\ as[p].at = "loading" /\ as[p].key = k /\ as[p].epoch = clr
    BY <1>21, <2>1
  <2>3. p \notin S
    BY <1>7, <2>1, <2>2
  <2> HIDE DEF p
  <2>4. as2[p].at = as[p].at /\ as2[p].key = as[p].key /\ as2[p].epoch = as[p].epoch
    BY <1>4, <2>2, <2>3
  <2> QED BY <2>1, <2>2, <2>4
<1>9. ASSUME NEW b \in Askers, as2[b].at = "joined"
      PROVE  b \notin S /\ as[b].at = "joined" /\ as2[b].of = as[b].of /\ as[b].of \in Askers /\ as[b].of \notin S
             /\ as2[as[b].of].at = "loading"
  <2>1. b \notin S
    BY <1>9, <1>28
  <2>2. as[b].at = "joined" /\ as2[b].of = as[b].of
    BY <1>4, <1>9, <2>1
  <2> DEFINE o == as[b].of
  <2>3. o \in Askers /\ as[o].at = "loading"
    BY <1>22, <2>2
  <2>4. o # a
    BY <1>3, <2>1, <2>2
  <2>5. o \notin S
    BY <1>7, <2>3, <2>4
  <2> HIDE DEF o
  <2>6. as2[o].at = "loading"
    BY <1>4, <2>3, <2>5
  <2> USE DEF o
  <2> QED BY <2>1, <2>2, <2>3, <2>5, <2>6
<1>10. JoinedLoads(as2)
  BY <1>9 DEF JoinedLoads
<1>11. Followed(ref2, as2)
  <2> SUFFICES ASSUME NEW b \in Askers, as2[b].at = "follows"
               PROVE  /\ as2[b].key \in Listings /\ as2[b].of # None /\ ref2[as2[b].key] = as2[b].of
                      /\ as2[as2[b].of].since = as2[b].since
    BY DEF Followed
  <2>0. b \notin S
    BY <1>28
  <2>1. as[b].at = "follows" /\ as2[b].of = as[b].of /\ as2[b].key = as[b].key /\ as2[b].since = as[b].since
    BY <1>4, <2>0
  <2> DEFINE o == as[b].of  k == as[b].key
  <2>2. o \in Askers /\ as[o].since = as[b].since /\ k \in Listings /\ ref[k] = o /\ as[o].at # "follows"
    BY <1>23, <2>1
  <2>3. o \notin S
    BY <1>3, <2>0, <2>1, <2>2
  <2> HIDE DEF o, k
  <2>4. as2[o].since = as[o].since
    BY <1>4, <2>2, <2>3
  <2>5. ref2[k] = o
    BY <1>5, <2>2, <2>3
  <2>6. as2[b].of = o /\ as2[b].key = k
    BY <2>1 DEF o, k
  <2> QED BY <1>20, <2>1, <2>2, <2>4, <2>5, <2>6
<1>12. Owners(ref2, as2)
  <2> SUFFICES ASSUME NEW k \in Listings, ref2[k] # None
               PROVE  as2[ref2[k]].at \in {"waits", "joined", "loading"} /\ as2[ref2[k]].key = k /\ as2[ref2[k]].refresh
    BY DEF Owners
  <2> DEFINE o == ref[k]
  <2>1. o # None /\ o \notin S /\ ref2[k] = o
    BY <1>5
  <2>2. o \in Askers /\ as[o].at \in {"waits", "joined", "loading"} /\ as[o].key = k /\ as[o].refresh
    BY <1>24, <2>1
  <2> HIDE DEF o
  <2>3. as2[o].at = as[o].at /\ as2[o].key = as[o].key /\ as2[o].refresh = as[o].refresh
    BY <1>4, <2>1, <2>2
  <2> QED BY <2>1, <2>2, <2>3
<1>13. Waiting(usr, pen2, as2)
  <2> SUFFICES ASSUME NEW b \in Askers, as2[b].at = "waits"
               PROVE  /\ usr = "search" /\ as2[b].refresh /\ as2[b].value = None
                      /\ as2[b].of # None => pen2[as2[b].key] = as2[b].of
    BY DEF Waiting
  <2>1. b \notin S
    BY <1>28
  <2>2. /\ as[b].at = "waits" /\ as2[b].key = as[b].key /\ as2[b].refresh = as[b].refresh /\ as2[b].value = as[b].value
        /\ as[b].of # a => as2[b].of = as[b].of
        /\ as[b].of = a => as2[b].of = None
    BY <1>4, <2>1
  <2>3. /\ usr = "search" /\ as[b].refresh /\ as[b].value = None
        /\ as[b].of # None => pen[as[b].key] = as[b].of
    BY <1>25, <2>2
  <2>4. as[b].key \in Listings
    BY <1>26, <2>2
  <2>5. as2[b].of # None => pen2[as2[b].key] = as2[b].of
    <3> DEFINE k == as[b].key  o == as[b].of
    <3> SUFFICES ASSUME as2[b].of # None PROVE pen2[k] = as2[b].of
      BY <2>2
    <3>1. o # a /\ as2[b].of = o
      BY <2>2
    <3>2. pen[k] = o /\ k \in Listings
      BY <2>3, <2>4, <3>1
    <3> HIDE DEF k, o
    <3> QED BY <1>5, <3>1, <3>2
  <2> QED BY <2>2, <2>3, <2>5
<1>14. Known(con, as2)
  <2> SUFFICES ASSUME NEW b \in Askers
               PROVE  /\ as2[b].since <= con
                      /\ as2[b].at \in {"loading", "joined", "waits", "follows"} => as2[b].key \in Listings
    BY DEF Known
  <2>1. CASE b \in S
    BY <1>28, <2>1
  <2>2. CASE b \notin S
    BY <1>4, <1>26, <2>2
  <2> QED BY <2>1, <2>2
<1>15. ASSUME usr = "search" PROVE NewEnough(pen2, as2)
  <2>1. NewEnough(pen, as)
    BY <1>15, <1>27
  <2>2. ASSUME NEW b \in Askers, as2[b].at = "loading" /\ as2[b].value # None /\ as2[b].refresh
        PROVE  as2[b].since <= as2[b].value
    <3>1. b \notin S
      BY <1>28, <2>2
    <3> QED BY <1>4, <2>1, <2>2, <3>1 DEF NewEnough
  <2>3. ASSUME NEW b \in Askers, as2[b].at = "joined" /\ as2[b].refresh /\ as2[as2[b].of].value # None
        PROVE  as2[b].since <= as2[as2[b].of].value
    <3>1. b \notin S /\ as[b].at = "joined" /\ as2[b].of = as[b].of /\ as[b].of \in Askers /\ as[b].of \notin S
      BY <1>9, <2>3
    <3>2. as2[as[b].of].value = as[as[b].of].value /\ as2[b].since = as[b].since /\ as[b].refresh
      BY <1>4, <2>3, <3>1
    <3> QED BY <2>1, <2>3, <3>1, <3>2 DEF NewEnough
  <2>4. ASSUME NEW b \in Askers, as2[b].at = "waits" /\ as2[b].of = None /\ pen2[as2[b].key] # None
                       /\ as2[pen2[as2[b].key]].value # None
        PROVE  as2[b].since <= as2[pen2[as2[b].key]].value
    <3>0. b \notin S
      BY <1>28, <2>4
    <3>1. as[b].at = "waits" /\ as2[b].key = as[b].key /\ as[b].key \in Listings /\ as2[b].since = as[b].since
      BY <1>4, <1>26, <2>4, <3>0
    <3> DEFINE p == pen[as[b].key]
    <3>2. p # None /\ p # a /\ pen2[as[b].key] = p
      BY <1>5, <2>4, <3>1
    <3>3. p \in Askers /\ p \notin S /\ as2[p].value = as[p].value
      <4>1. p \in Askers /\ as[p].at = "loading"
        BY <1>21, <3>1, <3>2
      <4> HIDE DEF p
      <4>2. p \notin S
        BY <1>7, <3>2, <4>1
      <4> QED BY <1>4, <4>1, <4>2
    <3>4. as[b].of = None
      <4>1. as[b].of = a => pen[as[b].key] = a
        BY <1>1, <1>20, <1>25, <3>1
      <4>2. as[b].of # a
        BY <3>2, <4>1
      <4> QED BY <1>4, <2>4, <3>0, <3>1, <4>2
    <3> QED BY <2>1, <2>4, <3>1, <3>2, <3>3, <3>4 DEF NewEnough
  <2>5. ASSUME NEW b \in Askers, as2[b].at = "done" /\ as2[b].refresh
        PROVE  as2[b].value \in Nat /\ as2[b].since <= as2[b].value
    <3>1. CASE b \in S
      BY <1>15, <1>28, <2>5, <3>1
    <3>2. CASE b \notin S
      BY <1>4, <2>1, <2>5, <3>2 DEF NewEnough
    <3> QED BY <3>1, <3>2
  <2> QED BY <2>2, <2>3, <2>4, <2>5 DEF NewEnough
<1> QED
  BY <1>6, <1>8, <1>10, <1>11, <1>12, <1>13, <1>14, <1>15 DEF AsksAgree

\* The call of a goes on: it joins the load of k, starts one, waits to refresh
\* k, or follows the refresh of k.
MovesOf(usr, con, clr, pen, ref, as, a, k, r, pen2, ref2, as2) ==
  /\ AsksAgree(usr, con, clr, pen, ref, as) /\ a \in Askers /\ k \in Listings
  /\ as[a].at = "idle" \/ (as[a].at = "waits" /\ as[a].of = None /\ as[a].key = k)
  /\ r \in AskRecord /\ r.key = k /\ r.since <= con
  /\ r.at \in {"joined", "loading", "waits", "follows"}
  /\ as[a].at = "waits" => r.at \in {"joined", "loading"} /\ r.since = as[a].since /\ r.refresh
  /\ as2 = [as EXCEPT ![a] = r]
  /\ r.at # "loading" => pen2 = pen
  /\ r.at # "waits" => ref2 = ref
  /\ r.at = "joined" => r.of = pen[k] /\ pen[k] # None /\ (usr = "search" /\ r.refresh => as[a].at = "waits")
  /\ r.at = "loading" => pen[k] = None /\ r.value = None /\ r.epoch = clr /\ pen2 = [pen EXCEPT ![k] = a]
  /\ r.at = "waits" => /\ usr = "search" /\ r.refresh /\ r.value = None /\ r.of = pen[k]
                       /\ ref[k] = None /\ ref2 = [ref EXCEPT ![k] = a]
  /\ r.at = "follows" => ref[k] # None /\ r.of = ref[k] /\ r.since = as[ref[k]].since

\* ... which agrees.
LEMMA MovesAgrees ==
  ASSUME NEW usr, NEW con, NEW clr, NEW pen, NEW ref, NEW as, NEW a, NEW k, NEW r, NEW pen2, NEW ref2, NEW as2,
         MovesOf(usr, con, clr, pen, ref, as, a, k, r, pen2, ref2, as2)
  PROVE  AsksAgree(usr, con, clr, pen2, ref2, as2)
<1>1. /\ AsksAgree(usr, con, clr, pen, ref, as) /\ a \in Askers /\ k \in Listings
      /\ as[a].at = "idle" \/ (as[a].at = "waits" /\ as[a].of = None /\ as[a].key = k)
      /\ r \in AskRecord /\ r.key = k /\ r.since <= con
      /\ r.at \in {"joined", "loading", "waits", "follows"}
      /\ as[a].at = "waits" => r.at \in {"joined", "loading"} /\ r.since = as[a].since /\ r.refresh
      /\ as2 = [as EXCEPT ![a] = r]
      /\ r.at # "loading" => pen2 = pen
      /\ r.at # "waits" => ref2 = ref
  BY DEF MovesOf
<1>11. r.at = "joined" => r.of = pen[k] /\ pen[k] # None /\ (usr = "search" /\ r.refresh => as[a].at = "waits")
  BY DEF MovesOf
<1>12. r.at = "loading" => pen[k] = None /\ r.value = None /\ r.epoch = clr /\ pen2 = [pen EXCEPT ![k] = a]
  BY DEF MovesOf
<1>13. r.at = "waits" => /\ usr = "search" /\ r.refresh /\ r.value = None /\ r.of = pen[k]
                         /\ ref[k] = None /\ ref2 = [ref EXCEPT ![k] = a]
  BY DEF MovesOf
<1>14. r.at = "follows" => ref[k] # None /\ r.of = ref[k] /\ r.since = as[ref[k]].since
  BY DEF MovesOf
<1>2. AsksAre(usr, con, clr, pen, ref, as)
  BY <1>1, AsksParts
<1>20. /\ pen \in [Listings -> Askers \cup {None}] /\ ref \in [Listings -> Askers \cup {None}] /\ as \in [Askers -> AskRecord]
       /\ None \notin Askers
  BY <1>2 DEF AsksAre
<1>21. ASSUME NEW j \in Listings, pen[j] # None
       PROVE  pen[j] \in Askers /\ as[pen[j]].at = "loading" /\ as[pen[j]].key = j /\ as[pen[j]].epoch = clr
  BY <1>2, <1>21 DEF AsksAre
<1>22. ASSUME NEW b \in Askers, as[b].at = "joined" PROVE as[b].of \in Askers /\ as[as[b].of].at = "loading"
  BY <1>2, <1>22 DEF AsksAre
<1>23. ASSUME NEW b \in Askers, as[b].at = "follows"
       PROVE  /\ as[b].key \in Listings /\ as[b].of \in Askers /\ ref[as[b].key] = as[b].of
              /\ as[as[b].of].since = as[b].since
              /\ as[as[b].of].at \in {"waits", "joined", "loading"} /\ as[as[b].of].refresh
  BY <1>2, <1>23 DEF AsksAre
<1>24. ASSUME NEW j \in Listings, ref[j] # None
       PROVE  /\ ref[j] \in Askers /\ as[ref[j]].at \in {"waits", "joined", "loading"} /\ as[ref[j]].key = j
              /\ as[ref[j]].refresh
  BY <1>2, <1>24 DEF AsksAre
<1>25. ASSUME NEW b \in Askers, as[b].at = "waits"
       PROVE  /\ usr = "search" /\ as[b].refresh /\ as[b].value = None
              /\ as[b].of # None => pen[as[b].key] = as[b].of
  BY <1>2, <1>25 DEF AsksAre
<1>26. ASSUME NEW b \in Askers
       PROVE  /\ as[b].since <= con
              /\ as[b].at \in {"loading", "joined", "waits", "follows"} => as[b].key \in Listings
  BY <1>2 DEF AsksAre
<1>27. usr = "search" => NewEnough(pen, as)
  BY <1>2 DEF AsksAre
<1>3. as2[a] = r /\ \A b \in Askers : b # a => as2[b] = as[b]
  BY <1>1, <1>20
<1>4. pen2 \in [Listings -> Askers \cup {None}] /\ ref2 \in [Listings -> Askers \cup {None}]
      /\ (\A j \in Listings : j # k => pen2[j] = pen[j] /\ ref2[j] = ref[j])
      /\ pen2[k] = (IF r.at = "loading" THEN a ELSE pen[k])
      /\ ref2[k] = (IF r.at = "waits" THEN a ELSE ref[k])
  <2>1. pen2 \in [Listings -> Askers \cup {None}] /\ (\A j \in Listings : j # k => pen2[j] = pen[j])
        /\ pen2[k] = (IF r.at = "loading" THEN a ELSE pen[k])
    BY <1>1, <1>12, <1>20
  <2>2. ref2 \in [Listings -> Askers \cup {None}] /\ (\A j \in Listings : j # k => ref2[j] = ref[j])
        /\ ref2[k] = (IF r.at = "waits" THEN a ELSE ref[k])
    BY <1>1, <1>13, <1>20
  <2> QED BY <2>1, <2>2
<1>5. AsksTyped(pen2, ref2, as2)
  <2>1. as2 \in [Askers -> AskRecord]
    BY <1>1, <1>20
  <2> QED BY <1>4, <2>1 DEF AsksTyped
<1>6. \A b \in Askers : as[b].at = "loading" => b # a
  BY <1>1
<1>7. PendingLoads(clr, pen2, as2)
  <2> SUFFICES ASSUME NEW j \in Listings, pen2[j] # None
               PROVE  as2[pen2[j]].at = "loading" /\ as2[pen2[j]].key = j /\ as2[pen2[j]].epoch = clr
    BY DEF PendingLoads
  <2>1. CASE j = k /\ r.at = "loading"
    <3>1. pen2[j] = a /\ as2[a] = r
      BY <1>3, <1>4, <2>1
    <3>2. r.at = "loading" /\ r.key = j /\ r.epoch = clr
      BY <1>1, <1>12, <2>1
    <3> QED BY <3>1, <3>2
  <2>2. CASE ~(j = k /\ r.at = "loading")
    <3> DEFINE p == pen[j]
    <3>1. pen2[j] = p /\ p # None
      BY <1>4, <2>2
    <3>2. p \in Askers /\ as[p].at = "loading" /\ as[p].key = j /\ as[p].epoch = clr
      BY <1>21, <3>1
    <3> HIDE DEF p
    <3>3. as2[p] = as[p]
      BY <1>3, <1>6, <3>2
    <3> QED BY <3>1, <3>2, <3>3
  <2> QED BY <2>1, <2>2
<1>8. ASSUME NEW b \in Askers, as2[b].at = "joined"
      PROVE  as2[b].of \in Askers /\ as2[b].of # a /\ as[as2[b].of].at = "loading" /\ as2[as2[b].of] = as[as2[b].of]
  <2> DEFINE o == as2[b].of
  <2>1. CASE b = a
    <3>1. o = pen[k] /\ pen[k] # None
      BY <1>3, <1>8, <1>11, <2>1
    <3>2. o \in Askers /\ as[o].at = "loading"
      BY <1>1, <1>21, <3>1
    <3> HIDE DEF o
    <3>3. o # a /\ as2[o] = as[o]
      BY <1>3, <1>6, <3>2
    <3> QED BY <3>2, <3>3 DEF o
  <2>2. CASE b # a
    <3>1. o = as[b].of /\ as[b].at = "joined"
      BY <1>3, <1>8, <2>2
    <3>2. o \in Askers /\ as[o].at = "loading"
      BY <1>22, <3>1
    <3> HIDE DEF o
    <3>3. o # a /\ as2[o] = as[o]
      BY <1>3, <1>6, <3>2
    <3> QED BY <3>2, <3>3 DEF o
  <2> QED BY <2>1, <2>2
<1>9. JoinedLoads(as2)
  BY <1>8 DEF JoinedLoads
\* Whoever owned a refresh still owns it, and asked for it when it did.
<1>10. ASSUME NEW o \in Askers, as[o].at \in {"waits", "joined", "loading"}, as[o].refresh
       PROVE  as2[o].at \in {"waits", "joined", "loading"} /\ as2[o].refresh /\ as2[o].since = as[o].since
              /\ as2[o].key = as[o].key
  <2>1. CASE o = a
    <3>1. as[a].at = "waits" /\ as[a].key = k
      BY <1>1, <1>10, <2>1
    <3> QED BY <1>1, <1>3, <2>1, <3>1
  <2>2. CASE o # a
    BY <1>3, <1>10, <2>2
  <2> QED BY <2>1, <2>2
<1>15. Followed(ref2, as2)
  <2> SUFFICES ASSUME NEW b \in Askers, as2[b].at = "follows"
               PROVE  /\ as2[b].key \in Listings /\ as2[b].of # None /\ ref2[as2[b].key] = as2[b].of
                      /\ as2[as2[b].of].since = as2[b].since
    BY DEF Followed
  <2> DEFINE j == as2[b].key  o == as2[b].of
  <2>1. j \in Listings /\ o # None /\ ref[j] = o /\ as[o].since = as2[b].since
    <3>1. CASE b = a
      BY <1>1, <1>3, <1>14, <3>1
    <3>2. CASE b # a
      <4>1. as2[b] = as[b]
        BY <1>3, <3>2
      <4> QED BY <1>20, <1>23, <4>1
    <3> QED BY <3>1, <3>2
  <2> HIDE DEF j, o
  <2>2. o \in Askers /\ as[o].at \in {"waits", "joined", "loading"} /\ as[o].refresh
    BY <1>24, <2>1
  <2>3. as2[o].since = as[o].since
    BY <1>10, <2>2
  <2>4. ref2[j] = o
    BY <1>4, <1>13, <2>1
  <2> USE DEF j, o
  <2> QED BY <2>1, <2>3, <2>4
<1>16. Owners(ref2, as2)
  <2> SUFFICES ASSUME NEW j \in Listings, ref2[j] # None
               PROVE  as2[ref2[j]].at \in {"waits", "joined", "loading"} /\ as2[ref2[j]].key = j /\ as2[ref2[j]].refresh
    BY DEF Owners
  <2>1. CASE j = k /\ r.at = "waits"
    <3>1. ref2[j] = a /\ as2[a] = r
      BY <1>3, <1>4, <2>1
    <3>2. r.at = "waits" /\ r.key = j /\ r.refresh
      BY <1>1, <1>13, <2>1
    <3> QED BY <3>1, <3>2
  <2>2. CASE ~(j = k /\ r.at = "waits")
    <3> DEFINE o == ref[j]
    <3>1. ref2[j] = o /\ o # None
      BY <1>4, <2>2
    <3>2. o \in Askers /\ as[o].at \in {"waits", "joined", "loading"} /\ as[o].key = j /\ as[o].refresh
      BY <1>24, <3>1
    <3> HIDE DEF o
    <3> QED BY <1>10, <3>1, <3>2
  <2> QED BY <2>1, <2>2
<1>17. Waiting(usr, pen2, as2)
  <2> SUFFICES ASSUME NEW b \in Askers, as2[b].at = "waits"
               PROVE  /\ usr = "search" /\ as2[b].refresh /\ as2[b].value = None
                      /\ as2[b].of # None => pen2[as2[b].key] = as2[b].of
    BY DEF Waiting
  <2>1. CASE b = a
    <3>1. as2[b] = r /\ r.at = "waits"
      BY <1>3, <2>1
    <3>2. usr = "search" /\ r.refresh /\ r.value = None /\ r.of = pen[k] /\ r.key = k
      BY <1>1, <1>13, <3>1
    <3>3. pen2 = pen
      BY <1>1, <3>1
    <3> QED BY <3>1, <3>2, <3>3
  <2>2. CASE b # a
    <3>1. as2[b] = as[b] /\ as[b].at = "waits"
      BY <1>3, <2>2
    <3>2. /\ usr = "search" /\ as[b].refresh /\ as[b].value = None
          /\ as[b].of # None => pen[as[b].key] = as[b].of
      BY <1>25, <3>1
    <3>3. as[b].key \in Listings
      BY <1>26, <3>1
    <3>4. as[b].of # None => pen2[as[b].key] = as[b].of
      BY <1>4, <1>12, <3>2, <3>3
    <3> QED BY <3>1, <3>2, <3>4
  <2> QED BY <2>1, <2>2
<1>18. Known(con, as2)
  <2> SUFFICES ASSUME NEW b \in Askers
               PROVE  /\ as2[b].since <= con
                      /\ as2[b].at \in {"loading", "joined", "waits", "follows"} => as2[b].key \in Listings
    BY DEF Known
  <2>1. CASE b = a
    BY <1>1, <1>3, <2>1
  <2>2. CASE b # a
    BY <1>3, <1>26, <2>2
  <2> QED BY <2>1, <2>2
<1>19. ASSUME usr = "search" PROVE NewEnough(pen2, as2)
  <2>1. NewEnough(pen, as)
    BY <1>19, <1>27
  <2>2. ASSUME NEW b \in Askers, as2[b].at = "loading" /\ as2[b].value # None /\ as2[b].refresh
        PROVE  as2[b].since <= as2[b].value
    <3>1. b # a
      BY <1>3, <1>12, <2>2
    <3>2. as2[b] = as[b]
      BY <1>3, <3>1
    <3> QED BY <2>1, <2>2, <3>2 DEF NewEnough
  <2>3. ASSUME NEW b \in Askers, as2[b].at = "joined" /\ as2[b].refresh /\ as2[as2[b].of].value # None
        PROVE  as2[b].since <= as2[as2[b].of].value
    <3> DEFINE o == as2[b].of
    <3>1. o \in Askers /\ o # a /\ as2[o] = as[o]
      BY <1>8, <2>3
    <3>2. CASE b # a
      <4>1. as2[b] = as[b]
        BY <1>3, <3>2
      <4>2. as[b].since <= as[o].value
        BY <2>1, <2>3, <3>1, <4>1 DEF NewEnough
      <4> QED BY <3>1, <4>1, <4>2
    <3>3. CASE b = a
      <4>1. r.at = "joined" /\ r.refresh /\ o = r.of /\ as2[b] = r
        BY <1>3, <2>3, <3>3
      <4>2. as[a].at = "waits" /\ o = pen[k] /\ pen[k] # None
        BY <1>11, <1>19, <4>1
      <4>3. as[a].of = None /\ as[a].key = k /\ r.since = as[a].since
        BY <1>1, <4>2
      <4>4. as[o].value # None
        BY <2>3, <3>1
      <4>5. as[a].since <= as[pen[as[a].key]].value
        <5> HIDE DEF o
        <5> QED BY <1>1, <2>1, <4>2, <4>3, <4>4 DEF NewEnough
      <4> HIDE DEF o
      <4>6. as2[b].since <= as2[o].value
        BY <3>1, <4>1, <4>2, <4>3, <4>5
      <4> QED BY <4>6 DEF o
    <3> QED BY <3>2, <3>3
  <2>4. ASSUME NEW b \in Askers, as2[b].at = "waits" /\ as2[b].of = None /\ pen2[as2[b].key] # None
                       /\ as2[pen2[as2[b].key]].value # None
        PROVE  as2[b].since <= as2[pen2[as2[b].key]].value
    <3> DEFINE j == as2[b].key  p == pen2[j]
    <3>1. b # a
      BY <1>3, <1>4, <1>13, <1>1, <2>4
    <3>2. as2[b] = as[b] /\ as[b].at = "waits" /\ as[b].of = None /\ as[b].key = j /\ as[b].since = as2[b].since
      BY <1>3, <2>4, <3>1
    <3>3. j \in Listings
      BY <1>26, <3>2
    <3>4. p # None /\ as2[p].value # None
      BY <2>4
    <3> HIDE DEF j, p
    <3>5. p # a
      <4> SUFFICES ASSUME p = a PROVE FALSE
        OBVIOUS
      <4>1. j = k /\ r.at = "loading"
        <5>1. pen[j] # a
          <6> DEFINE q == pen[j]
          <6>1. q # None => as[q].at = "loading"
            BY <1>21, <3>3
          <6> HIDE DEF q
          <6>2. q # a
            BY <1>1, <1>20, <6>1
          <6> QED BY <6>2 DEF q
        <5> QED BY <1>4, <3>3, <5>1 DEF p
      <4> QED BY <1>3, <1>12, <3>4, <4>1
    <3>6. p = pen[j]
      BY <1>4, <3>3, <3>5 DEF p
    <3>7. p \in Askers
      BY <1>21, <3>3, <3>4, <3>6
    <3>8. as2[p] = as[p]
      BY <1>3, <3>5, <3>7
    <3>9. as[b].since <= as[pen[as[b].key]].value
      BY <2>1, <3>2, <3>4, <3>6, <3>8 DEF NewEnough
    <3>10. as2[b].since <= as2[p].value
      BY <3>2, <3>6, <3>8, <3>9
    <3> QED BY <3>10 DEF p, j
  <2>5. ASSUME NEW b \in Askers, as2[b].at = "done" /\ as2[b].refresh
        PROVE  as2[b].value \in Nat /\ as2[b].since <= as2[b].value
    <3>1. as2[b] = as[b]
      BY <1>1, <1>3, <2>5
    <3> QED BY <2>1, <2>5, <3>1 DEF NewEnough
  <2> QED BY <2>2, <2>3, <2>4, <2>5 DEF NewEnough
<1> QED
  BY <1>5, <1>7, <1>9, <1>15, <1>16, <1>17, <1>18, <1>19 DEF AsksAgree

\* A call with another value.
LEMMA ValueWith ==
  ASSUME NEW x, NEW s, NEW k, NEW o, NEW f, NEW i, NEW v, NEW e, NEW y,
         x = [at |-> s, key |-> k, of |-> o, refresh |-> f, since |-> i, value |-> v, epoch |-> e]
  PROVE  [x EXCEPT !.value = y] = [at |-> s, key |-> k, of |-> o, refresh |-> f, since |-> i, value |-> y, epoch |-> e]
OBVIOUS

\* A load reads what the server has: nobody who waits for it asked later.
LoadsOf(usr, con, clr, pen, ref, as, a, as2) ==
  /\ AsksAgree(usr, con, clr, pen, ref, as) /\ a \in Askers /\ as[a].at = "loading" /\ as[a].value = None
  /\ con \in 0..MaxVersion /\ as2 = [as EXCEPT ![a].value = con]

\* ... which is why it is new enough for each of them.
LEMMA LoadsAgrees ==
  ASSUME NEW usr, NEW con, NEW clr, NEW pen, NEW ref, NEW as, NEW a, NEW as2,
         LoadsOf(usr, con, clr, pen, ref, as, a, as2)
  PROVE  AsksAgree(usr, con, clr, pen, ref, as2)
<1>1. /\ AsksAgree(usr, con, clr, pen, ref, as) /\ a \in Askers /\ as[a].at = "loading" /\ as[a].value = None
      /\ con \in 0..MaxVersion /\ as2 = [as EXCEPT ![a].value = con]
  BY DEF LoadsOf
<1>2. AsksAre(usr, con, clr, pen, ref, as)
  BY <1>1, AsksParts
<1>20. /\ pen \in [Listings -> Askers \cup {None}] /\ ref \in [Listings -> Askers \cup {None}] /\ as \in [Askers -> AskRecord]
       /\ None \notin Askers
  BY <1>2 DEF AsksAre
<1>21. ASSUME NEW k \in Listings, pen[k] # None
       PROVE  pen[k] \in Askers /\ as[pen[k]].at = "loading" /\ as[pen[k]].key = k /\ as[pen[k]].epoch = clr
  BY <1>2, <1>21 DEF AsksAre
<1>22. ASSUME NEW b \in Askers, as[b].at = "joined" PROVE as[b].of \in Askers /\ as[as[b].of].at = "loading"
  BY <1>2, <1>22 DEF AsksAre
<1>23. ASSUME NEW b \in Askers, as[b].at = "follows"
       PROVE  /\ as[b].key \in Listings /\ as[b].of \in Askers /\ ref[as[b].key] = as[b].of
              /\ as[as[b].of].since = as[b].since
              /\ as[as[b].of].at \in {"waits", "joined", "loading"} /\ as[as[b].of].refresh
  BY <1>2, <1>23 DEF AsksAre
<1>24. ASSUME NEW k \in Listings, ref[k] # None
       PROVE  /\ ref[k] \in Askers /\ as[ref[k]].at \in {"waits", "joined", "loading"} /\ as[ref[k]].key = k
              /\ as[ref[k]].refresh
  BY <1>2, <1>24 DEF AsksAre
<1>25. ASSUME NEW b \in Askers, as[b].at = "waits"
       PROVE  /\ usr = "search" /\ as[b].refresh /\ as[b].value = None
              /\ as[b].of # None => pen[as[b].key] = as[b].of
  BY <1>2, <1>25 DEF AsksAre
<1>26. ASSUME NEW b \in Askers
       PROVE  /\ as[b].since <= con
              /\ as[b].at \in {"loading", "joined", "waits", "follows"} => as[b].key \in Listings
  BY <1>2 DEF AsksAre
<1>27. usr = "search" => NewEnough(pen, as)
  BY <1>2 DEF AsksAre
<1>3. /\ as2 \in [Askers -> AskRecord] /\ as2[a].value = con
      /\ \A b \in Askers : /\ as2[b].at = as[b].at /\ as2[b].key = as[b].key /\ as2[b].of = as[b].of
                           /\ as2[b].refresh = as[b].refresh /\ as2[b].since = as[b].since /\ as2[b].epoch = as[b].epoch
                           /\ b # a => as2[b].value = as[b].value
  <2> DEFINE x == as[a]  s == as[a].at  k == as[a].key  o == as[a].of  f == as[a].refresh  i == as[a].since
             v == as[a].value  e == as[a].epoch  y == [x EXCEPT !.value = con]
  <2>1. /\ x = [at |-> s, key |-> k, of |-> o, refresh |-> f, since |-> i, value |-> v, epoch |-> e]
        /\ s \in {"idle", "loading", "joined", "waits", "follows", "done"} /\ k \in Listings \cup {None}
        /\ o \in Askers \cup {None} /\ f \in BOOLEAN /\ i \in 0..MaxVersion /\ e \in 0..MaxCleared
    BY <1>1, <1>20, AskFields
  <2>2. y = [at |-> s, key |-> k, of |-> o, refresh |-> f, since |-> i, value |-> con, epoch |-> e]
    <3> DEFINE c == con
    <3>1. x = [at |-> s, key |-> k, of |-> o, refresh |-> f, since |-> i, value |-> v, epoch |-> e]
      BY <2>1
    <3> HIDE DEF x, s, k, o, f, i, v, e, c
    <3>2. [x EXCEPT !.value = c] = [at |-> s, key |-> k, of |-> o, refresh |-> f, since |-> i, value |-> c, epoch |-> e]
      BY <3>1, ValueWith
    <3> QED BY <3>2 DEF c
  <2>3. y \in AskRecord
    <3> DEFINE c == con
    <3>1. c \in 0..MaxVersion \cup {None}
      BY <1>1
    <3>2. y = [at |-> s, key |-> k, of |-> o, refresh |-> f, since |-> i, value |-> c, epoch |-> e]
      BY <2>2
    <3>3. /\ s \in {"idle", "loading", "joined", "waits", "follows", "done"} /\ k \in Listings \cup {None}
          /\ o \in Askers \cup {None} /\ f \in BOOLEAN /\ i \in 0..MaxVersion /\ e \in 0..MaxCleared
      BY <2>1
    <3> HIDE DEF x, s, k, o, f, i, v, e, y, c
    <3>4. [at |-> s, key |-> k, of |-> o, refresh |-> f, since |-> i, value |-> c, epoch |-> e] \in AskRecord
      BY <3>1, <3>3, MakeAsk
    <3> QED BY <3>2, <3>4
  <2>4. as2[a] = y /\ \A b \in Askers : b # a => as2[b] = as[b]
    BY <1>1, <1>20
  <2>5. as2 \in [Askers -> AskRecord]
    <3> HIDE DEF y
    <3>1. as2 = [as EXCEPT ![a] = y]
      BY <1>1 DEF y
    <3> QED BY <1>20, <2>3, <3>1
  <2> HIDE DEF y
  <2>6. as2[a].at = as[a].at /\ as2[a].key = as[a].key /\ as2[a].of = as[a].of
        /\ as2[a].refresh = as[a].refresh /\ as2[a].since = as[a].since /\ as2[a].epoch = as[a].epoch
        /\ as2[a].value = con
    BY <2>2, <2>4
  <2> QED BY <2>4, <2>5, <2>6
<1>5. AsksTyped(pen, ref, as2)
  BY <1>3, <1>20 DEF AsksTyped
<1>7. PendingLoads(clr, pen, as2)
  BY <1>3, <1>21 DEF PendingLoads
<1>9. JoinedLoads(as2)
  <2> SUFFICES ASSUME NEW b \in Askers, as2[b].at = "joined"
               PROVE  as2[b].of \in Askers /\ as2[as2[b].of].at = "loading"
    BY DEF JoinedLoads
  <2> DEFINE o == as2[b].of
  <2>1. o = as[b].of /\ as[b].at = "joined"
    BY <1>3
  <2>2. o \in Askers /\ as[o].at = "loading"
    BY <1>22, <2>1
  <2> HIDE DEF o
  <2>3. as2[o].at = "loading"
    BY <1>3, <2>2
  <2> QED BY <2>2, <2>3 DEF o
<1>15. Followed(ref, as2)
  <2> SUFFICES ASSUME NEW b \in Askers, as2[b].at = "follows"
               PROVE  /\ as2[b].key \in Listings /\ as2[b].of # None /\ ref[as2[b].key] = as2[b].of
                      /\ as2[as2[b].of].since = as2[b].since
    BY DEF Followed
  <2> DEFINE o == as[b].of
  <2>1. as[b].at = "follows" /\ as2[b].of = o /\ as2[b].key = as[b].key /\ as2[b].since = as[b].since
    BY <1>3
  <2>2. as[b].key \in Listings /\ o \in Askers /\ ref[as[b].key] = o /\ as[o].since = as[b].since
    BY <1>23, <2>1
  <2> HIDE DEF o
  <2>3. as2[o].since = as[o].since
    BY <1>3, <2>2
  <2> QED BY <1>20, <2>1, <2>2, <2>3
<1>16. Owners(ref, as2)
  BY <1>3, <1>24 DEF Owners
<1>17. Waiting(usr, pen, as2)
  <2> SUFFICES ASSUME NEW b \in Askers, as2[b].at = "waits"
               PROVE  /\ usr = "search" /\ as2[b].refresh /\ as2[b].value = None
                      /\ as2[b].of # None => pen[as2[b].key] = as2[b].of
    BY DEF Waiting
  <2>1. as[b].at = "waits" /\ b # a
    BY <1>1, <1>3
  <2>2. /\ usr = "search" /\ as[b].refresh /\ as[b].value = None
        /\ as[b].of # None => pen[as[b].key] = as[b].of
    BY <1>25, <2>1
  <2> QED BY <1>3, <2>1, <2>2
<1>18. Known(con, as2)
  <2> SUFFICES ASSUME NEW b \in Askers
               PROVE  /\ as2[b].since <= con
                      /\ as2[b].at \in {"loading", "joined", "waits", "follows"} => as2[b].key \in Listings
    BY DEF Known
  <2> QED BY <1>3, <1>26
<1>19. ASSUME usr = "search" PROVE NewEnough(pen, as2)
  <2>1. NewEnough(pen, as)
    BY <1>19, <1>27
  <2>0. ASSUME NEW b \in Askers PROVE as2[b].since <= con
    BY <1>3, <1>26
  <2>2. ASSUME NEW b \in Askers, as2[b].at = "loading" /\ as2[b].value # None /\ as2[b].refresh
        PROVE  as2[b].since <= as2[b].value
    <3>1. CASE b = a
      BY <1>3, <2>0, <3>1
    <3>2. CASE b # a
      BY <1>3, <2>1, <2>2, <3>2 DEF NewEnough
    <3> QED BY <3>1, <3>2
  <2>3. ASSUME NEW b \in Askers, as2[b].at = "joined" /\ as2[b].refresh /\ as2[as2[b].of].value # None
        PROVE  as2[b].since <= as2[as2[b].of].value
    <3> DEFINE o == as2[b].of
    <3>1. as[b].at = "joined" /\ as[b].refresh /\ as[b].of = o /\ as2[b].since = as[b].since /\ as2[o].value # None
      BY <1>3, <2>3
    <3>2. o \in Askers
      BY <1>22, <3>1
    <3> HIDE DEF o
    <3>3. as2[b].since <= as2[o].value
      <4>1. CASE o = a
        BY <1>3, <2>0, <4>1
      <4>2. CASE o # a
        <5>1. as2[o].value = as[o].value
          BY <1>3, <3>2, <4>2
        <5> QED BY <2>1, <3>1, <5>1 DEF NewEnough
      <4> QED BY <4>1, <4>2
    <3> QED BY <3>3 DEF o
  <2>4. ASSUME NEW b \in Askers, as2[b].at = "waits" /\ as2[b].of = None /\ pen[as2[b].key] # None
                       /\ as2[pen[as2[b].key]].value # None
        PROVE  as2[b].since <= as2[pen[as2[b].key]].value
    <3> DEFINE j == as2[b].key  p == pen[j]
    <3>1. as[b].at = "waits" /\ as[b].of = None /\ as[b].key = j /\ as2[b].since = as[b].since /\ p # None /\ as2[p].value # None
      BY <1>3, <2>4
    <3>2. p \in Askers
      BY <1>21, <1>26, <3>1
    <3> HIDE DEF p
    <3>3. as2[b].since <= as2[p].value
      <4>1. CASE p = a
        BY <1>3, <2>0, <4>1
      <4>2. CASE p # a
        <5>1. as2[p].value = as[p].value
          BY <1>3, <3>2, <4>2
        <5>2. as[pen[as[b].key]].value = as[p].value /\ pen[as[b].key] = p
          BY <3>1 DEF p
        <5> QED BY <2>1, <3>1, <5>1, <5>2 DEF NewEnough
      <4> QED BY <4>1, <4>2
    <3> QED BY <3>3 DEF p
  <2>5. ASSUME NEW b \in Askers, as2[b].at = "done" /\ as2[b].refresh
        PROVE  as2[b].value \in Nat /\ as2[b].since <= as2[b].value
    <3>1. b # a /\ as[b].at = "done"
      BY <1>1, <1>3, <2>5
    <3> QED BY <1>3, <2>1, <2>5, <3>1 DEF NewEnough
  <2> QED BY <2>2, <2>3, <2>4, <2>5 DEF NewEnough
<1> QED
  BY <1>5, <1>7, <1>9, <1>15, <1>16, <1>17, <1>18, <1>19 DEF AsksAgree

\* Who has nothing under way leaves alone.
LEMMA CacheRests ==
  ASSUME NEW usr, NEW con, NEW clr, NEW pen, NEW ref, NEW as, NEW a, NEW as2,
         AsksAgree(usr, con, clr, pen, ref, as), a \in Askers, as[a].at \in {"idle", "done"}, con \in Nat,
         as2 = [as EXCEPT ![a] = Cache!NoAsk]
  PROVE  AsksAgree(usr, con, clr, pen, ref, as2)
<1>2. AsksAre(usr, con, clr, pen, ref, as)
  BY AsksParts
<1>20. /\ pen \in [Listings -> Askers \cup {None}] /\ ref \in [Listings -> Askers \cup {None}] /\ as \in [Askers -> AskRecord]
       /\ None \notin Askers
  BY <1>2 DEF AsksAre
<1>21. ASSUME NEW k \in Listings, pen[k] # None
       PROVE  pen[k] \in Askers /\ as[pen[k]].at = "loading" /\ as[pen[k]].key = k /\ as[pen[k]].epoch = clr
  BY <1>2, <1>21 DEF AsksAre
<1>22. ASSUME NEW b \in Askers, as[b].at = "joined" PROVE as[b].of \in Askers /\ as[as[b].of].at = "loading"
  BY <1>2, <1>22 DEF AsksAre
<1>23. ASSUME NEW b \in Askers, as[b].at = "follows"
       PROVE  /\ as[b].key \in Listings /\ as[b].of \in Askers /\ ref[as[b].key] = as[b].of
              /\ as[as[b].of].since = as[b].since
              /\ as[as[b].of].at \in {"waits", "joined", "loading"} /\ as[as[b].of].refresh
  BY <1>2, <1>23 DEF AsksAre
<1>24. ASSUME NEW k \in Listings, ref[k] # None
       PROVE  /\ ref[k] \in Askers /\ as[ref[k]].at \in {"waits", "joined", "loading"} /\ as[ref[k]].key = k
              /\ as[ref[k]].refresh
  BY <1>2, <1>24 DEF AsksAre
<1>25. ASSUME NEW b \in Askers, as[b].at = "waits"
       PROVE  /\ usr = "search" /\ as[b].refresh /\ as[b].value = None
              /\ as[b].of # None => pen[as[b].key] = as[b].of
  BY <1>2, <1>25 DEF AsksAre
<1>26. ASSUME NEW b \in Askers
       PROVE  /\ as[b].since <= con
              /\ as[b].at \in {"loading", "joined", "waits", "follows"} => as[b].key \in Listings
  BY <1>2 DEF AsksAre
<1>27. usr = "search" => NewEnough(pen, as)
  BY <1>2 DEF AsksAre
<1>3. Sharing(as, a) = {a}
  <2>1. ASSUME NEW b \in Askers, as[b].at = "joined" PROVE as[b].of # a
    BY <1>22, <2>1
  <2>2. With(as, a) = {a}
    BY <2>1 DEF With
  <2>3. ASSUME NEW b \in Askers, as[b].at = "follows" PROVE as[b].of # a
    BY <1>23, <2>3
  <2> QED BY <2>2, <2>3 DEF Sharing
<1>4. pen = [k \in Listings |-> IF pen[k] = a THEN None ELSE pen[k]]
  <2>1. ASSUME NEW k \in Listings PROVE pen[k] # a
    <3> DEFINE q == pen[k]
    <3>1. q # None => as[q].at = "loading"
      BY <1>21
    <3> HIDE DEF q
    <3>2. q # a
      BY <1>20, <3>1
    <3> QED BY <3>2 DEF q
  <2> QED BY <1>20, <2>1
<1>5. ref = [k \in Listings |-> IF ref[k] \in Sharing(as, a) THEN None ELSE ref[k]]
  <2>1. ASSUME NEW k \in Listings PROVE ref[k] # a
    <3> DEFINE q == ref[k]
    <3>1. q # None => as[q].at \in {"waits", "joined", "loading"}
      BY <1>24
    <3> HIDE DEF q
    <3>2. q # a
      BY <1>20, <3>1
    <3> QED BY <3>2 DEF q
  <2> QED BY <1>3, <1>20, <2>1
<1>6. as2[a] = Cache!NoAsk /\ (\A b \in Askers : b # a => as2[b] = as[b]) /\ as2 \in [Askers -> AskRecord]
  BY <1>20, NoAskFields
<1>7. ASSUME NEW b \in Askers, b \notin Sharing(as, a)
      PROVE  as2[b] = IF as[b].at = "waits" /\ as[b].of = a THEN [as[b] EXCEPT !.of = None] ELSE as[b]
  <2>1. b # a
    BY <1>3, <1>7
  <2>2. ~(as[b].at = "waits" /\ as[b].of = a)
    <3> SUFFICES ASSUME as[b].at = "waits", as[b].of = a PROVE FALSE
      OBVIOUS
    <3>1. pen[as[b].key] = a /\ as[b].key \in Listings
      BY <1>20, <1>25, <1>26
    <3> QED BY <1>4, <1>20, <3>1
  <2> QED BY <1>6, <2>1, <2>2
<1>8. ASSUME NEW b \in Sharing(as, a)
      PROVE  /\ as2[b].at \in {"idle", "done"} /\ as2[b].since <= con
             /\ usr = "search" /\ as2[b].at = "done" /\ as2[b].refresh => as2[b].value \in Nat /\ as2[b].since <= as2[b].value
  BY <1>3, <1>6, NoAskFields
<1>9. LeavesOf(usr, con, clr, pen, ref, as, a, pen, ref, as2)
  BY <1>4, <1>5, <1>6, <1>7, <1>8 DEF LeavesOf
<1> QED BY <1>9, LeavesAgrees

\* The content only grows.
LEMMA ContentAgrees ==
  ASSUME NEW usr, NEW con \in Nat, NEW clr, NEW pen, NEW ref, NEW as,
         AsksAgree(usr, con, clr, pen, ref, as)
  PROVE  AsksAgree(usr, con + 1, clr, pen, ref, as)
<1>1. Known(con, as) /\ as \in [Askers -> AskRecord] /\ MaxVersion \in Nat
  BY CacheGiven DEF AsksAgree, AsksTyped
<1>2. Known(con + 1, as)
  <2> SUFFICES ASSUME NEW b \in Askers
               PROVE  /\ as[b].since <= con + 1
                      /\ as[b].at \in {"loading", "joined", "waits", "follows"} => as[b].key \in Listings
    BY DEF Known
  <2>1. as[b].since \in 0..MaxVersion
    BY <1>1, AskFields
  <2>2. as[b].since <= con /\ (as[b].at \in {"loading", "joined", "waits", "follows"} => as[b].key \in Listings)
    BY <1>1 DEF Known
  <2> DEFINE i == as[b].since
  <2>3. i \in 0..MaxVersion /\ i <= con
    BY <2>1, <2>2
  <2> HIDE DEF i
  <2>4. i <= con + 1
    BY <1>1, <2>3
  <2> QED BY <2>2, <2>4 DEF i
<1> QED BY <1>2 DEF AsksAgree

\* When everything closes, no load is pending any more.
LEMMA ClearAgrees ==
  ASSUME NEW con, NEW clr, NEW clr2, NEW pen, NEW ref, NEW as, NEW pen2,
         AsksAgree("schema", con, clr, pen, ref, as), pen2 = [k \in Listings |-> None]
  PROVE  AsksAgree("schema", con, clr2, pen2, ref, as)
<1>1. PendingLoads(clr2, pen2, as)
  BY DEF PendingLoads
<1>2. Waiting("schema", pen2, as)
  BY DEF AsksAgree, Waiting
<1>3. AsksTyped(pen2, ref, as)
  BY DEF AsksAgree, AsksTyped
<1> QED BY <1>1, <1>2, <1>3 DEF AsksAgree

\* What is left of the entries agrees as they did.
LEMMA LeftAgrees ==
  ASSUME NEW es, NEW clr, NEW pen, EntriesAgree(es, clr, pen), NEW k
  PROVE  /\ EntriesAgree(Cache!Fresh(es), clr, pen) /\ EntriesAgree(Cache!Others(es, k), clr, pen)
         /\ k \notin Cache!Held(Cache!Others(es, k)) /\ Cache!Held(Cache!Others(es, k)) \subseteq Cache!Held(es)
         /\ k \in Cache!Held(es) => Len(Cache!Others(es, k)) < Len(es)
<1>1. es \in Seq(EntryRecord) /\ KeysOnce(es)
  BY DEF EntriesAgree
<1> DEFINE F == {n \in DOMAIN es : ~es[n].expired}  K == {n \in DOMAIN es : es[n].key # k}
<1>2. F \in SUBSET DOMAIN es /\ K \in SUBSET DOMAIN es
  OBVIOUS
<1>3. Cache!Fresh(es) = Cache!Selected(es, F) /\ Cache!Others(es, k) = Cache!Selected(es, K)
  BY DEF Cache!Fresh, Cache!Others
<1>4. \A j \in K : es[j].key # k
  OBVIOUS
<1>5. (\E n \in DOMAIN es : es[n].key = k) => K # DOMAIN es
  OBVIOUS
<1> DEFINE f == Cache!Fresh(es)  o == Cache!Others(es, k)
<1> HIDE DEF F, K, f, o
<1>6. f = Cache!Selected(es, F) /\ o = Cache!Selected(es, K)
  BY <1>3 DEF f, o
<1>7. EntriesAgree(f, clr, pen) /\ EntriesAgree(o, clr, pen)
  BY <1>2, <1>6, SelectedAgrees
<1>8. /\ o \in Seq(EntryRecord) /\ (K # DOMAIN es => Len(o) < Len(es))
      /\ \A i \in DOMAIN o : \E j \in K : o[i] = es[j]
      /\ Cache!Held(o) \subseteq Cache!Held(es)
  BY <1>1, <1>2, <1>6, SelectedEntries
<1>9. Cache!Held(o) = {o[n].key : n \in DOMAIN o} /\ Cache!Held(es) = {es[n].key : n \in DOMAIN es}
  BY <1>1, <1>8, HeldFacts
<1>10. k \notin Cache!Held(o)
  BY <1>4, <1>8, <1>9
<1>11. k \in Cache!Held(es) => Len(o) < Len(es)
  BY <1>5, <1>8, <1>9
<1> QED BY <1>7, <1>8, <1>10, <1>11 DEF f, o

\* A listing that is found moves to the end.
LEMMA FoundAgrees ==
  ASSUME NEW es, NEW clr, NEW pen, EntriesAgree(es, clr, pen), NEW e \in Cache!Range(es), NEW k, e.key = k
  PROVE  EntriesAgree(Append(Cache!Others(es, k), e), clr, pen)
<1>1. /\ es \in Seq(EntryRecord) /\ KeysOnce(es)
      /\ Len(es) <= MaxListings /\ Cache!Total(es) <= MaxBytes
      /\ \A n \in DOMAIN es : es[n].epoch = clr /\ pen[es[n].key] = None
  BY DEF EntriesAgree
<1>2. DOMAIN es = 1..Len(es) /\ Len(es) \in Nat /\ Cache!Held(es) = {es[n].key : n \in DOMAIN es}
      /\ \A n \in DOMAIN es : es[n] \in EntryRecord
  BY <1>1, HeldFacts
<1>3. PICK m \in DOMAIN es : es[m] = e
  BY DEF Cache!Range
<1>4. e \in EntryRecord /\ e.epoch = clr /\ pen[e.key] = None /\ k \in Cache!Held(es)
  BY <1>1, <1>2, <1>3
<1> DEFINE o == Cache!Others(es, k)
<1>5. EntriesAgree(o, clr, pen) /\ k \notin Cache!Held(o) /\ Cache!Held(o) \subseteq Cache!Held(es) /\ Len(o) < Len(es)
  BY <1>4, LeftAgrees
<1> HIDE DEF o
<1>6. /\ o \in Seq(EntryRecord) /\ KeysOnce(o)
      /\ \A n \in DOMAIN o : o[n].epoch = clr /\ pen[o[n].key] = None
  BY <1>5 DEF EntriesAgree
<1> DEFINE es2 == Append(o, e)
<1>a. es2 = Append(o, e)
  OBVIOUS
<1> HIDE DEF es2
<1>7. /\ es2 \in Seq(EntryRecord) /\ KeysOnce(es2)
      /\ Len(es2) = Len(o) + 1 /\ Cache!Held(es2) = Cache!Held(o) \cup {k}
      /\ \A i \in DOMAIN es2 : es2[i] = e \/ \E j \in DOMAIN o : es2[i] = o[j]
  <2>1. e.key \notin Cache!Held(o) /\ e \in EntryRecord /\ o \in Seq(EntryRecord) /\ KeysOnce(o)
    BY <1>4, <1>5, <1>6
  <2>2. /\ es2 \in Seq(EntryRecord) /\ KeysOnce(es2)
        /\ Len(es2) = Len(o) + 1 /\ Cache!Held(es2) = Cache!Held(o) \cup {e.key}
        /\ \A i \in DOMAIN es2 : es2[i] = e \/ \E j \in DOMAIN o : es2[i] = o[j]
    <3>1. AppendsTo(o, e, es2)
      BY <1>a, <2>1 DEF AppendsTo
    <3>2. AppendedAre(o, e, es2)
      BY <3>1, AppendsFacts
    <3> QED BY <3>2 DEF AppendedAre
  <2> QED BY <2>2
<1>8. Cache!Total(es2) <= Cache!Total(es) /\ Cache!Total(es2) \in Nat /\ Cache!Total(es) \in Nat
  <2>1. Cache!Held(es2) \subseteq Cache!Held(es)
    BY <1>4, <1>5, <1>7
  <2> QED BY <1>1, <1>7, <2>1, TotalGrows
<1>9. Len(es2) <= Len(es)
  <2>1. Len(o) \in Nat
    BY <1>6, HeldFacts
  <2> QED BY <1>2, <1>5, <1>7, <2>1
<1>10. \A n \in DOMAIN es2 : es2[n].epoch = clr /\ pen[es2[n].key] = None
  BY <1>4, <1>6, <1>7
<1>11. MaxListings \in Nat /\ MaxBytes \in Nat
  BY CacheGiven
<1>12. Cache!Total(es2) <= MaxBytes
  <2> DEFINE s == Cache!Total(es2)  t == Cache!Total(es)
  <2>1. s <= t /\ s \in Nat /\ t \in Nat /\ t <= MaxBytes
    BY <1>1, <1>8
  <2> HIDE DEF s, t
  <2>2. s <= MaxBytes
    BY <1>11, <2>1
  <2> QED BY <2>2 DEF s
<1>13. Len(es2) <= MaxListings
  <2>1. Len(es2) \in Nat
    BY <1>7, HeldFacts
  <2> QED BY <1>1, <1>2, <1>9, <1>11, <2>1
<1>14. EntriesAgree(es2, clr, pen)
  BY <1>7, <1>10, <1>12, <1>13 DEF EntriesAgree
<1> QED BY <1>14 DEF es2, o

\* A load that ends puts its listing at the end.
LEMMA FilledAgrees ==
  ASSUME NEW es, NEW clr, NEW pen, EntriesAgree(es, clr, pen), NEW k \in Listings, Bytes[k] <= MaxBytes, pen[k] # None,
         NEW v \in 0..MaxVersion, NEW e, e = [key |-> k, value |-> v, expired |-> FALSE, epoch |-> clr],
         clr \in 0..MaxCleared, NEW pen2, pen2[k] = None, \A j \in Listings : pen[j] = None => pen2[j] = None
  PROVE  EntriesAgree(Append(Cache!Room(es, k), e), clr, pen2)
<1>1. /\ es \in Seq(EntryRecord) /\ KeysOnce(es)
      /\ \A n \in DOMAIN es : es[n].epoch = clr /\ pen[es[n].key] = None
  BY DEF EntriesAgree
<1> DEFINE o == Cache!Room(es, k)
<1>2. /\ o \in Seq(EntryRecord) /\ KeysOnce(o) /\ Len(o) \in Nat /\ Len(o) < MaxListings
      /\ Cache!Total(o) + Bytes[k] <= MaxBytes
      /\ \A i \in DOMAIN o : \E j \in DOMAIN es : o[i] = es[j]
  BY <1>1, RoomFacts
<1> HIDE DEF o
<1>3. Cache!Held(o) = {o[n].key : n \in DOMAIN o} /\ \A n \in DOMAIN o : o[n].key \in Listings
  BY <1>2, HeldFacts
<1>4. \A n \in DOMAIN o : o[n].epoch = clr /\ pen[o[n].key] = None
  BY <1>1, <1>2
<1>5. k \notin Cache!Held(o)
  BY <1>3, <1>4
<1>6. e \in EntryRecord /\ e.key = k /\ e.epoch = clr
  BY DEF EntryRecord
<1> DEFINE es2 == Append(o, e)
<1>a. es2 = Append(o, e)
  OBVIOUS
<1> HIDE DEF es2
<1>7. /\ es2 \in Seq(EntryRecord) /\ KeysOnce(es2)
      /\ Len(es2) = Len(o) + 1
      /\ \A i \in DOMAIN es2 : es2[i] = e \/ \E j \in DOMAIN o : es2[i] = o[j]
      /\ Cache!Total(es2) = Cache!Total(o) + Bytes[k]
  <2>1. e.key \notin Cache!Held(o) /\ e \in EntryRecord /\ o \in Seq(EntryRecord) /\ KeysOnce(o)
    BY <1>2, <1>5, <1>6
  <2>2. /\ es2 \in Seq(EntryRecord) /\ KeysOnce(es2)
        /\ Len(es2) = Len(o) + 1 /\ Cache!Total(es2) = Cache!Total(o) + Bytes[e.key]
        /\ \A i \in DOMAIN es2 : es2[i] = e \/ \E j \in DOMAIN o : es2[i] = o[j]
    <3>1. AppendsTo(o, e, es2)
      BY <1>a, <2>1 DEF AppendsTo
    <3>2. AppendedAre(o, e, es2)
      BY <3>1, AppendsFacts
    <3> QED BY <3>2 DEF AppendedAre
  <2> QED BY <1>6, <2>2
<1>8. \A n \in DOMAIN es2 : es2[n].epoch = clr /\ pen2[es2[n].key] = None
  BY <1>3, <1>4, <1>6, <1>7
<1>9. MaxListings \in Nat
  BY CacheGiven
<1>10. Len(es2) <= MaxListings
  BY <1>2, <1>7, <1>9
<1>11. EntriesAgree(es2, clr, pen2)
  BY <1>2, <1>7, <1>8, <1>10 DEF EntriesAgree
<1> QED BY <1>11 DEF es2, o

\* The counter follows the entries.
LEMMA HoldsExact ==
  ASSUME NEW es, EntriesAgree(es, cleared', pending'), entries \in Seq(EntryRecord), bytes = Cache!Total(entries), Cache!Holds(es)
  PROVE  entries' = es /\ bytes' = Cache!Total(entries') /\ EntriesAgree(entries', cleared', pending')
<1>1. es \in Seq(EntryRecord)
  BY DEF EntriesAgree
<1> DEFINE s == Cache!Total(entries)  t == Cache!Total(es)
<1>2. s \in Nat /\ t \in Nat
  BY <1>1, TotalGrows
<1>3. entries' = es /\ bytes' = s - s + t
  BY DEF Cache!Holds
<1> HIDE DEF s, t
<1>4. bytes' = t
  BY <1>2, <1>3
<1> QED BY <1>3, <1>4 DEF t

\* What the invariant says, one by one.
CacheParts ==
  /\ user \in {"search", "schema"} /\ content \in 0..MaxVersion /\ cleared \in 0..MaxCleared
  /\ entries \in Seq(EntryRecord) /\ bytes = Cache!Total(entries)
  /\ EntriesAgree(entries, cleared, pending)
  /\ AsksAgree(user, content, cleared, pending, refreshes, ask)
  /\ pending \in [Listings -> Askers \cup {None}] /\ refreshes \in [Listings -> Askers \cup {None}]
  /\ ask \in [Askers -> AskRecord] /\ None \notin Askers /\ MaxVersion \in Nat /\ MaxCleared \in Nat

\* It says so.
LEMMA PartsOfCache ==
  ASSUME CacheInv PROVE CacheParts
<1>1. /\ user \in {"search", "schema"} /\ content \in 0..MaxVersion /\ cleared \in 0..MaxCleared
      /\ bytes = Cache!Total(entries) /\ EntriesAgree(entries, cleared, pending)
      /\ AsksAgree(user, content, cleared, pending, refreshes, ask)
  BY DEF CacheInv
<1>2. entries \in Seq(EntryRecord)
  BY <1>1 DEF EntriesAgree
<1>3. /\ pending \in [Listings -> Askers \cup {None}] /\ refreshes \in [Listings -> Askers \cup {None}]
      /\ ask \in [Askers -> AskRecord]
  BY <1>1 DEF AsksAgree, AsksTyped
<1>4. None \notin Askers /\ MaxVersion \in Nat /\ MaxCleared \in Nat
  BY CacheGiven
<1> QED BY <1>1, <1>2, <1>3, <1>4 DEF CacheParts

\* Whose call is not loading owns no load, and nobody has joined it.
LEMMA NotTheLoad ==
  ASSUME AsksAgree(user, content, cleared, pending, refreshes, ask), NEW a \in Askers, ask[a].at # "loading"
  PROVE  /\ \A k \in Listings : pending[k] # a
         /\ \A b \in Askers : ask[b].at = "waits" => ask[b].of # a
         /\ \A b \in Askers : ask[b].at = "joined" => ask[b].of # a
<1>1. AsksAre(user, content, cleared, pending, refreshes, ask)
  BY AsksParts
<1>2. None \notin Askers
  BY CacheGiven
<1>3. ASSUME NEW k \in Listings PROVE pending[k] # a
  <2> DEFINE q == pending[k]
  <2>1. q # None => ask[q].at = "loading"
    BY <1>1 DEF AsksAre
  <2> HIDE DEF q
  <2>2. q # a
    BY <1>2, <2>1
  <2> QED BY <2>2 DEF q
<1>4. ASSUME NEW b \in Askers, ask[b].at = "waits" PROVE ask[b].of # a
  <2>1. ask[b].key \in Listings /\ (ask[b].of # None => pending[ask[b].key] = ask[b].of)
    BY <1>1, <1>4 DEF AsksAre
  <2> QED BY <1>2, <1>3, <2>1
<1>5. ASSUME NEW b \in Askers, ask[b].at = "joined" PROVE ask[b].of # a
  <2>1. ask[ask[b].of].at = "loading"
    BY <1>1, <1>5 DEF AsksAre
  <2> QED BY <2>1
<1> QED BY <1>3, <1>4, <1>5

\* The call of a looks at the entries: q is what it asks for.
ConsultsFor(a, k, q) ==
  /\ CacheInv /\ a \in Askers /\ k \in Listings
  /\ q \in AskRecord /\ q.key = k /\ q.since <= content /\ q.value = None
  /\ \/ ask[a].at = "idle" /\ (q.refresh => user = "schema")
     \/ ask[a].at = "waits" /\ ask[a].of = None /\ q = ask[a]
  /\ Cache!Consults(a, q) /\ user' = user /\ content' = content /\ cleared' = cleared

\* r is q in another state.
GoesOn(q, s, o, n, r) ==
  /\ q \in AskRecord /\ s \in {"idle", "loading", "joined", "waits", "follows", "done"}
  /\ o \in Askers \cup {None} /\ n \in 0..MaxCleared
  /\ r = [at |-> s, key |-> q.key, of |-> o, refresh |-> q.refresh, since |-> q.since, value |-> q.value, epoch |-> n]

\* The fields of r.
GoneOn(q, s, o, n, r) ==
  r \in AskRecord /\ r.at = s /\ r.key = q.key /\ r.of = o /\ r.refresh = q.refresh /\ r.since = q.since
  /\ r.value = q.value /\ r.epoch = n

\* They are these.
LEMMA GoesOnAs ==
  ASSUME NEW q, NEW s, NEW o, NEW n, NEW r, GoesOn(q, s, o, n, r)
  PROVE  GoneOn(q, s, o, n, r)
BY DEF AskRecord, GoesOn, GoneOn

\* r is q, which joins o.
JoinsAs(q, o, r) == q \in AskRecord /\ o \in Askers \cup {None} /\ r = [q EXCEPT !.at = "joined", !.of = o]

\* Its fields.
LEMMA JoinedAs ==
  ASSUME NEW q, NEW o, NEW r, JoinsAs(q, o, r)
  PROVE  GoneOn(q, "joined", o, q.epoch, r)
<1>0. q \in AskRecord /\ o \in Askers \cup {None} /\ r = [q EXCEPT !.at = "joined", !.of = o]
  BY DEF JoinsAs
<1>1. q = [at |-> q.at, key |-> q.key, of |-> q.of, refresh |-> q.refresh, since |-> q.since, value |-> q.value,
           epoch |-> q.epoch] /\ q.epoch \in 0..MaxCleared
  BY <1>0 DEF AskRecord
<1> DEFINE w == [q EXCEPT !.at = "joined"]  n == q.epoch
<1>2. r = [w EXCEPT !.of = o]
  BY <1>0
<1>3. w = [at |-> "joined", key |-> q.key, of |-> q.of, refresh |-> q.refresh, since |-> q.since, value |-> q.value,
           epoch |-> q.epoch]
  BY <1>1
<1> HIDE DEF w
<1>4. r = [at |-> "joined", key |-> q.key, of |-> o, refresh |-> q.refresh, since |-> q.since, value |-> q.value,
           epoch |-> n]
  BY <1>2, <1>3
<1> HIDE DEF n
<1>5. n \in 0..MaxCleared
  BY <1>1 DEF n
<1> DEFINE s == "joined"
<1>6. s \in {"idle", "loading", "joined", "waits", "follows", "done"}
      /\ r = [at |-> s, key |-> q.key, of |-> o, refresh |-> q.refresh, since |-> q.since, value |-> q.value, epoch |-> n]
  BY <1>4
<1> HIDE DEF s
<1>7. GoesOn(q, s, o, n, r)
  BY <1>0, <1>5, <1>6 DEF GoesOn
<1>8. GoneOn(q, s, o, n, r)
  BY <1>7, GoesOnAs
<1> QED BY <1>8 DEF s, n

\* r is q, which starts a load.
StartsAs(q, n, r) == q \in AskRecord /\ n \in 0..MaxCleared /\ r = [q EXCEPT !.at = "loading", !.epoch = n]

\* Its fields.
LEMMA LoadingAs ==
  ASSUME NEW q, NEW n, NEW r, StartsAs(q, n, r)
  PROVE  GoneOn(q, "loading", q.of, n, r)
<1>0. q \in AskRecord /\ n \in 0..MaxCleared /\ r = [q EXCEPT !.at = "loading", !.epoch = n]
  BY DEF StartsAs
<1>1. q = [at |-> q.at, key |-> q.key, of |-> q.of, refresh |-> q.refresh, since |-> q.since, value |-> q.value,
           epoch |-> q.epoch] /\ q.of \in Askers \cup {None}
  BY <1>0 DEF AskRecord
<1> DEFINE w == [q EXCEPT !.at = "loading"]  o == q.of
<1>2. r = [w EXCEPT !.epoch = n]
  BY <1>0
<1>3. w = [at |-> "loading", key |-> q.key, of |-> q.of, refresh |-> q.refresh, since |-> q.since, value |-> q.value,
           epoch |-> q.epoch]
  BY <1>1
<1> HIDE DEF w
<1>4. r = [at |-> "loading", key |-> q.key, of |-> o, refresh |-> q.refresh, since |-> q.since, value |-> q.value,
           epoch |-> n]
  BY <1>2, <1>3
<1> HIDE DEF o
<1>5. o \in Askers \cup {None}
  BY <1>1 DEF o
<1> DEFINE s == "loading"
<1>6. s \in {"idle", "loading", "joined", "waits", "follows", "done"}
      /\ r = [at |-> s, key |-> q.key, of |-> o, refresh |-> q.refresh, since |-> q.since, value |-> q.value, epoch |-> n]
  BY <1>4
<1> HIDE DEF s
<1>7. GoesOn(q, s, o, n, r)
  BY <1>0, <1>5, <1>6 DEF GoesOn
<1>8. GoneOn(q, s, o, n, r)
  BY <1>7, GoesOnAs
<1> QED BY <1>8 DEF s, o

\* It finds the listing, joins its load or starts one, and the invariant is kept.
LEMMA ConsultsKeeps ==
  ASSUME NEW a, NEW k, NEW q, ConsultsFor(a, k, q)
  PROVE  CacheInv'
<1>1. /\ CacheInv /\ a \in Askers /\ k \in Listings
      /\ q \in AskRecord /\ q.key = k /\ q.since <= content /\ q.value = None
      /\ user' = user /\ content' = content /\ cleared' = cleared
  BY DEF ConsultsFor
<1>2. \/ ask[a].at = "idle" /\ (q.refresh => user = "schema")
      \/ ask[a].at = "waits" /\ ask[a].of = None /\ q = ask[a]
  BY DEF ConsultsFor
<1>3. /\ user \in {"search", "schema"} /\ content \in 0..MaxVersion /\ cleared \in 0..MaxCleared
      /\ entries \in Seq(EntryRecord) /\ bytes = Cache!Total(entries)
      /\ EntriesAgree(entries, cleared, pending)
      /\ AsksAgree(user, content, cleared, pending, refreshes, ask)
      /\ pending \in [Listings -> Askers \cup {None}] /\ refreshes \in [Listings -> Askers \cup {None}]
      /\ ask \in [Askers -> AskRecord] /\ None \notin Askers /\ MaxVersion \in Nat /\ MaxCleared \in Nat
  BY <1>1, PartsOfCache DEF CacheParts
<1> DEFINE es == IF q.refresh THEN Cache!Others(Cache!Fresh(entries), k) ELSE Cache!Fresh(entries)
           hit == {e \in Cache!Range(es) : e.key = k}
           full == Cache!Cardinality({j \in Listings : pending[j] # None}) >= MaxPending
<1>4. EntriesAgree(es, cleared, pending) /\ (q.refresh => hit = {})
  <2> DEFINE f == Cache!Fresh(entries)  o == Cache!Others(f, k)
  <2>1. EntriesAgree(f, cleared, pending)
    BY <1>3, LeftAgrees
  <2> HIDE DEF f
  <2>2. EntriesAgree(o, cleared, pending) /\ k \notin Cache!Held(o)
    BY <2>1, LeftAgrees
  <2> HIDE DEF o
  <2>3. {e \in Cache!Range(o) : e.key = k} = {}
    BY <2>2 DEF Cache!Held
  <2>4. es = IF q.refresh THEN o ELSE f
    BY DEF f, o
  <2> HIDE DEF es
  <2>5. q.refresh => hit = {}
    BY <2>3, <2>4
  <2>6. EntriesAgree(es, cleared, pending)
    BY <2>1, <2>2, <2>4
  <2> QED BY <2>5, <2>6
<1>5. \/ /\ hit # {}
         /\ \E e \in hit : /\ Cache!Holds(Append(Cache!Others(es, k), e))
                           /\ ask' = [ask EXCEPT ![a] = Cache!Answers(q, e.value)]
         /\ pending' = pending /\ refreshes' = refreshes
      \/ /\ hit = {} /\ pending[k] # None
         /\ ask' = [ask EXCEPT ![a] = [q EXCEPT !.at = "joined", !.of = pending[k]]]
         /\ Cache!Holds(es) /\ pending' = pending /\ refreshes' = refreshes
      \/ /\ hit = {} /\ pending[k] = None /\ full
         /\ ask' = [b \in Askers |-> IF b \in Cache!Followers(a) THEN Cache!NoAsk ELSE ask[b]]
         /\ refreshes' = Cache!Owning({a})
         /\ Cache!Holds(es) /\ pending' = pending
      \/ /\ hit = {} /\ pending[k] = None /\ ~full
         /\ ask' = [ask EXCEPT ![a] = [q EXCEPT !.at = "loading", !.epoch = cleared]]
         /\ pending' = [pending EXCEPT ![k] = a]
         /\ Cache!Holds(es) /\ refreshes' = refreshes
  BY <1>1 DEF ConsultsFor, Cache!Consults
<1> HIDE DEF es, full
<1>6. ask[a].at # "loading" /\ (q.refresh /\ user = "search" => ask[a].at = "waits")
      /\ (ask[a].at = "waits" => ask[a].of = None /\ q = ask[a])
  BY <1>2
<1>w. ask[a].at = "waits" => ask[a].refresh
  BY <1>1, <1>3 DEF AsksAgree, Waiting
<1>7. CASE hit # {}
  <2>1. ~q.refresh /\ ask[a].at = "idle"
    BY <1>2, <1>4, <1>7, <1>w
  <2>2. PICK e \in hit : /\ Cache!Holds(Append(Cache!Others(es, k), e))
                         /\ ask' = [ask EXCEPT ![a] = Cache!Answers(q, e.value)]
    BY <1>5, <1>7
  <2>3. pending' = pending /\ refreshes' = refreshes
    BY <1>5, <1>7
  <2>4. ask' = [ask EXCEPT ![a] = Cache!NoAsk]
    BY <2>1, <2>2 DEF Cache!Answers
  <2>5. AsksAgree(user, content, cleared, pending, refreshes, ask')
    <3>1. content \in Nat /\ ask[a].at \in {"idle", "done"}
      BY <1>3, <2>1
    <3> QED BY <1>1, <1>3, <2>4, <3>1, CacheRests
  <2> DEFINE es2 == Append(Cache!Others(es, k), e)
  <2>6. EntriesAgree(es2, cleared, pending)
    BY <1>4, FoundAgrees
  <2>7. Cache!Holds(es2)
    BY <2>2
  <2> HIDE DEF es2
  <2>8. EntriesAgree(es2, cleared', pending')
    BY <1>1, <2>3, <2>6
  <2>9. bytes' = Cache!Total(entries') /\ EntriesAgree(entries', cleared', pending')
    BY <1>3, <2>7, <2>8, HoldsExact
  <2> QED BY <1>1, <1>3, <2>3, <2>5, <2>9 DEF CacheInv
<1>8. CASE hit = {} /\ pending[k] # None
  <2>1. /\ ask' = [ask EXCEPT ![a] = [q EXCEPT !.at = "joined", !.of = pending[k]]]
        /\ Cache!Holds(es) /\ pending' = pending /\ refreshes' = refreshes
    BY <1>5, <1>8
  <2> DEFINE o == pending[k]  r == [q EXCEPT !.at = "joined", !.of = o]
  <2>2. o \in Askers \cup {None} /\ o # None
    BY <1>1, <1>3, <1>8
  <2>3. ask' = [ask EXCEPT ![a] = r] /\ r = [q EXCEPT !.at = "joined", !.of = o]
    BY <2>1
  <2> HIDE DEF o
  <2>4. r \in AskRecord /\ r.at = "joined" /\ r.key = q.key /\ r.of = o /\ r.refresh = q.refresh /\ r.since = q.since
    <3>1. JoinsAs(q, o, r)
      BY <1>1, <2>2, <2>3 DEF JoinsAs
    <3>2. GoneOn(q, "joined", o, q.epoch, r)
      BY <3>1, JoinedAs
    <3> QED BY <3>2 DEF GoneOn
  <2> HIDE DEF r
  <2>5. MovesOf(user, content, cleared, pending, refreshes, ask, a, k, r, pending, refreshes, ask')
    BY <1>1, <1>2, <1>3, <1>6, <1>w, <2>2, <2>3, <2>4 DEF MovesOf, o
  <2>6. AsksAgree(user, content, cleared, pending, refreshes, ask')
    BY <2>5, MovesAgrees
  <2>7. EntriesAgree(es, cleared', pending')
    BY <1>1, <1>4, <2>1
  <2>8. bytes' = Cache!Total(entries') /\ EntriesAgree(entries', cleared', pending')
    BY <1>3, <2>1, <2>7, HoldsExact
  <2> QED BY <1>1, <1>3, <2>1, <2>6, <2>8 DEF CacheInv
<1>9. CASE hit = {} /\ pending[k] = None /\ full
  <2>1. /\ ask' = [b \in Askers |-> IF b \in Cache!Followers(a) THEN Cache!NoAsk ELSE ask[b]]
        /\ refreshes' = Cache!Owning({a})
        /\ Cache!Holds(es) /\ pending' = pending
    BY <1>5, <1>9
  <2>2. /\ \A j \in Listings : pending[j] # a
        /\ \A b \in Askers : ask[b].at = "waits" => ask[b].of # a
        /\ \A b \in Askers : ask[b].at = "joined" => ask[b].of # a
    BY <1>1, <1>3, <1>6, NotTheLoad
  <2>3. Cache!Followers(a) = Sharing(ask, a)
    BY DEF Cache!Followers, Sharing, With
  <2>4. refreshes' = [j \in Listings |-> IF refreshes[j] \in Sharing(ask, a) THEN None ELSE refreshes[j]]
    <3>1. With(ask, a) = {a}
      BY <2>2 DEF With
    <3>2. \A j \in Listings : refreshes[j] \in Sharing(ask, a) => refreshes[j] = a
      <4> SUFFICES ASSUME NEW j \in Listings, refreshes[j] \in Sharing(ask, a), refreshes[j] # a PROVE FALSE
        OBVIOUS
      <4> DEFINE b == refreshes[j]
      <4>1. b \in Askers /\ ask[b].at = "follows"
        BY <3>1 DEF Sharing
      <4>2. b # None
        BY <1>3, <4>1
      <4>3. ask[b].at \in {"waits", "joined", "loading"}
        BY <1>3, <4>2 DEF AsksAgree, Owners
      <4> QED BY <4>1, <4>3
    <3>3. a \in Sharing(ask, a)
      BY <3>1 DEF Sharing
    <3>4. \A j \in Listings : refreshes[j] \in {a} <=> refreshes[j] \in Sharing(ask, a)
      BY <3>2, <3>3
    <3> QED BY <2>1, <3>4 DEF Cache!Owning
  <2>5. pending = [j \in Listings |-> IF pending[j] = a THEN None ELSE pending[j]]
    BY <1>3, <2>2
  <2>6. ask' \in [Askers -> AskRecord] /\ \A b \in Sharing(ask, a) : ask'[b] = Cache!NoAsk
    <3>1. Sharing(ask, a) \subseteq Askers
      BY <1>1 DEF Sharing, With
    <3> QED BY <1>3, <2>1, <2>3, <3>1, NoAskFields
  <2>7. ASSUME NEW b \in Askers, b \notin Sharing(ask, a)
        PROVE  ask'[b] = IF ask[b].at = "waits" /\ ask[b].of = a THEN [ask[b] EXCEPT !.of = None] ELSE ask[b]
    BY <2>1, <2>2, <2>3, <2>7
  <2>8. ASSUME NEW b \in Sharing(ask, a)
        PROVE  /\ ask'[b].at \in {"idle", "done"} /\ ask'[b].since <= content
               /\ user = "search" /\ ask'[b].at = "done" /\ ask'[b].refresh
                    => ask'[b].value \in Nat /\ ask'[b].since <= ask'[b].value
    BY <1>3, <2>6, NoAskFields
  <2>9. ask[a].at \in {"idle", "waits", "loading", "done"}
    BY <1>2
  <2>10. LeavesOf(user, content, cleared, pending, refreshes, ask, a, pending, refreshes', ask')
    BY <1>1, <1>3, <2>4, <2>5, <2>6, <2>7, <2>8, <2>9 DEF LeavesOf
  <2>11. AsksAgree(user, content, cleared, pending, refreshes', ask')
    BY <2>10, LeavesAgrees
  <2>12. EntriesAgree(es, cleared', pending')
    BY <1>1, <1>4, <2>1
  <2>13. bytes' = Cache!Total(entries') /\ EntriesAgree(entries', cleared', pending')
    BY <1>3, <2>1, <2>12, HoldsExact
  <2> QED BY <1>1, <1>3, <2>1, <2>11, <2>13 DEF CacheInv
<1>10. CASE hit = {} /\ pending[k] = None /\ ~full
  <2>1. /\ ask' = [ask EXCEPT ![a] = [q EXCEPT !.at = "loading", !.epoch = cleared]]
        /\ pending' = [pending EXCEPT ![k] = a]
        /\ Cache!Holds(es) /\ refreshes' = refreshes
    BY <1>5, <1>10
  <2> DEFINE n == cleared  r == [q EXCEPT !.at = "loading", !.epoch = n]
  <2>2. n \in 0..MaxCleared
    BY <1>3
  <2>3. ask' = [ask EXCEPT ![a] = r] /\ r = [q EXCEPT !.at = "loading", !.epoch = n]
    BY <2>1
  <2> HIDE DEF n
  <2>4. r \in AskRecord /\ r.at = "loading" /\ r.key = q.key /\ r.refresh = q.refresh /\ r.since = q.since
        /\ r.value = q.value /\ r.epoch = n
    <3>1. StartsAs(q, n, r)
      BY <1>1, <2>2, <2>3 DEF StartsAs
    <3>2. GoneOn(q, "loading", q.of, n, r)
      BY <3>1, LoadingAs
    <3> QED BY <3>2 DEF GoneOn
  <2> HIDE DEF r
  <2>5. MovesOf(user, content, cleared, pending, refreshes, ask, a, k, r, pending', refreshes, ask')
    BY <1>1, <1>2, <1>3, <1>6, <1>w, <1>10, <2>1, <2>3, <2>4 DEF MovesOf, n
  <2>6. AsksAgree(user, content, cleared, pending', refreshes, ask')
    BY <2>5, MovesAgrees
  <2>7. EntriesAgree(es, cleared, pending')
    <3>1. /\ es \in Seq(EntryRecord) /\ KeysOnce(es)
          /\ Len(es) <= MaxListings /\ Cache!Total(es) <= MaxBytes
          /\ \A m \in DOMAIN es : es[m].epoch = cleared /\ pending[es[m].key] = None
      BY <1>4 DEF EntriesAgree
    <3>2. \A m \in DOMAIN es : es[m].key # k /\ es[m].key \in Listings
      <4>1. \A m \in DOMAIN es : es[m].key \in Listings
        BY <3>1, HeldFacts
      <4>2. \A m \in DOMAIN es : es[m] \in Cache!Range(es)
        BY DEF Cache!Range
      <4> QED BY <1>10, <4>1, <4>2
    <3>3. \A j \in Listings : j # k => pending'[j] = pending[j]
      BY <1>3, <2>1
    <3>4. \A m \in DOMAIN es : es[m].epoch = cleared /\ pending'[es[m].key] = None
      BY <3>1, <3>2, <3>3
    <3> QED BY <3>1, <3>4 DEF EntriesAgree
  <2>8. EntriesAgree(es, cleared', pending')
    BY <1>1, <2>7
  <2>9. bytes' = Cache!Total(entries') /\ EntriesAgree(entries', cleared', pending')
    BY <1>3, <2>1, <2>8, HoldsExact
  <2> QED BY <1>1, <1>3, <2>1, <2>6, <2>9 DEF CacheInv
<1> QED BY <1>7, <1>8, <1>9, <1>10

\* A call with another state, ...
LEMMA AtWith ==
  ASSUME NEW x, NEW s, NEW k, NEW o, NEW f, NEW i, NEW v, NEW e, NEW y,
         x = [at |-> s, key |-> k, of |-> o, refresh |-> f, since |-> i, value |-> v, epoch |-> e]
  PROVE  [x EXCEPT !.at = y] = [at |-> y, key |-> k, of |-> o, refresh |-> f, since |-> i, value |-> v, epoch |-> e]
OBVIOUS

\* ... key, ...
LEMMA KeyWith ==
  ASSUME NEW x, NEW s, NEW k, NEW o, NEW f, NEW i, NEW v, NEW e, NEW y,
         x = [at |-> s, key |-> k, of |-> o, refresh |-> f, since |-> i, value |-> v, epoch |-> e]
  PROVE  [x EXCEPT !.key = y] = [at |-> s, key |-> y, of |-> o, refresh |-> f, since |-> i, value |-> v, epoch |-> e]
OBVIOUS

\* ... call that it waits for, ...
LEMMA OfWith ==
  ASSUME NEW x, NEW s, NEW k, NEW o, NEW f, NEW i, NEW v, NEW e, NEW y,
         x = [at |-> s, key |-> k, of |-> o, refresh |-> f, since |-> i, value |-> v, epoch |-> e]
  PROVE  [x EXCEPT !.of = y] = [at |-> s, key |-> k, of |-> y, refresh |-> f, since |-> i, value |-> v, epoch |-> e]
OBVIOUS

\* ... refresh ...
LEMMA RefreshWith ==
  ASSUME NEW x, NEW s, NEW k, NEW o, NEW f, NEW i, NEW v, NEW e, NEW y,
         x = [at |-> s, key |-> k, of |-> o, refresh |-> f, since |-> i, value |-> v, epoch |-> e]
  PROVE  [x EXCEPT !.refresh = y] = [at |-> s, key |-> k, of |-> o, refresh |-> y, since |-> i, value |-> v, epoch |-> e]
OBVIOUS

\* ... or moment.
LEMMA SinceWith ==
  ASSUME NEW x, NEW s, NEW k, NEW o, NEW f, NEW i, NEW v, NEW e, NEW y,
         x = [at |-> s, key |-> k, of |-> o, refresh |-> f, since |-> i, value |-> v, epoch |-> e]
  PROVE  [x EXCEPT !.since = y] = [at |-> s, key |-> k, of |-> o, refresh |-> f, since |-> y, value |-> v, epoch |-> e]
OBVIOUS

\* A call that asks.
LEMMA AskedFields ==
  ASSUME NEW k \in Listings, NEW f \in BOOLEAN, content \in 0..MaxVersion, NEW r, r = Cache!Asked(k, f)
  PROVE  /\ r = [at |-> "idle", key |-> k, of |-> None, refresh |-> f, since |-> IF f THEN content ELSE 0,
                 value |-> None, epoch |-> 0]
         /\ r \in AskRecord /\ r.key = k /\ r.since <= content /\ r.value = None /\ r.refresh = f /\ r.at = "idle"
<1>1. MaxVersion \in Nat /\ MaxCleared \in Nat
  BY CacheGiven
<1> DEFINE i == IF f THEN content ELSE 0
<1>2. i \in 0..MaxVersion /\ i <= content
  BY <1>1
<1> HIDE DEF i
<1> DEFINE x == [Cache!NoAsk EXCEPT !.key = k]  y == [x EXCEPT !.refresh = f]  c == "idle"  n == FALSE  z == 0
<1>3. r = [y EXCEPT !.since = i]
  BY DEF Cache!Asked, i
<1>n. Cache!NoAsk = [at |-> c, key |-> None, of |-> None, refresh |-> n, since |-> z, value |-> None, epoch |-> z]
  BY NoAskFields
<1> HIDE DEF c, n, z
<1>4. x = [at |-> c, key |-> k, of |-> None, refresh |-> n, since |-> z, value |-> None, epoch |-> z]
  BY <1>n, KeyWith
<1> HIDE DEF x
<1>5. y = [at |-> c, key |-> k, of |-> None, refresh |-> f, since |-> z, value |-> None, epoch |-> z]
  BY <1>4, RefreshWith
<1> HIDE DEF y
<1>a. r = [at |-> c, key |-> k, of |-> None, refresh |-> f, since |-> i, value |-> None, epoch |-> z]
  BY <1>3, <1>5, SinceWith
<1>6. r = [at |-> "idle", key |-> k, of |-> None, refresh |-> f, since |-> i, value |-> None, epoch |-> 0]
  BY <1>a DEF c, z
<1>7. r \in AskRecord
  BY <1>1, <1>2, <1>6 DEF AskRecord
<1>8. r.key = k /\ r.since <= content /\ r.value = None /\ r.refresh = f /\ r.at = "idle"
  BY <1>2, <1>6
<1> QED BY <1>6, <1>7, <1>8 DEF i

\* A read of a listing keeps the invariant.
LEMMA ReadKeeps ==
  ASSUME CacheInv, NEW a \in Askers, NEW k \in Listings, NEW f \in BOOLEAN, ask[a].at = "idle", f => user = "schema",
         Cache!Consults(a, Cache!Asked(k, f)), user' = user, content' = content, cleared' = cleared
  PROVE  CacheInv'
<1> DEFINE q == Cache!Asked(k, f)
<1>1. content \in 0..MaxVersion
  BY DEF CacheInv
<1>2. q \in AskRecord /\ q.key = k /\ q.since <= content /\ q.value = None /\ q.refresh = f
  BY <1>1, AskedFields
<1>3. Cache!Consults(a, q)
  OBVIOUS
<1> HIDE DEF q
<1>4. ConsultsFor(a, k, q)
  BY <1>2, <1>3 DEF ConsultsFor
<1> QED BY <1>4, ConsultsKeeps

\* A refresh that waited goes on.
LEMMA RefreshGoesKeeps ==
  ASSUME CacheInv, NEW a \in Askers, Cache!RefreshGoes(a)
  PROVE  CacheInv'
<1> DEFINE q == ask[a]  k == q.key
<1>1. CacheParts
  BY PartsOfCache
<1>2. q \in AskRecord
  BY <1>1 DEF CacheParts
<1>3. q.at = "waits" /\ q.of = None /\ Cache!Consults(a, q) /\ user' = user /\ content' = content /\ cleared' = cleared
  BY DEF Cache!RefreshGoes
<1>4. q.value = None /\ q.since <= content /\ k \in Listings
  BY <1>1, <1>3 DEF CacheParts, AsksAgree, Waiting, Known
<1>5. ConsultsFor(a, k, q)
  BY <1>2, <1>3, <1>4 DEF ConsultsFor
<1> HIDE DEF q, k
<1> QED BY <1>5, ConsultsKeeps

\* refreshListing: it follows a refresh of the same moment, or waits for the load that is
\* pending.
LEMMA RefreshListingKeeps ==
  ASSUME CacheInv, NEW a \in Askers, NEW k \in Listings, Cache!RefreshListing(a, k)
  PROVE  CacheInv'
<1>1. /\ user \in {"search", "schema"} /\ content \in 0..MaxVersion /\ cleared \in 0..MaxCleared
      /\ entries \in Seq(EntryRecord) /\ bytes = Cache!Total(entries)
      /\ EntriesAgree(entries, cleared, pending)
      /\ AsksAgree(user, content, cleared, pending, refreshes, ask)
      /\ pending \in [Listings -> Askers \cup {None}] /\ refreshes \in [Listings -> Askers \cup {None}]
      /\ ask \in [Askers -> AskRecord] /\ None \notin Askers /\ MaxVersion \in Nat /\ MaxCleared \in Nat
  BY PartsOfCache DEF CacheParts
<1>2. /\ user = "search" /\ ask[a].at = "idle"
      /\ user' = user /\ content' = content /\ cleared' = cleared /\ entries' = entries /\ bytes' = bytes
      /\ pending' = pending
  BY DEF Cache!RefreshListing
<1> DEFINE q == Cache!Asked(k, TRUE)  i == content
<1> DEFINE c == "idle"  t == TRUE  z == 0
<1>3. q = [at |-> c, key |-> k, of |-> None, refresh |-> t, since |-> i, value |-> None, epoch |-> z]
      /\ i \in 0..MaxVersion /\ z \in 0..MaxCleared
  <2> DEFINE f == TRUE
  <2>1. f \in BOOLEAN /\ q = Cache!Asked(k, f)
    OBVIOUS
  <2> HIDE DEF f, q
  <2>2. q = [at |-> "idle", key |-> k, of |-> None, refresh |-> f, since |-> IF f THEN content ELSE 0,
             value |-> None, epoch |-> 0]
    BY <1>1, <2>1, AskedFields
  <2>3. i = (IF f THEN content ELSE 0) /\ t = f
    BY DEF f
  <2>4. q = [at |-> c, key |-> k, of |-> None, refresh |-> t, since |-> i, value |-> None, epoch |-> z]
    BY <2>2, <2>3
  <2>5. i \in 0..MaxVersion /\ z \in 0..MaxCleared
    BY <1>1
  <2> QED BY <2>4, <2>5
<1>t. t \in BOOLEAN /\ t
  OBVIOUS
<1> HIDE DEF c, t, z
<1>4. CASE refreshes[k] # None
  <2>1. refreshes' = refreshes
        /\ ask' = [ask EXCEPT ![a] = [q EXCEPT !.at = "follows", !.of = refreshes[k], !.since = ask[refreshes[k]].since]]
    BY <1>4 DEF Cache!RefreshListing
  <2> DEFINE o == refreshes[k]  s == ask[o].since
             r == [q EXCEPT !.at = "follows", !.of = o, !.since = s]  x == [q EXCEPT !.at = "follows"]  y == [x EXCEPT !.of = o]
  <2>2. o \in Askers
    BY <1>1, <1>4
  <2>3. s \in 0..MaxVersion /\ s <= content
    <3>1. s \in 0..MaxVersion
      BY <1>1, <2>2, AskFields
    <3> QED BY <1>1, <2>2, <3>1 DEF AsksAgree, Known
  <2>4. ask' = [ask EXCEPT ![a] = r] /\ r = [y EXCEPT !.since = s]
    BY <2>1
  <2> DEFINE d == "follows"
  <2>d. d = "follows" /\ x = [q EXCEPT !.at = d]
    OBVIOUS
  <2> HIDE DEF q, o, s, r, i, d, x
  <2>5. x = [at |-> d, key |-> k, of |-> None, refresh |-> t, since |-> i, value |-> None, epoch |-> z]
    BY <1>3, <2>d, AtWith
  <2>6. y = [at |-> d, key |-> k, of |-> o, refresh |-> t, since |-> i, value |-> None, epoch |-> z]
    BY <2>5, OfWith
  <2> HIDE DEF y
  <2>7. r = [at |-> d, key |-> k, of |-> o, refresh |-> t, since |-> s, value |-> None, epoch |-> z]
    BY <2>4, <2>6, SinceWith
  <2>8. r \in AskRecord /\ r.at = "follows" /\ r.key = k /\ r.of = o /\ r.since = s
    <3>1. r.at = "follows" /\ r.key = k /\ r.of = o /\ r.since = s
      BY <2>7, <2>d
    <3>2. r \in AskRecord
      BY <1>3, <1>t, <2>2, <2>3, <2>7, <2>d DEF AskRecord
    <3> QED BY <3>1, <3>2
  <2>9. MovesOf(user, content, cleared, pending, refreshes, ask, a, k, r, pending, refreshes, ask')
    <3>1. refreshes[k] = o /\ s = ask[refreshes[k]].since
      BY DEF o, s
    <3> QED BY <1>1, <1>2, <1>4, <2>3, <2>4, <2>8, <3>1 DEF MovesOf
  <2>10. AsksAgree(user, content, cleared, pending, refreshes, ask')
    BY <2>9, MovesAgrees
  <2> QED BY <1>1, <1>2, <2>1, <2>10 DEF CacheInv
<1>5. CASE refreshes[k] = None
  <2>1. /\ ask' = [ask EXCEPT ![a] = [q EXCEPT !.at = "waits", !.of = pending[k]]]
        /\ refreshes' = [refreshes EXCEPT ![k] = a]
    BY <1>5 DEF Cache!RefreshListing, Cache!Older
  <2> DEFINE o == pending[k]  r == [q EXCEPT !.at = "waits", !.of = o]  x == [q EXCEPT !.at = "waits"]
  <2>2. o \in Askers \cup {None}
    BY <1>1
  <2>4. ask' = [ask EXCEPT ![a] = r] /\ r = [x EXCEPT !.of = o]
    BY <2>1
  <2> DEFINE d == "waits"
  <2>d. d = "waits" /\ x = [q EXCEPT !.at = d]
    OBVIOUS
  <2> HIDE DEF q, o, r, i, d, x
  <2>5. x = [at |-> d, key |-> k, of |-> None, refresh |-> t, since |-> i, value |-> None, epoch |-> z]
    BY <1>3, <2>d, AtWith
  <2>7. r = [at |-> d, key |-> k, of |-> o, refresh |-> t, since |-> i, value |-> None, epoch |-> z]
    BY <2>4, <2>5, OfWith
  <2>8. r \in AskRecord /\ r.at = "waits" /\ r.key = k /\ r.of = o /\ r.since = i /\ r.refresh /\ r.value = None
    <3>1. r.at = "waits" /\ r.key = k /\ r.of = o /\ r.since = i /\ r.refresh /\ r.value = None
      BY <1>t, <2>7, <2>d
    <3>2. r \in AskRecord
      BY <1>3, <1>t, <2>2, <2>7, <2>d DEF AskRecord
    <3> QED BY <3>1, <3>2
  <2>9. MovesOf(user, content, cleared, pending, refreshes, ask, a, k, r, pending, refreshes', ask')
    <3>1. i <= content
      BY <1>1 DEF i
    <3> QED BY <1>1, <1>2, <1>5, <2>1, <2>4, <2>8, <3>1 DEF MovesOf, o
  <2>10. AsksAgree(user, content, cleared, pending, refreshes', ask')
    BY <2>9, MovesAgrees
  <2> QED BY <1>1, <1>2, <2>10 DEF CacheInv
<1> QED BY <1>4, <1>5

\* A call that is answered.
LEMMA AnswersFields ==
  ASSUME NEW q, q \in AskRecord, NEW v \in 0..MaxVersion, NEW r, r = Cache!Answers(q, v)
  PROVE  /\ r \in AskRecord /\ r.at \in {"idle", "done"}
         /\ (r.at = "done" => q.refresh /\ r.value = v /\ r.since = q.since)
         /\ (r.since = q.since \/ r.since = 0)
<1>1. CASE q.refresh
  <2>0. MaxCleared \in Nat /\ MaxVersion \in Nat
    BY CacheGiven
  <2> DEFINE s == q.since  d == "done"  t == TRUE  c == "idle"  n == FALSE  w == 0
             x == [Cache!NoAsk EXCEPT !.at = d]  y == [x EXCEPT !.refresh = t]  z == [y EXCEPT !.since = s]
  <2>1. r = [z EXCEPT !.value = v] /\ s \in 0..MaxVersion
    BY <1>1 DEF Cache!Answers, AskRecord
  <2>n. Cache!NoAsk = [at |-> c, key |-> None, of |-> None, refresh |-> n, since |-> w, value |-> None, epoch |-> w]
    BY NoAskFields
  <2>w. w \in 0..MaxCleared /\ d = "done" /\ t \in BOOLEAN
    BY <2>0
  <2> HIDE DEF s, d, t, c, n, w
  <2>2. x = [at |-> d, key |-> None, of |-> None, refresh |-> n, since |-> w, value |-> None, epoch |-> w]
    BY <2>n, AtWith
  <2> HIDE DEF x
  <2>3. y = [at |-> d, key |-> None, of |-> None, refresh |-> t, since |-> w, value |-> None, epoch |-> w]
    BY <2>2, RefreshWith
  <2> HIDE DEF y
  <2>4. z = [at |-> d, key |-> None, of |-> None, refresh |-> t, since |-> s, value |-> None, epoch |-> w]
    BY <2>3, SinceWith
  <2> HIDE DEF z
  <2>5. r = [at |-> d, key |-> None, of |-> None, refresh |-> t, since |-> s, value |-> v, epoch |-> w]
    BY <2>1, <2>4, ValueWith
  <2>6. r \in AskRecord
    <3> DEFINE g == None
    <3>1. d \in {"idle", "loading", "joined", "waits", "follows", "done"} /\ g \in Listings \cup {None}
          /\ g \in Askers \cup {None} /\ t \in BOOLEAN /\ s \in 0..MaxVersion /\ v \in 0..MaxVersion \cup {None}
          /\ w \in 0..MaxCleared
      BY <2>1, <2>w
    <3>2. r = [at |-> d, key |-> g, of |-> g, refresh |-> t, since |-> s, value |-> v, epoch |-> w]
      BY <2>5
    <3> HIDE DEF g
    <3> QED BY <3>1, <3>2, MakeAsk
  <2>7. r.at = "done" /\ r.value = v /\ r.since = s
    BY <2>5, <2>w
  <2> QED BY <1>1, <2>6, <2>7 DEF s
<1>2. CASE ~q.refresh
  BY <1>2, NoAskFields DEF Cache!Answers
<1> QED BY <1>1, <1>2

\* A load ends: its listing is kept if nothing was cleared, and those who share it are answered.
LEMMA LoadEndsKeeps ==
  ASSUME CacheInv, NEW a \in Askers, Cache!LoadEnds(a)
  PROVE  CacheInv'
<1>1. /\ user \in {"search", "schema"} /\ content \in 0..MaxVersion /\ cleared \in 0..MaxCleared
      /\ entries \in Seq(EntryRecord) /\ bytes = Cache!Total(entries)
      /\ EntriesAgree(entries, cleared, pending)
      /\ AsksAgree(user, content, cleared, pending, refreshes, ask)
      /\ pending \in [Listings -> Askers \cup {None}] /\ refreshes \in [Listings -> Askers \cup {None}]
      /\ ask \in [Askers -> AskRecord] /\ None \notin Askers /\ MaxVersion \in Nat /\ MaxCleared \in Nat
  BY PartsOfCache DEF CacheParts
<1> DEFINE S == Sharing(ask, a)  v == ask[a].value
           Goes(b) == IF ask[b].at = "waits" /\ ask[b].of = a THEN [ask[b] EXCEPT !.of = None] ELSE ask[b]
<1>2. Cache!Followers(a) = S /\ S \subseteq Askers /\ a \in S
  BY DEF Cache!Followers, Sharing, With
<1>3. ask[a].at = "loading" /\ user' = user /\ content' = content /\ cleared' = cleared
      /\ pending' = Cache!Unpended(a) /\ refreshes' = Cache!Owning(S)
      /\ \/ /\ v # None /\ Cache!Filled(a)
            /\ ask' = [b \in Askers |-> IF b \in S THEN Cache!Answers(ask[b], v)
                                        ELSE IF b \in {c \in Askers : ask[c].at = "waits" /\ ask[c].of = a}
                                             THEN [ask[b] EXCEPT !.of = None] ELSE ask[b]]
         \/ /\ entries' = entries /\ bytes' = bytes
            /\ ask' = [b \in Askers |-> IF b \in S THEN Cache!NoAsk
                                        ELSE IF b \in {c \in Askers : ask[c].at = "waits" /\ ask[c].of = a}
                                             THEN [ask[b] EXCEPT !.of = None] ELSE ask[b]]
  BY <1>2 DEF Cache!LoadEnds
<1>4. AsksAre(user, content, cleared, pending, refreshes, ask)
  BY <1>1, AsksParts
<1>5. ASSUME NEW b \in Askers PROVE ask[b] \in AskRecord /\ ask[b].since <= content /\ ask[b].since \in 0..MaxVersion
  <2>1. ask[b] \in AskRecord
    BY <1>1
  <2>2. ask[b].since <= content
    BY <1>4 DEF AsksAre
  <2> QED BY <2>1, <2>2 DEF AskRecord
<1>6. ASSUME NEW b \in Askers PROVE Goes(b) \in AskRecord
  <2>1. CASE ask[b].at = "waits" /\ ask[b].of = a
    <3> DEFINE x == ask[b]
    <3>1. x \in AskRecord /\ Goes(b) = [x EXCEPT !.of = None]
      BY <1>5, <2>1
    <3> HIDE DEF x
    <3>2. [x EXCEPT !.of = None] \in AskRecord
      BY <3>1 DEF AskRecord
    <3> QED BY <3>1, <3>2
  <2>2. CASE ~(ask[b].at = "waits" /\ ask[b].of = a)
    BY <1>5, <2>2
  <2> QED BY <2>1, <2>2
<1>7. pending' = [k \in Listings |-> IF pending[k] = a THEN None ELSE pending[k]]
      /\ refreshes' = [k \in Listings |-> IF refreshes[k] \in S THEN None ELSE refreshes[k]]
  BY <1>3 DEF Cache!Unpended, Cache!Owning
<1>8. \A k \in Listings : (pending[k] = None => pending'[k] = None) /\ (pending[k] = a => pending'[k] = None)
  BY <1>7
<1>9. EntriesAgree(entries, cleared, pending')
  <2>1. \A n \in DOMAIN entries : entries[n].key \in Listings
    BY <1>1, HeldFacts
  <2> QED BY <1>1, <1>8, <2>1 DEF EntriesAgree
<1>10. CASE v # None /\ Cache!Filled(a)
            /\ ask' = [b \in Askers |-> IF b \in S THEN Cache!Answers(ask[b], v)
                                        ELSE IF b \in {c \in Askers : ask[c].at = "waits" /\ ask[c].of = a}
                                             THEN [ask[b] EXCEPT !.of = None] ELSE ask[b]]
  <2>1. v \in 0..MaxVersion
    <3>1. v \in 0..MaxVersion \cup {None}
      BY <1>5 DEF AskRecord
    <3> QED BY <1>10, <3>1
  <2>2. \A b \in Askers : ask'[b] = IF b \in S THEN Cache!Answers(ask[b], v) ELSE Goes(b)
    BY <1>10
  <2> HIDE DEF Goes
  <2>3. ASSUME NEW b \in S PROVE ask'[b] = Cache!Answers(ask[b], v) /\ ask[b] \in AskRecord
    BY <1>2, <1>5, <2>2
  <2>a. v \in 0..MaxVersion
    BY <2>1
  <2>4. ASSUME NEW b \in S
        PROVE  /\ ask'[b] \in AskRecord /\ ask'[b].at \in {"idle", "done"}
               /\ ask'[b].at = "done" => ask[b].refresh /\ ask'[b].value = v /\ ask'[b].since = ask[b].since
               /\ ask'[b].since <= content
    <3> DEFINE q == ask[b]  r == ask'[b]  w == v
    <3>1. q \in AskRecord /\ r = Cache!Answers(q, w) /\ w \in 0..MaxVersion /\ q.since <= content
      BY <1>2, <1>5, <2>1, <2>3
    <3> HIDE DEF q, r, w
    <3>2. /\ r \in AskRecord /\ r.at \in {"idle", "done"}
          /\ (r.at = "done" => q.refresh /\ r.value = w /\ r.since = q.since)
          /\ (r.since = q.since \/ r.since = 0)
      BY <3>1, AnswersFields
    <3>3. r.since <= content
      BY <1>1, <3>1, <3>2
    <3> QED BY <3>2, <3>3 DEF q, r, w
  <2>5. ask' \in [Askers -> AskRecord]
    <3>1. ASSUME NEW b \in Askers PROVE ask'[b] \in AskRecord
      <4>1. CASE b \in S
        BY <2>4, <4>1
      <4>2. CASE b \notin S
        BY <1>6, <2>2, <4>2
      <4> QED BY <4>1, <4>2
    <3>2. ask' = [b \in Askers |-> ask'[b]]
      BY <1>10
    <3> QED BY <3>1, <3>2
  <2>6. ASSUME NEW b \in S, user = "search", ask[b].refresh PROVE ask[b].since <= v
    <3>1. NewEnough(pending, ask)
      BY <1>4, <2>6 DEF AsksAre
    <3>2. ask[a].refresh => ask[a].since <= v
      BY <1>3, <1>10, <3>1 DEF NewEnough
    <3>3. ASSUME NEW c \in Askers, ask[c].at = "joined", ask[c].of = a, ask[c].refresh PROVE ask[c].since <= v
      BY <1>10, <3>1, <3>3 DEF NewEnough
    <3>4. ASSUME NEW c \in With(ask, a), ask[c].refresh PROVE c \in Askers /\ ask[c].since <= v
      <4>1. c = a \/ (c \in Askers /\ ask[c].at = "joined" /\ ask[c].of = a)
        BY <3>4 DEF With
      <4> QED BY <3>2, <3>3, <3>4, <4>1
    <3>5. CASE b \in With(ask, a)
      BY <2>6, <3>4, <3>5
    <3>6. CASE b \notin With(ask, a)
      <4> DEFINE o == ask[b].of
      <4>1. b \in Askers /\ ask[b].at = "follows" /\ o \in With(ask, a)
        BY <3>6 DEF Sharing
      <4>2. ask[o].since = ask[b].since /\ ask[o].refresh
        BY <1>4, <4>1 DEF AsksAre
      <4> HIDE DEF o
      <4>3. ask[o].since <= v
        BY <3>4, <4>1, <4>2
      <4> QED BY <4>2, <4>3
    <3> QED BY <3>5, <3>6
  <2>7. ASSUME NEW b \in S
        PROVE  /\ ask'[b].at \in {"idle", "done"} /\ ask'[b].since <= content
               /\ user = "search" /\ ask'[b].at = "done" /\ ask'[b].refresh
                    => ask'[b].value \in Nat /\ ask'[b].since <= ask'[b].value
    <3>1. v \in Nat
      BY <1>1, <2>1
    <3> QED BY <2>4, <2>6, <3>1
  <2>8. \A b \in Askers : b \notin S => ask'[b] = Goes(b)
    BY <2>2
  <2>9. LeavesOf(user, content, cleared, pending, refreshes, ask, a, pending', refreshes', ask')
    BY <1>1, <1>3, <1>7, <2>5, <2>7, <2>8 DEF LeavesOf, Goes
  <2>10. AsksAgree(user, content, cleared, pending', refreshes', ask')
    BY <2>9, LeavesAgrees
  <2> DEFINE k == ask[a].key
  <2>11. CASE Cache!StillPending(a) /\ Bytes[k] <= MaxBytes
    <3> DEFINE e == [key |-> k, value |-> v, expired |-> FALSE, epoch |-> ask[a].epoch]  es2 == Append(Cache!Room(entries, k), e)
    <3>1. Cache!Holds(es2)
      BY <1>10, <2>11 DEF Cache!Filled
    <3>2. k \in Listings /\ pending[k] = a
      BY <1>3, <1>4, <2>11 DEF AsksAre, Cache!StillPending
    <3>3. ask[a].epoch = cleared /\ pending[k] # None /\ pending'[k] = None
      <4>1. pending[k] # None
        BY <1>1, <3>2
      <4> QED BY <1>4, <1>8, <3>2, <4>1 DEF AsksAre
    <3> DEFINE w == v
    <3>4. e = [key |-> k, value |-> w, expired |-> FALSE, epoch |-> cleared] /\ w \in 0..MaxVersion
      BY <2>1, <3>3
    <3> DEFINE pen2 == pending'
    <3>5. pen2[k] = None /\ \A j \in Listings : pending[j] = None => pen2[j] = None
      BY <1>8, <3>3
    <3>6. Bytes[k] <= MaxBytes
      BY <2>11
    <3>h. es2 = Append(Cache!Room(entries, k), e)
      OBVIOUS
    <3> HIDE DEF k, e, w, pen2, es2
    <3>7. EntriesAgree(Append(Cache!Room(entries, k), e), cleared, pen2)
      BY <1>1, <3>2, <3>3, <3>4, <3>5, <3>6, FilledAgrees
    <3>8. EntriesAgree(es2, cleared', pending')
      BY <1>3, <3>7, <3>h DEF pen2
    <3>9. bytes' = Cache!Total(entries') /\ EntriesAgree(entries', cleared', pending')
      BY <1>1, <3>1, <3>8, HoldsExact
    <3> QED BY <1>1, <1>3, <2>10, <3>9 DEF CacheInv
  <2>12. CASE ~(Cache!StillPending(a) /\ Bytes[k] <= MaxBytes)
    <3>1. entries' = entries /\ bytes' = bytes
      BY <1>10, <2>12 DEF Cache!Filled
    <3> QED BY <1>1, <1>3, <1>9, <2>10, <3>1 DEF CacheInv
  <2> QED BY <2>11, <2>12
<1>11. CASE entries' = entries /\ bytes' = bytes
            /\ ask' = [b \in Askers |-> IF b \in S THEN Cache!NoAsk
                                        ELSE IF b \in {c \in Askers : ask[c].at = "waits" /\ ask[c].of = a}
                                             THEN [ask[b] EXCEPT !.of = None] ELSE ask[b]]
  <2>2. \A b \in Askers : ask'[b] = IF b \in S THEN Cache!NoAsk ELSE Goes(b)
    BY <1>11
  <2> HIDE DEF Goes
  <2>3. ask' \in [Askers -> AskRecord]
    <3>1. ASSUME NEW b \in Askers PROVE ask'[b] \in AskRecord
      BY <1>6, <2>2, NoAskFields
    <3>2. ask' = [b \in Askers |-> ask'[b]]
      BY <1>11
    <3> QED BY <3>1, <3>2
  <2>4. ASSUME NEW b \in S
        PROVE  /\ ask'[b].at \in {"idle", "done"} /\ ask'[b].since <= content
               /\ user = "search" /\ ask'[b].at = "done" /\ ask'[b].refresh
                    => ask'[b].value \in Nat /\ ask'[b].since <= ask'[b].value
    <3>1. ask'[b] = Cache!NoAsk
      BY <1>2, <2>2
    <3> QED BY <1>1, <3>1, NoAskFields
  <2>5. \A b \in Askers : b \notin S => ask'[b] = Goes(b)
    BY <2>2
  <2>6. LeavesOf(user, content, cleared, pending, refreshes, ask, a, pending', refreshes', ask')
    BY <1>1, <1>3, <1>7, <2>3, <2>4, <2>5 DEF LeavesOf, Goes
  <2>7. AsksAgree(user, content, cleared, pending', refreshes', ask')
    BY <2>6, LeavesAgrees
  <2> QED BY <1>1, <1>3, <1>9, <1>11, <2>7 DEF CacheInv
<1> QED BY <1>3, <1>10, <1>11

\* A load reads the server.
LEMMA LoadsKeeps ==
  ASSUME CacheInv, NEW a \in Askers, Cache!Loads(a)
  PROVE  CacheInv'
<1>1. CacheParts
  BY PartsOfCache
<1>2. /\ ask[a].at = "loading" /\ ask[a].value = None /\ ask' = [ask EXCEPT ![a].value = content]
      /\ user' = user /\ content' = content /\ cleared' = cleared /\ entries' = entries /\ bytes' = bytes
      /\ pending' = pending /\ refreshes' = refreshes
  BY DEF Cache!Loads
<1>3. LoadsOf(user, content, cleared, pending, refreshes, ask, a, ask')
  BY <1>1, <1>2 DEF LoadsOf, CacheParts
<1>4. AsksAgree(user, content, cleared, pending, refreshes, ask')
  BY <1>3, LoadsAgrees
<1> QED BY <1>1, <1>2, <1>4 DEF CacheInv, CacheParts

\* An answer is taken.
LEMMA ReturnsKeeps ==
  ASSUME CacheInv, NEW a \in Askers, Cache!Returns(a)
  PROVE  CacheInv'
<1>1. CacheParts
  BY PartsOfCache
<1>2. /\ ask[a].at = "done" /\ ask' = [ask EXCEPT ![a] = Cache!NoAsk]
      /\ user' = user /\ content' = content /\ cleared' = cleared /\ entries' = entries /\ bytes' = bytes
      /\ pending' = pending /\ refreshes' = refreshes
  BY DEF Cache!Returns
<1>3. content \in Nat /\ ask[a].at \in {"idle", "done"} /\ AsksAgree(user, content, cleared, pending, refreshes, ask)
  BY <1>1, <1>2 DEF CacheParts
<1>4. AsksAgree(user, content, cleared, pending, refreshes, ask')
  BY <1>2, <1>3, CacheRests
<1> QED BY <1>1, <1>2, <1>4 DEF CacheInv, CacheParts

\* Entries expire.
LEMMA ExpiresKeeps ==
  ASSUME CacheInv, Cache!Expires
  PROVE  CacheInv'
<1>1. CacheParts
  BY PartsOfCache
<1>2. PICK n \in DOMAIN entries : ~entries[n].expired /\ entries' = [entries EXCEPT ![n].expired = TRUE]
  BY DEF Cache!Expires
<1>3. user' = user /\ content' = content /\ cleared' = cleared /\ bytes' = bytes /\ pending' = pending
      /\ refreshes' = refreshes /\ ask' = ask
  BY DEF Cache!Expires
<1>4. /\ entries \in Seq(EntryRecord) /\ KeysOnce(entries)
      /\ Len(entries) <= MaxListings /\ Cache!Total(entries) <= MaxBytes
      /\ \A m \in DOMAIN entries : entries[m].epoch = cleared /\ pending[entries[m].key] = None
  BY <1>1 DEF CacheParts, EntriesAgree
<1>5. DOMAIN entries = 1..Len(entries) /\ Len(entries) \in Nat /\ \A m \in DOMAIN entries : entries[m] \in EntryRecord
  BY <1>4, HeldFacts
<1> DEFINE x == entries[n]  t == TRUE  y == [x EXCEPT !.expired = t]  es == [entries EXCEPT ![n] = y]
<1>6. entries' = es /\ t \in BOOLEAN /\ x \in EntryRecord
  BY <1>2, <1>5
<1> HIDE DEF t
<1>7. y \in EntryRecord /\ y.key = x.key /\ y.epoch = x.epoch
  <2> HIDE DEF x
  <2>1. y \in EntryRecord
    BY <1>6 DEF EntryRecord
  <2>2. y.key = x.key /\ y.epoch = x.epoch
    BY <1>6 DEF EntryRecord
  <2> QED BY <2>1, <2>2
<1> HIDE DEF y
<1>8. /\ es \in Seq(EntryRecord) /\ DOMAIN es = DOMAIN entries /\ Len(es) = Len(entries)
      /\ es[n] = y /\ \A m \in DOMAIN entries : m # n => es[m] = entries[m]
  <2>1. DOMAIN es = 1..Len(entries) /\ es[n] = y /\ \A m \in DOMAIN entries : m # n => es[m] = entries[m]
    BY <1>5
  <2>2. es \in [1..Len(entries) -> EntryRecord]
    BY <1>5, <1>7
  <2> HIDE DEF es
  <2>3. es \in Seq(EntryRecord) /\ Len(es) = Len(entries)
    BY <1>5, <2>1, <2>2
  <2> QED BY <1>5, <2>1, <2>3
<1> HIDE DEF es
<1>9. \A m \in DOMAIN entries : es[m].key = entries[m].key /\ es[m].epoch = entries[m].epoch
  BY <1>7, <1>8
<1>10. KeysOnce(es)
  BY <1>4, <1>8, <1>9 DEF KeysOnce
<1>11. Cache!Held(es) = Cache!Held(entries)
  <2>1. Cache!Held(es) = {es[m].key : m \in DOMAIN es} /\ Cache!Held(entries) = {entries[m].key : m \in DOMAIN entries}
    BY <1>4, <1>8, HeldFacts
  <2> QED BY <1>8, <1>9, <2>1
<1>12. Cache!Total(es) = Cache!Total(entries)
  BY <1>11 DEF Cache!Total
<1>13. EntriesAgree(es, cleared, pending)
  <2>1. \A m \in DOMAIN es : es[m].epoch = cleared /\ pending[es[m].key] = None
    BY <1>4, <1>8, <1>9
  <2> QED BY <1>4, <1>8, <1>10, <1>12, <2>1 DEF EntriesAgree
<1> QED BY <1>1, <1>3, <1>6, <1>12, <1>13 DEF CacheInv, CacheParts

\* No entries agree.
LEMMA NothingHeld ==
  ASSUME NEW clr, NEW pen
  PROVE  EntriesAgree(<<>>, clr, pen) /\ Cache!Total(<<>>) = 0
<1> DEFINE es == <<>>
<1>1. es \in Seq(EntryRecord) /\ DOMAIN es = {} /\ Len(es) = 0
  OBVIOUS
<1>0. MaxListings \in Nat /\ MaxBytes \in Nat
  BY CacheGiven
<1> HIDE DEF es
<1>2. Cache!Held(es) = {} /\ Cache!Total(es) = SumOf(Bytes, Cache!Held(es))
  <2>1. Cache!Held(es) = {es[n].key : n \in DOMAIN es} /\ Cache!Total(es) = SumOf(Bytes, Cache!Held(es))
    BY <1>1, HeldFacts
  <2> QED BY <1>1, <2>1
<1>3. Cache!Total(es) = 0
  <2> DEFINE D == Listings  W == Bytes  S == Cache!Held(es)
  <2>1. IsFiniteSet(D) /\ W \in [D -> Nat] /\ S = {}
    BY <1>2, CacheGiven
  <2> HIDE DEF D, W, S
  <2>2. SumOf(W, {}) = 0
    BY <2>1, SumStep
  <2> QED BY <1>2, <2>1, <2>2 DEF W, S
<1>4. EntriesAgree(es, clr, pen)
  BY <1>0, <1>1, <1>3 DEF EntriesAgree, KeysOnce
<1> QED BY <1>3, <1>4 DEF es

\* clear: no load that is pending fills the cache any more.
LEMMA ClearKeeps ==
  ASSUME CacheInv, Cache!Clear
  PROVE  CacheInv'
<1>1. CacheParts
  BY PartsOfCache
<1>2. /\ user = "schema" /\ cleared < MaxCleared /\ cleared' = cleared + 1
      /\ entries' = <<>> /\ bytes' = 0 /\ pending' = [k \in Listings |-> None]
      /\ user' = user /\ content' = content /\ refreshes' = refreshes /\ ask' = ask
  BY DEF Cache!Clear
<1>3. AsksAgree("schema", content, cleared, pending, refreshes, ask) /\ cleared \in 0..MaxCleared /\ MaxCleared \in Nat
      /\ content \in 0..MaxVersion
  BY <1>1, <1>2 DEF CacheParts
<1> DEFINE pen2 == [k \in Listings |-> None]  clr2 == cleared + 1
<1>4. pen2 = [k \in Listings |-> None]
  OBVIOUS
<1> HIDE DEF pen2, clr2
<1>5. AsksAgree("schema", content, clr2, pen2, refreshes, ask)
  BY <1>3, <1>4, ClearAgrees
<1>6. EntriesAgree(<<>>, clr2, pen2) /\ Cache!Total(<<>>) = 0
  BY NothingHeld
<1>7. clr2 \in 0..MaxCleared
  BY <1>2, <1>3 DEF clr2
<1>8. cleared' = clr2 /\ pending' = pen2
  BY <1>2, <1>4 DEF clr2
<1> QED BY <1>2, <1>3, <1>5, <1>6, <1>7, <1>8 DEF CacheInv

\* The server changes.
LEMMA ContentChangesKeeps ==
  ASSUME CacheInv, Cache!ContentChanges
  PROVE  CacheInv'
<1>1. CacheParts
  BY PartsOfCache
<1>2. /\ content < MaxVersion /\ content' = content + 1
      /\ user' = user /\ cleared' = cleared /\ entries' = entries /\ bytes' = bytes
      /\ pending' = pending /\ refreshes' = refreshes /\ ask' = ask
  BY DEF Cache!ContentChanges
<1>3. content \in Nat /\ AsksAgree(user, content, cleared, pending, refreshes, ask) /\ content' \in 0..MaxVersion
  BY <1>1, <1>2 DEF CacheParts
<1>4. AsksAgree(user, content + 1, cleared, pending, refreshes, ask)
  BY <1>3, ContentAgrees
<1> QED BY <1>1, <1>2, <1>3, <1>4 DEF CacheInv, CacheParts

\* The invariant holds at the start.
LEMMA CacheInitially ==
  ASSUME Cache!Init PROVE CacheInv
<1>1. /\ user \in {"search", "schema"} /\ content = 0 /\ cleared = 0 /\ entries = <<>> /\ bytes = 0
      /\ pending = [k \in Listings |-> None] /\ refreshes = [k \in Listings |-> None] /\ ask = [a \in Askers |-> Cache!NoAsk]
  BY DEF Cache!Init
<1>2. MaxVersion \in Nat /\ MaxCleared \in Nat
  BY CacheGiven
<1>3. EntriesAgree(<<>>, cleared, pending) /\ Cache!Total(<<>>) = 0
  BY NothingHeld
<1>4. /\ pending \in [Listings -> Askers \cup {None}] /\ refreshes \in [Listings -> Askers \cup {None}]
      /\ ask \in [Askers -> AskRecord] /\ \A k \in Listings : pending[k] = None /\ refreshes[k] = None
  BY <1>1, NoAskFields
<1>5. \A a \in Askers : ask[a].at = "idle" /\ ask[a].since = 0
  BY <1>1, NoAskFields
<1>6. AsksTyped(pending, refreshes, ask)
  BY <1>4 DEF AsksTyped
<1>7. PendingLoads(cleared, pending, ask) /\ JoinedLoads(ask) /\ Followed(refreshes, ask) /\ Owners(refreshes, ask)
  BY <1>4, <1>5 DEF PendingLoads, JoinedLoads, Followed, Owners
<1>8. Waiting(user, pending, ask) /\ NewEnough(pending, ask)
  BY <1>5 DEF Waiting, NewEnough
<1>9. Known(content, ask)
  BY <1>1, <1>5 DEF Known
<1>10. AsksAgree(user, content, cleared, pending, refreshes, ask)
  BY <1>6, <1>7, <1>8, <1>9 DEF AsksAgree
<1>11. content \in 0..MaxVersion /\ cleared \in 0..MaxCleared
  BY <1>1, <1>2
<1> QED BY <1>1, <1>3, <1>10, <1>11 DEF CacheInv

\* Every step keeps it.
LEMMA CacheKeeps ==
  ASSUME CacheInv, [Cache!Next]_(Cache!vars) PROVE CacheInv'
<1>1. CASE UNCHANGED Cache!vars
  BY <1>1 DEF Cache!vars, CacheInv
<1>2. CASE Cache!Next
  <2>1. ASSUME NEW a \in Askers, Cache!Loads(a) PROVE CacheInv'
    BY <2>1, LoadsKeeps
  <2>2. ASSUME NEW a \in Askers, Cache!LoadEnds(a) PROVE CacheInv'
    BY <2>2, LoadEndsKeeps
  <2>3. ASSUME NEW a \in Askers, Cache!RefreshGoes(a) PROVE CacheInv'
    BY <2>3, RefreshGoesKeeps
  <2>4. ASSUME NEW a \in Askers, Cache!Returns(a) PROVE CacheInv'
    BY <2>4, ReturnsKeeps
  <2>5. ASSUME NEW a \in Askers, NEW k \in Listings, Cache!Read(a, k) PROVE CacheInv'
    <3>1. ask[a].at = "idle" /\ Cache!Consults(a, Cache!Asked(k, FALSE)) /\ user' = user /\ content' = content /\ cleared' = cleared
      BY <2>5 DEF Cache!Read
    <3> DEFINE f == FALSE
    <3>2. f \in BOOLEAN /\ (f => user = "schema") /\ Cache!Consults(a, Cache!Asked(k, f))
      BY <3>1
    <3> HIDE DEF f
    <3> QED BY <3>1, <3>2, ReadKeeps
  <2>6. ASSUME NEW a \in Askers, NEW k \in Listings, Cache!RefreshListing(a, k) PROVE CacheInv'
    BY <2>6, RefreshListingKeeps
  <2>7. ASSUME NEW a \in Askers, NEW k \in Listings, Cache!RefreshMetadata(a, k) PROVE CacheInv'
    <3>1. user = "schema" /\ ask[a].at = "idle" /\ Cache!Consults(a, Cache!Asked(k, TRUE))
          /\ user' = user /\ content' = content /\ cleared' = cleared
      BY <2>7 DEF Cache!RefreshMetadata
    <3> DEFINE f == TRUE
    <3>2. f \in BOOLEAN /\ (f => user = "schema") /\ Cache!Consults(a, Cache!Asked(k, f))
      BY <3>1
    <3> HIDE DEF f
    <3> QED BY <3>1, <3>2, ReadKeeps
  <2> QED BY <1>2, <2>1, <2>2, <2>3, <2>4, <2>5, <2>6, <2>7, ExpiresKeeps, ClearKeeps, ContentChangesKeeps DEF Cache!Next
<1> QED BY <1>1, <1>2

\* It gives both properties.
LEMMA CacheShowsExact ==
  ASSUME CacheInv PROVE Cache!CacheExact /\ Cache!RefreshIsNew
<1>1. /\ user \in {"search", "schema"} /\ content \in 0..MaxVersion /\ cleared \in 0..MaxCleared
      /\ entries \in Seq(EntryRecord) /\ bytes = Cache!Total(entries)
      /\ EntriesAgree(entries, cleared, pending)
      /\ AsksAgree(user, content, cleared, pending, refreshes, ask)
      /\ pending \in [Listings -> Askers \cup {None}] /\ refreshes \in [Listings -> Askers \cup {None}]
      /\ ask \in [Askers -> AskRecord] /\ None \notin Askers /\ MaxVersion \in Nat /\ MaxCleared \in Nat
  BY PartsOfCache DEF CacheParts
<1>2. bytes \in Nat
  BY <1>1, TotalGrows
<1>3. Cache!TypeOK
  BY <1>1, <1>2 DEF Cache!TypeOK, EntryRecord, AskRecord
<1>4. /\ KeysOnce(entries) /\ Len(entries) <= MaxListings /\ Cache!Total(entries) <= MaxBytes
      /\ \A n \in DOMAIN entries : entries[n].epoch = cleared
  BY <1>1 DEF EntriesAgree
<1>5. \A m, n \in DOMAIN entries : entries[m].key = entries[n].key => m = n
  BY <1>4 DEF KeysOnce
<1>6. AsksAre(user, content, cleared, pending, refreshes, ask)
  BY <1>1, AsksParts
<1>7. \A k \in Listings : pending[k] # None => ask[pending[k]].at = "loading" /\ ask[pending[k]].key = k
  BY <1>6 DEF AsksAre
<1>8. \A a \in Askers : ask[a].at = "joined" => ask[ask[a].of].at = "loading"
  BY <1>6 DEF AsksAre
<1>9. \A a \in Askers : ask[a].at = "follows" => refreshes[ask[a].key] = ask[a].of
  BY <1>6 DEF AsksAre
<1>10. bytes <= MaxBytes /\ Len(entries) <= MaxListings
  BY <1>1, <1>4
<1>11. Cache!CacheExact
  BY <1>1, <1>3, <1>4, <1>5, <1>7, <1>8, <1>9, <1>10 DEF Cache!CacheExact
<1>12. ASSUME NEW a \in Askers, user = "search" /\ ask[a].at = "done" /\ ask[a].refresh
       PROVE  ask[a].value >= ask[a].since
  <2>1. ask[a].value \in Nat /\ ask[a].since <= ask[a].value /\ ask[a].since \in 0..MaxVersion
    <3>1. NewEnough(pending, ask)
      BY <1>6, <1>12 DEF AsksAre
    <3>2. ask[a].since \in 0..MaxVersion
      BY <1>1, AskFields
    <3> QED BY <1>12, <3>1, <3>2 DEF NewEnough
  <2> DEFINE v == ask[a].value  s == ask[a].since
  <2>2. v \in Nat /\ s <= v /\ s \in 0..MaxVersion
    BY <2>1
  <2> HIDE DEF v, s
  <2>3. v >= s
    BY <1>1, <2>2
  <2> QED BY <2>3 DEF v, s
<1> QED BY <1>11, <1>12 DEF Cache!RefreshIsNew

-----------------------------------------------------------------------------
(* The three parts together: one of them is at work, the others rest.      *)

\* The invariants of both; that of the admission stands above.
ReadsInv == TreeInv /\ CacheInv

\* They hold at the start.
LEMMA ReadsStart == MCInit => ReadsInv
BY TreeInitially, CacheInitially DEF MCInit, ReadsInv

\* A step of one part leaves the other ones alone.
LEMMA ReadsStep ==
  ASSUME ReadsInv, [MCNext]_allVars
  PROVE  ReadsInv' /\ [NewPages]_(Tree!vars)
<1>1. TreeInv /\ CacheInv
  BY DEF ReadsInv
<1>2. CASE part = "tree" /\ Tree!Next /\ UNCHANGED <<part, vars, cacheVars>>
  <2>1. UNCHANGED Cache!vars
    BY <1>2 DEF cacheVars, Cache!vars
  <2>2. TreeInv' /\ (NewPages \/ UNCHANGED Tree!vars)
    BY <1>1, <1>2, TreeKeeps
  <2>3. CacheInv'
    BY <1>1, <2>1, CacheKeeps
  <2> QED BY <2>2, <2>3 DEF ReadsInv
<1>3. CASE part = "cache" /\ Cache!Next /\ UNCHANGED <<part, vars, treeVars>>
  <2>1. UNCHANGED Tree!vars
    BY <1>3 DEF treeVars, Tree!vars
  <2>2. TreeInv'
    BY <1>1, <2>1, TreeKeeps
  <2>3. CacheInv'
    BY <1>1, <1>3, CacheKeeps
  <2> QED BY <2>1, <2>2, <2>3 DEF ReadsInv
<1>4. CASE UNCHANGED <<part, treeVars, cacheVars>>
  <2>1. UNCHANGED Tree!vars /\ UNCHANGED Cache!vars
    BY <1>4 DEF treeVars, cacheVars, Tree!vars, Cache!vars
  <2>2. TreeInv' /\ CacheInv'
    BY <1>1, <2>1, TreeKeeps, CacheKeeps
  <2> QED BY <2>1, <2>2 DEF ReadsInv
<1>5. (\/ part = "admission" /\ Next /\ UNCHANGED <<part, treeVars, cacheVars>>
       \/ part = "tree" /\ Tree!Next /\ UNCHANGED <<part, vars, cacheVars>>
       \/ part = "cache" /\ Cache!Next /\ UNCHANGED <<part, vars, treeVars>>)
      \/ UNCHANGED <<part, vars, treeVars, cacheVars>>
  BY DEF MCNext, allVars
<1>6. UNCHANGED <<part, vars, treeVars, cacheVars>> => UNCHANGED <<part, treeVars, cacheVars>>
  OBVIOUS
<1> QED BY <1>2, <1>3, <1>4, <1>5, <1>6

\* The directories and the listings of a server, for any callers, paths, channels,
\* sizes and limits: a channel serves the one read that works on it, a shared read is
\* aborted when its last caller has gone or its snapshot was cleared and never before,
\* and the window gets a page only of a complete listing that nothing has cleared since;
\* the limits of the cache hold, its counter is exact, nothing of before a clear comes
\* back, nobody waits for a call that has ended, and a refreshed search gets a listing
\* that was read after the refresh was asked for.
THEOREM ReadsStayOwned == MCLiveSpec => ReadsOwned
<1>1. ReadsInv => Tree!ReadsOwned /\ Cache!CacheExact /\ Cache!RefreshIsNew
  BY TreeShowsOwned, CacheShowsExact DEF ReadsInv
<1>2. ReadsInv /\ [MCNext]_allVars => ReadsInv'
  BY ReadsStep
<1>3. ReadsInv /\ [MCNext]_allVars => [NewPages]_(Tree!vars)
  BY ReadsStep
<1>4. ReadsInv => /\ part = "tree" => Tree!ReadsOwned
                  /\ part = "cache" => Cache!CacheExact /\ Cache!RefreshIsNew
  BY <1>1
<1>5. MCLiveSpec => []ReadsInv
  BY ReadsStart, <1>2, PTL DEF MCLiveSpec
<1>6. MCLiveSpec => [](/\ part = "tree" => Tree!ReadsOwned
                       /\ part = "cache" => Cache!CacheExact /\ Cache!RefreshIsNew)
  BY <1>4, <1>5, PTL
<1>7. MCLiveSpec => Tree!CurrentPages
  BY <1>3, <1>5, PTL DEF MCLiveSpec, Tree!CurrentPages, NewPages
<1> QED BY <1>6, <1>7 DEF ReadsOwned
=============================================================================
