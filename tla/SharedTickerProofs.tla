--------------------------- MODULE SharedTickerProofs ---------------------------
(***************************************************************************)
(* Proofs about SharedTicker, for any sleeves, ticks, cycles and requests  *)
(* and any number of orders.                                               *)
(***************************************************************************)
EXTENDS SharedTicker, TLAPS, FiniteSetTheorems, WellFoundedInduction

-----------------------------------------------------------------------------
(* Operators.                                                              *)

LEMMA ChosenFirst ==
  ASSUME NEW os, \E o \in os : \A u \in os : o <= u
  PROVE  First(os) \in os
  BY DEF First

\* The first of the held orders is one of them.
LEMMA FirstIsOne ==
  ASSUME NEW os \in SUBSET Orders, os # {}
  PROVE  First(os) \in os
  <1> DEFINE Before == {ss \in Nat \X Nat : ss[1] < ss[2]}
  <1>1. IsWellFoundedOn(Before, Nat)
    BY NatLessThanWellFounded DEF OpToRel
  <1>2. os \subseteq Nat
    BY DEF Orders
  <1>3. \E o \in os : \A u \in os : ~ (<<u, o>> \in Before)
    <2> HIDE DEF Before
    <2> QED
      BY <1>1, <1>2, WFMin
  <1>4. PICK o \in os : \A u \in os : ~ (<<u, o>> \in Before)
    BY <1>3
  <1>5. ASSUME NEW u \in os PROVE o <= u
    <2>1. u \in Nat /\ o \in Nat /\ ~ (<<u, o>> \in Before)
      BY <1>2, <1>4
    <2> QED
      BY <2>1
  <1> QED
    BY <1>5, ChosenFirst

\* The sum over no orders.
LEMMA TotalOfNone == Total({}) = 0
  BY DEF Total, MapThenSumSet, MapThenFoldSet

\* A fitted order does not take the account through zero.
LEMMA FittedFits ==
  ASSUME NEW held \in Int, NEW amount \in Int
  PROVE  /\ Fitted(held, amount) \in Int
         /\ SameSide(held, -Fitted(held, amount)) => Size(Fitted(held, amount)) <= Size(held)
  BY DEF Fitted, SameSide, Size

-----------------------------------------------------------------------------
(* Sums.                                                                   *)

\* The sum of the amounts that v gives the elements of S, as the library's folds take
\* it: from one choice to the next.
SumOf(v, S) == MapThenSumSet(LAMBDA x : v[x].amount, S)
Choice(S) == CHOOSE x \in S : TRUE
Body(g, v, S) == [s \in SUBSET S |-> IF s = {} THEN 0 ELSE v[Choice(s)].amount + g[s \ {Choice(s)}]]

\* The library's definition of it.
LEMMA SumIs ==
  ASSUME NEW v, NEW S
  PROVE  SumOf(v, S) = (CHOOSE g : g = Body(g, v, S))[S]
  BY DEF SumOf, MapThenSumSet, MapThenFoldSet, Body, Choice

\* A function that returns the sum of every subset of S.
Sums(g, v, S) == g \in [SUBSET S -> Int] /\ g = Body(g, v, S)

\* The choice from a set is in the set.
LEMMA ChoiceIn ==
  ASSUME NEW S, S # {}
  PROVE  Choice(S) \in S
  BY DEF Choice

\* Among subsets of a finite set there is a smallest: what induction on sets is here.
LEMMA Smallest ==
  ASSUME NEW S, IsFiniteSet(S), NEW T, T \subseteq SUBSET S, T # {}
  PROVE  \E x \in T : \A y \in T : y \subseteq x => y = x
  <1>1. IsWellFoundedOn(StrictSubsetOrdering(S), SUBSET S)
    BY FS_StrictSubsetOrderingWellFounded, FS_FiniteSubsetsOfFinite
  <1>2. PICK x \in T : \A y \in T : ~ (<<y, x>> \in StrictSubsetOrdering(S))
    BY <1>1, WFMin
  <1> QED
    BY <1>2 DEF StrictSubsetOrdering

\* What a function of sums returns.
LEMMA SumsAt ==
  ASSUME NEW S, NEW v, NEW g, Sums(g, v, S), NEW s \in SUBSET S
  PROVE  /\ g[s] \in Int
         /\ s = {} => g[s] = 0
         /\ s # {} => g[s] = v[Choice(s)].amount + g[s \ {Choice(s)}]
  BY DEF Sums, Body

\* Two functions of sums agree where both are defined.
LEMMA SumsUnique ==
  ASSUME NEW S, IsFiniteSet(S), NEW v, NEW U \in SUBSET S, NEW W \in SUBSET S,
         NEW g, NEW h, Sums(g, v, U), Sums(h, v, W)
  PROVE  \A s \in SUBSET (U \cap W) : g[s] = h[s]
  <1> DEFINE bad == {s \in SUBSET (U \cap W) : g[s] # h[s]}
  <1> SUFFICES ASSUME bad # {} PROVE FALSE
    OBVIOUS
  <1>1. PICK s \in bad : \A t \in bad : t \subseteq s => t = s
    <2>1. bad \subseteq SUBSET S
      OBVIOUS
    <2> HIDE DEF bad
    <2> QED
      BY <2>1, Smallest
  <1>2. s # {}
    BY <1>1, SumsAt
  <1>3. Choice(s) \in s
    BY <1>2, ChoiceIn
  <1>4. s \ {Choice(s)} \notin bad
    BY <1>1, <1>3
  <1>5. g[s \ {Choice(s)}] = h[s \ {Choice(s)}]
    BY <1>4
  <1> QED
    BY <1>1, <1>2, <1>5, SumsAt

\* There is one for every finite set.
LEMMA SumsExists ==
  ASSUME NEW S, IsFiniteSet(S), NEW v, \A x \in S : v[x].amount \in Int
  PROVE  \E g : Sums(g, v, S)
  <1> DEFINE bad == {U \in SUBSET S : ~ \E g : Sums(g, v, U)}
  <1> SUFFICES ASSUME bad # {} PROVE FALSE
    OBVIOUS
  <1>1. PICK T \in bad : \A U \in bad : U \subseteq T => U = T
    <2>1. bad \subseteq SUBSET S
      OBVIOUS
    <2> HIDE DEF bad
    <2> QED
      BY <2>1, Smallest
  <1> DEFINE of(U) == CHOOSE g : Sums(g, v, U)
             g == [s \in SUBSET T |-> IF s = {} THEN 0
                                      ELSE v[Choice(s)].amount + of(s \ {Choice(s)})[s \ {Choice(s)}]]
  <1>2. \A U \in SUBSET T : U # T => Sums(of(U), v, U)
    <2> SUFFICES ASSUME NEW U \in SUBSET T, U # T PROVE Sums(of(U), v, U)
      OBVIOUS
    <2>1. \E h : Sums(h, v, U)
      BY <1>1
    <2> QED
      BY <2>1
  <1> HIDE DEF of
  <1>3. T \subseteq S
    OBVIOUS
  <1>4. \A s \in SUBSET T : s # {} => /\ Choice(s) \in s /\ v[Choice(s)].amount \in Int
                                      /\ s \ {Choice(s)} \in SUBSET T
                                      /\ s \ {Choice(s)} # T
    BY <1>3, ChoiceIn
  <1>5. g \in [SUBSET T -> Int]
    <2> SUFFICES ASSUME NEW s \in SUBSET T, s # {}
                 PROVE  of(s \ {Choice(s)})[s \ {Choice(s)}] \in Int
      BY <1>4
    <2> QED
      BY <1>2, <1>4, SumsAt
  <1>6. \A s \in SUBSET T : s # T => g[s] = of(s)[s]
    <2> SUFFICES ASSUME NEW s \in SUBSET T, s # T, s # {} PROVE g[s] = of(s)[s]
      <3> SUFFICES ASSUME {} # T PROVE of({})[{}] = 0
        OBVIOUS
      <3>1. Sums(of({}), v, {})
        BY <1>2
      <3> QED
        BY <3>1 DEF Sums, Body
    <2> DEFINE r == s \ {Choice(s)}
    <2>1. Sums(of(s), v, s) /\ Sums(of(r), v, r)
      BY <1>2, <1>4
    <2>2. of(s)[s] = v[Choice(s)].amount + of(s)[r]
      BY <2>1, SumsAt
    <2>3. of(s)[r] = of(r)[r]
      <3>1. s \in SUBSET S /\ r \in SUBSET S /\ r \in SUBSET (s \cap r)
        BY <1>3
      <3> HIDE DEF r
      <3>2. \A x \in SUBSET (s \cap r) : of(s)[x] = of(r)[x]
        BY <2>1, <3>1, SumsUnique
      <3> QED
        BY <3>1, <3>2
    <2>4. g[s] = v[Choice(s)].amount + of(r)[r]
      OBVIOUS
    <2> QED
      BY <2>2, <2>3, <2>4
  <1>7. g = Body(g, v, T)
    <2>1. \A s \in SUBSET T : s # {} => of(s \ {Choice(s)})[s \ {Choice(s)}] = g[s \ {Choice(s)}]
      BY <1>4, <1>6
    <2> QED
      BY <2>1 DEF Body
  <1>8. Sums(g, v, T)
    BY <1>5, <1>7 DEF Sums
  <1> QED
    BY <1>1, <1>8

\* The library's sum is what it returns.
LEMMA SumSums ==
  ASSUME NEW S, IsFiniteSet(S), NEW v, \A x \in S : v[x].amount \in Int
  PROVE  \E g : Sums(g, v, S) /\ SumOf(v, S) = g[S]
  <1>1. PICK h : Sums(h, v, S)
    BY SumsExists
  <1> DEFINE g == CHOOSE f : f = Body(f, v, S)
  <1>2. g = Body(g, v, S)
    BY <1>1 DEF Sums
  <1>4. \A s \in SUBSET S : /\ s = {} => h[s] = 0
                            /\ s # {} => h[s] = v[Choice(s)].amount + h[s \ {Choice(s)}]
    BY <1>1 DEF Sums, Body
  <1>3. g = h
    <2> DEFINE bad == {s \in SUBSET S : g[s] # h[s]}
    <2>1. bad = {}
      <3> SUFFICES ASSUME bad # {} PROVE FALSE
        OBVIOUS
      <3>1. PICK s \in bad : \A t \in bad : t \subseteq s => t = s
        <4>1. bad \subseteq SUBSET S
          OBVIOUS
        <4> HIDE DEF bad
        <4> QED
          BY <4>1, Smallest
      <3> HIDE DEF g
      <3>2. g[s] = IF s = {} THEN 0 ELSE v[Choice(s)].amount + g[s \ {Choice(s)}]
        BY <1>2 DEF Body
      <3>3. s # {} => g[s \ {Choice(s)}] = h[s \ {Choice(s)}]
        BY <3>1, ChoiceIn
      <3>4. s \in SUBSET S /\ g[s] # h[s]
        BY <3>1
      <3> HIDE DEF bad
      <3> QED
        BY <1>4, <3>2, <3>3, <3>4
    <2> HIDE DEF g
    <2> QED
      BY <1>1, <1>2, <2>1 DEF Sums, Body
  <1> QED
    BY <1>1, <1>3, SumIs

\* The same, with the equations spelled out.
LEMMA SumSteps ==
  ASSUME NEW S, IsFiniteSet(S), NEW v, \A x \in S : v[x].amount \in Int
  PROVE  \E g \in [SUBSET S -> Int] :
           /\ g[{}] = 0 /\ \A s \in SUBSET S : s # {} => g[s] = v[Choice(s)].amount + g[s \ {Choice(s)}]
           /\ SumOf(v, S) = g[S]
  <1>1. PICK g : Sums(g, v, S) /\ SumOf(v, S) = g[S]
    BY SumSums
  <1>2. g \in [SUBSET S -> Int]
        /\ g[{}] = 0 /\ \A s \in SUBSET S : s # {} => g[s] = v[Choice(s)].amount + g[s \ {Choice(s)}]
    <2>1. g[{}] = 0
      BY <1>1 DEF Sums, Body
    <2> QED
      BY <1>1, <2>1 DEF Sums, Body
  <1> QED
    BY <1>1, <1>2


\* No element, no sum.
LEMMA SumNone ==
  ASSUME NEW v
  PROVE  SumOf(v, {}) = 0
  <1>1. IsFiniteSet({}) /\ \A x \in {} : v[x].amount \in Int
    BY FS_EmptySet
  <1> QED
    BY <1>1, SumSteps

\* The sum is that of the choice and of the rest.
LEMMA SumStep ==
  ASSUME NEW S, IsFiniteSet(S), S # {}, NEW v, \A x \in S : v[x].amount \in Int
  PROVE  /\ Choice(S) \in S
         /\ SumOf(v, S) \in Int
         /\ SumOf(v, S) = v[Choice(S)].amount + SumOf(v, S \ {Choice(S)})
  <1> DEFINE R == S \ {Choice(S)}
  <1>1. Choice(S) \in S
    BY ChoiceIn
  <1>2. R \in SUBSET S /\ S \in SUBSET S
    OBVIOUS
  <1>3. IsFiniteSet(R) /\ \A x \in R : v[x].amount \in Int
    BY FS_Subset
  <1> HIDE DEF R
  <1>4. PICK g : Sums(g, v, S) /\ SumOf(v, S) = g[S]
    BY SumSums
  <1>5. PICK h : Sums(h, v, R) /\ SumOf(v, R) = h[R]
    BY <1>3, SumSums
  <1>6. g[R] = h[R]
    <2>1. R \in SUBSET (S \cap R)
      BY <1>2
    <2> QED
      BY <1>2, <1>4, <1>5, <2>1, SumsUnique
  <1>7. g[S] \in Int /\ g[S] = v[Choice(S)].amount + g[R]
    BY <1>2, <1>4, SumsAt DEF R
  <1> QED
    BY <1>1, <1>4, <1>5, <1>6, <1>7 DEF R

\* The sum is an integer.
LEMMA SumType ==
  ASSUME NEW S, IsFiniteSet(S), NEW v, \A x \in S : v[x].amount \in Int
  PROVE  SumOf(v, S) \in Int
  <1>1. CASE S = {}
    BY <1>1, SumNone
  <1>2. CASE S # {}
    BY <1>2, SumStep
  <1> QED
    BY <1>1, <1>2

\* One more element adds its amount, whatever the order in which they are taken.
LEMMA SumAdd ==
  ASSUME NEW S, IsFiniteSet(S), NEW v, \A x \in S : v[x].amount \in Int,
         NEW T \in SUBSET S, NEW a \in S \ T
  PROVE  SumOf(v, T \cup {a}) = SumOf(v, T) + v[a].amount
  <1> DEFINE bad == {U \in SUBSET S : \E b \in S \ U :
                       SumOf(v, U \cup {b}) # SumOf(v, U) + v[b].amount}
  <1> SUFFICES ASSUME bad # {} PROVE FALSE
    OBVIOUS
  <1>1. PICK U \in bad : \A W \in bad : W \subseteq U => W = U
    <2>1. bad \subseteq SUBSET S
      OBVIOUS
    <2> HIDE DEF bad
    <2> QED
      BY <2>1, Smallest
  <1>2. PICK b \in S \ U : SumOf(v, U \cup {b}) # SumOf(v, U) + v[b].amount
    BY <1>1
  <1>3. U \in SUBSET S
    BY <1>1
  <1>4. \A W \in SUBSET U : W # U =>
          \A d \in S \ W : SumOf(v, W \cup {d}) = SumOf(v, W) + v[d].amount
    BY <1>1, <1>3
  <1> HIDE DEF bad
  <1> DEFINE B == U \cup {b}
             c == Choice(B)
  <1>5. /\ IsFiniteSet(B) /\ B # {} /\ IsFiniteSet(U)
        /\ \A x \in B : v[x].amount \in Int
    BY <1>3, FS_Subset
  <1>6. c \in B /\ SumOf(v, B) = v[c].amount + SumOf(v, B \ {c})
    BY <1>5, SumStep
  <1> HIDE DEF c
  <1>7. \A W \in SUBSET U : SumOf(v, W) \in Int
    <2> SUFFICES ASSUME NEW W \in SUBSET U PROVE SumOf(v, W) \in Int
      OBVIOUS
    <2>1. IsFiniteSet(W) /\ \A x \in W : v[x].amount \in Int
      BY <1>3, <1>5, FS_Subset
    <2> QED
      BY <2>1, SumType
  <1>8. v[b].amount \in Int /\ v[c].amount \in Int
    BY <1>3, <1>6
  <1>9. CASE c = b
    <2>1. B \ {c} = U
      BY <1>9
    <2> QED
      BY <1>2, <1>6, <1>7, <1>8, <1>9, <2>1
  <1>10. CASE c # b
    <2> DEFINE W == U \ {c}
    <2>1. /\ c \in U /\ W \in SUBSET U /\ W # U /\ c \in S \ W /\ b \in S \ W
          /\ W \cup {c} = U /\ B \ {c} = W \cup {b}
      BY <1>3, <1>6, <1>10
    <2> HIDE DEF W
    <2>2. SumOf(v, W \cup {b}) = SumOf(v, W) + v[b].amount
      BY <1>4, <2>1
    <2>3. SumOf(v, W \cup {c}) = SumOf(v, W) + v[c].amount
      BY <1>4, <2>1
    <2>4. SumOf(v, W) \in Int
      BY <1>7, <2>1
    <2>5. SumOf(v, U) = SumOf(v, W) + v[c].amount
      BY <2>1, <2>3
    <2>6. SumOf(v, B) = v[c].amount + (SumOf(v, W) + v[b].amount)
      BY <1>6, <2>1, <2>2
    <2>7. SumOf(v, B) # SumOf(v, U) + v[b].amount
      BY <1>2
    <2> HIDE DEF B
    <2> QED
      BY <1>8, <2>4, <2>5, <2>6, <2>7
  <1> QED
    BY <1>9, <1>10

\* Disjoint sets add up.
LEMMA SumUnion ==
  ASSUME NEW S, IsFiniteSet(S), NEW v, \A x \in S : v[x].amount \in Int,
         NEW T \in SUBSET S, NEW W \in SUBSET S, T \cap W = {}
  PROVE  SumOf(v, T \cup W) = SumOf(v, T) + SumOf(v, W)
  <1> DEFINE bad == {U \in SUBSET S : U \cap T = {}
                                      /\ SumOf(v, T \cup U) # SumOf(v, T) + SumOf(v, U)}
  <1> SUFFICES ASSUME bad # {} PROVE FALSE
    OBVIOUS
  <1>1. PICK U \in bad : \A V \in bad : V \subseteq U => V = U
    <2>1. bad \subseteq SUBSET S
      OBVIOUS
    <2> HIDE DEF bad
    <2> QED
      BY <2>1, Smallest
  <1>2. U \in SUBSET S /\ U \cap T = {} /\ SumOf(v, T \cup U) # SumOf(v, T) + SumOf(v, U)
    BY <1>1
  <1>3. \A V \in SUBSET U : V # U => SumOf(v, T \cup V) = SumOf(v, T) + SumOf(v, V)
    BY <1>1, <1>2
  <1> HIDE DEF bad
  <1>4. SumOf(v, T) \in Int
    <2>1. IsFiniteSet(T) /\ \A x \in T : v[x].amount \in Int
      BY FS_Subset
    <2> QED
      BY <2>1, SumType
  <1>5. U # {}
    <2> SUFFICES ASSUME U = {} PROVE FALSE
      OBVIOUS
    <2>1. T \cup U = T /\ SumOf(v, U) = 0
      BY SumNone
    <2> QED
      BY <1>2, <1>4, <2>1
  <1>6. PICK a \in U : TRUE
    BY <1>5
  <1> DEFINE V == U \ {a}
  <1>7. /\ V \in SUBSET U /\ V # U /\ a \in S \ V /\ V \in SUBSET S /\ V \cup {a} = U
        /\ T \cup V \in SUBSET S /\ a \in S \ (T \cup V) /\ (T \cup V) \cup {a} = T \cup U
    BY <1>2, <1>6
  <1>8. SumOf(v, T \cup V) = SumOf(v, T) + SumOf(v, V)
    BY <1>3, <1>7
  <1>9. SumOf(v, V) \in Int
    <2>1. IsFiniteSet(V) /\ \A x \in V : v[x].amount \in Int
      BY <1>7, FS_Subset
    <2> QED
      BY <2>1, SumType
  <1> HIDE DEF V
  <1>10. SumOf(v, V \cup {a}) = SumOf(v, V) + v[a].amount
    BY <1>7, SumAdd
  <1>11. SumOf(v, T \cup U) = SumOf(v, T \cup V) + v[a].amount
    <2> DEFINE Z == T \cup V
    <2>1. Z \in SUBSET S /\ a \in S \ Z /\ Z \cup {a} = T \cup U
      BY <1>7
    <2> HIDE DEF Z
    <2>2. SumOf(v, Z \cup {a}) = SumOf(v, Z) + v[a].amount
      BY <2>1, SumAdd
    <2> QED
      BY <2>1, <2>2 DEF Z
  <1>12. v[a].amount \in Int
    BY <1>7
  <1>13. SumOf(v, U) = SumOf(v, V) + v[a].amount
    BY <1>7, <1>10
  <1> QED
    BY <1>2, <1>4, <1>8, <1>9, <1>11, <1>12, <1>13

\* Elements of one sign add up to that sign.
LEMMA SumSign ==
  ASSUME NEW S, IsFiniteSet(S), NEW v, \A x \in S : v[x].amount \in Int
  PROVE  /\ (\A x \in S : v[x].amount <= 0) => SumOf(v, S) <= 0
         /\ (\A x \in S : v[x].amount >= 0) => SumOf(v, S) >= 0
  <1> DEFINE bad == {U \in SUBSET S :
               \/ (\A x \in S : v[x].amount <= 0) /\ ~ (SumOf(v, U) <= 0)
               \/ (\A x \in S : v[x].amount >= 0) /\ ~ (SumOf(v, U) >= 0)}
  <1> SUFFICES ASSUME bad # {} PROVE FALSE
    OBVIOUS
  <1>1. PICK U \in bad : \A V \in bad : V \subseteq U => V = U
    <2>1. bad \subseteq SUBSET S
      OBVIOUS
    <2> HIDE DEF bad
    <2> QED
      BY <2>1, Smallest
  <1>2. /\ U \in SUBSET S
        /\ \/ (\A x \in S : v[x].amount <= 0) /\ ~ (SumOf(v, U) <= 0)
           \/ (\A x \in S : v[x].amount >= 0) /\ ~ (SumOf(v, U) >= 0)
    BY <1>1
  <1>3. \A V \in SUBSET U : V # U =>
          /\ (\A x \in S : v[x].amount <= 0) => SumOf(v, V) <= 0
          /\ (\A x \in S : v[x].amount >= 0) => SumOf(v, V) >= 0
    BY <1>1, <1>2
  <1> HIDE DEF bad
  <1>4. U # {}
    <2> SUFFICES ASSUME U = {} PROVE FALSE
      OBVIOUS
    <2>1. SumOf(v, U) = 0
      BY SumNone
    <2> QED
      BY <1>2, <2>1
  <1> DEFINE c == Choice(U)
             V == U \ {c}
  <1>5. IsFiniteSet(U) /\ \A x \in U : v[x].amount \in Int
    BY <1>2, FS_Subset
  <1>6. c \in U /\ SumOf(v, U) = v[c].amount + SumOf(v, V)
    BY <1>4, <1>5, SumStep
  <1>7. V \in SUBSET U /\ V # U
    BY <1>6
  <1>8. IsFiniteSet(V) /\ \A x \in V : v[x].amount \in Int
    BY <1>5, <1>7, FS_Subset
  <1>9. SumOf(v, V) \in Int
    BY <1>8, SumType
  <1>10. c \in S /\ v[c].amount \in Int
    BY <1>2, <1>5, <1>6
  <1> HIDE DEF c, V
  <1>11. CASE (\A x \in S : v[x].amount <= 0) /\ ~ (SumOf(v, U) <= 0)
    <2>1. SumOf(v, V) <= 0 /\ v[c].amount <= 0
      BY <1>3, <1>7, <1>10, <1>11
    <2> QED
      BY <1>6, <1>9, <1>10, <1>11, <2>1
  <1>12. CASE (\A x \in S : v[x].amount >= 0) /\ ~ (SumOf(v, U) >= 0)
    <2>1. SumOf(v, V) >= 0 /\ v[c].amount >= 0
      BY <1>3, <1>7, <1>10, <1>12
    <2> QED
      BY <1>6, <1>9, <1>10, <1>12, <2>1
  <1> QED
    BY <1>2, <1>11, <1>12

\* The sum depends on the amounts of its elements only.
LEMMA SumSame ==
  ASSUME NEW S, IsFiniteSet(S), NEW v, NEW w, \A x \in S : v[x].amount \in Int,
         \A x \in S : w[x].amount = v[x].amount
  PROVE  SumOf(w, S) = SumOf(v, S)
  <1> DEFINE bad == {U \in SUBSET S : SumOf(w, U) # SumOf(v, U)}
  <1> SUFFICES ASSUME bad # {} PROVE FALSE
    OBVIOUS
  <1>1. PICK U \in bad : \A V \in bad : V \subseteq U => V = U
    <2>1. bad \subseteq SUBSET S
      OBVIOUS
    <2> HIDE DEF bad
    <2> QED
      BY <2>1, Smallest
  <1>2. U \in SUBSET S /\ SumOf(w, U) # SumOf(v, U)
    BY <1>1
  <1>3. \A V \in SUBSET U : V # U => SumOf(w, V) = SumOf(v, V)
    BY <1>1, <1>2
  <1> HIDE DEF bad
  <1>4. U # {}
    <2> SUFFICES ASSUME U = {} PROVE FALSE
      OBVIOUS
    <2>1. SumOf(v, {}) = 0 /\ SumOf(w, {}) = 0
      BY SumNone
    <2> QED
      BY <1>2, <2>1
  <1> DEFINE c == Choice(U)
             V == U \ {c}
  <1>5. /\ IsFiniteSet(U) /\ \A x \in U : v[x].amount \in Int
        /\ \A x \in U : w[x].amount \in Int
    BY <1>2, FS_Subset
  <1>6. c \in U /\ SumOf(v, U) = v[c].amount + SumOf(v, V)
    BY <1>4, <1>5, SumStep
  <1>7. SumOf(w, U) = w[c].amount + SumOf(w, V)
    BY <1>4, <1>5, SumStep
  <1>8. V \in SUBSET U /\ V # U
    BY <1>6
  <1> HIDE DEF c, V
  <1>9. SumOf(w, V) = SumOf(v, V)
    BY <1>3, <1>8
  <1>10. w[c].amount = v[c].amount
    BY <1>2, <1>6
  <1> QED
    BY <1>2, <1>6, <1>7, <1>9, <1>10

-----------------------------------------------------------------------------
(* The inductive invariant.                                                *)

\* What a process is about to do, it has in hand, and nothing else.
ShapeOf(p) ==
  /\ p \in Ticks => job[p].at \in {"idle", "listed", "looked", "fit", "place"}
  /\ p \notin Ticks /\ job[p].at # "listed" => job[p].todo = {}
  /\ IF job[p].at \in {"fit", "place", "commit"} THEN job[p].order \in Orders
     ELSE job[p].order = None
  /\ p \in Ticks /\ job[p].at \in {"listed", "looked"} => job[p].todo # {}
  /\ job[p].at = "idle" => job[p].todo = {}

\* Orders are made one after the other, and those in hand have been made.
InOrder == \E n \in 0..Last : Made = 1..n
MadeOf(p) == \A o \in Hand(job[p]) : row[o].status # "none"

\* An order in the hand of one process only is not at the venue, and one that is
\* held or not made yet is not either.
InHandOf(p) ==
  job[p].at # "commit" => \A o \in Hand(job[p]) : venue[o] = "none" \/ o \in contested
HeldIsHere ==
  \A o \in Orders : row[o].status \in {"none", "held"} => venue[o] = "none"
OneHand ==
  \A p, q \in Procs : \A o \in Orders :
    p # q /\ o \in Hand(job[p]) /\ o \in Hand(job[q]) => o \in contested

\* Nobody else gets hold of an order that a transaction has not committed.
PrivateOf(p) ==
  job[p].got # "none" =>
    /\ p \in Requests /\ job[p].at \in {"fit", "place", "commit"}
    /\ row[job[p].order].status = "draft"
    /\ job[p].at # "commit" => venue[job[p].order] = "none"
    /\ \A q \in Procs : q # p => job[p].order \notin Hand(job[q])
CommitOf(p) ==
  job[p].at = "commit" =>
    /\ job[p].got \in {"submitted", "unknown", "rejected", "confirmed"}
    /\ job[p].got \in {"submitted", "unknown"} \/ venue[job[p].order] = "none"

Own(p) == ShapeOf(p) /\ MadeOf(p) /\ InHandOf(p) /\ PrivateOf(p) /\ CommitOf(p)

HandInv == TypeOK /\ InOrder /\ HeldIsHere /\ OneHand /\ (\A p \in Procs : Own(p))

\* Why an order at the venue is not one the poll looks at.
Explained(o) ==
  \/ row[o].status = "unknown"
  \/ o \in contested
  \/ \E r \in Requests : job[r].at = "commit" /\ job[r].order = o

\* A tick that nobody has passed has seen the venue as it is, and fitted its order.
SeesOf(t) ==
  t \notin passed =>
    /\ job[t].at \in {"looked", "fit", "place"} =>
         \A o \in Orders : venue[o] \in {"none", "booked"}
    /\ job[t].at = "place" /\ SameSide(account, -row[job[t].order].amount)
         => Size(row[job[t].order].amount) <= Size(account)

\* So has a reset.
CountsOf(r) ==
  r \notin passed =>
    /\ job[r].at \in {"empty", "counted"} => account = 0
    /\ job[r].at = "counted" => \A o \in Orders : venue[o] \in {"none", "booked"}

IInv ==
  HandInv /\ HiddenExplained /\ (\A t \in Ticks : SeesOf(t)) /\ (\A r \in Requests : CountsOf(r))

-----------------------------------------------------------------------------
(* The hands.                                                              *)

LEMMA ConstantsTyped ==
  /\ None \notin Orders
  /\ Orders \subseteq Nat
  /\ Last \in Nat
  BY Kinds, Numbers DEF Orders

\* A new order is the next one.
LEMMA FreshIsNew ==
  ASSUME InOrder, Fresh \in Orders
  PROVE  /\ row[Fresh].status = "none"
         /\ Made \cup {Fresh} = 1..Fresh
  <1>1. PICK n \in 0..Last : Made = 1..n
    BY DEF InOrder
  <1>2. Cardinality(1..n) = n
    BY <1>1, FS_Interval, ConstantsTyped
  <1>3. Fresh = n + 1
    BY <1>1, <1>2 DEF Fresh
  <1>4. Fresh \notin Made
    BY <1>1, <1>3
  <1> QED
    BY <1>1, <1>3, <1>4, ConstantsTyped DEF Made

\* What a step of p does, as far as the orders in hand go: another's hand stays as it
\* is, p takes held or new orders only, ...
Grasps(p) ==
  /\ \A q \in Procs : q # p => job'[q] = job[q]
  /\ \A o \in Hand(job'[p]) :
       o \in Orders /\ (o \in Hand(job[p]) \/ row[o].status \in {"none", "held"})
\* ... writes orders in its hand or a new one, and sends those in its hand.
Writes(p) ==
  /\ \A o \in Orders : row'[o] # row[o] => o \in Hand(job[p]) \/ row[o].status = "none"
  /\ \A o \in Orders : venue'[o] # venue[o] => o \in Hand(job[p]) /\ venue'[o] = "working"
  /\ \A o \in Orders : row'[o].status \in {"none", "held"} =>
       row[o].status \in {"none", "held"} /\ venue'[o] = venue[o]
  /\ \A o \in Orders : row'[o].status = "none" => row[o].status = "none"

\* Then the others keep their parts of the invariant.
LEMMA OthersKeepOwn ==
  ASSUME HandInv, NEW p \in Procs, Grasps(p), Writes(p), Watch,
         NEW q \in Procs, q # p
  PROVE  Own(q)'
  <1>1. job'[q] = job[q] /\ Own(q) /\ job[q] \in Jobs
    BY DEF Grasps, HandInv, TypeOK
  <1>2. Hand(job[q]) \subseteq Orders
    BY <1>1, ConstantsTyped DEF Hand, Jobs
  <1>3. ShapeOf(q)'
    BY <1>1 DEF Own, ShapeOf
  <1>4. MadeOf(q)'
    BY <1>1, <1>2 DEF Own, MadeOf, Writes
  <1>5. InHandOf(q)'
    BY <1>1, <1>2 DEF Own, InHandOf, Writes, Watch, HandInv, OneHand
  <1>6. ASSUME job[q].got # "none"
        PROVE  /\ job[q].order \in Hand(job[q]) /\ job[q].order \in Orders
               /\ job[q].order \notin Hand(job[p])
               /\ row'[job[q].order] = row[job[q].order]
               /\ venue'[job[q].order] = venue[job[q].order]
               /\ job[q].order \notin Hand(job'[p])
    BY <1>1, <1>6, ConstantsTyped DEF Own, PrivateOf, ShapeOf, Hand, Grasps, Writes
  <1>7. PrivateOf(q)'
    BY <1>1, <1>6 DEF Own, PrivateOf, Grasps
  <1>8. CommitOf(q)'
    BY <1>1, <1>6 DEF Own, CommitOf
  <1> QED
    BY <1>3, <1>4, <1>5, <1>7, <1>8 DEF Own

LEMMA HandsKept ==
  ASSUME HandInv, NEW p \in Procs, Grasps(p), Writes(p), Watch,
         TypeOK', InOrder', Own(p)'
  PROVE  HandInv'
  <1>1. HeldIsHere'
    BY DEF Writes, HandInv, HeldIsHere
  <1>2. OneHand'
    BY DEF Watch, OneHand
  <1>3. \A q \in Procs : Own(q)'
    BY OthersKeepOwn
  <1> QED
    BY <1>1, <1>2, <1>3 DEF HandInv

\* An order at the venue keeps its explanation.
LEMMA HiddenKept ==
  ASSUME HandInv, HiddenExplained, NEW p \in Procs, Grasps(p), Writes(p), Watch,
         \A o \in Orders :
           o \in Hand(job[p]) \/ row[o].status = "none" => (Hidden(o) => Explained(o))'
  PROVE  HiddenExplained'
  <1> SUFFICES ASSUME NEW o \in Orders, Hidden(o)',
                      o \notin Hand(job[p]), row[o].status # "none"
               PROVE  Explained(o)'
    BY DEF HiddenExplained, Explained
  <1>1. row'[o] = row[o] /\ venue'[o] = venue[o]
    BY DEF Writes
  <1>2. Explained(o)
    BY <1>1 DEF Hidden, HiddenExplained, Explained
  <1>3. CASE row[o].status = "unknown" \/ o \in contested
    BY <1>1, <1>3 DEF Explained, Watch
  <1>4. ASSUME NEW r \in Requests, job[r].at = "commit", job[r].order = o
        PROVE  Explained(o)'
    <2>1. r \in Procs /\ o \in Hand(job[r])
      BY <1>4, ConstantsTyped DEF Procs, Hand
    <2>2. job'[r] = job[r]
      BY <2>1 DEF Grasps
    <2> QED
      BY <1>4, <2>2 DEF Explained
  <1> QED
    BY <1>2, <1>3, <1>4 DEF Explained

-----------------------------------------------------------------------------
(* The steps of processes, by what they write.                             *)

\* Looking, listing and planning write no order.
Looks(p) ==
  \E j \in Jobs :
    /\ job' = [job EXCEPT ![p] = j]
    /\ UNCHANGED <<row, venue, lost>>
    /\ account' \in Int /\ book' \in [Sleeves -> Int]
    /\ members' \subseteq Sleeves /\ open' \in BOOLEAN
    /\ \A o \in Hand(j) : o \in Hand(job[p]) \/ row[o].status = "held"
    /\ job[p].at # "commit"
    /\ j.at \notin {"fit", "place", "commit"} /\ j.got = "none" /\ j.order = None
    /\ p \in Ticks => j.at \in {"idle", "listed", "looked"} /\ (j.at # "idle" <=> j.todo # {})
    /\ p \notin Ticks /\ j.at # "listed" => j.todo = {}

LEMMA HandInOrders ==
  ASSUME NEW j \in Jobs, NEW o \in Hand(j)
  PROVE  o \in Orders
  BY ConstantsTyped DEF Jobs, Hand

LEMMA LooksKeepsHands ==
  ASSUME HandInv, NEW p \in Procs, Looks(p), Watch
  PROVE  HandInv' /\ (HiddenExplained => HiddenExplained')
  <1>1. PICK j \in Jobs : Looks(p)!(j)
    BY DEF Looks
  <1>2. job'[p] = j /\ \A q \in Procs : q # p => job'[q] = job[q]
    BY <1>1 DEF HandInv, TypeOK
  <1>3. Grasps(p)
    BY <1>1, <1>2, HandInOrders DEF Grasps
  <1>4. Writes(p)
    BY <1>1 DEF Writes
  <1>5. TypeOK'
    BY <1>1 DEF HandInv, TypeOK, Watch
  <1>6. InOrder'
    BY <1>1 DEF HandInv, InOrder, Made
  <1>7. Own(p)'
    <2>1. ShapeOf(p)' /\ PrivateOf(p)' /\ CommitOf(p)'
      BY <1>1, <1>2 DEF ShapeOf, PrivateOf, CommitOf
    <2>2. MadeOf(p)'
      BY <1>1, <1>2 DEF MadeOf, HandInv, Own
    <2>3. InHandOf(p)'
      BY <1>1, <1>2, <1>3 DEF InHandOf, HandInv, Own, HeldIsHere, Watch, Grasps
    <2> QED
      BY <2>1, <2>2, <2>3 DEF Own
  <1>8. ASSUME HiddenExplained PROVE HiddenExplained'
    <2>1. \A o \in Orders :
            o \in Hand(job[p]) \/ row[o].status = "none" => (Hidden(o) => Explained(o))'
      BY <1>1, <1>2 DEF HandInv, Own, InHandOf, HeldIsHere, Hidden, Explained, Watch
    <2> QED
      BY <1>3, <1>4, <1>8, <2>1, HiddenKept
  <1> QED
    BY <1>3, <1>4, <1>5, <1>6, <1>7, <1>8, HandsKept

\* Emitting makes one new order.
Emits(p) ==
  \E j \in Jobs, s \in Sleeves \cup {None}, amount \in Int, closes \in BOOLEAN :
    /\ Emit(p, j, s, amount, closes)
    /\ UNCHANGED <<venue, lost, bookVars, open>> /\ members' \subseteq Sleeves
    /\ j.at \in {"done", "closing"} /\ j.todo = {} /\ j.order = None
    /\ j.got # "none" => p \in Requests
    /\ p \notin Ticks /\ job[p].at # "commit"

LEMMA EmitsKeepsHands ==
  ASSUME HandInv, NEW p \in Procs, Emits(p), Watch
  PROVE  HandInv' /\ (HiddenExplained => HiddenExplained')
  <1>1. PICK j \in Jobs, s \in Sleeves \cup {None}, amount \in Int, closes \in BOOLEAN :
          Emits(p)!(j, s, amount, closes)
    BY DEF Emits
  <1>2. /\ Fresh \in Orders /\ row[Fresh].status = "none" /\ venue[Fresh] = "none"
        /\ Made \cup {Fresh} = 1..Fresh
    BY <1>1, FreshIsNew DEF Emit, HandInv, HeldIsHere
  <1> DEFINE k == IF open THEN [j EXCEPT !.at = "fit", !.order = Fresh]
                  ELSE [j EXCEPT !.got = "none"]
             x == [status |-> IF open THEN "draft" ELSE "held", amount |-> amount,
                   sleeve |-> s, closes |-> closes]
  <1>3. k \in Jobs /\ Hand(k) = IF open THEN {Fresh} ELSE {}
    BY <1>1, <1>2, ConstantsTyped DEF Jobs, Hand, Steps, Statuses
  <1>4. job' = [job EXCEPT ![p] = k] /\ row' = [row EXCEPT ![Fresh] = x]
    BY <1>1 DEF Emit
  <1>5. job'[p] = k /\ \A q \in Procs : q # p => job'[q] = job[q]
    BY <1>4 DEF HandInv, TypeOK
  <1>6. row'[Fresh] = x /\ \A o \in Orders : o # Fresh => row'[o] = row[o]
    BY <1>2, <1>4 DEF HandInv, TypeOK
  <1>7. x.status \in {"draft", "held"} /\ (open => x.status = "draft")
    OBVIOUS
  <1>8. TypeOK'
    <2>1. job' \in [Procs -> Jobs]
      BY <1>3, <1>4 DEF HandInv, TypeOK
    <2>2. x \in [status : Statuses, amount : Int, sleeve : Sleeves \cup {None}, closes : BOOLEAN]
      BY DEF Statuses
    <2> HIDE DEF k, x
    <2> QED
      BY <1>1, <1>4, <2>1, <2>2 DEF HandInv, TypeOK, Watch, bookVars
  <1>9. \A q \in Procs : Fresh \notin Hand(job[q])
    BY <1>2 DEF HandInv, Own, MadeOf
  <1>10. \A o \in Hand(k) : o = Fresh
    BY <1>3
  <1>11. venue' = venue /\ job[p].at # "commit"
    BY <1>1
  <1>12. k.got # "none" => p \in Requests /\ k.at = "fit" /\ k.order = Fresh /\ open
    BY <1>1 DEF Jobs
  <1>13. /\ k.at \in {"done", "closing", "fit"} /\ k.todo = {}
         /\ k.order = IF k.at = "fit" THEN Fresh ELSE None
    BY <1>1 DEF Jobs
  <1>14. p \notin Ticks
    BY <1>1
  <1> HIDE DEF k, x
  <1>15. Grasps(p)
    BY <1>2, <1>5, <1>10 DEF Grasps
  <1>16. Writes(p)
    BY <1>2, <1>6, <1>7, <1>11 DEF Writes
  <1>17. InOrder'
    <2>1. Made' = Made \cup {Fresh}
      BY <1>2, <1>6, <1>7 DEF Made
    <2> QED
      BY <1>2, <2>1, ConstantsTyped DEF InOrder, Orders
  <1>18. Own(p)'
    <2>1. ShapeOf(p)' /\ CommitOf(p)'
      BY <1>2, <1>5, <1>13, <1>14 DEF ShapeOf, CommitOf
    <2>2. MadeOf(p)' /\ InHandOf(p)'
      BY <1>2, <1>5, <1>6, <1>7, <1>10, <1>11 DEF MadeOf, InHandOf
    <2>3. PrivateOf(p)'
      BY <1>2, <1>5, <1>6, <1>7, <1>9, <1>11, <1>12 DEF PrivateOf
    <2> QED
      BY <2>1, <2>2, <2>3 DEF Own
  <1>19. ASSUME HiddenExplained PROVE HiddenExplained'
    <2>1. \A o \in Orders :
            o \in Hand(job[p]) \/ row[o].status = "none" => (Hidden(o) => Explained(o))'
      BY <1>11 DEF HandInv, Own, InHandOf, HeldIsHere, Hidden, Explained, Watch
    <2> QED
      BY <1>15, <1>16, <1>19, <2>1, HiddenKept
  <1> QED
    BY <1>8, <1>15, <1>16, <1>17, <1>18, <1>19, HandsKept

\* An order is refused, or submitted with an outcome.
Sends(p) ==
  \E status \in {"rejected", "confirmed", "submitted", "unknown"}, placed \in BOOLEAN :
    /\ job[p].at = "place" /\ Lands(p, status, placed)
    /\ lost' \in Nat /\ UNCHANGED <<bookVars, members, open>>
    /\ IF status \in {"rejected", "confirmed"}
       THEN venue' = venue
       ELSE /\ venue[job[p].order] = "none"
            /\ venue' = [venue EXCEPT ![job[p].order] = "working"]

\* What is left to do afterwards.
LEMMA AfterHand ==
  ASSUME HandInv, NEW p \in Procs, job[p].at = "place", NEW placed \in BOOLEAN
  PROVE  /\ After(p, placed) \in Jobs
         /\ After(p, placed).at \in {"idle", "looked", "done", "closing"}
         /\ After(p, placed).got = job[p].got \/ After(p, placed).got = "none"
         /\ After(p, placed).order = None
         /\ p \in Ticks => After(p, placed).at \in {"idle", "looked"}
         /\ p \notin Ticks => After(p, placed).todo = {}
         /\ After(p, placed).at = "looked" => p \in Ticks /\ After(p, placed).todo # {}
         /\ After(p, placed).at = "idle" => After(p, placed).todo = {}
         /\ \A o \in Hand(After(p, placed)) : o \in Hand(job[p]) /\ o # job[p].order
  <1>1. job[p] \in Jobs /\ ShapeOf(p)
    BY DEF HandInv, TypeOK, Own
  <1>2. job[p].order \in Orders /\ None \notin Orders
    BY <1>1, ConstantsTyped DEF ShapeOf
  <1>3. CASE p \in Ticks
    BY <1>1, <1>2, <1>3 DEF After, Job, Jobs, Hand, Steps, Statuses
  <1>4. CASE p \in Cycles /\ p \notin Ticks
    BY <1>1, <1>2, <1>4 DEF After, Job, Jobs, Hand, Steps, Statuses
  <1>5. CASE p \notin Cycles /\ p \notin Ticks
    BY <1>1, <1>2, <1>5 DEF After, Job, Jobs, Hand, Steps, Statuses, ShapeOf
  <1> QED
    BY <1>3, <1>4, <1>5

LEMMA SendsKeepsHands ==
  ASSUME HandInv, NEW p \in Procs, Sends(p), Watch
  PROVE  HandInv' /\ (HiddenExplained => HiddenExplained')
  <1> DEFINE o == job[p].order
  <1>1. PICK status \in {"rejected", "confirmed", "submitted", "unknown"}, placed \in BOOLEAN :
          Sends(p)!(status, placed)
    BY DEF Sends
  <1>2. /\ job[p] \in Jobs /\ ShapeOf(p) /\ InHandOf(p) /\ MadeOf(p) /\ PrivateOf(p)
        /\ o \in Orders /\ o \in Hand(job[p]) /\ row[o].status # "none"
        /\ venue[o] = "none" \/ o \in contested
    BY <1>1, ConstantsTyped DEF HandInv, TypeOK, Own, ShapeOf, Hand, InHandOf, MadeOf
  <1>3. venue' \in [Orders -> {"none", "working", "executed", "booked"}]
    BY <1>1 DEF HandInv, TypeOK
  <1>4. /\ \A u \in Orders : u # o => venue'[u] = venue[u]
        /\ status \in {"rejected", "confirmed"} => venue'[o] = venue[o]
        /\ status \notin {"rejected", "confirmed"} => venue'[o] = "working"
    BY <1>1, <1>2 DEF HandInv, TypeOK
  <1>5. CASE job[p].got # "none"
    <2> DEFINE k == [job[p] EXCEPT !.at = "commit", !.got = status]
    <2>1. job' = [job EXCEPT ![p] = k] /\ row' = row
      BY <1>1, <1>2, <1>5 DEF Lands, Jobs, HandInv, TypeOK
    <2>2. k \in Jobs /\ k.at = "commit" /\ k.got = status /\ k.order = o /\ k.todo = job[p].todo
      BY <1>2 DEF Jobs, Steps, Statuses
    <2>3. Hand(k) = Hand(job[p])
      BY <2>2 DEF Hand
    <2>4. job'[p] = k /\ \A q \in Procs : q # p => job'[q] = job[q]
      BY <2>1 DEF HandInv, TypeOK
    <2>5. p \in Requests /\ row[o].status = "draft" /\ venue[o] = "none"
          /\ \A q \in Procs : q # p => o \notin Hand(job[q])
      BY <1>1, <1>2, <1>5 DEF PrivateOf
    <2> HIDE DEF k
    <2>6. Grasps(p)
      BY <2>3, <2>4, <1>2, HandInOrders DEF Grasps
    <2>7. Writes(p)
      BY <2>1, <2>5, <1>2, <1>4 DEF Writes
    <2>8. TypeOK'
      BY <1>1, <1>3, <2>1, <2>2 DEF HandInv, TypeOK, Watch, bookVars
    <2>9. InOrder'
      BY <2>1 DEF HandInv, InOrder, Made
    <2>10. Own(p)'
      <3>1. ShapeOf(p)' /\ InHandOf(p)'
        BY <1>1, <1>2, <2>2, <2>4, <2>5, Kinds DEF ShapeOf, InHandOf
      <3>2. MadeOf(p)'
        BY <1>2, <2>1, <2>3, <2>4 DEF MadeOf
      <3>3. PrivateOf(p)' /\ CommitOf(p)'
        BY <1>4, <2>1, <2>2, <2>4, <2>5 DEF PrivateOf, CommitOf
      <3> QED
        BY <3>1, <3>2, <3>3 DEF Own
    <2>11. ASSUME HiddenExplained PROVE HiddenExplained'
      <3>1. \A u \in Orders :
              u \in Hand(job[p]) \/ row[u].status = "none" => (Hidden(u) => Explained(u))'
        BY <1>1, <1>2, <1>4, <2>2, <2>4, <2>5
           DEF HandInv, InHandOf, HeldIsHere, Hidden, Explained, Watch
      <3> QED
        BY <2>6, <2>7, <2>11, <3>1, HiddenKept
    <2> QED
      BY <2>6, <2>7, <2>8, <2>9, <2>10, <2>11, HandsKept
  <1>6. CASE job[p].got = "none"
    <2> DEFINE k == After(p, placed)
    <2>1. job' = [job EXCEPT ![p] = k] /\ row' = [row EXCEPT ![o].status = status]
      BY <1>1, <1>6 DEF Lands, SetStatus
    <2>2. /\ k \in Jobs /\ k.at \in {"idle", "looked", "done", "closing"} /\ k.got = "none"
          /\ k.order = None
          /\ p \in Ticks => k.at \in {"idle", "looked"}
          /\ p \notin Ticks => k.todo = {}
          /\ k.at = "looked" => k.todo # {}
          /\ k.at = "idle" => k.todo = {}
          /\ \A u \in Hand(k) : u \in Hand(job[p]) /\ u # o
      BY <1>1, <1>6, AfterHand
    <2> HIDE DEF k
    <2>3. job'[p] = k /\ \A q \in Procs : q # p => job'[q] = job[q]
      BY <2>1 DEF HandInv, TypeOK
    <2>4. row'[o].status = status /\ \A u \in Orders : u # o => row'[u] = row[u]
      BY <1>2, <2>1 DEF HandInv, TypeOK
    <2>5. Grasps(p)
      BY <2>2, <2>3, <1>2, HandInOrders DEF Grasps
    <2>6. Writes(p)
      BY <2>4, <1>2, <1>4 DEF Writes
    <2>7. TypeOK'
      <3>1. row' \in [Orders -> [status : Statuses, amount : Int,
                                 sleeve : Sleeves \cup {None}, closes : BOOLEAN]]
        BY <1>2, <2>1 DEF HandInv, TypeOK, Statuses
      <3> QED
        BY <1>1, <1>3, <2>1, <2>2, <3>1 DEF HandInv, TypeOK, Watch, bookVars
    <2>8. InOrder'
      <3>1. Made' = Made
        BY <1>2, <2>4 DEF Made
      <3> QED
        BY <3>1 DEF HandInv, InOrder
    <2>9. Own(p)'
      <3>1. ShapeOf(p)' /\ PrivateOf(p)' /\ CommitOf(p)'
        BY <2>2, <2>3 DEF ShapeOf, PrivateOf, CommitOf
      <3>2. MadeOf(p)'
        BY <1>2, <2>2, <2>3, <2>4, HandInOrders DEF MadeOf
      <3>3. InHandOf(p)'
        BY <1>1, <1>2, <1>4, <2>2, <2>3, HandInOrders DEF InHandOf, Watch
      <3> QED
        BY <3>1, <3>2, <3>3 DEF Own
    <2>10. ASSUME HiddenExplained PROVE HiddenExplained'
      <3>1. ASSUME NEW u \in Orders, u \in Hand(job[p]) \/ row[u].status = "none", Hidden(u)'
            PROVE  Explained(u)'
        <4>1. CASE u = o
          BY <4>1, <3>1, <1>2, <1>4, <2>4 DEF Hidden, OpenStatuses, Explained, Watch
        <4>2. CASE u # o
          BY <4>2, <3>1, <1>1, <1>2, <1>4, <2>4
             DEF HandInv, InHandOf, HeldIsHere, Hidden, Explained, Watch
        <4> QED
          BY <4>1, <4>2
      <3> QED
        BY <2>5, <2>6, <2>10, <3>1, HiddenKept
    <2> QED
      BY <2>5, <2>6, <2>7, <2>8, <2>9, <2>10, HandsKept
  <1> QED
    BY <1>5, <1>6

\* The other steps write an order of p's hand.
Marks(p) ==
  \E j \in Jobs, x \in [Orders -> [status : Statuses, amount : Int,
                                   sleeve : Sleeves \cup {None}, closes : BOOLEAN]] :
    /\ row' = x /\ job' = [job EXCEPT ![p] = j]
    /\ UNCHANGED <<venue, lost, bookVars, open>> /\ members' \subseteq Sleeves
    /\ \A o \in Orders :
         \/ x[o] = row[o]
         \/ /\ o \in Hand(job[p]) /\ job[p].at # "commit"
            /\ x[o].status \notin {"none", "held"} \/ x[o].status = row[o].status
    /\ \A o \in Hand(j) : o \in Hand(job[p]) /\ x[o].status # "none"
    /\ j.got = job[p].got
    /\ j.got # "none" => j.order = job[p].order /\ j.at \in {"fit", "place"}
                         /\ x[j.order].status = row[j.order].status
    /\ job[p].at # "commit" /\ j.at \in {"fit", "place", "cancelled"}
    /\ IF j.at \in {"fit", "place"} THEN j.order \in Orders ELSE j.order = None
    /\ p \in Ticks => j.at \in {"fit", "place"}
    /\ p \notin Ticks => j.todo = {}

LEMMA MarksKeepsHands ==
  ASSUME HandInv, NEW p \in Procs, Marks(p), Watch
  PROVE  HandInv' /\ (HiddenExplained => HiddenExplained')
  <1>1. PICK j \in Jobs, x \in [Orders -> [status : Statuses, amount : Int,
                                 sleeve : Sleeves \cup {None}, closes : BOOLEAN]] :
          Marks(p)!(j, x)
    BY DEF Marks
  <1>2. job'[p] = j /\ \A q \in Procs : q # p => job'[q] = job[q]
    BY <1>1 DEF HandInv, TypeOK
  <1>3. \A o \in Hand(job[p]) : row[o].status # "none" /\ (venue[o] = "none" \/ o \in contested)
    BY <1>1 DEF HandInv, Own, MadeOf, InHandOf
  <1>4. Grasps(p)
    BY <1>1, <1>2, HandInOrders DEF Grasps
  <1>5. Writes(p)
    BY <1>1 DEF Writes
  <1>6. TypeOK'
    BY <1>1 DEF HandInv, TypeOK, Watch, bookVars
  <1>7. InOrder'
    <2>1. Made' = Made
      BY <1>1, <1>3 DEF Made
    <2> QED
      BY <2>1 DEF HandInv, InOrder
  <1>8. Own(p)'
    <2>1. ShapeOf(p)' /\ CommitOf(p)'
      BY <1>1, <1>2 DEF ShapeOf, CommitOf
    <2>2. MadeOf(p)'
      BY <1>1, <1>2 DEF MadeOf
    <2>3. ASSUME NEW o \in Hand(job'[p]) PROVE venue'[o] = "none" \/ o \in contested'
      <3>1. o \in Orders /\ o \in Hand(job[p]) /\ venue'[o] = venue[o]
        BY <1>1, <1>2, <2>3, HandInOrders
      <3>2. venue[o] = "none" \/ o \in contested
        BY <1>3, <3>1
      <3> QED
        BY <2>3, <3>1, <3>2 DEF Watch
    <2>4. InHandOf(p)'
      BY <2>3 DEF InHandOf
    <2>5. PrivateOf(p)'
      BY <1>1, <1>2 DEF PrivateOf, HandInv, Own
    <2> QED
      BY <2>1, <2>2, <2>4, <2>5 DEF Own
  <1>9. ASSUME HiddenExplained PROVE HiddenExplained'
    <2>1. \A o \in Orders :
            o \in Hand(job[p]) \/ row[o].status = "none" => (Hidden(o) => Explained(o))'
      BY <1>1, <1>3 DEF HandInv, HeldIsHere, Hidden, Explained, Watch
    <2> QED
      BY <1>4, <1>5, <1>9, <2>1, HiddenKept
  <1> QED
    BY <1>4, <1>5, <1>6, <1>7, <1>8, <1>9, HandsKept

\* The transaction of a removal ends: the others see its order.
LEMMA CommitKeepsHands ==
  ASSUME HandInv, NEW p \in Procs, Commit(p), Watch
  PROVE  HandInv' /\ (HiddenExplained => HiddenExplained')
  <1> DEFINE o == job[p].order
  <1>1. /\ job[p] \in Jobs /\ job[p].at = "commit"
        /\ job[p].got \in {"submitted", "unknown", "rejected", "confirmed"}
        /\ o \in Orders /\ o \in Hand(job[p]) /\ row[o].status = "draft" /\ p \in Requests
        /\ job[p].got \in {"submitted", "unknown"} \/ venue[o] = "none"
    BY ConstantsTyped DEF Commit, HandInv, TypeOK, Own, ShapeOf, PrivateOf, CommitOf, Hand
  <1>2. /\ job' = [job EXCEPT ![p] = Job("done")] /\ row' = [row EXCEPT ![o].status = job[p].got]
        /\ UNCHANGED <<venue, lost, bookVars, open>> /\ members' \subseteq members
    BY DEF Commit, SetStatus
  <1>3. Job("done") \in Jobs /\ Hand(Job("done")) = {}
        /\ Job("done").at = "done" /\ Job("done").got = "none" /\ Job("done").todo = {}
        /\ Job("done").order = None
    BY DEF Job, Jobs, Hand, Steps, Statuses
  <1>4. job'[p] = Job("done") /\ \A q \in Procs : q # p => job'[q] = job[q]
    BY <1>2 DEF HandInv, TypeOK
  <1>5. row'[o].status = job[p].got /\ \A u \in Orders : u # o => row'[u] = row[u]
    BY <1>1, <1>2 DEF HandInv, TypeOK
  <1>6. Grasps(p)
    BY <1>3, <1>4 DEF Grasps
  <1>7. Writes(p)
    BY <1>1, <1>2, <1>5 DEF Writes
  <1>8. TypeOK'
    <2>1. row' \in [Orders -> [status : Statuses, amount : Int,
                               sleeve : Sleeves \cup {None}, closes : BOOLEAN]]
      BY <1>1, <1>2 DEF HandInv, TypeOK, Statuses
    <2>2. job' \in [Procs -> Jobs]
      BY <1>2, <1>3 DEF HandInv, TypeOK
    <2> QED
      BY <1>2, <2>1, <2>2 DEF HandInv, TypeOK, Watch, bookVars
  <1>9. InOrder'
    <2>1. Made' = Made
      BY <1>1, <1>5 DEF Made
    <2> QED
      BY <2>1 DEF HandInv, InOrder
  <1>10. Own(p)'
    <2>1. p \notin Ticks
      BY <1>1, Kinds
    <2> QED
      BY <1>3, <1>4, <2>1 DEF Own, ShapeOf, MadeOf, InHandOf, PrivateOf, CommitOf
  <1>11. ASSUME HiddenExplained PROVE HiddenExplained'
    <2>1. \A u \in Orders : u # o /\ u \in Hand(job[p]) => FALSE
      BY <1>1, Kinds DEF HandInv, Own, ShapeOf, Hand
    <2>2. \A u \in Orders :
            u \in Hand(job[p]) \/ row[u].status = "none" => (Hidden(u) => Explained(u))'
      BY <1>1, <1>2, <1>5, <2>1 DEF HandInv, HeldIsHere, Hidden, OpenStatuses, Explained
    <2> QED
      BY <1>6, <1>7, <1>11, <2>2, HiddenKept
  <1> QED
    BY <1>6, <1>7, <1>8, <1>9, <1>10, <1>11, HandsKept

-----------------------------------------------------------------------------
(* Every step is of one of these kinds.                                    *)

\* A job that is none of the orders' ways to the venue has nothing to commit.
LEMMA NothingToCommit ==
  ASSUME HandInv, NEW p \in Procs
  PROVE  /\ job[p] \in Jobs /\ ShapeOf(p)
         /\ job[p].at \notin {"fit", "place", "commit"} => job[p].got = "none" /\ job[p].order = None
  BY DEF HandInv, TypeOK, Own, PrivateOf, ShapeOf

LEMMA JobTyped ==
  ASSUME NEW step \in Steps
  PROVE  /\ Job(step) \in Jobs /\ Job(step).at = step /\ Job(step).got = "none"
         /\ Job(step).todo = {} /\ Job(step).order = None /\ Hand(Job(step)) = {}
  BY DEF Job, Jobs, Hand, Statuses

\* Steps that look.
LEMMA Looking ==
  ASSUME HandInv, NEW p \in Procs,
         \/ ListHeld(p) \/ LookForLive(p) \/ ListToCancel(p) \/ LookForClosing(p)
         \/ FindEmpty(p) \/ FindSettled(p) \/ WipeSleeves(p)
  PROVE  Looks(p)
  <1>1. /\ job[p] \in Jobs /\ ShapeOf(p)
        /\ job[p].at \notin {"fit", "place", "commit"} => job[p].got = "none" /\ job[p].order = None
    BY NothingToCommit
  <1>2. /\ account \in Int /\ book \in [Sleeves -> Int] /\ members \subseteq Sleeves
        /\ open \in BOOLEAN
    BY DEF HandInv, TypeOK
  <1>3. Having({"held"}) \subseteq Orders /\ \A o \in Having({"held"}) : row[o].status = "held"
    BY DEF Having
  <1> DEFINE listed == [Job("listed") EXCEPT !.todo = Having({"held"})]
             moved(step) == [job[p] EXCEPT !.at = step]
  <1>4. /\ listed \in Jobs /\ listed.at = "listed" /\ listed.got = "none"
        /\ listed.order = None /\ listed.todo = Having({"held"}) /\ Hand(listed) = Having({"held"})
    BY <1>3 DEF Job, Jobs, Hand, Steps, Statuses
  <1>5. ASSUME NEW step \in Steps
        PROVE  /\ moved(step) \in Jobs /\ moved(step).at = step
               /\ moved(step).got = job[p].got /\ moved(step).todo = job[p].todo
               /\ moved(step).order = job[p].order
               /\ Hand(moved(step)) = Hand(job[p])
    BY <1>1 DEF Jobs, Hand
  <1> HIDE DEF listed, moved
  <1>6. CASE ListHeld(p)
    <2>1. job' = [job EXCEPT ![p] = listed] /\ p \in Ticks /\ Having({"held"}) # {}
      BY <1>6 DEF ListHeld, listed
    <2> QED
      BY <1>2, <1>3, <1>4, <1>6, <2>1 DEF ListHeld, Looks, rowVars, bookVars
  <1>7. CASE LookForLive(p)
    <2>1. CASE Having(OpenStatuses) # {}
      BY <1>2, <1>7, <2>1, JobTyped DEF LookForLive, Looks, rowVars, bookVars, Steps
    <2>2. CASE Having(OpenStatuses) = {}
      <3>1. job' = [job EXCEPT ![p] = moved("looked")]
        BY <1>7, <2>2 DEF LookForLive, Goes, moved
      <3> QED
        BY <1>1, <1>2, <1>5, <1>7, <3>1
           DEF LookForLive, Looks, rowVars, bookVars, Steps, ShapeOf
    <2> QED
      BY <2>1, <2>2
  <1>8. CASE ListToCancel(p)
    <2>1. job' = [job EXCEPT ![p] = listed] /\ p \notin Ticks /\ job[p].at = "idle"
      BY <1>8, Kinds DEF ListToCancel, Begins, listed
    <2> QED
      BY <1>2, <1>3, <1>4, <1>8, <2>1 DEF ListToCancel, Looks, rowVars, bookVars
  <1>9. CASE LookForClosing(p)
    <2>1. p \notin Ticks
      BY <1>1, <1>9 DEF LookForClosing, ShapeOf
    <2> DEFINE j == IF account = 0 \/ \E o \in Having(Inflight) : row[o].closes THEN Job("done")
                    ELSE [Job("closing") EXCEPT !.who = Sleeves, !.left = account]
    <2>2. j \in Jobs /\ j.at \in {"done", "closing"} /\ j.got = "none" /\ j.todo = {}
          /\ j.order = None /\ Hand(j) = {}
      <3> DEFINE k == [Job("closing") EXCEPT !.who = Sleeves, !.left = account]
      <3>1. k \in Jobs /\ k.at = "closing" /\ k.got = "none" /\ k.todo = {}
            /\ k.order = None /\ Hand(k) = {}
        BY <1>2 DEF Job, Jobs, Hand, Steps, Statuses
      <3> HIDE DEF k
      <3>2. j = Job("done") \/ j = k
        BY DEF k
      <3> QED
        BY <3>1, <3>2, JobTyped DEF Steps
    <2>3. job' = [job EXCEPT ![p] = j]
      BY <1>9 DEF LookForClosing
    <2> HIDE DEF j
    <2> QED
      BY <1>2, <1>9, <2>1, <2>2, <2>3 DEF LookForClosing, Looks, rowVars, bookVars
  <1>10. CASE FindEmpty(p)
    <2>1. job' = [job EXCEPT ![p] = moved("empty")] /\ p \notin Ticks /\ job[p].at = "idle"
      BY <1>10, Kinds DEF FindEmpty, Begins, Goes, moved
    <2> QED
      BY <1>1, <1>2, <1>5, <1>10, <2>1
         DEF FindEmpty, Looks, rowVars, bookVars, Steps, ShapeOf
  <1>11. CASE FindSettled(p)
    <2>1. p \notin Ticks /\ job[p].todo = {}
      BY <1>1, <1>11 DEF FindSettled, ShapeOf
    <2>2. PICK step \in {"counted", "done"} : job' = [job EXCEPT ![p] = moved(step)]
      BY <1>11 DEF FindSettled, Goes, moved
    <2> QED
      BY <1>1, <1>2, <1>5, <1>11, <2>1, <2>2
         DEF FindSettled, Looks, rowVars, bookVars, Steps
  <1>12. CASE WipeSleeves(p)
    <2>1. p \notin Ticks
      BY <1>1, <1>12 DEF WipeSleeves, ShapeOf
    <2>2. book' \in [Sleeves -> Int]
      BY <1>12 DEF WipeSleeves
    <2>3. job' = [job EXCEPT ![p] = Job("done")] /\ job[p].at = "counted"
          /\ UNCHANGED <<row, venue, lost, account, members, open>>
      BY <1>12 DEF WipeSleeves, rowVars
    <2> QED
      BY <1>2, <2>1, <2>2, <2>3, JobTyped DEF Looks, Steps
  <1> QED
    BY <1>6, <1>7, <1>8, <1>9, <1>10, <1>11, <1>12

\* Steps that emit, unless there is nothing to close.
LEMMA Emitting ==
  ASSUME HandInv, NEW p \in Procs,
         \/ \E trade \in Trades : CycleEmits(p, trade[1], trade[2])
         \/ \E s \in Sleeves : CloseSleeve(p, s)
         \/ CloseRest(p)
         \/ \E s \in Sleeves : RemoveMember(p, s)
  PROVE  Emits(p) \/ Looks(p)
  <1>1. /\ job[p] \in Jobs /\ ShapeOf(p)
        /\ job[p].at \notin {"fit", "place", "commit"} => job[p].got = "none" /\ job[p].order = None
    BY NothingToCommit
  <1>2. /\ account \in Int /\ book \in [Sleeves -> Int] /\ members \subseteq Sleeves
        /\ open \in BOOLEAN
    BY DEF HandInv, TypeOK
  <1>3. ASSUME NEW trade \in Trades, CycleEmits(p, trade[1], trade[2]) PROVE Emits(p)
    <2>1. trade[1] \in Sleeves /\ trade[2] \in Int /\ p \notin Ticks /\ job[p].at = "idle"
      BY <1>3, Numbers, Kinds DEF CycleEmits
    <2> QED
      BY <1>2, <1>3, <2>1, JobTyped DEF CycleEmits, Emits, rowVars, bookVars, Steps
  <1>4. ASSUME NEW s \in Sleeves, CloseSleeve(p, s) PROVE Emits(p) \/ Looks(p)
    <2> DEFINE amount == Closing(book[s], job[p].left)
               j == [job[p] EXCEPT !.who = @ \ {s}, !.left = @ + amount]
               k == [job[p] EXCEPT !.who = @ \ {s}]
    <2>1. p \notin Ticks /\ job[p].at = "closing" /\ job[p].got = "none" /\ job[p].todo = {}
      BY <1>1, <1>4 DEF CloseSleeve, ShapeOf
    <2>2. amount \in Int
      BY <1>1, <1>2 DEF Closing, Jobs
    <2>3. /\ j \in Jobs /\ j.at = "closing" /\ j.got = "none" /\ j.todo = {}
          /\ j.order = None /\ k.order = None
          /\ k \in Jobs /\ k.at = "closing" /\ k.got = "none" /\ k.todo = {}
          /\ Hand(k) = Hand(job[p])
      <3>1. job[p].order = None /\ job[p].left + amount \in Int
        BY <1>1, <2>1, <2>2 DEF Jobs
      <3> HIDE DEF amount
      <3>2. /\ j \in Jobs /\ j.at = "closing" /\ j.got = "none" /\ j.todo = {}
            /\ j.order = None
        BY <1>1, <2>1, <3>1 DEF Jobs
      <3>3. /\ k.order = None /\ k \in Jobs /\ k.at = "closing" /\ k.got = "none"
            /\ k.todo = {} /\ Hand(k) = Hand(job[p])
        BY <1>1, <2>1, <3>1 DEF Jobs, Hand
      <3> QED
        BY <3>2, <3>3
    <2> HIDE DEF amount, j, k
    <2>4. CASE SameSide(book[s], job[p].left)
      <3>1. Emit(p, j, s, amount, TRUE)
        BY <1>4, <2>4 DEF CloseSleeve, amount, j
      <3> QED
        BY <1>2, <1>4, <2>1, <2>2, <2>3, <3>1 DEF CloseSleeve, Emits, rowVars, bookVars
    <2>5. CASE ~ SameSide(book[s], job[p].left)
      <3>1. job' = [job EXCEPT ![p] = k] /\ UNCHANGED row
        BY <1>4, <2>5 DEF CloseSleeve, k
      <3> QED
        BY <1>2, <1>4, <2>1, <2>3, <3>1 DEF CloseSleeve, Looks, bookVars
    <2> QED
      BY <2>4, <2>5
  <1>5. ASSUME CloseRest(p) PROVE Emits(p) \/ Looks(p)
    <2> DEFINE j == [job[p] EXCEPT !.left = 0]
    <2>1. p \notin Ticks /\ job[p].at = "closing" /\ job[p].got = "none" /\ job[p].todo = {}
      BY <1>1, <1>5 DEF CloseRest, ShapeOf
    <2>2. j \in Jobs /\ j.at = "closing" /\ j.got = "none" /\ j.todo = {}
          /\ j.order = None /\ -job[p].left \in Int
      BY <1>1, <2>1 DEF Jobs
    <2> HIDE DEF j
    <2>3. CASE job[p].left # 0
      <3>1. Emit(p, j, None, -job[p].left, TRUE)
        BY <1>5, <2>3 DEF CloseRest, j
      <3> QED
        BY <1>2, <1>5, <2>1, <2>2, <3>1 DEF CloseRest, Emits, rowVars, bookVars
    <2>4. CASE job[p].left = 0
      BY <1>2, <1>5, <2>1, <2>4, JobTyped DEF CloseRest, Looks, bookVars, Steps
    <2> QED
      BY <2>3, <2>4
  <1>6. ASSUME NEW s \in Sleeves, RemoveMember(p, s) PROVE Emits(p) \/ Looks(p)
    <2> DEFINE j == [Job("done") EXCEPT !.got = "draft"]
    <2>1. p \in Requests /\ p \notin Ticks /\ job[p].at = "idle"
      BY <1>6, Kinds DEF RemoveMember, Begins
    <2>2. j \in Jobs /\ j.at = "done" /\ j.todo = {} /\ j.order = None /\ -book[s] \in Int
      BY <1>2 DEF Job, Jobs, Steps, Statuses
    <2> HIDE DEF j
    <2>3. members' \subseteq Sleeves
      BY <1>2, <1>6 DEF RemoveMember
    <2>4. CASE book[s] # 0
      <3>1. Emit(p, j, s, -book[s], TRUE)
        BY <1>6, <2>4 DEF RemoveMember, j
      <3> QED
        BY <1>6, <2>1, <2>2, <2>3, <3>1 DEF RemoveMember, Emits, rowVars, bookVars
    <2>5. CASE book[s] = 0
      BY <1>2, <1>6, <2>1, <2>3, <2>5, JobTyped DEF RemoveMember, Looks, bookVars, Steps
    <2> QED
      BY <2>4, <2>5
  <1> QED
    BY <1>3, <1>4, <1>5, <1>6

\* Steps that end an order's way to the venue.
LEMMA Sending ==
  ASSUME HandInv, NEW p \in Procs,
         \/ GateRefuses(p) \/ ClaimConflict(p)
         \/ VenueRefuses(p) \/ VenueAccepts(p) \/ AnswerIsLost(p)
  PROVE  Sends(p)
  <1>1. lost \in Nat /\ lost + 1 \in Nat
    BY DEF HandInv, TypeOK
  <1>2. CASE GateRefuses(p)
    BY <1>1, <1>2 DEF GateRefuses, Sends
  <1>3. CASE ClaimConflict(p)
    BY <1>1, <1>3 DEF ClaimConflict, Sends
  <1>4. CASE VenueRefuses(p)
    BY <1>1, <1>4 DEF VenueRefuses, Submits, Sends
  <1>5. CASE VenueAccepts(p)
    BY <1>1, <1>5 DEF VenueAccepts, Submits, Sends
  <1>6. CASE AnswerIsLost(p)
    BY <1>1, <1>6 DEF AnswerIsLost, Submits, Sends
  <1> QED
    BY <1>2, <1>3, <1>4, <1>5, <1>6

\* Steps that write an order in hand.
LEMMA Marking ==
  ASSUME HandInv, NEW p \in Procs, Fit(p) \/ ResetHeld(p) \/ CancelHeld(p)
  PROVE  Marks(p)
  <1> DEFINE Rows == [status : Statuses, amount : Int, sleeve : Sleeves \cup {None},
                      closes : BOOLEAN]
  <1>1. /\ job[p] \in Jobs /\ Own(p) /\ ShapeOf(p)
        /\ job[p].at \notin {"fit", "place", "commit"} => job[p].got = "none" /\ job[p].order = None
    BY NothingToCommit DEF HandInv
  <1>2. row \in [Orders -> Rows] /\ account \in Int /\ members \subseteq Sleeves
    BY DEF HandInv, TypeOK
  <1>3. \A o \in Hand(job[p]) : o \in Orders /\ row[o].status # "none"
    BY <1>1, HandInOrders DEF Own, MadeOf
  <1>4. CASE Fit(p)
    <2> DEFINE o == job[p].order
               x == [row EXCEPT ![o].amount = Fitted(account, @)]
               j == [job[p] EXCEPT !.at = "place"]
    <2>1. job[p].at = "fit" /\ o \in Orders /\ o \in Hand(job[p])
      BY <1>1, <1>4, ConstantsTyped DEF Fit, ShapeOf, Hand
    <2>2. Fitted(account, row[o].amount) \in Int
      BY <1>2, <2>1, FittedFits
    <2>3. x \in [Orders -> Rows] /\ x[o].status = row[o].status
          /\ \A u \in Orders : u # o => x[u] = row[u]
      BY <1>2, <2>1, <2>2
    <2>4. /\ j \in Jobs /\ j.at = "place" /\ j.order = o /\ j.got = job[p].got
          /\ j.todo = job[p].todo /\ Hand(j) = Hand(job[p])
      BY <1>1 DEF Jobs, Steps, Hand
    <2>5. /\ row' = x /\ job' = [job EXCEPT ![p] = j]
          /\ UNCHANGED <<venue, lost, bookVars, members, open>>
      BY <1>4 DEF Fit, Goes
    <2>6. p \notin Ticks => j.todo = {}
      BY <1>1, <2>1, <2>4 DEF ShapeOf
    <2>7. \A u \in Orders : x[u].status = row[u].status
      BY <2>3
    <2> HIDE DEF x, j
    <2>8. Marks(p)!(j, x)
      <3>1. \A u \in Orders : x[u] = row[u] \/ (u \in Hand(job[p]) /\ x[u].status = row[u].status)
        BY <2>1, <2>3
      <3>2. \A u \in Hand(j) : u \in Hand(job[p]) /\ x[u].status # "none"
        BY <1>3, <2>4, <2>7
      <3> QED
        BY <1>2, <2>1, <2>4, <2>5, <2>6, <2>7, <3>1, <3>2 DEF bookVars
    <2> QED
      BY <2>3, <2>4, <2>8 DEF Marks
  <1>5. CASE ResetHeld(p)
    <2> DEFINE o == First(job[p].todo)
               x == [row EXCEPT ![o].status = "draft"]
               j == [job[p] EXCEPT !.at = "fit", !.order = o]
    <2>1. p \in Ticks /\ job[p].at = "looked" /\ job[p].todo # {} /\ job[p].todo \subseteq Orders
      BY <1>1, <1>5 DEF ResetHeld, ShapeOf, Jobs
    <2>2. o \in job[p].todo /\ o \in Orders /\ Hand(job[p]) = job[p].todo
      BY <1>1, <2>1, FirstIsOne DEF Hand
    <2>3. x \in [Orders -> Rows] /\ x[o].status = "draft"
          /\ \A u \in Orders : u # o => x[u] = row[u]
      BY <1>2, <2>2 DEF Statuses
    <2>4. /\ j \in Jobs /\ j.at = "fit" /\ j.order = o /\ j.got = "none"
          /\ \A u \in Hand(j) : u \in Hand(job[p])
      <3>1. job[p].got = "none"
        BY <1>1, <2>1
      <3> QED
        BY <1>1, <2>2, <3>1 DEF Jobs, Steps, Hand
    <2>5. /\ row' = x /\ job' = [job EXCEPT ![p] = j]
          /\ UNCHANGED <<venue, lost, bookVars, members, open>>
      BY <1>5, <2>1 DEF ResetHeld, SetStatus, HandInv, TypeOK
    <2>6. job[p].got = "none"
      BY <1>1, <2>1
    <2> HIDE DEF x, j, o
    <2>7. Marks(p)!(j, x)
      <3>1. \A u \in Orders : x[u] = row[u] \/ (u \in Hand(job[p]) /\ x[u].status = "draft")
        BY <2>2, <2>3
      <3>2. \A u \in Hand(j) : u \in Hand(job[p]) /\ x[u].status # "none"
        BY <1>3, <2>3, <2>4
      <3> QED
        BY <1>2, <2>1, <2>2, <2>4, <2>5, <2>6, <3>1, <3>2, Kinds DEF bookVars
    <2> QED
      BY <2>3, <2>4, <2>7 DEF Marks
  <1>6. CASE CancelHeld(p)
    <2> DEFINE x == [o \in Orders |-> IF o \in job[p].todo THEN [row[o] EXCEPT !.status = "cancelled"]
                                     ELSE row[o]]
    <2>1. p \notin Ticks /\ job[p].at = "listed" /\ job[p].got = "none" /\ job[p].order = None
      BY <1>1, <1>6, Kinds DEF CancelHeld
    <2>2. /\ x \in [Orders -> Rows]
          /\ \A o \in Orders : x[o] = row[o]
               \/ (o \in Hand(job[p]) /\ x[o].status = "cancelled")
      <3>1. ASSUME NEW o \in Orders
            PROVE  x[o] \in Rows /\ (x[o] = row[o] \/ (o \in Hand(job[p]) /\ x[o].status = "cancelled"))
        <4>1. CASE o \in job[p].todo
          BY <1>2, <2>1, <4>1 DEF Statuses, Hand
        <4>2. CASE o \notin job[p].todo
          BY <1>2, <4>2
        <4> QED
          BY <4>1, <4>2
      <3> QED
        BY <3>1
    <2>3. /\ row' = x /\ job' = [job EXCEPT ![p] = Job("cancelled")]
          /\ UNCHANGED <<venue, lost, bookVars, members, open>>
      BY <1>6 DEF CancelHeld
    <2> HIDE DEF x
    <2>4. Job("cancelled") \in Jobs /\ Marks(p)!(Job("cancelled"), x)
      BY <1>2, <2>1, <2>2, <2>3, JobTyped DEF bookVars, Steps
    <2> QED
      BY <2>2, <2>4 DEF Marks
  <1> QED
    BY <1>4, <1>5, <1>6

LEMMA StepKinds ==
  ASSUME HandInv, NEW p \in Procs, Process(p)
  PROVE  Looks(p) \/ Emits(p) \/ Sends(p) \/ Marks(p) \/ Commit(p)
  BY Looking, Emitting, Sending, Marking DEF Process

\* Another process stands still.
LEMMA OthersStand ==
  ASSUME HandInv, NEW p \in Procs, Process(p), NEW q \in Procs, q # p
  PROVE  job'[q] = job[q]
  <1>1. CASE Looks(p)
    BY <1>1 DEF Looks, HandInv, TypeOK
  <1>2. CASE Emits(p)
    BY <1>2 DEF Emits, Emit, HandInv, TypeOK
  <1>3. CASE Sends(p)
    BY <1>3 DEF Sends, Lands, HandInv, TypeOK
  <1>4. CASE Marks(p)
    BY <1>4 DEF Marks, HandInv, TypeOK
  <1>5. CASE Commit(p)
    BY <1>5 DEF Commit, HandInv, TypeOK
  <1> QED
    BY <1>1, <1>2, <1>3, <1>4, <1>5, StepKinds

\* What market, venue and poll change.
Turns ==
  /\ job' = job /\ TypeOK'
  /\ \A o \in Orders : venue'[o] # venue[o] => venue[o] \in {"working", "executed"}
  /\ \A o \in Orders :
       row'[o].status # row[o].status =>
         /\ row[o].status \in {"unknown", "submitted"}
         /\ row'[o].status \in {"submitted", "filled"}
  /\ \A o \in Orders : Hidden(o)' => Hidden(o) /\ row'[o].status = row[o].status

LEMMA Turning ==
  ASSUME HandInv, World, Watch
  PROVE  Turns
  <1>1. TypeOK
    BY DEF HandInv
  <1>2. passed' \subseteq Procs /\ contested' \subseteq Orders /\ flat' \in BOOLEAN
    BY <1>1 DEF Watch, TypeOK
  <1>3. CASE MarketOpens
    BY <1>1, <1>2, <1>3 DEF MarketOpens, Turns, TypeOK, Hidden, rowVars, bookVars
  <1>4. ASSUME NEW o \in Orders, Executes(o) PROVE Turns
    <2>1. /\ venue' = [venue EXCEPT ![o] = "executed"] /\ venue[o] = "working"
          /\ UNCHANGED <<row, lost, account, book, members, open, job>>
      BY <1>4 DEF Executes, bookVars
    <2>2. TypeOK'
      BY <1>1, <1>2, <2>1 DEF TypeOK
    <2> QED
      BY <1>1, <2>1, <2>2 DEF Turns, TypeOK, Hidden
  <1>5. ASSUME NEW o \in Orders, Adopt(o) PROVE Turns
    <2>1. /\ row' = [row EXCEPT ![o].status = "submitted"] /\ row[o].status = "unknown"
          /\ UNCHANGED <<venue, lost, account, book, members, open, job>>
      BY <1>5 DEF Adopt, SetStatus, bookVars
    <2>2. TypeOK'
      BY <1>1, <1>2, <2>1 DEF TypeOK, Statuses
    <2>3. row'[o].status = "submitted" /\ \A u \in Orders : u # o => row'[u] = row[u]
      BY <1>1, <2>1 DEF TypeOK
    <2> QED
      BY <2>1, <2>2, <2>3 DEF Turns, Hidden, OpenStatuses
  <1>6. ASSUME NEW o \in Orders, Book(o) PROVE Turns
    <2>1. /\ row' = [row EXCEPT ![o].status = "filled"] /\ row[o].status = "submitted"
          /\ venue' = [venue EXCEPT ![o] = "booked"] /\ venue[o] = "executed"
          /\ UNCHANGED <<lost, members, open, job>>
      BY <1>6 DEF Book, SetStatus, OpenStatuses
    <2>2. account' \in Int /\ book' \in [Sleeves -> Int]
      BY <1>1, <1>6 DEF Book, TypeOK
    <2>3. TypeOK'
      BY <1>1, <1>2, <2>1, <2>2 DEF TypeOK, Statuses
    <2>4. /\ row'[o].status = "filled" /\ \A u \in Orders : u # o => row'[u] = row[u]
          /\ venue'[o] = "booked" /\ \A u \in Orders : u # o => venue'[u] = venue[u]
      BY <1>1, <2>1 DEF TypeOK
    <2> QED
      BY <2>1, <2>3, <2>4 DEF Turns, Hidden
  <1> QED
    BY <1>3, <1>4, <1>5, <1>6 DEF World

LEMMA TurnsKeepHands ==
  ASSUME HandInv, Turns, Watch
  PROVE  HandInv' /\ (HiddenExplained => HiddenExplained')
  <1>1. TypeOK' /\ job' = job
    BY DEF Turns
  <1>2. InOrder'
    <2>1. Made' = Made
      BY DEF Turns, Made
    <2> QED
      BY <2>1 DEF HandInv, InOrder
  <1>3. HeldIsHere'
    BY DEF Turns, HandInv, HeldIsHere
  <1>4. OneHand'
    BY DEF Watch, OneHand
  <1>5. ASSUME NEW p \in Procs PROVE Own(p)'
    <2>1. Own(p) /\ job[p] \in Jobs /\ \A o \in Hand(job[p]) : o \in Orders
      BY HandInOrders DEF HandInv, TypeOK
    <2>2. ShapeOf(p)'
      BY <1>1, <2>1 DEF Own, ShapeOf
    <2>3. MadeOf(p)' /\ InHandOf(p)'
      BY <1>1, <2>1 DEF Own, MadeOf, InHandOf, Turns, Watch
    <2>4. PrivateOf(p)' /\ CommitOf(p)'
      BY <1>1, <2>1 DEF Own, ShapeOf, PrivateOf, CommitOf, Turns
    <2> QED
      BY <2>2, <2>3, <2>4 DEF Own
  <1>6. ASSUME HiddenExplained PROVE HiddenExplained'
    BY <1>6 DEF HiddenExplained, Turns, Watch
  <1> QED
    BY <1>1, <1>2, <1>3, <1>4, <1>5, <1>6 DEF HandInv

\* Every step keeps the hands, and every order at the venue explained.
LEMMA StepKeepsHands ==
  ASSUME HandInv, HiddenExplained, [Next]_vars
  PROVE  HandInv' /\ HiddenExplained'
  <1>1. CASE Next
    <2>1. Watch
      BY <1>1 DEF Next
    <2>2. ASSUME NEW p \in Procs, Process(p) PROVE HandInv' /\ HiddenExplained'
      BY <2>1, <2>2, StepKinds, LooksKeepsHands, EmitsKeepsHands, SendsKeepsHands,
         MarksKeepsHands, CommitKeepsHands
    <2>3. CASE World
      BY <2>1, <2>3, Turning, TurnsKeepHands
    <2> QED
      BY <1>1, <2>2, <2>3 DEF Next
  <1>2. CASE UNCHANGED vars
    BY <1>2 DEF vars, state, rowVars, bookVars, HandInv, HiddenExplained, TypeOK, InOrder, Made, HeldIsHere, OneHand, Own,
       ShapeOf, MadeOf, InHandOf, PrivateOf, CommitOf, Hidden
  <1> QED
    BY <1>1, <1>2

-----------------------------------------------------------------------------
(* What a tick and a reset have seen.                                      *)

\* Whoever relies on what it has seen and has not been passed now had not been before,
\* and either moved itself or still sees the same.
LEMMA Unpassed ==
  ASSUME Watch, NEW p \in Procs, job'[p].at \in Relying(p), p \notin passed'
  PROVE  /\ p \notin passed
         /\ job'[p] = job[p] => UNCHANGED <<venue, account, book>>
         /\ \A o \in Orders : ~ Hidden(o)'
  BY DEF Watch, bookVars

\* Only the fit changes how much an order is for.
LEMMA Amounts ==
  ASSUME HandInv, NEW o \in Orders, row[o].status # "none",
         (\E p \in Procs : Process(p)) \/ World
  PROVE  row'[o].amount = row[o].amount \/ row'[o].amount = Fitted(account, row[o].amount)
  <1>1. row \in [Orders -> [status : Statuses, amount : Int, sleeve : Sleeves \cup {None},
                            closes : BOOLEAN]]
    BY DEF HandInv, TypeOK
  <1>2. ASSUME NEW u, NEW status, SetStatus(u, status) PROVE row'[o].amount = row[o].amount
    BY <1>1, <1>2 DEF SetStatus
  <1>3. ASSUME NEW p, NEW j, NEW s, NEW n, NEW closes, Emit(p, j, s, n, closes)
        PROVE  row'[o].amount = row[o].amount
    BY <1>1, <1>3, FreshIsNew DEF Emit, HandInv
  <1>4. ASSUME NEW p, NEW status, NEW placed, Lands(p, status, placed)
        PROVE  row'[o].amount = row[o].amount
    BY <1>2, <1>4 DEF Lands
  <1>5. ASSUME NEW p \in Procs, Process(p)
        PROVE  row'[o].amount = row[o].amount \/ row'[o].amount = Fitted(account, row[o].amount)
    <2>1. CASE Fit(p)
      BY <1>1, <2>1 DEF Fit
    <2>2. CASE GateRefuses(p) \/ ClaimConflict(p) \/ VenueRefuses(p) \/ VenueAccepts(p)
               \/ AnswerIsLost(p)
      BY <1>4, <2>2 DEF GateRefuses, ClaimConflict, VenueRefuses, VenueAccepts, AnswerIsLost
    <2>3. CASE ListHeld(p) \/ LookForLive(p) \/ ListToCancel(p) \/ LookForClosing(p)
               \/ FindEmpty(p) \/ FindSettled(p) \/ WipeSleeves(p)
      BY <2>3 DEF ListHeld, LookForLive, ListToCancel, LookForClosing, FindEmpty, FindSettled,
                  WipeSleeves, rowVars
    <2>4. CASE ResetHeld(p) \/ Commit(p)
      BY <1>2, <2>4 DEF ResetHeld, Commit
    <2>5. CASE CancelHeld(p)
      BY <1>1, <2>5 DEF CancelHeld
    <2>6. CASE \E trade \in Trades : CycleEmits(p, trade[1], trade[2])
      BY <1>3, <2>6 DEF CycleEmits
    <2>7. ASSUME NEW s \in Sleeves, CloseSleeve(p, s) \/ RemoveMember(p, s)
          PROVE  row'[o].amount = row[o].amount
      BY <1>3, <2>7 DEF CloseSleeve, RemoveMember
    <2>8. CASE CloseRest(p)
      BY <1>3, <2>8 DEF CloseRest
    <2> QED
      BY <1>5, <2>1, <2>2, <2>3, <2>4, <2>5, <2>6, <2>7, <2>8 DEF Process
  <1>6. ASSUME World PROVE row'[o].amount = row[o].amount
    BY <1>2, <1>6 DEF World, MarketOpens, Executes, Adopt, Book, rowVars
  <1> QED
    BY <1>5, <1>6

\* What a tick may do.
LEMMA TickSteps ==
  ASSUME HandInv, NEW t \in Ticks, Process(t)
  PROVE  \/ ListHeld(t) \/ LookForLive(t) \/ ResetHeld(t) \/ Fit(t)
         \/ GateRefuses(t) \/ ClaimConflict(t) \/ VenueRefuses(t)
         \/ VenueAccepts(t) \/ AnswerIsLost(t)
  <1>1. /\ t \in Procs /\ t \notin Cycles /\ t \notin Requests
        /\ job[t].at \in {"idle", "listed", "looked", "fit", "place"}
    BY Kinds DEF Procs, HandInv, Own, ShapeOf
  <1> QED
    BY <1>1 DEF Process, CycleEmits, ListToCancel, CancelHeld, LookForClosing, CloseSleeve,
                CloseRest, RemoveMember, Commit, FindEmpty, FindSettled, WipeSleeves, Begins

\* A tick that stands still.
LEMMA StillSees ==
  ASSUME HandInv, HandInv', Next, NEW t \in Ticks, SeesOf(t), job'[t] = job[t]
  PROVE  SeesOf(t)'
  <1> SUFFICES ASSUME t \notin passed', job[t].at \in {"looked", "fit", "place"}
               PROVE  SeesOf(t)'
    BY DEF SeesOf
  <1>1. t \in Procs /\ job[t].at \in Relying(t)
    BY DEF Procs, Relying
  <1>2. t \notin passed /\ UNCHANGED <<venue, account, book>>
    BY <1>1, Unpassed DEF Next
  <1>3. CASE job[t].at # "place"
    BY <1>2, <1>3 DEF SeesOf
  <1>4. CASE job[t].at = "place"
    <2> DEFINE o == job[t].order
    <2>1. o \in Orders /\ o \in Hand(job[t]) /\ row[o].status # "none"
      BY <1>1, <1>4, ConstantsTyped DEF HandInv, Own, ShapeOf, MadeOf, Hand
    <2>2. row'[o].amount = row[o].amount \/ row'[o].amount = Fitted(account, row[o].amount)
      BY <2>1, Amounts DEF Next
    <2>3. account \in Int /\ row[o].amount \in Int
      BY <2>1 DEF HandInv, TypeOK
    <2> QED
      BY <1>2, <1>4, <2>2, <2>3, FittedFits DEF SeesOf
  <1> QED
    BY <1>3, <1>4

\* A tick that moves.
LEMMA MovesSees ==
  ASSUME HandInv, HandInv', NEW t \in Ticks, SeesOf(t), Process(t), Watch
  PROVE  SeesOf(t)'
  <1> SUFFICES ASSUME t \notin passed', job'[t].at \in {"looked", "fit", "place"}
               PROVE  SeesOf(t)'
    BY DEF SeesOf
  <1>1. /\ t \in Procs /\ job[t] \in Jobs /\ ShapeOf(t) /\ job[t].got = "none"
        /\ job \in [Procs -> Jobs] /\ row \in [Orders -> [status : Statuses, amount : Int,
                         sleeve : Sleeves \cup {None}, closes : BOOLEAN]]
        /\ venue \in [Orders -> {"none", "working", "executed", "booked"}] /\ account \in Int
    BY Kinds DEF Procs, HandInv, TypeOK, Own, PrivateOf
  <1>2. t \notin passed /\ \A o \in Orders : ~ Hidden(o)'
    BY <1>1, Unpassed DEF Relying
  <1>3. CASE ListHeld(t)
    BY <1>1, <1>3, JobTyped DEF ListHeld, Job
  <1>4. CASE LookForLive(t)
    <2>1. UNCHANGED <<row, venue, account, book>>
      BY <1>4 DEF LookForLive, rowVars, bookVars
    <2>2. CASE Having(OpenStatuses) # {}
      BY <1>1, <1>4, <2>2 DEF LookForLive, Job
    <2>3. CASE Having(OpenStatuses) = {}
      <3>1. \A o \in Orders : venue[o] \in {"none", "booked"}
        <4>1. \A o \in Orders : row[o].status \notin OpenStatuses
          BY <2>3 DEF Having
        <4> QED
          BY <1>1, <1>2, <2>1, <4>1 DEF Hidden
      <3>2. job'[t].at = "looked"
        <4>1. job' = [job EXCEPT ![t] = [job[t] EXCEPT !.at = "looked"]]
          BY <1>4, <2>3 DEF LookForLive, Goes
        <4>2. [job[t] EXCEPT !.at = "looked"].at = "looked"
          BY <1>1 DEF Jobs
        <4> QED
          BY <1>1, <4>1, <4>2
      <3> QED
        BY <2>1, <3>1, <3>2 DEF SeesOf
    <2> QED
      BY <2>2, <2>3
  <1>5. CASE ResetHeld(t)
    BY <1>1, <1>2, <1>5 DEF ResetHeld, SeesOf, bookVars
  <1>6. CASE Fit(t)
    <2> DEFINE o == job[t].order
    <2>1. o \in Orders
      BY <1>1, <1>6 DEF Fit, ShapeOf
    <2>2. /\ row'[o].amount = Fitted(account, row[o].amount)
          /\ UNCHANGED <<venue, account>> /\ job[t].at = "fit" /\ job'[t].order = o
      BY <1>1, <1>6, <2>1 DEF Fit, Goes, bookVars
    <2>3. SameSide(account, -row'[o].amount) => Size(row'[o].amount) <= Size(account)
      BY <1>1, <2>1, <2>2, FittedFits
    <2> QED
      BY <1>2, <2>2, <2>3 DEF SeesOf
  <1>7. CASE GateRefuses(t) \/ ClaimConflict(t) \/ VenueRefuses(t)
    <2>1. UNCHANGED <<venue, account>> /\ job[t].at = "place" /\ job'[t] = After(t, FALSE)
      BY <1>1, <1>7 DEF GateRefuses, ClaimConflict, VenueRefuses, Submits, Lands, bookVars
    <2>2. job'[t].at = "looked"
      BY <1>1, <2>1, AfterHand
    <2> QED
      BY <1>2, <2>1, <2>2 DEF SeesOf
  <1>8. CASE VenueAccepts(t)
    <2>1. job'[t] = After(t, TRUE)
      BY <1>1, <1>8 DEF VenueAccepts, Lands
    <2> QED
      BY <2>1 DEF After, Job
  <1>9. CASE AnswerIsLost(t)
    <2> DEFINE o == job[t].order
    <2>1. o \in Orders
      BY <1>1, <1>9 DEF AnswerIsLost, Submits, ShapeOf
    <2>2. /\ venue' = [venue EXCEPT ![o] = "working"]
          /\ row' = [row EXCEPT ![o].status = "unknown"]
      BY <1>1, <1>9 DEF AnswerIsLost, Lands, SetStatus
    <2>3. venue'[o] = "working" /\ row'[o].status = "unknown"
      BY <1>1, <2>1, <2>2
    <2> QED
      BY <1>2, <2>1, <2>3 DEF Hidden, OpenStatuses
  <1> QED
    BY <1>3, <1>4, <1>5, <1>6, <1>7, <1>8, <1>9, TickSteps

\* A reset that moves.
LEMMA MovesCounts ==
  ASSUME HandInv, NEW r \in Requests, CountsOf(r), Process(r), Watch
  PROVE  CountsOf(r)'
  <1> SUFFICES ASSUME r \notin passed', job'[r].at \in {"empty", "counted"}
               PROVE  CountsOf(r)'
    BY DEF CountsOf
  <1>1. /\ r \in Procs /\ job[r] \in Jobs /\ r \notin Ticks /\ r \notin Cycles
        /\ job \in [Procs -> Jobs] /\ venue \in [Orders -> {"none", "working", "executed", "booked"}]
    BY Kinds DEF Procs, HandInv, TypeOK
  <1>2. r \notin passed /\ \A o \in Orders : ~ Hidden(o)'
    BY <1>1, Unpassed DEF Relying
  <1>3. CASE FindEmpty(r)
    BY <1>1, <1>3 DEF FindEmpty, Goes, CountsOf, bookVars
  <1>4. CASE FindSettled(r)
    <2>1. UNCHANGED <<row, venue, account, book>> /\ job[r].at = "empty"
      BY <1>4 DEF FindSettled, rowVars, bookVars
    <2>2. Having(Inflight) = {}
      <3>1. job'[r].at # "done"
        OBVIOUS
      <3>2. [job[r] EXCEPT !.at = "done"].at = "done"
        BY <1>1 DEF Jobs
      <3> QED
        BY <1>1, <1>4, <3>1, <3>2 DEF FindSettled, Goes
    <2>3. \A o \in Orders : venue[o] \in {"none", "booked"}
      <3>1. \A o \in Orders : row[o].status \notin OpenStatuses
        BY <2>2 DEF Having, OpenStatuses, Inflight
      <3> QED
        BY <1>1, <1>2, <2>1, <3>1 DEF Hidden
    <2> QED
      BY <1>2, <2>1, <2>3 DEF CountsOf
  <1>5. ASSUME GateRefuses(r) \/ ClaimConflict(r) \/ VenueRefuses(r) \/ VenueAccepts(r)
               \/ AnswerIsLost(r)
        PROVE  FALSE
    <2>1. PICK status \in {"rejected", "confirmed", "submitted", "unknown"}, placed \in BOOLEAN :
            job[r].at = "place" /\ Lands(r, status, placed)
      BY <1>1, <1>5, Sending DEF Sends
    <2>2. After(r, placed).at \notin {"empty", "counted"}
      BY <1>1, <2>1, AfterHand
    <2>3. [job[r] EXCEPT !.at = "commit", !.got = status].at = "commit"
      BY <1>1 DEF Jobs
    <2>4. \/ job' = [job EXCEPT ![r] = [job[r] EXCEPT !.at = "commit", !.got = status]]
          \/ job' = [job EXCEPT ![r] = After(r, placed)]
      BY <1>1, <2>1 DEF Lands
    <2> QED
      BY <1>1, <2>2, <2>3, <2>4
  <1>6. ~ Fit(r) /\ ~ ListToCancel(r)
    <2>1. [job[r] EXCEPT !.at = "place"].at = "place"
      BY <1>1 DEF Jobs
    <2>2. [Job("listed") EXCEPT !.todo = Having({"held"})].at = "listed"
      BY DEF Job
    <2> QED
      BY <1>1, <2>1, <2>2 DEF Fit, Goes, ListToCancel
  <1>7. ~ ListHeld(r) /\ ~ LookForLive(r) /\ ~ ResetHeld(r)
        /\ ~ \E trade \in Trades : CycleEmits(r, trade[1], trade[2])
    BY <1>1 DEF ListHeld, LookForLive, ResetHeld, CycleEmits
  <1>8. ~ CancelHeld(r) /\ ~ WipeSleeves(r) /\ ~ Commit(r)
    BY <1>1, JobTyped DEF CancelHeld, WipeSleeves, Commit, Steps
  <1>9. ASSUME LookForClosing(r) PROVE FALSE
    <2>1. [Job("closing") EXCEPT !.who = Sleeves, !.left = account].at = "closing"
      BY DEF Job
    <2> QED
      BY <1>1, <1>9, <2>1, JobTyped DEF LookForClosing, Steps
  <1>10. ASSUME NEW s \in Sleeves, CloseSleeve(r, s) PROVE FALSE
    <2> DEFINE left == job[r].left + Closing(book[s], job[r].left)
               j == [job[r] EXCEPT !.who = @ \ {s}, !.left = left]
    <2>1. left \in Int /\ job[r].who \ {s} \in SUBSET Sleeves
      BY <1>1 DEF Jobs, HandInv, TypeOK, Closing
    <2> HIDE DEF left
    <2>2. j \in Jobs /\ j.at = "closing" /\ [job[r] EXCEPT !.who = @ \ {s}].at = "closing"
      <3>1. job[r].at = "closing"
        BY <1>10 DEF CloseSleeve
      <3> QED
        BY <1>1, <2>1, <3>1 DEF Jobs
    <2>3. CASE ~ SameSide(book[s], job[r].left)
      BY <1>1, <1>10, <2>2, <2>3 DEF CloseSleeve
    <2>4. CASE SameSide(book[s], job[r].left)
      <3>1. Emit(r, j, s, Closing(book[s], job[r].left), TRUE)
        BY <1>10, <2>4 DEF CloseSleeve, left
      <3> HIDE DEF j
      <3> QED
        BY <1>1, <2>2, <3>1 DEF Emit, Jobs
    <2> QED
      BY <2>3, <2>4
  <1>11. ASSUME CloseRest(r) PROVE FALSE
    <2> DEFINE j == [job[r] EXCEPT !.left = 0]
    <2>1. j \in Jobs /\ j.at = "closing"
      <3>1. job[r].at = "closing"
        BY <1>11 DEF CloseRest
      <3> QED
        BY <1>1, <3>1 DEF Jobs
    <2> HIDE DEF j
    <2>2. CASE job[r].left # 0
      <3>1. Emit(r, j, None, -job[r].left, TRUE)
        BY <1>11, <2>2 DEF CloseRest, j
      <3> QED
        BY <1>1, <2>1, <3>1 DEF Emit, Jobs
    <2>3. CASE job[r].left = 0
      BY <1>1, <1>11, <2>3, JobTyped DEF CloseRest, Steps
    <2> QED
      BY <2>2, <2>3
  <1>12. ASSUME NEW s \in Sleeves, RemoveMember(r, s) PROVE FALSE
    <2> DEFINE j == [Job("done") EXCEPT !.got = "draft"]
    <2>1. j \in Jobs /\ j.at = "done"
      BY DEF Job, Jobs, Steps, Statuses
    <2> HIDE DEF j
    <2>2. CASE book[s] # 0
      <3>1. Emit(r, j, s, -book[s], TRUE)
        BY <1>12, <2>2 DEF RemoveMember, j
      <3> QED
        BY <1>1, <2>1, <3>1 DEF Emit, Jobs
    <2>3. CASE book[s] = 0
      BY <1>1, <1>12, <2>3, JobTyped DEF RemoveMember, Steps
    <2> QED
      BY <2>2, <2>3
  <1> QED
    BY <1>3, <1>4, <1>5, <1>6, <1>7, <1>8, <1>9, <1>10, <1>11, <1>12 DEF Process

\* A reset that stands still.
LEMMA StillCounts ==
  ASSUME Next, NEW r \in Requests, CountsOf(r), job'[r] = job[r]
  PROVE  CountsOf(r)'
  <1> SUFFICES ASSUME r \notin passed', job[r].at \in {"empty", "counted"}
               PROVE  CountsOf(r)'
    BY DEF CountsOf
  <1>1. r \in Procs /\ job[r].at \in Relying(r)
    BY Kinds DEF Procs, Relying
  <1>2. r \notin passed /\ UNCHANGED <<venue, account, book>>
    BY <1>1, Unpassed DEF Next
  <1> QED
    BY <1>2 DEF CountsOf

-----------------------------------------------------------------------------
(* The theorems.                                                           *)

LEMMA InitIInv ==
  ASSUME Init
  PROVE  IInv
  <1>1. \A p \in Procs : job[p] = Job("idle") /\ Hand(job[p]) = {}
    BY JobTyped DEF Init, Steps
  <1>2. TypeOK
    <2>1. account \in Int /\ book \in [Sleeves -> Int]
      BY Numbers DEF Init
    <2>2. row \in [Orders -> [status : Statuses, amount : Int,
                              sleeve : Sleeves \cup {None}, closes : BOOLEAN]]
      BY DEF Init, NoRow, Statuses
    <2>3. job \in [Procs -> Jobs]
      BY JobTyped DEF Init, Steps
    <2> QED
      BY <2>1, <2>2, <2>3 DEF Init, TypeOK
  <1>3. InOrder
    <2>1. Made = {}
      BY DEF Init, Made, NoRow
    <2>2. 0 \in 0..Last /\ 1..0 = {}
      BY ConstantsTyped
    <2> QED
      BY <2>1, <2>2 DEF InOrder
  <1>4. HeldIsHere /\ OneHand
    BY <1>1 DEF Init, HeldIsHere, OneHand
  <1>5. ASSUME NEW p \in Procs PROVE Own(p)
    <2>1. job[p].at = "idle" /\ job[p].todo = {} /\ job[p].order = None /\ job[p].got = "none"
      BY <1>1, JobTyped DEF Steps
    <2> QED
      BY <1>1, <2>1 DEF Own, ShapeOf, MadeOf, InHandOf, PrivateOf, CommitOf
  <1>6. HiddenExplained
    BY DEF Init, HiddenExplained, Hidden
  <1>7. (\A t \in Ticks : SeesOf(t)) /\ (\A r \in Requests : CountsOf(r))
    BY <1>1, JobTyped DEF SeesOf, CountsOf, Procs, Steps
  <1> QED
    BY <1>2, <1>3, <1>4, <1>5, <1>6, <1>7 DEF IInv, HandInv

LEMMA StepIInv ==
  ASSUME IInv, [Next]_vars
  PROVE  IInv'
  <1>1. HandInv' /\ HiddenExplained'
    BY StepKeepsHands DEF IInv
  <1>2. CASE Next
    <2>1. Watch /\ ((\E p \in Procs : Process(p)) \/ World)
      BY <1>2 DEF Next
    <2>2. ASSUME NEW p \in Procs, ~ Process(p) PROVE job'[p] = job[p]
      <3>1. ASSUME NEW q \in Procs, Process(q) PROVE job'[p] = job[p]
        BY <2>2, <3>1, OthersStand DEF IInv
      <3>2. ASSUME World PROVE job' = job
        BY <2>1, <3>2, Turning DEF IInv, Turns
      <3> QED
        BY <2>1, <3>1, <3>2
    <2>3. ASSUME NEW t \in Ticks PROVE SeesOf(t)'
      <3>1. t \in Procs /\ SeesOf(t) /\ HandInv
        BY DEF Procs, IInv
      <3>2. CASE Process(t)
        BY <1>1, <2>1, <3>1, <3>2, MovesSees
      <3>3. CASE ~ Process(t)
        BY <1>1, <1>2, <2>2, <3>1, <3>3, StillSees
      <3> QED
        BY <3>2, <3>3
    <2>4. ASSUME NEW r \in Requests PROVE CountsOf(r)'
      <3>1. r \in Procs /\ CountsOf(r) /\ HandInv
        BY DEF Procs, IInv
      <3>2. CASE Process(r)
        BY <2>1, <3>1, <3>2, MovesCounts
      <3>3. CASE ~ Process(r)
        BY <1>2, <2>2, <3>1, <3>3, StillCounts
      <3> QED
        BY <3>2, <3>3
    <2> QED
      BY <1>1, <2>3, <2>4 DEF IInv
  <1>3. CASE UNCHANGED vars
    BY <1>1, <1>3 DEF IInv, vars, state, rowVars, bookVars, SeesOf, CountsOf
  <1> QED
    BY <1>2, <1>3

LEMMA Invariant == Spec => []IInv
  <1>1. Init => IInv
    BY InitIInv
  <1>2. IInv /\ [Next]_vars => IInv'
    BY StepIInv
  <1> QED
    BY <1>1, <1>2, PTL DEF Spec

\* Type correctness: every step leaves every variable in its range.
THEOREM TypeCorrect == Spec => []TypeOK
  <1>1. IInv => TypeOK
    BY DEF IInv, HandInv
  <1> QED
    BY <1>1, Invariant, PTL

\* Every order at the venue is one that the poll and the release see as open, unless its
\* answer was lost, two processes had it in hand at once, or the transaction that sends
\* it has not committed (tasks_autopilot.py release, autopilot.py flatten_fund).
THEOREM LiveIsSeen == Spec => []HiddenExplained
  <1>1. IInv => HiddenExplained
    BY DEF IInv
  <1> QED
    BY <1>1, Invariant, PTL

\* A released order, fitted by venue_fit and alone on its ticker, is refused by the venue
\* only if the venue or the books changed after its tick had looked, or some order at the
\* venue is not one submitted here.
THEOREM RefusalsExplained == Spec => RefusalExplained
  <1>1. ASSUME IInv, [Next]_vars, NEW t \in Ticks, VenueRefuses(t) PROVE t \in passed
    <2> DEFINE o == job[t].order
    <2> SUFFICES ASSUME t \notin passed PROVE FALSE
      OBVIOUS
    <2>1. /\ t \in Procs /\ job[t].at = "place" /\ Clashes(o)
          /\ o \in Orders /\ SeesOf(t)
      BY <1>1 DEF VenueRefuses, Submits, Procs, IInv, HandInv, Own, ShapeOf
    <2>2. /\ \A u \in Orders : venue[u] \in {"none", "booked"}
          /\ SameSide(account, -row[o].amount) => Size(row[o].amount) <= Size(account)
      BY <2>1 DEF SeesOf
    <2>3. At("working") = {} /\ At("executed") = {}
      BY <2>2 DEF At
    <2>4. account \in Int /\ row[o].amount \in Int
      BY <1>1, <2>1 DEF IInv, HandInv, TypeOK
    <2>5. Total(At("executed")) = 0
      BY <2>3, TotalOfNone
    <2>6. {u \in At("working") : SameSide(row[u].amount, row[o].amount)} = {}
      BY <2>3
    <2>7. Total({u \in At("working") : SameSide(row[u].amount, row[o].amount)}) = 0
      BY <2>6, TotalOfNone
    <2>8. SameSide(account + 0, -row[o].amount) /\ Size(0 + row[o].amount) > Size(account + 0)
      BY <2>1, <2>3, <2>5, <2>7 DEF Clashes
    <2> QED
      BY <2>2, <2>4, <2>8 DEF Size
  <1>2. IInv /\ [Next]_vars => [\A t \in Ticks : VenueRefuses(t) => t \in passed]_vars
    BY <1>1
  <1> QED
    BY <1>2, Invariant, PTL DEF Spec, RefusalExplained

\* A reset wipes the sleeves only on a flat account with nothing at the venue, unless
\* something moved between its looks and the wipe or an order at the venue is not one
\* submitted here (sleeves.py reset_fund).
THEOREM ResetsExplained == Spec => ResetExplained
  <1>1. ASSUME IInv, [Next]_vars, NEW r \in Requests, WipeSleeves(r)
        PROVE  \/ r \in passed
               \/ account = 0 /\ \A o \in Orders : venue[o] \in {"none", "booked"}
    BY <1>1 DEF IInv, CountsOf, WipeSleeves
  <1>2. IInv /\ [Next]_vars =>
          [\A r \in Requests : WipeSleeves(r) =>
             \/ r \in passed
             \/ account = 0 /\ \A o \in Orders : venue[o] \in {"none", "booked"}]_vars
    BY <1>1
  <1> QED
    BY <1>2, Invariant, PTL DEF Spec, ResetExplained

-----------------------------------------------------------------------------
(* A flatten.                                                              *)

\* Of the orders that are held, on their way or at the venue, no two point in different
\* ways, and together they take the account to what a flatten has left to close.
Alive == {o \in Orders : \/ venue[o] \in {"working", "executed"}
                         \/ venue[o] = "none" /\ row[o].status \in {"held", "draft"}}

Against(left, os) ==
  \/ left >= 0 /\ \A o \in os : row[o].amount < 0
  \/ left <= 0 /\ \A o \in os : row[o].amount > 0

Closes(r) ==
  /\ account + Total(Alive) = job[r].left
  /\ Against(job[r].left, Alive)

\* Each order of a sleeve closes some of what the sleeve holds, and is its only one.
Sleeved(r) ==
  \A o \in Alive : row[o].sleeve # None =>
    /\ row[o].sleeve \notin job[r].who
    /\ SameSide(book[row[o].sleeve], -row[o].amount)
    /\ Size(row[o].amount) <= Size(book[row[o].sleeve])
    /\ \A u \in Alive : row[u].sleeve = row[o].sleeve => u = o

\* What ticks and the flatten have in hand is one of these orders, or in the books.
Handled(r) ==
  \A p \in Ticks \cup {r} : \A o \in Hand(job[p]) : o \in Alive \/ venue[o] = "booked"

Covers(r) ==
  /\ job[r].at \in {"closing", "fit", "place", "done"}
  /\ job[r].got = "none"
  /\ job[r].at = "done" => job[r].left = 0
  /\ Closes(r) /\ Sleeved(r) /\ Handled(r)

\* A flatten has yet to cancel what is held, or leaves closing to an order that waits.
Cleared(r) ==
  /\ job[r].at \in {"listed", "cancelled", "done"}
  /\ \A t \in Ticks : job[t].at = "idle"
  /\ \A o \in Orders : /\ venue[o] \in {"none", "booked"}
                       /\ row[o].status \notin {"draft", "unknown"}
                       /\ row[o].status = "held" => o \in job[r].todo
  /\ job[r].at = "done" => Having({"confirmed", "submitted"}) # {}

Alone(r) == \A q \in Cycles \cup Requests : q # r => job[q].at \in {"idle", "done"}

FlatInv == flat => \E r \in Requests : Alone(r) /\ (Cleared(r) \/ Covers(r))

\* The sleeves are within their cap, and the account within the first member's as long as
\* an order of no sleeve, which is held against that one, is on its way.
WithinCap ==
  /\ \A s \in Sleeves : Size(book[s]) <= Cap
  /\ \A o \in Alive : row[o].sleeve = None => Size(account) <= AccountCap

-----------------------------------------------------------------------------
(* Totals.                                                                 *)

\* There are finitely many orders.
LEMMA OrdersFinite ==
  ASSUME NEW os \in SUBSET Orders
  PROVE  IsFiniteSet(os)
  <1>1. IsFiniteSet(Orders)
    BY FS_Interval, ConstantsTyped DEF Orders
  <1> QED
    BY <1>1, FS_Subset

\* Amounts and totals are integers.
LEMMA TotalIsInt ==
  ASSUME TypeOK, NEW os \in SUBSET Orders
  PROVE  Total(os) \in Int /\ \A o \in os : row[o].amount \in Int
  <1>1. IsFiniteSet(os) /\ \A o \in os : row[o].amount \in Int
    BY OrdersFinite DEF TypeOK
  <1>2. SumOf(row, os) \in Int
    BY <1>1, SumType
  <1> QED
    BY <1>1, <1>2 DEF Total, SumOf

\* Disjoint sets of orders add up.
LEMMA TotalSplits ==
  ASSUME TypeOK, NEW os \in SUBSET Orders, NEW us \in SUBSET Orders, os \cap us = {}
  PROVE  Total(os \cup us) = Total(os) + Total(us)
  <1>1. IsFiniteSet(Orders) /\ \A o \in Orders : row[o].amount \in Int
    BY OrdersFinite DEF TypeOK
  <1>2. SumOf(row, os \cup us) = SumOf(row, os) + SumOf(row, us)
    BY <1>1, SumUnion
  <1> QED
    BY <1>2 DEF Total, SumOf

\* So does one more order.
LEMMA TotalAdds ==
  ASSUME TypeOK, NEW os \in SUBSET Orders, NEW o \in Orders \ os
  PROVE  Total(os \cup {o}) = Total(os) + row[o].amount
  <1>1. IsFiniteSet(Orders) /\ \A u \in Orders : row[u].amount \in Int
    BY OrdersFinite DEF TypeOK
  <1>2. SumOf(row, os \cup {o}) = SumOf(row, os) + row[o].amount
    BY <1>1, SumAdd
  <1> QED
    BY <1>2 DEF Total, SumOf

\* Orders of one side add up to that side, and to no less than any of them.
LEMMA TotalSided ==
  ASSUME TypeOK, NEW os \in SUBSET Orders
  PROVE  /\ (\A o \in os : row[o].amount <= 0) =>
              Total(os) <= 0 /\ \A o \in os : Total(os) <= row[o].amount
         /\ (\A o \in os : row[o].amount >= 0) =>
              Total(os) >= 0 /\ \A o \in os : Total(os) >= row[o].amount
  <1>1. ASSUME NEW us \in SUBSET Orders
        PROVE  /\ (\A o \in us : row[o].amount <= 0) => Total(us) <= 0
               /\ (\A o \in us : row[o].amount >= 0) => Total(us) >= 0
    <2>1. IsFiniteSet(us) /\ \A o \in us : row[o].amount \in Int
      BY OrdersFinite, TotalIsInt
    <2>2. /\ (\A o \in us : row[o].amount <= 0) => SumOf(row, us) <= 0
          /\ (\A o \in us : row[o].amount >= 0) => SumOf(row, us) >= 0
      BY <2>1, SumSign
    <2> QED
      BY <2>2 DEF Total, SumOf
  <1>2. ASSUME NEW o \in os
        PROVE  /\ os \ {o} \in SUBSET Orders
               /\ Total(os) = Total(os \ {o}) + row[o].amount
               /\ Total(os \ {o}) \in Int /\ row[o].amount \in Int
    <2> DEFINE us == os \ {o}
    <2>1. us \in SUBSET Orders /\ o \in Orders \ us /\ us \cup {o} = os
      OBVIOUS
    <2> HIDE DEF us
    <2>2. Total(us \cup {o}) = Total(us) + row[o].amount
      BY <2>1, TotalAdds
    <2>3. Total(us) \in Int
      BY <2>1, TotalIsInt
    <2>4. row[o].amount \in Int
      BY TotalIsInt
    <2> QED
      BY <2>1, <2>2, <2>3, <2>4 DEF us
  <1>3. ASSUME \A o \in os : row[o].amount <= 0, NEW o \in os
        PROVE  Total(os) <= row[o].amount
    <2>1. Total(os \ {o}) <= 0
      BY <1>1, <1>2, <1>3
    <2> QED
      BY <1>2, <2>1
  <1>4. ASSUME \A o \in os : row[o].amount >= 0, NEW o \in os
        PROVE  Total(os) >= row[o].amount
    <2>1. Total(os \ {o}) >= 0
      BY <1>1, <1>2, <1>4
    <2> QED
      BY <1>2, <2>1
  <1> QED
    BY <1>1, <1>3, <1>4

\* What is left to close, seen from one of the orders.
LEMMA Sides ==
  ASSUME TypeOK, NEW os \in SUBSET Orders, NEW left \in Int, Against(left, os), NEW o \in os
  PROVE  /\ row[o].amount \in Int /\ Total(os) \in Int
         /\ \/ /\ row[o].amount < 0 /\ left >= 0 /\ Total(os) <= row[o].amount
               /\ \A u \in os : row[u].amount < 0
            \/ /\ row[o].amount > 0 /\ left <= 0 /\ Total(os) >= row[o].amount
               /\ \A u \in os : row[u].amount > 0
  <1>1. Total(os) \in Int /\ \A u \in os : row[u].amount \in Int
    BY TotalIsInt
  <1>2. CASE left >= 0 /\ \A u \in os : row[u].amount < 0
    <2>1. \A u \in os : row[u].amount <= 0
      BY <1>1, <1>2
    <2> QED
      BY <1>1, <1>2, <2>1, TotalSided
  <1>3. CASE left <= 0 /\ \A u \in os : row[u].amount > 0
    <2>1. \A u \in os : row[u].amount >= 0
      BY <1>1, <1>3
    <2> QED
      BY <1>1, <1>3, <2>1, TotalSided
  <1> QED
    BY <1>2, <1>3 DEF Against

\* venue_fit leaves a live order as it is.
LEMMA FitsAsItIs ==
  ASSUME HandInv, NEW r \in Requests, Closes(r), NEW o \in Alive
  PROVE  Fitted(account, row[o].amount) = row[o].amount
  <1>1. Alive \in SUBSET Orders
    BY DEF Alive
  <1>2. TypeOK /\ account \in Int /\ job[r].left \in Int
    BY DEF HandInv, TypeOK, Procs, Jobs
  <1>3. Against(job[r].left, Alive) /\ account + Total(Alive) = job[r].left
    BY DEF Closes
  <1>4. /\ row[o].amount \in Int /\ Total(Alive) \in Int
        /\ \/ row[o].amount < 0 /\ job[r].left >= 0 /\ Total(Alive) <= row[o].amount
           \/ row[o].amount > 0 /\ job[r].left <= 0 /\ Total(Alive) >= row[o].amount
    BY <1>1, <1>2, <1>3, Sides
  <1> QED
    BY <1>2, <1>3, <1>4 DEF Fitted, SameSide, Size

\* The venue does not refuse it, ...
LEMMA NoClash ==
  ASSUME HandInv, NEW r \in Requests, Closes(r), NEW o \in Alive, venue[o] = "none"
  PROVE  ~ Clashes(o)
  <1> DEFINE W == At("working")
             X == At("executed")
             H == {u \in Alive : venue[u] = "none"}
             left == job[r].left
             mine == row[o].amount
  <1>1. /\ Alive \in SUBSET Orders /\ W \in SUBSET Orders /\ X \in SUBSET Orders
        /\ H \in SUBSET Orders /\ o \in H /\ W \cup H \in SUBSET Orders
        /\ W \cap H = {} /\ X \cap (W \cup H) = {}
        /\ W \subseteq Alive /\ H \subseteq Alive
    BY DEF Alive, At
  <1>2. Alive = X \cup (W \cup H)
    BY DEF Alive, At, HandInv, TypeOK
  <1>3. TypeOK /\ account \in Int /\ left \in Int
    BY DEF HandInv, TypeOK, Procs, Jobs
  <1>4. Against(left, Alive) /\ account + Total(Alive) = left
    BY DEF Closes
  <1>5. /\ mine \in Int
        /\ \/ mine < 0 /\ left >= 0 /\ \A u \in Alive : row[u].amount < 0
           \/ mine > 0 /\ left <= 0 /\ \A u \in Alive : row[u].amount > 0
    BY <1>1, <1>3, <1>4, Sides
  <1>6. Against(left, H) /\ Against(left, W) /\ \A u \in W : row[u].amount \in Int
    BY <1>1, <1>3, <1>4, TotalIsInt DEF Against
  <1> HIDE DEF W, X, H, left
  <1>7. Total(W) \in Int /\ Total(X) \in Int /\ Total(H) \in Int
    BY <1>1, <1>3, TotalIsInt
  <1>8. Total(Alive) = Total(X) + (Total(W) + Total(H))
    <2> DEFINE N == W \cup H
    <2>1. Total(N) = Total(W) + Total(H)
      BY <1>1, <1>3, TotalSplits
    <2>2. N \in SUBSET Orders /\ X \cap N = {}
      BY <1>1
    <2> HIDE DEF N
    <2>3. Total(X \cup N) = Total(X) + Total(N)
      BY <1>1, <1>3, <2>2, TotalSplits
    <2> QED
      BY <1>2, <2>1, <2>3 DEF N
  <1>9. \/ mine < 0 /\ Total(H) <= mine
        \/ mine > 0 /\ Total(H) >= mine
    BY <1>1, <1>3, <1>6, Sides
  <1>10. /\ \A u \in W : SameSide(row[u].amount, mine) /\ ~ SameSide(row[u].amount, -mine)
         /\ mine < 0 => Total(W) <= 0
         /\ mine > 0 => Total(W) >= 0
    <2>1. \A u \in W : \/ mine < 0 /\ row[u].amount < 0
                       \/ mine > 0 /\ row[u].amount > 0
      BY <1>1, <1>5
    <2>2. \A u \in W : SameSide(row[u].amount, mine) /\ ~ SameSide(row[u].amount, -mine)
      BY <1>5, <1>6, <2>1 DEF SameSide
    <2>3. /\ mine < 0 => \A u \in W : row[u].amount <= 0
          /\ mine > 0 => \A u \in W : row[u].amount >= 0
      BY <1>5, <1>6, <2>1
    <2> QED
      BY <1>1, <1>3, <2>2, <2>3, TotalSided
  <1>11. {u \in W : SameSide(row[u].amount, mine)} = W
    BY <1>10
  <1> HIDE DEF mine
  <1>12. ~ (SameSide(account + Total(X), -mine) /\ Size(Total(W) + mine) > Size(account + Total(X)))
    BY <1>3, <1>4, <1>5, <1>7, <1>8, <1>9, <1>10 DEF SameSide, Size
  <1> QED
    BY <1>10, <1>11, <1>12 DEF Clashes, W, X, mine

\* ... and neither does the gate: a closing order takes the sleeve, or all the closing
\* orders together the account, nearer to zero.
LEMMA GatePasses ==
  ASSUME HandInv, NEW r \in Requests, Closes(r), Sleeved(r), WithinCap,
         NEW p \in Procs, job[p].order \in Alive
  PROVE  Admitted(p)
  <1> DEFINE o == job[p].order
  <1>1. o \in Orders /\ row[o].sleeve \in Sleeves \cup {None} /\ row[o].amount \in Int
    BY DEF Alive, HandInv, TypeOK
  <1>2. Cap \in Int /\ AccountCap \in Int
    BY Numbers
  <1>3. ASSUME row[o].sleeve # None
        PROVE  Size(book[row[o].sleeve] + row[o].amount) <= Cap
    <2>1. /\ SameSide(book[row[o].sleeve], -row[o].amount)
          /\ Size(row[o].amount) <= Size(book[row[o].sleeve])
      BY <1>3 DEF Sleeved
    <2>2. book[row[o].sleeve] \in Int /\ Size(book[row[o].sleeve]) <= Cap
      BY <1>1, <1>3 DEF WithinCap, HandInv, TypeOK
    <2> HIDE DEF o
    <2> QED
      BY <1>1, <1>2, <2>1, <2>2 DEF SameSide, Size
  <1>4. ASSUME row[o].sleeve = None
        PROVE  Size(account + row[o].amount) <= AccountCap
    <2>1. Alive \in SUBSET Orders /\ o \in Alive
      BY DEF Alive
    <2>2. TypeOK /\ account \in Int /\ job[r].left \in Int
      BY DEF HandInv, TypeOK, Procs, Jobs
    <2>3. Against(job[r].left, Alive) /\ account + Total(Alive) = job[r].left
      BY DEF Closes
    <2> HIDE DEF o
    <2>4. /\ Total(Alive) \in Int
          /\ \/ row[o].amount < 0 /\ job[r].left >= 0 /\ Total(Alive) <= row[o].amount
             \/ row[o].amount > 0 /\ job[r].left <= 0 /\ Total(Alive) >= row[o].amount
      BY <2>1, <2>2, <2>3, Sides
    <2>5. Size(account) <= AccountCap
      BY <1>4, <2>1 DEF WithinCap
    <2> QED
      BY <1>1, <1>2, <2>2, <2>3, <2>4, <2>5 DEF Size
  <1> QED
    BY <1>3, <1>4 DEF Admitted

-----------------------------------------------------------------------------
(* The steps of ticks and of the flatten on live orders.                   *)

\* A step that leaves the live orders live, and the flatten with what it has left.
Passes(p, r) ==
  /\ Alive' = Alive /\ UNCHANGED <<account, book>>
  /\ \A o \in Alive : row'[o].amount = row[o].amount /\ row'[o].sleeve = row[o].sleeve
  /\ \A o \in Orders : venue[o] = "booked" => venue'[o] = "booked"
  /\ \A q \in Procs : q # p => job'[q] = job[q]
  /\ \A o \in Hand(job'[p]) : o \in Hand(job[p]) \/ o \in Alive
  /\ p = r =>
       /\ job'[r].left = job[r].left /\ job'[r].who \subseteq job[r].who
       /\ job'[r].got = "none" /\ job'[r].at \in {"closing", "fit", "place", "done"}
       /\ job'[r].at = "done" => job'[r].left = 0

\* Then it goes on covering the account.
LEMMA PassesKeeps ==
  ASSUME HandInv, TypeOK', NEW r \in Requests, NEW p \in Ticks \cup {r},
         Alone(r), Covers(r), Passes(p, r)
  PROVE  Alone(r)' /\ Covers(r)'
  <1>1. /\ r \in Procs /\ p \in Procs /\ r \notin Ticks
        /\ \A q \in Cycles \cup Requests : q # r => q \in Procs /\ q # p
        /\ Ticks \cup {r} \subseteq Procs
    BY Kinds DEF Procs
  <1>2. Alone(r)'
    BY <1>1 DEF Alone, Passes
  <1>3. /\ job'[r].left = job[r].left /\ job'[r].who \subseteq job[r].who
        /\ job'[r].got = "none" /\ job'[r].at \in {"closing", "fit", "place", "done"}
        /\ job'[r].at = "done" => job'[r].left = 0
    BY <1>1 DEF Passes, Covers
  <1>4. Total(Alive)' = Total(Alive)
    <2>1. IsFiniteSet(Alive) /\ \A o \in Alive : row[o].amount \in Int
      BY OrdersFinite DEF Alive, HandInv, TypeOK
    <2>2. \A o \in Alive : row'[o].amount = row[o].amount
      BY DEF Passes
    <2>3. SumOf(row', Alive) = SumOf(row, Alive)
      BY <2>1, <2>2, SumSame
    <2>4. SumOf(row', Alive') = SumOf(row, Alive)
      BY <2>3 DEF Passes
    <2>5. Total(Alive)' = SumOf(row', Alive') /\ Total(Alive) = SumOf(row, Alive)
      BY DEF Total, SumOf, MapThenSumSet, MapThenFoldSet
    <2> QED
      BY <2>4, <2>5
  <1>5. Closes(r)'
    BY <1>3, <1>4 DEF Covers, Closes, Against, Passes
  <1>6. Sleeved(r)'
    BY <1>3 DEF Covers, Sleeved, Passes
  <1>7. Handled(r)'
    <2> SUFFICES ASSUME NEW q \in Ticks \cup {r}, NEW o \in Hand(job'[q])
                 PROVE  o \in Alive' \/ venue'[o] = "booked"
      BY DEF Handled
    <2>1. \A u \in Hand(job[q]) : u \in Orders /\ (u \in Alive \/ venue[u] = "booked")
      BY <1>1, HandInOrders DEF Covers, Handled, HandInv, TypeOK
    <2>2. o \in Hand(job[q]) \/ o \in Alive
      BY <1>1 DEF Passes
    <2> QED
      BY <2>1, <2>2 DEF Passes
  <1> QED
    BY <1>2, <1>3, <1>5, <1>6, <1>7 DEF Covers

\* A tick and the flatten have nothing to commit.
LEMMA HandsOpen ==
  ASSUME HandInv, NEW r \in Requests, Covers(r), NEW p \in Ticks \cup {r}
  PROVE  /\ p \in Procs /\ job[p] \in Jobs /\ ShapeOf(p) /\ job[p].got = "none"
         /\ job[p].at # "commit"
         /\ \A o \in Hand(job[p]) : o \in Orders /\ (o \in Alive \/ venue[o] = "booked")
  <1>1. p \in Procs /\ (p \in Ticks => p \notin Requests)
    BY Kinds DEF Procs
  <1>2. job[p] \in Jobs /\ ShapeOf(p) /\ PrivateOf(p)
    BY <1>1 DEF HandInv, TypeOK, Own
  <1>3. job[p].got = "none" /\ job[p].at # "commit"
    BY <1>1, <1>2 DEF PrivateOf, ShapeOf, Covers
  <1> QED
    BY <1>1, <1>2, <1>3, HandInOrders DEF Covers, Handled

\* An order on its way is taken by the venue, or has been before.
LEMMA SendsPass ==
  ASSUME HandInv, NEW r \in Requests, Covers(r), WithinCap, NEW p \in Ticks \cup {r},
         \/ GateRefuses(p) \/ ClaimConflict(p)
         \/ VenueRefuses(p) \/ VenueAccepts(p) \/ AnswerIsLost(p)
  PROVE  Passes(p, r)
  <1> DEFINE o == job[p].order
  <1>1. /\ p \in Procs /\ job[p] \in Jobs /\ ShapeOf(p) /\ job[p].got = "none"
        /\ \A u \in Hand(job[p]) : u \in Orders /\ (u \in Alive \/ venue[u] = "booked")
    BY HandsOpen
  <1>2. job[p].at = "place"
    BY DEF GateRefuses, ClaimConflict, VenueRefuses, VenueAccepts, AnswerIsLost, Submits
  <1>3. o \in Orders /\ (o \in Alive \/ venue[o] = "booked")
    BY <1>1, <1>2, ConstantsTyped DEF ShapeOf, Hand
  <1>4. Closes(r) /\ Sleeved(r)
    BY DEF Covers
  <1>5. ~ VenueRefuses(p)
    <2> SUFFICES ASSUME VenueRefuses(p) PROVE FALSE
      OBVIOUS
    <2>1. o \in Alive /\ venue[o] = "none" /\ Clashes(o)
      BY <1>3 DEF VenueRefuses, Submits
    <2> HIDE DEF o
    <2> QED
      BY <1>4, <2>1, NoClash
  <1>6. GateRefuses(p) => venue[o] = "booked"
    BY <1>1, <1>3, <1>4, GatePasses DEF GateRefuses
  <1>7. PICK status \in Statuses, placed \in BOOLEAN : Lands(p, status, placed)
    BY <1>5 DEF GateRefuses, ClaimConflict, VenueAccepts, AnswerIsLost, Statuses
  <1>8. /\ row' = [row EXCEPT ![o].status = status]
        /\ job' = [job EXCEPT ![p] = After(p, placed)]
    BY <1>1, <1>7 DEF Lands, SetStatus
  <1>9. UNCHANGED <<account, book>>
    BY <1>5 DEF GateRefuses, ClaimConflict, VenueAccepts, AnswerIsLost, bookVars
  <1>10. /\ \A u \in Orders : u # o => venue'[u] = venue[u] /\ row'[u] = row[u]
         /\ row'[o].amount = row[o].amount /\ row'[o].sleeve = row[o].sleeve
    <2>1. venue' = venue \/ venue' = [venue EXCEPT ![o] = "working"]
      BY <1>5 DEF GateRefuses, ClaimConflict, VenueAccepts, AnswerIsLost
    <2> HIDE DEF o
    <2> QED
      BY <1>3, <1>8, <2>1 DEF HandInv, TypeOK
  <1>11. \/ venue[o] # "none" /\ venue'[o] = venue[o]
         \/ venue[o] = "none" /\ venue'[o] = "working"
    BY <1>3, <1>5, <1>6
       DEF GateRefuses, ClaimConflict, VenueAccepts, AnswerIsLost, Submits, HandInv, TypeOK
  <1>12. Alive' = Alive
    <2>1. o \in Alive' <=> o \in Alive
      BY <1>3, <1>11 DEF Alive, HandInv, TypeOK
    <2>2. \A u \in Orders : u # o => (u \in Alive' <=> u \in Alive)
      BY <1>10 DEF Alive
    <2>3. Alive \subseteq Orders /\ Alive' \subseteq Orders
      BY DEF Alive
    <2> QED
      BY <2>1, <2>2, <2>3
  <1>13. job'[p] = After(p, placed) /\ \A q \in Procs : q # p => job'[q] = job[q]
    BY <1>1, <1>8 DEF HandInv, TypeOK
  <1>14. \A u \in Hand(job'[p]) : u \in Hand(job[p])
    BY <1>1, <1>2, <1>13, AfterHand
  <1>15. p = r =>
           /\ job'[r].left = job[r].left /\ job'[r].who = job[r].who
           /\ job'[r].got = "none" /\ job'[r].at = "closing"
    <2> SUFFICES ASSUME p = r
                 PROVE  /\ job'[p].left = job[p].left /\ job'[p].who = job[p].who
                        /\ job'[p].got = "none" /\ job'[p].at = "closing"
      OBVIOUS
    <2>1. p \notin Ticks /\ p \notin Cycles
      BY Kinds
    <2>2. job'[p] = [job[p] EXCEPT !.at = "closing", !.order = None]
      BY <1>13, <2>1 DEF After
    <2> QED
      BY <1>1, <2>2 DEF Jobs
  <1>16. Alive \subseteq Orders
    BY DEF Alive
  <1> HIDE DEF o
  <1> QED
    BY <1>3, <1>9, <1>10, <1>11, <1>12, <1>13, <1>14, <1>15, <1>16 DEF Passes

\* Fitting and resetting it change nothing of it that matters.
LEMMA MarksPass ==
  ASSUME HandInv, NEW r \in Requests, Covers(r), NEW p \in Ticks \cup {r},
         Fit(p) \/ ResetHeld(p)
  PROVE  Passes(p, r)
  <1>1. /\ p \in Procs /\ job[p] \in Jobs /\ ShapeOf(p) /\ job[p].got = "none"
        /\ \A u \in Hand(job[p]) : u \in Orders /\ (u \in Alive \/ venue[u] = "booked")
    BY HandsOpen
  <1>2. UNCHANGED <<venue, account, book>>
    BY DEF Fit, ResetHeld, bookVars
  <1>3. Closes(r) /\ Alive \subseteq Orders /\ Alive' \subseteq Orders
    BY DEF Covers, Alive
  <1>4. CASE Fit(p)
    <2> DEFINE o == job[p].order
    <2>1. o \in Orders /\ (o \in Alive \/ venue[o] = "booked")
      BY <1>1, <1>4, ConstantsTyped DEF Fit, ShapeOf, Hand
    <2>2. /\ row' = [row EXCEPT ![o].amount = Fitted(account, @)]
          /\ job' = [job EXCEPT ![p].at = "place"]
      BY <1>4 DEF Fit, Goes
    <2>3. /\ \A u \in Orders : u # o => row'[u] = row[u]
          /\ row'[o].status = row[o].status /\ row'[o].sleeve = row[o].sleeve
          /\ row'[o].amount = Fitted(account, row[o].amount)
      BY <2>1, <2>2 DEF HandInv, TypeOK
    <2>4. Alive' = Alive
      BY <1>2, <1>3, <2>3 DEF Alive
    <2>5. o \in Alive => row'[o].amount = row[o].amount
      BY <1>3, <2>3, FitsAsItIs
    <2>6. /\ \A q \in Procs : q # p => job'[q] = job[q]
          /\ job'[p] = [job[p] EXCEPT !.at = "place"]
      BY <1>1, <2>2 DEF HandInv, TypeOK
    <2>7. /\ Hand(job'[p]) = Hand(job[p]) /\ job'[p].left = job[p].left
          /\ job'[p].who = job[p].who /\ job'[p].got = "none" /\ job'[p].at = "place"
      BY <1>1, <2>6 DEF Jobs, Hand
    <2> HIDE DEF o
    <2> QED
      BY <1>2, <1>3, <2>3, <2>4, <2>5, <2>6, <2>7 DEF Passes
  <1>5. CASE ResetHeld(p)
    <2> DEFINE o == First(job[p].todo)
    <2>1. p \in Ticks /\ job[p].at = "looked" /\ job[p].todo # {} /\ job[p].todo \subseteq Orders
      BY <1>1, <1>5 DEF ResetHeld, ShapeOf, Jobs
    <2>2. o \in job[p].todo /\ o \in Orders /\ (o \in Alive \/ venue[o] = "booked")
          /\ job[p].todo \subseteq Hand(job[p])
      BY <1>1, <2>1, FirstIsOne DEF Hand
    <2>3. /\ row' = [row EXCEPT ![o].status = "draft"]
          /\ job' = [job EXCEPT ![p].at = "fit", ![p].order = o]
      BY <1>5 DEF ResetHeld, SetStatus
    <2>4. /\ \A u \in Orders : u # o => row'[u] = row[u]
          /\ row'[o].status = "draft" /\ row'[o].sleeve = row[o].sleeve
          /\ row'[o].amount = row[o].amount
      BY <2>2, <2>3 DEF HandInv, TypeOK
    <2>5. Alive' = Alive
      BY <1>2, <1>3, <2>2, <2>4 DEF Alive
    <2>6. /\ \A q \in Procs : q # p => job'[q] = job[q]
          /\ \A u \in Hand(job'[p]) : u \in Hand(job[p])
      BY <1>1, <2>2, <2>3 DEF HandInv, TypeOK, Jobs, Hand
    <2>7. p # r
      BY <2>1, Kinds
    <2> HIDE DEF o
    <2> QED
      BY <1>2, <1>3, <2>4, <2>5, <2>6, <2>7 DEF Passes
  <1> QED
    BY <1>4, <1>5

\* Looking, listing and closing nothing.
LEMMA LooksPass ==
  ASSUME HandInv, NEW r \in Requests, Covers(r), NEW p \in Ticks \cup {r},
         \/ ListHeld(p) \/ LookForLive(p)
         \/ \E s \in Sleeves : CloseSleeve(p, s) /\ ~ SameSide(book[s], job[p].left)
         \/ CloseRest(p) /\ job[p].left = 0
  PROVE  Passes(p, r)
  <1>1. /\ p \in Procs /\ job[p] \in Jobs /\ ShapeOf(p) /\ job[p].got = "none"
    BY HandsOpen
  <1>2. UNCHANGED <<row, venue, account, book>>
    BY DEF ListHeld, LookForLive, CloseSleeve, CloseRest, rowVars, bookVars
  <1>3. Alive' = Alive
    BY <1>2 DEF Alive
  <1>4. p \in Ticks => p # r
    BY Kinds
  <1>5. ASSUME NEW j, job' = [job EXCEPT ![p] = j]
        PROVE  job'[p] = j /\ \A q \in Procs : q # p => job'[q] = job[q]
    BY <1>1, <1>5 DEF HandInv, TypeOK
  <1>6. CASE ListHeld(p)
    <2> DEFINE j == [Job("listed") EXCEPT !.todo = Having({"held"})]
    <2>1. p \in Ticks /\ job' = [job EXCEPT ![p] = j]
      BY <1>6 DEF ListHeld
    <2>2. Hand(j) = Having({"held"})
      BY DEF Job, Hand
    <2> HIDE DEF j
    <2>3. job'[p] = j /\ \A q \in Procs : q # p => job'[q] = job[q]
      BY <1>5, <2>1
    <2>4. Having({"held"}) \subseteq Alive
      BY DEF Having, Alive, HandInv, HeldIsHere
    <2> QED
      BY <1>2, <1>3, <1>4, <2>1, <2>2, <2>3, <2>4 DEF Passes
  <1>7. CASE LookForLive(p)
    <2>1. p \in Ticks /\ job[p].at = "listed"
      BY <1>7 DEF LookForLive
    <2>2. \/ job' = [job EXCEPT ![p] = Job("idle")]
          \/ job' = [job EXCEPT ![p] = [job[p] EXCEPT !.at = "looked"]]
      BY <1>1, <1>7 DEF LookForLive, Goes, HandInv, TypeOK
    <2>3. \/ job'[p] = Job("idle")
          \/ job'[p] = [job[p] EXCEPT !.at = "looked"]
      BY <1>5, <2>2
    <2>4. \A q \in Procs : q # p => job'[q] = job[q]
      BY <1>5, <2>2
    <2>5. Hand(Job("idle")) = {} /\ Hand([job[p] EXCEPT !.at = "looked"]) = Hand(job[p])
      BY <1>1 DEF Job, Hand, Jobs
    <2>6. \A o \in Hand(job'[p]) : o \in Hand(job[p])
      BY <2>3, <2>5
    <2> QED
      BY <1>2, <1>3, <1>4, <2>1, <2>4, <2>6 DEF Passes
  <1>8. ASSUME NEW s \in Sleeves, CloseSleeve(p, s), ~ SameSide(book[s], job[p].left)
        PROVE  Passes(p, r)
    <2> DEFINE j == [job[p] EXCEPT !.who = @ \ {s}]
    <2>1. job' = [job EXCEPT ![p] = j] /\ job[p].at = "closing"
      BY <1>1, <1>8 DEF CloseSleeve, HandInv, TypeOK
    <2>2. /\ Hand(j) = Hand(job[p]) /\ j.at = "closing" /\ j.left = job[p].left
          /\ j.who \subseteq job[p].who /\ j.got = "none"
      BY <1>1, <2>1 DEF Jobs, Hand
    <2> HIDE DEF j
    <2>3. job'[p] = j /\ \A q \in Procs : q # p => job'[q] = job[q]
      BY <1>5, <2>1
    <2> QED
      BY <1>2, <1>3, <2>2, <2>3 DEF Passes
  <1>9. CASE CloseRest(p) /\ job[p].left = 0
    <2>1. job' = [job EXCEPT ![p] = Job("done")]
      BY <1>9 DEF CloseRest
    <2>2. /\ Hand(Job("done")) = {} /\ Job("done").at = "done" /\ Job("done").left = 0
          /\ Job("done").who = {} /\ Job("done").got = "none"
      BY DEF Job, Hand
    <2>3. job'[p] = Job("done") /\ \A q \in Procs : q # p => job'[q] = job[q]
      BY <1>5, <2>1
    <2> QED
      BY <1>2, <1>3, <1>9, <2>2, <2>3 DEF Passes
  <1> QED
    BY <1>6, <1>7, <1>8, <1>9

\* A closing order takes its part of what is left.
LEMMA ClosingCovers ==
  ASSUME HandInv, HandInv', NEW r \in Requests, Covers(r), Alone(r),
         NEW j \in Jobs, NEW s \in Sleeves \cup {None}, NEW amount \in Int,
         Emit(r, j, s, amount, TRUE), UNCHANGED <<venue, account, book>>,
         j.left = job[r].left + amount, j.who \subseteq job[r].who,
         j.at = "closing", j.got = "none", j.order = None, j.todo = {},
         \/ job[r].left > 0 /\ amount < 0 /\ j.left >= 0
         \/ job[r].left < 0 /\ amount > 0 /\ j.left <= 0,
         s # None => /\ s \in job[r].who /\ s \notin j.who
                     /\ SameSide(book[s], -amount) /\ Size(amount) <= Size(book[s])
  PROVE  Alone(r)' /\ Covers(r)'
  <1> DEFINE left == job[r].left
  <1>1. /\ Fresh \in Orders /\ row[Fresh].status = "none" /\ venue[Fresh] = "none"
        /\ Fresh \notin Alive
    BY FreshIsNew DEF Emit, HandInv, HeldIsHere, Alive
  <1>2. /\ r \in Procs /\ r \notin Ticks /\ left \in Int /\ None \notin Sleeves
        /\ \A q \in Cycles \cup Requests : q \in Procs
        /\ \A t \in Ticks : t \in Procs /\ t # r
    BY Kinds DEF Procs, HandInv, TypeOK, Jobs
  <1> DEFINE x == [status |-> IF open THEN "draft" ELSE "held", amount |-> amount,
                   sleeve |-> s, closes |-> TRUE]
             k == IF open THEN [j EXCEPT !.at = "fit", !.order = Fresh]
                  ELSE [j EXCEPT !.got = "none"]
  <1>3. /\ x.status \in {"draft", "held"} /\ x.amount = amount /\ x.sleeve = s
        /\ k.at \in {"fit", "closing"} /\ k.left = j.left /\ k.who = j.who /\ k.got = "none"
        /\ Hand(k) \subseteq {Fresh}
    BY DEF Jobs, Hand
  <1>4. row' = [row EXCEPT ![Fresh] = x] /\ job' = [job EXCEPT ![r] = k]
    BY DEF Emit
  <1> HIDE DEF x, k
  <1>5. /\ row'[Fresh] = x /\ \A o \in Orders : o # Fresh => row'[o] = row[o]
        /\ job'[r] = k /\ \A q \in Procs : q # r => job'[q] = job[q]
    BY <1>1, <1>2, <1>4 DEF HandInv, TypeOK
  <1>6. /\ Alive' = Alive \cup {Fresh} /\ Alive \subseteq Orders
        /\ \A o \in Alive : o # Fresh /\ row'[o] = row[o]
    <2>1. Alive \subseteq Orders /\ Alive' \subseteq Orders /\ venue' = venue
      BY DEF Alive
    <2>2. Fresh \in Alive'
      BY <1>1, <1>3, <1>5, <2>1 DEF Alive
    <2>3. \A o \in Orders : o # Fresh => (o \in Alive' <=> o \in Alive)
      BY <1>5, <2>1 DEF Alive
    <2> QED
      BY <1>1, <1>5, <2>1, <2>2, <2>3
  <1>7. Total(Alive)' = Total(Alive) + amount
    <2>1. IsFiniteSet(Orders) /\ IsFiniteSet(Alive) /\ \A o \in Orders : row'[o].amount \in Int
      BY <1>6, OrdersFinite DEF HandInv, TypeOK
    <2>2. SumOf(row', Alive \cup {Fresh}) = SumOf(row', Alive) + row'[Fresh].amount
      BY <1>1, <1>6, <2>1, SumAdd
    <2>3. SumOf(row', Alive) = SumOf(row, Alive)
      <3>1. /\ \A o \in Alive : row[o].amount \in Int
            /\ \A o \in Alive : row'[o].amount = row[o].amount
        BY <1>6 DEF HandInv, TypeOK
      <3> QED
        BY <2>1, <3>1, SumSame
    <2>4. Total(Alive)' = SumOf(row', Alive') /\ Total(Alive) = SumOf(row, Alive)
      BY DEF Total, SumOf, MapThenSumSet, MapThenFoldSet
    <2>5. SumOf(row', Alive') = SumOf(row', Alive \cup {Fresh})
      BY <1>6
    <2> QED
      BY <1>3, <1>5, <2>2, <2>3, <2>4, <2>5
  <1>8. Total(Alive) \in Int /\ account \in Int /\ \A o \in Alive : row[o].amount \in Int
    BY <1>6, TotalIsInt DEF HandInv, TypeOK
  <1>9. account + Total(Alive) = left /\ Against(left, Alive)
    BY DEF Covers, Closes
  <1>10. Closes(r)'
    <2>1. account' + Total(Alive)' = job'[r].left
      BY <1>2, <1>3, <1>5, <1>7, <1>8, <1>9
    <2>2. \/ left > 0 /\ j.left >= 0 /\ \A o \in Alive' : row'[o].amount < 0
          \/ left < 0 /\ j.left <= 0 /\ \A o \in Alive' : row'[o].amount > 0
      BY <1>2, <1>3, <1>5, <1>6, <1>8, <1>9 DEF Against
    <2> QED
      BY <1>3, <1>5, <2>1, <2>2 DEF Closes, Against
  <1>11. Sleeved(r)'
    <2> SUFFICES ASSUME NEW o \in Alive', row'[o].sleeve # None
                 PROVE  /\ row'[o].sleeve \notin job'[r].who
                        /\ SameSide(book'[row'[o].sleeve], -row'[o].amount)
                        /\ Size(row'[o].amount) <= Size(book'[row'[o].sleeve])
                        /\ \A u \in Alive' : row'[u].sleeve = row'[o].sleeve => u = o
      BY DEF Sleeved
    <2>1. \A u \in Alive : row[u].sleeve # None =>
            /\ row[u].sleeve \notin job[r].who
            /\ SameSide(book[row[u].sleeve], -row[u].amount)
            /\ Size(row[u].amount) <= Size(book[row[u].sleeve])
            /\ \A v \in Alive : row[v].sleeve = row[u].sleeve => v = u
      BY DEF Covers, Sleeved
    <2>2. CASE o = Fresh
      <3>1. \A u \in Alive : row'[u].sleeve # s
        BY <1>3, <1>5, <1>6, <2>1, <2>2
      <3> QED
        BY <1>3, <1>5, <1>6, <2>2, <3>1
    <2>3. CASE o # Fresh
      <3>1. o \in Alive /\ row'[o] = row[o]
        BY <1>6, <2>3
      <3>2. row'[Fresh].sleeve # row'[o].sleeve
        BY <1>3, <1>5, <2>1, <3>1
      <3> QED
        BY <1>3, <1>5, <1>6, <2>1, <3>1, <3>2
    <2> QED
      BY <2>2, <2>3
  <1>12. Handled(r)'
    <2> SUFFICES ASSUME NEW p \in Ticks \cup {r}, NEW o \in Hand(job'[p])
                 PROVE  o \in Alive' \/ venue'[o] = "booked"
      BY DEF Handled
    <2>1. CASE p = r
      BY <1>3, <1>5, <1>6, <2>1
    <2>2. CASE p # r
      <3>1. job'[p] = job[p]
        BY <1>2, <1>5, <2>2
      <3> QED
        BY <1>6, <3>1 DEF Covers, Handled
    <2> QED
      BY <2>1, <2>2
  <1>13. Alone(r)'
    BY <1>2, <1>5 DEF Alone
  <1> QED
    BY <1>3, <1>5, <1>10, <1>11, <1>12, <1>13 DEF Covers

\* The flatten closes sleeve after sleeve, and the rest.
LEMMA EmitsCover ==
  ASSUME HandInv, HandInv', NEW r \in Requests, Covers(r), Alone(r),
         \/ \E s \in Sleeves : CloseSleeve(r, s) /\ SameSide(book[s], job[r].left)
         \/ CloseRest(r) /\ job[r].left # 0
  PROVE  Alone(r)' /\ Covers(r)'
  <1>1. /\ r \in Procs /\ job[r] \in Jobs /\ ShapeOf(r) /\ job[r].got = "none" /\ r \notin Ticks
    BY HandsOpen, Kinds
  <1>2. job[r].left \in Int /\ job[r].who \subseteq Sleeves /\ None \notin Sleeves
    BY <1>1, Kinds DEF Jobs
  <1>3. ASSUME NEW s \in Sleeves, CloseSleeve(r, s), SameSide(book[s], job[r].left)
        PROVE  Alone(r)' /\ Covers(r)'
    <2> DEFINE left == job[r].left
               amount == Closing(book[s], left)
               j == [job[r] EXCEPT !.who = @ \ {s}, !.left = @ + amount]
    <2>1. book[s] \in Int
      BY DEF HandInv, TypeOK
    <2>2. /\ amount \in Int
          /\ \/ left > 0 /\ amount < 0 /\ left + amount >= 0
             \/ left < 0 /\ amount > 0 /\ left + amount <= 0
          /\ SameSide(book[s], -amount) /\ Size(amount) <= Size(book[s])
      BY <1>2, <1>3, <2>1 DEF Closing, SameSide, Size
    <2>3. /\ job[r].at = "closing" /\ s \in job[r].who
          /\ Emit(r, j, s, amount, TRUE) /\ UNCHANGED <<venue, account, book>>
      BY <1>3 DEF CloseSleeve, bookVars
    <2> HIDE DEF amount
    <2>4. /\ j \in Jobs /\ j.left = left + amount /\ j.who = job[r].who \ {s}
          /\ j.at = "closing" /\ j.got = "none" /\ j.order = None /\ j.todo = {}
      <3>1. job[r].order = None /\ job[r].todo = {} /\ left + amount \in Int
        BY <1>1, <1>2, <2>2, <2>3 DEF ShapeOf
      <3> QED
        BY <1>1, <2>3, <3>1 DEF Jobs
    <2> HIDE DEF j
    <2>5. /\ s \notin j.who /\ j.who \subseteq job[r].who
          /\ \/ job[r].left > 0 /\ amount < 0 /\ j.left >= 0
             \/ job[r].left < 0 /\ amount > 0 /\ j.left <= 0
      BY <2>2, <2>4
    <2> QED
      BY <2>2, <2>3, <2>4, <2>5, ClosingCovers
  <1>4. ASSUME CloseRest(r), job[r].left # 0
        PROVE  Alone(r)' /\ Covers(r)'
    <2> DEFINE j == [job[r] EXCEPT !.left = 0]
               amount == -job[r].left
    <2>1. /\ job[r].at = "closing"
          /\ Emit(r, j, None, amount, TRUE) /\ UNCHANGED <<venue, account, book>>
      BY <1>4 DEF CloseRest, bookVars
    <2>2. /\ j \in Jobs /\ j.left = 0 /\ j.who = job[r].who
          /\ j.at = "closing" /\ j.got = "none" /\ j.order = None /\ j.todo = {}
      BY <1>1, <2>1 DEF Jobs, ShapeOf
    <2>3. /\ amount \in Int /\ j.left = job[r].left + amount
          /\ \/ job[r].left > 0 /\ amount < 0 /\ j.left >= 0
             \/ job[r].left < 0 /\ amount > 0 /\ j.left <= 0
      BY <1>2, <1>4, <2>2
    <2> HIDE DEF j, amount
    <2> QED
      BY <2>1, <2>2, <2>3, ClosingCovers
  <1> QED
    BY <1>3, <1>4

\* An execution that is booked takes its order out of both sides.
LEMMA BookCovers ==
  ASSUME HandInv, HandInv', NEW r \in Requests, Covers(r), Alone(r), NEW o \in Orders, Book(o)
  PROVE  Alone(r)' /\ Covers(r)'
  <1>1. /\ venue[o] = "executed" /\ job' = job
        /\ venue' = [venue EXCEPT ![o] = "booked"] /\ row' = [row EXCEPT ![o].status = "filled"]
        /\ account' = account + row[o].amount
        /\ book' = [s \in Sleeves |-> IF s = row[o].sleeve THEN book[s] + row[o].amount ELSE book[s]]
    BY DEF Book, SetStatus
  <1>2. /\ venue'[o] = "booked" /\ \A u \in Orders : u # o => venue'[u] = venue[u] /\ row'[u] = row[u]
        /\ row'[o].amount = row[o].amount /\ row'[o].sleeve = row[o].sleeve
    BY <1>1 DEF HandInv, TypeOK
  <1>3. o \in Alive /\ Alive \subseteq Orders
    BY <1>1 DEF Alive
  <1>4. Alive' = Alive \ {o}
    <2>1. \A u \in Orders : u # o => (u \in Alive' <=> u \in Alive)
      BY <1>2 DEF Alive
    <2>2. o \notin Alive' /\ Alive' \subseteq Orders
      BY <1>2 DEF Alive
    <2> QED
      BY <1>3, <2>1, <2>2
  <1>5. /\ TypeOK /\ account \in Int /\ row[o].amount \in Int /\ book \in [Sleeves -> Int]
        /\ None \notin Sleeves /\ \A u \in Alive : row[u].sleeve \in Sleeves \cup {None}
    BY <1>3, Kinds DEF HandInv, TypeOK
  <1>6. Total(Alive) = Total(Alive)' + row[o].amount /\ Total(Alive)' \in Int
    <2> DEFINE us == Alive \ {o}
    <2>1. us \in SUBSET Orders /\ o \in Orders \ us /\ us \cup {o} = Alive
      BY <1>3
    <2>2. \A u \in us : row'[u].amount = row[u].amount
      BY <1>2, <1>3
    <2> HIDE DEF us
    <2>3. Total(us \cup {o}) = Total(us) + row[o].amount /\ Total(us) \in Int
      BY <1>5, <2>1, TotalAdds, TotalIsInt
    <2>4. SumOf(row', us) = SumOf(row, us)
      <3>1. IsFiniteSet(us) /\ \A u \in us : row[u].amount \in Int
        BY <1>5, <2>1, OrdersFinite, TotalIsInt
      <3> QED
        BY <2>2, <3>1, SumSame
    <2>5. Total(Alive)' = SumOf(row', Alive') /\ Total(us) = SumOf(row, us)
      BY DEF Total, SumOf, MapThenSumSet, MapThenFoldSet
    <2>6. SumOf(row', Alive') = SumOf(row', us)
      BY <1>4 DEF us
    <2>7. Total(us \cup {o}) = Total(Alive)
      BY <2>1
    <2> QED
      BY <2>3, <2>4, <2>5, <2>6, <2>7
  <1>7. Closes(r)'
    <2>1. account + Total(Alive) = job[r].left /\ Against(job[r].left, Alive)
      BY DEF Covers, Closes
    <2>2. account' + Total(Alive)' = job'[r].left
      BY <1>1, <1>5, <1>6, <2>1
    <2>3. Against(job[r].left, Alive)'
      BY <1>1, <1>2, <1>3, <1>4, <2>1 DEF Against
    <2> QED
      BY <2>2, <2>3 DEF Closes
  <1>8. Sleeved(r)'
    <2> SUFFICES ASSUME NEW u \in Alive', row'[u].sleeve # None
                 PROVE  /\ row'[u].sleeve \notin job'[r].who
                        /\ SameSide(book'[row'[u].sleeve], -row'[u].amount)
                        /\ Size(row'[u].amount) <= Size(book'[row'[u].sleeve])
                        /\ \A v \in Alive' : row'[v].sleeve = row'[u].sleeve => v = u
      BY DEF Sleeved
    <2>1. /\ u \in Alive /\ u # o /\ row'[u] = row[u]
          /\ \A v \in Alive' : v \in Alive /\ row'[v] = row[v]
      BY <1>2, <1>3, <1>4
    <2>2. /\ row[u].sleeve \notin job[r].who
          /\ SameSide(book[row[u].sleeve], -row[u].amount)
          /\ Size(row[u].amount) <= Size(book[row[u].sleeve])
          /\ \A v \in Alive : row[v].sleeve = row[u].sleeve => v = u
      BY <2>1 DEF Covers, Sleeved
    <2>3. row[u].sleeve \in Sleeves /\ row[o].sleeve # row[u].sleeve
      BY <1>3, <1>5, <2>1, <2>2
    <2>4. book'[row[u].sleeve] = book[row[u].sleeve]
      BY <1>1, <2>3
    <2> QED
      BY <1>1, <2>1, <2>2, <2>4
  <1>9. Handled(r)'
    <2> SUFFICES ASSUME NEW p \in Ticks \cup {r}, NEW u \in Hand(job'[p])
                 PROVE  u \in Alive' \/ venue'[u] = "booked"
      BY DEF Handled
    <2>1. u \in Orders /\ (u \in Alive \/ venue[u] = "booked")
      BY <1>1, HandsOpen
    <2> QED
      BY <1>2, <1>4, <2>1
  <1>10. Alone(r)'
    BY <1>1 DEF Alone
  <1> QED
    BY <1>1, <1>7, <1>8, <1>9, <1>10 DEF Covers

\* Market, venue and poll.
LEMMA WorldCovers ==
  ASSUME HandInv, HandInv', NEW r \in Requests, Covers(r), Alone(r), World
  PROVE  Alone(r)' /\ Covers(r)'
  <1>1. r \in Procs /\ r \in Ticks \cup {r} /\ TypeOK'
    BY DEF Procs, HandInv
  <1>2. ASSUME Alive' = Alive, UNCHANGED <<account, book, job>>,
               \A o \in Orders : row'[o].amount = row[o].amount /\ row'[o].sleeve = row[o].sleeve,
               \A o \in Orders : venue[o] = "booked" => venue'[o] = "booked"
        PROVE  Alone(r)' /\ Covers(r)'
    <2>1. Alive \subseteq Orders
      BY DEF Alive
    <2>2. Passes(r, r)
      BY <1>2, <2>1 DEF Passes, Covers
    <2> QED
      BY <1>1, <2>2, PassesKeeps
  <1>3. CASE MarketOpens
    <2>1. UNCHANGED <<row, venue, account, book, job>>
      BY <1>3 DEF MarketOpens, rowVars, bookVars
    <2>2. Alive' = Alive
      BY <2>1 DEF Alive
    <2> QED
      BY <1>2, <2>1, <2>2
  <1>4. ASSUME NEW o \in Orders, Executes(o) PROVE Alone(r)' /\ Covers(r)'
    <2>1. /\ venue[o] = "working" /\ venue' = [venue EXCEPT ![o] = "executed"]
          /\ UNCHANGED <<row, account, book, job>>
      BY <1>4 DEF Executes, bookVars
    <2>2. venue'[o] = "executed" /\ \A u \in Orders : u # o => venue'[u] = venue[u]
      BY <2>1 DEF HandInv, TypeOK
    <2>3. Alive' = Alive
      <3>1. Alive' \subseteq Orders /\ Alive \subseteq Orders
        BY DEF Alive
      <3>2. \A u \in Orders : u \in Alive' <=> u \in Alive
        BY <2>1, <2>2 DEF Alive
      <3> QED
        BY <3>1, <3>2
    <2> QED
      BY <1>2, <2>1, <2>2, <2>3
  <1>5. ASSUME NEW o \in Orders, Adopt(o) PROVE Alone(r)' /\ Covers(r)'
    <2>1. /\ row[o].status = "unknown" /\ row' = [row EXCEPT ![o].status = "submitted"]
          /\ UNCHANGED <<venue, account, book, job>>
      BY <1>5 DEF Adopt, SetStatus, bookVars
    <2>2. /\ row'[o].status = "submitted" /\ \A u \in Orders : u # o => row'[u] = row[u]
          /\ row'[o].amount = row[o].amount /\ row'[o].sleeve = row[o].sleeve
      BY <2>1 DEF HandInv, TypeOK
    <2>3. Alive' = Alive
      <3>1. Alive' \subseteq Orders /\ Alive \subseteq Orders
        BY DEF Alive
      <3>2. \A u \in Orders : u \in Alive' <=> u \in Alive
        BY <2>1, <2>2 DEF Alive
      <3> QED
        BY <3>1, <3>2
    <2> QED
      BY <1>2, <2>1, <2>2, <2>3
  <1> QED
    BY <1>3, <1>4, <1>5, BookCovers DEF World

\* What the flatten may do once it closes.
LEMMA FlattenSteps ==
  ASSUME HandInv, NEW r \in Requests, Covers(r), Process(r)
  PROVE  \/ Fit(r) \/ GateRefuses(r) \/ ClaimConflict(r)
         \/ VenueRefuses(r) \/ VenueAccepts(r) \/ AnswerIsLost(r)
         \/ (\E s \in Sleeves : CloseSleeve(r, s)) \/ CloseRest(r)
  <1>1. r \notin Ticks /\ r \notin Cycles /\ job[r].at \in {"closing", "fit", "place", "done"}
    BY Kinds DEF Covers
  <1> QED
    BY <1>1 DEF Process, ListHeld, LookForLive, ResetHeld, CycleEmits, ListToCancel, CancelHeld,
                LookForClosing, RemoveMember, Commit, FindEmpty, FindSettled, WipeSleeves, Begins

\* Ticks, the flatten, market, venue and poll.
LEMMA CoversKept ==
  ASSUME HandInv, HandInv', NEW r \in Requests, Covers(r), Alone(r), WithinCap,
         (\E p \in Ticks \cup {r} : Process(p)) \/ World
  PROVE  Alone(r)' /\ Covers(r)'
  <1>1. TypeOK'
    BY DEF HandInv
  <1>2. ASSUME NEW p \in Ticks \cup {r}, Passes(p, r) PROVE Alone(r)' /\ Covers(r)'
    BY <1>1, <1>2, PassesKeeps
  <1>3. ASSUME NEW t \in Ticks, Process(t) PROVE Alone(r)' /\ Covers(r)'
    <2>1. t \in Ticks \cup {r}
      OBVIOUS
    <2>2. Passes(t, r)
      BY <1>3, <2>1, TickSteps, SendsPass, MarksPass, LooksPass
    <2> QED
      BY <1>2, <2>1, <2>2
  <1>4. ASSUME Process(r) PROVE Alone(r)' /\ Covers(r)'
    <2>1. r \in Ticks \cup {r}
      OBVIOUS
    <2>2. CASE \/ Fit(r) \/ GateRefuses(r) \/ ClaimConflict(r)
               \/ VenueRefuses(r) \/ VenueAccepts(r) \/ AnswerIsLost(r)
      <3>1. Passes(r, r)
        BY <2>1, <2>2, SendsPass, MarksPass
      <3> QED
        BY <1>2, <2>1, <3>1
    <2>3. ASSUME NEW s \in Sleeves, CloseSleeve(r, s) PROVE Alone(r)' /\ Covers(r)'
      <3>1. CASE SameSide(book[s], job[r].left)
        BY <2>3, <3>1, EmitsCover
      <3>2. CASE ~ SameSide(book[s], job[r].left)
        <4>1. Passes(r, r)
          BY <2>1, <2>3, <3>2, LooksPass
        <4> QED
          BY <1>2, <2>1, <4>1
      <3> QED
        BY <3>1, <3>2
    <2>4. CASE CloseRest(r)
      <3>1. CASE job[r].left # 0
        BY <2>4, <3>1, EmitsCover
      <3>2. CASE job[r].left = 0
        <4>1. Passes(r, r)
          BY <2>1, <2>4, <3>2, LooksPass
        <4> QED
          BY <1>2, <2>1, <4>1
      <3> QED
        BY <3>1, <3>2
    <2> QED
      BY <1>4, <2>2, <2>3, <2>4, FlattenSteps
  <1> QED
    BY <1>3, <1>4, WorldCovers

-----------------------------------------------------------------------------
(* A flatten from its start.                                               *)

\* A cycle or request that has not begun, or is done, does nothing but begin.
LEMMA BegunOnly ==
  ASSUME HandInv, NEW q \in Cycles \cup Requests, job[q].at \in {"idle", "done"}, Process(q)
  PROVE  job[q].at = "idle" /\ job'[q].at # "idle"
         /\ (job'[q].at = "listed" => ListToCancel(q))
  <1>1. q \in Procs /\ q \notin Ticks /\ job \in [Procs -> Jobs]
    BY Kinds DEF Procs, HandInv, TypeOK
  <1>2. \/ \E trade \in Trades : CycleEmits(q, trade[1], trade[2])
        \/ ListToCancel(q) \/ (\E s \in Sleeves : RemoveMember(q, s)) \/ FindEmpty(q)
    BY <1>1 DEF Process, Fit, GateRefuses, ClaimConflict, VenueRefuses, VenueAccepts,
                AnswerIsLost, Submits, ListHeld, LookForLive, ResetHeld, CancelHeld,
                LookForClosing, CloseSleeve, CloseRest, Commit, FindSettled, WipeSleeves
  <1>3. job[q].at = "idle"
    BY <1>2 DEF CycleEmits, ListToCancel, RemoveMember, FindEmpty, Begins
  <1>4. ASSUME NEW j, j.at = "done", NEW s, NEW amount, NEW closes, Emit(q, j, s, amount, closes),
               j \in Jobs
        PROVE  job'[q].at \in {"fit", "done"}
    BY <1>1, <1>4 DEF Emit, Jobs
  <1>5. CASE \E trade \in Trades : CycleEmits(q, trade[1], trade[2])
    <2>1. job'[q].at \in {"fit", "done"}
      BY <1>4, <1>5, JobTyped DEF CycleEmits, Steps
    <2> QED
      BY <1>3, <2>1
  <1>6. CASE ListToCancel(q)
    <2>1. job'[q] = [Job("listed") EXCEPT !.todo = Having({"held"})]
      BY <1>1, <1>6 DEF ListToCancel
    <2>2. job'[q].at = "listed"
      BY <2>1 DEF Job
    <2> QED
      BY <1>3, <1>6, <2>2
  <1>7. ASSUME NEW s \in Sleeves, RemoveMember(q, s)
        PROVE  job'[q].at \in {"fit", "done"}
    <2> DEFINE j == [Job("done") EXCEPT !.got = "draft"]
    <2>1. j \in Jobs /\ j.at = "done"
      BY DEF Job, Jobs, Steps, Statuses
    <2>2. Emit(q, j, s, -book[s], TRUE) \/ job' = [job EXCEPT ![q] = Job("done")]
      BY <1>7 DEF RemoveMember
    <2> HIDE DEF j
    <2> QED
      BY <1>1, <1>4, <2>1, <2>2, JobTyped DEF Steps
  <1>8. CASE FindEmpty(q)
    <2>1. job'[q].at = "empty"
      BY <1>1, <1>8 DEF FindEmpty, Goes, Jobs
    <2> QED
      BY <1>3, <2>1
  <1> QED
    BY <1>2, <1>3, <1>5, <1>6, <1>7, <1>8

\* While nothing moves, the ticks have nothing to release.
LEMMA TicksRest ==
  ASSUME HandInv, NEW r \in Requests, Cleared(r), NEW t \in Ticks, Process(t)
  PROVE  job[r].at = "listed" /\ job'[t].at = "listed"
  <1>1. t \in Procs /\ r \in Procs /\ r \notin Ticks /\ job \in [Procs -> Jobs] /\ ShapeOf(r)
    BY Kinds DEF Procs, HandInv, TypeOK, Own
  <1>2. job[t].at = "idle"
    BY DEF Cleared
  <1>3. ListHeld(t)
    BY <1>2, TickSteps DEF LookForLive, ResetHeld, Fit, GateRefuses, ClaimConflict,
                           VenueRefuses, VenueAccepts, AnswerIsLost, Submits
  <1>4. Having({"held"}) # {} /\ job'[t] = [Job("listed") EXCEPT !.todo = Having({"held"})]
    BY <1>1, <1>3 DEF ListHeld
  <1>5. job'[t].at = "listed"
    BY <1>4 DEF Job
  <1>6. job[r].todo # {}
    BY <1>4 DEF Having, Cleared
  <1> QED
    BY <1>1, <1>5, <1>6 DEF ShapeOf

\* With no order alive, a flatten that has the whole account left covers it.
LEMMA NothingAlive ==
  ASSUME HandInv', NEW r \in Requests, Alive' = {}, \A t \in Ticks : job'[t].at = "idle",
         job'[r].at \in {"closing", "done"}, job'[r].left = account',
         job'[r].at = "done" => account' = 0
  PROVE  Covers(r)'
  <1>1. /\ r \in Procs /\ Ticks \subseteq Procs
        /\ \A p \in Procs : job'[p] \in Jobs /\ ShapeOf(p)' /\ PrivateOf(p)'
    BY DEF Procs, HandInv, TypeOK, Own
  <1>2. job'[r].got = "none" /\ account' \in Int
    BY <1>1 DEF PrivateOf, HandInv, TypeOK
  <1>3. \A p \in Ticks \cup {r} : Hand(job'[p]) = {}
    BY <1>1, Kinds DEF ShapeOf, Hand
  <1>4. Total(Alive)' = 0
    <2>1. SumOf(row', Alive') = 0
      BY SumNone
    <2>2. Total(Alive)' = SumOf(row', Alive')
      BY DEF Total, SumOf, MapThenSumSet, MapThenFoldSet
    <2> QED
      BY <2>1, <2>2
  <1> QED
    BY <1>2, <1>3, <1>4 DEF Covers, Closes, Against, Sleeved, Handled

\* The flatten cancels what is held, and then leaves the account to an order that
\* waits, or begins to close.
LEMMA ClearedMoves ==
  ASSUME HandInv, HandInv', NEW r \in Requests, Cleared(r), Process(r)
  PROVE  Cleared(r)' \/ Covers(r)'
  <1>1. /\ r \in Procs /\ r \notin Ticks /\ r \notin Cycles /\ r \in Cycles \cup Requests
        /\ job \in [Procs -> Jobs] /\ ShapeOf(r) /\ Ticks \subseteq Procs
        /\ \A t \in Ticks : t # r
    BY Kinds DEF Procs, HandInv, TypeOK, Own
  <1>2. /\ job[r].at \in {"listed", "cancelled", "done"}
        /\ \A t \in Ticks : job[t].at = "idle"
        /\ \A o \in Orders : /\ venue[o] \in {"none", "booked"}
                             /\ row[o].status \notin {"draft", "unknown"}
                             /\ row[o].status = "held" => o \in job[r].todo
    BY DEF Cleared
  <1>3. job[r].at # "done"
    BY <1>1, BegunOnly
  <1>4. CancelHeld(r) \/ LookForClosing(r)
    BY <1>1, <1>2, <1>3
       DEF Process, Fit, GateRefuses, ClaimConflict, VenueRefuses, VenueAccepts, AnswerIsLost,
           Submits, ListHeld, LookForLive, ResetHeld, CycleEmits, ListToCancel, CloseSleeve,
           CloseRest, RemoveMember, Commit, FindEmpty, FindSettled, WipeSleeves, Begins
  <1>5. \A t \in Ticks : job'[t].at = "idle"
    BY <1>1, <1>2, OthersStand
  <1>6. CASE CancelHeld(r)
    <2>1. /\ venue' = venue /\ job' = [job EXCEPT ![r] = Job("cancelled")]
          /\ row' = [o \in Orders |-> IF o \in job[r].todo THEN [row[o] EXCEPT !.status = "cancelled"]
                                      ELSE row[o]]
      BY <1>6 DEF CancelHeld
    <2>2. job'[r].at = "cancelled"
      BY <1>1, <2>1, JobTyped DEF Steps
    <2>3. ASSUME NEW o \in Orders PROVE row'[o].status \notin {"draft", "unknown", "held"}
      <3>1. CASE o \in job[r].todo
        <4>1. row'[o].status = "cancelled"
          BY <2>1, <3>1 DEF HandInv, TypeOK
        <4> QED
          BY <4>1
      <3>2. CASE o \notin job[r].todo
        BY <1>2, <2>1, <3>2
      <3> QED
        BY <3>1, <3>2
    <2>4. Cleared(r)'
      BY <1>2, <1>5, <2>1, <2>2, <2>3 DEF Cleared
    <2> QED
      BY <2>4
  <1>7. CASE LookForClosing(r)
    <2> DEFINE busy == \E o \in Having(Inflight) : row[o].closes
               k == [Job("closing") EXCEPT !.who = Sleeves, !.left = account]
    <2>1. /\ UNCHANGED <<row, venue, account, book>> /\ job[r].at = "cancelled"
          /\ job' = [job EXCEPT ![r] = IF account = 0 \/ busy THEN Job("done") ELSE k]
      BY <1>7 DEF LookForClosing, rowVars, bookVars
    <2>2. \A o \in Orders : row[o].status # "held"
      BY <1>1, <1>2, <2>1 DEF ShapeOf
    <2>3. Alive' = {}
      BY <1>2, <2>1, <2>2 DEF Alive
    <2>4. /\ Job("done").at = "done" /\ Job("done").left = 0
          /\ k.at = "closing" /\ k.left = account
      BY DEF Job
    <2> HIDE DEF busy, k
    <2>5. job'[r] = IF account = 0 \/ busy THEN Job("done") ELSE k
      BY <1>1, <2>1
    <2>6. CASE account # 0 /\ busy
      <3>1. job'[r].at = "done"
        BY <2>4, <2>5, <2>6
      <3>2. Having({"confirmed", "submitted"})' # {}
        <4>1. PICK o \in Orders : row[o].status \in Inflight
          BY <2>6 DEF busy, Having
        <4>2. row'[o].status \in {"confirmed", "submitted"}
          BY <2>1, <2>2, <4>1 DEF Inflight
        <4> QED
          BY <4>2 DEF Having
      <3>3. Cleared(r)'
        BY <1>2, <1>5, <2>1, <2>2, <3>1, <3>2 DEF Cleared
      <3> QED
        BY <3>3
    <2>7. CASE account = 0 \/ ~ busy
      <3>1. /\ job'[r].at \in {"closing", "done"} /\ job'[r].left = account'
            /\ job'[r].at = "done" => account' = 0
        BY <2>1, <2>4, <2>5, <2>7
      <3>2. Covers(r)'
        BY <1>5, <2>3, <3>1, NothingAlive
      <3> QED
        BY <3>2
    <2> QED
      BY <2>6, <2>7
  <1> QED
    BY <1>4, <1>6, <1>7

\* So a cleared fund stays cleared, or the flatten covers it.
LEMMA ClearedKept ==
  ASSUME HandInv, HandInv', NEW r \in Requests, Cleared(r), Alone(r),
         \A t \in Ticks : job[r].at = "listed" => job'[t].at # "listed",
         (\E p \in Ticks \cup {r} : Process(p)) \/ World
  PROVE  Alone(r)' /\ (Cleared(r)' \/ Covers(r)')
  <1>1. r \in Procs /\ \A q \in Cycles \cup Requests : q \in Procs
    BY DEF Procs
  <1>2. ASSUME Process(r) PROVE Alone(r)' /\ (Cleared(r)' \/ Covers(r)')
    <2>1. Alone(r)'
      BY <1>1, <1>2, OthersStand DEF Alone
    <2> QED
      BY <1>2, <2>1, ClearedMoves
  <1>3. ASSUME NEW t \in Ticks, Process(t) PROVE FALSE
    BY <1>3, TicksRest
  <1>4. CASE World
    <2>1. MarketOpens
      BY <1>4 DEF World, Executes, Adopt, Book, Cleared
    <2>2. UNCHANGED <<row, venue, job>>
      BY <2>1 DEF MarketOpens, rowVars
    <2> QED
      BY <2>2 DEF Alone, Cleared, Having
  <1> QED
    BY <1>2, <1>3, <1>4

\* A flatten begins on a quiet fund.
LEMMA FlattenBegins ==
  ASSUME HandInv, HandInv', Next, NEW r \in Requests,
         job[r].at = "idle", job'[r].at = "listed", Quiet(r)
  PROVE  Alone(r)' /\ Cleared(r)'
  <1>1. /\ r \in Procs /\ r \in Cycles \cup Requests /\ r \notin Ticks
        /\ job \in [Procs -> Jobs]
        /\ \A q \in Cycles \cup Requests : q \in Procs
        /\ \A t \in Ticks : t \in Procs /\ t # r /\ ShapeOf(t)
    BY Kinds DEF Procs, HandInv, TypeOK, Own
  <1>2. Process(r)
    <2>1. ~ World
      BY Turning DEF Turns, Next
    <2>2. PICK p \in Procs : Process(p)
      BY <2>1 DEF Next
    <2> QED
      BY <1>1, <2>2, OthersStand
  <1>3. ListToCancel(r)
    BY <1>1, <1>2, BegunOnly
  <1>4. /\ UNCHANGED <<row, venue>>
        /\ job' = [job EXCEPT ![r] = [Job("listed") EXCEPT !.todo = Having({"held"})]]
    BY <1>3 DEF ListToCancel, rowVars
  <1>5. job'[r].todo = Having({"held"}) /\ \A q \in Procs : q # r => job'[q] = job[q]
    BY <1>1, <1>4 DEF Job
  <1>6. Alone(r)'
    BY <1>1, <1>5 DEF Alone, Quiet
  <1>7. \A t \in Ticks : job'[t].at = "idle"
    BY <1>1, <1>5 DEF Quiet, ShapeOf
  <1>8. Cleared(r)'
    BY <1>4, <1>5, <1>7 DEF Cleared, Quiet, Having
  <1> QED
    BY <1>6, <1>8

\* Nobody else moves without the flatten losing its claim.
LEMMA MoversKnown ==
  ASSUME HandInv, Next, NEW r \in Requests, Alone(r),
         \A p \in Cycles \cup Requests : job[p].at = "idle" => job'[p].at = "idle"
  PROVE  (\E p \in Ticks \cup {r} : Process(p)) \/ World
  <1> SUFFICES ASSUME NEW p \in Procs, Process(p), p \notin Ticks \cup {r} PROVE FALSE
    BY DEF Next
  <1>1. p \in Cycles \cup Requests /\ job[p].at \in {"idle", "done"}
    BY DEF Alone, Procs
  <1> QED
    BY <1>1, BegunOnly

\* Every step keeps it.
LEMMA StepFlat ==
  ASSUME HandInv, HandInv', FlatInv, flat => WithinCap, [Next]_vars
  PROVE  FlatInv'
  <1> SUFFICES ASSUME flat'
               PROVE  \E r \in Requests : (Alone(r) /\ (Cleared(r) \/ Covers(r)))'
    BY DEF FlatInv
  <1>1. CASE Next
    <2>1. CASE \E r \in Requests : job[r].at = "idle" /\ job'[r].at = "listed" /\ Quiet(r)
      <3>1. PICK r \in Requests : job[r].at = "idle" /\ job'[r].at = "listed" /\ Quiet(r)
        BY <2>1
      <3> QED
        BY <1>1, <3>1, FlattenBegins
    <2>2. CASE ~ \E r \in Requests : job[r].at = "idle" /\ job'[r].at = "listed" /\ Quiet(r)
      <3>1. /\ flat
            /\ \A p \in Cycles \cup Requests : job[p].at = "idle" => job'[p].at = "idle"
            /\ \A t \in Ticks, r \in Requests : job[r].at = "listed" => job'[t].at # "listed"
        BY <1>1, <2>2 DEF Next, Watch
      <3>2. PICK r \in Requests : Alone(r) /\ (Cleared(r) \/ Covers(r))
        BY <3>1 DEF FlatInv
      <3>3. (\E p \in Ticks \cup {r} : Process(p)) \/ World
        BY <1>1, <3>1, <3>2, MoversKnown
      <3>4. CASE Cleared(r)
        <4>1. \A t \in Ticks : job[r].at = "listed" => job'[t].at # "listed"
          BY <3>1
        <4>2. Alone(r)' /\ (Cleared(r)' \/ Covers(r)')
          BY <3>2, <3>3, <3>4, <4>1, ClearedKept
        <4> QED
          BY <4>2
      <3>5. CASE Covers(r)
        <4>1. Alone(r)' /\ Covers(r)'
          BY <3>1, <3>2, <3>3, <3>5, CoversKept
        <4> QED
          BY <4>1
      <3> QED
        BY <3>2, <3>4, <3>5
    <2> QED
      BY <2>1, <2>2
  <1>2. CASE UNCHANGED vars
    <2>1. UNCHANGED <<row, venue, account, book, job, flat>>
      BY <1>2 DEF vars, state, rowVars, bookVars
    <2>2. PICK r \in Requests : Alone(r) /\ (Cleared(r) \/ Covers(r))
      BY <2>1 DEF FlatInv
    <2>3. Alive' = Alive
      BY <2>1 DEF Alive
    <2>4. Alone(r)' /\ (Cleared(r) => Cleared(r)')
      BY <2>1, <2>2 DEF Alone, Cleared, Having
    <2>5. ASSUME Covers(r) PROVE Covers(r)'
      <3>1. r \in Procs /\ r \in Ticks \cup {r} /\ TypeOK' /\ Alive \subseteq Orders
        BY DEF Procs, HandInv, Alive
      <3>2. Passes(r, r)
        BY <2>1, <2>3, <2>5 DEF Passes, Covers
      <3> QED
        BY <2>2, <2>5, <3>1, <3>2, PassesKeeps
    <2> QED
      BY <2>2, <2>4, <2>5
  <1> QED
    BY <1>1, <1>2

\* With nothing alive, what a flatten covers is all there is.
LEMMA FlatWhenSettled ==
  ASSUME HandInv, FlatInv
  PROVE  FlattenedIsFlat
  <1> SUFFICES ASSUME flat, Settled PROVE account = 0
    BY DEF FlattenedIsFlat
  <1>1. PICK r \in Requests : Cleared(r) \/ Covers(r)
    BY DEF FlatInv
  <1>2. r \in Procs /\ job[r].at \in {"idle", "done"} /\ account \in Int
    BY DEF Procs, Settled, HandInv, TypeOK
  <1>3. ~ Cleared(r)
    BY <1>2 DEF Cleared, Having, Settled
  <1>4. job[r].left = 0 /\ account + Total(Alive) = 0
    BY <1>1, <1>2, <1>3 DEF Covers, Closes
  <1>5. Alive = {}
    BY DEF Alive, Settled
  <1>6. Total(Alive) = 0
    BY <1>5, TotalOfNone
  <1> QED
    BY <1>2, <1>4, <1>6

\* After a flatten that begins on a quiet fund, and that no cycle, request or tick's listing
\* crosses, the account is flat once everything has settled, provided that each sleeve stays
\* within its cap, and the account within the first member's while an order of no sleeve is
\* on its way: the closing orders are neither cut by the fit nor refused by gate or venue,
\* whatever is released, executed, lost and booked in between (sleeves.py flatten_fund).
THEOREM FlatSettles == Spec /\ [](flat => WithinCap) => []FlattenedIsFlat
  <1>1. Init => FlatInv
    BY DEF Init, FlatInv
  <1>2. IInv /\ IInv' /\ FlatInv /\ (flat => WithinCap) /\ [Next]_vars => FlatInv'
    BY StepFlat DEF IInv
  <1>3. IInv /\ FlatInv => FlattenedIsFlat
    BY FlatWhenSettled DEF IInv
  <1> QED
    BY <1>1, <1>2, <1>3, Invariant, PTL DEF Spec
=============================================================================
