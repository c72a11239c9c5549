---------------------------- MODULE ChargeProofs ----------------------------
(***************************************************************************)
(* What a call is charged and what a report makes of a trace of charges,   *)
(* for every input that meets the assumptions of Calculations: the bill of *)
(* a call of any number of requests (LlmPricing), and the cost report of   *)
(* any trace (CostReport).                                                 *)
(***************************************************************************)
EXTENDS CostReport, WellFoundedInduction, NaturalsInduction, FiniteSetTheorems,
        SequenceTheorems, TLAPS

-----------------------------------------------------------------------------
(* A set of positions has a first and a last. *)
LEMMA FirstPosition ==
  ASSUME NEW S \in SUBSET Nat, S # {}
  PROVE  Min(S) \in S /\ \A i \in S : Min(S) <= i
<1>1. PICK m \in S : \A i \in S : <<i, m>> \notin OpToRel(<, Nat)
  BY NatLessThanWellFounded, WFMin
<1>2. ASSUME NEW i \in S PROVE m <= i
  <2>1. i \in Nat /\ m \in Nat
    OBVIOUS
  <2>2. i < m => <<i, m>> \in OpToRel(<, Nat)
    BY <2>1 DEF OpToRel
  <2>3. ~(i < m)
    BY <1>1, <2>2, Zenon
  <2> QED BY <2>1, <2>3
<1> QED BY <1>2 DEF Min

LEMMA LastPosition ==
  ASSUME NEW n \in Nat, NEW S \in SUBSET (1 .. n), S # {}
  PROVE  Max(S) \in S /\ \A i \in S : i <= Max(S)
<1> DEFINE back == {n - i : i \in S}
<1>1. back \in SUBSET Nat /\ back # {}
  <2>1. ASSUME NEW b \in back PROVE b \in Nat
    <3>1. PICK i \in S : b = n - i
      OBVIOUS
    <3> HIDE DEF back
    <3> QED BY <3>1
  <2>2. back # {}
    <3>1. PICK i \in S : TRUE
      OBVIOUS
    <3> QED BY <3>1
  <2> QED BY <2>1, <2>2
<1>2. Min(back) \in back /\ \A b \in back : Min(back) <= b
  BY <1>1, FirstPosition
<1>3. PICK m \in S : Min(back) = n - m
  BY <1>2
<1>4. \A i \in S : i <= m
  <2>1. ASSUME NEW i \in S PROVE i <= m
    <3>1. i \in Int /\ m \in Int /\ n - i \in back
      OBVIOUS
    <3>2. n - m <= n - i
      BY <1>2, <1>3, <3>1
    <3> HIDE DEF back
    <3> QED BY <3>1, <3>2
  <2> QED BY <2>1
<1> QED BY <1>4 DEF Max

-----------------------------------------------------------------------------
(* Sums. *)

LEMMA Least ==
  ASSUME NEW S \in SUBSET Nat, S # {}
  PROVE  \E m \in S : \A i \in S : m <= i
BY FirstPosition

(* Induction on the subsets of a finite set, for a set of them in place of a predicate. *)
LEMMA ByOneMore ==
  ASSUME NEW S, IsFiniteSet(S), NEW P, {} \in P,
         \A T \in SUBSET S : \A x \in S \ T : T \in P => T \cup {x} \in P
  PROVE  S \in P
<1> SUFFICES ASSUME S \notin P PROVE FALSE
  OBVIOUS
<1> DEFINE bad == {Cardinality(T) : T \in {U \in SUBSET S : U \notin P}}
<1>1. bad \in SUBSET Nat /\ bad # {}
  BY FS_Subset, FS_CardinalityType
<1>2. PICK T \in SUBSET S : T \notin P /\ \A U \in SUBSET S : U \notin P => Cardinality(T) <= Cardinality(U)
  <2>1. PICK m \in bad : \A i \in bad : m <= i
    <3> HIDE DEF bad
    <3> QED BY <1>1, Least
  <2> QED BY <2>1
<1>3. PICK x : x \in T
  BY <1>2
<1>4. Cardinality(T \ {x}) = Cardinality(T) - 1 /\ Cardinality(T) \in Nat
  BY <1>3, FS_Subset, FS_RemoveElement, FS_CardinalityType
<1>5. T \ {x} \in P
  BY <1>2, <1>4
<1>6. (T \ {x}) \cup {x} = T
  BY <1>3
<1> QED BY <1>2, <1>3, <1>5, <1>6

-----------------------------------------------------------------------------
(* Sums of functions on finite sets. *)

One(s) == CHOOSE x \in s : TRUE

LEMMA OneOf == ASSUME NEW s, s # {} PROVE One(s) \in s
BY DEF One

(* The partial sums over the sets of D. *)
Sums(sums, f, D) ==
    sums = [s \in D |-> IF s = {} THEN 0 ELSE f[One(s)] + sums[s \ {One(s)}]]

AtMost(S, n) == {s \in SUBSET S : Cardinality(s) <= n}

LEMMA SumsExist ==
  ASSUME NEW S, IsFiniteSet(S), NEW f
  PROVE  \E sums : Sums(sums, f, SUBSET S)
<1> DEFINE bad == {n \in Nat : ~\E sums : Sums(sums, f, AtMost(S, n))}
<1>1. bad = {}
  <2> SUFFICES ASSUME bad # {} PROVE FALSE
    OBVIOUS
  <2>1. PICK n \in bad : \A i \in bad : n <= i
    BY Least
  <2>2. n # 0
    <3>1. \A s \in AtMost(S, 0) : s = {}
      BY FS_Subset, FS_EmptySet, FS_CardinalityType DEF AtMost
    <3>2. Sums([s \in AtMost(S, 0) |-> 0], f, AtMost(S, 0))
      BY <3>1 DEF Sums
    <3> QED BY <3>2, <2>1
  <2>3. n - 1 \in Nat /\ n - 1 \notin bad
    BY <2>1, <2>2
  <2>4. PICK sums : Sums(sums, f, AtMost(S, n - 1))
    BY <2>3
  <2> DEFINE more == [s \in AtMost(S, n) |->
                        IF s = {} THEN 0 ELSE f[One(s)] + sums[s \ {One(s)}]]
  <2>5. ASSUME NEW s \in AtMost(S, n), s # {}
        PROVE  s \ {One(s)} \in AtMost(S, n - 1) /\ s \ {One(s)} \in AtMost(S, n)
    BY <2>5, <2>1, OneOf, FS_Subset, FS_RemoveElement, FS_CardinalityType DEF AtMost
  <2>6. ASSUME NEW s \in AtMost(S, n - 1), s \in AtMost(S, n)
        PROVE  more[s] = sums[s]
    <3>1. sums[s] = IF s = {} THEN 0 ELSE f[One(s)] + sums[s \ {One(s)}]
      BY <2>4 DEF Sums
    <3> QED BY <3>1, <2>6
  <2>7. more = [s \in AtMost(S, n) |-> IF s = {} THEN 0 ELSE f[One(s)] + more[s \ {One(s)}]]
    <3>1. ASSUME NEW s \in AtMost(S, n)
          PROVE  (IF s = {} THEN 0 ELSE f[One(s)] + sums[s \ {One(s)}])
                 = IF s = {} THEN 0 ELSE f[One(s)] + more[s \ {One(s)}]
      <4> HIDE DEF more
      <4> QED BY <2>5, <2>6
    <3> QED BY <3>1
  <2> HIDE DEF more
  <2>8. Sums(more, f, AtMost(S, n))
    BY <2>7 DEF Sums
  <2> QED BY <2>1, <2>8
<1>2. Cardinality(S) \in Nat
  BY FS_CardinalityType
<1>3. AtMost(S, Cardinality(S)) = SUBSET S
  BY FS_Subset DEF AtMost
<1>4. \E sums : Sums(sums, f, AtMost(S, Cardinality(S)))
  BY <1>1, <1>2
<1> QED BY <1>3, <1>4

(* Of the same numbers the same sums. *)
LEMMA SumsAgree ==
  ASSUME NEW S, NEW T, IsFiniteSet(S), IsFiniteSet(T), NEW f, NEW g, NEW a, NEW b,
         Sums(a, f, SUBSET S), Sums(b, g, SUBSET T),
         NEW U \in SUBSET (S \cap T), \A x \in U : f[x] = g[x]
  PROVE  a[U] = b[U]
<1> DEFINE good == {V \in SUBSET U : a[V] = b[V]}
           bad == {Cardinality(V) : V \in {W \in SUBSET U : W \notin good}}
<1>1. IsFiniteSet(U)
  BY FS_Subset
<1> SUFFICES ASSUME bad # {} PROVE FALSE
  OBVIOUS
<1>2. bad \in SUBSET Nat
  BY <1>1, FS_Subset, FS_CardinalityType
<1>3. PICK V \in SUBSET U : V \notin good /\ \A W \in SUBSET U : W \notin good => Cardinality(V) <= Cardinality(W)
  <2>1. PICK m \in bad : \A i \in bad : m <= i
    <3> HIDE DEF bad
    <3> QED BY <1>2, Least
  <2> QED BY <2>1
<1>4. V # {} => One(V) \in V
  BY OneOf
<1>5. /\ a[V] = IF V = {} THEN 0 ELSE f[One(V)] + a[V \ {One(V)}]
      /\ b[V] = IF V = {} THEN 0 ELSE g[One(V)] + b[V \ {One(V)}]
  <2>1. V \in SUBSET S /\ V \in SUBSET T
    OBVIOUS
  <2> QED BY <2>1 DEF Sums
<1>6. ASSUME V # {} PROVE V \ {One(V)} \in good
  <2>1. Cardinality(V \ {One(V)}) = Cardinality(V) - 1 /\ Cardinality(V) \in Nat
    BY <1>1, <1>4, <1>6, FS_Subset, FS_RemoveElement, FS_CardinalityType
  <2> QED BY <1>3, <2>1
<1> QED BY <1>3, <1>4, <1>5, <1>6

(* What SumFunction is: the last of its partial sums. *)
LEMMA SumIs ==
  ASSUME NEW f, IsFiniteSet(DOMAIN f)
  PROVE  \E sums : Sums(sums, f, SUBSET (DOMAIN f)) /\ SumFunction(f) = sums[DOMAIN f]
<1> DEFINE iter == CHOOSE iter : iter = [s \in SUBSET (DOMAIN f) |->
                     IF s = {} THEN 0 ELSE f[CHOOSE x \in s : TRUE] + iter[s \ {CHOOSE x \in s : TRUE}]]
<1>1. SumFunction(f) = iter[DOMAIN f]
  BY DEF SumFunction, SumFunctionOnSet, FoldFunctionOnSet, MapThenFoldSet
<1>2. PICK sums : Sums(sums, f, SUBSET (DOMAIN f))
  BY SumsExist
<1>3. iter = [s \in SUBSET (DOMAIN f) |->
                     IF s = {} THEN 0 ELSE f[CHOOSE x \in s : TRUE] + iter[s \ {CHOOSE x \in s : TRUE}]]
  BY <1>2 DEF Sums, One
<1> HIDE DEF iter
<1>4. Sums(iter, f, SUBSET (DOMAIN f))
  BY <1>3 DEF Sums, One
<1> QED BY <1>1, <1>4

LEMMA SumOfNone == ASSUME NEW f, DOMAIN f = {} PROVE SumFunction(f) = 0
<1>1. IsFiniteSet(DOMAIN f)
  BY FS_EmptySet
<1>2. PICK sums : Sums(sums, f, SUBSET (DOMAIN f)) /\ SumFunction(f) = sums[DOMAIN f]
  BY <1>1, SumIs
<1> QED BY <1>2 DEF Sums

(* f without x. *)
Without(f, x) == Restrict(f, DOMAIN f \ {x})

LEMMA WithoutIs ==
  ASSUME NEW f, NEW x, IsFiniteSet(DOMAIN f)
  PROVE  /\ DOMAIN Without(f, x) = DOMAIN f \ {x}
         /\ IsFiniteSet(DOMAIN Without(f, x))
         /\ \A y \in DOMAIN f \ {x} : Without(f, x)[y] = f[y]
BY FS_RemoveElement DEF Without, Restrict

LEMMA SumOfTheFirst ==
  ASSUME NEW f, IsFiniteSet(DOMAIN f), DOMAIN f # {}
  PROVE  SumFunction(f) = f[One(DOMAIN f)] + SumFunction(Without(f, One(DOMAIN f)))
<1> DEFINE x == One(DOMAIN f)
           g == Without(f, x)
           S == DOMAIN f
<1>1. PICK a : Sums(a, f, SUBSET S) /\ SumFunction(f) = a[S]
  BY SumIs
<1>2. PICK b : Sums(b, g, SUBSET (DOMAIN g)) /\ SumFunction(g) = b[DOMAIN g]
  BY SumIs, WithoutIs
<1>3. DOMAIN g = S \ {x} /\ x \in S
  BY WithoutIs, OneOf
<1>4. a[DOMAIN g] = b[DOMAIN g]
  <2>1. \A y \in DOMAIN g : f[y] = g[y]
    BY <1>3, WithoutIs
  <2>2. IsFiniteSet(S) /\ IsFiniteSet(DOMAIN g) /\ DOMAIN g \in SUBSET (S \cap DOMAIN g)
    BY <1>3, WithoutIs
  <2>3. Sums(a, f, SUBSET S) /\ Sums(b, g, SUBSET (DOMAIN g))
    BY <1>1, <1>2
  <2> HIDE DEF g, x, S
  <2> QED BY <2>1, <2>2, <2>3, SumsAgree
<1>5. a[S] = f[x] + a[S \ {x}]
  BY <1>1 DEF Sums
<1> QED BY <1>1, <1>2, <1>3, <1>4, <1>5

IsSummable(f) == IsFiniteSet(DOMAIN f) /\ f \in [DOMAIN f -> Int]

LEMMA SumWithout ==
  ASSUME NEW f, IsSummable(f), NEW x \in DOMAIN f
  PROVE  /\ SumFunction(f) \in Int
         /\ IsSummable(Without(f, x))
         /\ SumFunction(f) = f[x] + SumFunction(Without(f, x))
<1> DEFINE Part(T) == [y \in T |-> f[y]]
           fine(T) == /\ SumFunction(Part(T)) \in Int
                      /\ \A y \in T : SumFunction(Part(T)) = f[y] + SumFunction(Part(T \ {y}))
           bad == {Cardinality(T) : T \in {U \in SUBSET (DOMAIN f) : ~fine(U)}}
<1>1. \A T \in SUBSET (DOMAIN f) : /\ IsFiniteSet(T) /\ Cardinality(T) \in Nat
                                   /\ \A y \in T : Cardinality(T \ {y}) = Cardinality(T) - 1
  BY FS_Subset, FS_RemoveElement, FS_CardinalityType DEF IsSummable
<1>2. ASSUME NEW T \in SUBSET (DOMAIN f), NEW y PROVE Without(Part(T), y) = Part(T \ {y})
  BY DEF Without, Restrict
<1>3. ASSUME NEW T \in SUBSET (DOMAIN f), T # {}
      PROVE  SumFunction(Part(T)) = f[One(T)] + SumFunction(Part(T \ {One(T)}))
  <2>1. DOMAIN Part(T) = T
    OBVIOUS
  <2>2. SumFunction(Part(T)) = Part(T)[One(T)] + SumFunction(Without(Part(T), One(T)))
    BY <1>1, <1>3, <2>1, SumOfTheFirst
  <2>3. Part(T)[One(T)] = f[One(T)]
    BY <1>3, OneOf
  <2>4. Without(Part(T), One(T)) = Part(T \ {One(T)})
    BY <1>2
  <2> HIDE DEF Part
  <2> QED BY <2>2, <2>3, <2>4
<1>4. bad = {}
  <2> SUFFICES ASSUME bad # {} PROVE FALSE
    OBVIOUS
  <2>1. bad \in SUBSET Nat
    BY <1>1
  <2>2. PICK T \in SUBSET (DOMAIN f) : ~fine(T) /\ \A U \in SUBSET (DOMAIN f) : ~fine(U) => Cardinality(T) <= Cardinality(U)
    <3>1. PICK m \in bad : \A i \in bad : m <= i
      <4> HIDE DEF bad
      <4> QED BY <2>1, Least
    <3> QED BY <3>1
  <2>3. T # {}
    <3>1. SumFunction(Part({})) = 0
      BY SumOfNone
    <3> HIDE DEF Part
    <3> QED BY <3>1, <2>2
  <2> DEFINE c == One(T)
  <2>4. c \in T /\ f[c] \in Int
    BY <2>3, OneOf DEF IsSummable
  <2>5. \A y \in T : fine(T \ {y})
    <3> HIDE DEF fine
    <3> QED BY <1>1, <2>2
  <2>6. SumFunction(Part(T)) = f[c] + SumFunction(Part(T \ {c}))
    BY <1>3, <2>3
  <2>7. SumFunction(Part(T)) \in Int
    <3> HIDE DEF Part, c
    <3> QED BY <2>4, <2>5, <2>6
  <2>8. ASSUME NEW y \in T PROVE SumFunction(Part(T)) = f[y] + SumFunction(Part(T \ {y}))
    <3>1. CASE y = c
      BY <2>6, <3>1
    <3>2. CASE y # c
      <4> DEFINE rest == T \ {c, y}
      <4>1. rest = (T \ {c}) \ {y} /\ rest = (T \ {y}) \ {c} /\ y \in T \ {c} /\ c \in T \ {y}
        BY <3>2, <2>4
      <4>2. SumFunction(Part(T \ {c})) = f[y] + SumFunction(Part(rest))
        <5> HIDE DEF Part, c, rest
        <5> QED BY <2>4, <2>5, <4>1
      <4>3. SumFunction(Part(T \ {y})) = f[c] + SumFunction(Part(rest)) /\ SumFunction(Part(T \ {y})) \in Int
        <5> HIDE DEF Part, c, rest
        <5> QED BY <2>4, <2>5, <4>1
      <4>4. f[y] \in Int /\ SumFunction(Part(T \ {c})) \in Int
        <5>1. f[y] \in Int
          BY DEF IsSummable
        <5> HIDE DEF Part, c
        <5> QED BY <5>1, <2>4, <2>5
      <4>5. SumFunction(Part(rest)) = SumFunction(Part(T \ {y})) - f[c] \/ SumFunction(Part(rest)) \in Int
        <5>1. rest \in SUBSET (DOMAIN f) /\ Cardinality(rest) < Cardinality(T)
          <6>1. T \ {c} \in SUBSET (DOMAIN f) /\ rest \in SUBSET (DOMAIN f)
            OBVIOUS
          <6>2. Cardinality(T \ {c}) = Cardinality(T) - 1 /\ Cardinality(T) \in Nat
            BY <1>1, <2>4
          <6>3. Cardinality(rest) = Cardinality(T \ {c}) - 1 /\ Cardinality(T \ {c}) \in Nat
            <7> HIDE DEF c
            <7> QED BY <1>1, <4>1, <6>1
          <6> HIDE DEF c, rest
          <6> QED BY <6>1, <6>2, <6>3
        <5>2. fine(rest)
          <6>1. Cardinality(rest) \in Nat /\ Cardinality(T) \in Nat
            BY <1>1, <5>1
          <6> HIDE DEF fine, rest, c
          <6> QED BY <6>1, <2>2, <5>1
        <5> QED BY <5>2
      <4> HIDE DEF Part, c, rest
      <4> QED BY <2>4, <2>6, <4>2, <4>3, <4>4, <4>5
    <3> QED BY <3>1, <3>2
  <2> HIDE DEF Part
  <2> QED BY <2>2, <2>7, <2>8
<1>5. fine(DOMAIN f)
  <2>1. Cardinality(DOMAIN f) \notin bad
    <3> HIDE DEF bad
    <3> QED BY <1>4
  <2> HIDE DEF fine
  <2> QED BY <2>1
<1>6. IsSummable(Without(f, x))
  BY FS_RemoveElement DEF IsSummable, Without, Restrict
<1>7. Without(f, x) = Part(DOMAIN f \ {x})
  BY DEF Without, Restrict
<1>8. SumFunction(f) = SumFunction(Part(DOMAIN f))
  <2> SUFFICES f = Part(DOMAIN f)
    BY Zenon
  <2> QED BY DEF IsSummable
<1> HIDE DEF Part
<1> QED BY <1>5, <1>6, <1>7, <1>8

LEMMA SumType == ASSUME NEW f, IsSummable(f) PROVE SumFunction(f) \in Int
<1>1. CASE DOMAIN f = {}
  BY <1>1, SumOfNone
<1>2. CASE DOMAIN f # {}
  BY <1>2, SumWithout
<1> QED BY <1>1, <1>2

LEMMA RestrictIs ==
  ASSUME NEW S, IsFiniteSet(S), NEW f \in [S -> Int], NEW T \in SUBSET S
  PROVE  /\ IsSummable(Restrict(f, T)) /\ DOMAIN Restrict(f, T) = T
         /\ \A x \in T : Restrict(f, T)[x] = f[x]
         /\ SumFunction(Restrict(f, T)) \in Int
         /\ Restrict(f, S) = f
<1>1. IsSummable(Restrict(f, T))
  BY FS_Subset DEF IsSummable, Restrict
<1> QED BY <1>1, SumType DEF Restrict

LEMMA SumOneMore ==
  ASSUME NEW S, IsFiniteSet(S), NEW f \in [S -> Int], NEW T \in SUBSET S, NEW x \in S \ T
  PROVE  SumFunction(Restrict(f, T \cup {x})) = f[x] + SumFunction(Restrict(f, T))
<1> DEFINE g == Restrict(f, T \cup {x})
<1>1. IsSummable(g) /\ x \in DOMAIN g /\ g[x] = f[x]
  BY RestrictIs
<1>2. SumFunction(g) = g[x] + SumFunction(Without(g, x))
  BY <1>1, SumWithout
<1>3. Without(g, x) = Restrict(f, T)
  <2>1. (T \cup {x}) \ {x} = T
    OBVIOUS
  <2>2. DOMAIN g = T \cup {x} /\ \A y \in T : g[y] = f[y]
    BY RestrictIs
  <2> HIDE DEF g
  <2> QED BY <2>1, <2>2 DEF Without, Restrict
<1>4. SumFunction(g) = f[x] + SumFunction(Restrict(f, T))
  <2> HIDE DEF g
  <2> QED BY <1>1, <1>2, <1>3
<1> QED BY <1>4

LEMMA SumRestrictedToNone == ASSUME NEW f PROVE SumFunction(Restrict(f, {})) = 0
BY SumOfNone DEF Restrict

LEMMA SumAdd ==
  ASSUME NEW S, IsFiniteSet(S), NEW f \in [S -> Int], NEW g \in [S -> Int], NEW h \in [S -> Int],
         \A x \in S : h[x] = f[x] + g[x]
  PROVE  SumFunction(h) = SumFunction(f) + SumFunction(g)
<1> DEFINE R(e, T) == SumFunction(Restrict(e, T))
           P == {T \in SUBSET S : R(h, T) = R(f, T) + R(g, T)}
<1>1. {} \in P
  BY SumRestrictedToNone
<1>2. ASSUME NEW T \in SUBSET S, NEW x \in S \ T, T \in P
      PROVE  T \cup {x} \in P
  <2>1. /\ R(h, T \cup {x}) = h[x] + R(h, T) /\ R(f, T \cup {x}) = f[x] + R(f, T)
        /\ R(g, T \cup {x}) = g[x] + R(g, T)
    BY SumOneMore
  <2>2. R(f, T) \in Int /\ R(g, T) \in Int /\ R(h, T) \in Int
    BY RestrictIs
  <2>3. f[x] \in Int /\ g[x] \in Int /\ h[x] = f[x] + g[x] /\ R(h, T) = R(f, T) + R(g, T)
    BY <1>2
  <2>4. R(h, T \cup {x}) = R(f, T \cup {x}) + R(g, T \cup {x})
    <3> HIDE DEF R
    <3> QED BY <2>1, <2>2, <2>3
  <2> QED BY <2>4
<1>3. S \in P
  <2> HIDE DEF P
  <2> QED BY <1>1, <1>2, ByOneMore
<1> QED BY <1>3, RestrictIs

LEMMA Distributes == ASSUME NEW a \in Int, NEW b \in Int, NEW c \in Int
                     PROVE  (a + b) * c = a * c + b * c /\ a * c \in Int
OBVIOUS

LEMMA SumTimes ==
  ASSUME NEW S, IsFiniteSet(S), NEW f \in [S -> Int], NEW g \in [S -> Int], NEW c \in Int,
         \A x \in S : g[x] = f[x] * c
  PROVE  SumFunction(g) = SumFunction(f) * c
<1> DEFINE R(e, T) == SumFunction(Restrict(e, T))
           P == {T \in SUBSET S : R(g, T) = R(f, T) * c}
<1>1. {} \in P
  BY SumRestrictedToNone
<1>2. ASSUME NEW T \in SUBSET S, NEW x \in S \ T, T \in P
      PROVE  T \cup {x} \in P
  <2>1. R(g, T \cup {x}) = g[x] + R(g, T) /\ R(f, T \cup {x}) = f[x] + R(f, T)
    BY SumOneMore
  <2>2. R(f, T) \in Int
    BY RestrictIs
  <2>3. f[x] \in Int /\ g[x] = f[x] * c /\ R(g, T) = R(f, T) * c
    BY <1>2
  <2>4. R(g, T \cup {x}) = R(f, T \cup {x}) * c
    <3> HIDE DEF R
    <3> QED BY <2>1, <2>2, <2>3, Distributes
  <2> QED BY <2>4
<1>3. S \in P
  <2> HIDE DEF P
  <2> QED BY <1>1, <1>2, ByOneMore
<1> QED BY <1>3, RestrictIs

LEMMA SumOfNaturals ==
  ASSUME NEW S, IsFiniteSet(S), NEW f \in [S -> Nat]
  PROVE  SumFunction(f) \in Nat /\ \A x \in S : f[x] <= SumFunction(f)
<1> DEFINE R(T) == SumFunction(Restrict(f, T))
           P == {T \in SUBSET S : R(T) \in Nat /\ \A x \in T : f[x] <= R(T)}
<1>0. f \in [S -> Int]
  OBVIOUS
<1>1. {} \in P
  BY SumRestrictedToNone
<1>2. ASSUME NEW T \in SUBSET S, NEW x \in S \ T, T \in P
      PROVE  T \cup {x} \in P
  <2>1. R(T \cup {x}) = f[x] + R(T)
    BY <1>0, SumOneMore
  <2>2. R(T) \in Nat /\ f[x] \in Nat /\ \A y \in T : f[y] <= R(T)
    BY <1>2
  <2>3. R(T \cup {x}) \in Nat /\ \A y \in T \cup {x} : f[y] <= R(T \cup {x})
    <3> HIDE DEF R
    <3> QED BY <2>1, <2>2
  <2> QED BY <2>3
<1>3. S \in P
  <2> HIDE DEF P
  <2> QED BY <1>1, <1>2, ByOneMore
<1> QED BY <1>0, <1>3, RestrictIs

LEMMA SumOfZeros ==
  ASSUME NEW S, IsFiniteSet(S), NEW f \in [S -> Int], \A x \in S : f[x] = 0
  PROVE  SumFunction(f) = 0
<1>1. SumFunction(f) = SumFunction(f) * 0
  BY SumTimes
<1> QED BY <1>1, RestrictIs

(* Counting by other names. *)
LEMMA SumByName ==
  ASSUME NEW S, IsFiniteSet(S), NEW T, IsFiniteSet(T), NEW m \in [S -> T],
         \A x \in S, y \in S : m[x] = m[y] => x = y,
         \A t \in T : \E x \in S : m[x] = t,
         NEW g \in [T -> Int], NEW f \in [S -> Int], \A x \in S : f[x] = g[m[x]]
  PROVE  SumFunction(f) = SumFunction(g)
<1> DEFINE R(e, U) == SumFunction(Restrict(e, U))
           I(U) == {t \in T : \E x \in U : m[x] = t}
           P == {U \in SUBSET S : R(f, U) = R(g, I(U))}
<1>1. {} \in P
  <2>1. I({}) = {}
    OBVIOUS
  <2> HIDE DEF I
  <2> QED BY <2>1, SumRestrictedToNone
<1>2. ASSUME NEW U \in SUBSET S, NEW x \in S \ U, U \in P
      PROVE  U \cup {x} \in P
  <2>1. R(f, U \cup {x}) = f[x] + R(f, U)
    BY SumOneMore
  <2>2. I(U \cup {x}) = I(U) \cup {m[x]} /\ m[x] \in T \ I(U) /\ I(U) \in SUBSET T
    OBVIOUS
  <2>3. R(g, I(U) \cup {m[x]}) = g[m[x]] + R(g, I(U))
    <3> HIDE DEF I
    <3> QED BY <2>2, SumOneMore
  <2>4. f[x] = g[m[x]] /\ R(f, U) = R(g, I(U))
    BY <1>2
  <2>5. R(f, U \cup {x}) = R(g, I(U \cup {x}))
    <3> HIDE DEF R, I
    <3> QED BY <2>1, <2>2, <2>3, <2>4
  <2> QED BY <2>5
<1>3. S \in P
  <2> HIDE DEF P
  <2> QED BY <1>1, <1>2, ByOneMore
<1>4. I(S) = T
  OBVIOUS
<1>5. R(f, S) = SumFunction(f) /\ R(g, T) = SumFunction(g)
  BY RestrictIs
<1>6. R(f, S) = R(g, I(S))
  BY <1>3
<1> HIDE DEF R, I
<1> QED BY <1>4, <1>5, <1>6

LEMMA SumOfParts ==
  ASSUME NEW S, IsFiniteSet(S), NEW f \in [S -> Int], NEW A \in SUBSET S, NEW B \in SUBSET S,
         A \cap B = {}
  PROVE  SumFunction(Restrict(f, A \cup B))
           = SumFunction(Restrict(f, A)) + SumFunction(Restrict(f, B))
<1> DEFINE R(T) == SumFunction(Restrict(f, T))
           P == {T \in SUBSET B : R(A \cup T) = R(A) + R(T)}
<1>0. R(A) \in Int /\ \A T \in SUBSET B : R(T) \in Int
  BY RestrictIs
<1>1. {} \in P
  <2>1. R({}) = 0 /\ A \cup {} = A
    BY SumRestrictedToNone
  <2>2. R(A \cup {}) = R(A) + R({})
    <3> HIDE DEF R
    <3> QED BY <1>0, <2>1
  <2> QED BY <2>2
<1>2. ASSUME NEW T \in SUBSET B, NEW x \in B \ T, T \in P
      PROVE  T \cup {x} \in P
  <2>1. R(T \cup {x}) = f[x] + R(T)
    BY SumOneMore
  <2>2. R((A \cup T) \cup {x}) = f[x] + R(A \cup T)
    BY SumOneMore
  <2>3. (A \cup T) \cup {x} = A \cup (T \cup {x})
    OBVIOUS
  <2>4. R(A \cup T) = R(A) + R(T) /\ f[x] \in Int /\ R(T) \in Int /\ R(A) \in Int
    BY <1>0, <1>2
  <2>5. R(A \cup (T \cup {x})) = R(A) + R(T \cup {x})
    <3> HIDE DEF R
    <3>1. R(A \cup (T \cup {x})) = f[x] + R(A \cup T)
      BY <2>2, <2>3, Zenon
    <3> QED BY <3>1, <2>1, <2>4
  <2> QED BY <2>5
<1>3. B \in P
  <2>1. IsFiniteSet(B)
    BY FS_Subset
  <2> HIDE DEF P
  <2> QED BY <2>1, <1>1, <1>2, ByOneMore
<1> QED BY <1>3

(* One number changed. *)
LEMMA SumOfChange ==
  ASSUME NEW S, IsFiniteSet(S), NEW f \in [S -> Int], NEW g \in [S -> Int], NEW a \in S,
         \A x \in S \ {a} : f[x] = g[x]
  PROVE  SumFunction(g) = SumFunction(f) - f[a] + g[a]
<1>1. IsSummable(f) /\ IsSummable(g)
  BY DEF IsSummable
<1>2. /\ SumFunction(f) = f[a] + SumFunction(Without(f, a))
      /\ SumFunction(g) = g[a] + SumFunction(Without(g, a))
      /\ IsSummable(Without(f, a))
  BY <1>1, SumWithout
<1>3. Without(f, a) = Without(g, a)
  BY DEF Without, Restrict
<1>4. SumFunction(Without(f, a)) \in Int
  BY <1>2, SumType
<1> QED BY <1>2, <1>3, <1>4

(* Counting by kinds. *)
LEMMA SumByKind ==
  ASSUME NEW S, IsFiniteSet(S), NEW f \in [S -> Int], NEW K, IsFiniteSet(K), NEW kind \in [S -> K],
         NEW g, g = [k \in K |-> SumFunction(Restrict(f, {x \in S : kind[x] = k}))]
  PROVE  SumFunction(f) = SumFunction(g)
<1> DEFINE R(U) == SumFunction(Restrict(f, U))
           Of(U, k) == {x \in U : kind[x] = k}
           G(U) == [k \in K |-> R(Of(U, k))]
           P == {U \in SUBSET S : R(U) = SumFunction(G(U))}
<1>0. \A U \in SUBSET S : G(U) \in [K -> Int] /\ R(U) \in Int /\ SumFunction(G(U)) \in Int
  <2>1. ASSUME NEW U \in SUBSET S PROVE G(U) \in [K -> Int] /\ R(U) \in Int
    <3>1. \A k \in K : Of(U, k) \in SUBSET S
      OBVIOUS
    <3>2. \A k \in K : R(Of(U, k)) \in Int
      <4> HIDE DEF Of
      <4> QED BY <3>1, RestrictIs
    <3>3. R(U) \in Int
      BY RestrictIs
    <3> HIDE DEF R, Of
    <3> QED BY <3>2, <3>3
  <2>2. ASSUME NEW U \in SUBSET S PROVE SumFunction(G(U)) \in Int
    <3> HIDE DEF G
    <3> QED BY <2>1, SumType DEF IsSummable
  <2> HIDE DEF G, R
  <2> QED BY <2>1, <2>2
<1>1. {} \in P
  <2>1. \A k \in K : Of({}, k) = {}
    OBVIOUS
  <2>2. R({}) = 0
    BY SumRestrictedToNone
  <2>3. \A k \in K : G({})[k] = 0
    <3> HIDE DEF R, Of
    <3> QED BY <2>1, <2>2
  <2>4. SumFunction(G({})) = 0
    <3>1. G({}) \in [K -> Int]
      BY <1>0
    <3> HIDE DEF G
    <3> QED BY <2>3, <3>1, SumOfZeros
  <2> QED BY <2>2, <2>4
<1>2. ASSUME NEW U \in SUBSET S, NEW x \in S \ U, U \in P
      PROVE  U \cup {x} \in P
  <2> DEFINE a == kind[x]
  <2>1. R(U \cup {x}) = f[x] + R(U) /\ f[x] \in Int
    BY SumOneMore
  <2>2. a \in K /\ Of(U \cup {x}, a) = Of(U, a) \cup {x} /\ Of(U, a) \in SUBSET S /\ x \notin Of(U, a)
    OBVIOUS
  <2>3. \A k \in K \ {a} : Of(U \cup {x}, k) = Of(U, k)
    OBVIOUS
  <2>4. R(Of(U, a) \cup {x}) = f[x] + R(Of(U, a))
    <3> HIDE DEF Of, a
    <3> QED BY <2>2, SumOneMore
  <2>5. G(U \cup {x})[a] = f[x] + G(U)[a]
    <3> HIDE DEF R, Of, a
    <3> QED BY <2>2, <2>4
  <2>6. \A k \in K \ {a} : G(U)[k] = G(U \cup {x})[k]
    <3> HIDE DEF R, Of, a
    <3> QED BY <2>3
  <2>7. U \cup {x} \in SUBSET S
    OBVIOUS
  <2>8. G(U) \in [K -> Int] /\ G(U \cup {x}) \in [K -> Int] /\ SumFunction(G(U)) \in Int
    <3> HIDE DEF G, R
    <3> QED BY <2>7, <1>0
  <2>9. SumFunction(G(U \cup {x})) = SumFunction(G(U)) - G(U)[a] + G(U \cup {x})[a]
    <3> DEFINE before == G(U)
               after == G(U \cup {x})
    <3>1. /\ before \in [K -> Int] /\ after \in [K -> Int] /\ a \in K
          /\ \A k \in K \ {a} : before[k] = after[k]
      <4> HIDE DEF G, a
      <4> QED BY <2>2, <2>6, <2>8
    <3>2. SumFunction(after) = SumFunction(before) - before[a] + after[a]
      <4> HIDE DEF before, after, a
      <4> QED BY <3>1, SumOfChange
    <3> QED BY <3>2
  <2>10. R(U) = SumFunction(G(U)) /\ G(U)[a] \in Int
    <3> HIDE DEF G, a
    <3> QED BY <1>2, <2>2, <2>8
  <2>11. R(U \cup {x}) = SumFunction(G(U \cup {x}))
    <3> HIDE DEF G, R, a
    <3> QED BY <2>1, <2>5, <2>8, <2>9, <2>10
  <2> HIDE DEF R, G
  <2> QED BY <2>7, <2>11
<1>3. S \in P
  <2> HIDE DEF P
  <2> QED BY <1>1, <1>2, ByOneMore
<1>4. R(S) = SumFunction(f)
  BY RestrictIs
<1>5. G(S) = g
  OBVIOUS
<1> HIDE DEF R, G
<1> QED BY <1>3, <1>4, <1>5

(* One more of a sequence. *)
LEMMA SumToNext ==
  ASSUME NEW n \in Nat, NEW e \in [1 .. n -> Int], NEW k \in 1 .. n
  PROVE  SumFunction(Restrict(e, 1 .. k)) = e[k] + SumFunction(Restrict(e, 1 .. k - 1))
<1> DEFINE S == 1 .. n
           T == 1 .. k - 1
<1>1. IsFiniteSet(S) /\ T \in SUBSET S /\ k \in S \ T /\ T \cup {k} = 1 .. k /\ e \in [S -> Int]
  <2>1. IsFiniteSet(S)
    BY FS_Interval
  <2>2. T \in SUBSET S /\ k \in S \ T
    OBVIOUS
  <2>3. T \cup {k} = 1 .. k
    OBVIOUS
  <2> QED BY <2>1, <2>2, <2>3
<1>2. SumFunction(Restrict(e, T \cup {k})) = e[k] + SumFunction(Restrict(e, T))
  <2> SUFFICES ASSUME NEW x, x = k PROVE SumFunction(Restrict(e, T \cup {x})) = e[x] + SumFunction(Restrict(e, T))
    OBVIOUS
  <2> HIDE DEF S, T
  <2>1. x \in S \ T
    BY <1>1
  <2> QED BY <1>1, <2>1, SumOneMore
<1> QED BY <1>1, <1>2

-----------------------------------------------------------------------------
(* The bill. *)

Count == Nat \cup {None}

LEMMA CountedIs == ASSUME NEW v \in Count
                   PROVE  /\ Counted(v) \in Nat /\ v \in Int
                          /\ IsValid(v) <=> v # None
                          /\ IsValid(v) => v \in Nat /\ Counted(v) = v
                          /\ ~IsValid(v) => Counted(v) = 0
BY DEF Count, Counted, IsValid, None

LEMMA PlusCounts == ASSUME NEW a \in Count, NEW b \in Count
                    PROVE  /\ Plus(a, b) \in Count
                           /\ Counted(Plus(a, b)) = Counted(a) + Counted(b)
                           /\ Plus(a, b) = None <=> a = None /\ b = None
BY DEF Count, Counted, IsValid, None, Plus

LEMMA StepsAre ==
  ASSUME NEW steps \in Seq(MeteredStep)
  PROVE  /\ Len(steps) \in Nat /\ DOMAIN steps = 1 .. Len(steps) /\ IsFiniteSet(DOMAIN steps)
         /\ \A k \in DOMAIN steps : /\ steps[k].tokens \in [TokenFields -> Count]
                                    /\ steps[k].searches \in Nat
                                    /\ steps[k] \in MeteredStep
<1>1. Len(steps) \in Nat /\ DOMAIN steps = 1 .. Len(steps)
  OBVIOUS
<1>2. IsFiniteSet(1 .. Len(steps))
  BY <1>1, FS_Interval
<1>3. \A k \in DOMAIN steps : steps[k] \in MeteredStep
  BY <1>1
<1> QED BY <1>1, <1>2, <1>3 DEF MeteredStep, Count

(* The sums of the first steps. *)
Merged(total, steps, m) ==
    total = [k \in 0 .. m |-> IF k = 0 THEN NoTokens ELSE MergeUsage(total[k - 1], steps[k].tokens)]

LEMMA MergedExists ==
  ASSUME NEW steps, NEW m \in Nat
  PROVE  \E total : Merged(total, steps, m)
<1> DEFINE bad == {n \in Nat : ~\E total : Merged(total, steps, n)}
<1> SUFFICES ASSUME bad # {} PROVE FALSE
  OBVIOUS
<1>1. PICK n \in bad : \A i \in bad : n <= i
  BY Least
<1>2. n # 0
  <2>1. Merged([k \in 0 .. 0 |-> NoTokens], steps, 0)
    BY DEF Merged
  <2> QED BY <2>1, <1>1
<1>3. PICK total : Merged(total, steps, n - 1)
  <2>1. n - 1 \in Nat /\ n - 1 \notin bad
    BY <1>1, <1>2
  <2> QED BY <2>1
<1> DEFINE more == [k \in 0 .. n |-> IF k = 0 THEN NoTokens ELSE MergeUsage(total[k - 1], steps[k].tokens)]
<1>4. \A k \in 0 .. n - 1 : more[k] = total[k]
  BY <1>1, <1>2, <1>3 DEF Merged
<1>5. \A k \in 0 .. n : k # 0 => k - 1 \in 0 .. n - 1
  BY <1>1
<1>6. Merged(more, steps, n)
  <2>1. \A k \in 0 .. n : more[k] = IF k = 0 THEN NoTokens ELSE MergeUsage(total[k - 1], steps[k].tokens)
    OBVIOUS
  <2>2. more = [k \in 0 .. n |-> IF k = 0 THEN NoTokens ELSE MergeUsage(more[k - 1], steps[k].tokens)]
    <3>1. DOMAIN more = 0 .. n /\ more = [k \in 0 .. n |-> more[k]]
      OBVIOUS
    <3>2. \A k \in 0 .. n : more[k] = IF k = 0 THEN NoTokens ELSE MergeUsage(more[k - 1], steps[k].tokens)
      <4> HIDE DEF more
      <4> QED BY <1>4, <1>5, <2>1
    <3> HIDE DEF more
    <3> QED BY <3>1, <3>2
  <2> HIDE DEF more
  <2> QED BY <2>2 DEF Merged
<1> QED BY <1>1, <1>6

(* What the tokens of the steps come to. *)
LEMMA ExtractIs ==
  ASSUME NEW steps \in Seq(MeteredStep), NEW u, u = ExtractUsageFromSteps(steps)
  PROVE  /\ u \in [TokenFields -> Count]
         /\ \A f \in TokenFields :
              /\ Counted(u[f]) = SumFunction([k \in DOMAIN steps |-> Counted(steps[k].tokens[f])])
              /\ u[f] = None <=> \A k \in DOMAIN steps : steps[k].tokens[f] = None
<1> DEFINE n == Len(steps)
           C(f) == [k \in 1 .. n |-> Counted(steps[k].tokens[f])]
           R(f, k) == SumFunction(Restrict(C(f), 1 .. k))
<1>1. PICK total : Merged(total, steps, n)
  BY StepsAre, MergedExists
<1>2. u = total[n]
  <2> DEFINE it == CHOOSE it : it = [k \in 0 .. Len(steps) |->
                     IF k = 0 THEN NoTokens ELSE MergeUsage(it[k - 1], steps[k].tokens)]
  <2>1. u = it[n]
    BY DEF ExtractUsageFromSteps
  <2>2. Merged(it, steps, n)
    BY <1>1 DEF Merged
  <2> HIDE DEF it
  <2>3. \A k \in 0 .. n : it[k] = total[k]
    <3> DEFINE bad == {k \in 0 .. n : it[k] # total[k]}
    <3> SUFFICES ASSUME bad # {} PROVE FALSE
      OBVIOUS
    <3>1. PICK k \in bad : \A i \in bad : k <= i
      <4>1. bad \in SUBSET Nat
        OBVIOUS
      <4> HIDE DEF bad
      <4> QED BY <4>1, Least
    <3>2. k # 0 => k - 1 \in 0 .. n /\ k - 1 \notin bad
      BY <3>1, StepsAre
    <3> QED BY <3>1, <3>2, <1>1, <2>2 DEF Merged
  <2> QED BY <2>1, <2>3, StepsAre
<1>3. \A f \in TokenFields : C(f) \in [1 .. n -> Int]
  BY StepsAre, CountedIs
<1> DEFINE Good(k) == /\ total[k] \in [TokenFields -> Count]
                      /\ \A f \in TokenFields :
                           /\ Counted(total[k][f]) = R(f, k)
                           /\ total[k][f] = None <=> \A i \in 1 .. k : steps[i].tokens[f] = None
<1>4. Good(0)
  <2>1. total[0] = NoTokens
    BY <1>1, StepsAre DEF Merged
  <2>2. \A f \in TokenFields : R(f, 0) = 0
    <3>1. 1 .. 0 = {}
      OBVIOUS
    <3> HIDE DEF C
    <3> QED BY <3>1, SumRestrictedToNone
  <2>3. NoTokens \in [TokenFields -> Count] /\ \A f \in TokenFields : NoTokens[f] = None
    BY DEF NoTokens, Count
  <2>4. Counted(None) = 0
    BY DEF Counted, None, IsValid
  <2> HIDE DEF R
  <2> QED BY <2>1, <2>2, <2>3, <2>4
<1>5. ASSUME NEW k \in 1 .. n, Good(k - 1) PROVE Good(k)
  <2>1. total[k] = MergeUsage(total[k - 1], steps[k].tokens)
    BY <1>1, StepsAre DEF Merged
  <2>2. steps[k].tokens \in [TokenFields -> Count] /\ total[k - 1] \in [TokenFields -> Count]
    BY <1>5, StepsAre
  <2>3. total[k] \in [TokenFields -> Count]
    BY <2>1, <2>2, PlusCounts DEF MergeUsage
  <2>4. ASSUME NEW f \in TokenFields
        PROVE  /\ Counted(total[k][f]) = R(f, k)
               /\ total[k][f] = None <=> \A i \in 1 .. k : steps[i].tokens[f] = None
    <3>1. total[k][f] = Plus(total[k - 1][f], steps[k].tokens[f])
      BY <2>1 DEF MergeUsage
    <3>2. /\ Counted(total[k][f]) = Counted(total[k - 1][f]) + Counted(steps[k].tokens[f])
          /\ total[k][f] = None <=> total[k - 1][f] = None /\ steps[k].tokens[f] = None
      BY <2>2, <3>1, PlusCounts
    <3>3. 1 .. k = (1 .. k - 1) \cup {k} /\ k \notin 1 .. k - 1 /\ k - 1 \in 0 .. n /\ 1 .. k - 1 \in SUBSET (1 .. n)
      BY StepsAre
    <3>4. R(f, k) = Counted(steps[k].tokens[f]) + R(f, k - 1)
      <4> DEFINE e == C(f)
      <4>1. e \in [1 .. n -> Int] /\ e[k] = Counted(steps[k].tokens[f]) /\ n \in Nat
        BY <1>3, StepsAre
      <4>2. SumFunction(Restrict(e, 1 .. k)) = e[k] + SumFunction(Restrict(e, 1 .. k - 1))
        <5> HIDE DEF e, n
        <5> QED BY <4>1, SumToNext
      <4> QED BY <4>1, <4>2
    <3>5. Counted(total[k - 1][f]) = R(f, k - 1) /\ Counted(steps[k].tokens[f]) \in Nat /\ Counted(total[k - 1][f]) \in Nat
      BY <1>5, <2>2, CountedIs
    <3>6. total[k - 1][f] = None <=> \A i \in 1 .. k - 1 : steps[i].tokens[f] = None
      BY <1>5
    <3>7. Counted(total[k][f]) = R(f, k)
      <4> HIDE DEF R
      <4> QED BY <3>2, <3>4, <3>5
    <3> QED BY <3>2, <3>3, <3>6, <3>7
  <2> HIDE DEF R
  <2> QED BY <2>3, <2>4
<1>6. Good(n)
  <2> DEFINE bad == {k \in 0 .. n : ~Good(k)}
  <2>1. bad = {}
    <3> SUFFICES ASSUME bad # {} PROVE FALSE
      OBVIOUS
    <3>1. PICK k \in bad : \A i \in bad : k <= i
      <4>1. bad \in SUBSET Nat
        OBVIOUS
      <4> HIDE DEF bad
      <4> QED BY <4>1, Least
    <3> HIDE DEF Good
    <3>2. k # 0
      BY <3>1, <1>4
    <3>3. k \in 1 .. n /\ k - 1 \in 0 .. n /\ k - 1 \notin bad
      BY <3>1, <3>2, StepsAre
    <3> QED BY <3>1, <3>3, <1>5
  <2> HIDE DEF Good
  <2> QED BY <2>1, StepsAre
<1>7. \A f \in TokenFields : R(f, n) = SumFunction([k \in DOMAIN steps |-> Counted(steps[k].tokens[f])])
  <2>1. \A f \in TokenFields : Restrict(C(f), 1 .. n) = C(f)
    BY DEF Restrict
  <2>2. \A f \in TokenFields : C(f) = [k \in DOMAIN steps |-> Counted(steps[k].tokens[f])]
    BY StepsAre
  <2> HIDE DEF C
  <2> QED BY <2>1, <2>2
<1> HIDE DEF R
<1> QED BY <1>2, <1>6, <1>7, StepsAre

LEMMA SumOfOne ==
  ASSUME NEW f, NEW a, f \in [{a} -> Int]
  PROVE  SumFunction(f) = f[a]
<1>1. IsSummable(f) /\ a \in DOMAIN f
  BY FS_Singleton DEF IsSummable
<1>2. SumFunction(f) = f[a] + SumFunction(Without(f, a)) /\ f[a] \in Int
  BY <1>1, SumWithout
<1>3. SumFunction(Without(f, a)) = 0
  <2>1. DOMAIN Without(f, a) = {}
    BY DEF Without, Restrict
  <2> QED BY <2>1, SumOfNone
<1> QED BY <1>2, <1>3

LEMMA SumOfTwo ==
  ASSUME NEW f, NEW a, NEW b, a # b, f \in [{a, b} -> Int]
  PROVE  SumFunction(f) = f[a] + f[b]
<1>0. IsFiniteSet({a, b})
  <2>1. {a, b} = {a} \cup {b}
    OBVIOUS
  <2>2. IsFiniteSet({a})
    BY FS_Singleton
  <2>3. IsFiniteSet({a} \cup {b})
    BY <2>2, FS_AddElement
  <2> QED BY <2>1, <2>3, Zenon
<1>1. IsSummable(f) /\ a \in DOMAIN f
  BY <1>0 DEF IsSummable
<1>2. SumFunction(f) = f[a] + SumFunction(Without(f, a)) /\ f[a] \in Int
  BY <1>1, SumWithout
<1> DEFINE g == Without(f, a)
<1>3. g \in [{b} -> Int] /\ g[b] = f[b]
  BY DEF Without, Restrict
<1>4. SumFunction(g) = g[b]
  <2> HIDE DEF g
  <2> QED BY <1>3, SumOfOne
<1> QED BY <1>2, <1>3, <1>4

(* The usage of a call is what its steps come to, whether or not it was reported. *)
LEMMA UsageOfSteps ==
  ASSUME NEW steps \in Seq(MeteredStep), NEW u, u = ExtractUsageFromSteps(steps),
         NEW aggregate \in {u, NoTokens}
  PROVE  ResolveUsage(aggregate, steps) = u
BY DEF ResolveUsage, NoTokens, TokenFields, IsValid, None

LEMMA UsageOfOne ==
  ASSUME NEW step \in MeteredStep
  PROVE  /\ ResolveUsage(step.tokens, <<step>>) = step.tokens
         /\ SearchesOf(<<step>>) = step.searches
<1> DEFINE steps == <<step>>
           u == ExtractUsageFromSteps(steps)
<1>0. steps \in Seq(MeteredStep) /\ DOMAIN steps = {1} /\ steps[1] = step
  OBVIOUS
<1>1. step.tokens \in [TokenFields -> Count] /\ step.searches \in Nat
  BY DEF MeteredStep, Count
<1>2. /\ u \in [TokenFields -> Count]
      /\ \A f \in TokenFields :
           /\ Counted(u[f]) = SumFunction([k \in {1} |-> Counted(steps[k].tokens[f])])
           /\ u[f] = None <=> steps[1].tokens[f] = None
  <2> HIDE DEF steps
  <2>1. /\ u \in [TokenFields -> Count]
        /\ \A f \in TokenFields :
             /\ Counted(u[f]) = SumFunction([k \in DOMAIN steps |-> Counted(steps[k].tokens[f])])
             /\ u[f] = None <=> \A k \in DOMAIN steps : steps[k].tokens[f] = None
    BY <1>0, ExtractIs
  <2> QED BY <1>0, <2>1
<1>3. ASSUME NEW f \in TokenFields PROVE u[f] = step.tokens[f]
  <2> DEFINE e == [k \in {1} |-> Counted(steps[k].tokens[f])]
  <2>1. Counted(step.tokens[f]) \in Nat
    BY <1>1, CountedIs
  <2>2. e \in [{1} -> Int] /\ e[1] = Counted(step.tokens[f])
    BY <2>1
  <2>3. SumFunction(e) = e[1]
    <3> HIDE DEF e
    <3> QED BY <2>2, SumOfOne
  <2>4. /\ Counted(u[f]) = Counted(step.tokens[f])
        /\ u[f] = None <=> step.tokens[f] = None
    <3> HIDE DEF u
    <3>1. u[f] = None <=> step.tokens[f] = None
      BY <1>2
    <3>2. Counted(u[f]) = SumFunction(e)
      BY <1>2
    <3> HIDE DEF e
    <3> QED BY <2>2, <2>3, <3>1, <3>2
  <2>5. u[f] \in Count /\ step.tokens[f] \in Count
    <3> HIDE DEF u
    <3> QED BY <1>1, <1>2
  <2> HIDE DEF u
  <2> QED BY <2>4, <2>5 DEF Count, Counted, IsValid, None
<1>4. u = step.tokens
  <2> HIDE DEF u
  <2> QED BY <1>1, <1>2, <1>3
<1>5. SearchesOf(<<step>>) = step.searches
  <2> DEFINE e == [k \in {1} |-> steps[k].searches]
  <2>1. e \in [{1} -> Int] /\ e[1] = step.searches
    BY <1>1
  <2>2. SearchesOf(<<step>>) = SumFunction(e)
    BY <1>0 DEF SearchesOf
  <2> HIDE DEF e
  <2> QED BY <2>1, <2>2, SumOfOne
<1>6. ResolveUsage(step.tokens, steps) = step.tokens
  <2> HIDE DEF steps
  <2> QED BY <1>4 DEF ResolveUsage
<1> QED BY <1>5, <1>6

LEMMA GroupIs ==
  ASSUME NEW u \in [TokenFields -> Count], NEW group, NEW total \in TokenFields,
         NEW labels \in SUBSET TokenFields, IsFiniteSet(labels),
         NEW items, items = GroupItems(u, group, total, labels)
  PROVE  /\ IsFiniteSet(items)
         /\ \A i \in items : /\ i = UsageItem(group, i.label, i.amount) /\ i.group = group
                             /\ i.amount \in Nat /\ i.label \in labels \cup {"none"}
         /\ items = {} <=> ~IsValid(u[total])
         /\ \A W \in [items -> Int] :
              SumFunction(W) =
                IF ~IsValid(u[total]) THEN 0
                ELSE IF u[total] > 0 /\ SafeSum(u, labels) = u[total]
                THEN SumFunction([l \in labels |->
                       IF IsValid(u[l]) THEN W[UsageItem(group, l, u[l])] ELSE 0])
                ELSE W[UsageItem(group, "none", u[total])]
<1> DEFINE valid == {l \in labels : IsValid(u[l])}
           Item(l) == UsageItem(group, l, u[l])
           detailed == u[total] > 0 /\ SafeSum(u, labels) = u[total]
<1>0. /\ u[total] \in Count /\ \A l \in labels : u[l] \in Count /\ Counted(u[l]) \in Nat
      /\ \A l \in valid : u[l] \in Nat
  <2>1. u[total] \in Count /\ \A l \in labels : u[l] \in Count
    OBVIOUS
  <2> QED BY <2>1, CountedIs
<1>1. CASE ~IsValid(u[total])
  <2>1. items = {}
    BY <1>1 DEF GroupItems
  <2>2. \A W \in [items -> Int] : SumFunction(W) = 0
    BY <2>1, SumOfNone
  <2> QED BY <1>1, <2>1, <2>2, FS_EmptySet
<1>2. CASE IsValid(u[total]) /\ ~detailed
  <2> DEFINE one == UsageItem(group, "none", u[total])
  <2>1. items = {one}
    BY <1>2 DEF GroupItems
  <2>2. u[total] \in Nat
    BY <1>0, <1>2, CountedIs
  <2>3. one.group = group /\ one.label = "none" /\ one.amount = u[total] /\ one = UsageItem(group, one.label, one.amount)
    BY DEF UsageItem
  <2> HIDE DEF one
  <2>4. IsFiniteSet(items)
    <3>1. IsFiniteSet({one})
      BY FS_Singleton
    <3> QED BY <2>1, <3>1, Zenon
  <2>5. \A W \in [items -> Int] : SumFunction(W) = W[one]
    BY <2>1, SumOfOne
  <2>6. \A i \in items : /\ i = UsageItem(group, i.label, i.amount) /\ i.group = group
                         /\ i.amount \in Nat /\ i.label \in labels \cup {"none"}
    BY <2>1, <2>2, <2>3
  <2> QED BY <1>2, <2>1, <2>4, <2>5, <2>6 DEF one
<1>3. CASE IsValid(u[total]) /\ detailed
  <2>1. items = {Item(l) : l \in valid}
    BY <1>3 DEF GroupItems
  <2>2. \A l \in valid : Item(l).group = group /\ Item(l).label = l /\ Item(l).amount = u[l]
    BY DEF UsageItem
  <2>3. IsFiniteSet(valid)
    BY FS_Subset
  <2>4. IsFiniteSet(items)
    <3> DEFINE m == [l \in valid |-> Item(l)]
    <3>1. m \in Surjection(valid, items)
      BY <2>1 DEF Surjection
    <3> QED BY <2>3, <3>1, FS_Surjection
  <2>5. valid # {}
    <3> SUFFICES ASSUME valid = {} PROVE FALSE
      OBVIOUS
    <3> DEFINE e == [l \in labels |-> Counted(u[l])]
    <3>1. \A l \in labels : Counted(u[l]) = 0
      BY DEF Counted
    <3>2. e \in [labels -> Int] /\ \A l \in labels : e[l] = 0
      BY <3>1
    <3>3. SumFunction(e) = 0
      <4> HIDE DEF e
      <4> QED BY <3>2, SumOfZeros
    <3> QED BY <1>3, <3>3, <1>0 DEF SafeSum
  <2>6. \A i \in items : /\ i = UsageItem(group, i.label, i.amount) /\ i.group = group
                         /\ i.amount \in Nat /\ i.label \in labels \cup {"none"}
    BY <2>1, <2>2, <1>0
  <2>7. ASSUME NEW W \in [items -> Int]
        PROVE  SumFunction(W) = SumFunction([l \in labels |-> IF IsValid(u[l]) THEN W[Item(l)] ELSE 0])
    <3> DEFINE h == [l \in labels |-> IF IsValid(u[l]) THEN W[Item(l)] ELSE 0]
               m == [l \in valid |-> Item(l)]
               f == [l \in valid |-> W[Item(l)]]
    <3>1. \A l \in valid : Item(l) \in items
      BY <2>1
    <3>2. h \in [labels -> Int] /\ f \in [valid -> Int] /\ m \in [valid -> items]
      <4> HIDE DEF Item
      <4> QED BY <3>1
    <3>3. SumFunction(f) = SumFunction(W)
      <4>1. \A x \in valid, y \in valid : m[x] = m[y] => x = y
        BY <2>2
      <4>2. \A t \in items : \E x \in valid : m[x] = t
        BY <2>1
      <4>3. \A x \in valid : f[x] = W[m[x]]
        OBVIOUS
      <4> HIDE DEF f, m, valid
      <4> QED BY <2>3, <2>4, <3>2, <4>1, <4>2, <4>3, SumByName
    <3>4. Restrict(h, valid) = f
      BY DEF Restrict
    <3>5. SumFunction(Restrict(h, labels \ valid)) = 0
      <4> DEFINE rest == labels \ valid
                 z == Restrict(h, rest)
      <4>1. z \in [rest -> Int] /\ \A l \in rest : z[l] = 0
        BY DEF Restrict
      <4>2. IsFiniteSet(rest)
        BY FS_Subset
      <4>3. SumFunction(z) = 0
        <5> HIDE DEF z, rest
        <5> QED BY <4>1, <4>2, SumOfZeros
      <4> QED BY <4>3
    <3>6. SumFunction(Restrict(h, valid \cup (labels \ valid)))
            = SumFunction(Restrict(h, valid)) + SumFunction(Restrict(h, labels \ valid))
      <4>1. valid \in SUBSET labels /\ labels \ valid \in SUBSET labels /\ valid \cap (labels \ valid) = {}
        OBVIOUS
      <4> HIDE DEF h, valid
      <4> QED BY <3>2, <4>1, SumOfParts
    <3>7. Restrict(h, valid \cup (labels \ valid)) = h
      BY DEF Restrict
    <3>8. SumFunction(f) \in Int
      <4> HIDE DEF f, valid
      <4> QED BY <3>2, <2>3, SumType DEF IsSummable
    <3>9. SumFunction(h) = SumFunction(W)
      <4> HIDE DEF h, f, valid
      <4> QED BY <3>3, <3>4, <3>5, <3>6, <3>7, <3>8
    <3> QED BY <3>9
  <2>8. items # {}
    BY <2>1, <2>5
  <2> QED BY <1>3, <2>4, <2>6, <2>7, <2>8
<1> QED BY <1>1, <1>2, <1>3

LEMMA DetailsAre ==
  ASSUME NEW s \in {"in", "out"}
  PROVE  /\ s \in TokenFields /\ Details(s) \in SUBSET TokenFields /\ IsFiniteSet(Details(s))
         /\ Details("in") = {"no_cache", "cache_read", "cache_write"}
         /\ Details("out") = {"text", "reasoning"}
         /\ "none" \notin TokenFields
<1>1. IsFiniteSet({"no_cache", "cache_read", "cache_write"}) /\ IsFiniteSet({"text", "reasoning"})
  <2>1. IsFiniteSet({"no_cache"}) /\ IsFiniteSet({"text"})
    BY FS_Singleton
  <2>2. IsFiniteSet({"no_cache"} \cup {"cache_read"}) /\ IsFiniteSet({"text"} \cup {"reasoning"})
    BY <2>1, FS_AddElement
  <2>3. IsFiniteSet(({"no_cache"} \cup {"cache_read"}) \cup {"cache_write"})
    BY <2>2, FS_AddElement
  <2>4. /\ ({"no_cache"} \cup {"cache_read"}) \cup {"cache_write"} = {"no_cache", "cache_read", "cache_write"}
        /\ {"text"} \cup {"reasoning"} = {"text", "reasoning"}
    OBVIOUS
  <2> QED BY <2>2, <2>3, <2>4, Zenon
<1> QED BY <1>1 DEF Details, TokenFields

GroupOf(s) == IF s = "in" THEN "input" ELSE "output"

SideItems(u, s) == GroupItems(u, GroupOf(s), s, Details(s))

SearchItem(n, label) == IF n > 0 THEN {UsageItem("tools", label, n)} ELSE {}

ItemsOf(u, n, label) == SideItems(u, "in") \cup SideItems(u, "out") \cup SearchItem(n, label)

LEMMA SideIs ==
  ASSUME NEW u \in [TokenFields -> Count], NEW s \in {"in", "out"},
         NEW items, items = SideItems(u, s)
  PROVE  /\ IsFiniteSet(items)
         /\ \A i \in items : /\ i = UsageItem(GroupOf(s), i.label, i.amount) /\ i.group = GroupOf(s)
                             /\ i.amount \in Nat /\ i.label \in Details(s) \cup {"none"}
         /\ items = {} <=> ~IsValid(u[s])
         /\ \A W \in [items -> Int] :
              SumFunction(W) =
                IF ~IsValid(u[s]) THEN 0
                ELSE IF u[s] > 0 /\ SafeSum(u, Details(s)) = u[s]
                THEN SumFunction([l \in Details(s) |->
                       IF IsValid(u[l]) THEN W[UsageItem(GroupOf(s), l, u[l])] ELSE 0])
                ELSE W[UsageItem(GroupOf(s), "none", u[s])]
         /\ IsValid(u[s]) /\ u[s] > 0 /\ SafeSum(u, Details(s)) = u[s] =>
              \A l \in Details(s) : IsValid(u[l]) => UsageItem(GroupOf(s), l, u[l]) \in items
         /\ IsValid(u[s]) /\ ~(u[s] > 0 /\ SafeSum(u, Details(s)) = u[s]) =>
              UsageItem(GroupOf(s), "none", u[s]) \in items
<1> DEFINE g == GroupOf(s)
           labels == Details(s)
<1>1. s \in TokenFields /\ labels \in SUBSET TokenFields /\ IsFiniteSet(labels)
  BY DetailsAre
<1>2. items = GroupItems(u, g, s, labels)
  BY DEF SideItems
<1>3. /\ IsValid(u[s]) /\ u[s] > 0 /\ SafeSum(u, labels) = u[s] =>
              \A l \in labels : IsValid(u[l]) => UsageItem(g, l, u[l]) \in items
      /\ IsValid(u[s]) /\ ~(u[s] > 0 /\ SafeSum(u, labels) = u[s]) =>
              UsageItem(g, "none", u[s]) \in items
  <2> HIDE DEF g, labels
  <2> QED BY <1>2 DEF GroupItems
<1>4. /\ IsFiniteSet(items)
      /\ \A i \in items : /\ i = UsageItem(g, i.label, i.amount) /\ i.group = g
                          /\ i.amount \in Nat /\ i.label \in labels \cup {"none"}
      /\ items = {} <=> ~IsValid(u[s])
  <2> HIDE DEF g, labels
  <2> QED BY <1>1, <1>2, GroupIs
<1>5. \A W \in [items -> Int] :
              SumFunction(W) =
                IF ~IsValid(u[s]) THEN 0
                ELSE IF u[s] > 0 /\ SafeSum(u, labels) = u[s]
                THEN SumFunction([l \in labels |->
                       IF IsValid(u[l]) THEN W[UsageItem(g, l, u[l])] ELSE 0])
                ELSE W[UsageItem(g, "none", u[s])]
  <2> HIDE DEF g, labels
  <2> QED BY <1>1, <1>2, GroupIs
<1> QED BY <1>3, <1>4, <1>5

(* A side has as many tokens as its items. *)
LEMMA SideAmounts ==
  ASSUME NEW u \in [TokenFields -> Count], NEW s \in {"in", "out"},
         NEW items, items = SideItems(u, s), NEW W \in [items -> Int],
         \A i \in items : W[i] = i.amount
  PROVE  SumFunction(W) = Counted(u[s])
<1>1. u[s] \in Count /\ \A l \in Details(s) : u[l] \in Count
  BY DetailsAre
<1> DEFINE e == [l \in Details(s) |-> IF IsValid(u[l]) THEN W[UsageItem(GroupOf(s), l, u[l])] ELSE 0]
<1>0. SumFunction(W) = IF ~IsValid(u[s]) THEN 0
                ELSE IF u[s] > 0 /\ SafeSum(u, Details(s)) = u[s]
                THEN SumFunction(e)
                ELSE W[UsageItem(GroupOf(s), "none", u[s])]
  BY SideIs
<1>2. CASE ~IsValid(u[s])
  <2>1. SumFunction(W) = 0
    <3> HIDE DEF e
    <3> QED BY <1>0, <1>2
  <2>2. Counted(u[s]) = 0
    BY <1>2 DEF Counted
  <2> QED BY <2>1, <2>2
<1>3. CASE IsValid(u[s]) /\ u[s] > 0 /\ SafeSum(u, Details(s)) = u[s]
  <2> DEFINE c == [l \in Details(s) |-> Counted(u[l])]
  <2>1. SumFunction(W) = SumFunction(e)
    <3> HIDE DEF e
    <3> QED BY <1>0, <1>3
  <2>2. ASSUME NEW l \in Details(s), IsValid(u[l])
        PROVE  W[UsageItem(GroupOf(s), l, u[l])] = u[l]
    <3>1. UsageItem(GroupOf(s), l, u[l]) \in items
      BY <1>3, <2>2, SideIs
    <3>2. UsageItem(GroupOf(s), l, u[l]).amount = u[l]
      BY DEF UsageItem
    <3> QED BY <3>1, <3>2
  <2>3. \A l \in Details(s) : e[l] = c[l]
    BY <2>2 DEF Counted
  <2>4. e = c
    BY <2>3
  <2>5. SafeSum(u, Details(s)) = SumFunction(c)
    BY DEF SafeSum
  <2>6. Counted(u[s]) = u[s]
    BY <1>3 DEF Counted
  <2> HIDE DEF e, c
  <2> QED BY <1>3, <2>1, <2>4, <2>5, <2>6
<1>4. CASE IsValid(u[s]) /\ ~(u[s] > 0 /\ SafeSum(u, Details(s)) = u[s])
  <2>1. SumFunction(W) = W[UsageItem(GroupOf(s), "none", u[s])]
    <3> HIDE DEF e
    <3> QED BY <1>0, <1>4
  <2>2. UsageItem(GroupOf(s), "none", u[s]) \in items
    BY <1>4, SideIs
  <2>3. UsageItem(GroupOf(s), "none", u[s]).amount = u[s]
    BY DEF UsageItem
  <2>4. Counted(u[s]) = u[s]
    BY <1>4 DEF Counted
  <2> QED BY <2>1, <2>2, <2>3, <2>4
<1> QED BY <1>2, <1>3, <1>4

(* A side costs what its bill says when each of its items does. *)
LEMMA SideCosts ==
  ASSUME NEW u \in [TokenFields -> Count], NEW rates, IsRates(rates), NEW s \in {"in", "out"},
         NEW items, items = SideItems(u, s), NEW W \in [items -> Int],
         \A i \in items : W[i] = i.amount * RateFor(rates, s, i.label)
  PROVE  SumFunction(W) = SideBill(u, rates, s)
<1>1. u[s] \in Count /\ \A l \in Details(s) : u[l] \in Count
  BY DetailsAre
<1>2. RateFor(rates, s, "none") = rates[s] /\ rates[s] \in Int
  BY DetailsAre DEF RateFor, IsRates, None
<1>3. SafeSum(u, Details(s)) \in Nat
  <2> DEFINE c == [l \in Details(s) |-> Counted(u[l])]
  <2>1. c \in [Details(s) -> Nat] /\ IsFiniteSet(Details(s))
    BY <1>1, CountedIs, DetailsAre
  <2>2. SumFunction(c) \in Nat
    <3> HIDE DEF c
    <3> QED BY <2>1, SumOfNaturals
  <2> QED BY <2>2 DEF SafeSum
<1>4. \A l \in Details(s) : RateFor(rates, s, l) \in Int
  BY DetailsAre DEF RateFor, IsRates, None
<1>5. ASSUME NEW l \in Details(s) PROVE ~IsValid(u[l]) => Counted(u[l]) * RateFor(rates, s, l) = 0
  BY <1>1, <1>4, CountedIs
<1> DEFINE e == [l \in Details(s) |-> IF IsValid(u[l]) THEN W[UsageItem(GroupOf(s), l, u[l])] ELSE 0]
           c == [l \in Details(s) |-> Counted(u[l]) * RateFor(rates, s, l)]
           detailed == u[s] > 0 /\ SafeSum(u, Details(s)) = u[s]
<1>6. SumFunction(W) = IF ~IsValid(u[s]) THEN 0
            ELSE IF detailed THEN SumFunction(e) ELSE W[UsageItem(GroupOf(s), "none", u[s])]
  BY SideIs
<1>7. SideBill(u, rates, s) = IF SafeSum(u, Details(s)) = u[s] THEN SumFunction(c) ELSE Counted(u[s]) * rates[s]
  BY DEF SideBill
<1>8. CASE ~IsValid(u[s])
  <2>1. u[s] # SafeSum(u, Details(s)) /\ Counted(u[s]) = 0
    BY <1>1, <1>3, <1>8 DEF Count, Counted, None, IsValid
  <2> HIDE DEF e, c, detailed
  <2> QED BY <1>2, <1>6, <1>7, <1>8, <2>1
<1>9. CASE IsValid(u[s]) /\ detailed
  <2>1. ASSUME NEW l \in Details(s), IsValid(u[l])
        PROVE  W[UsageItem(GroupOf(s), l, u[l])] = Counted(u[l]) * RateFor(rates, s, l)
    <3>1. UsageItem(GroupOf(s), l, u[l]) \in items
      BY <1>9, <2>1, SideIs
    <3>2. UsageItem(GroupOf(s), l, u[l]).amount = u[l] /\ UsageItem(GroupOf(s), l, u[l]).label = l
      BY DEF UsageItem
    <3>3. Counted(u[l]) = u[l]
      BY <2>1 DEF Counted
    <3> QED BY <3>1, <3>2, <3>3
  <2>2. \A l \in Details(s) : e[l] = c[l]
    BY <1>5, <2>1
  <2>3. e = c
    BY <2>2
  <2> HIDE DEF e, c
  <2> QED BY <1>6, <1>7, <1>9, <2>3
<1>10. CASE IsValid(u[s]) /\ ~detailed
  <2> DEFINE one == UsageItem(GroupOf(s), "none", u[s])
  <2>1. one \in items
    BY <1>10, SideIs
  <2>2. one.amount = u[s] /\ one.label = "none"
    BY DEF UsageItem
  <2>3. W[one] = u[s] * rates[s]
    <3> HIDE DEF one
    <3> QED BY <2>1, <2>2, <1>2
  <2>4. Counted(u[s]) = u[s] /\ u[s] \in Nat
    BY <1>1, <1>10, CountedIs
  <2>5. CASE SafeSum(u, Details(s)) # u[s]
    <3> HIDE DEF e, c, one
    <3> QED BY <1>6, <1>7, <1>10, <2>3, <2>4, <2>5 DEF one
  <2>6. CASE SafeSum(u, Details(s)) = u[s]
    <3>1. u[s] = 0
      BY <1>10, <2>4, <2>6
    <3> DEFINE v == [l \in Details(s) |-> Counted(u[l])]
    <3>2. v \in [Details(s) -> Nat] /\ IsFiniteSet(Details(s)) /\ SumFunction(v) = 0
      BY <1>1, <2>6, <3>1, CountedIs, DetailsAre DEF SafeSum
    <3>3. \A l \in Details(s) : v[l] <= 0
      <4> HIDE DEF v
      <4> QED BY <3>2, SumOfNaturals
    <3>4. \A l \in Details(s) : Counted(u[l]) = 0
      BY <3>3, <1>1, CountedIs
    <3>5. \A l \in Details(s) : Counted(u[l]) * RateFor(rates, s, l) = 0
      BY <3>4, <1>4
    <3>6. c \in [Details(s) -> Int] /\ \A l \in Details(s) : c[l] = 0
      BY <3>5
    <3>7. SumFunction(c) = 0
      <4> HIDE DEF c
      <4> QED BY <3>2, <3>6, SumOfZeros
    <3>8. W[one] = 0
      <4> HIDE DEF one
      <4> QED BY <2>3, <3>1, <1>2
    <3> HIDE DEF c, e, one
    <3> QED BY <1>6, <1>7, <1>10, <2>6, <3>7, <3>8 DEF one
  <2> QED BY <2>5, <2>6
<1> QED BY <1>8, <1>9, <1>10

LEMMA ItemsAre ==
  ASSUME NEW u \in [TokenFields -> Count], NEW n \in Nat, NEW label,
         NEW I, I = ItemsOf(u, n, label)
  PROVE  /\ IsFiniteSet(I)
         /\ \A i \in I : /\ i = UsageItem(i.group, i.label, i.amount) /\ i.amount \in Nat
                         /\ \/ i.group = "input" /\ i \in SideItems(u, "in") /\ i.label \in Details("in") \cup {"none"}
                            \/ i.group = "output" /\ i \in SideItems(u, "out") /\ i.label \in Details("out") \cup {"none"}
                            \/ i.group = "tools" /\ n > 0 /\ i = UsageItem("tools", label, n)
         /\ {i \in I : i.group = "input"} = SideItems(u, "in")
         /\ {i \in I : i.group = "output"} = SideItems(u, "out")
         /\ {i \in I : i.group = "tools"} = SearchItem(n, label)
<1> DEFINE A == SideItems(u, "in")
           B == SideItems(u, "out")
           T == SearchItem(n, label)
<1>1. /\ IsFiniteSet(A)
      /\ \A i \in A : /\ i = UsageItem("input", i.label, i.amount) /\ i.group = "input"
                      /\ i.amount \in Nat /\ i.label \in Details("in") \cup {"none"}
  BY SideIs DEF GroupOf
<1>2. /\ IsFiniteSet(B)
      /\ \A i \in B : /\ i = UsageItem("output", i.label, i.amount) /\ i.group = "output"
                      /\ i.amount \in Nat /\ i.label \in Details("out") \cup {"none"}
  BY SideIs DEF GroupOf
<1>3. /\ IsFiniteSet(T)
      /\ \A i \in T : /\ i = UsageItem(i.group, i.label, i.amount) /\ i.group = "tools" /\ i.amount \in Nat
                      /\ n > 0 /\ i = UsageItem("tools", label, n)
  <2>1. IsFiniteSet(T)
    BY FS_EmptySet, FS_Singleton DEF SearchItem
  <2> QED BY <2>1 DEF SearchItem, UsageItem
<1>4. I = A \cup B \cup T
  BY DEF ItemsOf
<1> HIDE DEF A, B, T
<1>5. IsFiniteSet(A \cup B)
  BY <1>1, <1>2, FS_Union
<1>6. IsFiniteSet(I)
  BY <1>3, <1>4, <1>5, FS_Union
<1>7. {i \in I : i.group = "input"} = A /\ {i \in I : i.group = "output"} = B /\ {i \in I : i.group = "tools"} = T
  BY <1>1, <1>2, <1>3, <1>4
<1>8. \A i \in I : /\ i = UsageItem(i.group, i.label, i.amount) /\ i.amount \in Nat
                         /\ \/ i.group = "input" /\ i \in A /\ i.label \in Details("in") \cup {"none"}
                            \/ i.group = "output" /\ i \in B /\ i.label \in Details("out") \cup {"none"}
                            \/ i.group = "tools" /\ n > 0 /\ i = UsageItem("tools", label, n)
  <2> SUFFICES ASSUME NEW i \in I
               PROVE  /\ i = UsageItem(i.group, i.label, i.amount) /\ i.amount \in Nat
                      /\ \/ i.group = "input" /\ i \in A /\ i.label \in Details("in") \cup {"none"}
                         \/ i.group = "output" /\ i \in B /\ i.label \in Details("out") \cup {"none"}
                         \/ i.group = "tools" /\ n > 0 /\ i = UsageItem("tools", label, n)
    OBVIOUS
  <2>1. CASE i \in A  BY <2>1, <1>1
  <2>2. CASE i \in B  BY <2>2, <1>2
  <2>3. CASE i \in T  BY <2>3, <1>3
  <2> QED BY <1>4, <2>1, <2>2, <2>3
<1> QED BY <1>6, <1>7, <1>8 DEF A, B, T

SplitSum(W, I, A, B, n, one) ==
    /\ SumFunction(W) = SumFunction(Restrict(W, A)) + SumFunction(Restrict(W, B))
                        + (IF n > 0 THEN W[one] ELSE 0)
    /\ Restrict(W, A) \in [A -> Int] /\ Restrict(W, B) \in [B -> Int]
    /\ A \in SUBSET I /\ B \in SUBSET I

LEMMA ItemsSum ==
  ASSUME NEW u \in [TokenFields -> Count], NEW n \in Nat, NEW label,
         NEW I, I = ItemsOf(u, n, label), NEW W \in [I -> Int]
  PROVE  SplitSum(W, I, SideItems(u, "in"), SideItems(u, "out"), n, UsageItem("tools", label, n))
<1> DEFINE A == SideItems(u, "in")
           B == SideItems(u, "out")
           T == SearchItem(n, label)
           one == UsageItem("tools", label, n)
<1>1. /\ IsFiniteSet(I) /\ A = {i \in I : i.group = "input"} /\ B = {i \in I : i.group = "output"}
      /\ T = {i \in I : i.group = "tools"} /\ I = (A \cup B) \cup T
  <2>1. /\ IsFiniteSet(I) /\ A = {i \in I : i.group = "input"} /\ B = {i \in I : i.group = "output"}
        /\ T = {i \in I : i.group = "tools"}
    <3> HIDE DEF A, B, T
    <3> QED BY ItemsAre DEF A, B, T
  <2>2. I = (A \cup B) \cup T
    BY DEF ItemsOf
  <2> QED BY <2>1, <2>2
<1>2. T = IF n > 0 THEN {one} ELSE {}
  BY DEF SearchItem
<1> HIDE DEF A, B, T, one
<1>3. /\ A \in SUBSET I /\ B \in SUBSET I /\ A \cap B = {} /\ T \in SUBSET I /\ (A \cup B) \in SUBSET I
      /\ (A \cup B) \cap T = {}
  BY <1>1
<1>4. SumFunction(Restrict(W, A \cup B)) = SumFunction(Restrict(W, A)) + SumFunction(Restrict(W, B))
  BY <1>1, <1>3, SumOfParts
<1>5. SumFunction(Restrict(W, (A \cup B) \cup T)) = SumFunction(Restrict(W, A \cup B)) + SumFunction(Restrict(W, T))
  BY <1>1, <1>3, SumOfParts
<1>6. Restrict(W, (A \cup B) \cup T) = W
  <2>1. Restrict(W, I) = W
    BY DEF Restrict
  <2> QED BY <1>1, <2>1, Zenon
<1>7. SumFunction(Restrict(W, T)) = IF n > 0 THEN W[one] ELSE 0
  <2>1. CASE n > 0
    <3>1. Restrict(W, {one}) \in [{one} -> Int] /\ Restrict(W, {one})[one] = W[one]
      BY <1>2, <1>3, <2>1 DEF Restrict
    <3>2. SumFunction(Restrict(W, {one})) = W[one]
      BY <3>1, SumOfOne
    <3> QED BY <3>2, <2>1, <1>2
  <2>2. CASE ~(n > 0)
    BY <2>2, <1>2, SumRestrictedToNone
  <2> QED BY <2>1, <2>2
<1>8. Restrict(W, A) \in [A -> Int] /\ Restrict(W, B) \in [B -> Int]
  BY <1>3 DEF Restrict
<1>9. SumFunction(W) = SumFunction(Restrict(W, A)) + SumFunction(Restrict(W, B)) + (IF n > 0 THEN W[one] ELSE 0)
  BY <1>4, <1>5, <1>6, <1>7
<1>10. SplitSum(W, I, A, B, n, one)
  BY <1>3, <1>8, <1>9 DEF SplitSum
<1> QED BY <1>10 DEF A, B, one

LEMMA GroupAmountIs ==
  ASSUME NEW u \in [TokenFields -> Count], NEW n \in Nat, NEW label,
         NEW I, I = ItemsOf(u, n, label), NEW s \in {"in", "out"}
  PROVE  GroupAmount(I, GroupOf(s)) = u[s]
<1> DEFINE of == SideItems(u, s)
           W == [i \in of |-> i.amount]
<1>1. of = {i \in I : i.group = GroupOf(s)}
  BY ItemsAre DEF GroupOf
<1>2. GroupAmount(I, GroupOf(s)) = IF of = {} THEN None ELSE SumFunction(W)
  BY <1>1 DEF GroupAmount
<1>3. /\ of = {} <=> ~IsValid(u[s])
      /\ \A i \in of : i.amount \in Nat
  BY SideIs
<1>4. W \in [of -> Int] /\ \A i \in of : W[i] = i.amount
  BY <1>3
<1>5. SumFunction(W) = Counted(u[s])
  <2> HIDE DEF W
  <2> QED BY <1>4, SideAmounts
<1>6. u[s] \in Count
  BY DetailsAre
<1> HIDE DEF W, of
<1> QED BY <1>2, <1>3, <1>5, <1>6, CountedIs

LEMMA ParseIs ==
  ASSUME NEW u \in [TokenFields -> Count], NEW usage, NEW steps, NEW label,
         ResolveUsage(usage, steps) = u, NEW n \in Nat, n = SearchesOf(steps),
         NEW parsed, parsed = ParseUsage(usage, steps, label)
  PROVE  /\ parsed.items = ItemsOf(u, n, label)
         /\ parsed.input = u["in"]
         /\ parsed.status = "complete" <=> IsValid(u["in"]) /\ IsValid(u["out"])
         /\ parsed.status \in {"complete", "incomplete"}
<1> DEFINE I == ItemsOf(u, n, label)
<1>1. parsed = [items |-> I, input |-> GroupAmount(I, "input"),
                status |-> IF IsValid(GroupAmount(I, "input")) /\ IsValid(GroupAmount(I, "output"))
                           THEN "complete" ELSE "incomplete"]
  <2>1. GroupItems(u, "input", "in", {"no_cache", "cache_read", "cache_write"}) = SideItems(u, "in")
    BY DEF SideItems, GroupOf, Details
  <2>2. GroupItems(u, "output", "out", {"text", "reasoning"}) = SideItems(u, "out")
    BY DEF SideItems, GroupOf, Details
  <2>3. SearchItems(steps, label) = SearchItem(n, label)
    BY DEF SearchItems, SearchItem
  <2> QED BY <2>1, <2>2, <2>3 DEF ParseUsage, ItemsOf
<1>2. GroupAmount(I, "input") = u["in"] /\ GroupAmount(I, "output") = u["out"]
  <2>1. GroupOf("in") = "input" /\ GroupOf("out") = "output"
    BY DEF GroupOf
  <2> HIDE DEF I
  <2>2. GroupAmount(I, GroupOf("in")) = u["in"]
    BY GroupAmountIs DEF I
  <2>3. GroupAmount(I, GroupOf("out")) = u["out"]
    BY GroupAmountIs DEF I
  <2> QED BY <2>1, <2>2, <2>3
<1> HIDE DEF I
<1> QED BY <1>1, <1>2 DEF I

(* A price with the exact rate a, with another, or none. *)
Well(price, a) ==
    /\ price.ppm \in Count /\ price.status \in {"ok", "fallback", "missing"}
    /\ (price.status = "missing") <=> ~IsValid(price.ppm)
    /\ price.status = "ok" => price.ppm = a /\ IsValid(a)

LEMMA ValueOfOne ==
  ASSUME NEW a \in Count
  PROVE  ResolveValue(<<a>>) = IF IsValid(a) THEN [ppm |-> a, status |-> "ok"]
                               ELSE [ppm |-> None, status |-> "missing"]
<1> DEFINE values == <<a>>
           valid == {i \in DOMAIN values : IsValid(values[i])}
           first == CHOOSE i \in valid : \A j \in valid : i <= j
<1>1. valid = IF IsValid(a) THEN {1} ELSE {}
  OBVIOUS
<1>2. IsValid(a) => first = 1
  <2> SUFFICES ASSUME IsValid(a) PROVE first = 1
    OBVIOUS
  <2>1. \E i \in valid : \A j \in valid : i <= j
    BY <1>1
  <2>2. first \in valid
    <3> HIDE DEF valid
    <3> QED BY <2>1
  <2> HIDE DEF first
  <2> QED BY <1>1, <2>2
<1>3. ResolveValue(<<a>>) = IF valid = {} THEN [ppm |-> None, status |-> "missing"]
                            ELSE [ppm |-> values[first], status |-> IF first = 1 THEN "ok" ELSE "fallback"]
  BY DEF ResolveValue
<1>4. values[1] = a
  OBVIOUS
<1> HIDE DEF first, valid, values
<1> QED BY <1>1, <1>2, <1>3, <1>4

LEMMA ValueOfTwo ==
  ASSUME NEW a \in Count, NEW b \in Count
  PROVE  ResolveValue(<<a, b>>) =
           IF IsValid(a) THEN [ppm |-> a, status |-> "ok"]
           ELSE IF IsValid(b) THEN [ppm |-> b, status |-> "fallback"]
           ELSE [ppm |-> None, status |-> "missing"]
<1> DEFINE values == <<a, b>>
           valid == {i \in DOMAIN values : IsValid(values[i])}
           first == CHOOSE i \in valid : \A j \in valid : i <= j
<1>1. valid = (IF IsValid(a) THEN {1} ELSE {}) \cup (IF IsValid(b) THEN {2} ELSE {})
  OBVIOUS
<1>2. valid # {} => first \in valid /\ \A j \in valid : first <= j
  <2> SUFFICES ASSUME valid # {} PROVE first \in valid /\ \A j \in valid : first <= j
    OBVIOUS
  <2>1. \E i \in valid : \A j \in valid : i <= j
    <3>1. CASE IsValid(a)
      <4>1. 1 \in valid /\ \A j \in valid : 1 <= j
        BY <1>1, <3>1
      <4> QED BY <4>1
    <3>2. CASE ~IsValid(a)
      <4>1. 2 \in valid /\ \A j \in valid : 2 <= j
        BY <1>1, <3>2
      <4> QED BY <4>1
    <3> QED BY <3>1, <3>2
  <2> HIDE DEF valid
  <2> QED BY <2>1
<1>3. ResolveValue(<<a, b>>) = IF valid = {} THEN [ppm |-> None, status |-> "missing"]
                            ELSE [ppm |-> values[first], status |-> IF first = 1 THEN "ok" ELSE "fallback"]
  BY DEF ResolveValue
<1>4. values[1] = a /\ values[2] = b
  OBVIOUS
<1> HIDE DEF first, valid, values
<1>5. CASE IsValid(a)
  <2>1. first = 1
    BY <1>1, <1>2, <1>5
  <2> QED BY <1>1, <1>3, <1>4, <1>5, <2>1
<1>6. CASE ~IsValid(a) /\ IsValid(b)
  <2>1. first = 2
    BY <1>1, <1>2, <1>6
  <2> QED BY <1>1, <1>3, <1>4, <1>6, <2>1
<1>7. CASE ~IsValid(a) /\ ~IsValid(b)
  BY <1>1, <1>3, <1>7
<1> QED BY <1>5, <1>6, <1>7

LEMMA WellPriced ==
  ASSUME NEW a \in Count, NEW b \in Count
  PROVE  Well(ResolveValue(<<a>>), a) /\ Well(ResolveValue(<<a, b>>), a)
<1>0. None \in Count /\ ~IsValid(None)
  BY DEF Count, None, IsValid
<1>1. Well(ResolveValue(<<a>>), a)
  <2>1. CASE IsValid(a)
    <3>1. ResolveValue(<<a>>) = [ppm |-> a, status |-> "ok"]
      BY <2>1, ValueOfOne
    <3> QED BY <2>1, <3>1 DEF Well
  <2>2. CASE ~IsValid(a)
    <3>1. ResolveValue(<<a>>) = [ppm |-> None, status |-> "missing"]
      BY <2>2, ValueOfOne
    <3> QED BY <1>0, <3>1 DEF Well
  <2> QED BY <2>1, <2>2
<1>2. Well(ResolveValue(<<a, b>>), a)
  <2>1. CASE IsValid(a)
    <3>1. ResolveValue(<<a, b>>) = [ppm |-> a, status |-> "ok"]
      BY <2>1, ValueOfTwo
    <3> QED BY <2>1, <3>1 DEF Well
  <2>2. CASE ~IsValid(a) /\ IsValid(b)
    <3>1. ResolveValue(<<a, b>>) = [ppm |-> b, status |-> "fallback"]
      BY <2>2, ValueOfTwo
    <3> QED BY <2>2, <3>1 DEF Well
  <2>3. CASE ~IsValid(a) /\ ~IsValid(b)
    <3>1. ResolveValue(<<a, b>>) = [ppm |-> None, status |-> "missing"]
      BY <2>3, ValueOfTwo
    <3> QED BY <1>0, <3>1 DEF Well
  <2> QED BY <2>1, <2>2, <2>3
<1> QED BY <1>1, <1>2

(* What an exact price is. *)
RateOf(group, label, rates) ==
    CASE group = "tools" -> SearchRate(label)
      [] group = "input" -> RateFor(rates, "in", label)
      [] group = "output" -> RateFor(rates, "out", label)

LEMMA PriceIs ==
  ASSUME NEW rates, IsRates(rates), NEW group, NEW label,
         NEW price, price = ResolvePrice(group, label, rates),
         \/ group = "tools"
         \/ group = "input" /\ label \in Details("in") \cup {"none"}
         \/ group = "output" /\ label \in Details("out") \cup {"none"}
  PROVE  Well(price, RateOf(group, label, rates))
<1>1. \A f \in TokenFields : rates[f] \in Count
  BY DEF IsRates, Count
<1>r. /\ "in" \in TokenFields /\ "out" \in TokenFields /\ "reasoning" \in TokenFields
      /\ "cache_read" \in TokenFields /\ "cache_write" \in TokenFields /\ DOMAIN rates = TokenFields
      /\ "none" \notin TokenFields
  BY DEF TokenFields, IsRates
<1>2. CASE group = "tools"
  <2>1. SearchRate(label) \in Count
    BY DEF SearchRate, Count, None
  <2>2. price = ResolveValue(<<SearchRate(label)>>)
    BY <1>2 DEF ResolvePrice
  <2>3. RateOf(group, label, rates) = SearchRate(label)
    BY <1>2 DEF RateOf
  <2> QED BY <2>1, <2>2, <2>3, WellPriced
<1>3. CASE group = "input" /\ label \in {"cache_read", "cache_write"}
  <2>1. price = ResolveValue(<<rates[label], rates["in"]>>)
    BY <1>3 DEF ResolvePrice
  <2>2. RateOf(group, label, rates) = RateFor(rates, "in", label)
    BY <1>3 DEF RateOf
  <2>3. IsValid(rates[label]) => RateFor(rates, "in", label) = rates[label]
    BY <1>3, <1>r DEF RateFor
  <2>4. rates[label] \in Count /\ rates["in"] \in Count
    BY <1>1, <1>3, <1>r
  <2>5. Well(price, rates[label])
    BY <2>1, <2>4, WellPriced
  <2> QED BY <2>2, <2>3, <2>5 DEF Well
<1>4. CASE group = "input" /\ label \in {"no_cache", "none"}
  <2>1. price = ResolveValue(<<rates["in"]>>)
    BY <1>4 DEF ResolvePrice
  <2>2. RateOf(group, label, rates) = RateFor(rates, "in", label)
    BY <1>4 DEF RateOf
  <2>3. RateFor(rates, "in", label) = rates["in"]
    BY <1>4, <1>r DEF RateFor
  <2>4. rates["in"] \in Count
    BY <1>1, <1>r
  <2> QED BY <2>1, <2>2, <2>3, <2>4, WellPriced
<1>5. CASE group = "output" /\ label = "reasoning"
  <2>1. price = ResolveValue(<<rates["reasoning"], rates["out"]>>)
    BY <1>5 DEF ResolvePrice
  <2>2. RateOf(group, label, rates) = RateFor(rates, "out", "reasoning")
    BY <1>5 DEF RateOf
  <2>3. IsValid(rates["reasoning"]) => RateFor(rates, "out", "reasoning") = rates["reasoning"]
    BY <1>r DEF RateFor
  <2>4. rates["reasoning"] \in Count /\ rates["out"] \in Count
    BY <1>1, <1>r
  <2>5. Well(price, rates["reasoning"])
    BY <2>1, <2>4, WellPriced
  <2> QED BY <2>2, <2>3, <2>5 DEF Well
<1>6. CASE group = "output" /\ label \in {"text", "none"}
  <2>1. price = ResolveValue(<<rates["out"]>>)
    BY <1>6 DEF ResolvePrice
  <2>2. RateOf(group, label, rates) = RateFor(rates, "out", label)
    BY <1>6 DEF RateOf
  <2>3. RateFor(rates, "out", label) = rates["out"]
    BY <1>6, <1>r DEF RateFor
  <2>4. rates["out"] \in Count
    BY <1>1, <1>r
  <2> QED BY <2>1, <2>2, <2>3, <2>4, WellPriced
<1> QED BY <1>2, <1>3, <1>4, <1>5, <1>6, DetailsAre

(* What an item costs. *)
CostOf(i, tier, uncertain) ==
    LET price == ResolvePrice(i.group, i.label, tier.rates) IN
    [group |-> i.group, label |-> i.label, amount |-> i.amount, ppm |-> price.ppm,
     status |-> IF i.group # "tools" /\ price.status = "ok" /\ uncertain THEN "uncertain"
                ELSE price.status,
     tier |-> IF i.group = "tools" THEN None ELSE tier.size]

LEMMA CostItemsAre ==
  ASSUME NEW usage, NEW tier, NEW uncertain
  PROVE  CostItems(usage, tier, uncertain) = {CostOf(i, tier, uncertain) : i \in usage.items}
BY DEF CostItems, CostOf

Charge(c) == IF IsValid(c.ppm) THEN c.amount * c.ppm ELSE 0
PricedAmount(c) == IF IsValid(c.ppm) THEN c.amount ELSE 0
LacksPrice(c) == c.amount > 0 /\ c.status = "missing"
Exact(c) == c.amount > 0 => c.status \notin {"missing", "fallback", "uncertain"}

LEMMA CostOfItem ==
  ASSUME NEW tier, IsRates(tier.rates), NEW uncertain \in BOOLEAN, NEW i, i.amount \in Nat,
         NEW c, c = CostOf(i, tier, uncertain),
         \/ i.group = "tools"
         \/ i.group = "input" /\ i.label \in Details("in") \cup {"none"}
         \/ i.group = "output" /\ i.label \in Details("out") \cup {"none"}
  PROVE  /\ c.group = i.group /\ c.label = i.label /\ c.amount = i.amount
         /\ Charge(c) \in Int /\ PricedAmount(c) \in Int
         /\ ~LacksPrice(c) => PricedAmount(c) = i.amount
         /\ Exact(c) => Charge(c) = i.amount * RateOf(i.group, i.label, tier.rates)
         /\ Exact(c) /\ uncertain /\ i.group # "tools" => i.amount = 0
<1> DEFINE price == ResolvePrice(i.group, i.label, tier.rates)
           rate == RateOf(i.group, i.label, tier.rates)
<1>1. /\ price.ppm \in Count
      /\ price.status \in {"ok", "fallback", "missing"}
      /\ price.status = "missing" <=> ~IsValid(price.ppm)
      /\ price.status = "ok" => price.ppm = rate /\ IsValid(price.ppm)
  <2>1. Well(price, rate)
    BY PriceIs
  <2> HIDE DEF price, rate
  <2> QED BY <2>1 DEF Well
<1>2. /\ c.group = i.group /\ c.label = i.label /\ c.amount = i.amount /\ c.ppm = price.ppm
      /\ c.status = IF i.group # "tools" /\ price.status = "ok" /\ uncertain THEN "uncertain"
                    ELSE price.status
  BY DEF CostOf
<1>3. rate \in Int
  <2>1. SearchRate(i.label) \in Int
    BY DEF SearchRate, None
  <2>2. \A s \in {"in", "out"} : \A l \in Details(s) \cup {"none"} : RateFor(tier.rates, s, l) \in Int
    BY DetailsAre DEF RateFor, IsRates, None
  <2> QED BY <2>1, <2>2 DEF RateOf
<1> HIDE DEF price, rate
<1>4. Charge(c) \in Int /\ PricedAmount(c) \in Int
  BY <1>1, <1>2 DEF Charge, PricedAmount, IsValid, Count, None
<1>5. ~LacksPrice(c) => PricedAmount(c) = i.amount
  BY <1>1, <1>2 DEF LacksPrice, PricedAmount
<1>6. Exact(c) => Charge(c) = i.amount * rate
  <2>1. CASE i.amount = 0
    <3>1. i.amount * rate = 0
      BY <1>3, <2>1
    <3>2. Charge(c) = 0
      <4>1. price.ppm \in Int
        BY <1>1 DEF Count, None
      <4> QED BY <1>2, <2>1, <4>1 DEF Charge
    <3> QED BY <3>1, <3>2
  <2>2. CASE i.amount > 0
    BY <1>1, <1>2, <2>2 DEF Exact, Charge
  <2> QED BY <2>1, <2>2
<1>7. Exact(c) /\ uncertain /\ i.group # "tools" => i.amount = 0
  BY <1>1, <1>2 DEF Exact
<1> QED BY <1>2, <1>4, <1>5, <1>6, <1>7 DEF rate

(* Priced by a tier, item by item. *)
Prices(I, tier, uncertain) == [i \in I |-> CostOf(i, tier, uncertain)]

LEMMA PricesAre ==
  ASSUME NEW u \in [TokenFields -> Count], NEW n \in Nat, NEW label, NEW tier, IsRates(tier.rates),
         NEW uncertain \in BOOLEAN, NEW usage, usage.items = ItemsOf(u, n, label),
         NEW list, list = CostItems(usage, tier, uncertain),
         NEW m, m = Prices(ItemsOf(u, n, label), tier, uncertain)
  PROVE  LET I == ItemsOf(u, n, label) IN
         /\ IsFiniteSet(I) /\ IsFiniteSet(list)
         /\ m \in [I -> list]
         /\ \A i \in I, j \in I : m[i] = m[j] => i = j
         /\ \A c \in list : \E i \in I : m[i] = c
         /\ \A i \in I :
              /\ m[i] \in list /\ Charge(m[i]) \in Int /\ PricedAmount(m[i]) \in Int
              /\ ~LacksPrice(m[i]) => PricedAmount(m[i]) = i.amount
              /\ Exact(m[i]) => Charge(m[i]) = i.amount * RateOf(i.group, i.label, tier.rates)
              /\ Exact(m[i]) /\ uncertain /\ i.group # "tools" => i.amount = 0
<1> DEFINE I == ItemsOf(u, n, label)
<1>1. /\ IsFiniteSet(I)
      /\ \A i \in I : /\ i = UsageItem(i.group, i.label, i.amount) /\ i.amount \in Nat
                      /\ \/ i.group = "tools"
                         \/ i.group = "input" /\ i.label \in Details("in") \cup {"none"}
                         \/ i.group = "output" /\ i.label \in Details("out") \cup {"none"}
  <2>1. IsFiniteSet(I)
    BY ItemsAre
  <2>2. ASSUME NEW i \in I
        PROVE  /\ i = UsageItem(i.group, i.label, i.amount) /\ i.amount \in Nat
               /\ \/ i.group = "tools"
                  \/ i.group = "input" /\ i.label \in Details("in") \cup {"none"}
                  \/ i.group = "output" /\ i.label \in Details("out") \cup {"none"}
    <3>1. /\ i = UsageItem(i.group, i.label, i.amount) /\ i.amount \in Nat
          /\ \/ i.group = "input" /\ i \in SideItems(u, "in") /\ i.label \in Details("in") \cup {"none"}
             \/ i.group = "output" /\ i \in SideItems(u, "out") /\ i.label \in Details("out") \cup {"none"}
             \/ i.group = "tools" /\ n > 0 /\ i = UsageItem("tools", label, n)
      BY ItemsAre
    <3> HIDE DEF I
    <3> QED BY <3>1
  <2> HIDE DEF I
  <2> QED BY <2>1, <2>2
<1>2. list = {CostOf(i, tier, uncertain) : i \in I}
  BY CostItemsAre
<1>3. m = [i \in I |-> CostOf(i, tier, uncertain)]
  BY DEF Prices
<1> HIDE DEF I
<1>4. m \in [I -> list] /\ \A c \in list : \E i \in I : m[i] = c
  BY <1>2, <1>3
<1>5. ASSUME NEW i \in I
      PROVE  /\ m[i].group = i.group /\ m[i].label = i.label /\ m[i].amount = i.amount
             /\ Charge(m[i]) \in Int /\ PricedAmount(m[i]) \in Int
             /\ ~LacksPrice(m[i]) => PricedAmount(m[i]) = i.amount
             /\ Exact(m[i]) => Charge(m[i]) = i.amount * RateOf(i.group, i.label, tier.rates)
             /\ Exact(m[i]) /\ uncertain /\ i.group # "tools" => i.amount = 0
  <2>1. m[i] = CostOf(i, tier, uncertain)
    BY <1>3
  <2>2. /\ i.amount \in Nat
        /\ \/ i.group = "tools"
           \/ i.group = "input" /\ i.label \in Details("in") \cup {"none"}
           \/ i.group = "output" /\ i.label \in Details("out") \cup {"none"}
    BY <1>1
  <2> QED BY <2>1, <2>2, CostOfItem
<1>6. \A i \in I, j \in I : m[i] = m[j] => i = j
  <2> SUFFICES ASSUME NEW i \in I, NEW j \in I, m[i] = m[j] PROVE i = j
    OBVIOUS
  <2>1. i.group = j.group /\ i.label = j.label /\ i.amount = j.amount
    <3>1. m[i].group = i.group /\ m[i].label = i.label /\ m[i].amount = i.amount
      BY <1>5
    <3>2. m[j].group = j.group /\ m[j].label = j.label /\ m[j].amount = j.amount
      BY <1>5
    <3> QED BY <3>1, <3>2
  <2>2. i = UsageItem(i.group, i.label, i.amount) /\ j = UsageItem(j.group, j.label, j.amount)
    BY <1>1
  <2> QED BY <2>1, <2>2, Zenon
<1>7. IsFiniteSet(list)
  <2>1. m \in Surjection(I, list)
    BY <1>4 DEF Surjection
  <2> QED BY <1>1, <2>1, FS_Surjection
<1>8. \A i \in I :
              /\ m[i] \in list /\ Charge(m[i]) \in Int /\ PricedAmount(m[i]) \in Int
              /\ ~LacksPrice(m[i]) => PricedAmount(m[i]) = i.amount
              /\ Exact(m[i]) => Charge(m[i]) = i.amount * RateOf(i.group, i.label, tier.rates)
              /\ Exact(m[i]) /\ uncertain /\ i.group # "tools" => i.amount = 0
  BY <1>4, <1>5
<1> QED BY <1>1, <1>4, <1>6, <1>7, <1>8, Zenon DEF I

LEMMA ListSums ==
  ASSUME NEW u \in [TokenFields -> Count], NEW n \in Nat, NEW label, NEW tier, IsRates(tier.rates),
         NEW uncertain \in BOOLEAN, NEW usage, usage.items = ItemsOf(u, n, label),
         NEW list, list = CostItems(usage, tier, uncertain),
         NEW I, I = ItemsOf(u, n, label), NEW m, m = Prices(ItemsOf(u, n, label), tier, uncertain),
         NEW total, total = [i \in I |-> Charge(m[i])],
         NEW priced, priced = [i \in I |-> PricedAmount(m[i])]
  PROVE  /\ total \in [I -> Int] /\ priced \in [I -> Int]
         /\ TotalOf(list) = SumFunction(total) /\ PricedOf(list) = SumFunction(priced)
         /\ TotalOf(list) \in Int /\ PricedOf(list) \in Int
<1> DEFINE charges == [c \in list |-> Charge(c)]
           amounts == [c \in list |-> PricedAmount(c)]
<1>1. /\ IsFiniteSet(I) /\ IsFiniteSet(list) /\ m \in [I -> list]
      /\ \A i \in I, j \in I : m[i] = m[j] => i = j
      /\ \A c \in list : \E i \in I : m[i] = c
      /\ \A i \in I : m[i] \in list /\ Charge(m[i]) \in Int /\ PricedAmount(m[i]) \in Int
  BY PricesAre
<1>2. total \in [I -> Int] /\ priced \in [I -> Int]
  BY <1>1
<1>3. charges \in [list -> Int] /\ amounts \in [list -> Int]
  BY <1>1
<1>4. /\ \A i \in I : total[i] = charges[m[i]]
      /\ \A i \in I : priced[i] = amounts[m[i]]
  BY <1>1
<1>5. TotalOf(list) = SumFunction(charges) /\ PricedOf(list) = SumFunction(amounts)
  BY DEF TotalOf, PricedOf, Charge, PricedAmount
<1> HIDE DEF charges, amounts
<1>6. SumFunction(total) = SumFunction(charges)
  BY <1>1, <1>2, <1>3, <1>4, SumByName
<1>7. SumFunction(priced) = SumFunction(amounts)
  BY <1>1, <1>2, <1>3, <1>4, SumByName
<1>8. SumFunction(charges) \in Int /\ SumFunction(amounts) \in Int
  BY <1>1, <1>3, SumType DEF IsSummable
<1> QED BY <1>2, <1>5, <1>6, <1>7, <1>8

(* Everything has a price: the list is priced for all the tokens and searches. *)
LEMMA ListPriced ==
  ASSUME NEW u \in [TokenFields -> Count], NEW n \in Nat, NEW label, NEW tier, IsRates(tier.rates),
         NEW uncertain \in BOOLEAN, NEW usage, usage.items = ItemsOf(u, n, label),
         NEW list, list = CostItems(usage, tier, uncertain),
         \A c \in list : ~LacksPrice(c)
  PROVE  PricedOf(list) = Counted(u["in"]) + Counted(u["out"]) + n
<1> DEFINE I == ItemsOf(u, n, label)
           m == Prices(I, tier, uncertain)
           W == [i \in I |-> PricedAmount(m[i])]
           A == SideItems(u, "in")
           B == SideItems(u, "out")
           one == UsageItem("tools", label, n)
<1>1. W \in [I -> Int] /\ PricedOf(list) = SumFunction(W)
  <2> DEFINE total == [i \in I |-> Charge(m[i])]
  <2>1. I = ItemsOf(u, n, label) /\ m = Prices(ItemsOf(u, n, label), tier, uncertain)
    OBVIOUS
  <2>2. W = [i \in I |-> PricedAmount(m[i])] /\ total = [i \in I |-> Charge(m[i])]
    OBVIOUS
  <2> HIDE DEF I, m, W, total
  <2> QED BY <2>1, <2>2, ListSums
<1>2. /\ \A i \in I : m[i] \in list
      /\ \A i \in I : ~LacksPrice(m[i]) => PricedAmount(m[i]) = i.amount
  BY PricesAre
<1>3. \A i \in I : W[i] = i.amount
  <2> HIDE DEF I, m
  <2> QED BY <1>2
<1>4. /\ SumFunction(W) = SumFunction(Restrict(W, A)) + SumFunction(Restrict(W, B))
                          + (IF n > 0 THEN W[one] ELSE 0)
      /\ Restrict(W, A) \in [A -> Int] /\ Restrict(W, B) \in [B -> Int]
      /\ A \in SUBSET I /\ B \in SUBSET I
  <2>1. I = ItemsOf(u, n, label)
    OBVIOUS
  <2>2. SplitSum(W, I, A, B, n, one)
    <3> HIDE DEF W, m, I
    <3> QED BY <1>1, <2>1, ItemsSum
  <2> HIDE DEF W, m, I, A, B, one
  <2> QED BY <2>2 DEF SplitSum
<1>5. \A i \in A : Restrict(W, A)[i] = i.amount
  <2> HIDE DEF W, A, I
  <2> QED BY <1>3, <1>4 DEF Restrict
<1>6. \A i \in B : Restrict(W, B)[i] = i.amount
  <2> HIDE DEF W, B, I
  <2> QED BY <1>3, <1>4 DEF Restrict
<1>7. SumFunction(Restrict(W, A)) = Counted(u["in"])
  <2> HIDE DEF W
  <2> QED BY <1>4, <1>5, SideAmounts
<1>8. SumFunction(Restrict(W, B)) = Counted(u["out"])
  <2> HIDE DEF W
  <2> QED BY <1>4, <1>6, SideAmounts
<1>9. (IF n > 0 THEN W[one] ELSE 0) = n
  <2>1. n > 0 => one \in I
    BY DEF ItemsOf, SearchItem
  <2>2. one.amount = n
    BY DEF UsageItem
  <2> HIDE DEF W, one, I
  <2> QED BY <1>3, <2>1, <2>2
<1> HIDE DEF W, A, B, I, one
<1> QED BY <1>1, <1>4, <1>7, <1>8, <1>9

(* Every price is the exact one: the list charges what a provider would bill. *)
LEMMA ListBill ==
  ASSUME NEW u \in [TokenFields -> Count], NEW n \in Nat, NEW label, NEW tier, IsRates(tier.rates),
         NEW uncertain \in BOOLEAN, NEW usage, usage.items = ItemsOf(u, n, label),
         NEW list, list = CostItems(usage, tier, uncertain),
         \A c \in list : Exact(c)
  PROVE  /\ TotalOf(list) = SideBill(u, tier.rates, "in") + SideBill(u, tier.rates, "out")
                            + n * SearchRate(label)
         /\ SideBill(u, tier.rates, "in") \in Int /\ SideBill(u, tier.rates, "out") \in Int
         /\ uncertain => Counted(u["in"]) = 0 /\ Counted(u["out"]) = 0
<1> DEFINE I == ItemsOf(u, n, label)
           m == Prices(I, tier, uncertain)
           W == [i \in I |-> Charge(m[i])]
           A == SideItems(u, "in")
           B == SideItems(u, "out")
           one == UsageItem("tools", label, n)
           rate(i) == RateOf(i.group, i.label, tier.rates)
<1>1. W \in [I -> Int] /\ TotalOf(list) = SumFunction(W)
  <2> DEFINE priced == [i \in I |-> PricedAmount(m[i])]
  <2>1. I = ItemsOf(u, n, label) /\ m = Prices(ItemsOf(u, n, label), tier, uncertain)
    OBVIOUS
  <2>2. W = [i \in I |-> Charge(m[i])] /\ priced = [i \in I |-> PricedAmount(m[i])]
    OBVIOUS
  <2> HIDE DEF I, m, W, priced
  <2> QED BY <2>1, <2>2, ListSums
<1>2. /\ \A i \in I : m[i] \in list
      /\ \A i \in I : Exact(m[i]) => Charge(m[i]) = i.amount * rate(i)
      /\ \A i \in I : Exact(m[i]) /\ uncertain /\ i.group # "tools" => i.amount = 0
  BY PricesAre
<1>3. \A i \in I : W[i] = i.amount * rate(i) /\ (uncertain /\ i.group # "tools" => i.amount = 0)
  <2> HIDE DEF I, m, rate
  <2> QED BY <1>2
<1>4. /\ SumFunction(W) = SumFunction(Restrict(W, A)) + SumFunction(Restrict(W, B))
                          + (IF n > 0 THEN W[one] ELSE 0)
      /\ Restrict(W, A) \in [A -> Int] /\ Restrict(W, B) \in [B -> Int]
      /\ A \in SUBSET I /\ B \in SUBSET I
  <2>1. I = ItemsOf(u, n, label)
    OBVIOUS
  <2>2. SplitSum(W, I, A, B, n, one)
    <3> HIDE DEF W, m, I
    <3> QED BY <1>1, <2>1, ItemsSum
  <2> HIDE DEF W, m, I, A, B, one
  <2> QED BY <2>2 DEF SplitSum
<1>5. /\ \A i \in A : i.group = "input" /\ i.amount \in Nat
      /\ \A i \in B : i.group = "output" /\ i.amount \in Nat
      /\ IsFiniteSet(A) /\ IsFiniteSet(B)
  BY SideIs DEF GroupOf
<1>6. \A i \in A : Restrict(W, A)[i] = i.amount * RateFor(tier.rates, "in", i.label)
  <2>1. \A i \in A : rate(i) = RateFor(tier.rates, "in", i.label)
    BY <1>5 DEF RateOf
  <2> HIDE DEF W, A, I, rate
  <2> QED BY <1>3, <1>4, <2>1 DEF Restrict
<1>7. \A i \in B : Restrict(W, B)[i] = i.amount * RateFor(tier.rates, "out", i.label)
  <2>1. \A i \in B : rate(i) = RateFor(tier.rates, "out", i.label)
    BY <1>5 DEF RateOf
  <2> HIDE DEF W, B, I, rate
  <2> QED BY <1>3, <1>4, <2>1 DEF Restrict
<1>8. SumFunction(Restrict(W, A)) = SideBill(u, tier.rates, "in") /\ SumFunction(Restrict(W, A)) \in Int
  <2>1. SumFunction(Restrict(W, A)) = SideBill(u, tier.rates, "in")
    <3> HIDE DEF W
    <3> QED BY <1>4, <1>6, SideCosts
  <2>2. SumFunction(Restrict(W, A)) \in Int
    <3> HIDE DEF W, A
    <3> QED BY <1>4, <1>5, SumType DEF IsSummable
  <2> QED BY <2>1, <2>2
<1>9. SumFunction(Restrict(W, B)) = SideBill(u, tier.rates, "out") /\ SumFunction(Restrict(W, B)) \in Int
  <2>1. SumFunction(Restrict(W, B)) = SideBill(u, tier.rates, "out")
    <3> HIDE DEF W
    <3> QED BY <1>4, <1>7, SideCosts
  <2>2. SumFunction(Restrict(W, B)) \in Int
    <3> HIDE DEF W, B
    <3> QED BY <1>4, <1>5, SumType DEF IsSummable
  <2> QED BY <2>1, <2>2
<1>10. (IF n > 0 THEN W[one] ELSE 0) = n * SearchRate(label)
  <2>1. n > 0 => one \in I
    BY DEF ItemsOf, SearchItem
  <2>2. one.amount = n /\ rate(one) = SearchRate(label)
    BY DEF UsageItem, RateOf
  <2>3. SearchRate(label) \in Int
    BY DEF SearchRate, None
  <2>4. n = 0 => n * SearchRate(label) = 0
    BY <2>3
  <2> HIDE DEF W, one, I, rate
  <2> QED BY <1>3, <2>1, <2>2, <2>4
<1>11. uncertain => Counted(u["in"]) = 0 /\ Counted(u["out"]) = 0
  <2> SUFFICES ASSUME uncertain PROVE Counted(u["in"]) = 0 /\ Counted(u["out"]) = 0
    OBVIOUS
  <2> DEFINE a == [i \in A |-> i.amount]
             b == [i \in B |-> i.amount]
  <2>1. \A i \in A : a[i] = i.amount /\ a[i] = 0
    <3> HIDE DEF I, W, rate, A
    <3> QED BY <1>3, <1>4, <1>5
  <2>2. \A i \in B : b[i] = i.amount /\ b[i] = 0
    <3> HIDE DEF I, W, rate, B
    <3> QED BY <1>3, <1>4, <1>5
  <2>3. a \in [A -> Int] /\ b \in [B -> Int]
    BY <1>5
  <2>4. SumFunction(a) = 0
    <3> HIDE DEF a, A
    <3> QED BY <1>5, <2>1, <2>3, SumOfZeros
  <2>5. SumFunction(b) = 0
    <3> HIDE DEF b, B
    <3> QED BY <1>5, <2>2, <2>3, SumOfZeros
  <2>6. SumFunction(a) = Counted(u["in"])
    <3> HIDE DEF a
    <3> QED BY <2>1, <2>3, SideAmounts
  <2>7. SumFunction(b) = Counted(u["out"])
    <3> HIDE DEF b
    <3> QED BY <2>2, <2>3, SideAmounts
  <2> QED BY <2>4, <2>5, <2>6, <2>7
<1> HIDE DEF W, A, B, I, one
<1> QED BY <1>1, <1>4, <1>8, <1>9, <1>10, <1>11

(* A table of numbers by rows and by columns, and the sums of its rows. *)
Tables(F, G, S, T) ==
    /\ IsFiniteSet(S) /\ IsFiniteSet(T) /\ F \in [S -> [T -> Int]] /\ G \in [T -> [S -> Int]]
    /\ \A i \in S : \A l \in T : G[l][i] = F[i][l]

SumsOf(sums, F, S) == sums \in [S -> Int] /\ \A i \in S : sums[i] = SumFunction(F[i])

Added(h, f, g, S) ==
    /\ IsFiniteSet(S) /\ f \in [S -> Int] /\ g \in [S -> Int] /\ h \in [S -> Int]
    /\ \A x \in S : h[x] = f[x] + g[x]

LEMMA SumAdded ==
  ASSUME NEW S, NEW f, NEW g, NEW h, Added(h, f, g, S)
  PROVE  SumFunction(h) = SumFunction(f) + SumFunction(g)
BY SumAdd DEF Added

LEMMA SumExchange ==
  ASSUME NEW S, NEW T, NEW F, NEW G, Tables(F, G, S, T),
         NEW rows, SumsOf(rows, F, S), NEW cols, SumsOf(cols, G, T)
  PROVE  SumFunction(rows) = SumFunction(cols)
<1> DEFINE C(U) == [l \in T |-> SumFunction(Restrict(G[l], U))]
           R(U) == SumFunction(Restrict(rows, U))
           P == {U \in SUBSET S : R(U) = SumFunction(C(U))}
<1>1. rows \in [S -> Int] /\ cols \in [T -> Int] /\ IsFiniteSet(S) /\ IsFiniteSet(T)
  BY DEF Tables, SumsOf
<1>2. ASSUME NEW l \in T PROVE G[l] \in [S -> Int]
  BY DEF Tables
<1>3. ASSUME NEW U \in SUBSET S PROVE C(U) \in [T -> Int]
  <2>1. \A l \in T : SumFunction(Restrict(G[l], U)) \in Int
    BY <1>1, <1>2, RestrictIs
  <2> QED BY <2>1
<1>4. {} \in P
  <2>1. R({}) = 0
    BY SumRestrictedToNone
  <2>2. \A l \in T : C({})[l] = 0
    BY SumRestrictedToNone
  <2>3. SumFunction(C({})) = 0
    <3> HIDE DEF C
    <3> QED BY <1>1, <1>3, <2>2, SumOfZeros
  <2> QED BY <2>1, <2>3
<1>5. ASSUME NEW U \in SUBSET S, NEW x \in S \ U, U \in P
      PROVE  U \cup {x} \in P
  <2>1. R(U \cup {x}) = rows[x] + R(U)
    BY <1>1, SumOneMore
  <2>2. \A l \in T : C(U \cup {x})[l] = F[x][l] + C(U)[l]
    <3> SUFFICES ASSUME NEW l \in T PROVE C(U \cup {x})[l] = F[x][l] + C(U)[l]
      OBVIOUS
    <3>1. G[l] \in [S -> Int]
      BY <1>2
    <3>2. SumFunction(Restrict(G[l], U \cup {x})) = G[l][x] + SumFunction(Restrict(G[l], U))
      BY <1>1, <3>1, SumOneMore
    <3>3. C(U \cup {x})[l] = SumFunction(Restrict(G[l], U \cup {x})) /\ C(U)[l] = SumFunction(Restrict(G[l], U))
      OBVIOUS
    <3>4. G[l][x] = F[x][l]
      BY DEF Tables
    <3> HIDE DEF C
    <3> QED BY <3>2, <3>3, <3>4
  <2>3. C(U) \in [T -> Int] /\ C(U \cup {x}) \in [T -> Int] /\ F[x] \in [T -> Int]
    <3>1. F[x] \in [T -> Int]
      BY DEF Tables
    <3> HIDE DEF C
    <3> QED BY <1>3, <3>1
  <2>4. SumFunction(C(U \cup {x})) = SumFunction(F[x]) + SumFunction(C(U))
    <3> HIDE DEF C
    <3>1. Added(C(U \cup {x}), F[x], C(U), T)
      BY <1>1, <2>2, <2>3 DEF Added
    <3> QED BY <3>1, SumAdded
  <2>5. R(U) = SumFunction(C(U)) /\ rows[x] = SumFunction(F[x])
    BY <1>5 DEF SumsOf
  <2>6. R(U \cup {x}) = SumFunction(C(U \cup {x}))
    <3> HIDE DEF R, C
    <3> QED BY <2>1, <2>4, <2>5
  <2> QED BY <2>6
<1>6. S \in P
  <2> HIDE DEF P
  <2> QED BY <1>1, <1>4, <1>5, ByOneMore
<1>7. R(S) = SumFunction(rows)
  BY <1>1, RestrictIs
<1>8. C(S) = cols
  <2>1. \A l \in T : Restrict(G[l], S) = G[l]
    BY <1>1, <1>2, RestrictIs
  <2> QED BY <1>1, <2>1 DEF SumsOf
<1>9. R(S) = SumFunction(C(S))
  BY <1>6
<1> HIDE DEF R, C
<1> QED BY <1>7, <1>8, <1>9

(* With a weight for each column. *)
Scaled(g, f, c, S) == f \in [S -> Int] /\ g \in [S -> Int] /\ c \in Int /\ \A x \in S : g[x] = f[x] * c

LEMMA SumScaled ==
  ASSUME NEW S, IsFiniteSet(S), NEW f, NEW g, NEW c, Scaled(g, f, c, S)
  PROVE  SumFunction(g) = SumFunction(f) * c
BY SumTimes DEF Scaled

Weighted(p, n, w, D, L) ==
    /\ w \in [L -> Int] /\ p \in [D -> [L -> Int]]
    /\ \A k \in D : \A l \in L : p[k][l] = n[k][l] * w[l]

LEMMA SumWeighted ==
  ASSUME NEW D, NEW L, NEW n, NEW N, Tables(n, N, D, L), NEW w, NEW p, Weighted(p, n, w, D, L),
         NEW rows, SumsOf(rows, p, D), NEW cols, SumsOf(cols, N, L),
         NEW all, all \in [L -> Int], \A l \in L : all[l] = cols[l] * w[l]
  PROVE  SumFunction(rows) = SumFunction(all)
<1> DEFINE q == [l \in L |-> [k \in D |-> p[k][l]]]
<1>1. Tables(p, q, D, L)
  BY DEF Tables, Weighted
<1>2. \A l \in L : \A k \in D : q[l][k] = p[k][l]
  OBVIOUS
<1> HIDE DEF q
<1>3. ASSUME NEW l \in L PROVE all[l] = SumFunction(q[l])
  <2>1. Scaled(q[l], N[l], w[l], D)
    <3>1. N[l] \in [D -> Int] /\ q[l] \in [D -> Int] /\ w[l] \in Int
      BY <1>1 DEF Tables, Weighted
    <3>2. ASSUME NEW k \in D PROVE q[l][k] = N[l][k] * w[l]
      <4>1. q[l][k] = p[k][l] /\ p[k][l] = n[k][l] * w[l] /\ N[l][k] = n[k][l]
        BY <1>2 DEF Tables, Weighted
      <4> QED BY <4>1
    <3> QED BY <3>1, <3>2 DEF Scaled
  <2>2. IsFiniteSet(D)
    BY DEF Tables
  <2>3. SumFunction(q[l]) = SumFunction(N[l]) * w[l]
    BY <2>1, <2>2, SumScaled
  <2>4. cols[l] = SumFunction(N[l])
    BY DEF SumsOf
  <2> QED BY <2>3, <2>4
<1>4. SumsOf(all, q, L)
  BY <1>3 DEF SumsOf
<1> QED BY <1>1, <1>4, SumExchange

(* The details of a side. *)
LEMMA SafeSumIs ==
  ASSUME NEW t \in [TokenFields -> Count], NEW s \in {"in", "out"}
  PROVE  /\ SafeSum(t, Details(s)) \in Nat
         /\ \A l \in Details(s) : Counted(t[l]) \in Nat /\ Counted(t[l]) <= SafeSum(t, Details(s))
         /\ (\A l \in Details(s) : Counted(t[l]) = 0) => SafeSum(t, Details(s)) = 0
         /\ SafeSum(t, Details(s)) = SumFunction([l \in Details(s) |-> Counted(t[l])])
         /\ t[s] \in Count /\ Counted(t[s]) \in Nat
<1> DEFINE c == [l \in Details(s) |-> Counted(t[l])]
<1>1. t[s] \in Count /\ \A l \in Details(s) : t[l] \in Count
  BY DetailsAre
<1>2. c \in [Details(s) -> Nat] /\ c \in [Details(s) -> Int] /\ IsFiniteSet(Details(s)) /\ Counted(t[s]) \in Nat
  BY <1>1, CountedIs, DetailsAre
<1>3. SafeSum(t, Details(s)) = SumFunction(c) /\ \A l \in Details(s) : c[l] = Counted(t[l])
  BY DEF SafeSum
<1> HIDE DEF c
<1>4. SumFunction(c) \in Nat /\ \A l \in Details(s) : c[l] <= SumFunction(c)
  BY <1>2, SumOfNaturals
<1>5. (\A l \in Details(s) : c[l] = 0) => SumFunction(c) = 0
  BY <1>2, SumOfZeros
<1>6. \A l \in Details(s) : Counted(t[l]) \in Nat
  BY <1>2, <1>3
<1> QED BY <1>1, <1>2, <1>3, <1>4, <1>5, <1>6 DEF c

LEMMA RatesAre ==
  ASSUME NEW rates, IsRates(rates), NEW s \in {"in", "out"}
  PROVE  rates[s] \in Int /\ \A l \in Details(s) : RateFor(rates, s, l) \in Int
BY DetailsAre DEF RateFor, IsRates, None

(* A side that gives no details is billed as a whole, *)
LEMMA SideAsAWhole ==
  ASSUME NEW t \in [TokenFields -> Count], NEW rates, IsRates(rates), NEW s \in {"in", "out"},
         \A l \in Details(s) : t[l] = None
  PROVE  SideBill(t, rates, s) = Counted(t[s]) * rates[s]
<1> DEFINE e == [l \in Details(s) |-> Counted(t[l]) * RateFor(rates, s, l)]
<1>1. \A l \in Details(s) : Counted(t[l]) = 0
  BY DEF Counted, None, IsValid
<1>2. SafeSum(t, Details(s)) = 0 /\ t[s] \in Count
  BY <1>1, SafeSumIs
<1>3. rates[s] \in Int
  BY RatesAre
<1>4. CASE t[s] = 0
  <2>1. e \in [Details(s) -> Int] /\ \A l \in Details(s) : e[l] = 0
    <3>1. \A l \in Details(s) : Counted(t[l]) * RateFor(rates, s, l) = 0
      BY <1>1, RatesAre
    <3> QED BY <3>1
  <2>2. SumFunction(e) = 0
    <3> HIDE DEF e
    <3> QED BY <2>1, DetailsAre, SumOfZeros
  <2>3. SideBill(t, rates, s) = SumFunction(e)
    BY <1>2, <1>4 DEF SideBill
  <2>4. Counted(t[s]) * rates[s] = 0
    BY <1>3, <1>4 DEF Counted
  <2> QED BY <2>2, <2>3, <2>4
<1>5. CASE t[s] # 0
  BY <1>2, <1>5 DEF SideBill
<1> QED BY <1>4, <1>5

(* and one whose details add up, by its details. *)
LEMMA SideByDetails ==
  ASSUME NEW t \in [TokenFields -> Count], NEW rates, IsRates(rates), NEW s \in {"in", "out"},
         SafeSum(t, Details(s)) = Counted(t[s])
  PROVE  SideBill(t, rates, s) = SumFunction([l \in Details(s) |-> Counted(t[l]) * RateFor(rates, s, l)])
<1> DEFINE e == [l \in Details(s) |-> Counted(t[l]) * RateFor(rates, s, l)]
<1>1. t[s] \in Count /\ \A l \in Details(s) : Counted(t[l]) \in Nat /\ Counted(t[l]) <= Counted(t[s])
  BY SafeSumIs
<1>2. CASE IsValid(t[s])
  BY <1>2 DEF SideBill, Counted
<1>3. CASE ~IsValid(t[s])
  <2>0. Counted(t[s]) = 0 /\ t[s] = None
    BY <1>1, <1>3, CountedIs
  <2>1. \A l \in Details(s) : Counted(t[l]) = 0
    BY <1>1, <2>0
  <2>2. e \in [Details(s) -> Int] /\ \A l \in Details(s) : e[l] = 0
    <3>1. \A l \in Details(s) : Counted(t[l]) * RateFor(rates, s, l) = 0
      BY <2>1, RatesAre
    <3> QED BY <3>1
  <2>3. SumFunction(e) = 0
    <3> HIDE DEF e
    <3> QED BY <2>2, DetailsAre, SumOfZeros
  <2>4. SideBill(t, rates, s) = Counted(t[s]) * rates[s]
    BY <2>0 DEF SideBill, None
  <2>5. Counted(t[s]) * rates[s] = 0
    BY <2>0, RatesAre
  <2> QED BY <2>3, <2>4, <2>5
<1> QED BY <1>2, <1>3

(* A bill is a number. *)
LEMMA SideBillIs ==
  ASSUME NEW t \in [TokenFields -> Count], NEW rates, IsRates(rates), NEW s \in {"in", "out"}
  PROVE  SideBill(t, rates, s) \in Int
<1>1. CASE SafeSum(t, Details(s)) = t[s]
  <2> DEFINE e == [l \in Details(s) |-> Counted(t[l]) * RateFor(rates, s, l)]
  <2>1. \A l \in Details(s) : Counted(t[l]) \in Nat /\ RateFor(rates, s, l) \in Int
    BY SafeSumIs, RatesAre
  <2>2. e \in [Details(s) -> Int]
    <3>1. \A l \in Details(s) : Counted(t[l]) * RateFor(rates, s, l) \in Int
      BY <2>1
    <3> QED BY <3>1
  <2>3. SumFunction(e) \in Int
    <3> HIDE DEF e
    <3> QED BY <2>2, DetailsAre, SumType DEF IsSummable
  <2> QED BY <1>1, <2>3 DEF SideBill
<1>2. CASE SafeSum(t, Details(s)) # t[s]
  <2>1. SideBill(t, rates, s) = Counted(t[s]) * rates[s]
    BY <1>2 DEF SideBill
  <2>2. Counted(t[s]) \in Int
    <3>1. Counted(t[s]) \in Nat
      BY SafeSumIs, Zenon
    <3> QED BY <3>1
  <2>3. rates[s] \in Int
    BY RatesAre
  <2>4. Counted(t[s]) * rates[s] \in Int
    BY <2>2, <2>3
  <2> QED BY <2>1, <2>4
<1> QED BY <1>1, <1>2

LEMMA SideOfNothing ==
  ASSUME NEW t \in [TokenFields -> Count], NEW rates, IsRates(rates), NEW s \in {"in", "out"},
         Counted(t[s]) = 0
  PROVE  SideBill(t, rates, s) = 0
<1>1. CASE SafeSum(t, Details(s)) # Counted(t[s])
  <2>1. SafeSum(t, Details(s)) \in Nat /\ t[s] \in Count
    BY SafeSumIs, DetailsAre
  <2>2. SafeSum(t, Details(s)) # t[s]
    BY <1>1, <2>1, CountedIs DEF Count, None
  <2>3. SideBill(t, rates, s) = Counted(t[s]) * rates[s]
    BY <2>2 DEF SideBill
  <2> QED BY <2>3, RatesAre
<1>2. CASE SafeSum(t, Details(s)) = Counted(t[s])
  <2> DEFINE e == [l \in Details(s) |-> Counted(t[l]) * RateFor(rates, s, l)]
  <2>1. \A l \in Details(s) : Counted(t[l]) = 0
    <3>1. \A l \in Details(s) : Counted(t[l]) \in Nat /\ Counted(t[l]) <= 0
      BY <1>2, SafeSumIs
    <3> QED BY <3>1
  <2>2. e \in [Details(s) -> Int] /\ \A l \in Details(s) : e[l] = 0
    <3>1. \A l \in Details(s) : Counted(t[l]) * RateFor(rates, s, l) = 0
      BY <2>1, RatesAre
    <3> QED BY <3>1
  <2>3. SumFunction(e) = 0
    <3> HIDE DEF e
    <3> QED BY <2>2, DetailsAre, SumOfZeros
  <2>4. SideBill(t, rates, s) = SumFunction(e)
    BY <1>2, SideByDetails
  <2> QED BY <2>3, <2>4
<1> QED BY <1>1, <1>2

SideBills(steps, rates, s) == [k \in DOMAIN steps |-> SideBill(steps[k].tokens, rates, s)]

(* A side of all the steps together is billed at one rate as they are one by one. *)
LEMMA SideOfSteps ==
  ASSUME NEW steps \in Seq(MeteredStep), NEW u, u = ExtractUsageFromSteps(steps),
         NEW rates, IsRates(rates), NEW s \in {"in", "out"}, DetailedAlike(steps, s)
  PROVE  /\ SideBill(u, rates, s) = SumFunction(SideBills(steps, rates, s))
         /\ SideBills(steps, rates, s) \in [DOMAIN steps -> Int]
<1> DEFINE D == DOMAIN steps
           L == Details(s)
           t(k) == steps[k].tokens
<1>1. /\ IsFiniteSet(D) /\ \A k \in D : t(k) \in [TokenFields -> Count]
      /\ IsFiniteSet(L) /\ L \in SUBSET TokenFields /\ s \in TokenFields
  BY StepsAre, DetailsAre
<1>2. /\ u \in [TokenFields -> Count]
      /\ \A f \in TokenFields : Counted(u[f]) = SumFunction([k \in D |-> Counted(t(k)[f])])
      /\ \A f \in TokenFields : u[f] = None <=> \A k \in D : t(k)[f] = None
  BY ExtractIs
<1> SUFFICES ASSUME NEW bills, bills = SideBills(steps, rates, s),
                    bills = [k \in DOMAIN steps |-> SideBill(steps[k].tokens, rates, s)]
             PROVE  SideBill(u, rates, s) = SumFunction(bills) /\ bills \in [DOMAIN steps -> Int]
  BY DEF SideBills
<1>3. \A f \in TokenFields : \A k \in D : Counted(t(k)[f]) \in Nat
  BY <1>1, CountedIs
<1>r. rates[s] \in Int /\ \A l \in L : RateFor(rates, s, l) \in Int
  BY RatesAre
<1>4. CASE \A k \in D : \A l \in L : t(k)[l] = None
  <2> DEFINE c == [k \in D |-> Counted(t(k)[s])]
  <2>1. \A l \in L : u[l] = None
    BY <1>1, <1>2, <1>4
  <2>2. SideBill(u, rates, s) = Counted(u[s]) * rates[s]
    BY <1>2, <2>1, SideAsAWhole
  <2>3. \A k \in D : SideBill(t(k), rates, s) = Counted(t(k)[s]) * rates[s]
    <3> SUFFICES ASSUME NEW k \in D PROVE SideBill(t(k), rates, s) = Counted(t(k)[s]) * rates[s]
      OBVIOUS
    <3>1. t(k) \in [TokenFields -> Count] /\ \A l \in Details(s) : t(k)[l] = None
      BY <1>1, <1>4
    <3> QED BY <3>1, SideAsAWhole
  <2>4. c \in [D -> Int] /\ \A k \in D : bills[k] = c[k] * rates[s]
    BY <1>1, <1>3, <2>3
  <2>5. bills \in [D -> Int]
    <3> HIDE DEF c
    <3> QED BY <2>4, <1>r
  <2>6. SumFunction(bills) = SumFunction(c) * rates[s]
    <3> HIDE DEF c, D, L, t
    <3>1. Scaled(bills, c, rates[s], D)
      BY <1>r, <2>4, <2>5 DEF Scaled
    <3> QED BY <1>1, <3>1, SumScaled
  <2>7. SumFunction(c) = Counted(u[s])
    BY <1>1, <1>2
  <2> QED BY <2>2, <2>5, <2>6, <2>7
<1>5. CASE \A k \in D : SafeSum(t(k), L) = Counted(t(k)[s])
  <2> DEFINE n == [k \in D |-> [l \in L |-> Counted(t(k)[l])]]
             N == [l \in L |-> [k \in D |-> Counted(t(k)[l])]]
             w == [l \in L |-> RateFor(rates, s, l)]
             p == [k \in D |-> [l \in L |-> Counted(t(k)[l]) * RateFor(rates, s, l)]]
             ofRow == [k \in D |-> Counted(t(k)[s])]
             ofCol == [l \in L |-> Counted(u[l])]
             all == [l \in L |-> Counted(u[l]) * RateFor(rates, s, l)]
  <2>1. /\ \A k \in D : \A l \in L : Counted(t(k)[l]) \in Int
        /\ \A k \in D : Counted(t(k)[s]) \in Int
        /\ \A l \in L : Counted(u[l]) \in Int
    <3>1. \A l \in L : Counted(u[l]) \in Int
      <4>1. \A l \in L : u[l] \in Count
        BY <1>1, <1>2
      <4> HIDE DEF L
      <4> QED BY <4>1, CountedIs
    <3> HIDE DEF D, L, t
    <3> QED BY <1>1, <1>3, <3>1
  <2>2. Tables(n, N, D, L)
    <3>1. IsFiniteSet(D) /\ IsFiniteSet(L)
      BY <1>1
    <3> HIDE DEF D, L, t
    <3> QED BY <2>1, <3>1 DEF Tables
  <2>3. Weighted(p, n, w, D, L)
    <3>1. \A k \in D : \A l \in L : Counted(t(k)[l]) * RateFor(rates, s, l) \in Int
      <4> HIDE DEF D, L, t
      <4> QED BY <1>r, <2>1
    <3> HIDE DEF D, L, t
    <3> QED BY <1>r, <3>1 DEF Weighted
  <2>4. SumsOf(ofRow, n, D)
    <3>1. ASSUME NEW k \in D PROVE ofRow[k] = SumFunction(n[k])
      <4>1. SafeSum(t(k), L) = SumFunction([l \in L |-> Counted(t(k)[l])])
        BY DEF SafeSum
      <4>2. n[k] = [l \in L |-> Counted(t(k)[l])] /\ ofRow[k] = Counted(t(k)[s])
        OBVIOUS
      <4> HIDE DEF n, ofRow, L, D, t
      <4> QED BY <1>5, <4>1, <4>2
    <3>2. ofRow \in [D -> Int]
      BY <2>1
    <3> HIDE DEF n, ofRow
    <3> QED BY <3>1, <3>2 DEF SumsOf
  <2>5. SumsOf(ofCol, N, L)
    <3>1. ASSUME NEW l \in L PROVE ofCol[l] = SumFunction(N[l])
      <4>1. Counted(u[l]) = SumFunction([k \in D |-> Counted(t(k)[l])])
        BY <1>1, <1>2
      <4>2. N[l] = [k \in D |-> Counted(t(k)[l])] /\ ofCol[l] = Counted(u[l])
        OBVIOUS
      <4> HIDE DEF N, ofCol, L, D, t
      <4> QED BY <4>1, <4>2
    <3>2. ofCol \in [L -> Int]
      BY <2>1
    <3> HIDE DEF N, ofCol
    <3> QED BY <3>1, <3>2 DEF SumsOf
  <2>6. SafeSum(u, L) = Counted(u[s])
    <3>1. SumFunction(ofRow) = SumFunction(ofCol)
      <4> HIDE DEF ofRow, ofCol, n, N
      <4> QED BY <2>2, <2>4, <2>5, SumExchange
    <3>2. SafeSum(u, L) = SumFunction(ofCol)
      BY DEF SafeSum
    <3>3. Counted(u[s]) = SumFunction(ofRow)
      BY <1>1, <1>2
    <3> HIDE DEF ofRow, ofCol
    <3> QED BY <3>1, <3>2, <3>3
  <2>7. SideBill(u, rates, s) = SumFunction(all)
    BY <1>2, <2>6, SideByDetails
  <2>8. SumsOf(bills, p, D)
    <3>1. ASSUME NEW k \in D PROVE bills[k] = SumFunction(p[k])
      <4>1. t(k) \in [TokenFields -> Count] /\ SafeSum(t(k), Details(s)) = Counted(t(k)[s])
        BY <1>1, <1>5
      <4>2. SideBill(t(k), rates, s) = SumFunction([l \in L |-> Counted(t(k)[l]) * RateFor(rates, s, l)])
        BY <4>1, SideByDetails
      <4>3. p[k] = [l \in L |-> Counted(t(k)[l]) * RateFor(rates, s, l)] /\ bills[k] = SideBill(t(k), rates, s)
        OBVIOUS
      <4> HIDE DEF p, L, D, t
      <4> QED BY <4>2, <4>3
    <3>2. ASSUME NEW k \in D PROVE SumFunction(p[k]) \in Int
      <4>1. p[k] \in [L -> Int]
        <5> HIDE DEF p, n, w, L, D, t
        <5> QED BY <2>3 DEF Weighted
      <4> HIDE DEF p, L, D
      <4> QED BY <1>1, <4>1, SumType DEF IsSummable
    <3>3. bills \in [D -> Int]
      <4> HIDE DEF p
      <4> QED BY <3>1, <3>2
    <3> HIDE DEF p
    <3> QED BY <3>1, <3>3 DEF SumsOf
  <2>9. all \in [L -> Int] /\ \A l \in L : all[l] = ofCol[l] * w[l]
    <3>1. \A l \in L : Counted(u[l]) * RateFor(rates, s, l) \in Int
      <4> HIDE DEF L
      <4> QED BY <1>r, <2>1
    <3> QED BY <3>1
  <2>10. SumFunction(bills) = SumFunction(all)
    <3> HIDE DEF all, ofCol, n, N, w, p, D, L, t
    <3> QED BY <2>2, <2>3, <2>5, <2>8, <2>9, SumWeighted
  <2>11. bills \in [D -> Int]
    <3> HIDE DEF p
    <3> QED BY <2>8 DEF SumsOf
  <2> HIDE DEF all
  <2> QED BY <2>7, <2>10, <2>11
<1>6. (\A k \in D : \A l \in L : t(k)[l] = None) \/ (\A k \in D : SafeSum(t(k), L) = Counted(t(k)[s]))
  BY DEF DetailedAlike
<1> QED BY <1>4, <1>5, <1>6

(* A side for which no step counts anything costs nothing at any rate. *)
LEMMA SideOfNoTokens ==
  ASSUME NEW steps \in Seq(MeteredStep), NEW u, u = ExtractUsageFromSteps(steps),
         NEW s \in {"in", "out"}, Counted(u[s]) = 0
  PROVE  \A k \in DOMAIN steps : \A rates : IsRates(rates) => SideBill(steps[k].tokens, rates, s) = 0
<1> DEFINE c == [k \in DOMAIN steps |-> Counted(steps[k].tokens[s])]
<1>1. /\ IsFiniteSet(DOMAIN steps) /\ \A k \in DOMAIN steps : steps[k].tokens \in [TokenFields -> Count]
      /\ s \in TokenFields
  BY StepsAre, DetailsAre
<1>2. SumFunction(c) = 0
  BY <1>1, ExtractIs
<1>3. c \in [DOMAIN steps -> Nat]
  BY <1>1, CountedIs
<1>4. \A k \in DOMAIN steps : c[k] = 0
  <2> HIDE DEF c
  <2>1. \A k \in DOMAIN steps : c[k] <= SumFunction(c) /\ c[k] \in Nat
    BY <1>1, <1>3, SumOfNaturals
  <2> QED BY <1>2, <2>1
<1> SUFFICES ASSUME NEW k \in DOMAIN steps, NEW rates, IsRates(rates)
             PROVE  SideBill(steps[k].tokens, rates, s) = 0
  OBVIOUS
<1>5. steps[k].tokens \in [TokenFields -> Count] /\ Counted(steps[k].tokens[s]) = 0
  BY <1>1, <1>4
<1> QED BY <1>5, SideOfNothing

(* The largest of finitely many sizes. *)
LEMMA Largest ==
  ASSUME NEW S, IsFiniteSet(S), S # {}, \A t \in S : t.size \in Nat
  PROVE  \E t \in S : \A u \in S : u.size <= t.size
<1> DEFINE P == {T \in SUBSET S : T = {} \/ \E t \in T : \A u \in T : u.size <= t.size}
<1>1. {} \in P
  OBVIOUS
<1>2. ASSUME NEW T \in SUBSET S, NEW x \in S \ T, T \in P
      PROVE  T \cup {x} \in P
  <2>1. CASE T = {}
    <3>1. x \in T \cup {x} /\ \A u \in T \cup {x} : u.size <= x.size
      BY <2>1
    <3> QED BY <3>1
  <2>2. CASE T # {}
    <3>1. PICK t \in T : \A u \in T : u.size <= t.size
      BY <1>2, <2>2
    <3>2. x.size \in Nat /\ t.size \in Nat /\ \A u \in T : u.size \in Nat
      OBVIOUS
    <3>3. CASE x.size <= t.size
      <4>1. t \in T \cup {x} /\ \A u \in T \cup {x} : u.size <= t.size
        BY <3>1, <3>3
      <4> QED BY <4>1
    <3>4. CASE ~(x.size <= t.size)
      <4>1. x \in T \cup {x} /\ \A u \in T \cup {x} : u.size <= x.size
        BY <3>1, <3>2, <3>4
      <4> QED BY <4>1
    <3> QED BY <3>3, <3>4
  <2> QED BY <2>1, <2>2
<1>3. S \in P
  <2> HIDE DEF P
  <2> QED BY <1>1, <1>2, ByOneMore
<1> QED BY <1>3

(* The tier a step is charged by is the one its bill is written by. *)
TierFor(step, model) == IF IsValid(step.tokens["in"]) THEN ResolveTier(model, step.tokens["in"]) ELSE Base(model)

LEMMA TierIs ==
  ASSUME NEW step \in MeteredStep, NEW model, IsModel(model), NEW tier, tier = TierFor(step, model)
  PROVE  /\ IsRates(tier.rates)
         /\ RequestBill(step, model) = SideBill(step.tokens, tier.rates, "in")
                                       + SideBill(step.tokens, tier.rates, "out")
         /\ model.tiers = {} => tier = Base(model)
<1> DEFINE input == step.tokens["in"]
           below == {x \in model.tiers : x.size < input}
           sizes == {t.size : t \in below}
           rates == IF sizes = {} THEN model.rates ELSE (CHOOSE t \in model.tiers : t.size = Max(sizes)).rates
<1>1. input \in Count
  BY DEF MeteredStep, Count, TokenFields
<1>2. /\ IsRates(model.rates) /\ IsFiniteSet(model.tiers)
      /\ \A t \in model.tiers : t.size \in Nat /\ IsRates(t.rates)
      /\ \A t \in model.tiers : \A u \in model.tiers : u.size = t.size => u = t
  BY DEF IsModel
<1>3. RequestBill(step, model) = SideBill(step.tokens, rates, "in") + SideBill(step.tokens, rates, "out")
  BY DEF RequestBill
<1> HIDE DEF input
<1>4. CASE below = {}
  <2>1. sizes = {} /\ rates = model.rates
    BY <1>4
  <2>2. tier = Base(model)
    <3>1. CASE IsValid(input)
      <4>1. {t \in model.tiers : input > t.size} = {}
        BY <1>1, <1>2, <1>4 DEF Count, None
      <4>2. ResolveTier(model, input) = [size |-> None, rates |-> model.rates]
        BY <4>1 DEF ResolveTier
      <4> QED BY <3>1, <4>2 DEF TierFor, Base, input
    <3>2. CASE ~IsValid(input)
      BY <3>2 DEF TierFor, input
    <3> QED BY <3>1, <3>2
  <2>3. tier.rates = model.rates
    BY <2>2 DEF Base
  <2> QED BY <1>2, <1>3, <2>1, <2>2, <2>3
<1>5. CASE below # {}
  <2>1. input \in Nat /\ IsValid(input) /\ model.tiers # {}
    <3>1. PICK x \in model.tiers : x.size < input
      BY <1>5
    <3>2. x.size \in Nat
      BY <1>2
    <3> QED BY <1>1, <3>1, <3>2 DEF Count, None, IsValid
  <2>2. below = {t \in model.tiers : input > t.size}
    BY <1>2, <2>1
  <2>3. IsFiniteSet(below) /\ \A t \in below : t.size \in Nat /\ t \in model.tiers
    <3>1. below \in SUBSET model.tiers
      OBVIOUS
    <3> QED BY <1>2, <3>1, FS_Subset
  <2> HIDE DEF below
  <2>4. \E t \in below : \A u \in below : u.size <= t.size
    BY <1>5, <2>3, Largest
  <2>5. tier = CHOOSE t \in below : \A u \in below : u.size <= t.size
    <3>1. tier = ResolveTier(model, input)
      BY <2>1 DEF TierFor, input
    <3> QED BY <1>5, <2>2, <3>1 DEF ResolveTier
  <2>6. tier \in below /\ \A u \in below : u.size <= tier.size
    BY <2>4, <2>5
  <2>7. tier \in model.tiers /\ tier.size \in Nat
    BY <2>3, <2>6
  <2>8. sizes # {} /\ tier.size \in sizes /\ \A n \in sizes : n \in Nat /\ n <= tier.size
    BY <2>3, <2>6
  <2> HIDE DEF sizes
  <2>9. Max(sizes) = tier.size
    <3>1. \E x \in sizes : \A y \in sizes : x >= y
      BY <2>8
    <3>2. Max(sizes) = CHOOSE x \in sizes : \A y \in sizes : x >= y
      BY DEF Max
    <3>3. Max(sizes) \in sizes /\ \A y \in sizes : Max(sizes) >= y
      BY <3>1, <3>2
    <3> QED BY <2>8, <3>3
  <2>10. (CHOOSE t \in model.tiers : t.size = Max(sizes)) = tier
    <3> DEFINE c == CHOOSE t \in model.tiers : t.size = Max(sizes)
    <3>1. c \in model.tiers /\ c.size = Max(sizes)
      BY <2>7, <2>9
    <3> HIDE DEF c
    <3> QED BY <1>2, <2>7, <2>9, <3>1 DEF c
  <2>11. rates = tier.rates
    BY <2>8, <2>10
  <2> HIDE DEF rates
  <2> QED BY <1>2, <1>3, <2>1, <2>7, <2>11
<1> QED BY <1>4, <1>5

(* The items of a usage, priced by a tier. *)
IsPricedList(list, u, n, label, tier, uncertain) ==
    /\ u \in [TokenFields -> Count] /\ n \in Nat /\ IsRates(tier.rates) /\ uncertain \in BOOLEAN
    /\ \E usage : usage.items = ItemsOf(u, n, label) /\ list = CostItems(usage, tier, uncertain)

LEMMA PricedListIs ==
  ASSUME NEW list, NEW u, NEW n, NEW label, NEW tier, NEW uncertain,
         IsPricedList(list, u, n, label, tier, uncertain)
  PROVE  /\ TotalOf(list) \in Int /\ PricedOf(list) \in Int
         /\ (\A c \in list : ~LacksPrice(c)) => PricedOf(list) = Counted(u["in"]) + Counted(u["out"]) + n
         /\ (\A c \in list : Exact(c)) =>
              /\ TotalOf(list) = SideBill(u, tier.rates, "in") + SideBill(u, tier.rates, "out")
                                 + n * SearchRate(label)
              /\ SideBill(u, tier.rates, "in") \in Int /\ SideBill(u, tier.rates, "out") \in Int
              /\ uncertain => Counted(u["in"]) = 0 /\ Counted(u["out"]) = 0
<1>1. /\ u \in [TokenFields -> Count] /\ n \in Nat /\ IsRates(tier.rates) /\ uncertain \in BOOLEAN
      /\ \E usage : usage.items = ItemsOf(u, n, label) /\ list = CostItems(usage, tier, uncertain)
  BY DEF IsPricedList
<1>2. PICK usage : usage.items = ItemsOf(u, n, label) /\ list = CostItems(usage, tier, uncertain)
  BY <1>1
<1>3. TotalOf(list) \in Int /\ PricedOf(list) \in Int
  <2> DEFINE I == ItemsOf(u, n, label)
             m == Prices(ItemsOf(u, n, label), tier, uncertain)
             total == [i \in I |-> Charge(m[i])]
             priced == [i \in I |-> PricedAmount(m[i])]
  <2>1. I = ItemsOf(u, n, label) /\ m = Prices(ItemsOf(u, n, label), tier, uncertain)
    OBVIOUS
  <2>2. total = [i \in I |-> Charge(m[i])] /\ priced = [i \in I |-> PricedAmount(m[i])]
    OBVIOUS
  <2> HIDE DEF I, m, total, priced
  <2> QED BY <1>1, <1>2, <2>1, <2>2, ListSums
<1>4. (\A c \in list : ~LacksPrice(c)) => PricedOf(list) = Counted(u["in"]) + Counted(u["out"]) + n
  BY <1>1, <1>2, ListPriced
<1>5. ASSUME \A c \in list : Exact(c)
      PROVE   /\ TotalOf(list) = SideBill(u, tier.rates, "in") + SideBill(u, tier.rates, "out")
                                 + n * SearchRate(label)
              /\ SideBill(u, tier.rates, "in") \in Int /\ SideBill(u, tier.rates, "out") \in Int
              /\ uncertain => Counted(u["in"]) = 0 /\ Counted(u["out"]) = 0
  <2>1. \A c \in list : Exact(c)
    BY <1>5
  <2>2. TotalOf(list) = SideBill(u, tier.rates, "in") + SideBill(u, tier.rates, "out") + n * SearchRate(label)
    BY <1>1, <1>2, <2>1, ListBill
  <2>3. SideBill(u, tier.rates, "in") \in Int /\ SideBill(u, tier.rates, "out") \in Int
    BY <1>1, <1>2, <2>1, ListBill
  <2>4. uncertain => Counted(u["in"]) = 0 /\ Counted(u["out"]) = 0
    BY <1>1, <1>2, <2>1, ListBill
  <2> QED BY <2>2, <2>3, <2>4
<1> QED BY <1>3, <1>4, <1>5

(* What all steps count, as one sum and step by step. *)
LEMMA KnownIs ==
  ASSUME NEW steps \in Seq(MeteredStep), NEW u, u = ExtractUsageFromSteps(steps)
  PROVE  /\ SumFunction([k \in DOMAIN steps |-> SafeSum(steps[k].tokens, {"in", "out"})])
              = Counted(u["in"]) + Counted(u["out"])
         /\ \A k \in DOMAIN steps :
              /\ SafeSum(steps[k].tokens, {"in", "out"})
                   = Counted(steps[k].tokens["in"]) + Counted(steps[k].tokens["out"])
              /\ Counted(steps[k].tokens["in"]) \in Nat /\ Counted(steps[k].tokens["out"]) \in Nat
         /\ Counted(u["in"]) \in Nat /\ Counted(u["out"]) \in Nat
<1> DEFINE D == DOMAIN steps
           t(k) == steps[k].tokens
           known == [k \in D |-> SafeSum(t(k), {"in", "out"})]
           ins == [k \in D |-> Counted(t(k)["in"])]
           outs == [k \in D |-> Counted(t(k)["out"])]
<1>1. IsFiniteSet(D) /\ \A k \in D : t(k) \in [TokenFields -> Count]
  BY StepsAre
<1>2. u \in [TokenFields -> Count] /\ Counted(u["in"]) = SumFunction(ins) /\ Counted(u["out"]) = SumFunction(outs)
  BY ExtractIs DEF TokenFields
<1>3. ASSUME NEW k \in D
      PROVE  /\ SafeSum(t(k), {"in", "out"}) = Counted(t(k)["in"]) + Counted(t(k)["out"])
             /\ Counted(t(k)["in"]) \in Nat /\ Counted(t(k)["out"]) \in Nat
  <2> DEFINE c == [l \in {"in", "out"} |-> Counted(t(k)[l])]
  <2>1. t(k)["in"] \in Count /\ t(k)["out"] \in Count
    BY <1>1 DEF TokenFields
  <2>2. Counted(t(k)["in"]) \in Nat /\ Counted(t(k)["out"]) \in Nat
    BY <2>1, CountedIs
  <2>3. c \in [{"in", "out"} -> Int] /\ c["in"] = Counted(t(k)["in"]) /\ c["out"] = Counted(t(k)["out"])
    BY <2>2
  <2>4. SumFunction(c) = c["in"] + c["out"]
    <3>1. "in" # "out"
      OBVIOUS
    <3> HIDE DEF c
    <3> QED BY <2>3, <3>1, SumOfTwo
  <2>5. SafeSum(t(k), {"in", "out"}) = SumFunction(c)
    BY DEF SafeSum
  <2> HIDE DEF c, t
  <2> QED BY <2>2, <2>3, <2>4, <2>5
<1>4. Added(known, ins, outs, D)
  <2> HIDE DEF D, t
  <2> QED BY <1>1, <1>3 DEF Added
<1>5. SumFunction(known) = SumFunction(ins) + SumFunction(outs)
  <2> HIDE DEF known, ins, outs
  <2> QED BY <1>4, SumAdded
<1>6. Counted(u["in"]) \in Nat /\ Counted(u["out"]) \in Nat
  <2>1. u["in"] \in Count /\ u["out"] \in Count
    BY <1>2 DEF TokenFields
  <2> QED BY <2>1, CountedIs
<1> HIDE DEF ins, outs
<1> QED BY <1>2, <1>3, <1>5, <1>6

LEMMA SearchesAre ==
  ASSUME NEW steps \in Seq(MeteredStep)
  PROVE  SearchesOf(steps) \in Nat
<1> DEFINE s == [k \in DOMAIN steps |-> steps[k].searches]
<1>1. IsFiniteSet(DOMAIN steps) /\ s \in [DOMAIN steps -> Nat]
  BY StepsAre
<1>2. SearchesOf(steps) = SumFunction(s)
  BY DEF SearchesOf
<1>3. SumFunction(s) \in Nat
  <2> HIDE DEF s
  <2> QED BY <1>1, SumOfNaturals
<1> QED BY <1>2, <1>3

(* What a cost says of its lists. *)
LEMMA CostIs ==
  ASSUME NEW lists, NEW says, NEW freshness, NEW cost, cost = GenerationCost(lists, says, freshness)
  PROVE  /\ cost.total = SumFunction([k \in DOMAIN lists |-> TotalOf(lists[k])])
         /\ cost.priced = SumFunction([k \in DOMAIN lists |-> PricedOf(lists[k])])
         /\ cost.status # "incomplete" =>
              says # "incomplete" /\ \A k \in DOMAIN lists : \A c \in lists[k] : ~LacksPrice(c)
         /\ cost.status = "precise" => \A k \in DOMAIN lists : \A c \in lists[k] : Exact(c)
<1> DEFINE charged == {i \in UNION {lists[k] : k \in DOMAIN lists} : i.amount > 0}
           statuses == {i.status : i \in charged}
<1>1. /\ cost.total = SumFunction([k \in DOMAIN lists |-> TotalOf(lists[k])])
      /\ cost.priced = SumFunction([k \in DOMAIN lists |-> PricedOf(lists[k])])
      /\ cost.status = IF "missing" \in statuses \/ says = "incomplete" THEN "incomplete"
                       ELSE IF statuses \cap {"fallback", "uncertain"} # {}
                               \/ freshness = "snapshot" THEN "imprecise"
                       ELSE "precise"
  BY DEF GenerationCost
<1>2. \A k \in DOMAIN lists : \A c \in lists[k] : c.amount > 0 => c.status \in statuses
  OBVIOUS
<1> HIDE DEF statuses
<1>3. cost.status # "incomplete" =>
         says # "incomplete" /\ \A k \in DOMAIN lists : \A c \in lists[k] : ~LacksPrice(c)
  BY <1>1, <1>2 DEF LacksPrice
<1>4. cost.status = "precise" => \A k \in DOMAIN lists : \A c \in lists[k] : Exact(c)
  BY <1>1, <1>2 DEF Exact
<1> QED BY <1>1, <1>3, <1>4

LEMMA OneList ==
  ASSUME NEW list, TotalOf(list) \in Int, PricedOf(list) \in Int, NEW lists, lists = <<list>>
  PROVE  /\ SumFunction([k \in DOMAIN lists |-> TotalOf(lists[k])]) = TotalOf(list)
         /\ SumFunction([k \in DOMAIN lists |-> PricedOf(lists[k])]) = PricedOf(list)
         /\ DOMAIN lists = {1} /\ lists[1] = list
<1>1. DOMAIN lists = {1} /\ lists[1] = list
  OBVIOUS
<1> DEFINE a == [k \in DOMAIN lists |-> TotalOf(lists[k])]
           b == [k \in DOMAIN lists |-> PricedOf(lists[k])]
<1>2. a \in [{1} -> Int] /\ b \in [{1} -> Int] /\ a[1] = TotalOf(list) /\ b[1] = PricedOf(list)
  BY <1>1
<1>3. SumFunction(a) = a[1]
  <2> HIDE DEF a
  <2> QED BY <1>2, SumOfOne
<1>4. SumFunction(b) = b[1]
  <2> HIDE DEF b
  <2> QED BY <1>2, SumOfOne
<1> QED BY <1>1, <1>2, <1>3, <1>4

(* A call of one step is its step. *)
LEMMA OneStep ==
  ASSUME NEW steps \in Seq(MeteredStep), Len(steps) = 1, NEW u, u = ExtractUsageFromSteps(steps)
  PROVE  u = steps[1].tokens /\ SearchesOf(steps) = steps[1].searches
<1> DEFINE t == steps[1].tokens
<1>1. DOMAIN steps = {1} /\ t \in [TokenFields -> Count] /\ steps[1].searches \in Nat
  BY StepsAre
<1>2. u \in [TokenFields -> Count]
  BY ExtractIs
<1>3. ASSUME NEW f \in TokenFields PROVE u[f] = t[f]
  <2> DEFINE c == [k \in DOMAIN steps |-> Counted(steps[k].tokens[f])]
  <2>1. Counted(u[f]) = SumFunction(c) /\ (u[f] = None <=> t[f] = None)
    BY <1>1, ExtractIs
  <2>2. c \in [{1} -> Int] /\ c[1] = Counted(t[f])
    BY <1>1, CountedIs
  <2>3. SumFunction(c) = c[1]
    <3> HIDE DEF c
    <3> QED BY <2>2, SumOfOne
  <2>4. u[f] \in Count /\ t[f] \in Count
    BY <1>1, <1>2
  <2> HIDE DEF c, t
  <2> QED BY <2>1, <2>2, <2>3, <2>4, CountedIs
<1>4. u = t
  BY <1>1, <1>2, <1>3
<1>5. SearchesOf(steps) = steps[1].searches
  <2> DEFINE s == [k \in DOMAIN steps |-> steps[k].searches]
  <2>1. s \in [{1} -> Int] /\ s[1] = steps[1].searches
    BY <1>1
  <2>2. SumFunction(s) = s[1]
    <3> HIDE DEF s
    <3> QED BY <2>1, SumOfOne
  <2> QED BY <2>1, <2>2 DEF SearchesOf
<1> QED BY <1>4, <1>5

(* The lists of a call tell the truth: exact prices make up the bill, and priced items
   leave nothing out. *)
BillOf(call) ==
    SumFunction([k \in DOMAIN call.steps |-> RequestBill(call.steps[k], call.model)])
    + SearchesOf(call.steps) * SearchRate(call.search)

KnownOf(call) ==
    SumFunction([k \in DOMAIN call.steps |-> SafeSum(call.steps[k].tokens, {"in", "out"})])
    + SearchesOf(call.steps)

Truthful(call, lists) ==
    /\ (\A k \in DOMAIN lists : \A c \in lists[k] : Exact(c)) /\ ~DetailsAreDropped(call)
         => SumFunction([k \in DOMAIN lists |-> TotalOf(lists[k])]) = BillOf(call)
    /\ (\A k \in DOMAIN lists : \A c \in lists[k] : ~LacksPrice(c))
         => SumFunction([k \in DOMAIN lists |-> PricedOf(lists[k])]) = KnownOf(call)

LEMMA ModelIs ==
  ASSUME NEW model, IsModel(model)
  PROVE  IsRates(model.rates) /\ Base(model).rates = model.rates /\ IsRates(Base(model).rates)
         /\ model.unsupported \in BOOLEAN
BY DEF IsModel, Base

(* All steps in one list, at the base rates. *)
LEMMA BaseIsTruthful ==
  ASSUME NEW call, IsCall(call), NEW uncertain \in BOOLEAN,
         uncertain \/ (Len(call.steps) > 1 /\ call.model.tiers = {} /\ ~call.model.unsupported),
         NEW list,
         IsPricedList(list, ExtractUsageFromSteps(call.steps), SearchesOf(call.steps), call.search,
                      Base(call.model), uncertain)
  PROVE  Truthful(call, <<list>>)
<1> SUFFICES ASSUME NEW u, u = ExtractUsageFromSteps(call.steps), NEW lists, lists = <<list>>
             PROVE  Truthful(call, lists)
  OBVIOUS
<1> DEFINE steps == call.steps
           D == DOMAIN steps
           model == call.model
           rates == Base(model).rates
           n == SearchesOf(steps)
           rate == SearchRate(call.search)
           bills == [k \in D |-> RequestBill(steps[k], model)]
           side(s) == [k \in D |-> SideBill(steps[k].tokens, rates, s)]
<1>1. steps \in Seq(MeteredStep) /\ IsModel(model)
  BY DEF IsCall
<1>2. IsRates(rates) /\ n \in Nat /\ u \in [TokenFields -> Count]
  BY <1>1, ModelIs, SearchesAre, ExtractIs
<1>p. IsPricedList(list, u, n, call.search, Base(model), uncertain)
  OBVIOUS
<1>3. TotalOf(list) \in Int /\ PricedOf(list) \in Int
  <2> HIDE DEF model, n
  <2> QED BY <1>p, PricedListIs
<1>4. /\ SumFunction([k \in DOMAIN lists |-> TotalOf(lists[k])]) = TotalOf(list)
      /\ SumFunction([k \in DOMAIN lists |-> PricedOf(lists[k])]) = PricedOf(list)
      /\ DOMAIN lists = {1} /\ lists[1] = list
  BY <1>3, OneList
<1>5. \A s \in {"in", "out"} :
        /\ side(s) \in [D -> Int]
        /\ DetailedAlike(steps, s) => SideBill(u, rates, s) = SumFunction(side(s))
        /\ Counted(u[s]) = 0 => SideBill(u, rates, s) = 0 /\ SumFunction(side(s)) = 0
  <2> SUFFICES ASSUME NEW s \in {"in", "out"}
               PROVE  /\ side(s) \in [D -> Int]
                      /\ DetailedAlike(steps, s) => SideBill(u, rates, s) = SumFunction(side(s))
                      /\ Counted(u[s]) = 0 => SideBill(u, rates, s) = 0 /\ SumFunction(side(s)) = 0
    OBVIOUS
  <2>1. side(s) = SideBills(steps, rates, s)
    BY DEF SideBills
  <2>2. side(s) \in [D -> Int]
    <3>1. \A k \in D : SideBill(steps[k].tokens, rates, s) \in Int
      <4>1. \A k \in D : steps[k].tokens \in [TokenFields -> Count]
        BY <1>1, StepsAre
      <4> HIDE DEF rates
      <4> QED BY <1>2, <4>1, SideBillIs
    <3> HIDE DEF rates
    <3> QED BY <3>1
  <2>3. DetailedAlike(steps, s) => SideBill(u, rates, s) = SumFunction(SideBills(steps, rates, s))
    <3> HIDE DEF rates
    <3> QED BY <1>1, <1>2, SideOfSteps
  <2>4. Counted(u[s]) = 0 => SideBill(u, rates, s) = 0
    <3> HIDE DEF rates
    <3> QED BY <1>2, SideOfNothing
  <2>5. Counted(u[s]) = 0 => SumFunction(side(s)) = 0
    <3> SUFFICES ASSUME Counted(u[s]) = 0 PROVE SumFunction(side(s)) = 0
      OBVIOUS
    <3>1. \A k \in D : SideBill(steps[k].tokens, rates, s) = 0
      <4> HIDE DEF rates
      <4> QED BY <1>1, <1>2, SideOfNoTokens
    <3>2. \A k \in D : side(s)[k] = 0
      BY <3>1
    <3>3. IsFiniteSet(D)
      BY <1>1, StepsAre
    <3> HIDE DEF side
    <3> QED BY <2>2, <3>2, <3>3, SumOfZeros
  <2> HIDE DEF side
  <2> QED BY <2>1, <2>2, <2>3, <2>4, <2>5
<1>6. ASSUME \A k \in DOMAIN lists : \A c \in lists[k] : Exact(c), ~DetailsAreDropped(call)
      PROVE  SumFunction([k \in DOMAIN lists |-> TotalOf(lists[k])]) = BillOf(call)
  <2>1. \A c \in list : Exact(c)
    BY <1>4, <1>6
  <2>2. /\ TotalOf(list) = SideBill(u, rates, "in") + SideBill(u, rates, "out") + n * rate
        /\ uncertain => Counted(u["in"]) = 0 /\ Counted(u["out"]) = 0
    <3> HIDE DEF model, n
    <3> QED BY <1>p, <2>1, PricedListIs
  <2>7. \A s \in {"in", "out"} : SideBill(u, rates, s) = SumFunction(side(s))
    <3>1. CASE uncertain
      <4> HIDE DEF side, rates
      <4> QED BY <1>5, <2>2, <3>1
    <3>2. CASE ~uncertain
      <4>1. \A s \in {"in", "out"} : DetailedAlike(steps, s)
        BY <1>6, <3>2 DEF DetailsAreDropped
      <4> HIDE DEF side, rates
      <4> QED BY <1>5, <4>1
    <3> QED BY <3>1, <3>2
  <2>3. \A k \in D : /\ steps[k] \in MeteredStep
                     /\ bills[k] = side("in")[k] + side("out")[k]
    <3> SUFFICES ASSUME NEW k \in D
                 PROVE  steps[k] \in MeteredStep /\ RequestBill(steps[k], model)
                          = SideBill(steps[k].tokens, rates, "in") + SideBill(steps[k].tokens, rates, "out")
      OBVIOUS
    <3>0. steps[k] \in MeteredStep
      BY <1>1, StepsAre
    <3> DEFINE tier == TierFor(steps[k], model)
    <3>1. /\ IsRates(tier.rates) /\ RequestBill(steps[k], model)
              = SideBill(steps[k].tokens, tier.rates, "in") + SideBill(steps[k].tokens, tier.rates, "out")
          /\ model.tiers = {} => tier = Base(model)
      <4> HIDE DEF tier, model
      <4> QED BY <1>1, <3>0, TierIs DEF tier
    <3>2. CASE model.tiers = {}
      <4> HIDE DEF tier, model
      <4> QED BY <3>0, <3>1, <3>2
    <3>3. CASE uncertain
      <4>1. \A s \in {"in", "out"} : \A r : IsRates(r) => SideBill(steps[k].tokens, r, s) = 0
        <5> SUFFICES ASSUME NEW s \in {"in", "out"}, NEW r, IsRates(r) PROVE SideBill(steps[k].tokens, r, s) = 0
          OBVIOUS
        <5>1. Counted(u[s]) = 0
          BY <2>2, <3>3
        <5> QED BY <1>1, <5>1, SideOfNoTokens
      <4> HIDE DEF tier, model, rates
      <4> QED BY <1>2, <3>0, <3>1, <4>1
    <3> QED BY <3>2, <3>3
  <2>4. Added(bills, side("in"), side("out"), D)
    <3>1. IsFiniteSet(D)
      BY <1>1, StepsAre
    <3>2. DOMAIN bills = D /\ bills = [k \in D |-> bills[k]]
      OBVIOUS
    <3> HIDE DEF bills, side
    <3>3. bills \in [D -> Int]
      <4>1. \A k \in D : side("in")[k] \in Int /\ side("out")[k] \in Int
        BY <1>5
      <4>2. \A k \in D : bills[k] \in Int
        BY <2>3, <4>1
      <4> QED BY <3>2, <4>2
    <3> QED BY <1>5, <2>3, <3>1, <3>3 DEF Added
  <2>5. SumFunction(bills) = SumFunction(side("in")) + SumFunction(side("out"))
    <3> HIDE DEF bills, side
    <3> QED BY <2>4, SumAdded
  <2>6. BillOf(call) = SumFunction(bills) + n * rate
    BY DEF BillOf
  <2> HIDE DEF bills, side, rate, n, rates
  <2> QED BY <1>4, <2>2, <2>5, <2>6, <2>7
<1>7. ASSUME \A k \in DOMAIN lists : \A c \in lists[k] : ~LacksPrice(c)
      PROVE  SumFunction([k \in DOMAIN lists |-> PricedOf(lists[k])]) = KnownOf(call)
  <2>1. \A c \in list : ~LacksPrice(c)
    BY <1>4, <1>7
  <2>2. PricedOf(list) = Counted(u["in"]) + Counted(u["out"]) + n
    <3> HIDE DEF model, n
    <3> QED BY <1>p, <2>1, PricedListIs
  <2>3. SumFunction([k \in D |-> SafeSum(steps[k].tokens, {"in", "out"})]) = Counted(u["in"]) + Counted(u["out"])
    BY <1>1, KnownIs
  <2>4. KnownOf(call) = SumFunction([k \in D |-> SafeSum(steps[k].tokens, {"in", "out"})]) + n
    BY DEF KnownOf
  <2> HIDE DEF n
  <2> QED BY <1>4, <2>2, <2>3, <2>4
<1> QED BY <1>6, <1>7 DEF Truthful

(* The only step, at the rates of its tier. *)
LEMMA OneStepIsTruthful ==
  ASSUME NEW call, IsCall(call), Len(call.steps) = 1, NEW uncertain \in BOOLEAN, NEW list,
         IsPricedList(list, ExtractUsageFromSteps(call.steps), SearchesOf(call.steps), call.search,
                      TierFor(call.steps[1], call.model), uncertain)
  PROVE  Truthful(call, <<list>>)
<1> SUFFICES ASSUME NEW u, u = ExtractUsageFromSteps(call.steps), NEW lists, lists = <<list>>,
                    NEW tier, tier = TierFor(call.steps[1], call.model)
             PROVE  Truthful(call, lists)
  OBVIOUS
<1> DEFINE steps == call.steps
           model == call.model
           n == SearchesOf(steps)
           rate == SearchRate(call.search)
           bills == [k \in DOMAIN steps |-> RequestBill(steps[k], model)]
<1>1. steps \in Seq(MeteredStep) /\ IsModel(model)
  BY DEF IsCall
<1>2. DOMAIN steps = {1} /\ steps[1] \in MeteredStep
  BY <1>1, StepsAre
<1>3. n \in Nat /\ u \in [TokenFields -> Count] /\ u = steps[1].tokens
  BY <1>1, SearchesAre, ExtractIs, OneStep
<1>4. /\ IsRates(tier.rates)
      /\ RequestBill(steps[1], model) = SideBill(u, tier.rates, "in") + SideBill(u, tier.rates, "out")
  BY <1>1, <1>2, <1>3, TierIs
<1>p. IsPricedList(list, u, n, call.search, tier, uncertain)
  OBVIOUS
<1>5. TotalOf(list) \in Int /\ PricedOf(list) \in Int
  <2> HIDE DEF n
  <2> QED BY <1>p, PricedListIs
<1>6. /\ SumFunction([k \in DOMAIN lists |-> TotalOf(lists[k])]) = TotalOf(list)
      /\ SumFunction([k \in DOMAIN lists |-> PricedOf(lists[k])]) = PricedOf(list)
      /\ DOMAIN lists = {1} /\ lists[1] = list
  BY <1>5, OneList
<1>7. ASSUME \A k \in DOMAIN lists : \A c \in lists[k] : Exact(c)
      PROVE  SumFunction([k \in DOMAIN lists |-> TotalOf(lists[k])]) = BillOf(call)
  <2>1. \A c \in list : Exact(c)
    BY <1>6, <1>7
  <2>2. /\ TotalOf(list) = SideBill(u, tier.rates, "in") + SideBill(u, tier.rates, "out") + n * rate
        /\ SideBill(u, tier.rates, "in") \in Int /\ SideBill(u, tier.rates, "out") \in Int
    <3> HIDE DEF n
    <3> QED BY <1>p, <2>1, PricedListIs
  <2>3. bills[1] = SideBill(u, tier.rates, "in") + SideBill(u, tier.rates, "out")
    BY <1>2, <1>4
  <2>4. bills \in [{1} -> Int]
    BY <1>2, <2>2, <2>3
  <2>5. SumFunction(bills) = bills[1]
    <3> HIDE DEF bills
    <3> QED BY <2>4, SumOfOne
  <2>6. BillOf(call) = SumFunction(bills) + n * rate
    BY DEF BillOf
  <2> HIDE DEF bills, n, rate
  <2> QED BY <1>6, <2>2, <2>3, <2>5, <2>6
<1>8. ASSUME \A k \in DOMAIN lists : \A c \in lists[k] : ~LacksPrice(c)
      PROVE  SumFunction([k \in DOMAIN lists |-> PricedOf(lists[k])]) = KnownOf(call)
  <2>1. \A c \in list : ~LacksPrice(c)
    BY <1>6, <1>8
  <2>2. PricedOf(list) = Counted(u["in"]) + Counted(u["out"]) + n
    <3> HIDE DEF n
    <3> QED BY <1>p, <2>1, PricedListIs
  <2>3. SumFunction([k \in DOMAIN steps |-> SafeSum(steps[k].tokens, {"in", "out"})]) = Counted(u["in"]) + Counted(u["out"])
    BY <1>1, KnownIs
  <2>4. KnownOf(call) = SumFunction([k \in DOMAIN steps |-> SafeSum(steps[k].tokens, {"in", "out"})]) + n
    BY DEF KnownOf
  <2> HIDE DEF n
  <2> QED BY <1>6, <2>2, <2>3, <2>4
<1> QED BY <1>7, <1>8 DEF Truthful

(* Every step in a list of its own, at the rates of its tier. *)
LEMMA EveryStepIsTruthful ==
  ASSUME NEW call, IsCall(call), NEW lists, DOMAIN lists = DOMAIN call.steps,
         \A k \in DOMAIN call.steps : \E uncertain \in BOOLEAN :
            IsPricedList(lists[k], call.steps[k].tokens, call.steps[k].searches, call.search,
                         TierFor(call.steps[k], call.model), uncertain)
  PROVE  Truthful(call, lists)
<1> DEFINE steps == call.steps
           D == DOMAIN steps
           model == call.model
           n == SearchesOf(steps)
           rate == SearchRate(call.search)
           searches == [k \in D |-> steps[k].searches]
           bills == [k \in D |-> RequestBill(steps[k], model)]
           known == [k \in D |-> SafeSum(steps[k].tokens, {"in", "out"})]
           found == [k \in D |-> searches[k] * rate]
           totals == [k \in D |-> TotalOf(lists[k])]
           priced == [k \in D |-> PricedOf(lists[k])]
<1>1. steps \in Seq(MeteredStep) /\ IsModel(model)
  BY DEF IsCall
<1>2. IsFiniteSet(D) /\ \A k \in D : steps[k] \in MeteredStep /\ steps[k].searches \in Nat
  BY <1>1, StepsAre
<1>3. searches \in [D -> Int] /\ n = SumFunction(searches) /\ n \in Int /\ rate \in Int
  <2>1. n \in Int
    BY <1>1, SearchesAre
  <2> QED BY <1>2, <2>1 DEF SearchesOf, SearchRate, None
<1>4. totals \in [D -> Int] /\ priced \in [D -> Int]
  <2>1. ASSUME NEW k \in D PROVE TotalOf(lists[k]) \in Int /\ PricedOf(lists[k]) \in Int
    BY PricedListIs
  <2> QED BY <2>1
<1>5. ASSUME \A k \in DOMAIN lists : \A c \in lists[k] : Exact(c)
      PROVE  SumFunction(totals) = BillOf(call)
  <2>1. ASSUME NEW k \in D
        PROVE  totals[k] = bills[k] + found[k] /\ bills[k] \in Int /\ found[k] \in Int
    <3> DEFINE tier == TierFor(steps[k], model)
               t == steps[k].tokens
    <3>1. PICK uncertain \in BOOLEAN :
            IsPricedList(lists[k], t, steps[k].searches, call.search, tier, uncertain)
      OBVIOUS
    <3>2. \A c \in lists[k] : Exact(c)
      BY <1>5
    <3>3. /\ TotalOf(lists[k]) = SideBill(t, tier.rates, "in") + SideBill(t, tier.rates, "out")
                                 + steps[k].searches * rate
          /\ SideBill(t, tier.rates, "in") \in Int /\ SideBill(t, tier.rates, "out") \in Int
      <4> HIDE DEF t, tier
      <4> QED BY <3>1, <3>2, PricedListIs
    <3>4. RequestBill(steps[k], model) = SideBill(t, tier.rates, "in") + SideBill(t, tier.rates, "out")
      BY <1>1, <1>2, TierIs
    <3>5. totals[k] = TotalOf(lists[k]) /\ bills[k] = RequestBill(steps[k], model) /\ found[k] = steps[k].searches * rate
      OBVIOUS
    <3>6. found[k] \in Int
      BY <1>2, <1>3
    <3> HIDE DEF totals, bills, found, t, tier, rate
    <3> QED BY <3>3, <3>4, <3>5, <3>6
  <2>2. bills \in [D -> Int] /\ found \in [D -> Int]
    <3>1. DOMAIN bills = D /\ bills = [k \in D |-> bills[k]] /\ found = [k \in D |-> found[k]]
      OBVIOUS
    <3> HIDE DEF bills, found, totals
    <3> QED BY <2>1, <3>1
  <2>3. Added(totals, bills, found, D)
    <3> HIDE DEF bills, found, totals
    <3> QED BY <1>2, <1>4, <2>1, <2>2 DEF Added
  <2>4. Scaled(found, searches, rate, D)
    <3>1. \A k \in D : found[k] = searches[k] * rate
      OBVIOUS
    <3> HIDE DEF found, searches, rate
    <3> QED BY <1>3, <2>2, <3>1 DEF Scaled
  <2>5. SumFunction(totals) = SumFunction(bills) + SumFunction(found)
    <3> HIDE DEF bills, found, totals
    <3> QED BY <2>3, SumAdded
  <2>6. SumFunction(found) = SumFunction(searches) * rate
    <3> HIDE DEF found, searches, rate
    <3> QED BY <1>2, <2>4, SumScaled
  <2>7. BillOf(call) = SumFunction(bills) + n * rate
    BY DEF BillOf
  <2> HIDE DEF bills, found, totals, searches, n, rate
  <2> QED BY <1>3, <2>5, <2>6, <2>7
<1>6. ASSUME \A k \in DOMAIN lists : \A c \in lists[k] : ~LacksPrice(c)
      PROVE  SumFunction(priced) = KnownOf(call)
  <2>1. ASSUME NEW k \in D
        PROVE  priced[k] = known[k] + searches[k] /\ known[k] \in Int
    <3> DEFINE tier == TierFor(steps[k], model)
               t == steps[k].tokens
    <3>1. PICK uncertain \in BOOLEAN :
            IsPricedList(lists[k], t, steps[k].searches, call.search, tier, uncertain)
      OBVIOUS
    <3>2. \A c \in lists[k] : ~LacksPrice(c)
      BY <1>6
    <3>3. PricedOf(lists[k]) = Counted(t["in"]) + Counted(t["out"]) + steps[k].searches
      <4> HIDE DEF t, tier
      <4> QED BY <3>1, <3>2, PricedListIs
    <3>4. /\ SafeSum(t, {"in", "out"}) = Counted(t["in"]) + Counted(t["out"])
          /\ Counted(t["in"]) \in Nat /\ Counted(t["out"]) \in Nat
      BY <1>1, KnownIs
    <3>5. priced[k] = PricedOf(lists[k]) /\ known[k] = SafeSum(t, {"in", "out"}) /\ searches[k] = steps[k].searches
      OBVIOUS
    <3> HIDE DEF priced, known, searches, t
    <3> QED BY <1>2, <3>3, <3>4, <3>5
  <2>2. known \in [D -> Int]
    <3>1. known = [k \in D |-> known[k]]
      OBVIOUS
    <3> HIDE DEF known, priced, searches
    <3> QED BY <2>1, <3>1
  <2>3. Added(priced, known, searches, D)
    <3> HIDE DEF known, priced, searches
    <3> QED BY <1>2, <1>3, <1>4, <2>1, <2>2 DEF Added
  <2>4. SumFunction(priced) = SumFunction(known) + SumFunction(searches)
    <3> HIDE DEF known, priced, searches
    <3> QED BY <2>3, SumAdded
  <2>5. KnownOf(call) = SumFunction(known) + n
    BY DEF KnownOf
  <2> HIDE DEF known, priced, searches, n
  <2> QED BY <1>3, <2>4, <2>5
<1>7. /\ totals = [k \in DOMAIN lists |-> TotalOf(lists[k])]
      /\ priced = [k \in DOMAIN lists |-> PricedOf(lists[k])]
  OBVIOUS
<1>8. /\ (\A k \in DOMAIN lists : \A c \in lists[k] : Exact(c)) => SumFunction(totals) = BillOf(call)
      /\ (\A k \in DOMAIN lists : \A c \in lists[k] : ~LacksPrice(c)) => SumFunction(priced) = KnownOf(call)
  BY <1>5, <1>6
<1> HIDE DEF totals, priced
<1> QED BY <1>7, <1>8 DEF Truthful

(* The lists of a call, as calculateCosts makes them. *)
UsageOf(call) ==
    ParseUsage(IF call.reported THEN ExtractUsageFromSteps(call.steps) ELSE NoTokens, call.steps, call.search)

StepsUsage(call) ==
    [i \in DOMAIN call.steps |-> ParseUsage(call.steps[i].tokens, <<call.steps[i]>>, call.search)]

ListsOf(call) ==
    IF call.model.tiers # {} \/ call.model.unsupported
    THEN CalculateTieredUsage(UsageOf(call), StepsUsage(call), call.model)
    ELSE CalculateStandardUsage(UsageOf(call), call.model)

LEMMA CalculatedIs ==
  ASSUME NEW call
  PROVE  CalculateCosts(call).cost =
           GenerationCost(ListsOf(call), UsageOf(call).status,
                          FetchModelsPricing(call.cache, call.cooling, call.answer))
BY DEF CalculateCosts, ListsOf, UsageOf, StepsUsage

LEMMA UsageOfCall ==
  ASSUME NEW call, IsCall(call), NEW u, u = ExtractUsageFromSteps(call.steps),
         NEW usage, usage = UsageOf(call)
  PROVE  /\ usage.items = ItemsOf(u, SearchesOf(call.steps), call.search)
         /\ usage.input = u["in"]
         /\ (usage.status = "complete") <=> IsValid(u["in"]) /\ IsValid(u["out"])
         /\ usage.status \in {"complete", "incomplete"}
<1>1. call.steps \in Seq(MeteredStep) /\ call.reported \in BOOLEAN
  BY DEF IsCall
<1>2. u \in [TokenFields -> Count] /\ SearchesOf(call.steps) \in Nat
  BY <1>1, ExtractIs, SearchesAre
<1> DEFINE aggregate == IF call.reported THEN u ELSE NoTokens
<1>3. ResolveUsage(aggregate, call.steps) = u
  <2>1. aggregate \in {u, NoTokens}
    OBVIOUS
  <2> HIDE DEF aggregate
  <2> QED BY <1>1, <2>1, UsageOfSteps
<1>4. usage = ParseUsage(aggregate, call.steps, call.search)
  BY DEF UsageOf
<1> HIDE DEF aggregate
<1> QED BY <1>2, <1>3, <1>4, ParseIs

LEMMA UsageOfAStep ==
  ASSUME NEW call, IsCall(call), NEW k \in DOMAIN call.steps,
         NEW usage, usage = StepsUsage(call)[k], NEW t, t = call.steps[k].tokens
  PROVE  /\ usage.items = ItemsOf(t, call.steps[k].searches, call.search)
         /\ usage.input = t["in"]
         /\ (usage.status = "complete") <=> IsValid(t["in"]) /\ IsValid(t["out"])
         /\ usage.status \in {"complete", "incomplete"}
         /\ t \in [TokenFields -> Count] /\ call.steps[k].searches \in Nat
<1>1. call.steps \in Seq(MeteredStep)
  BY DEF IsCall
<1>2. t \in [TokenFields -> Count] /\ call.steps[k].searches \in Nat /\ call.steps[k] \in MeteredStep
  BY <1>1, StepsAre
<1>3. ResolveUsage(t, <<call.steps[k]>>) = t /\ SearchesOf(<<call.steps[k]>>) = call.steps[k].searches
  BY <1>2, UsageOfOne
<1>4. usage = ParseUsage(t, <<call.steps[k]>>, call.search)
  BY DEF StepsUsage
<1> QED BY <1>2, <1>3, <1>4, ParseIs

(* Whichever way the lists are made, they tell the truth, unless the usage says it is
   incomplete. *)
LEMMA ListsAreTruthful ==
  ASSUME NEW call, IsCall(call), UsageOf(call).status # "incomplete"
  PROVE  Truthful(call, ListsOf(call))
<1> DEFINE steps == call.steps
           model == call.model
           usage == UsageOf(call)
           u == ExtractUsageFromSteps(steps)
           n == SearchesOf(steps)
           lists == ListsOf(call)
           each == StepsUsage(call)
<1>1. steps \in Seq(MeteredStep) /\ IsModel(model) /\ model.unsupported \in BOOLEAN
      /\ u \in [TokenFields -> Count] /\ n \in Nat
  <2>1. steps \in Seq(MeteredStep) /\ IsModel(model) /\ model.unsupported \in BOOLEAN
    BY DEF IsCall, IsModel
  <2> QED BY <2>1, ExtractIs, SearchesAre
<1>2. /\ usage.items = ItemsOf(u, n, call.search) /\ usage.input = u["in"]
      /\ IsValid(u["in"]) /\ IsValid(u["out"])
  <2> HIDE DEF usage, u, n
  <2>1. /\ usage.items = ItemsOf(u, n, call.search) /\ usage.input = u["in"]
        /\ (usage.status = "complete") <=> IsValid(u["in"]) /\ IsValid(u["out"])
        /\ usage.status \in {"complete", "incomplete"}
    BY UsageOfCall DEF usage, u, n
  <2> QED BY <2>1 DEF usage
<1>3. Len(steps) \in Nat /\ DOMAIN steps = 1 .. Len(steps) /\ each = [k \in 1 .. Len(steps) |-> each[k]] /\ Len(each) = Len(steps)
  <2>1. Len(steps) \in Nat /\ DOMAIN steps = 1 .. Len(steps)
    BY <1>1, StepsAre
  <2> QED BY <2>1 DEF StepsUsage
<1>4. Len(steps) # 0
  <2> SUFFICES ASSUME Len(steps) = 0 PROVE FALSE
    OBVIOUS
  <2>1. DOMAIN steps = {}
    BY <1>3
  <2>2. u["in"] = None
    BY <1>1, <2>1, ExtractIs DEF TokenFields
  <2> QED BY <1>2, <2>2 DEF None, IsValid
<1>5. CASE model.tiers = {} /\ ~model.unsupported
  <2>1. lists = <<CostItems(usage, Base(model), FALSE)>>
    BY <1>5 DEF ListsOf, CalculateStandardUsage
  <2>2. IsPricedList(CostItems(usage, Base(model), FALSE), u, n, call.search, Base(model), FALSE)
    <3> HIDE DEF usage, u, n, model
    <3> QED BY <1>1, <1>2, ModelIs DEF IsPricedList
  <2>3. Truthful(call, <<CostItems(usage, Base(model), FALSE)>>)
    <3>1. CASE Len(steps) > 1
      <4> HIDE DEF usage
      <4> QED BY <1>5, <2>2, <3>1, BaseIsTruthful
    <3>2. CASE Len(steps) = 1
      <4>1. TierFor(steps[1], model) = Base(model)
        <5>1. steps[1] \in MeteredStep
          BY <1>1, <3>2, StepsAre
        <5> QED BY <1>1, <1>5, <5>1, TierIs
      <4> HIDE DEF usage
      <4> QED BY <2>2, <3>2, <4>1, OneStepIsTruthful
    <3> QED BY <1>3, <1>4, <3>1, <3>2
  <2> HIDE DEF usage, lists
  <2> QED BY <2>1, <2>3 DEF lists
<1>6. CASE ~(model.tiers = {} /\ ~model.unsupported)
  <2>1. lists = CalculateTieredUsage(usage, each, model)
    BY <1>6 DEF ListsOf
  <2>2. CASE Len(steps) > 1 /\ \E i \in DOMAIN each : each[i].status # "complete"
    <3>1. lists = <<CostItems(usage, Base(model), TRUE)>>
      <4> HIDE DEF each, lists, usage
      <4> QED BY <1>3, <2>1, <2>2 DEF CalculateTieredUsage
    <3>2. IsPricedList(CostItems(usage, Base(model), TRUE), u, n, call.search, Base(model), TRUE)
      <4> HIDE DEF usage, u, n, model
      <4> QED BY <1>1, <1>2, ModelIs DEF IsPricedList
    <3>3. Truthful(call, <<CostItems(usage, Base(model), TRUE)>>)
      <4> HIDE DEF usage
      <4> QED BY <3>2, BaseIsTruthful
    <3> HIDE DEF usage, lists
    <3> QED BY <3>1, <3>3 DEF lists
  <2>3. CASE Len(steps) > 1 /\ ~(\E i \in DOMAIN each : each[i].status # "complete")
    <3>1. lists = [i \in DOMAIN each |->
                     IF IsValid(each[i].input)
                     THEN CostItems(each[i], ResolveTier(model, each[i].input), model.unsupported)
                     ELSE CostItems(each[i], Base(model), FALSE)]
      <4> HIDE DEF each, lists, usage
      <4> QED BY <1>3, <2>1, <2>3 DEF CalculateTieredUsage
    <3>2. DOMAIN each = DOMAIN steps
      BY DEF StepsUsage
    <3>3. ASSUME NEW k \in DOMAIN steps
          PROVE  \E uncertain \in BOOLEAN :
                   IsPricedList(lists[k], steps[k].tokens, steps[k].searches, call.search,
                                TierFor(steps[k], model), uncertain)
      <4> DEFINE t == steps[k].tokens
                 tier == TierFor(steps[k], model)
                 one == each[k]
      <4>1. /\ one.items = ItemsOf(t, steps[k].searches, call.search) /\ one.input = t["in"]
            /\ (one.status = "complete") <=> IsValid(t["in"]) /\ IsValid(t["out"])
            /\ t \in [TokenFields -> Count] /\ steps[k].searches \in Nat
        BY UsageOfAStep
      <4>2. one.status = "complete"
        BY <2>3, <3>2
      <4>3. IsValid(t["in"]) /\ tier = ResolveTier(model, t["in"])
        <5>1. IsValid(t["in"])
          <6> HIDE DEF t, one
          <6> QED BY <4>1, <4>2
        <5> QED BY <5>1 DEF TierFor
      <4>4. lists[k] = CostItems(one, tier, model.unsupported)
        <5>1. lists[k] = IF IsValid(one.input)
                         THEN CostItems(one, ResolveTier(model, one.input), model.unsupported)
                         ELSE CostItems(one, Base(model), FALSE)
          <6> HIDE DEF each, lists
          <6> QED BY <3>1, <3>2
        <5> HIDE DEF lists, one, t, tier
        <5> QED BY <4>1, <4>3, <5>1
      <4>5. IsRates(tier.rates)
        <5>1. steps[k] \in MeteredStep
          BY <1>1, StepsAre
        <5> QED BY <1>1, <5>1, TierIs
      <4>6. IsPricedList(lists[k], t, steps[k].searches, call.search, tier, model.unsupported)
        <5> HIDE DEF lists, one, t, tier
        <5> QED BY <1>1, <4>1, <4>4, <4>5 DEF IsPricedList
      <4> QED BY <1>1, <4>6
    <3>4. DOMAIN lists = DOMAIN steps
      <4> HIDE DEF each, lists
      <4> QED BY <3>1, <3>2
    <3>5. Truthful(call, lists)
      <4> HIDE DEF lists
      <4> QED BY <3>3, <3>4, EveryStepIsTruthful
    <3> QED BY <3>5
  <2>4. CASE ~(Len(steps) > 1)
    <3> DEFINE requests == <<usage>>
               list == CostItems(usage, ResolveTier(model, u["in"]), model.unsupported)
    <3>1. lists = [i \in DOMAIN requests |->
                     IF IsValid(requests[i].input)
                     THEN CostItems(requests[i], ResolveTier(model, requests[i].input), model.unsupported)
                     ELSE CostItems(requests[i], Base(model), FALSE)]
      <4> HIDE DEF each, lists, usage
      <4> QED BY <1>3, <2>1, <2>4 DEF CalculateTieredUsage
    <3>2. DOMAIN requests = {1} /\ requests[1] = usage
      OBVIOUS
    <3>3. lists = <<list>>
      <4>1. lists = [i \in {1} |-> list]
        <5> HIDE DEF requests, lists, usage, u
        <5> QED BY <1>2, <3>1, <3>2
      <4>2. <<list>> = [i \in {1} |-> list]
        <5> HIDE DEF list
        <5> QED OBVIOUS
      <4> HIDE DEF list, lists
      <4> QED BY <4>1, <4>2
    <3>4. Len(steps) = 1
      <4> HIDE DEF steps
      <4> QED BY <1>3, <1>4, <2>4
    <3>5. ResolveTier(model, u["in"]) = TierFor(steps[1], model)
      <4>1. u = steps[1].tokens
        BY <1>1, <3>4, OneStep
      <4> HIDE DEF u
      <4> QED BY <1>2, <4>1 DEF TierFor
    <3>6. IsPricedList(list, u, n, call.search, TierFor(steps[1], model), model.unsupported)
      <4> DEFINE tier == TierFor(steps[1], model)
      <4>1. IsRates(tier.rates)
        <5>1. steps[1] \in MeteredStep
          BY <1>1, <3>4, StepsAre
        <5> QED BY <1>1, <5>1, TierIs
      <4>2. list = CostItems(usage, tier, model.unsupported)
        BY <3>5
      <4>3. IsPricedList(list, u, n, call.search, tier, model.unsupported)
        <5> HIDE DEF list, usage, u, n, tier, model
        <5> QED BY <1>1, <1>2, <4>1, <4>2 DEF IsPricedList
      <4> QED BY <4>3
    <3>7. Truthful(call, <<list>>)
      <4> HIDE DEF list
      <4> QED BY <1>1, <3>4, <3>6, OneStepIsTruthful
    <3> HIDE DEF lists, list
    <3> QED BY <3>3, <3>7 DEF lists
  <2> QED BY <2>2, <2>3, <2>4
<1> QED BY <1>5, <1>6

(* A cost says the truth about itself. *)
LEMMA CostsTellTheBill ==
  ASSUME NEW call, IsCall(call)
  PROVE  StatusTellsTheBill(call, CalculateCosts(call))
<1> DEFINE answer == CalculateCosts(call)
           lists == ListsOf(call)
           status == UsageOf(call).status
<1>1. answer.cost = GenerationCost(lists, status, FetchModelsPricing(call.cache, call.cooling, call.answer))
  BY CalculatedIs
<1>2. /\ answer.cost.total = SumFunction([k \in DOMAIN lists |-> TotalOf(lists[k])])
      /\ answer.cost.priced = SumFunction([k \in DOMAIN lists |-> PricedOf(lists[k])])
      /\ answer.cost.status # "incomplete" =>
           status # "incomplete" /\ \A k \in DOMAIN lists : \A c \in lists[k] : ~LacksPrice(c)
      /\ answer.cost.status = "precise" => \A k \in DOMAIN lists : \A c \in lists[k] : Exact(c)
  <2> HIDE DEF lists, status, answer
  <2> QED BY <1>1, CostIs
<1>3. status # "incomplete" => Truthful(call, lists)
  BY ListsAreTruthful
<1>4. answer.cost.status = "precise" /\ ~DetailsAreDropped(call) => answer.cost.total = BillOf(call)
  <2> HIDE DEF lists, status, answer
  <2> QED BY <1>2, <1>3 DEF Truthful
<1>5. answer.cost.status # "incomplete" => answer.cost.priced = KnownOf(call)
  <2> HIDE DEF lists, status, answer
  <2> QED BY <1>2, <1>3 DEF Truthful
<1> HIDE DEF answer
<1> QED BY <1>4, <1>5 DEF StatusTellsTheBill, BillOf, KnownOf, answer

-----------------------------------------------------------------------------
(* The report. *)

(* What becomes of the first nodes of a trace in the search for calls of a kind. *)
Fates == {"left out", "passed", "seen", "call"}

FateOf(trace, kind, fate, i) ==
    IF trace[i].parent # 0 /\ fate[trace[i].parent] \in {"left out", "seen"} THEN "left out"
    ELSE IF trace[i].kind # kind THEN "passed"
    ELSE IF trace[i].id # NoId
            /\ \E j \in 1 .. i - 1 : fate[j] = "call" /\ trace[j].id = trace[i].id
    THEN "seen"
    ELSE "call"

Searched(fate, trace, kind, n) == fate = [i \in 1 .. n |-> FateOf(trace, kind, fate, i)]

LEMMA FateOfSame ==
  ASSUME NEW trace, NEW kind, NEW f, NEW g, NEW i \in Nat, trace[i].parent \in 0 .. i - 1,
         \A j \in 1 .. i - 1 : f[j] = g[j]
  PROVE  FateOf(trace, kind, f, i) = FateOf(trace, kind, g, i)
<1>1. trace[i].parent # 0 => f[trace[i].parent] = g[trace[i].parent]
  OBVIOUS
<1>2. (\E j \in 1 .. i - 1 : f[j] = "call" /\ trace[j].id = trace[i].id)
       <=> \E j \in 1 .. i - 1 : g[j] = "call" /\ trace[j].id = trace[i].id
  OBVIOUS
<1> QED BY <1>1, <1>2 DEF FateOf

LEMMA SearchExists ==
  ASSUME NEW trace, IsTrace(trace), NEW kind
  PROVE  \E fate : Searched(fate, trace, kind, Len(trace))
<1> DEFINE bad == {n \in 0 .. Len(trace) : ~\E fate : Searched(fate, trace, kind, n)}
<1>0. /\ Len(trace) \in Nat
      /\ \A i \in 1 .. Len(trace) : trace[i].parent \in 0 .. i - 1
  BY DEF IsTrace
<1> SUFFICES ASSUME bad # {} PROVE FALSE
  BY <1>0
<1>1. PICK n \in bad : \A i \in bad : n <= i
  <2>1. bad \in SUBSET Nat
    OBVIOUS
  <2> HIDE DEF bad
  <2> QED BY <2>1, Least
<1>2. n # 0
  <2>1. 1 .. 0 = {}
    OBVIOUS
  <2>2. Searched([i \in 1 .. 0 |-> "call"], trace, kind, 0)
    BY <2>1 DEF Searched
  <2> QED BY <2>2, <1>1
<1>3. n - 1 \in 0 .. Len(trace) /\ n - 1 \notin bad /\ n \in 1 .. Len(trace)
  BY <1>0, <1>1, <1>2
<1>4. PICK fate : Searched(fate, trace, kind, n - 1)
  BY <1>3
<1> DEFINE more == [i \in 1 .. n |-> FateOf(trace, kind, fate, i)]
<1>5. \A i \in 1 .. n - 1 : more[i] = fate[i]
  BY <1>3, <1>4 DEF Searched
<1>6. \A i \in 1 .. n : FateOf(trace, kind, fate, i) = FateOf(trace, kind, more, i)
  <2> SUFFICES ASSUME NEW i \in 1 .. n
               PROVE  FateOf(trace, kind, fate, i) = FateOf(trace, kind, more, i)
    OBVIOUS
  <2>1. \A j \in 1 .. i - 1 : fate[j] = more[j]
    <3> HIDE DEF more
    <3> QED BY <1>3, <1>5
  <2>2. i \in Nat /\ trace[i].parent \in 0 .. i - 1
    BY <1>0, <1>3
  <2> HIDE DEF more
  <2> QED BY <2>1, <2>2, FateOfSame
<1>7. Searched(more, trace, kind, n)
  <2>1. more = [i \in 1 .. n |-> FateOf(trace, kind, more, i)]
    BY <1>6
  <2> HIDE DEF more
  <2> QED BY <2>1 DEF Searched
<1> QED BY <1>1, <1>7

LEMMA NotTheFirst == ASSUME NEW i \in Nat, NEW p \in 0 .. i - 1, p # 0 PROVE p \in 1 .. i - 1
OBVIOUS

(* A call is what is of the kind and no repetition. *)
LEMMA CallsAre ==
  ASSUME NEW trace, IsTrace(trace), NEW kind
  PROVE  FindCalls(trace, kind) = {i \in DOMAIN trace : trace[i].kind = kind /\ ~Repeated(trace, i)}
<1> DEFINE it == CHOOSE it : it = [i \in DOMAIN trace |->
                    IF trace[i].parent # 0 /\ it[trace[i].parent] \in {"left out", "seen"} THEN "left out"
                    ELSE IF trace[i].kind # kind THEN "passed"
                    ELSE IF trace[i].id # NoId
                            /\ \E j \in 1 .. i - 1 : it[j] = "call" /\ trace[j].id = trace[i].id
                    THEN "seen"
                    ELSE "call"]
<1>1. FindCalls(trace, kind) = {i \in DOMAIN trace : it[i] = "call"}
  BY DEF FindCalls
<1>2. Len(trace) \in Nat /\ DOMAIN trace = 1 .. Len(trace)
  BY DEF IsTrace
<1>3. it = [i \in DOMAIN trace |-> FateOf(trace, kind, it, i)]
  <2>1. PICK fate : Searched(fate, trace, kind, Len(trace))
    BY SearchExists
  <2>2. fate = [i \in DOMAIN trace |-> FateOf(trace, kind, fate, i)]
    BY <1>2, <2>1 DEF Searched
  <2> QED BY <2>2, Zenon DEF FateOf
<1>n. \A i \in DOMAIN trace : i \in Nat /\ \A j \in 1 .. i - 1 : j \in DOMAIN trace /\ j \in Nat /\ ~(i <= j)
  BY <1>2
<1> HIDE DEF it
<1>4. \A i \in DOMAIN trace : /\ trace[i].parent \in 0 .. i - 1
                              /\ trace[i].parent # 0 /\ Repeated(trace, trace[i].parent) => Repeated(trace, i)
  BY DEF IsTrace
<1> DEFINE Right(i) == /\ it[i] \in {"left out", "seen"} => Repeated(trace, i)
                       /\ it[i] = "call" => trace[i].kind = kind /\ ~Repeated(trace, i)
                       /\ trace[i].kind = kind /\ ~Repeated(trace, i) => it[i] = "call"
           wrong == {i \in DOMAIN trace : ~Right(i)}
<1>5. wrong = {}
  <2> SUFFICES ASSUME wrong # {} PROVE FALSE
    OBVIOUS
  <2>1. PICK i \in wrong : \A j \in wrong : i <= j
    <3>1. wrong \in SUBSET Nat
      <4> HIDE DEF Right
      <4> QED BY <1>n
    <3> HIDE DEF wrong
    <3> QED BY <3>1, Least
  <2>2. i \in DOMAIN trace /\ i \in Nat /\ ~Right(i) /\ \A j \in 1 .. i - 1 : j \in DOMAIN trace /\ Right(j)
    <3>1. i \in DOMAIN trace /\ i \in Nat /\ ~Right(i)
      <4> HIDE DEF Right
      <4> QED BY <1>n
    <3>2. ASSUME NEW j \in 1 .. i - 1 PROVE j \in DOMAIN trace /\ Right(j)
      <4>1. j \in DOMAIN trace /\ ~(i <= j)
        BY <1>n, <3>1
      <4> HIDE DEF Right
      <4> QED BY <2>1, <4>1
    <3> HIDE DEF Right, wrong
    <3> QED BY <3>1, <3>2
  <2>3. it[i] = FateOf(trace, kind, it, i)
    BY <1>3, <2>2
  <2>4. trace[i].parent \in 0 .. i - 1 /\ (trace[i].parent # 0 /\ Repeated(trace, trace[i].parent) => Repeated(trace, i))
    BY <1>4, <2>2
  <2>5. trace[i].parent # 0 /\ it[trace[i].parent] \in {"left out", "seen"} => Repeated(trace, i)
    <3> SUFFICES ASSUME trace[i].parent # 0, it[trace[i].parent] \in {"left out", "seen"}
                 PROVE  Repeated(trace, i)
      OBVIOUS
    <3>1. trace[i].parent \in 1 .. i - 1
      <4> HIDE DEF Right, wrong
      <4> QED BY <2>2, <2>4, NotTheFirst
    <3>2. Right(trace[i].parent)
      <4> HIDE DEF Right
      <4> QED BY <2>2, <3>1
    <3> QED BY <2>4, <3>2
  <2>6. ASSUME trace[i].kind = kind, NEW j \in 1 .. i - 1, it[j] = "call", trace[j].id = trace[i].id,
               trace[i].id # NoId
        PROVE  Repeated(trace, i)
    <3>1. Right(j)
      <4> HIDE DEF Right
      <4> QED BY <2>2
    <3>2. trace[j].kind = kind
      BY <2>6, <3>1
    <3> QED BY <2>6, <3>2 DEF Repeated
  <2>7. ASSUME trace[i].kind = kind, Repeated(trace, i)
        PROVE  trace[i].id # NoId /\ \E j \in 1 .. i - 1 : it[j] = "call" /\ trace[j].id = trace[i].id
    <3> DEFINE same == {j \in 1 .. i - 1 : trace[j].kind = kind /\ trace[j].id = trace[i].id}
    <3>1. same # {} /\ trace[i].id # NoId
      BY <2>7 DEF Repeated
    <3>2. PICK j \in same : \A k \in same : j <= k
      <4>1. same \in SUBSET Nat
        BY <1>n, <2>2
      <4> HIDE DEF same
      <4> QED BY <3>1, <4>1, Least
    <3>3. ~Repeated(trace, j)
      <4> SUFFICES ASSUME NEW k \in 1 .. j - 1, trace[k].kind = trace[j].kind, trace[k].id = trace[j].id
                   PROVE  FALSE
        BY DEF Repeated
      <4>n. \A m \in 1 .. i - 1 : \A l \in 1 .. m - 1 : l \in 1 .. i - 1 /\ ~(m <= l)
        <5> HIDE DEF Right
        <5> QED BY <2>2
      <4>0. j \in 1 .. i - 1 /\ k \in 1 .. i - 1 /\ ~(j <= k)
        BY <4>n, <3>2
      <4>1. k \in same /\ ~(j <= k)
        BY <3>2, <4>0
      <4> QED BY <3>2, <4>1
    <3>4. it[j] = "call"
      <4>1. Right(j)
        <5> HIDE DEF Right
        <5> QED BY <2>2, <3>2
      <4> QED BY <3>2, <3>3, <4>1
    <3> QED BY <3>1, <3>2, <3>4
  <2>8. Right(i)
    BY <2>3, <2>5, <2>6, <2>7 DEF FateOf
  <2> QED BY <2>2, <2>8
<1>6. \A i \in DOMAIN trace : Right(i)
  <2> HIDE DEF Right
  <2> QED BY <1>5
<1> QED BY <1>1, <1>6

(* What a priced item is. *)
PricedItem(c, rates) ==
    /\ c.amount \in Nat /\ c.ppm \in Count /\ c.ppm = ResolvePrice(c.group, c.label, rates).ppm
    /\ \/ c.group = "tools"
       \/ c.group = "input" /\ c.label \in Details("in") \cup {"none"}
       \/ c.group = "output" /\ c.label \in Details("out") \cup {"none"}

PricedItems(list, rates) == IsFiniteSet(list) /\ \A c \in list : PricedItem(c, rates)

LEMMA ItemsOfList ==
  ASSUME NEW list, NEW u, NEW n, NEW label, NEW tier, NEW uncertain,
         IsPricedList(list, u, n, label, tier, uncertain)
  PROVE  PricedItems(list, tier.rates)
<1>1. /\ u \in [TokenFields -> Count] /\ n \in Nat /\ IsRates(tier.rates) /\ uncertain \in BOOLEAN
      /\ \E usage : usage.items = ItemsOf(u, n, label) /\ list = CostItems(usage, tier, uncertain)
  BY DEF IsPricedList
<1>2. PICK usage : usage.items = ItemsOf(u, n, label) /\ list = CostItems(usage, tier, uncertain)
  BY <1>1
<1>3. IsFiniteSet(list)
  <2> DEFINE m == Prices(ItemsOf(u, n, label), tier, uncertain)
  <2>1. m = Prices(ItemsOf(u, n, label), tier, uncertain)
    OBVIOUS
  <2> HIDE DEF m
  <2> QED BY <1>1, <1>2, <2>1, PricesAre
<1>4. ASSUME NEW c \in list PROVE PricedItem(c, tier.rates)
  <2>1. PICK i \in ItemsOf(u, n, label) : c = CostOf(i, tier, uncertain)
    BY <1>2, CostItemsAre
  <2>2. /\ i.amount \in Nat
        /\ \/ i.group = "tools"
           \/ i.group = "input" /\ i.label \in Details("in") \cup {"none"}
           \/ i.group = "output" /\ i.label \in Details("out") \cup {"none"}
    <3>1. /\ i = UsageItem(i.group, i.label, i.amount) /\ i.amount \in Nat
          /\ \/ i.group = "input" /\ i \in SideItems(u, "in") /\ i.label \in Details("in") \cup {"none"}
             \/ i.group = "output" /\ i \in SideItems(u, "out") /\ i.label \in Details("out") \cup {"none"}
             \/ i.group = "tools" /\ n > 0 /\ i = UsageItem("tools", label, n)
      BY <1>1, ItemsAre
    <3> QED BY <3>1
  <2> DEFINE price == ResolvePrice(i.group, i.label, tier.rates)
  <2>3. price.ppm \in Count
    <3>1. Well(price, RateOf(i.group, i.label, tier.rates))
      BY <1>1, <2>2, PriceIs
    <3> HIDE DEF price
    <3> QED BY <3>1 DEF Well
  <2>4. c.group = i.group /\ c.label = i.label /\ c.amount = i.amount /\ c.ppm = price.ppm
    BY <2>1 DEF CostOf
  <2>5. c.ppm = ResolvePrice(c.group, c.label, tier.rates).ppm
    BY <2>4
  <2> HIDE DEF price
  <2> QED BY <2>2, <2>3, <2>4, <2>5 DEF PricedItem
<1> QED BY <1>3, <1>4 DEF PricedItems

(* The rates are those of a tier; of a model without tiers they are its own. *)
RatesOf(model, rates) == IsRates(rates) /\ (model.tiers = {} => rates = model.rates)

LEMMA TierRates ==
  ASSUME NEW model, IsModel(model), NEW input \in Count, NEW tier,
         tier \in {ResolveTier(model, input), Base(model)}
  PROVE  RatesOf(model, tier.rates)
<1>1. /\ IsRates(model.rates) /\ IsFiniteSet(model.tiers)
      /\ \A t \in model.tiers : t.size \in Nat /\ IsRates(t.rates)
  BY DEF IsModel
<1>2. CASE tier = Base(model)
  BY <1>1, <1>2 DEF Base, RatesOf
<1>3. CASE tier = ResolveTier(model, input)
  <2> DEFINE crossed == {t \in model.tiers : input > t.size}
  <2>1. CASE crossed = {}
    <3>1. tier = [size |-> None, rates |-> model.rates]
      BY <1>3, <2>1 DEF ResolveTier
    <3> QED BY <1>1, <3>1 DEF RatesOf
  <2>2. CASE crossed # {}
    <3>1. tier = CHOOSE t \in crossed : \A v \in crossed : v.size <= t.size
      BY <1>3, <2>2 DEF ResolveTier
    <3>2. IsFiniteSet(crossed) /\ \A t \in crossed : t.size \in Nat
      BY <1>1, FS_Subset
    <3>3. tier \in crossed
      <4>1. \E t \in crossed : \A v \in crossed : v.size <= t.size
        <5> HIDE DEF crossed
        <5> QED BY <2>2, <3>2, Largest
      <4> HIDE DEF crossed
      <4> QED BY <3>1, <4>1
    <3> QED BY <1>1, <3>3 DEF RatesOf
  <2> QED BY <2>1, <2>2
<1> QED BY <1>2, <1>3

(* Whichever way the lists of a call are made, they are made of priced items. *)
PricedLists(lists, model) ==
    /\ IsFiniteSet(DOMAIN lists)
    /\ \A k \in DOMAIN lists : \E rates : RatesOf(model, rates) /\ PricedItems(lists[k], rates)

IsUsage(usage, label) ==
    \E u \in [TokenFields -> Count] : \E n \in Nat :
      usage.items = ItemsOf(u, n, label) /\ usage.input = u["in"]

LEMMA PricedByTier ==
  ASSUME NEW model, IsModel(model), NEW usage, NEW label, IsUsage(usage, label),
         NEW tier, tier \in {ResolveTier(model, usage.input), Base(model)}, NEW uncertain \in BOOLEAN
  PROVE  \E rates : RatesOf(model, rates) /\ PricedItems(CostItems(usage, tier, uncertain), rates)
<1>1. PICK u \in [TokenFields -> Count], n \in Nat :
        usage.items = ItemsOf(u, n, label) /\ usage.input = u["in"]
  BY DEF IsUsage
<1>2. u["in"] \in Count
  BY DEF TokenFields
<1>3. RatesOf(model, tier.rates)
  BY <1>1, <1>2, TierRates
<1>4. IsPricedList(CostItems(usage, tier, uncertain), u, n, label, tier, uncertain)
  BY <1>1, <1>3 DEF IsPricedList, RatesOf
<1>5. PricedItems(CostItems(usage, tier, uncertain), tier.rates)
  BY <1>4, ItemsOfList
<1> QED BY <1>3, <1>5

LEMMA ListsArePriced ==
  ASSUME NEW call, IsCall(call)
  PROVE  PricedLists(ListsOf(call), call.model)
<1> DEFINE steps == call.steps
           model == call.model
           usage == UsageOf(call)
           each == StepsUsage(call)
           lists == ListsOf(call)
<1>1. steps \in Seq(MeteredStep) /\ IsModel(model) /\ model.unsupported \in BOOLEAN
  BY DEF IsCall, IsModel
<1>2. IsUsage(usage, call.search)
  <2> DEFINE u == ExtractUsageFromSteps(steps)
  <2>1. u \in [TokenFields -> Count] /\ SearchesOf(steps) \in Nat
    BY <1>1, ExtractIs, SearchesAre
  <2>2. usage.items = ItemsOf(u, SearchesOf(steps), call.search) /\ usage.input = u["in"]
    BY UsageOfCall
  <2> HIDE DEF u, usage
  <2> QED BY <2>1, <2>2 DEF IsUsage
<1>3. /\ DOMAIN each = DOMAIN steps /\ IsFiniteSet(DOMAIN each) /\ Len(each) = Len(steps)
      /\ \A k \in DOMAIN each : IsUsage(each[k], call.search)
  <2>1. DOMAIN each = DOMAIN steps /\ Len(steps) \in Nat /\ DOMAIN steps = 1 .. Len(steps)
    BY <1>1, StepsAre DEF StepsUsage
  <2>2. ASSUME NEW k \in DOMAIN each PROVE IsUsage(each[k], call.search)
    <3> DEFINE t == steps[k].tokens
               one == each[k]
    <3>1. /\ one.items = ItemsOf(t, steps[k].searches, call.search) /\ one.input = t["in"]
          /\ t \in [TokenFields -> Count] /\ steps[k].searches \in Nat
      BY <2>1, UsageOfAStep
    <3>2. IsUsage(one, call.search)
      <4> HIDE DEF t, one
      <4> QED BY <3>1 DEF IsUsage
    <3> QED BY <3>2
  <2>3. IsFiniteSet(DOMAIN each)
    BY <1>1, <2>1, StepsAre
  <2>4. Len(each) = Len(steps)
    BY <2>1 DEF StepsUsage
  <2> QED BY <2>1, <2>2, <2>3, <2>4
<1> HIDE DEF steps, model, usage, each
<1>4. ASSUME NEW list, \E rates : RatesOf(model, rates) /\ PricedItems(list, rates)
      PROVE  PricedLists(<<list>>, model)
  <2> SUFFICES ASSUME NEW q, q = <<list>> PROVE PricedLists(q, model)
    OBVIOUS
  <2>1. DOMAIN q = {1} /\ q[1] = list
    OBVIOUS
  <2>2. IsFiniteSet({1})
    BY FS_Singleton
  <2> QED BY <1>4, <2>1, <2>2 DEF PricedLists
<1>5. CASE model.tiers = {} /\ ~model.unsupported
  <2>1. lists = <<CostItems(usage, Base(model), FALSE)>>
    BY <1>5 DEF ListsOf, CalculateStandardUsage, usage, model
  <2>2. \E rates : RatesOf(model, rates) /\ PricedItems(CostItems(usage, Base(model), FALSE), rates)
    BY <1>1, <1>2, PricedByTier
  <2> QED BY <1>4, <2>1, <2>2 DEF model
<1>6. CASE ~(model.tiers = {} /\ ~model.unsupported)
  <2>1. lists = CalculateTieredUsage(usage, each, model)
    BY <1>6 DEF ListsOf, usage, each, model
  <2>2. CASE Len(each) > 1 /\ \E i \in DOMAIN each : each[i].status # "complete"
    <3>1. lists = <<CostItems(usage, Base(model), TRUE)>>
      <4> HIDE DEF lists
      <4> QED BY <2>1, <2>2 DEF CalculateTieredUsage
    <3>2. \E rates : RatesOf(model, rates) /\ PricedItems(CostItems(usage, Base(model), TRUE), rates)
      BY <1>1, <1>2, PricedByTier
    <3> QED BY <1>4, <3>1, <3>2 DEF model
  <2>3. CASE ~(Len(each) > 1 /\ \E i \in DOMAIN each : each[i].status # "complete")
    <3> DEFINE requests == IF Len(each) > 1 THEN each ELSE <<usage>>
    <3>1. lists = [i \in DOMAIN requests |->
                     IF IsValid(requests[i].input)
                     THEN CostItems(requests[i], ResolveTier(model, requests[i].input), model.unsupported)
                     ELSE CostItems(requests[i], Base(model), FALSE)]
      <4> HIDE DEF lists
      <4> QED BY <2>1, <2>3 DEF CalculateTieredUsage
    <3>2. IsFiniteSet(DOMAIN requests) /\ \A k \in DOMAIN requests : IsUsage(requests[k], call.search)
      <4>1. CASE Len(each) > 1
        BY <1>3, <4>1
      <4>2. CASE ~(Len(each) > 1)
        <5>1. requests = <<usage>>
          BY <4>2
        <5>2. DOMAIN requests = {1} /\ requests[1] = usage
          <6> HIDE DEF requests
          <6> QED BY <5>1
        <5>3. IsFiniteSet({1})
          BY FS_Singleton
        <5> HIDE DEF requests
        <5> QED BY <1>2, <5>2, <5>3
      <4> QED BY <4>1, <4>2
    <3> HIDE DEF requests, lists
    <3>3. ASSUME NEW k \in DOMAIN requests
          PROVE  \E rates : RatesOf(model, rates) /\ PricedItems(lists[k], rates)
      <4> DEFINE one == requests[k]
      <4>1. IsUsage(one, call.search)
        BY <3>2
      <4>2. lists[k] = IF IsValid(one.input) THEN CostItems(one, ResolveTier(model, one.input), model.unsupported)
                       ELSE CostItems(one, Base(model), FALSE)
        BY <3>1
      <4> HIDE DEF one
      <4>3. \E rates : RatesOf(model, rates)
                         /\ PricedItems(CostItems(one, ResolveTier(model, one.input), model.unsupported), rates)
        BY <1>1, <4>1, PricedByTier
      <4>4. \E rates : RatesOf(model, rates) /\ PricedItems(CostItems(one, Base(model), FALSE), rates)
        BY <1>1, <4>1, PricedByTier
      <4> QED BY <4>2, <4>3, <4>4
    <3>4. DOMAIN lists = DOMAIN requests
      BY <3>1
    <3>5. PricedLists(lists, model)
      BY <3>2, <3>3, <3>4 DEF PricedLists
    <3> QED BY <3>5 DEF lists, model
  <2> QED BY <2>2, <2>3
<1> QED BY <1>5, <1>6

(* A call as the report takes it. *)
IsLine(line) == line.amount \in Int /\ line.total \in Int

AreLines(lines) == IsFiniteSet(DOMAIN lines) /\ \A i \in DOMAIN lines : IsLine(lines[i])

IsParsed(parsed) ==
    /\ parsed.original \in Int /\ IsFiniteSet(DOMAIN parsed.lines)
    /\ \A k \in DOMAIN parsed.lines : AreLines(parsed.lines[k])

LEMMA ListTotal ==
  ASSUME NEW list, NEW rates, PricedItems(list, rates)
  PROVE  TotalOf(list) \in Int
<1> DEFINE f == [i \in list |-> IF IsValid(i.ppm) THEN i.amount * i.ppm ELSE 0]
<1>1. \A i \in list : i.amount \in Int /\ i.ppm \in Int
  BY DEF PricedItems, PricedItem, Count, None
<1>2. f \in [list -> Int]
  BY <1>1
<1>3. TotalOf(list) = SumFunction(f)
  BY DEF TotalOf
<1>4. IsFiniteSet(list)
  BY DEF PricedItems
<1> HIDE DEF f
<1> QED BY <1>2, <1>3, <1>4, SumType DEF IsSummable

LEMMA CostEventIs ==
  ASSUME NEW call, IsCall(call), NEW event, event = CalculateCosts(call)
  PROVE  /\ event.items = ListsOf(call) /\ event.usage = UsageOf(call)
         /\ event.cost.total = SumFunction([k \in DOMAIN event.items |-> TotalOf(event.items[k])])
         /\ event.cost.total \in Int
         /\ IsFiniteSet(DOMAIN event.items)
         /\ \A k \in DOMAIN event.items :
              \E rates : RatesOf(call.model, rates) /\ PricedItems(event.items[k], rates)
<1> DEFINE lists == ListsOf(call)
           f == [k \in DOMAIN lists |-> TotalOf(lists[k])]
<1>1. event.items = lists /\ event.usage = UsageOf(call)
  BY DEF CalculateCosts, ListsOf, UsageOf, StepsUsage
<1>2. event.cost.total = SumFunction(f)
  <2> DEFINE says == UsageOf(call).status
             freshness == FetchModelsPricing(call.cache, call.cooling, call.answer)
  <2>1. event.cost = GenerationCost(lists, says, freshness)
    BY CalculatedIs
  <2> HIDE DEF lists, says, freshness
  <2> QED BY <2>1 DEF GenerationCost
<1>3. IsFiniteSet(DOMAIN lists) /\ \A k \in DOMAIN lists : \E rates : RatesOf(call.model, rates) /\ PricedItems(lists[k], rates)
  BY ListsArePriced DEF PricedLists
<1> HIDE DEF lists
<1>4. f \in [DOMAIN lists -> Int]
  BY <1>3, ListTotal
<1>5. SumFunction(f) \in Int
  <2> HIDE DEF f
  <2> QED BY <1>3, <1>4, SumType DEF IsSummable
<1>6. [k \in DOMAIN event.items |-> TotalOf(event.items[k])] = f
  BY <1>1
<1> HIDE DEF f
<1> QED BY <1>1, <1>2, <1>3, <1>5, <1>6 DEF lists

LEMMA UsageItemsAre ==
  ASSUME NEW call, IsCall(call), NEW items, items = UsageOf(call).items
  PROVE  IsFiniteSet(items) /\ \A i \in items : i.amount \in Nat
<1> DEFINE u == ExtractUsageFromSteps(call.steps)
           n == SearchesOf(call.steps)
<1>1. u \in [TokenFields -> Count] /\ n \in Nat
  <2>1. call.steps \in Seq(MeteredStep)
    BY DEF IsCall
  <2> QED BY <2>1, ExtractIs, SearchesAre
<1>2. items = ItemsOf(u, n, call.search)
  BY UsageOfCall
<1> HIDE DEF u, n
<1> QED BY <1>1, <1>2, ItemsAre

LEMMA ParsedIs ==
  ASSUME NEW node, IsNode(node), node.kind = "llm"
  PROVE  IsParsed(ParseLLMCall(node))
<1> DEFINE parsed == ParseLLMCall(node)
<1>1. CASE node.attribute = "cost"
  <2> DEFINE items == node.event.items
  <2>1. IsCall(node.call) /\ node.event = CalculateCosts(node.call)
    BY <1>1 DEF IsNode
  <2>2. /\ node.event.cost.total \in Int /\ IsFiniteSet(DOMAIN items)
        /\ \A k \in DOMAIN items : \E rates : PricedItems(items[k], rates)
    BY <2>1, CostEventIs
  <2>3. parsed = ParseLLMCostEvent(node.event)
    BY <1>1 DEF ParseLLMCall
  <2>4. /\ parsed.original = node.event.cost.total /\ DOMAIN parsed.lines = DOMAIN items
        /\ \A k \in DOMAIN items :
             parsed.lines[k] = [i \in items[k] |->
                                  [type |-> NormalizedItemType(i), amount |-> i.amount,
                                   total |-> IF IsValid(i.ppm) THEN i.amount * i.ppm ELSE 0]]
    <3> HIDE DEF parsed
    <3> QED BY <2>3 DEF ParseLLMCostEvent
  <2> HIDE DEF items, parsed
  <2>5. ASSUME NEW k \in DOMAIN items PROVE AreLines(parsed.lines[k])
    <3> DEFINE list == items[k]
               lines == parsed.lines[k]
    <3>1. PICK rates : PricedItems(list, rates)
      BY <2>2
    <3>2. IsFiniteSet(list) /\ \A i \in list : i.amount \in Int /\ i.ppm \in Int
      BY <3>1 DEF PricedItems, PricedItem, Count, None
    <3>3. lines = [i \in list |-> [type |-> NormalizedItemType(i), amount |-> i.amount,
                                   total |-> IF IsValid(i.ppm) THEN i.amount * i.ppm ELSE 0]]
      BY <2>4
    <3> HIDE DEF list, lines
    <3>4. AreLines(lines)
      BY <3>2, <3>3 DEF AreLines, IsLine
    <3> QED BY <3>4 DEF lines
  <2> QED BY <2>2, <2>4, <2>5 DEF IsParsed, parsed
<1>2. CASE node.attribute = "usage"
  <2> DEFINE items == node.event.usage.items
             lines == [i \in items |-> [type |-> NormalizedItemType(i), amount |-> i.amount, total |-> 0]]
  <2>1. IsCall(node.call) /\ node.event = CalculateCosts(node.call)
    BY <1>2 DEF IsNode
  <2>2. IsFiniteSet(items) /\ \A i \in items : i.amount \in Nat
    <3>1. node.event.usage = UsageOf(node.call)
      BY <2>1, CostEventIs
    <3> QED BY <2>1, <3>1, UsageItemsAre
  <2>3. parsed = ParseNormalizedLLMUsage(node.event)
    BY <1>2 DEF ParseLLMCall
  <2>4. parsed.original = 0 /\ parsed.lines = <<lines>>
    <3> HIDE DEF parsed
    <3> QED BY <2>3 DEF ParseNormalizedLLMUsage
  <2>5. AreLines(lines)
    <3> HIDE DEF items
    <3> QED BY <2>2 DEF AreLines, IsLine
  <2> HIDE DEF lines, parsed
  <2>6. DOMAIN parsed.lines = {1} /\ parsed.lines[1] = lines
    BY <2>4
  <2>7. IsFiniteSet({1})
    BY FS_Singleton
  <2> QED BY <2>4, <2>5, <2>6, <2>7 DEF IsParsed, parsed
<1>3. CASE node.attribute = "legacy"
  <2> DEFINE lines == [l \in node.event.lines |-> l]
  <2>1. /\ node.event.total \in Int /\ IsFiniteSet(node.event.lines)
        /\ \A l \in node.event.lines : l.amount \in Int /\ l.total \in Int
    BY <1>3 DEF IsNode
  <2>2. parsed = ParseLegacyLLMUsageEvent(node.event)
    BY <1>3 DEF ParseLLMCall
  <2>3. parsed.original = node.event.total /\ parsed.lines = <<lines>>
    <3> HIDE DEF parsed
    <3> QED BY <2>2 DEF ParseLegacyLLMUsageEvent
  <2>4. AreLines(lines)
    BY <2>1 DEF AreLines, IsLine
  <2> HIDE DEF lines, parsed
  <2>5. DOMAIN parsed.lines = {1} /\ parsed.lines[1] = lines /\ IsFiniteSet({1})
    BY <2>3, FS_Singleton
  <2> QED BY <2>1, <2>3, <2>4, <2>5 DEF IsParsed, parsed
<1> QED BY <1>1, <1>2, <1>3 DEF IsNode

(* What costs.yml makes of a call. *)
IsPricing(pricing) ==
    /\ pricing.input \in Int /\ pricing.output \in Int
    /\ pricing.cached_input \in Int /\ pricing.reasoning \in Int

LEMMA PriceIsNumber ==
  ASSUME NEW line, IsLine(line), NEW pricing, IsPricing(pricing)
  PROVE  PriceLine(line, pricing) \in Int
<1>1. LineRate(line.type, pricing) \in Int
  BY DEF LineRate, Either, IsPricing, None
<1> QED BY <1>1 DEF PriceLine, IsLine

LEMMA AdjustedIs ==
  ASSUME NEW parsed, IsParsed(parsed), NEW models, NEW model,
         \A key \in PricingKeys(models, model) : IsPricing(models[key])
  PROVE  AdjustedLLMCost(parsed, models, model) \in Int
<1>1. CASE PricingKeys(models, model) = {}
  BY <1>1 DEF AdjustedLLMCost, IsParsed
<1>2. CASE PricingKeys(models, model) # {}
  <2> DEFINE pricing == models[CHOOSE key \in PricingKeys(models, model) : TRUE]
             lines == parsed.lines
             priced(k) == [i \in DOMAIN lines[k] |-> PriceLine(lines[k][i], pricing)]
             sums == [k \in DOMAIN lines |-> SumFunction(priced(k))]
  <2>1. AdjustedLLMCost(parsed, models, model) = SumFunction(sums)
    BY <1>2 DEF AdjustedLLMCost
  <2>2. IsPricing(pricing) /\ IsFiniteSet(DOMAIN lines) /\ \A k \in DOMAIN lines : AreLines(lines[k])
    BY <1>2 DEF IsParsed
  <2> HIDE DEF pricing, lines
  <2>3. ASSUME NEW k \in DOMAIN lines PROVE SumFunction(priced(k)) \in Int
    <3> DEFINE f == priced(k)
    <3>1. IsFiniteSet(DOMAIN lines[k]) /\ \A i \in DOMAIN lines[k] : PriceLine(lines[k][i], pricing) \in Int
      BY <2>2, PriceIsNumber DEF AreLines
    <3>2. DOMAIN f = DOMAIN lines[k] /\ f \in [DOMAIN lines[k] -> Int]
      BY <3>1
    <3>3. SumFunction(f) \in Int
      <4> HIDE DEF f
      <4> QED BY <3>1, <3>2, SumType DEF IsSummable
    <3> QED BY <3>3
  <2> HIDE DEF priced
  <2>4. DOMAIN sums = DOMAIN lines /\ sums \in [DOMAIN lines -> Int]
    BY <2>3
  <2> HIDE DEF sums
  <2> QED BY <2>1, <2>2, <2>4, SumType DEF IsSummable
<1> QED BY <1>1, <1>2

(* At the rates the SDK used a line costs what it was charged. *)
OwnRates(pricing, rates) ==
    /\ IsRates(rates) /\ IsValid(pricing.input) /\ IsValid(pricing.output)
    /\ pricing.input = rates["in"] /\ pricing.output = rates["out"]
    /\ pricing.cached_input = rates["cache_read"] /\ pricing.reasoning = rates["reasoning"]
    /\ rates["cache_write"] \in {None, rates["in"]}

LEMMA PpmOfOne ==
  ASSUME NEW a \in Count PROVE ResolveValue(<<a>>).ppm = IF IsValid(a) THEN a ELSE None
<1>1. CASE IsValid(a)
  <2>1. ResolveValue(<<a>>) = [ppm |-> a, status |-> "ok"]
    BY <1>1, ValueOfOne
  <2> QED BY <1>1, <2>1
<1>2. CASE ~IsValid(a)
  <2>1. ResolveValue(<<a>>) = [ppm |-> None, status |-> "missing"]
    BY <1>2, ValueOfOne
  <2> QED BY <1>2, <2>1
<1> QED BY <1>1, <1>2

LEMMA PpmOfTwo ==
  ASSUME NEW a \in Count, NEW b \in Count, IsValid(b)
  PROVE  ResolveValue(<<a, b>>).ppm = IF IsValid(a) THEN a ELSE b
<1>1. CASE IsValid(a)
  <2>1. ResolveValue(<<a, b>>) = [ppm |-> a, status |-> "ok"]
    BY <1>1, ValueOfTwo
  <2> QED BY <1>1, <2>1
<1>2. CASE ~IsValid(a)
  <2>1. ResolveValue(<<a, b>>) = [ppm |-> b, status |-> "fallback"]
    BY <1>2, ValueOfTwo
  <2> QED BY <1>2, <2>1
<1> QED BY <1>1, <1>2

LEMMA SamePrice ==
  ASSUME NEW pricing, NEW rates, OwnRates(pricing, rates), NEW i, PricedItem(i, rates),
         NEW line, line.type = NormalizedItemType(i), line.amount = i.amount,
         line.total = IF IsValid(i.ppm) THEN i.amount * i.ppm ELSE 0
  PROVE  PriceLine(line, pricing) = line.total
<1>1. /\ rates["in"] \in Count /\ rates["out"] \in Count /\ rates["reasoning"] \in Count
      /\ rates["cache_read"] \in Count /\ rates["cache_write"] \in Count
  BY DEF OwnRates, IsRates, Count, TokenFields
<1>2. IsValid(rates["in"]) /\ IsValid(rates["out"]) /\ ~IsValid(None) /\ \A v : IsValid(v) => v # None
  BY DEF OwnRates, IsValid, None
<1>3. i.ppm = ResolvePrice(i.group, i.label, rates).ppm
  BY DEF PricedItem
<1>4. ASSUME NEW rate, rate = LineRate(line.type, pricing), rate = i.ppm, IsValid(rate)
      PROVE  PriceLine(line, pricing) = line.total
  BY <1>2, <1>4 DEF PriceLine
<1>5. CASE i.group = "tools"
  <2>1. line.type = "other"
    BY <1>5 DEF NormalizedItemType
  <2>2. LineRate(line.type, pricing) = None
    BY <2>1 DEF LineRate
  <2> QED BY <2>2 DEF PriceLine
<1>6. CASE i.group = "input" /\ i.label \in {"no_cache", "none"}
  <2>1. line.type = "input"
    BY <1>6 DEF NormalizedItemType
  <2>2. LineRate(line.type, pricing) = rates["in"]
    BY <2>1 DEF LineRate, Either, OwnRates
  <2>3. i.ppm = ResolveValue(<<rates["in"]>>).ppm
    BY <1>3, <1>6 DEF ResolvePrice
  <2>4. i.ppm = rates["in"]
    BY <1>1, <1>2, <2>3, PpmOfOne
  <2> QED BY <1>2, <1>4, <2>2, <2>4
<1>7. CASE i.group = "input" /\ i.label = "cache_read"
  <2>1. line.type = "input_cache_read"
    BY <1>7 DEF NormalizedItemType
  <2>2. LineRate(line.type, pricing) = IF IsValid(rates["cache_read"]) THEN rates["cache_read"] ELSE rates["in"]
    BY <2>1 DEF LineRate, Either, OwnRates
  <2>3. i.ppm = ResolveValue(<<rates["cache_read"], rates["in"]>>).ppm
    BY <1>3, <1>7 DEF ResolvePrice
  <2>4. i.ppm = IF IsValid(rates["cache_read"]) THEN rates["cache_read"] ELSE rates["in"]
    BY <1>1, <1>2, <2>3, PpmOfTwo
  <2> QED BY <1>2, <1>4, <2>2, <2>4
<1>8. CASE i.group = "input" /\ i.label = "cache_write"
  <2>1. line.type = "input_cache_write"
    BY <1>8 DEF NormalizedItemType
  <2>2. LineRate(line.type, pricing) = rates["in"]
    BY <2>1 DEF LineRate, Either, OwnRates
  <2>3. i.ppm = ResolveValue(<<rates["cache_write"], rates["in"]>>).ppm
    BY <1>3, <1>8 DEF ResolvePrice
  <2>4. i.ppm = IF IsValid(rates["cache_write"]) THEN rates["cache_write"] ELSE rates["in"]
    BY <1>1, <1>2, <2>3, PpmOfTwo
  <2>5. i.ppm = rates["in"]
    BY <1>2, <2>4 DEF OwnRates
  <2> QED BY <1>2, <1>4, <2>2, <2>5
<1>9. CASE i.group = "output" /\ i.label \in {"text", "none"}
  <2>1. line.type = "output"
    BY <1>9 DEF NormalizedItemType
  <2>2. LineRate(line.type, pricing) = rates["out"]
    BY <2>1 DEF LineRate, Either, OwnRates
  <2>3. i.ppm = ResolveValue(<<rates["out"]>>).ppm
    BY <1>3, <1>9 DEF ResolvePrice
  <2>4. i.ppm = rates["out"]
    BY <1>1, <1>2, <2>3, PpmOfOne
  <2> QED BY <1>2, <1>4, <2>2, <2>4
<1>10. CASE i.group = "output" /\ i.label = "reasoning"
  <2>1. line.type = "reasoning"
    BY <1>10 DEF NormalizedItemType
  <2>2. LineRate(line.type, pricing) = IF IsValid(rates["reasoning"]) THEN rates["reasoning"] ELSE rates["out"]
    BY <2>1 DEF LineRate, Either, OwnRates
  <2>3. i.ppm = ResolveValue(<<rates["reasoning"], rates["out"]>>).ppm
    BY <1>3, <1>10 DEF ResolvePrice
  <2>4. i.ppm = IF IsValid(rates["reasoning"]) THEN rates["reasoning"] ELSE rates["out"]
    BY <1>1, <1>2, <2>3, PpmOfTwo
  <2> QED BY <1>2, <1>4, <2>2, <2>4
<1>11. \/ i.group = "tools"
       \/ i.group = "input" /\ i.label \in {"no_cache", "cache_read", "cache_write"} \cup {"none"}
       \/ i.group = "output" /\ i.label \in {"text", "reasoning"} \cup {"none"}
  BY DetailsAre DEF PricedItem
<1> QED BY <1>5, <1>6, <1>7, <1>8, <1>9, <1>10, <1>11

LEMMA SameCost ==
  ASSUME NEW node, IsNode(node), node.kind = "llm", node.attribute = "cost", NEW models,
         NEW model,
         \A key \in PricingKeys(models, model) : SameRates(models[key], node.call.model)
  PROVE  AdjustedLLMCost(ParseLLMCall(node), models, model) = ParseLLMCall(node).original
<1> DEFINE parsed == ParseLLMCall(node)
<1>1. CASE PricingKeys(models, model) = {}
  BY <1>1 DEF AdjustedLLMCost
<1>2. CASE PricingKeys(models, model) # {}
  <2> DEFINE pricing == models[CHOOSE key \in PricingKeys(models, model) : TRUE]
             event == node.event
             items == event.items
             lines == parsed.lines
             priced(k) == [i \in DOMAIN lines[k] |-> PriceLine(lines[k][i], pricing)]
             charged(k) == [i \in items[k] |-> IF IsValid(i.ppm) THEN i.amount * i.ppm ELSE 0]
  <2>1. IsCall(node.call) /\ event = CalculateCosts(node.call)
    BY DEF IsNode
  <2>2. /\ event.cost.total = SumFunction([k \in DOMAIN items |-> TotalOf(items[k])])
        /\ \A k \in DOMAIN items : \E rates : RatesOf(node.call.model, rates) /\ PricedItems(items[k], rates)
    BY <2>1, CostEventIs
  <2>3. parsed = ParseLLMCostEvent(event)
    BY DEF ParseLLMCall
  <2>4. /\ parsed.original = event.cost.total /\ DOMAIN lines = DOMAIN items
        /\ \A k \in DOMAIN items :
             lines[k] = [i \in items[k] |->
                                  [type |-> NormalizedItemType(i), amount |-> i.amount,
                                   total |-> IF IsValid(i.ppm) THEN i.amount * i.ppm ELSE 0]]
    <3> HIDE DEF parsed, event
    <3> QED BY <2>3 DEF ParseLLMCostEvent
  <2>5. AdjustedLLMCost(parsed, models, model) = SumFunction([k \in DOMAIN lines |-> SumFunction(priced(k))])
    BY <1>2 DEF AdjustedLLMCost
  <2>6. SameRates(pricing, node.call.model)
    BY <1>2
  <2> HIDE DEF parsed, event, pricing, items, lines
  <2>7. ASSUME NEW k \in DOMAIN items PROVE priced(k) = charged(k)
    <3> DEFINE here == lines[k]
               list == items[k]
    <3>1. PICK rates : RatesOf(node.call.model, rates) /\ PricedItems(list, rates)
      BY <2>2
    <3>2. OwnRates(pricing, rates)
      BY <2>6, <3>1 DEF RatesOf, SameRates, OwnRates
    <3>3. here = [i \in list |-> [type |-> NormalizedItemType(i), amount |-> i.amount,
                                  total |-> IF IsValid(i.ppm) THEN i.amount * i.ppm ELSE 0]]
      BY <2>4
    <3> HIDE DEF here, list
    <3>4. ASSUME NEW i \in list
          PROVE  PriceLine(here[i], pricing) = IF IsValid(i.ppm) THEN i.amount * i.ppm ELSE 0
      <4> DEFINE line == here[i]
      <4>1. line = [type |-> NormalizedItemType(i), amount |-> i.amount,
                    total |-> IF IsValid(i.ppm) THEN i.amount * i.ppm ELSE 0]
        BY <3>3
      <4>2. PricedItem(i, rates)
        BY <3>1 DEF PricedItems
      <4> HIDE DEF line
      <4>3. /\ line.type = NormalizedItemType(i) /\ line.amount = i.amount
            /\ line.total = IF IsValid(i.ppm) THEN i.amount * i.ppm ELSE 0
        BY <4>1
      <4>4. PriceLine(line, pricing) = line.total
        BY <3>2, <4>2, <4>3, SamePrice
      <4> QED BY <4>3, <4>4 DEF line
    <3>5. [i \in DOMAIN here |-> PriceLine(here[i], pricing)]
          = [i \in list |-> IF IsValid(i.ppm) THEN i.amount * i.ppm ELSE 0]
      <4>1. DOMAIN here = list
        BY <3>3
      <4> QED BY <3>4, <4>1
    <3> QED BY <3>5 DEF here, list
  <2>8. \A k \in DOMAIN items : TotalOf(items[k]) = SumFunction(charged(k))
    BY DEF TotalOf
  <2> HIDE DEF priced, charged
  <2>9. [k \in DOMAIN lines |-> SumFunction(priced(k))] = [k \in DOMAIN items |-> TotalOf(items[k])]
    BY <2>4, <2>7, <2>8
  <2> QED BY <2>2, <2>4, <2>5, <2>9 DEF parsed, lines
<1> QED BY <1>1, <1>2

(* What a rule makes of a request is a number. *)
IsRule(rule) == rule.price \in Int /\ rule.default \in Int

LEMMA OverrideIs ==
  ASSUME NEW call, call.charge \in Int, call.amount \in Int, NEW services,
         call.host \in DOMAIN services => IsRule(services[call.host])
  PROVE  /\ ResolveHTTPOverride(call, services) \in Int
         /\ (call.host \in DOMAIN services => services[call.host].type = "response_cost")
            /\ (call.status >= 400 \/ ~call.verbose)
            => ResolveHTTPOverride(call, services) = call.charge
<1>1. CASE call.host \notin DOMAIN services \/ call.status >= 400
  BY <1>1 DEF ResolveHTTPOverride
<1>2. CASE ~(call.host \notin DOMAIN services \/ call.status >= 400)
  <2> DEFINE rule == services[call.host]
             priced == CalculateServiceCost(call, rule)
  <2>1. rule.price \in Int /\ rule.default \in Int
    BY <1>2 DEF IsRule
  <2>2. ResolveHTTPOverride(call, services) = IF priced.kind = "computed" THEN priced.cost ELSE call.charge
    BY <1>2 DEF ResolveHTTPOverride
  <2> HIDE DEF rule
  <2> USE DEF Computed, Estimated, NotPriced
  <2>3. priced.cost \in Int
    <3>1. CalculateTokenServiceCost(call, rule).cost \in Int
      BY <2>1 DEF CalculateTokenServiceCost
    <3>2. CalculateUnitServiceCost(call, rule).cost \in Int
      <4>1. Max({0, call.amount - 1}) \in Int
        <5>1. \E m \in {0, call.amount - 1} : \A y \in {0, call.amount - 1} : m >= y
          OBVIOUS
        <5>2. Max({0, call.amount - 1}) \in {0, call.amount - 1}
          BY <5>1 DEF Max
        <5> QED BY <5>2
      <4> QED BY <2>1, <4>1 DEF CalculateUnitServiceCost
    <3>3. CalculateRequestServiceCost(call, rule).cost \in Int
      BY <2>1 DEF CalculateRequestServiceCost
    <3>4. CalculateResponseCostService(call, rule).cost \in Int
      BY <2>1 DEF CalculateResponseCostService
    <3> QED BY <3>1, <3>2, <3>3, <3>4 DEF CalculateServiceCost
  <2>4. rule.type = "response_cost" /\ ~call.verbose => priced.kind # "computed"
    BY DEF CalculateServiceCost, CalculateResponseCostService
  <2> HIDE DEF priced
  <2> QED BY <1>2, <2>2, <2>3, <2>4 DEF rule
<1> QED BY <1>1, <1>2

(* Figures by model or by host add up to the total. *)
SumsOfKinds(g, f, S, kind) ==
    /\ DOMAIN g = {kind[k] : k \in S} /\ g = [m \in DOMAIN g |-> g[m]]
    /\ \A m \in DOMAIN g : g[m] = SumFunction(Restrict(f, {k \in S : kind[k] = m}))

LEMMA SumOfKinds ==
  ASSUME NEW S, IsFiniteSet(S), NEW f \in [S -> Int], NEW kind, NEW g, SumsOfKinds(g, f, S, kind)
  PROVE  SumFunction(f) = SumFunction(g)
<1> DEFINE K == {kind[k] : k \in S}
           only == [k \in S |-> kind[k]]
<1>1. only \in [S -> K] /\ \A m \in K : \E k \in S : only[k] = m
  OBVIOUS
<1>2. IsFiniteSet(K)
  <2>1. only \in Surjection(S, K)
    BY <1>1 DEF Surjection
  <2> HIDE DEF K, only
  <2> QED BY <2>1, FS_Surjection
<1>3. \A m \in K : {k \in S : only[k] = m} = {k \in S : kind[k] = m}
  OBVIOUS
<1>4. DOMAIN g = K /\ g = [m \in K |-> g[m]]
      /\ \A m \in K : g[m] = SumFunction(Restrict(f, {k \in S : kind[k] = m}))
  BY DEF SumsOfKinds
<1> HIDE DEF K, only
<1>5. g = [m \in K |-> SumFunction(Restrict(f, {k \in S : only[k] = m}))]
  BY <1>3, <1>4
<1> QED BY <1>1, <1>2, <1>5, SumByKind

(* A sum over less is the same when the rest is nothing. *)
LEMMA SumOfTheRest ==
  ASSUME NEW S, IsFiniteSet(S), NEW f \in [S -> Int], NEW A \in SUBSET S,
         \A x \in S \ A : f[x] = 0
  PROVE  SumFunction(f) = SumFunction(Restrict(f, A))
<1> DEFINE B == S \ A
           none == Restrict(f, B)
<1>1. B \in SUBSET S /\ A \cap B = {} /\ A \cup B = S
  OBVIOUS
<1>2. SumFunction(Restrict(f, A \cup B)) = SumFunction(Restrict(f, A)) + SumFunction(none)
  <2> HIDE DEF B
  <2> QED BY <1>1, SumOfParts
<1>3. SumFunction(none) = 0
  <2>1. none \in [B -> Int] /\ \A x \in B : none[x] = 0
    BY DEF Restrict
  <2>2. IsFiniteSet(B)
    BY FS_Subset
  <2> HIDE DEF none, B
  <2> QED BY <2>1, <2>2, SumOfZeros
<1>4. Restrict(f, S) = f /\ SumFunction(Restrict(f, A)) \in Int
  BY RestrictIs
<1>5. SumFunction(Restrict(f, A \cup B)) = SumFunction(f)
  <2> HIDE DEF B
  <2> QED BY <1>1, <1>4, Zenon
<1> HIDE DEF none, B
<1> QED BY <1>2, <1>3, <1>4, <1>5

(* The figures of the report, call by call. *)
LlmCalls(trace) == FindCalls(trace, "llm")
HttpCalls(trace) == Billable(trace, FindCalls(trace, "http"))
Originals(trace) == [k \in LlmCalls(trace) |-> ParseLLMCall(trace[k]).original]
Adjusteds(trace, config) ==
    [k \in LlmCalls(trace) |-> AdjustedLLMCost(ParseLLMCall(trace[k]), config.models, trace[k].model)]
Chargeds(trace) == [k \in HttpCalls(trace) |-> trace[k].charge]
Overriddens(trace, config) ==
    [k \in HttpCalls(trace) |-> ResolveHTTPOverride(trace[k], config.services)]
ModelsOf(trace) == [k \in LlmCalls(trace) |-> trace[k].model]
HostsOf(trace) == [k \in HttpCalls(trace) |-> trace[k].host]

LEMMA TheReportIs ==
  ASSUME NEW trace, NEW config, NEW report, report = CalculateCost(trace, config)
  PROVE  /\ report.original = SumFunction(Originals(trace)) + SumFunction(Chargeds(trace))
         /\ report.adjusted = SumFunction(Adjusteds(trace, config)) + SumFunction(Overriddens(trace, config))
         /\ SumsOfKinds([m \in DOMAIN report.byModel |-> report.byModel[m].original],
                        Originals(trace), LlmCalls(trace), ModelsOf(trace))
         /\ SumsOfKinds([m \in DOMAIN report.byModel |-> report.byModel[m].adjusted],
                        Adjusteds(trace, config), LlmCalls(trace), ModelsOf(trace))
         /\ SumsOfKinds([h \in DOMAIN report.byHost |-> report.byHost[h].original],
                        Chargeds(trace), HttpCalls(trace), HostsOf(trace))
         /\ SumsOfKinds([h \in DOMAIN report.byHost |-> report.byHost[h].adjusted],
                        Overriddens(trace, config), HttpCalls(trace), HostsOf(trace))
<1> DEFINE L == LlmCalls(trace)
           H == HttpCalls(trace)
           original == Originals(trace)
           adjusted == Adjusteds(trace, config)
           charged == Chargeds(trace)
           overridden == Overriddens(trace, config)
           ofModel(m) == {k \in L : trace[k].model = m}
           ofHost(h) == {k \in H : trace[k].host = h}
           parsed == [k \in L |-> ParseLLMCall(trace[k])]
<1>1. /\ [k \in L |-> parsed[k].original] = original
      /\ [k \in L |-> AdjustedLLMCost(parsed[k], config.models, trace[k].model)] = adjusted
  BY DEF Originals, Adjusteds
<1>2. /\ report.original = SumFunction(original) + SumFunction(charged)
      /\ report.adjusted = SumFunction(adjusted) + SumFunction(overridden)
      /\ report.byModel = [m \in {trace[k].model : k \in L} |->
                        [original |-> SumFunction(Restrict(original, ofModel(m))),
                         adjusted |-> SumFunction(Restrict(adjusted, ofModel(m))),
                         incomplete |-> \E k \in ofModel(m) : parsed[k].incomplete]]
      /\ report.byHost = [h \in {trace[k].host : k \in H} |->
                       [original |-> SumFunction(Restrict(charged, ofHost(h))),
                        adjusted |-> SumFunction(Restrict(overridden, ofHost(h)))]]
  <2>1. charged = [k \in H |-> trace[k].charge] /\ overridden = [k \in H |-> ResolveHTTPOverride(trace[k], config.services)]
    BY DEF Chargeds, Overriddens
  <2>2. L = FindCalls(trace, "llm") /\ H = Billable(trace, FindCalls(trace, "http"))
    BY DEF LlmCalls, HttpCalls
  <2> HIDE DEF L, H, original, adjusted, charged, overridden
  <2> QED BY <1>1, <2>1, <2>2 DEF CalculateCost
<1>3. /\ {ModelsOf(trace)[k] : k \in L} = {trace[k].model : k \in L}
      /\ {HostsOf(trace)[k] : k \in H} = {trace[k].host : k \in H}
      /\ \A m : {k \in L : ModelsOf(trace)[k] = m} = ofModel(m)
      /\ \A h : {k \in H : HostsOf(trace)[k] = h} = ofHost(h)
  BY DEF ModelsOf, HostsOf
<1> HIDE DEF original, adjusted, charged, overridden, parsed, L, H, ofModel, ofHost
<1>4. /\ DOMAIN report.byModel = {ModelsOf(trace)[k] : k \in L}
      /\ \A m \in DOMAIN report.byModel :
           /\ report.byModel[m].original = SumFunction(Restrict(original, {k \in L : ModelsOf(trace)[k] = m}))
           /\ report.byModel[m].adjusted = SumFunction(Restrict(adjusted, {k \in L : ModelsOf(trace)[k] = m}))
  <2>1. \A m \in DOMAIN report.byModel :
          /\ report.byModel[m].original = SumFunction(Restrict(original, ofModel(m)))
          /\ report.byModel[m].adjusted = SumFunction(Restrict(adjusted, ofModel(m)))
    BY <1>2
  <2>2. DOMAIN report.byModel = {trace[k].model : k \in L}
    BY <1>2
  <2> QED BY <1>3, <2>1, <2>2, Zenon
<1>5. /\ DOMAIN report.byHost = {HostsOf(trace)[k] : k \in H}
      /\ \A h \in DOMAIN report.byHost :
           /\ report.byHost[h].original = SumFunction(Restrict(charged, {k \in H : HostsOf(trace)[k] = h}))
           /\ report.byHost[h].adjusted = SumFunction(Restrict(overridden, {k \in H : HostsOf(trace)[k] = h}))
  <2>1. \A h \in DOMAIN report.byHost :
          /\ report.byHost[h].original = SumFunction(Restrict(charged, ofHost(h)))
          /\ report.byHost[h].adjusted = SumFunction(Restrict(overridden, ofHost(h)))
    BY <1>2
  <2>2. DOMAIN report.byHost = {trace[k].host : k \in H}
    BY <1>2
  <2> QED BY <1>3, <2>1, <2>2, Zenon
<1>6. /\ SumsOfKinds([m \in DOMAIN report.byModel |-> report.byModel[m].original], original, L, ModelsOf(trace))
      /\ SumsOfKinds([m \in DOMAIN report.byModel |-> report.byModel[m].adjusted], adjusted, L, ModelsOf(trace))
  BY <1>4 DEF SumsOfKinds
<1>7. /\ SumsOfKinds([h \in DOMAIN report.byHost |-> report.byHost[h].original], charged, H, HostsOf(trace))
      /\ SumsOfKinds([h \in DOMAIN report.byHost |-> report.byHost[h].adjusted], overridden, H, HostsOf(trace))
  BY <1>5 DEF SumsOfKinds
<1> QED BY <1>2, <1>6, <1>7 DEF original, adjusted, charged, overridden, L, H

LEMMA FiguresAre ==
  ASSUME NEW trace, NEW config, IsReport([trace |-> trace, config |-> config])
  PROVE  /\ IsFiniteSet(LlmCalls(trace)) /\ IsFiniteSet(HttpCalls(trace))
         /\ Originals(trace) \in [LlmCalls(trace) -> Int]
         /\ Adjusteds(trace, config) \in [LlmCalls(trace) -> Int]
         /\ Chargeds(trace) \in [HttpCalls(trace) -> Int]
         /\ Overriddens(trace, config) \in [HttpCalls(trace) -> Int]
<1>1. /\ IsTrace(trace)
      /\ \A m \in DOMAIN config.models : IsPricing(config.models[m])
      /\ \A h \in DOMAIN config.services : IsRule(config.services[h])
  BY DEF IsReport, IsPricing, IsRule
<1>2. IsFiniteSet(DOMAIN trace) /\ \A k \in DOMAIN trace : IsNode(trace[k])
  <2>1. Len(trace) \in Nat /\ DOMAIN trace = 1 .. Len(trace)
    BY <1>1 DEF IsTrace
  <2>2. IsFiniteSet(1 .. Len(trace))
    BY <2>1, FS_Interval
  <2> QED BY <1>1, <2>1, <2>2 DEF IsTrace
<1>3. \A k \in LlmCalls(trace) : k \in DOMAIN trace /\ trace[k].kind = "llm"
  BY <1>1, CallsAre DEF LlmCalls
<1>4. \A k \in HttpCalls(trace) : k \in DOMAIN trace /\ trace[k].kind = "http"
  BY <1>1, CallsAre DEF HttpCalls, Billable
<1>5. IsFiniteSet(LlmCalls(trace)) /\ IsFiniteSet(HttpCalls(trace))
  BY <1>2, <1>3, <1>4, FS_Subset
<1>6. ASSUME NEW k \in LlmCalls(trace)
      PROVE  /\ ParseLLMCall(trace[k]).original \in Int
             /\ AdjustedLLMCost(ParseLLMCall(trace[k]), config.models, trace[k].model) \in Int
  <2>1. IsParsed(ParseLLMCall(trace[k]))
    BY <1>2, <1>3, ParsedIs
  <2>2. ParseLLMCall(trace[k]).original \in Int
    BY <2>1 DEF IsParsed
  <2>3. \A key \in PricingKeys(config.models, trace[k].model) : IsPricing(config.models[key])
    BY <1>1 DEF PricingKeys
  <2> QED BY <2>1, <2>2, <2>3, AdjustedIs
<1>7. ASSUME NEW k \in HttpCalls(trace)
      PROVE  trace[k].charge \in Int /\ ResolveHTTPOverride(trace[k], config.services) \in Int
  <2>1. trace[k].charge \in Int /\ trace[k].amount \in Int
    BY <1>2, <1>4 DEF IsNode
  <2>2. trace[k].host \in DOMAIN config.services => IsRule(config.services[trace[k].host])
    BY <1>1
  <2> QED BY <2>1, <2>2, OverrideIs
<1>8. Originals(trace) \in [LlmCalls(trace) -> Int] /\ Adjusteds(trace, config) \in [LlmCalls(trace) -> Int]
  BY <1>6 DEF Originals, Adjusteds
<1>9. Chargeds(trace) \in [HttpCalls(trace) -> Int] /\ Overriddens(trace, config) \in [HttpCalls(trace) -> Int]
  BY <1>7 DEF Chargeds, Overriddens
<1> QED BY <1>5, <1>8, <1>9

(* The charges are those of the calls. *)
LEMMA ChargesAre ==
  ASSUME NEW trace, NEW config, IsReport([trace |-> trace, config |-> config])
  PROVE  SumFunction([i \in Charges(trace) |-> ChargedFor(trace[i])])
           = SumFunction(Originals(trace)) + SumFunction(Chargeds(trace))
<1> DEFINE f == [i \in Charges(trace) |-> ChargedFor(trace[i])]
           C == Charges(trace)
           L == LlmCalls(trace)
           H == HttpCalls(trace)
<1>1. IsTrace(trace)
  BY DEF IsReport
<1>2. /\ FindCalls(trace, "llm") = {i \in DOMAIN trace : trace[i].kind = "llm" /\ ~Repeated(trace, i)}
      /\ FindCalls(trace, "http") = {i \in DOMAIN trace : trace[i].kind = "http" /\ ~Repeated(trace, i)}
  BY <1>1, CallsAre
<1>3. /\ L \in SUBSET C /\ H \in SUBSET C /\ L \cap H = {} /\ IsFiniteSet(C)
      /\ \A i \in C : trace[i].kind \in {"llm", "http"}
      /\ \A i \in L : trace[i].kind = "llm"
      /\ \A i \in H : trace[i].kind = "http" /\ IsValid(trace[i].charge)
      /\ \A i \in C \ (L \cup H) : trace[i].kind = "http" /\ ~IsValid(trace[i].charge)
  <2>1. IsFiniteSet(C)
    <3>1. Len(trace) \in Nat /\ DOMAIN trace = 1 .. Len(trace)
      BY <1>1 DEF IsTrace
    <3>2. C \in SUBSET (1 .. Len(trace)) /\ IsFiniteSet(1 .. Len(trace))
      BY <3>1, FS_Interval DEF Charges
    <3> QED BY <3>2, FS_Subset
  <2> QED BY <1>2, <2>1 DEF LlmCalls, HttpCalls, Billable, Charges
<1>4. /\ \A i \in L : f[i] = Originals(trace)[i]
      /\ \A i \in H : f[i] = Chargeds(trace)[i]
      /\ \A i \in C \ (L \cup H) : f[i] = 0
  <2>1. \A i \in C : f[i] = ChargedFor(trace[i])
    OBVIOUS
  <2>2. \A i \in L : Originals(trace)[i] = ParseLLMCall(trace[i]).original
    BY DEF Originals
  <2>3. \A i \in H : Chargeds(trace)[i] = trace[i].charge
    BY DEF Chargeds
  <2> HIDE DEF f, C, L, H
  <2> QED BY <1>3, <2>1, <2>2, <2>3 DEF ChargedFor
<1>5. /\ Originals(trace) \in [L -> Int] /\ Chargeds(trace) \in [H -> Int]
      /\ f = [i \in C |-> f[i]]
  BY FiguresAre
<1> HIDE DEF f, C, L, H
<1>6. f \in [C -> Int]
  <2>1. ASSUME NEW i \in C PROVE f[i] \in Int
    <3>1. CASE i \in L
      BY <1>4, <1>5, <3>1
    <3>2. CASE i \in H
      BY <1>4, <1>5, <3>2
    <3>3. CASE i \notin L \cup H
      BY <1>4, <3>3
    <3> QED BY <3>1, <3>2, <3>3
  <2> QED BY <1>5, <2>1
<1>7. SumFunction(f) = SumFunction(Restrict(f, L \cup H))
  <2>1. L \cup H \in SUBSET C
    BY <1>3
  <2> QED BY <1>3, <1>4, <1>6, <2>1, SumOfTheRest
<1>8. SumFunction(Restrict(f, L \cup H)) = SumFunction(Restrict(f, L)) + SumFunction(Restrict(f, H))
  BY <1>3, <1>6, SumOfParts
<1>9. Restrict(f, L) = Originals(trace) /\ Restrict(f, H) = Chargeds(trace)
  BY <1>4, <1>5 DEF Restrict
<1> QED BY <1>7, <1>8, <1>9 DEF f, C, L, H

LEMMA SameTotals ==
  ASSUME NEW trace, NEW config, IsReport([trace |-> trace, config |-> config]),
         \A i \in DOMAIN trace :
           /\ trace[i].kind = "llm" =>
                /\ trace[i].attribute = "cost"
                /\ \A key \in PricingKeys(config.models, trace[i].model) :
                     SameRates(config.models[key], trace[i].call.model)
           /\ trace[i].kind = "http" => trace[i].status >= 400 \/ ~trace[i].verbose,
         \A h \in DOMAIN config.services : config.services[h].type = "response_cost"
  PROVE  Adjusteds(trace, config) = Originals(trace) /\ Overriddens(trace, config) = Chargeds(trace)
<1>1. /\ IsTrace(trace)
      /\ \A h \in DOMAIN config.services : IsRule(config.services[h])
  BY DEF IsReport, IsRule
<1>2. \A k \in DOMAIN trace : IsNode(trace[k])
  BY <1>1 DEF IsTrace
<1>3. \A k \in LlmCalls(trace) : k \in DOMAIN trace /\ trace[k].kind = "llm"
  BY <1>1, CallsAre DEF LlmCalls
<1>4. \A k \in HttpCalls(trace) : k \in DOMAIN trace /\ trace[k].kind = "http"
  BY <1>1, CallsAre DEF HttpCalls, Billable
<1>5. ASSUME NEW k \in LlmCalls(trace)
      PROVE  AdjustedLLMCost(ParseLLMCall(trace[k]), config.models, trace[k].model)
             = ParseLLMCall(trace[k]).original
  <2> DEFINE node == trace[k]
  <2>1. /\ IsNode(node) /\ node.kind = "llm" /\ node.attribute = "cost"
        /\ \A key \in PricingKeys(config.models, node.model) :
             SameRates(config.models[key], node.call.model)
    BY <1>2, <1>3
  <2> HIDE DEF node
  <2>2. AdjustedLLMCost(ParseLLMCall(node), config.models, node.model) = ParseLLMCall(node).original
    BY <2>1, SameCost
  <2> QED BY <2>2 DEF node
<1>6. ASSUME NEW k \in HttpCalls(trace)
      PROVE  ResolveHTTPOverride(trace[k], config.services) = trace[k].charge
  <2> DEFINE node == trace[k]
  <2>1. /\ node.charge \in Int /\ node.amount \in Int
        /\ node.host \in DOMAIN config.services =>
             IsRule(config.services[node.host]) /\ config.services[node.host].type = "response_cost"
        /\ node.status >= 400 \/ ~node.verbose
    BY <1>1, <1>2, <1>4 DEF IsNode
  <2> HIDE DEF node
  <2>2. ResolveHTTPOverride(node, config.services) = node.charge
    BY <2>1, OverrideIs
  <2> QED BY <2>2 DEF node
<1>7. Adjusteds(trace, config) = Originals(trace)
  BY <1>5 DEF Adjusteds, Originals
<1>8. Overriddens(trace, config) = Chargeds(trace)
  BY <1>6 DEF Overriddens, Chargeds
<1> QED BY <1>7, <1>8

LEMMA ReportIsRight ==
  ASSUME NEW trace, NEW config, IsReport([trace |-> trace, config |-> config]),
         NEW report, report = CalculateCost(trace, config)
  PROVE  EachChargeOnce(trace, config, report)
<1> DEFINE models == DOMAIN report.byModel
           hosts == DOMAIN report.byHost
           original == Originals(trace)
           adjusted == Adjusteds(trace, config)
           charged == Chargeds(trace)
           overridden == Overriddens(trace, config)
           L == LlmCalls(trace)
           H == HttpCalls(trace)
           A == [m \in models |-> report.byModel[m].original]
           B == [m \in models |-> report.byModel[m].adjusted]
           C == [h \in hosts |-> report.byHost[h].original]
           D == [h \in hosts |-> report.byHost[h].adjusted]
<1>1. /\ report.original = SumFunction(original) + SumFunction(charged)
      /\ report.adjusted = SumFunction(adjusted) + SumFunction(overridden)
      /\ SumsOfKinds(A, original, L, ModelsOf(trace)) /\ SumsOfKinds(B, adjusted, L, ModelsOf(trace))
      /\ SumsOfKinds(C, charged, H, HostsOf(trace)) /\ SumsOfKinds(D, overridden, H, HostsOf(trace))
  BY TheReportIs
<1>2. /\ IsFiniteSet(L) /\ IsFiniteSet(H)
      /\ original \in [L -> Int] /\ adjusted \in [L -> Int]
      /\ charged \in [H -> Int] /\ overridden \in [H -> Int]
  BY FiguresAre
<1>3. SumFunction([i \in Charges(trace) |-> ChargedFor(trace[i])]) = SumFunction(original) + SumFunction(charged)
  BY ChargesAre
<1>4. /\ SumFunction(original) = SumFunction(A) /\ SumFunction(adjusted) = SumFunction(B)
      /\ SumFunction(charged) = SumFunction(C) /\ SumFunction(overridden) = SumFunction(D)
  <2> HIDE DEF A, B, C, D, original, adjusted, charged, overridden, L, H
  <2> QED BY <1>1, <1>2, SumOfKinds
<1>5. ASSUME \A i \in DOMAIN trace :
               /\ trace[i].kind = "llm" =>
                    /\ trace[i].attribute = "cost"
                    /\ \A key \in PricingKeys(config.models, trace[i].model) :
                         SameRates(config.models[key], trace[i].call.model)
               /\ trace[i].kind = "http" => trace[i].status >= 400 \/ ~trace[i].verbose,
             \A h \in DOMAIN config.services : config.services[h].type = "response_cost"
      PROVE  report.adjusted = report.original
  <2>1. adjusted = original /\ overridden = charged
    BY <1>5, SameTotals
  <2> HIDE DEF original, adjusted, charged, overridden
  <2> QED BY <1>1, <2>1
<1>6. /\ report.original = SumFunction([i \in Charges(trace) |-> ChargedFor(trace[i])])
      /\ report.original = SumFunction(A) + SumFunction(C)
      /\ report.adjusted = SumFunction(B) + SumFunction(D)
  <2> HIDE DEF A, B, C, D, original, adjusted, charged, overridden
  <2> QED BY <1>1, <1>3, <1>4
<1> QED BY <1>5, <1>6 DEF EachChargeOnce
=============================================================================
