----------------------------- MODULE GameLemmas -----------------------------
(***************************************************************************)
(* What the operators the game is built from return, preserve and bound:   *)
(* the scoring of a round, the rotation of turns and the deck of scales,   *)
(* for every group, distance, threshold, deck and memory.                  *)
(***************************************************************************)
EXTENDS Score, Rotation, Deck, FiniteSetTheorems, SequenceTheorems, TLAPS

-----------------------------------------------------------------------------
(***************************************************************************)
(* Sums.  SumFunctionOnSet folds a set in an order it chooses; that the    *)
(* result does not depend on it is what the accounts of the game rest on.  *)
(* An induction over finite sets is stated about a family of sets: it is   *)
(* the least size of a set outside of the family that is contradicted.     *)
(***************************************************************************)
\* A set of numbers has a least element.
LEMMA SmallestNumber ==
  ASSUME NEW S, S \subseteq Nat, S # {}
  PROVE  \E m \in S : \A k \in S : m <= k
<1>1. IsWellFoundedOn(OpToRel(<, Nat), Nat)
  BY NatLessThanWellFounded
<1>2. PICK m \in S : \A k \in S : ~ (<<k, m>> \in OpToRel(<, Nat))
  BY <1>1, WFMin
<1>3. \A k \in S : ~ (k < m)
  BY <1>2 DEF OpToRel
<1> QED
  BY <1>3

\* A family of sets that holds the empty set, and every part of T all of whose parts
\* with one element less it holds, holds T.
LEMMA SetInduction ==
  ASSUME NEW T, IsFiniteSet(T), NEW F, {} \in F,
         \A s \in SUBSET T : s # {} /\ (\A x \in s : s \ {x} \in F) => s \in F
  PROVE  T \in F
<1> DEFINE Bad   == {s \in SUBSET T : s \notin F}
           sizes == {Cardinality(s) : s \in Bad}
<1>1. SUFFICES ASSUME Bad # {} PROVE FALSE
  OBVIOUS
<1>2. \A s \in Bad : IsFiniteSet(s) /\ Cardinality(s) \in Nat
  BY FS_Subset, FS_CardinalityType
<1>3. PICK m \in sizes : \A k \in sizes : m <= k
  <2>1. sizes \subseteq Nat /\ sizes # {}
    BY <1>1, <1>2
  <2> HIDE DEF sizes
  <2> QED
    BY <2>1, SmallestNumber
<1>4. PICK s \in Bad : m = Cardinality(s)
  OBVIOUS
<1>5. PICK x \in s : s \ {x} \notin F
  OBVIOUS
<1>6. s \ {x} \in Bad
  BY <1>5
<1>7. Cardinality(s \ {x}) = m - 1
  BY <1>2, <1>4, <1>5, FS_RemoveElement
<1>8. m - 1 \in sizes /\ m \in Nat
  BY <1>2, <1>4, <1>6, <1>7
<1> HIDE DEF sizes
<1> QED
  BY <1>3, <1>8

Pick(S) == CHOOSE x \in S : TRUE

\* The function the library takes the sum from: it is defined on every part of T.
IsTally(tally, f, T) ==
  tally = [s \in SUBSET T |-> IF s = {} THEN 0 ELSE f[Pick(s)] + tally[s \ {Pick(s)}]]

LEMMA SumIsATally ==
  ASSUME NEW f, NEW T
  PROVE  SumFunctionOnSet(f, T) = (CHOOSE tally : IsTally(tally, f, T))[T]
BY DEF SumFunctionOnSet, FoldFunctionOnSet, MapThenFoldSet, IsTally, Pick

LEMMA TalliesAgree ==
  ASSUME NEW f, NEW T, NEW U, NEW t, NEW u, IsTally(t, f, T), IsTally(u, f, U),
         NEW s, IsFiniteSet(s), s \subseteq T \cap U
  PROVE  t[s] = u[s]
<1> DEFINE F == {r \in SUBSET s : t[r] = u[r]}
<1>1. \A r \in SUBSET s : /\ t[r] = IF r = {} THEN 0 ELSE f[Pick(r)] + t[r \ {Pick(r)}]
                          /\ u[r] = IF r = {} THEN 0 ELSE f[Pick(r)] + u[r \ {Pick(r)}]
  BY DEF IsTally
<1>2. {} \in F
  BY <1>1
<1>3. \A r \in SUBSET s : r # {} => Pick(r) \in r
  BY DEF Pick
<1>4. \A r \in SUBSET s : r # {} /\ (\A x \in r : r \ {x} \in F) => r \in F
  BY <1>1, <1>3
<1> HIDE DEF F
<1>5. s \in F
  BY <1>2, <1>4, SetInduction
<1> QED
  BY <1>5 DEF F

\* The sum of a finite set of numbers is that of all but the chosen one, and that one.
LEMMA SumStepsDown ==
  ASSUME NEW f, NEW T, IsFiniteSet(T)
  PROVE  SumFunctionOnSet(f, T)
           = IF T = {} THEN 0 ELSE f[Pick(T)] + SumFunctionOnSet(f, T \ {Pick(T)})
<1> DEFINE Sum(s) == SumFunctionOnSet(f, s)
           F == {s \in SUBSET T : \E tally : IsTally(tally, f, s)}
<1>1. {} \in F
  <2>1. IsTally([s \in SUBSET {} |-> 0], f, {})
    BY DEF IsTally
  <2> QED
    BY <2>1
<1>2. ASSUME NEW s \in F
      PROVE  \E tally : IsTally(tally, f, s) /\ Sum(s) = tally[s]
  BY SumIsATally
<1>3. \A s \in SUBSET T : s # {} => Pick(s) \in s
  BY DEF Pick
<1>4. ASSUME NEW s \in F, s # {}
      PROVE  s \ {Pick(s)} \in F /\ Sum(s) = f[Pick(s)] + Sum(s \ {Pick(s)})
  <2> DEFINE rest == s \ {Pick(s)}
  <2>1. PICK t : IsTally(t, f, s) /\ Sum(s) = t[s]
    BY <1>2
  <2>2. IsTally([r \in SUBSET rest |-> t[r]], f, rest)
    <3>1. \A r \in SUBSET rest : t[r] = IF r = {} THEN 0 ELSE f[Pick(r)] + t[r \ {Pick(r)}]
      BY <2>1 DEF IsTally
    <3> QED
      BY <3>1 DEF IsTally
  <2>3. rest \in F
    BY <2>2
  <2>4. PICK u : IsTally(u, f, rest) /\ Sum(rest) = u[rest]
    BY <1>2, <2>3
  <2>5. t[rest] = u[rest]
    <3>1. IsFiniteSet(rest) /\ rest \subseteq s \cap rest
      BY FS_Subset
    <3> QED
      BY <2>1, <2>4, <3>1, TalliesAgree
  <2>6. t[s] = f[Pick(s)] + t[rest]
    BY <1>4, <2>1 DEF IsTally
  <2> QED
    BY <2>1, <2>3, <2>4, <2>5, <2>6
<1>5. ASSUME NEW s \in SUBSET T, s # {}, \A x \in s : s \ {x} \in F
      PROVE  s \in F
  <2> DEFINE tally == [r \in SUBSET s |-> IF r = s THEN f[Pick(s)] + Sum(s \ {Pick(s)}) ELSE Sum(r)]
  <2>1. \A r \in SUBSET s : r # s => r \in F
    <3>1. ASSUME NEW r \in SUBSET s, r # s
          PROVE  r \in F
      <4>1. PICK x \in s : x \notin r
        BY <3>1
      <4>2. PICK t : IsTally(t, f, s \ {x})
        BY <1>5
      <4>3. r \in SUBSET (s \ {x})
        BY <4>1
      <4>4. \A q \in SUBSET r : t[q] = IF q = {} THEN 0 ELSE f[Pick(q)] + t[q \ {Pick(q)}]
        BY <4>2, <4>3 DEF IsTally
      <4>5. IsTally([q \in SUBSET r |-> t[q]], f, r)
        BY <4>4 DEF IsTally
      <4> QED
        BY <4>5
    <3> QED
      BY <3>1
  <2>2. Sum({}) = 0
    <3>1. PICK t : IsTally(t, f, {}) /\ Sum({}) = t[{}]
      BY <1>1, <1>2
    <3> QED
      BY <3>1 DEF IsTally
  <2>3. ASSUME NEW r \in SUBSET s
        PROVE  tally[r] = IF r = {} THEN 0 ELSE f[Pick(r)] + tally[r \ {Pick(r)}]
    <3>1. CASE r = {}
      BY <1>5, <2>2, <3>1
    <3>2. CASE r # {}
      <4>1. r \ {Pick(r)} \in SUBSET s /\ r \ {Pick(r)} # s
        BY <1>3, <3>2
      <4>2. tally[r \ {Pick(r)}] = Sum(r \ {Pick(r)})
        BY <4>1
      <4>3. tally[r] = f[Pick(r)] + Sum(r \ {Pick(r)})
        <5>1. CASE r = s
          BY <5>1
        <5>2. CASE r # s
          BY <5>2, <2>1, <1>4, <3>2
        <5> QED
          BY <5>1, <5>2
      <4> QED
        BY <3>2, <4>2, <4>3
    <3> QED
      BY <3>1, <3>2
  <2>4. IsTally(tally, f, s)
    <3> tally = [r \in SUBSET s |-> tally[r]]
      OBVIOUS
    <3> HIDE DEF tally
    <3> QED
      BY <2>3 DEF IsTally
  <2> QED
    BY <2>4
<1>6. T \in F
  <2> HIDE DEF F
  <2> QED
    BY <1>1, <1>5, SetInduction
<1>7. CASE T = {}
  <2>1. PICK t : IsTally(t, f, {}) /\ Sum({}) = t[{}]
    BY <1>1, <1>2
  <2> QED
    BY <1>7, <2>1 DEF IsTally
<1> QED
  BY <1>4, <1>6, <1>7

LEMMA SumOfNothing == ASSUME NEW f PROVE SumFunctionOnSet(f, {}) = 0
BY FS_EmptySet, SumStepsDown

\* It is a number, and any element can be taken out of it.
LEMMA SumType ==
  ASSUME NEW f, NEW T, IsFiniteSet(T), \A x \in T : f[x] \in Int
  PROVE  SumFunctionOnSet(f, T) \in Int
<1> DEFINE F == {s \in SUBSET T : SumFunctionOnSet(f, s) \in Int}
<1>1. \A s \in SUBSET T : IsFiniteSet(s)
  BY FS_Subset
<1>2. \A s \in SUBSET T : s # {} => Pick(s) \in s
  BY DEF Pick
<1>3. {} \in F
  BY SumOfNothing
<1>4. ASSUME NEW s \in SUBSET T, s # {}, \A x \in s : s \ {x} \in F
      PROVE  s \in F
  <2> DEFINE p == Pick(s)
  <2>1. p \in s /\ IsFiniteSet(s)
    BY <1>1, <1>2, <1>4
  <2>2. SumFunctionOnSet(f, s) = f[p] + SumFunctionOnSet(f, s \ {p})
    BY <1>4, <2>1, SumStepsDown
  <2>3. SumFunctionOnSet(f, s \ {p}) \in Int /\ f[p] \in Int
    BY <1>4, <2>1
  <2> QED
    BY <2>2, <2>3
<1> HIDE DEF F
<1>5. T \in F
  BY <1>3, <1>4, SetInduction
<1> QED
  BY <1>5 DEF F

LEMMA SumWithout ==
  ASSUME NEW f, NEW T, IsFiniteSet(T), \A x \in T : f[x] \in Int, NEW x \in T
  PROVE  SumFunctionOnSet(f, T) = f[x] + SumFunctionOnSet(f, T \ {x})
<1> DEFINE Sum(s) == SumFunctionOnSet(f, s)
           F == {s \in SUBSET T : \A y \in s : Sum(s) = f[y] + Sum(s \ {y})}
<1>1. \A s \in SUBSET T : IsFiniteSet(s)
  BY FS_Subset
<1>2. \A s \in SUBSET T : Sum(s) \in Int
  BY <1>1, SumType
<1>3. ASSUME NEW s \in SUBSET T, s # {}, \A y \in s : s \ {y} \in F, NEW y \in s
      PROVE  Sum(s) = f[y] + Sum(s \ {y})
  <2> DEFINE p == Pick(s)
  <2>1. p \in s
    BY <1>3 DEF Pick
  <2>2. Sum(s) = f[p] + Sum(s \ {p})
    BY <1>1, <1>3, SumStepsDown
  <2>3. CASE y = p
    BY <2>2, <2>3
  <2>4. CASE y # p
    <3> DEFINE rest == (s \ {p}) \ {y}
    <3>1. Sum(s \ {p}) = f[y] + Sum(rest)
      BY <1>3, <2>1, <2>4
    <3>2. Sum(s \ {y}) = f[p] + Sum(rest)
      <4>1. (s \ {y}) \ {p} = rest
        OBVIOUS
      <4>2. Sum(s \ {y}) = f[p] + Sum((s \ {y}) \ {p})
        BY <1>3, <2>1, <2>4
      <4> QED
        BY <4>1, <4>2
    <3>3. Sum(rest) \in Int /\ f[p] \in Int /\ f[y] \in Int
      BY <1>2, <2>1
    <3> HIDE DEF Sum, p, rest
    <3> QED
      BY <2>2, <3>1, <3>2, <3>3
  <2> QED
    BY <2>3, <2>4
<1>4. \A s \in SUBSET T : s # {} /\ (\A y \in s : s \ {y} \in F) => s \in F
  BY <1>3
<1>5. {} \in F
  OBVIOUS
<1> HIDE DEF F
<1>6. T \in F
  BY <1>4, <1>5, SetInduction
<1> QED
  BY <1>6 DEF F

\* Only the values on the set count.
LEMMA SumIsExtensional ==
  ASSUME NEW f, NEW g, NEW T, IsFiniteSet(T), \A x \in T : f[x] = g[x] /\ f[x] \in Int
  PROVE  SumFunctionOnSet(f, T) = SumFunctionOnSet(g, T)
<1> DEFINE F == {s \in SUBSET T : SumFunctionOnSet(f, s) = SumFunctionOnSet(g, s)}
<1>1. \A s \in SUBSET T : IsFiniteSet(s)
  BY FS_Subset
<1>2. \A s \in SUBSET T : s # {} => Pick(s) \in s
  BY DEF Pick
<1>3. {} \in F
  BY SumOfNothing
<1>4. ASSUME NEW s \in SUBSET T, s # {}, \A x \in s : s \ {x} \in F
      PROVE  s \in F
  <2> DEFINE p == Pick(s)
  <2>1. p \in s /\ IsFiniteSet(s)
    BY <1>1, <1>2, <1>4
  <2>2. /\ SumFunctionOnSet(f, s) = f[p] + SumFunctionOnSet(f, s \ {p})
        /\ SumFunctionOnSet(g, s) = g[p] + SumFunctionOnSet(g, s \ {p})
    BY <1>4, <2>1, SumStepsDown
  <2>3. SumFunctionOnSet(f, s \ {p}) = SumFunctionOnSet(g, s \ {p}) /\ f[p] = g[p]
    BY <1>4, <2>1
  <2> QED
    BY <2>2, <2>3
<1> HIDE DEF F
<1>5. T \in F
  BY <1>3, <1>4, SetInduction
<1> QED
  BY <1>5 DEF F

\* The sum of two accounts is that of their sums.
LEMMA SumOfSums ==
  ASSUME NEW f, NEW g, NEW h, NEW T, IsFiniteSet(T),
         \A x \in T : f[x] \in Int /\ g[x] \in Int /\ h[x] = f[x] + g[x]
  PROVE  SumFunctionOnSet(h, T) = SumFunctionOnSet(f, T) + SumFunctionOnSet(g, T)
<1> DEFINE Sum(k, s) == SumFunctionOnSet(k, s)
           F == {s \in SUBSET T : Sum(h, s) = Sum(f, s) + Sum(g, s)}
<1>1. \A s \in SUBSET T : IsFiniteSet(s)
  BY FS_Subset
<1>2. \A s \in SUBSET T : s # {} => Pick(s) \in s
  BY DEF Pick
<1>3. {} \in F
  BY SumOfNothing
<1>4. ASSUME NEW s \in SUBSET T, s # {}, \A x \in s : s \ {x} \in F
      PROVE  s \in F
  <2> DEFINE p == Pick(s)
             rest == s \ {p}
  <2>1. p \in s /\ IsFiniteSet(s) /\ IsFiniteSet(rest) /\ rest \in SUBSET T
    BY <1>1, <1>2, <1>4
  <2>2. /\ Sum(f, s) = f[p] + Sum(f, rest)
        /\ Sum(g, s) = g[p] + Sum(g, rest)
        /\ Sum(h, s) = h[p] + Sum(h, rest)
    BY <1>4, <2>1, SumStepsDown
  <2>3. Sum(f, rest) \in Int /\ Sum(g, rest) \in Int
    BY <2>1, SumType
  <2>4. Sum(h, rest) = Sum(f, rest) + Sum(g, rest)
    BY <1>4, <2>1
  <2>5. f[p] \in Int /\ g[p] \in Int /\ h[p] = f[p] + g[p]
    BY <2>1
  <2> HIDE DEF Sum, p, rest
  <2>6. Sum(h, s) = Sum(f, s) + Sum(g, s)
    BY <2>2, <2>3, <2>4, <2>5
  <2> QED
    BY <2>6
<1> HIDE DEF F
<1>5. T \in F
  BY <1>3, <1>4, SetInduction
<1> QED
  BY <1>5 DEF F

\* What is 0 outside of a part of the set adds nothing there.
LEMMA SumOfAPart ==
  ASSUME NEW f, NEW T, IsFiniteSet(T), NEW P, P \subseteq T,
         \A x \in T : f[x] \in Int /\ (x \notin P => f[x] = 0)
  PROVE  SumFunctionOnSet(f, T) = SumFunctionOnSet(f, P)
<1> DEFINE Sum(s) == SumFunctionOnSet(f, s)
           F == {s \in SUBSET T : Sum(s) = Sum(s \cap P)}
<1>1. \A s \in SUBSET T : IsFiniteSet(s) /\ Sum(s) \in Int
  BY FS_Subset, SumType
<1>2. {} \in F
  OBVIOUS
<1>3. ASSUME NEW s \in SUBSET T, s # {}, \A x \in s : s \ {x} \in F
      PROVE  s \in F
  <2> DEFINE x == Pick(s)
  <2>1. x \in s
    BY <1>3 DEF Pick
  <2>2. Sum(s) = f[x] + Sum(s \ {x}) /\ Sum(s \ {x}) = Sum((s \ {x}) \cap P)
    BY <1>1, <1>3, <2>1, SumStepsDown
  <2>3. CASE x \in P
    <3>1. Sum(s \cap P) = f[x] + Sum((s \cap P) \ {x})
      BY <1>1, <2>1, <2>3, SumWithout
    <3>2. (s \cap P) \ {x} = (s \ {x}) \cap P
      OBVIOUS
    <3> QED
      BY <2>2, <3>1, <3>2
  <2>4. CASE x \notin P
    <3>1. (s \ {x}) \cap P = s \cap P
      BY <2>4
    <3>2. f[x] = 0 /\ Sum(s \cap P) \in Int
      BY <1>1, <2>1, <2>4
    <3>3. Sum(s) = f[x] + Sum(s \cap P)
      BY <2>2, <3>1
    <3> HIDE DEF Sum
    <3>4. Sum(s) = Sum(s \cap P)
      BY <3>2, <3>3
    <3> QED
      BY <3>4
  <2> QED
    BY <2>3, <2>4
<1> HIDE DEF F
<1>4. T \in F
  BY <1>2, <1>3, SetInduction
<1>5. T \cap P = P
  OBVIOUS
<1> QED
  BY <1>4, <1>5 DEF F

\* Counted under other names, one for each.
LEMMA SumOfRenamed ==
  ASSUME NEW T, IsFiniteSet(T), NEW b, NEW f, NEW g,
         \A x, y \in T : b[x] = b[y] => x = y,
         \A x \in T : f[x] \in Int /\ g[b[x]] = f[x]
  PROVE  SumFunctionOnSet(g, {b[x] : x \in T}) = SumFunctionOnSet(f, T)
<1> DEFINE img(s) == {b[x] : x \in s}
           F == {s \in SUBSET T : SumFunctionOnSet(g, img(s)) = SumFunctionOnSet(f, s)}
<1>1. \A s \in SUBSET T : IsFiniteSet(s) /\ IsFiniteSet(img(s))
  <2>1. ASSUME NEW s \in SUBSET T
        PROVE  IsFiniteSet(s) /\ IsFiniteSet(img(s))
    <3>1. IsFiniteSet(s)
      BY FS_Subset
    <3>2. [x \in s |-> b[x]] \in Surjection(s, img(s))
      BY DEF Surjection
    <3> QED
      BY <3>1, <3>2, FS_Surjection
  <2> QED
    BY <2>1
<1>2. {} \in F
  <2>1. img({}) = {}
    OBVIOUS
  <2> QED
    BY <2>1, SumOfNothing
<1>3. ASSUME NEW s \in SUBSET T, s # {}, \A x \in s : s \ {x} \in F
      PROVE  s \in F
  <2>1. PICK x \in s : TRUE
    BY <1>3
  <2>2. SumFunctionOnSet(f, s) = f[x] + SumFunctionOnSet(f, s \ {x})
    <3>1. IsFiniteSet(s) /\ \A y \in s : f[y] \in Int
      BY <1>1
    <3> QED
      BY <3>1, SumWithout
  <2>3. b[x] \in img(s) /\ img(s) \ {b[x]} = img(s \ {x}) /\ \A y \in img(s) : g[y] \in Int
    OBVIOUS
  <2>4. SumFunctionOnSet(g, img(s)) = g[b[x]] + SumFunctionOnSet(g, img(s) \ {b[x]})
    BY <1>1, <2>3, SumWithout
  <2>5. SumFunctionOnSet(g, img(s \ {x})) = SumFunctionOnSet(f, s \ {x})
    BY <1>3
  <2>6. g[b[x]] = f[x]
    OBVIOUS
  <2>7. SumFunctionOnSet(g, img(s)) = SumFunctionOnSet(f, s)
    BY <2>2, <2>3, <2>4, <2>5, <2>6
  <2> QED
    BY <2>7
<1> HIDE DEF F
<1>4. T \in F
  BY <1>2, <1>3, SetInduction
<1> QED
  BY <1>4 DEF F

-----------------------------------------------------------------------------
(***************************************************************************)
(* Scoring                                                                 *)
(***************************************************************************)
\* The widths and the points of the bands are numbers, and a distance that lies in
\* some band has a first one.
LEMMA PointsForType ==
  ASSUME NEW d2 \in Int
  PROVE  PointsFor(d2) \in 0..MaxPoints
<1> DEFINE wide == {i \in 1..4 : d2 <= Square(ScoreBands[i].max)}
<1>1. CASE wide = {}
  BY <1>1 DEF PointsFor, MaxPoints
<1>2. CASE wide # {}
  <2>1. wide \subseteq {1, 2, 3, 4}
    OBVIOUS
  <2> HIDE DEF wide
  <2>2. \E i \in wide : \A j \in wide : i <= j
    <3>1. CASE 1 \in wide
      BY <2>1, <3>1
    <3>2. CASE 1 \notin wide /\ 2 \in wide
      BY <2>1, <3>2
    <3>3. CASE 1 \notin wide /\ 2 \notin wide /\ 3 \in wide
      BY <2>1, <3>3
    <3>4. CASE 1 \notin wide /\ 2 \notin wide /\ 3 \notin wide
      <4>1. wide = {4}
        BY <1>2, <2>1, <3>4
      <4> QED
        BY <4>1
    <3> QED
      BY <3>1, <3>2, <3>3, <3>4
  <2> DEFINE first == CHOOSE i \in wide : \A j \in wide : i <= j
  <2>3. first \in {1, 2, 3, 4}
    BY <2>1, <2>2
  <2>4. PointsFor(d2) = ScoreBands[first].points
    BY <1>2 DEF PointsFor, wide
  <2> HIDE DEF first
  <2>5. \A i \in {1, 2, 3, 4} : ScoreBands[i].points \in 0..4
    BY DEF ScoreBands
  <2> QED
    BY <2>3, <2>4, <2>5 DEF MaxPoints
<1> QED
  BY <1>1, <1>2

LEMMA DistanceType ==
  ASSUME NEW a \in Point, NEW b \in Point
  PROVE  Distance2(a, b) \in Nat
<1>1. \A n \in Int : n * n \in Nat
  OBVIOUS
<1>2. a.x - b.x \in Int /\ a.y - b.y \in Int
  BY DEF Point
<1> QED
  BY <1>1, <1>2 DEF Distance2, Square

LEMMA DisjointUnion ==
  ASSUME NEW A, NEW B, IsFiniteSet(A), IsFiniteSet(B), A \cap B = {}
  PROVE  IsFiniteSet(A \cup B) /\ Cardinality(A \cup B) = Cardinality(A) + Cardinality(B)
<1>1. /\ IsFiniteSet(A \cup B)
      /\ Cardinality(A \cup B) = Cardinality(A) + Cardinality(B) - Cardinality(A \cap B)
  BY FS_Union
<1>2. Cardinality(A \cap B) = 0
  BY FS_EmptySet
<1>3. Cardinality(A) \in Nat /\ Cardinality(B) \in Nat
  BY FS_CardinalityType
<1> QED
  BY <1>1, <1>2, <1>3

\* Guesses that brought different points are different guesses.
LEMMA ScoringIsDisjoint ==
  ASSUME NEW R, IsFiniteSet(R)
  PROVE  /\ \A k \in 1..4 : Scoring(R, k) \in Nat
         /\ Scoring(R, 1) + Scoring(R, 2) + Scoring(R, 3) + Scoring(R, 4) <= Cardinality(R)
<1> DEFINE of(k) == {r \in R : r.points = k}
<1>1. \A k \in 1..4 : of(k) \subseteq R /\ IsFiniteSet(of(k)) /\ Cardinality(of(k)) \in Nat
  BY FS_Subset, FS_CardinalityType
<1>2. /\ of(1) \cap of(2) = {}
      /\ (of(1) \cup of(2)) \cap of(3) = {}
      /\ (of(1) \cup of(2) \cup of(3)) \cap of(4) = {}
      /\ of(1) \cup of(2) \cup of(3) \cup of(4) \subseteq R
  OBVIOUS
<1>3. \A k \in 1..4 : Scoring(R, k) = Cardinality(of(k))
  BY DEF Scoring
<1> HIDE DEF of
<1>4. /\ IsFiniteSet(of(1)) /\ IsFiniteSet(of(2)) /\ IsFiniteSet(of(3)) /\ IsFiniteSet(of(4))
      /\ Scoring(R, 1) = Cardinality(of(1)) /\ Scoring(R, 2) = Cardinality(of(2))
      /\ Scoring(R, 3) = Cardinality(of(3)) /\ Scoring(R, 4) = Cardinality(of(4))
  BY <1>1, <1>3
<1>5. /\ IsFiniteSet(of(1) \cup of(2))
      /\ Cardinality(of(1) \cup of(2)) = Cardinality(of(1)) + Cardinality(of(2))
  BY <1>2, <1>4, DisjointUnion
<1>6. /\ IsFiniteSet(of(1) \cup of(2) \cup of(3))
      /\ Cardinality(of(1) \cup of(2) \cup of(3))
           = Cardinality(of(1) \cup of(2)) + Cardinality(of(3))
  BY <1>2, <1>4, <1>5, DisjointUnion
<1>7. Cardinality(of(1) \cup of(2) \cup of(3) \cup of(4))
        = Cardinality(of(1) \cup of(2) \cup of(3)) + Cardinality(of(4))
  BY <1>2, <1>4, <1>6, DisjointUnion
<1>8. Cardinality(of(1) \cup of(2) \cup of(3) \cup of(4)) <= Cardinality(R)
  BY <1>2, FS_Subset
<1> QED
  BY <1>1, <1>4, <1>5, <1>6, <1>7, <1>8, FS_CardinalityType

LEMMA AverageBound ==
  ASSUME NEW n \in Nat \ {0}, NEW total \in Nat, total <= 4 * n
  PROVE  RoundedAverage(total, n) \in 0..4
<1> DEFINE m == 2 * total + n
           d == 2 * n
           q == m \div d
<1>1. d \in Nat \ {0} /\ m \in Nat /\ m < 5 * d
  OBVIOUS
<1> HIDE DEF m, d
<1>2. q \in Int /\ d * q <= m /\ m < d * q + d
  BY <1>1
<1> HIDE DEF q
<1>3. q >= 0
  BY <1>1, <1>2
<1>4. q <= 4
  BY <1>1, <1>2
<1> QED
  BY <1>2, <1>3, <1>4 DEF RoundedAverage, q, m, d

LEMMA ClueGiverPointsType ==
  ASSUME NEW R, IsFiniteSet(R)
  PROVE  ClueGiverPoints(R) \in 0..MaxPoints
<1>1. CASE R = {}
  BY <1>1 DEF ClueGiverPoints, MaxPoints
<1>2. CASE R # {}
  <2>1. Cardinality(R) \in Nat \ {0}
    BY <1>2, FS_CardinalityType, FS_EmptySet
  <2>2. TotalPoints(R) \in Nat /\ TotalPoints(R) <= 4 * Cardinality(R)
    BY <2>1, ScoringIsDisjoint DEF TotalPoints
  <2> QED
    BY <1>2, <2>1, <2>2, AverageBound DEF ClueGiverPoints, MaxPoints
<1> QED
  BY <1>1, <1>2

\* reveal adds the points up one by one, TotalPoints by what a guess can bring.
LEMMA PointsAreCounted ==
  ASSUME NEW R, IsFiniteSet(R), \A r \in R : r.points \in 0..MaxPoints
  PROVE  SumFunctionOnSet([r \in R |-> r.points], R) = TotalPoints(R)
<1> DEFINE f == [r \in R |-> r.points]
           of(s, k) == {r \in s : r.points = k}
           F == {s \in SUBSET R : SumFunctionOnSet(f, s) = TotalPoints(s)}
<1>1. \A s \in SUBSET R : IsFiniteSet(s)
  BY FS_Subset
<1>2. {} \in F
  <2>1. \A k \in 1..4 : Scoring({}, k) = 0
    <3>1. \A k \in 1..4 : of({}, k) = {}
      OBVIOUS
    <3> QED
      BY <3>1, FS_EmptySet DEF Scoring
  <2> QED
    BY <2>1, SumOfNothing DEF TotalPoints
<1>3. ASSUME NEW s \in SUBSET R, s # {}, \A x \in s : s \ {x} \in F
      PROVE  s \in F
  <2>1. PICK x \in s : TRUE
    BY <1>3
  <2> DEFINE rest == s \ {x}
  <2>2. SumFunctionOnSet(f, s) = x.points + SumFunctionOnSet(f, rest)
    <3>1. \A r \in s : f[r] \in Int
      BY DEF MaxPoints
    <3> QED
      BY <1>1, <3>1, SumWithout
  <2>3. SumFunctionOnSet(f, rest) = TotalPoints(rest)
    BY <1>3
  <2>4. ASSUME NEW k \in 1..4
        PROVE  /\ Scoring(rest, k) \in Nat
               /\ Scoring(s, k) = Scoring(rest, k) + (IF x.points = k THEN 1 ELSE 0)
    <3>1. IsFiniteSet(of(s, k)) /\ IsFiniteSet(of(rest, k))
      BY <1>1, FS_Subset
    <3>2. Cardinality(of(s, k)) \in Nat /\ Cardinality(of(rest, k)) \in Nat
      BY <3>1, FS_CardinalityType
    <3>3. CASE x.points = k
      <4>1. x \in of(s, k) /\ of(rest, k) = of(s, k) \ {x}
        BY <3>3
      <4> HIDE DEF of
      <4>2. Cardinality(of(rest, k)) = Cardinality(of(s, k)) - 1
        BY <3>1, <4>1, FS_RemoveElement
      <4> QED
        BY <3>2, <3>3, <4>2 DEF Scoring, of
    <3>4. CASE x.points # k
      <4>1. of(rest, k) = of(s, k)
        BY <3>4
      <4> QED
        BY <3>2, <3>4, <4>1 DEF Scoring
    <3> QED
      BY <3>3, <3>4
  <2>5. TotalPoints(s) = x.points + TotalPoints(rest)
    <3>1. x.points \in 0..4
      BY DEF MaxPoints
    <3>2. /\ Scoring(rest, 1) \in Nat /\ Scoring(rest, 2) \in Nat
          /\ Scoring(rest, 3) \in Nat /\ Scoring(rest, 4) \in Nat
          /\ Scoring(s, 1) = Scoring(rest, 1) + (IF x.points = 1 THEN 1 ELSE 0)
          /\ Scoring(s, 2) = Scoring(rest, 2) + (IF x.points = 2 THEN 1 ELSE 0)
          /\ Scoring(s, 3) = Scoring(rest, 3) + (IF x.points = 3 THEN 1 ELSE 0)
          /\ Scoring(s, 4) = Scoring(rest, 4) + (IF x.points = 4 THEN 1 ELSE 0)
      BY <2>4
    <3> HIDE DEF rest
    <3> QED
      BY <3>1, <3>2 DEF TotalPoints
  <2> QED
    BY <2>2, <2>3, <2>5
<1> HIDE DEF F
<1>4. R \in F
  BY <1>2, <1>3, SetInduction
<1> QED
  BY <1>4 DEF F

\* The rounded average is the nearest integer, of two the larger.
LEMMA AverageIsNearest ==
  ASSUME NEW n \in Nat \ {0}, NEW total \in Nat
  PROVE  2 * (n * RoundedAverage(total, n) - total) \in (-n + 1)..n
<1> DEFINE m == 2 * total + n
           d == 2 * n
           q == m \div d
           p == n * q
<1>1. d \in Nat \ {0} /\ m \in Nat
  OBVIOUS
<1>2. q \in Int /\ d * q <= m /\ m < d * q + d
  <2> HIDE DEF m, d
  <2> QED
    BY <1>1
<1>3. p \in Int /\ d * q = 2 * p
  <2> HIDE DEF q
  <2> QED
    BY <1>2
<1>4. 2 * p <= 2 * total + n /\ 2 * total + n < 2 * p + 2 * n
  BY <1>2, <1>3
<1> HIDE DEF p
<1>5. 2 * (p - total) \in (-n + 1)..n
  BY <1>3, <1>4
<1> QED
  BY <1>5 DEF RoundedAverage, p

-----------------------------------------------------------------------------
(***************************************************************************)
(* The rotation of turns                                                   *)
(***************************************************************************)
(***************************************************************************)
(* An appended pass is a sequence of the IDs it was asked for, with one    *)
(* entry for each of them.                                                 *)
(***************************************************************************)
LEMMA PassType ==
  ASSUME NEW r, NEW S, NEW ids \in SUBSET S, IsFiniteSet(ids), NEW c \in Passes(r, ids)
  PROVE  c \in Seq(S) /\ Len(c) = Cardinality(ids)
<1>1. Cardinality(ids) \in Nat
  BY FS_CardinalityType
<1>2. c \in [1..Cardinality(ids) -> ids]
  BY DEF Passes, SetToSeqs
<1>3. c \in Seq(ids) /\ Len(c) = Cardinality(ids)
  BY <1>1, <1>2
<1> QED
  BY <1>3

LEMMA TrimmedType ==
  ASSUME NEW S, NEW r, IsRotation(r, S)
  PROVE  IsRotation(Trimmed(r), S) /\ Waiting(Trimmed(r)) = Waiting(r)
<1>1. CASE r.index > OrderTrimThreshold
  <2>1. Trimmed(r) = [order |-> SubSeq(r.order, r.index + 1, Len(r.order)), index |-> 0]
    BY <1>1 DEF Trimmed
  <2>2. /\ SubSeq(r.order, r.index + 1, Len(r.order)) \in Seq(S)
        /\ Len(SubSeq(r.order, r.index + 1, Len(r.order))) = Len(r.order) - r.index
    BY SubSeqProperties DEF IsRotation
  <2> QED
    BY <2>1, <2>2 DEF IsRotation, Waiting
<1>2. CASE ~ (r.index > OrderTrimThreshold)
  BY <1>2 DEF Trimmed
<1> QED
  BY <1>1, <1>2

(***************************************************************************)
(* After ensure() at least two turns are to come.                          *)
(***************************************************************************)
LEMMA EnsuredType ==
  ASSUME NEW S, NEW r, IsRotation(r, S),
         NEW ids \in SUBSET S, IsFiniteSet(ids), Cardinality(ids) >= 2,
         NEW q \in Ensured(r, ids)
  PROVE  IsRotation(q, S) /\ Waiting(q) >= 2
<1>1. CASE Waiting(r) < 2
  <2>1. PICK c \in Passes(r, ids) : q = Trimmed([order |-> r.order \o c, index |-> r.index])
    BY <1>1 DEF Ensured, Refilled
  <2>2. c \in Seq(S) /\ Len(c) = Cardinality(ids) /\ Cardinality(ids) \in Nat
    BY PassType, FS_CardinalityType
  <2>3. r.order \o c \in Seq(S) /\ Len(r.order \o c) = Len(r.order) + Len(c)
    BY <2>2, ConcatProperties DEF IsRotation
  <2>4. r.index \in Nat /\ Len(r.order) \in Nat /\ r.index <= Len(r.order)
    BY LenProperties DEF IsRotation
  <2>5. IsRotation([order |-> r.order \o c, index |-> r.index], S)
    BY <2>2, <2>3, <2>4 DEF IsRotation
  <2>6. Waiting([order |-> r.order \o c, index |-> r.index]) >= 2
    BY <2>2, <2>3, <2>4 DEF Waiting
  <2> QED
    BY <2>1, <2>5, <2>6, TrimmedType
<1>2. CASE ~ (Waiting(r) < 2)
  <2>1. q = Trimmed(r)
    BY <1>2 DEF Ensured
  <2>2. Waiting(r) >= 2
    BY <1>2 DEF IsRotation, Waiting
  <2> QED
    BY <2>1, <2>2, TrimmedType
<1> QED
  BY <1>1, <1>2

(***************************************************************************)
(* A turn goes to an ID of the stream or of the group, and someone is left *)
(* to be announced as the next.                                            *)
(***************************************************************************)
LEMMA TurnType ==
  ASSUME NEW S, NEW r, IsRotation(r, S),
         NEW ids \in SUBSET S, IsFiniteSet(ids), Cardinality(ids) >= 2,
         NEW turn \in Turns(r, ids)
  PROVE  turn.player \in S /\ IsRotation(turn.rotation, S) /\ Waiting(turn.rotation) >= 1
<1>1. PICK q \in Ensured(r, ids) : turn = Advance(q)
  BY FS_CardinalityType DEF Turns
<1>2. IsRotation(q, S) /\ Waiting(q) >= 2
  BY EnsuredType
<1>3. q.index + 1 \in 1..Len(q.order)
  BY <1>2 DEF IsRotation, Waiting
<1>4. q.order[q.index + 1] \in S
  BY <1>2, <1>3, ElementOfSeq DEF IsRotation
<1> QED
  BY <1>1, <1>2, <1>3, <1>4 DEF Advance, IsRotation, Waiting

-----------------------------------------------------------------------------
(***************************************************************************)
(* Taking a player out of the order (rotation.go, Remove): the ranks of    *)
(* the positions that stay are 1, 2, 3, ... in their order, so what is     *)
(* kept is the entries at those positions, each no later than it was.      *)
(***************************************************************************)
LEMMA RankCounts ==
  ASSUME NEW n \in Nat, NEW P, P \subseteq 1..n
  PROVE  /\ IsFiniteSet(P) /\ Cardinality(P) \in Nat /\ Cardinality(P) <= n
         /\ \A i \in P : Rank(P, i) \in 1..Cardinality(P) /\ Rank(P, i) <= i
         /\ \A i, j \in P : i < j => Rank(P, i) < Rank(P, j)
         /\ \A k \in 1..Cardinality(P) : \E i \in P : Rank(P, i) = k
<1> DEFINE c == Cardinality(P)
           upTo(i) == {h \in P : h <= i}
<1>1. \A m \in Nat : IsFiniteSet(1..m) /\ Cardinality(1..m) = m
  <2> SUFFICES ASSUME NEW m \in Nat
               PROVE  IsFiniteSet(1..m) /\ Cardinality(1..m) = m
    OBVIOUS
  <2>1. /\ IsFiniteSet(1..m)
        /\ Cardinality(1..m) = IF 1 > m THEN 0 ELSE m - 1 + 1
    BY FS_Interval
  <2> QED
    BY <2>1
<1>2. IsFiniteSet(P) /\ c \in Nat /\ c <= n
  <2>1. IsFiniteSet(1..n) /\ Cardinality(1..n) = n /\ P \subseteq 1..n
    BY <1>1
  <2>2. IsFiniteSet(P) /\ c <= Cardinality(1..n)
    BY <2>1, FS_Subset
  <2> QED
    BY <2>1, <2>2, FS_CardinalityType
<1>0. \A i \in P : i \in Nat /\ i >= 1
  <2>1. \A i \in 1..n : i \in Nat /\ i >= 1
    OBVIOUS
  <2> QED
    BY <2>1
<1>3. ASSUME NEW i \in P
      PROVE  /\ IsFiniteSet(upTo(i)) /\ Rank(P, i) = Cardinality(upTo(i))
             /\ Rank(P, i) \in 1..c /\ Rank(P, i) <= i
  <2>1. i \in Nat /\ upTo(i) \subseteq P /\ upTo(i) \subseteq 1..i /\ i \in upTo(i)
    <3>1. i \in Nat /\ i <= i
      BY <1>0
    <3>2. \A h \in upTo(i) : h \in 1..i
      BY <1>0, <3>1
    <3> QED
      BY <3>1, <3>2
  <2>2. IsFiniteSet(upTo(i)) /\ Cardinality(upTo(i)) <= c
    BY <1>2, <2>1, FS_Subset
  <2>3. Cardinality(upTo(i)) <= i
    BY <1>1, <2>1, FS_Subset
  <2>4. Cardinality(upTo(i)) \in Nat /\ Cardinality(upTo(i)) # 0
    BY <2>1, <2>2, FS_CardinalityType, FS_EmptySet
  <2>5. Rank(P, i) = Cardinality(upTo(i))
    BY DEF Rank
  <2> HIDE DEF upTo, c
  <2> QED
    BY <1>2, <2>2, <2>3, <2>4, <2>5
<1>4. ASSUME NEW i \in P, NEW j \in P, i < j
      PROVE  Rank(P, i) < Rank(P, j)
  <2>1. upTo(i) \subseteq upTo(j) /\ j \in upTo(j) /\ j \notin upTo(i)
    <3>1. /\ i \in Nat /\ j \in Nat /\ j <= j /\ ~ (j <= i)
          /\ \A h \in P : h <= i => h <= j
      BY <1>0, <1>4
    <3> QED
      BY <3>1
  <2>2. Cardinality(upTo(i)) < Cardinality(upTo(j))
    BY <1>3, <2>1, FS_Subset
  <2> QED
    BY <1>3, <2>2
<1> DEFINE f == [i \in P |-> Rank(P, i)]
<1>5. f \in Injection(P, 1..c)
  <2>1. f \in [P -> 1..c]
    BY <1>3
  <2>2. ASSUME NEW i \in P, NEW j \in P, f[i] = f[j]
        PROVE  i = j
    <3>1. i \in Int /\ j \in Int /\ Rank(P, i) = Rank(P, j)
      BY <1>0, <2>2
    <3>2. Rank(P, i) \in Int
      <4>1. Rank(P, i) \in 1..c
        BY <1>3
      <4> HIDE DEF c
      <4> QED
        BY <1>2, <4>1
    <3>3. ~ (i < j) /\ ~ (j < i)
      BY <1>4, <3>1, <3>2
    <3> QED
      BY <3>1, <3>3
  <2> QED
    BY <2>1, <2>2 DEF Injection, IsInjective
<1>6. f \in Surjection(P, 1..c)
  <2>1. IsFiniteSet(1..c) /\ Cardinality(1..c) = c
    BY <1>1, <1>2
  <2> HIDE DEF f
  <2> QED
    BY <1>2, <1>5, <2>1, FS_Injection
<1>7. \A k \in 1..c : \E i \in P : Rank(P, i) = k
  BY <1>6 DEF Surjection
<1> QED
  BY <1>2, <1>3, <1>4, <1>7

\* u has the entries of s but those of id, in their order, each no later than it was.
Thinned(u, s, id) ==
  \E f \in [1..Len(u) -> 1..Len(s)] :
    /\ \A k \in 1..Len(u) : u[k] = s[f[k]] /\ k <= f[k]
    /\ \A k, l \in 1..Len(u) : k < l => f[k] < f[l]
    /\ \A i \in 1..Len(s) : s[i] # id => \E k \in 1..Len(u) : f[k] = i

LEMMA KeptPositions ==
  ASSUME NEW S, NEW s \in Seq(S), NEW id
  PROVE  /\ Kept(s, id) \in Seq(S \ {id})
         /\ Len(Kept(s, id)) \in Nat /\ Len(Kept(s, id)) <= Len(s)
         /\ Thinned(Kept(s, id), s, id)
<1> DEFINE n == Len(s)
           P == {i \in DOMAIN s : s[i] # id}
           c == Cardinality(P)
           at(k) == CHOOSE i \in P : Rank(P, i) = k
           f == [k \in 1..c |-> at(k)]
<1>1. n \in Nat /\ DOMAIN s = 1..n /\ P \subseteq 1..n
  BY LenProperties
<1>0. \A i \in P : i \in Int
  <2>1. \A i \in 1..n : i \in Int
    BY <1>1
  <2> QED
    BY <1>1, <2>1
<1>2. \A i \in P : s[i] \in S \ {id}
  BY <1>1, ElementOfSeq
<1>3. Kept(s, id) = [k \in 1..c |-> s[at(k)]]
  BY DEF Kept
<1> HIDE DEF n, P
<1>4. /\ c \in Nat /\ c <= n
      /\ \A i \in P : Rank(P, i) \in 1..c /\ Rank(P, i) <= i
      /\ \A i, j \in P : i < j => Rank(P, i) < Rank(P, j)
      /\ \A k \in 1..c : \E i \in P : Rank(P, i) = k
  BY <1>1, RankCounts
<1>5. \A k \in 1..c : at(k) \in P /\ Rank(P, at(k)) = k
  BY <1>4
<1> HIDE DEF at, c
<1>6. /\ f \in [1..c -> P]
      /\ \A k \in 1..c : f[k] = at(k) /\ f[k] \in P /\ Rank(P, f[k]) = k
  BY <1>5
<1>7. Kept(s, id) = [k \in 1..c |-> s[f[k]]]
  BY <1>3
<1> HIDE DEF f
<1>8. /\ Kept(s, id) \in Seq(S \ {id}) /\ Len(Kept(s, id)) = c
      /\ \A k \in 1..c : Kept(s, id)[k] = s[f[k]]
  <2>1. Kept(s, id) \in [1..c -> S \ {id}]
    BY <1>2, <1>6, <1>7
  <2> QED
    BY <1>4, <1>7, <2>1
<1>9. ASSUME NEW k \in 1..c, NEW l \in 1..c, k < l
      PROVE  f[k] < f[l]
  <2>1. f[k] \in P /\ f[l] \in P /\ Rank(P, f[k]) = k /\ Rank(P, f[l]) = l
    BY <1>6
  <2>2. f[k] \in Int /\ f[l] \in Int /\ k \in Int /\ l \in Int
    BY <1>0, <1>4, <2>1
  <2>3. CASE f[k] = f[l]
    BY <1>9, <2>1, <2>2, <2>3
  <2>4. CASE f[l] < f[k]
    <3>1. Rank(P, f[l]) < Rank(P, f[k])
      BY <1>4, <2>1, <2>4
    <3> QED
      BY <1>9, <2>1, <2>2, <3>1
  <2> QED
    BY <2>2, <2>3, <2>4
<1>10. ASSUME NEW i \in 1..n, s[i] # id
       PROVE  \E k \in 1..c : f[k] = i
  <2>1. i \in P
    BY <1>1, <1>10 DEF P
  <2>2. Rank(P, i) \in 1..c
    BY <1>4, <2>1
  <2>3. f[Rank(P, i)] \in P /\ Rank(P, f[Rank(P, i)]) = Rank(P, i)
    BY <1>6, <2>2
  <2> DEFINE j == f[Rank(P, i)]
  <2>4. j \in Int /\ i \in Int /\ Rank(P, i) \in Int
    <3>1. j \in P
      BY <2>3
    <3> HIDE DEF j
    <3> QED
      BY <1>0, <1>4, <2>1, <2>2, <3>1
  <2>5. ~ (i < j) /\ ~ (j < i)
    BY <1>4, <2>1, <2>3, <2>4
  <2>6. j = i
    BY <2>4, <2>5
  <2> QED
    BY <2>2, <2>6
<1>11. \A k \in 1..c : f[k] \in 1..n /\ k <= f[k]
  BY <1>1, <1>4, <1>6
<1>12. f \in [1..c -> 1..n]
  BY <1>6, <1>11
<1>13. Thinned(Kept(s, id), s, id)
  <2>1. Len(Kept(s, id)) = c /\ Len(s) = n
    BY <1>8 DEF n
  <2> DEFINE m == Len(Kept(s, id))
  <2>2. f \in [1..m -> 1..Len(s)]
    BY <1>12, <2>1
  <2>3. \A k \in 1..m : Kept(s, id)[k] = s[f[k]] /\ k <= f[k]
    BY <1>8, <1>11, <2>1
  <2>4. \A k, l \in 1..m : k < l => f[k] < f[l]
    BY <1>9, <2>1
  <2>5. \A i \in 1..Len(s) : s[i] # id => \E k \in 1..m : f[k] = i
    BY <1>10, <2>1
  <2> QED
    BY <2>2, <2>3, <2>4, <2>5, Zenon DEF Thinned
<1> QED
  BY <1>4, <1>8, <1>13 DEF n


(***************************************************************************)
(* What waits in a stream, and what had its turn.                          *)
(***************************************************************************)
LEMMA StreamParts ==
  ASSUME NEW S, NEW r, IsRotation(r, S)
  PROVE  /\ r.order \in Seq(S) /\ Len(r.order) \in Nat /\ r.index \in Nat
         /\ Waiting(r) \in Nat /\ Len(r.order) = r.index + Waiting(r)
         /\ ToCome(r) \in Seq(S) /\ Len(ToCome(r)) = Waiting(r)
         /\ \A i \in 1..Waiting(r) : ToCome(r)[i] = r.order[r.index + i]
         /\ Played(r) \in Seq(S) /\ Len(Played(r)) = r.index
         /\ \A i \in 1..r.index : Played(r)[i] = r.order[i]
<1> DEFINE k == r.index
           n == Len(r.order)
<1>1. r.order \in Seq(S) /\ k \in Nat /\ n \in Nat /\ k <= n
  BY LenProperties DEF IsRotation
<1>2. Waiting(r) = n - k /\ Waiting(r) \in Nat
  BY <1>1 DEF Waiting
<1>3. \A i \in 1..n : r.order[i] \in S
  BY <1>1, ElementOfSeq
<1> HIDE DEF k, n
<1>4. /\ SubSeq(r.order, k + 1, n) \in Seq(S)
      /\ Len(SubSeq(r.order, k + 1, n)) = n - k
      /\ \A i \in 1..(n - k) : SubSeq(r.order, k + 1, n)[i] = r.order[k + i]
  <2>1. \A i \in (k + 1)..n : r.order[i] \in S
    BY <1>1, <1>3
  <2>2. /\ k + 1 \in Int /\ n \in Int
        /\ k + 1 <= n + 1
        /\ n - (k + 1) + 1 = n - k
        /\ \A i \in 1..(n - k) : k + 1 + i - 1 = k + i
    BY <1>1
  <2>3. /\ SubSeq(r.order, k + 1, n) \in Seq(S)
        /\ Len(SubSeq(r.order, k + 1, n)) = IF k + 1 <= n THEN n - (k + 1) + 1 ELSE 0
        /\ \A i \in 1..(n - (k + 1) + 1) :
             SubSeq(r.order, k + 1, n)[i] = r.order[k + 1 + i - 1]
    BY <1>1, <2>1, SubSeqProperties
  <2>4. (IF k + 1 <= n THEN n - (k + 1) + 1 ELSE 0) = n - k
    BY <1>1
  <2> QED
    BY <2>2, <2>3, <2>4
<1>5. /\ SubSeq(r.order, 1, k) \in Seq(S)
      /\ Len(SubSeq(r.order, 1, k)) = k
      /\ \A i \in 1..k : SubSeq(r.order, 1, k)[i] = r.order[i]
  <2>1. \A i \in 1..k : r.order[i] \in S
    BY <1>1, <1>3
  <2>2. /\ k - 1 + 1 = k /\ \A i \in 1..k : 1 + i - 1 = i
        /\ (IF 1 <= k THEN k - 1 + 1 ELSE 0) = k
    BY <1>1
  <2>3. /\ SubSeq(r.order, 1, k) \in Seq(S)
        /\ Len(SubSeq(r.order, 1, k)) = IF 1 <= k THEN k - 1 + 1 ELSE 0
        /\ \A i \in 1..(k - 1 + 1) : SubSeq(r.order, 1, k)[i] = r.order[1 + i - 1]
    BY <1>1, <2>1, SubSeqProperties
  <2> QED
    BY <2>2, <2>3
<1> QED
  BY <1>1, <1>2, <1>4, <1>5 DEF ToCome, Played, k, n

(***************************************************************************)
(* Taking a player out leaves the order of the others alone: who had a     *)
(* turn still had it, who waits still waits, at most earlier.              *)
(***************************************************************************)
LEMMA WithoutProperties ==
  ASSUME NEW S, NEW r, IsRotation(r, S), NEW id
  PROVE  LET w == Without(r, id)
         IN  /\ IsRotation(w, S \ {id})
             /\ w.index <= r.index /\ Waiting(w) <= Waiting(r)
             /\ Thinned(ToCome(w), ToCome(r), id)
<1> DEFINE w == Without(r, id)
           had == Kept(Played(r), id)
           have == Kept(ToCome(r), id)
           R == S \ {id}
<1>1. /\ ToCome(r) \in Seq(S) /\ Len(ToCome(r)) = Waiting(r) /\ Waiting(r) \in Nat
      /\ Played(r) \in Seq(S) /\ Len(Played(r)) = r.index /\ r.index \in Nat
  BY StreamParts
<1>2. had \in Seq(R) /\ Len(had) \in Nat /\ Len(had) <= r.index
  BY <1>1, KeptPositions
<1>3. have \in Seq(R) /\ Len(have) \in Nat /\ Len(have) <= Waiting(r)
  BY <1>1, KeptPositions
<1>4. Thinned(have, ToCome(r), id)
  BY <1>1, KeptPositions
<1>5. w = [order |-> had \o have, index |-> Len(had)]
  BY DEF Without
<1> HIDE DEF had, have, R, w
<1>6. /\ had \o have \in Seq(R) /\ Len(had \o have) = Len(had) + Len(have)
      /\ \A i \in 1..(Len(had) + Len(have)) :
           (had \o have)[i] = IF i <= Len(had) THEN had[i] ELSE have[i - Len(had)]
  BY <1>2, <1>3, ConcatProperties
<1>7. IsRotation(w, R) /\ Waiting(w) = Len(have) /\ w.index = Len(had)
  BY <1>2, <1>3, <1>5, <1>6 DEF IsRotation, Waiting
<1>8. \A k \in 1..Len(have) : ToCome(w)[k] = have[k]
  <2> SUFFICES ASSUME NEW k \in 1..Len(have)
               PROVE  ToCome(w)[k] = have[k]
    OBVIOUS
  <2>1. ToCome(w)[k] = w.order[w.index + k]
    BY <1>7, StreamParts
  <2>2. w.order = had \o have
    BY <1>5
  <2>3. /\ Len(had) + k \in 1..(Len(had) + Len(have))
        /\ ~ (Len(had) + k <= Len(had))
        /\ (Len(had) + k) - Len(had) = k
    BY <1>2, <1>3
  <2>4. (had \o have)[Len(had) + k] = have[(Len(had) + k) - Len(had)]
    BY <1>6, <2>3
  <2> QED
    BY <1>7, <2>1, <2>2, <2>3, <2>4
<1>9. ToCome(w) = have
  <2>1. ToCome(w) \in Seq(R) /\ Len(ToCome(w)) = Len(have)
    BY <1>7, StreamParts
  <2> QED
    BY <1>3, <1>8, <2>1, SeqEqual
<1> QED
  BY <1>2, <1>3, <1>4, <1>7, <1>9 DEF w, R

(***************************************************************************)
(* Different members of a group are as many as the group at most, and if   *)
(* they are as many, everybody is among them.                              *)
(***************************************************************************)
LEMMA DistinctIsShort ==
  ASSUME NEW S, IsFiniteSet(S), NEW m \in Nat, NEW u,
         \A i \in 1..m : u[i] \in S,
         \A i, j \in 1..m : i # j => u[i] # u[j]
  PROVE  /\ m <= Cardinality(S)
         /\ m = Cardinality(S) => \A p \in S : \E i \in 1..m : u[i] = p
<1> DEFINE f == [i \in 1..m |-> u[i]]
<1>1. f \in Injection(1..m, S)
  BY DEF Injection, IsInjective
<1>2. IsFiniteSet(1..m) /\ Cardinality(1..m) = m
  <2>1. /\ IsFiniteSet(1..m)
        /\ Cardinality(1..m) = IF 1 > m THEN 0 ELSE m - 1 + 1
    BY FS_Interval
  <2> QED
    BY <2>1
<1> HIDE DEF f
<1>3. m <= Cardinality(S) /\ (m = Cardinality(S) => f \in Surjection(1..m, S))
  BY <1>1, <1>2, FS_Injection
<1>4. f \in Surjection(1..m, S) => \A p \in S : \E i \in 1..m : u[i] = p
  BY DEF Surjection, f
<1> QED
  BY <1>3, <1>4

(***************************************************************************)
(* What a turn does to those who wait (Next, ensure).  With two or more    *)
(* waiting the first is on and the others stay.  The only one left is on,  *)
(* and a pass of the whole group waits then, which somebody else begins.   *)
(* With nobody waiting the first of such a pass is on, and the rest of it  *)
(* waits.                                                                  *)
(***************************************************************************)
Shuffled(c, ids) ==
  /\ c \in [1..Cardinality(ids) -> ids]
  /\ \A i, j \in 1..Cardinality(ids) : i # j => c[i] # c[j]

LEMMA TurnToCome ==
  ASSUME NEW S, NEW r, IsRotation(r, S),
         NEW ids \in SUBSET S, IsFiniteSet(ids), Cardinality(ids) >= 2,
         NEW turn \in Turns(r, ids)
  PROVE  LET q == turn.rotation
             n == Cardinality(ids)
             old == ToCome(r)
             new == ToCome(q)
         IN  /\ q.index <= OrderTrimThreshold + 1
             /\ \/ /\ Waiting(r) >= 2 /\ Waiting(q) = Waiting(r) - 1
                   /\ turn.player = old[1]
                   /\ \A i \in 1..Waiting(q) : new[i] = old[i + 1]
                \/ /\ Waiting(r) = 1 /\ Waiting(q) = n
                   /\ turn.player = old[1]
                   /\ \E c : Shuffled(c, ids) /\ c[1] # old[1]
                               /\ \A i \in 1..n : new[i] = c[i]
                \/ /\ Waiting(r) = 0 /\ Waiting(q) = n - 1
                   /\ \E c : /\ Shuffled(c, ids) /\ turn.player = c[1]
                             /\ r.order # <<>> => c[1] # Last(r.order)
                             /\ \A i \in 1..Waiting(q) : new[i] = c[i + 1]
<1> DEFINE n == Cardinality(ids)
<1>1. PICK t \in Ensured(r, ids) : turn = Advance(t)
  BY FS_CardinalityType DEF Turns
<1>2. IsRotation(t, S) /\ Waiting(t) >= 2
  BY EnsuredType
<1>3. PICK b : t = Trimmed(b) /\ IF Waiting(r) < 2 THEN b \in Refilled(r, ids) ELSE b = r
  BY <1>1 DEF Ensured
<1>4. n \in Nat /\ n >= 2 /\ Waiting(r) \in Nat /\ r.index \in Nat
      /\ Len(r.order) = r.index + Waiting(r) /\ r.order \in Seq(S)
  BY FS_CardinalityType, StreamParts
<1> HIDE DEF n
<1>5. /\ IsRotation(b, S)
      /\ Waiting(r) >= 2 => b = r
      /\ Waiting(r) < 2 =>
           \E c : /\ Shuffled(c, ids)
                  /\ r.order # <<>> => c[1] # Last(r.order)
                  /\ Waiting(b) = Waiting(r) + n /\ b.index = r.index
                  /\ \A i \in 1..Waiting(r) : b.order[b.index + i] = r.order[r.index + i]
                  /\ \A i \in 1..n : b.order[b.index + Waiting(r) + i] = c[i]
  <2>1. CASE Waiting(r) >= 2
    BY <1>3, <1>4, <2>1
  <2>2. CASE Waiting(r) < 2
    <3>1. PICK c \in Passes(r, ids) : b = [order |-> r.order \o c, index |-> r.index]
      BY <1>3, <2>2 DEF Refilled
    <3>2. /\ c \in Seq(S) /\ Len(c) = n /\ Shuffled(c, ids)
          /\ r.order # <<>> => c[1] # Last(r.order)
      <4>1. c \in Seq(S) /\ Len(c) = n
        BY PassType DEF n
      <4>2. Shuffled(c, ids)
        BY DEF Passes, SetToSeqs, Shuffled
      <4>3. r.order # <<>> => c[1] # Last(r.order)
        BY <1>4 DEF Passes, n
      <4> QED
        BY <4>1, <4>2, <4>3
    <3>3. /\ r.order \o c \in Seq(S) /\ Len(r.order \o c) = Len(r.order) + n
          /\ \A i \in 1..(Len(r.order) + n) :
               (r.order \o c)[i] = IF i <= Len(r.order) THEN r.order[i] ELSE c[i - Len(r.order)]
      BY <1>4, <3>2, ConcatProperties
    <3>4. b.order = r.order \o c /\ b.index = r.index
      BY <3>1
    <3>5. IsRotation(b, S) /\ Waiting(b) = Waiting(r) + n
      BY <1>4, <3>1, <3>3 DEF IsRotation, Waiting
    <3>6. \A i \in 1..Waiting(r) : b.order[b.index + i] = r.order[r.index + i]
      <4>1. \A i \in 1..Waiting(r) :
              r.index + i \in 1..(Len(r.order) + n) /\ r.index + i <= Len(r.order)
        BY <1>4
      <4> QED
        BY <3>3, <3>4, <4>1
    <3>7. \A i \in 1..n : b.order[b.index + Waiting(r) + i] = c[i]
      <4> SUFFICES ASSUME NEW i \in 1..n
                   PROVE  b.order[b.index + Waiting(r) + i] = c[i]
        OBVIOUS
      <4>1. i \in Nat /\ i >= 1 /\ i <= n
        BY <1>4
      <4>2. /\ r.index + Waiting(r) + i \in 1..(Len(r.order) + n)
            /\ ~ (r.index + Waiting(r) + i <= Len(r.order))
            /\ (r.index + Waiting(r) + i) - Len(r.order) = i
        <5>1. \A x, y \in Nat : /\ x + y + i \in 1..(x + y + n) /\ ~ (x + y + i <= x + y)
                                /\ (x + y + i) - (x + y) = i
          BY <1>4, <4>1
        <5> QED
          BY <1>4, <5>1
      <4> QED
        BY <3>3, <3>4, <4>2
    <3>8. ~ (Waiting(r) >= 2)
      BY <1>4, <2>2
    <3>9. \E d : /\ Shuffled(d, ids)
                 /\ r.order # <<>> => d[1] # Last(r.order)
                 /\ Waiting(b) = Waiting(r) + n /\ b.index = r.index
                 /\ \A i \in 1..Waiting(r) : b.order[b.index + i] = r.order[r.index + i]
                 /\ \A i \in 1..n : b.order[b.index + Waiting(r) + i] = d[i]
      BY <3>2, <3>4, <3>5, <3>6, <3>7
    <3> QED
      BY <3>5, <3>8, <3>9
  <2> QED
    BY <1>4, <2>1, <2>2
<1>6. /\ Waiting(t) = Waiting(b) /\ t.index <= OrderTrimThreshold /\ t.index \in Nat
      /\ \A i \in 1..Waiting(b) : t.order[t.index + i] = b.order[b.index + i]
  <2>1. Waiting(t) = Waiting(b) /\ t.index \in Nat /\ Waiting(b) \in Nat /\ b.index \in Nat
    BY <1>2, <1>3, <1>5, TrimmedType, StreamParts
  <2>2. CASE b.index > OrderTrimThreshold
    <3>1. t.order = ToCome(b) /\ t.index = 0
      BY <1>3, <2>2 DEF Trimmed, ToCome
    <3>2. \A i \in 1..Waiting(b) : ToCome(b)[i] = b.order[b.index + i] /\ 0 + i = i
      BY <1>5, <2>1, StreamParts
    <3> QED
      BY <2>1, <3>1, <3>2, TrimAssumption
  <2>3. CASE ~ (b.index > OrderTrimThreshold)
    BY <1>3, <2>1, <2>3, TrimAssumption DEF Trimmed
  <2> QED
    BY <2>2, <2>3
<1> DEFINE q == turn.rotation
<1>7. /\ q.order = t.order /\ q.index = t.index + 1 /\ turn.player = t.order[t.index + 1]
      /\ IsRotation(q, S) /\ Waiting(q) = Waiting(t) - 1
  <2>1. q = [t EXCEPT !.index = @ + 1] /\ turn.player = t.order[t.index + 1]
    BY <1>1 DEF Advance
  <2>2. /\ t \in [order : Seq(S), index : Nat] /\ t.index <= Len(t.order)
        /\ Len(t.order) \in Nat /\ t.index \in Nat
    BY <1>2, LenProperties DEF IsRotation
  <2>3. q.order = t.order /\ q.index = t.index + 1 /\ q \in [order : Seq(S), index : Nat]
    BY <2>1, <2>2
  <2> QED
    BY <1>2, <2>1, <2>2, <2>3 DEF IsRotation, Waiting
<1>8. /\ q.index <= OrderTrimThreshold + 1
      /\ Waiting(q) = Waiting(b) - 1 /\ Waiting(b) \in Nat /\ Waiting(b) >= 2
      /\ turn.player = b.order[b.index + 1]
      /\ \A i \in 1..Waiting(q) : ToCome(q)[i] = b.order[b.index + (i + 1)]
  <2>1. Waiting(b) \in Nat /\ Waiting(b) >= 2
    BY <1>2, <1>5, <1>6, StreamParts
  <2>2. turn.player = b.order[b.index + 1]
    BY <1>6, <1>7, <2>1
  <2>3. ASSUME NEW i \in 1..Waiting(q)
        PROVE  ToCome(q)[i] = b.order[b.index + (i + 1)]
    <3>1. ToCome(q)[i] = q.order[q.index + i]
      BY <1>7, StreamParts
    <3>2. i \in Nat /\ q.index + i = t.index + (i + 1) /\ i + 1 \in 1..Waiting(b)
      BY <1>6, <1>7, <2>1
    <3> QED
      BY <1>6, <1>7, <3>1, <3>2
  <2> QED
    BY <1>6, <1>7, <2>1, <2>2, <2>3, TrimAssumption
<1>9. \A i \in 1..Waiting(r) : ToCome(r)[i] = r.order[r.index + i]
  BY StreamParts
<1> HIDE DEF q
<1>10. CASE Waiting(r) >= 2
  <2>1. b = r
    BY <1>5, <1>10
  <2>2. /\ Waiting(q) = Waiting(r) - 1
        /\ turn.player = ToCome(r)[1]
    BY <1>4, <1>8, <1>9, <1>10, <2>1
  <2>3. \A i \in 1..Waiting(q) : ToCome(q)[i] = ToCome(r)[i + 1]
    <3>1. \A i \in 1..Waiting(q) : i + 1 \in 1..Waiting(r)
      BY <1>4, <2>2
    <3> QED
      BY <1>8, <1>9, <2>1, <3>1
  <2> QED
    BY <1>8, <1>10, <2>2, <2>3 DEF q
<1>11. CASE Waiting(r) < 2
  <2>1. PICK c : /\ Shuffled(c, ids)
                 /\ r.order # <<>> => c[1] # Last(r.order)
                 /\ Waiting(b) = Waiting(r) + n /\ b.index = r.index
                 /\ \A i \in 1..Waiting(r) : b.order[b.index + i] = r.order[r.index + i]
                 /\ \A i \in 1..n : b.order[b.index + Waiting(r) + i] = c[i]
    BY <1>5, <1>11
  <2>2. CASE Waiting(r) = 1
    <3>1. Waiting(q) = n /\ turn.player = ToCome(r)[1]
      BY <1>4, <1>8, <1>9, <2>1, <2>2
    <3>2. c[1] # ToCome(r)[1]
      <4>1. r.order # <<>> /\ Last(r.order) = r.order[r.index + 1]
        BY <1>4, <2>2 DEF Last
      <4>2. 1 \in 1..Waiting(r)
        BY <2>2
      <4>3. ToCome(r)[1] = r.order[r.index + 1]
        BY <1>9, <4>2
      <4>4. c[1] # Last(r.order)
        BY <2>1, <4>1
      <4> QED
        BY <4>1, <4>3, <4>4
    <3>3. \A i \in 1..n : ToCome(q)[i] = c[i]
      <4>1. \A i \in 1..n : b.index + Waiting(r) + i = b.index + (i + 1)
        <5>1. \A x \in Nat : \A i \in 1..n : x + 1 + i = x + (i + 1)
          BY <1>4
        <5> QED
          BY <1>4, <2>1, <2>2, <5>1
      <4> QED
        BY <1>8, <2>1, <3>1, <4>1
    <3>4. \E d : Shuffled(d, ids) /\ d[1] # ToCome(r)[1] /\ \A i \in 1..n : ToCome(q)[i] = d[i]
      BY <2>1, <3>2, <3>3
    <3> QED
      BY <1>8, <2>2, <3>1, <3>4 DEF q, n
  <2>3. CASE Waiting(r) = 0
    <3>1. Waiting(q) = n - 1 /\ turn.player = c[1]
      <4>1. 1 \in 1..n /\ b.index + Waiting(r) + 1 = b.index + 1
        BY <1>4, <2>1, <2>3
      <4> QED
        BY <1>4, <1>8, <2>1, <2>3, <4>1
    <3>2. \A i \in 1..Waiting(q) : ToCome(q)[i] = c[i + 1]
      <4>1. \A i \in 1..Waiting(q) :
              /\ i + 1 \in 1..n
              /\ b.index + Waiting(r) + (i + 1) = b.index + (i + 1)
        BY <1>4, <2>1, <2>3, <3>1
      <4> QED
        BY <1>8, <2>1, <4>1
    <3>3. \E d : /\ Shuffled(d, ids) /\ turn.player = d[1]
                 /\ r.order # <<>> => d[1] # Last(r.order)
                 /\ \A i \in 1..Waiting(q) : ToCome(q)[i] = d[i + 1]
      BY <2>1, <3>1, <3>2
    <3> QED
      BY <1>8, <2>3, <3>1, <3>3 DEF q, n
  <2> QED
    BY <1>4, <1>11, <2>2, <2>3
<1> QED
  BY <1>4, <1>10, <1>11

\* A shuffled pass has everybody of the group.
LEMMA ShuffledHasAll ==
  ASSUME NEW ids, IsFiniteSet(ids), NEW c, Shuffled(c, ids)
  PROVE  /\ \A i \in 1..Cardinality(ids) : c[i] \in ids
         /\ \A p \in ids : \E i \in 1..Cardinality(ids) : c[i] = p
<1>1. Cardinality(ids) \in Nat
  BY FS_CardinalityType
<1>2. \A i \in 1..Cardinality(ids) : c[i] \in ids
  BY DEF Shuffled
<1> QED
  BY <1>1, <1>2, DistinctIsShort DEF Shuffled

NobodyWaitsTwice(r) ==
  \A i, j \in 1..Waiting(r) : i # j => ToCome(r)[i] # ToCome(r)[j]

(***************************************************************************)
(* If nobody waits twice, this is so after a turn, and the next one will   *)
(* be somebody else's: also where two passes meet, for the swap in ensure. *)
(***************************************************************************)
LEMMA TurnIsNotRepeated ==
  ASSUME NEW S, NEW r, IsRotation(r, S), NobodyWaitsTwice(r),
         NEW ids \in SUBSET S, IsFiniteSet(ids), Cardinality(ids) >= 2,
         NEW turn \in Turns(r, ids)
  PROVE  /\ NobodyWaitsTwice(turn.rotation)
         /\ Waiting(turn.rotation) >= 1
         /\ ToCome(turn.rotation)[1] # turn.player
<1> DEFINE q   == turn.rotation
           n   == Cardinality(ids)
           old == ToCome(r)
           new == ToCome(q)
           W   == Waiting(r)
           V   == Waiting(q)
<1>1. W \in Nat /\ n \in Nat /\ n >= 2
  BY StreamParts, FS_CardinalityType
<1>2. \A i, j \in 1..W : i # j => old[i] # old[j]
  BY DEF NobodyWaitsTwice
<1>3. \/ /\ W >= 2 /\ V = W - 1
         /\ turn.player = old[1]
         /\ \A i \in 1..V : new[i] = old[i + 1]
      \/ /\ W = 1 /\ V = n
         /\ turn.player = old[1]
         /\ \E c : Shuffled(c, ids) /\ c[1] # old[1]
                     /\ \A i \in 1..n : new[i] = c[i]
      \/ /\ W = 0 /\ V = n - 1
         /\ \E c : /\ Shuffled(c, ids) /\ turn.player = c[1]
                   /\ \A i \in 1..V : new[i] = c[i + 1]
  BY TurnToCome
<1> SUFFICES /\ \A i, j \in 1..V : i # j => new[i] # new[j]
             /\ V >= 1 /\ new[1] # turn.player
  BY DEF NobodyWaitsTwice
<1> HIDE DEF q, n, old, new, W, V
<1>4. CASE /\ W >= 2 /\ V = W - 1 /\ turn.player = old[1]
           /\ \A i \in 1..V : new[i] = old[i + 1]
  <2>1. 1 \in 1..V /\ 1 \in 1..W
    BY <1>1, <1>4
  <2>2. \A i, j \in 1..V : i + 1 \in 1..W /\ i + 1 # 1 /\ (i # j => i + 1 # j + 1)
    BY <1>1, <1>4
  <2>3. \A i, j \in 1..V : i # j => new[i] # new[j]
    BY <1>2, <1>4, <2>2
  <2>4. new[1] # turn.player
    BY <1>2, <1>4, <2>1, <2>2
  <2> QED
    BY <1>1, <1>4, <2>3, <2>4
<1>5. ASSUME NEW c, V = n, turn.player = old[1], Shuffled(c, ids), c[1] # old[1],
             \A i \in 1..n : new[i] = c[i]
      PROVE  /\ \A i, j \in 1..V : i # j => new[i] # new[j]
             /\ V >= 1 /\ new[1] # turn.player
  <2>1. 1 \in 1..n
    BY <1>1
  <2>2. \A i, j \in 1..n : i # j => c[i] # c[j]
    BY <1>5 DEF Shuffled, n
  <2> QED
    BY <1>1, <1>5, <2>1, <2>2
<1>6. ASSUME NEW c, V = n - 1, Shuffled(c, ids), turn.player = c[1],
             \A i \in 1..V : new[i] = c[i + 1]
      PROVE  /\ \A i, j \in 1..V : i # j => new[i] # new[j]
             /\ V >= 1 /\ new[1] # turn.player
  <2>1. 1 \in 1..V /\ 1 \in 1..n
    BY <1>1, <1>6
  <2>2. \A i, j \in 1..V : i + 1 \in 1..n /\ i + 1 # 1 /\ (i # j => i + 1 # j + 1)
    BY <1>1, <1>6
  <2>3. \A i, j \in 1..n : i # j => c[i] # c[j]
    BY <1>6 DEF Shuffled, n
  <2>4. \A i, j \in 1..V : i # j => new[i] # new[j]
    BY <1>6, <2>2, <2>3
  <2>5. new[1] # turn.player
    BY <1>6, <2>1, <2>2, <2>3
  <2> QED
    BY <1>1, <1>6, <2>4, <2>5
<1> QED
  BY <1>3, <1>4, <1>5, <1>6

-----------------------------------------------------------------------------
(***************************************************************************)
(* The deck of scales                                                      *)
(***************************************************************************)
\* The last n elements: at most n, taken from the end, in the same order.
LEMMA LastNProperties ==
  ASSUME NEW T, NEW s \in Seq(T), NEW n \in Nat
  PROVE  /\ LastN(s, n) \in Seq(T)
         /\ Len(LastN(s, n)) <= n
         /\ Len(LastN(s, n)) <= Len(s)
         /\ Len(s) <= n => LastN(s, n) = s
         /\ Len(s) > n => Len(LastN(s, n)) = n
         /\ \A i \in 1..Len(LastN(s, n)) : LastN(s, n)[i] = s[i + Len(s) - Len(LastN(s, n))]
<1>1. Len(s) \in Nat
  BY LenProperties
<1>2. CASE Len(s) <= n
  <2>1. LastN(s, n) = s
    BY <1>1, <1>2 DEF LastN
  <2> QED
    BY <1>1, <1>2, <2>1
<1>3. CASE Len(s) > n
  <2>1. LastN(s, n) = SubSeq(s, Len(s) - n + 1, Len(s))
    BY <1>3 DEF LastN
  <2>2. /\ SubSeq(s, Len(s) - n + 1, Len(s)) \in Seq(T)
        /\ Len(SubSeq(s, Len(s) - n + 1, Len(s))) = n
        /\ \A i \in 1..n : SubSeq(s, Len(s) - n + 1, Len(s))[i] = s[Len(s) - n + 1 + i - 1]
    BY <1>1, <1>3, SubSeqProperties
  <2> QED
    BY <1>1, <1>3, <2>1, <2>2
<1> QED
  BY <1>1, <1>2, <1>3

\* Both axes are taken from the deck.
LEMMA DrawsFromType ==
  ASSUME NEW deck, NEW recent, NEW also, NEW axes \in DrawsFrom(deck, recent, also)
  PROVE  axes \in [x : deck, y : deck]
<1>1. Pool(deck, recent, also) \subseteq deck
  BY DEF Pool
<1>2. \A first : Partners(Pool(deck, recent, also), first) \subseteq deck
  BY <1>1 DEF Partners
<1> QED
  BY <1>1, <1>2 DEF DrawsFrom

LEMMA DrawsType ==
  ASSUME NEW recent, NEW also, NEW axes \in Draws(recent, also)
  PROVE  axes \in [x : Pairs, y : Pairs]
BY DrawsFromType DEF Draws

LEMMA RememberIn ==
  ASSUME NEW T, NEW recent \in Seq(T), NEW axes \in [x : T, y : T]
  PROVE  Remember(recent, axes) \in Seq(T) /\ Len(Remember(recent, axes)) <= RecentMemory
<1>1. <<axes.x, axes.y>> \in Seq(T)
  OBVIOUS
<1>2. recent \o <<axes.x, axes.y>> \in Seq(T)
  BY <1>1, ConcatProperties
<1>3. RecentMemory \in Nat
  BY DeckAssumption
<1> DEFINE all == recent \o <<axes.x, axes.y>>
<1>4. all \in Seq(T)
  BY <1>2
<1> HIDE DEF all
<1>5. LastN(all, RecentMemory) \in Seq(T) /\ Len(LastN(all, RecentMemory)) <= RecentMemory
  BY <1>3, <1>4, LastNProperties
<1> QED
  BY <1>5 DEF Remember, all

LEMMA RememberType ==
  ASSUME NEW recent \in Seq(Pairs), NEW axes \in [x : Pairs, y : Pairs]
  PROVE  Remember(recent, axes) \in Seq(Pairs) /\ Len(Remember(recent, axes)) <= RecentMemory
BY RememberIn

\* Counted from the end, nothing moves when the oldest entries fall out.
LEMMA RememberFromTheEnd ==
  ASSUME NEW T, NEW recent \in Seq(T), NEW axes \in [x : T, y : T]
  PROVE  LET kept == Remember(recent, axes)
         IN  /\ Len(recent) + 2 <= RecentMemory => Len(kept) = Len(recent) + 2
             /\ Len(recent) + 2 > RecentMemory => Len(kept) = RecentMemory
             /\ Len(kept) >= 1 => kept[Len(kept)] = axes.y
             /\ Len(kept) >= 2 => kept[Len(kept) - 1] = axes.x
             /\ \A j \in Nat : j >= 2 /\ j < Len(kept) =>
                  kept[Len(kept) - j] = recent[Len(recent) - (j - 2)]
<1> DEFINE all == recent \o <<axes.x, axes.y>>
           kept == Remember(recent, axes)
           n == Len(recent)
           k == Len(kept)
<1>1. n \in Nat /\ RecentMemory \in Nat
  BY LenProperties, DeckAssumption
<1>2. <<axes.x, axes.y>> \in Seq(T) /\ Len(<<axes.x, axes.y>>) = 2
  OBVIOUS
<1>3. all \in Seq(T) /\ Len(all) = n + 2
  BY <1>2, ConcatProperties
<1>4. /\ all[n + 1] = axes.x /\ all[n + 2] = axes.y
      /\ \A i \in 1..n : all[i] = recent[i]
  <2>1. \A i \in 1..(n + 2) : all[i] = IF i <= n THEN recent[i] ELSE <<axes.x, axes.y>>[i - n]
    BY <1>2, ConcatProperties
  <2>2. /\ n + 1 \in 1..(n + 2) /\ n + 2 \in 1..(n + 2)
        /\ ~ (n + 1 <= n) /\ ~ (n + 2 <= n)
        /\ (n + 1) - n = 1 /\ (n + 2) - n = 2
    BY <1>1
  <2>3. \A i \in 1..n : i \in 1..(n + 2) /\ i <= n
    BY <1>1
  <2> HIDE DEF all, n
  <2> QED
    BY <2>1, <2>2, <2>3
<1>5. kept = LastN(all, RecentMemory)
  BY DEF Remember
<1> HIDE DEF all, kept
<1>6. /\ kept \in Seq(T)
      /\ k <= RecentMemory /\ k <= Len(all)
      /\ Len(all) <= RecentMemory => kept = all
      /\ Len(all) > RecentMemory => k = RecentMemory
      /\ \A i \in 1..k : kept[i] = all[i + Len(all) - k]
  BY <1>1, <1>3, <1>5, LastNProperties
<1>7. k \in Nat
  BY <1>6, LenProperties
<1> HIDE DEF k, n
<1>8. \A j \in Nat : j < k => kept[k - j] = all[n + 2 - j]
  <2> SUFFICES ASSUME NEW j \in Nat, j < k
               PROVE  kept[k - j] = all[n + 2 - j]
    OBVIOUS
  <2>1. k - j \in 1..k /\ (k - j) + (n + 2) - k = n + 2 - j
    BY <1>1, <1>7
  <2> QED
    BY <1>3, <1>6, <2>1
<1>9. /\ n + 2 <= RecentMemory => k = n + 2
      /\ n + 2 > RecentMemory => k = RecentMemory
  BY <1>3, <1>6 DEF k
<1>10. /\ k >= 1 => kept[k] = axes.y
       /\ k >= 2 => kept[k - 1] = axes.x
  <2>1. /\ k - 0 = k /\ n + 2 - 0 = n + 2 /\ n + 2 - 1 = n + 1
        /\ k >= 1 => 0 < k
        /\ k >= 2 => 1 < k
    BY <1>1, <1>7
  <2>2. k >= 1 => kept[k - 0] = all[n + 2 - 0]
    BY <1>8, <2>1
  <2>3. k >= 2 => kept[k - 1] = all[n + 2 - 1]
    BY <1>8, <2>1
  <2> QED
    BY <1>4, <2>1, <2>2, <2>3
<1>11. ASSUME NEW j \in Nat, j >= 2, j < k
       PROVE  kept[k - j] = recent[n - (j - 2)]
  <2>1. n + 2 - j \in 1..n /\ n + 2 - j = n - (j - 2)
    BY <1>1, <1>3, <1>6, <1>7, <1>11 DEF k
  <2> QED
    BY <1>4, <1>8, <1>11, <2>1
<1> QED
  BY <1>9, <1>10, <1>11 DEF k, n, kept

-----------------------------------------------------------------------------
(***************************************************************************)
(* What is blocked.                                                        *)
(***************************************************************************)
LEMMA UnionIsSmall ==
  ASSUME NEW A, IsFiniteSet(A), NEW B, IsFiniteSet(B)
  PROVE  IsFiniteSet(A \cup B) /\ Cardinality(A \cup B) <= Cardinality(A) + Cardinality(B)
<1>1. /\ IsFiniteSet(A \cup B)
      /\ Cardinality(A \cup B) = Cardinality(A) + Cardinality(B) - Cardinality(A \cap B)
  BY FS_Union
<1>2. IsFiniteSet(A \cap B)
  BY FS_Intersection
<1>3. Cardinality(A) \in Nat /\ Cardinality(B) \in Nat /\ Cardinality(A \cap B) \in Nat
  BY <1>2, FS_CardinalityType
<1> QED
  BY <1>1, <1>3

\* A memory blocks at most as many pairs as it has entries.
LEMMA MemoryIsSmall ==
  ASSUME NEW T, NEW recent \in Seq(T), NEW also, IsFiniteSet(also), Cardinality(also) <= 2
  PROVE  /\ IsFiniteSet(ToSet(recent) \cup also)
         /\ Cardinality(ToSet(recent) \cup also) <= Len(recent) + 2
<1>1. Len(recent) \in Nat /\ DOMAIN recent = 1..Len(recent)
  BY LenProperties
<1>2. IsFiniteSet(1..Len(recent)) /\ Cardinality(1..Len(recent)) = Len(recent)
  <2>1. /\ IsFiniteSet(1..Len(recent))
        /\ Cardinality(1..Len(recent)) = IF 1 > Len(recent) THEN 0 ELSE Len(recent) - 1 + 1
    BY <1>1, FS_Interval
  <2> QED
    BY <1>1, <2>1
<1>3. ToSet(recent) = {recent[i] : i \in 1..Len(recent)}
  BY <1>1 DEF ToSet
<1> DEFINE f == [i \in 1..Len(recent) |-> recent[i]]
<1>4. f \in Surjection(1..Len(recent), ToSet(recent))
  BY <1>3 DEF Surjection
<1> HIDE DEF f
<1>5. IsFiniteSet(ToSet(recent)) /\ Cardinality(ToSet(recent)) <= Len(recent)
  BY <1>2, <1>4, FS_Surjection
<1>6. Cardinality(ToSet(recent)) \in Nat /\ Cardinality(also) \in Nat
  BY <1>5, FS_CardinalityType
<1>7. /\ IsFiniteSet(ToSet(recent) \cup also)
      /\ Cardinality(ToSet(recent) \cup also) <= Cardinality(ToSet(recent)) + Cardinality(also)
  BY <1>5, UnionIsSmall
<1>8. Cardinality(ToSet(recent) \cup also) \in Nat
  BY <1>7, FS_CardinalityType
<1> QED
  BY <1>1, <1>5, <1>6, <1>7, <1>8

LEMMA FreeIsLarge ==
  ASSUME NEW deck, IsFiniteSet(deck), NEW blocked, IsFiniteSet(blocked)
  PROVE  /\ IsFiniteSet(deck \ blocked)
         /\ Cardinality(deck \ blocked) >= Cardinality(deck) - Cardinality(blocked)
<1>1. /\ IsFiniteSet(deck \ blocked)
      /\ Cardinality(deck \ blocked) = Cardinality(deck) - Cardinality(deck \cap blocked)
  BY FS_Difference
<1>2. Cardinality(deck \cap blocked) <= Cardinality(blocked)
  BY FS_Subset
<1>3. IsFiniteSet(deck \cap blocked)
  BY FS_Subset
<1> QED
  BY <1>1, <1>2, <1>3, FS_CardinalityType

(***************************************************************************)
(* The two axes of a draw are different pairs, whatever is blocked.        *)
(***************************************************************************)
LEMMA DrawsDiffer ==
  ASSUME NEW deck, NEW recent, NEW also, NEW axes \in DrawsFrom(deck, recent, also)
  PROVE  axes.x # axes.y
<1> DEFINE pool == Pool(deck, recent, also)
<1>1. PICK first \in pool : \E second \in Partners(pool, first) : axes = [x |-> first, y |-> second]
  BY DEF DrawsFrom
<1>2. PICK second \in Partners(pool, first) : axes = [x |-> first, y |-> second]
  BY <1>1
<1>3. second # first
  BY <1>2 DEF Partners, SharesWord
<1> QED
  BY <1>2, <1>3

(***************************************************************************)
(* A deck with four pairs more than the memory always has two that are     *)
(* neither remembered nor on the board, and both axes are such.            *)
(***************************************************************************)
LEMMA DrawsFresh ==
  ASSUME NEW deck, IsFiniteSet(deck), NEW recent \in Seq(deck), Len(recent) <= RecentMemory,
         NEW also, IsFiniteSet(also), Cardinality(also) <= 2,
         Cardinality(deck) >= RecentMemory + 4,
         NEW axes \in DrawsFrom(deck, recent, also)
  PROVE  {axes.x, axes.y} \cap (ToSet(recent) \cup also) = {}
<1> DEFINE blocked == ToSet(recent) \cup also
           free    == deck \ blocked
<1>1. Len(recent) \in Nat /\ RecentMemory \in Nat /\ Cardinality(deck) \in Nat
  BY LenProperties, DeckAssumption, FS_CardinalityType
<1>2. IsFiniteSet(blocked) /\ Cardinality(blocked) <= Len(recent) + 2
  BY MemoryIsSmall
<1>3. Cardinality(free) >= Cardinality(deck) - Cardinality(blocked) /\ IsFiniteSet(free)
  BY <1>2, FreeIsLarge
<1>4. Cardinality(blocked) \in Nat /\ Cardinality(free) \in Nat
  BY <1>2, <1>3, FS_CardinalityType
<1>5. ~ (Cardinality(free) < 2)
  BY <1>1, <1>2, <1>3, <1>4
<1>6. Pool(deck, recent, also) = free
  BY <1>5 DEF Pool
<1>7. axes.x \in free /\ axes.y \in free
  BY <1>6 DEF DrawsFrom, Partners
<1> QED
  BY <1>7

(***************************************************************************)
(* When each pair has an unrelated one left, whatever may be blocked, the  *)
(* axes are unrelated, also when the draw falls back to the whole deck.    *)
(***************************************************************************)
LEMMA DrawsUnrelated ==
  ASSUME NEW deck, IsFiniteSet(deck), NEW recent \in Seq(deck), Len(recent) <= RecentMemory,
         NEW also, IsFiniteSet(also), Cardinality(also) <= 2,
         \A p \in deck :
           Cardinality({q \in deck : SharesWord(p, q)}) + RecentMemory + 2 < Cardinality(deck),
         NEW axes \in DrawsFrom(deck, recent, also)
  PROVE  ~ SharesWord(axes.x, axes.y)
<1> DEFINE blocked == ToSet(recent) \cup also
           pool    == Pool(deck, recent, also)
<1>1. PICK first \in pool : axes.x = first /\ axes.y \in Partners(pool, first)
  BY DEF DrawsFrom
<1>2. first \in deck
  BY <1>1 DEF Pool
<1> DEFINE related == {q \in deck : SharesWord(first, q)}
<1>3. IsFiniteSet(related) /\ Cardinality(related) + RecentMemory + 2 < Cardinality(deck)
  BY <1>2, FS_Subset
<1>4. IsFiniteSet(blocked) /\ Cardinality(blocked) <= Len(recent) + 2
  BY MemoryIsSmall
<1>5. IsFiniteSet(blocked \cup related)
      /\ Cardinality(blocked \cup related) <= Cardinality(blocked) + Cardinality(related)
  BY <1>3, <1>4, UnionIsSmall
<1>6. /\ Len(recent) \in Nat /\ RecentMemory \in Nat /\ Cardinality(deck) \in Nat
      /\ Cardinality(blocked) \in Nat /\ Cardinality(related) \in Nat
      /\ Cardinality(blocked \cup related) \in Nat
  BY <1>3, <1>4, <1>5, LenProperties, DeckAssumption, FS_CardinalityType
<1>7. /\ IsFiniteSet(deck \ (blocked \cup related))
      /\ Cardinality(deck \ (blocked \cup related))
           >= Cardinality(deck) - Cardinality(blocked \cup related)
  BY <1>5, FreeIsLarge
<1>8. Cardinality(deck \ (blocked \cup related)) > 0
  BY <1>3, <1>4, <1>5, <1>6, <1>7, FS_CardinalityType
<1>9. deck \ (blocked \cup related) # {}
  <2>1. Cardinality({}) = 0 /\ ~ (0 > 0)
    BY FS_EmptySet
  <2> QED
    BY <1>8, <2>1
<1>10. PICK other \in deck : other \notin blocked /\ ~ SharesWord(first, other)
  BY <1>9
<1>11. other \in pool
  BY <1>10 DEF Pool
<1>12. \A a, b : SharesWord(a, b) <=> SharesWord(b, a)
  <2> SUFFICES ASSUME NEW a, NEW b
               PROVE  SharesWord(a, b) <=> SharesWord(b, a)
    OBVIOUS
  <2>1. {a, b} = {b, a}
    OBVIOUS
  <2> QED
    BY <2>1 DEF SharesWord
<1>13. ~ SharesWord(axes.y, first)
  BY <1>1, <1>10, <1>11, <1>12 DEF Partners
<1> QED
  BY <1>1, <1>12, <1>13
=============================================================================
