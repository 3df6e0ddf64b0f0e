-------------------------- MODULE AlgorithmsProofs --------------------------
(***************************************************************************)
(* Theorems about the algorithms without state of their own: what TLC      *)
(* checks over the inputs of MCAlgorithms, for every input and every value *)
(* of the constants.  The algorithms loop over their data; a loop is a     *)
(* recursive function here, and what it computes is shown by induction.    *)
(***************************************************************************)
EXTENDS MCAlgorithms, FiniteSetTheorems, SequenceTheorems, WellFoundedInduction, TLAPS

---------------------------------------------------------------------------
(* Induction.                                                              *)

LEMMA NatSetInduction ==
  ASSUME NEW S, 0 \in S, \A n \in Nat : n \in S => n + 1 \in S
  PROVE  Nat \subseteq S
<1> DEFINE T == Nat \ S
           R == OpToRel(<, Nat)
<1>1. SUFFICES ASSUME T # {} PROVE FALSE
  OBVIOUS
<1>2. PICK x \in T : \A y \in T : <<y, x>> \notin R
  <2>1. T \subseteq Nat
    OBVIOUS
  <2> HIDE DEF T, R
  <2>2. IsWellFoundedOn(R, Nat)
    BY NatLessThanWellFounded DEF R
  <2> QED
    BY <1>1, <2>1, <2>2, WFMin
<1>3. x \in Nat /\ x # 0
  OBVIOUS
<1>4. x - 1 \in Nat /\ x - 1 < x /\ (x - 1) + 1 = x
  BY <1>3
<1>5. <<x - 1, x>> \in R
  BY <1>3, <1>4 DEF OpToRel
<1>6. x - 1 \in S
  BY <1>2, <1>4, <1>5
<1> QED
  BY <1>4, <1>6

\* size >> i, level by level.
LEMMA ShiftedDef ==
  ASSUME NEW n \in Nat
  PROVE  /\ Shifted(n)[0] = n
         /\ \A i \in 0 .. Depth - 1 : Shifted(n)[i + 1] = Shifted(n)[i] \div 2
<1> DEFINE Step(a, i) == a \div 2
           Body(g, m) == [i \in 0 .. m |-> IF i = 0 THEN n ELSE Step(g[i - 1], i - 1)]
           D == {m \in Nat : \E g : g = Body(g, m)}
<1>1. Shifted(n) = CHOOSE g : g = Body(g, Depth)
  BY DEF Shifted
<1> HIDE DEF Step
<1>2. 0 \in D
  <2>1. [i \in 0 .. 0 |-> n] = Body([i \in 0 .. 0 |-> n], 0)
    OBVIOUS
  <2> QED
    BY <2>1
<1>3. ASSUME NEW m \in Nat, m \in D PROVE m + 1 \in D
  <2>1. PICK g : g = Body(g, m)
    BY <1>3
  <2> DEFINE f == [i \in 0 .. m + 1 |-> IF i = m + 1 THEN Step(g[m], m) ELSE g[i]]
  <2>2. f = Body(f, m + 1)
    BY <2>1
  <2> HIDE DEF Body, f
  <2> QED
    BY <2>2
<1>4. \E g : g = Body(g, Depth)
  <2>1. Depth \in D
    <3> HIDE DEF D
    <3> QED
      BY <1>2, <1>3, NatSetInduction, DepthAssumption
  <2> QED
    BY <2>1
<1>5. Shifted(n) = Body(Shifted(n), Depth)
  <2> HIDE DEF Body
  <2> QED
    BY <1>1, <1>4
<1>6. Shifted(n)[0] = n
  BY <1>5, DepthAssumption
<1>7. ASSUME NEW i \in 0 .. Depth - 1 PROVE Shifted(n)[i + 1] = Step(Shifted(n)[i], i)
  <2>1. i + 1 \in 0 .. Depth /\ i + 1 # 0 /\ (i + 1) - 1 = i
    BY DepthAssumption
  <2> QED
    BY <1>5, <2>1
<1> QED
  BY <1>6, <1>7 DEF Step

LEMMA EmptyRootDef ==
   /\ EmptyRoot[0] = EmptyLeaf
         /\ \A i \in 0 .. Depth - 1 : EmptyRoot[i + 1] = HashPair(EmptyRoot[i], EmptyRoot[i])
<1> DEFINE Step(a, i) == HashPair(a, a)
           Body(g, m) == [i \in 0 .. m |-> IF i = 0 THEN EmptyLeaf ELSE Step(g[i - 1], i - 1)]
           D == {m \in Nat : \E g : g = Body(g, m)}
<1>1. EmptyRoot = CHOOSE g : g = Body(g, Depth)
  BY DEF EmptyRoot
<1> HIDE DEF Step
<1>2. 0 \in D
  <2>1. [i \in 0 .. 0 |-> EmptyLeaf] = Body([i \in 0 .. 0 |-> EmptyLeaf], 0)
    OBVIOUS
  <2> QED
    BY <2>1
<1>3. ASSUME NEW m \in Nat, m \in D PROVE m + 1 \in D
  <2>1. PICK g : g = Body(g, m)
    BY <1>3
  <2> DEFINE f == [i \in 0 .. m + 1 |-> IF i = m + 1 THEN Step(g[m], m) ELSE g[i]]
  <2>2. f = Body(f, m + 1)
    BY <2>1
  <2> HIDE DEF Body, f
  <2> QED
    BY <2>2
<1>4. \E g : g = Body(g, Depth)
  <2>1. Depth \in D
    <3> HIDE DEF D
    <3> QED
      BY <1>2, <1>3, NatSetInduction, DepthAssumption
  <2> QED
    BY <2>1
<1>5. EmptyRoot = Body(EmptyRoot, Depth)
  <2> HIDE DEF Body
  <2> QED
    BY <1>1, <1>4
<1>6. EmptyRoot[0] = EmptyLeaf
  BY <1>5, DepthAssumption
<1>7. ASSUME NEW i \in 0 .. Depth - 1 PROVE EmptyRoot[i + 1] = Step(EmptyRoot[i], i)
  <2>1. i + 1 \in 0 .. Depth /\ i + 1 # 0 /\ (i + 1) - 1 = i
    BY DepthAssumption
  <2> QED
    BY <1>5, <2>1
<1> QED
  BY <1>6, <1>7 DEF Step

LEMMA JoinedDef ==
  ASSUME NEW frontier, NEW leaf
  PROVE  /\ Joined(frontier, leaf)[0] = leaf
         /\ \A i \in 0 .. Depth - 1 :
              Joined(frontier, leaf)[i + 1] = HashPair(frontier[i], Joined(frontier, leaf)[i])
<1> DEFINE Step(a, i) == HashPair(frontier[i], a)
           Body(g, m) == [i \in 0 .. m |-> IF i = 0 THEN leaf ELSE Step(g[i - 1], i - 1)]
           D == {m \in Nat : \E g : g = Body(g, m)}
<1>1. Joined(frontier, leaf) = CHOOSE g : g = Body(g, Depth)
  BY DEF Joined
<1> HIDE DEF Step
<1>2. 0 \in D
  <2>1. [i \in 0 .. 0 |-> leaf] = Body([i \in 0 .. 0 |-> leaf], 0)
    OBVIOUS
  <2> QED
    BY <2>1
<1>3. ASSUME NEW m \in Nat, m \in D PROVE m + 1 \in D
  <2>1. PICK g : g = Body(g, m)
    BY <1>3
  <2> DEFINE f == [i \in 0 .. m + 1 |-> IF i = m + 1 THEN Step(g[m], m) ELSE g[i]]
  <2>2. f = Body(f, m + 1)
    BY <2>1
  <2> HIDE DEF Body, f
  <2> QED
    BY <2>2
<1>4. \E g : g = Body(g, Depth)
  <2>1. Depth \in D
    <3> HIDE DEF D
    <3> QED
      BY <1>2, <1>3, NatSetInduction, DepthAssumption
  <2> QED
    BY <2>1
<1>5. Joined(frontier, leaf) = Body(Joined(frontier, leaf), Depth)
  <2> HIDE DEF Body
  <2> QED
    BY <1>1, <1>4
<1>6. Joined(frontier, leaf)[0] = leaf
  BY <1>5, DepthAssumption
<1>7. ASSUME NEW i \in 0 .. Depth - 1
      PROVE  Joined(frontier, leaf)[i + 1] = Step(Joined(frontier, leaf)[i], i)
  <2>1. i + 1 \in 0 .. Depth /\ i + 1 # 0 /\ (i + 1) - 1 = i
    BY DepthAssumption
  <2> QED
    BY <1>5, <2>1
<1> QED
  BY <1>6, <1>7 DEF Step

LEMMA SubtreesDef ==
  ASSUME NEW n \in Nat
  PROVE  /\ Subtrees(n)[0] = [j \in Nat |-> IF j < n THEN Leaf(j + 1) ELSE EmptyLeaf]
         /\ \A i \in 0 .. Depth - 1 :
              Subtrees(n)[i + 1]
                = [j \in Nat |-> HashPair(Subtrees(n)[i][2 * j], Subtrees(n)[i][2 * j + 1])]
<1> DEFINE Step(a, i) == [j \in Nat |-> HashPair(a[2 * j], a[2 * j + 1])]
           Start == [j \in Nat |-> IF j < n THEN Leaf(j + 1) ELSE EmptyLeaf]
           Body(g, m) == [i \in 0 .. m |-> IF i = 0 THEN Start ELSE Step(g[i - 1], i - 1)]
           D == {m \in Nat : \E g : g = Body(g, m)}
<1>1. Subtrees(n) = CHOOSE g : g = Body(g, Depth)
  BY DEF Subtrees
<1> HIDE DEF Step
<1>2. 0 \in D
  <2>1. [i \in 0 .. 0 |-> Start] = Body([i \in 0 .. 0 |-> Start], 0)
    OBVIOUS
  <2> QED
    BY <2>1
<1>3. ASSUME NEW m \in Nat, m \in D PROVE m + 1 \in D
  <2>1. PICK g : g = Body(g, m)
    BY <1>3
  <2> DEFINE f == [i \in 0 .. m + 1 |-> IF i = m + 1 THEN Step(g[m], m) ELSE g[i]]
  <2>2. f = Body(f, m + 1)
    BY <2>1
  <2> HIDE DEF Body, f
  <2> QED
    BY <2>2
<1>4. \E g : g = Body(g, Depth)
  <2>1. Depth \in D
    <3> HIDE DEF D
    <3> QED
      BY <1>2, <1>3, NatSetInduction, DepthAssumption
  <2> QED
    BY <2>1
<1>5. Subtrees(n) = Body(Subtrees(n), Depth)
  <2> HIDE DEF Body
  <2> QED
    BY <1>1, <1>4
<1>6. Subtrees(n)[0] = [j \in Nat |-> IF j < n THEN Leaf(j + 1) ELSE EmptyLeaf]
  BY <1>5, DepthAssumption
<1>7. ASSUME NEW i \in 0 .. Depth - 1 PROVE Subtrees(n)[i + 1] = Step(Subtrees(n)[i], i)
  <2>1. i + 1 \in 0 .. Depth /\ i + 1 # 0 /\ (i + 1) - 1 = i
    BY DepthAssumption
  <2> QED
    BY <1>5, <2>1
<1> QED
  BY <1>6, <1>7 DEF Step


LEMMA PathDef ==
  ASSUME NEW frontier, NEW size
  PROVE  /\ Path(frontier, size)[0] = EmptyLeaf
         /\ \A i \in 0 .. Depth - 1 :
              Path(frontier, size)[i + 1]
                = IF Shifted(size)[i] % 2 = 1 THEN HashPair(Sibling(frontier, i), Path(frontier, size)[i])
                ELSE HashPair(Path(frontier, size)[i], Sibling(frontier, i))
<1> DEFINE Step(a, i) == IF Shifted(size)[i] % 2 = 1 THEN HashPair(Sibling(frontier, i), a)
                ELSE HashPair(a, Sibling(frontier, i))
           Body(g, m) == [i \in 0 .. m |-> IF i = 0 THEN EmptyLeaf ELSE Step(g[i - 1], i - 1)]
           D == {m \in Nat : \E g : g = Body(g, m)}
<1>1. Path(frontier, size) = CHOOSE g : g = Body(g, Depth)
  BY DEF Path
<1> HIDE DEF Step
<1>2. 0 \in D
  <2>1. [i \in 0 .. 0 |-> EmptyLeaf] = Body([i \in 0 .. 0 |-> EmptyLeaf], 0)
    OBVIOUS
  <2> QED
    BY <2>1
<1>3. ASSUME NEW m \in Nat, m \in D PROVE m + 1 \in D
  <2>1. PICK g : g = Body(g, m)
    BY <1>3
  <2> DEFINE f == [i \in 0 .. m + 1 |-> IF i = m + 1 THEN Step(g[m], m) ELSE g[i]]
  <2>2. f = Body(f, m + 1)
    BY <2>1
  <2> HIDE DEF Body, f
  <2> QED
    BY <2>2
<1>4. \E g : g = Body(g, Depth)
  <2>1. Depth \in D
    <3> HIDE DEF D
    <3> QED
      BY <1>2, <1>3, NatSetInduction, DepthAssumption
  <2> QED
    BY <2>1
<1>5. Path(frontier, size) = Body(Path(frontier, size), Depth)
  <2> HIDE DEF Body
  <2> QED
    BY <1>1, <1>4
<1>6. Path(frontier, size)[0] = EmptyLeaf
  BY <1>5, DepthAssumption
<1>7. ASSUME NEW i \in 0 .. Depth - 1
      PROVE  Path(frontier, size)[i + 1] = Step(Path(frontier, size)[i], i)
  <2>1. i + 1 \in 0 .. Depth /\ i + 1 # 0 /\ (i + 1) - 1 = i
    BY DepthAssumption
  <2> QED
    BY <1>5, <2>1
<1> QED
  BY <1>6, <1>7 DEF Step

LEMMA FrontiersDef ==
  ASSUME NEW n \in Nat
  PROVE  /\ Frontiers(n)[0] = EmptyFrontier
         /\ \A i \in 0 .. n - 1 : Frontiers(n)[i + 1] = AppendTo(Frontiers(n)[i], Leaf(i + 1))
<1> DEFINE Step(a, i) == AppendTo(a, Leaf(i))
           Body(g, m) == [i \in 0 .. m |-> IF i = 0 THEN EmptyFrontier ELSE Step(g[i - 1], i)]
           D == {m \in Nat : \E g : g = Body(g, m)}
<1>1. Frontiers(n) = CHOOSE g : g = Body(g, n)
  BY DEF Frontiers
<1> HIDE DEF Step
<1>2. 0 \in D
  <2>1. [i \in 0 .. 0 |-> EmptyFrontier] = Body([i \in 0 .. 0 |-> EmptyFrontier], 0)
    OBVIOUS
  <2> QED
    BY <2>1
<1>3. ASSUME NEW m \in Nat, m \in D PROVE m + 1 \in D
  <2>1. PICK g : g = Body(g, m)
    BY <1>3
  <2> DEFINE f == [i \in 0 .. m + 1 |-> IF i = m + 1 THEN Step(g[m], m + 1) ELSE g[i]]
  <2>2. f = Body(f, m + 1)
    BY <2>1
  <2> HIDE DEF Body, f
  <2> QED
    BY <2>2
<1>4. \E g : g = Body(g, n)
  <2>1. n \in D
    <3> HIDE DEF D
    <3> QED
      BY <1>2, <1>3, NatSetInduction
  <2> QED
    BY <2>1
<1>5. Frontiers(n) = Body(Frontiers(n), n)
  <2> HIDE DEF Body
  <2> QED
    BY <1>1, <1>4
<1>6. Frontiers(n)[0] = EmptyFrontier
  BY <1>5
<1>7. ASSUME NEW i \in 0 .. n - 1 PROVE Frontiers(n)[i + 1] = Step(Frontiers(n)[i], i + 1)
  <2>1. i + 1 \in 0 .. n /\ i + 1 # 0 /\ (i + 1) - 1 = i
    OBVIOUS
  <2> QED
    BY <1>5, <2>1
<1> QED
  BY <1>6, <1>7 DEF Step

---------------------------------------------------------------------------
(* The note commitment tree.                                               *)

LEMMA LevelFacts ==
  /\ 0 \in 0 .. Depth /\ Depth \in Nat /\ Levels = 0 .. Depth - 1
  /\ \A i \in Levels : i \in Nat /\ i \in 0 .. Depth /\ i + 1 \in 0 .. Depth
  BY DepthAssumption DEF Levels

LEMMA Halves ==
  ASSUME NEW a \in Nat
  PROVE  /\ a \div 2 \in Nat /\ a % 2 \in {0, 1}
         /\ a % 2 = 1 => a = 2 * (a \div 2) + 1
         /\ a % 2 = 0 => a = 2 * (a \div 2)
         /\ (2 * a + 1) \div 2 = a /\ ((2 * a + 1) + 1) \div 2 = a + 1
<1>1. \A b \in Nat : b \div 2 \in Nat /\ b % 2 \in {0, 1} /\ b = 2 * (b \div 2) + (b % 2)
  OBVIOUS
<1>2. (2 * a + 1) \div 2 = a
  <2>1. PICK b \in Nat : b = 2 * a + 1
    OBVIOUS
  <2> QED
    BY <1>1, <2>1
<1>3. ((2 * a + 1) + 1) \div 2 = a + 1
  <2>1. PICK b \in Nat : b = (2 * a + 1) + 1
    OBVIOUS
  <2> QED
    BY <1>1, <2>1
<1> QED
  BY <1>1, <1>2, <1>3

LEMMA ShiftedType ==
  ASSUME NEW n \in Nat
  PROVE  \A i \in 0 .. Depth : Shifted(n)[i] \in Nat
<1> DEFINE D == {i \in Nat : i <= Depth => Shifted(n)[i] \in Nat}
<1>1. 0 \in D
  BY ShiftedDef
<1>2. ASSUME NEW i \in Nat, i \in D PROVE i + 1 \in D
  <2> SUFFICES ASSUME i + 1 <= Depth PROVE Shifted(n)[i + 1] \in Nat
    OBVIOUS
  <2>1. i \in 0 .. Depth - 1 /\ Shifted(n)[i] \in Nat
    BY <1>2, DepthAssumption
  <2> QED
    BY <2>1, ShiftedDef
<1>3. Nat \subseteq D
  <2> HIDE DEF D
  <2> QED
    BY <1>1, <1>2, NatSetInduction
<1> QED
  BY <1>3

\* The bit of each level, and what is left of the number above it.
LEMMA ShiftedBits ==
  ASSUME NEW n \in Nat, NEW i \in Levels
  PROVE  /\ Shifted(n)[i] \in Nat /\ Shifted(n)[i + 1] \in Nat
         /\ Shifted(n)[i] % 2 \in {0, 1}
         /\ Shifted(n)[i] % 2 = 1 => Shifted(n)[i] = 2 * Shifted(n)[i + 1] + 1
         /\ Shifted(n)[i] % 2 = 0 => Shifted(n)[i] = 2 * Shifted(n)[i + 1]
         /\ Shifted(n)[i + 1] = Shifted(n)[i] \div 2
<1>1. Shifted(n)[i] \in Nat /\ Shifted(n)[i + 1] = Shifted(n)[i] \div 2
  BY ShiftedType, ShiftedDef, LevelFacts
<1> QED
  BY <1>1, Halves

LEMMA ShiftedZero == \A i \in 0 .. Depth : Shifted(0)[i] = 0
<1> DEFINE D == {i \in Nat : i <= Depth => Shifted(0)[i] = 0}
<1>1. 0 \in D
  BY ShiftedDef
<1>2. ASSUME NEW i \in Nat, i \in D PROVE i + 1 \in D
  <2> SUFFICES ASSUME i + 1 <= Depth PROVE Shifted(0)[i + 1] = 0
    OBVIOUS
  <2>1. i \in 0 .. Depth - 1 /\ Shifted(0)[i] = 0
    BY <1>2, DepthAssumption
  <2> QED
    BY <2>1, ShiftedDef
<1>3. Nat \subseteq D
  <2> HIDE DEF D
  <2> QED
    BY <1>1, <1>2, NatSetInduction
<1> QED
  BY <1>3

\* One more: the carry goes up to the lowest bit that is not set.
LEMMA ShiftedCarry ==
  ASSUME NEW n \in Nat, NEW c \in 0 .. Depth,
         \A i \in 0 .. c - 1 : Shifted(n)[i] % 2 = 1,
         c < Depth => Shifted(n)[c] % 2 = 0
  PROVE  \A i \in 0 .. Depth :
           Shifted(n + 1)[i] = IF i <= c THEN Shifted(n)[i] + 1 ELSE Shifted(n)[i]
<1> DEFINE Now(i) == IF i <= c THEN Shifted(n)[i] + 1 ELSE Shifted(n)[i]
           D == {i \in Nat : i <= Depth => Shifted(n + 1)[i] = Now(i)}
<1>1. 0 \in D
  BY ShiftedDef
<1>2. ASSUME NEW i \in Nat, i \in D PROVE i + 1 \in D
  <2> SUFFICES ASSUME i + 1 <= Depth PROVE Shifted(n + 1)[i + 1] = Now(i + 1)
    OBVIOUS
  <2>1. i \in Levels /\ Shifted(n + 1)[i] = Now(i) /\ n + 1 \in Nat
    BY <1>2, LevelFacts, DepthAssumption
  <2>2. Shifted(n + 1)[i + 1] = Now(i) \div 2
    BY <2>1, ShiftedBits
  <2>3. /\ Shifted(n)[i] \in Nat /\ Shifted(n)[i + 1] \in Nat /\ Shifted(n)[i] % 2 \in {0, 1}
        /\ Shifted(n)[i] % 2 = 1 => Shifted(n)[i] = 2 * Shifted(n)[i + 1] + 1
        /\ Shifted(n)[i] % 2 = 0 => Shifted(n)[i] = 2 * Shifted(n)[i + 1]
    BY <2>1, ShiftedBits
  <2>4. CASE i < c
    <3>1. Shifted(n)[i] % 2 = 1
      BY <2>1, <2>4
    <3>2. Shifted(n)[i] = 2 * Shifted(n)[i + 1] + 1
      BY <2>3, <3>1
    <3>3. Shifted(n + 1)[i + 1] = Shifted(n)[i + 1] + 1
      BY <2>2, <2>3, <2>4, <3>2, Halves
    <3> QED
      BY <2>4, <3>3
  <2>5. CASE i = c
    <3>1. Shifted(n)[i] % 2 = 0
      BY <2>1, <2>5, LevelFacts
    <3>2. Shifted(n)[i] + 1 = 2 * Shifted(n)[i + 1] + 1
      BY <2>3, <3>1
    <3>3. Shifted(n + 1)[i + 1] = Shifted(n)[i + 1]
      BY <2>2, <2>3, <2>5, <3>2, Halves
    <3> QED
      BY <2>5, <3>3
  <2>6. CASE i > c
    BY <2>2, <2>3, <2>6, <2>1, ShiftedBits
  <2> QED
    BY <2>4, <2>5, <2>6
<1>3. Nat \subseteq D
  <2> HIDE DEF D
  <2> QED
    BY <1>1, <1>2, NatSetInduction
<1> QED
  BY <1>3

LEMMA SubtreesBelow ==
  ASSUME NEW n \in Nat, NEW j \in Nat
  PROVE  Subtrees(n)[0][j] = IF j < n THEN Leaf(j + 1) ELSE EmptyLeaf
BY SubtreesDef

LEMMA SubtreesAbove ==
  ASSUME NEW n \in Nat, NEW i \in Levels, NEW j \in Nat
  PROVE  Subtrees(n)[i + 1][j] = HashPair(Subtrees(n)[i][2 * j], Subtrees(n)[i][2 * j + 1])
<1>1. Subtrees(n)[i + 1] =
        [k \in Nat |-> HashPair(Subtrees(n)[i][2 * k], Subtrees(n)[i][2 * k + 1])]
  BY SubtreesDef, LevelFacts
<1> QED
  BY <1>1

\* Nodes are no missing hashes.
LEMMA NodesAreThere ==
  ASSUME NEW n \in Nat, NEW i \in 0 .. Depth, NEW j \in Nat
  PROVE  Subtrees(n)[i][j] # Missing
<1>1. CASE i = 0
  <2>1. Leaf(j + 1) # Missing /\ EmptyLeaf # Missing
    BY DEF Leaf, EmptyLeaf, Missing
  <2> QED
    BY <1>1, <2>1, SubtreesBelow
<1>2. CASE i # 0
  <2>1. i - 1 \in Levels /\ (i - 1) + 1 = i
    BY <1>2, LevelFacts, DepthAssumption
  <2>2. \A l, r : HashPair(l, r) # Missing
    BY DEF HashPair, Missing
  <2>3. Subtrees(n)[(i - 1) + 1][j] =
          HashPair(Subtrees(n)[i - 1][2 * j], Subtrees(n)[i - 1][2 * j + 1])
    BY <2>1, SubtreesAbove
  <2> QED
    BY <2>1, <2>2, <2>3
<1> QED
  BY <1>1, <1>2

\* Past the leaves the tree is empty.
LEMMA EmptySubtrees ==
  ASSUME NEW n \in Nat
  PROVE  \A i \in 0 .. Depth : \A j \in Nat : j > Shifted(n)[i] => Subtrees(n)[i][j] = EmptyRoot[i]
<1> DEFINE D == {i \in Nat : i <= Depth =>
                   \A j \in Nat : j > Shifted(n)[i] => Subtrees(n)[i][j] = EmptyRoot[i]}
<1>1. 0 \in D
  BY ShiftedDef, SubtreesBelow, EmptyRootDef
<1>2. ASSUME NEW i \in Nat, i \in D PROVE i + 1 \in D
  <2> SUFFICES ASSUME i + 1 <= Depth, NEW j \in Nat, j > Shifted(n)[i + 1]
               PROVE  Subtrees(n)[i + 1][j] = EmptyRoot[i + 1]
    OBVIOUS
  <2>1. i \in Levels /\ i \in 0 .. Depth - 1
    BY LevelFacts
  <2>2. Shifted(n)[i] \in Nat /\ Shifted(n)[i + 1] = Shifted(n)[i] \div 2
    BY <2>1, ShiftedBits
  <2>3. 2 * j \in Nat /\ 2 * j + 1 \in Nat /\ 2 * j > Shifted(n)[i] /\ 2 * j + 1 > Shifted(n)[i]
    BY <2>2
  <2>4. Subtrees(n)[i][2 * j] = EmptyRoot[i] /\ Subtrees(n)[i][2 * j + 1] = EmptyRoot[i]
    BY <1>2, <2>1, <2>3, LevelFacts
  <2>5. Subtrees(n)[i + 1][j] = HashPair(Subtrees(n)[i][2 * j], Subtrees(n)[i][2 * j + 1])
    BY <2>1, SubtreesAbove
  <2>6. EmptyRoot[i + 1] = HashPair(EmptyRoot[i], EmptyRoot[i])
    BY <2>1, EmptyRootDef, LevelFacts
  <2> QED
    BY <2>4, <2>5, <2>6
<1>3. Nat \subseteq D
  <2> HIDE DEF D
  <2> QED
    BY <1>1, <1>2, NatSetInduction
<1> QED
  BY <1>3

\* A subtree that is full stays as it is.
LEMMA FullSubtrees ==
  ASSUME NEW n \in Nat, NEW m \in Nat
  PROVE  \A i \in 0 .. Depth : \A j \in Nat :
           j < Shifted(n)[i] /\ j < Shifted(m)[i] => Subtrees(n)[i][j] = Subtrees(m)[i][j]
<1> DEFINE D == {i \in Nat : i <= Depth =>
                   \A j \in Nat : j < Shifted(n)[i] /\ j < Shifted(m)[i] =>
                     Subtrees(n)[i][j] = Subtrees(m)[i][j]}
<1>1. 0 \in D
  BY ShiftedDef, SubtreesBelow
<1>2. ASSUME NEW i \in Nat, i \in D PROVE i + 1 \in D
  <2> SUFFICES ASSUME i + 1 <= Depth, NEW j \in Nat,
                      j < Shifted(n)[i + 1], j < Shifted(m)[i + 1]
               PROVE  Subtrees(n)[i + 1][j] = Subtrees(m)[i + 1][j]
    OBVIOUS
  <2>1. i \in Levels
    BY LevelFacts
  <2>2. /\ Shifted(n)[i] \in Nat /\ Shifted(n)[i + 1] = Shifted(n)[i] \div 2
        /\ Shifted(m)[i] \in Nat /\ Shifted(m)[i + 1] = Shifted(m)[i] \div 2
    BY <2>1, ShiftedBits
  <2>3. /\ 2 * j \in Nat /\ 2 * j + 1 \in Nat
        /\ 2 * j < Shifted(n)[i] /\ 2 * j + 1 < Shifted(n)[i]
        /\ 2 * j < Shifted(m)[i] /\ 2 * j + 1 < Shifted(m)[i]
    BY <2>2
  <2>4. /\ Subtrees(n)[i][2 * j] = Subtrees(m)[i][2 * j]
        /\ Subtrees(n)[i][2 * j + 1] = Subtrees(m)[i][2 * j + 1]
    BY <1>2, <2>1, <2>3, LevelFacts
  <2>5. Subtrees(n)[i + 1][j] = HashPair(Subtrees(n)[i][2 * j], Subtrees(n)[i][2 * j + 1])
    BY <2>1, SubtreesAbove
  <2>6. Subtrees(m)[i + 1][j] = HashPair(Subtrees(m)[i][2 * j], Subtrees(m)[i][2 * j + 1])
    BY <2>1, SubtreesAbove
  <2> QED
    BY <2>4, <2>5, <2>6
<1>3. Nat \subseteq D
  <2> HIDE DEF D
  <2> QED
    BY <1>1, <1>2, NatSetInduction
<1> QED
  BY <1>3

\* The frontier after n leaves: where the size has a bit, the full subtree that
\* ends with the last leaf; elsewhere nothing.
FrontierHas(frontier, n) ==
  \A i \in Levels :
    frontier[i] = IF Shifted(n)[i] % 2 = 1 THEN Subtrees(n)[i][Shifted(n)[i] - 1] ELSE Missing

LEMMA EmptyFrontierHas == FrontierHas(EmptyFrontier, 0)
<1>1. \A i \in Levels : Shifted(0)[i] % 2 # 1
  BY ShiftedZero, LevelFacts
<1> QED
  BY <1>1 DEF FrontierHas, EmptyFrontier

\* The levels that a new leaf completes are those of the lowest bits set.
LEMMA CarriesFacts ==
  ASSUME NEW n \in Nat, NEW frontier, FrontierHas(frontier, n)
  PROVE  /\ Carries(frontier) \in 0 .. Depth
         /\ \A i \in 0 .. Carries(frontier) - 1 : Shifted(n)[i] % 2 = 1
         /\ Carries(frontier) < Depth => Shifted(n)[Carries(frontier)] % 2 = 0
<1> DEFINE Good(c) == /\ \A i \in 0 .. c - 1 : frontier[i] # Missing
                      /\ c < Depth => frontier[c] = Missing
           D == {c \in Nat : c <= Depth => \/ \E b \in 0 .. Depth : Good(b)
                                           \/ \A i \in 0 .. c - 1 : frontier[i] # Missing}
<1>1. \E c \in 0 .. Depth : Good(c)
  <2>1. 0 \in D
    OBVIOUS
  <2>2. ASSUME NEW c \in Nat, c \in D PROVE c + 1 \in D
    <3> SUFFICES ASSUME c + 1 <= Depth, ~ \E b \in 0 .. Depth : Good(b)
                 PROVE  \A i \in 0 .. c : frontier[i] # Missing
      OBVIOUS
    <3>1. c \in 0 .. Depth /\ \A i \in 0 .. c - 1 : frontier[i] # Missing
      BY <2>2, DepthAssumption
    <3>2. frontier[c] # Missing
      BY <3>1
    <3>3. \A i \in 0 .. c : i = c \/ i \in 0 .. c - 1
      OBVIOUS
    <3> QED
      BY <3>1, <3>2, <3>3
  <2>3. Depth \in D
    <3> HIDE DEF D
    <3> QED
      BY <2>1, <2>2, NatSetInduction, DepthAssumption
  <2>4. CASE \A i \in 0 .. Depth - 1 : frontier[i] # Missing
    <3>1. Good(Depth) /\ Depth \in 0 .. Depth
      BY <2>4, DepthAssumption
    <3> QED
      BY <3>1
  <2> QED
    BY <2>3, <2>4, DepthAssumption
<1>2. Carries(frontier) \in 0 .. Depth /\ Good(Carries(frontier))
  BY <1>1 DEF Carries
<1>3. \A i \in Levels : (frontier[i] # Missing <=> Shifted(n)[i] % 2 = 1) /\ Shifted(n)[i] % 2 \in {0, 1}
  <2> SUFFICES ASSUME NEW i \in Levels
               PROVE  (frontier[i] # Missing <=> Shifted(n)[i] % 2 = 1) /\ Shifted(n)[i] % 2 \in {0, 1}
    OBVIOUS
  <2>1. Shifted(n)[i] % 2 \in {0, 1} /\ Shifted(n)[i] \in Nat
    BY ShiftedBits
  <2>2. Shifted(n)[i] % 2 = 1 => Shifted(n)[i] - 1 \in Nat
    BY <2>1
  <2>3. Shifted(n)[i] % 2 = 1 => Subtrees(n)[i][Shifted(n)[i] - 1] # Missing
    BY <2>2, NodesAreThere, LevelFacts
  <2> QED
    BY <2>1, <2>3 DEF FrontierHas
<1> HIDE DEF Good
<1>4. Carries(frontier) < Depth => Carries(frontier) \in Levels
  BY <1>2, LevelFacts
<1>5. \A i \in 0 .. Carries(frontier) - 1 : i \in Levels
  BY <1>2, LevelFacts
<1> QED
  BY <1>2, <1>3, <1>4, <1>5 DEF Good

\* What is joined on the way up are the subtrees that end with the new leaf.
LEMMA JoinedFacts ==
  ASSUME NEW n \in Nat, NEW frontier, FrontierHas(frontier, n), NEW c \in 0 .. Depth,
         \A i \in 0 .. c - 1 : Shifted(n)[i] % 2 = 1,
         c < Depth => Shifted(n)[c] % 2 = 0
  PROVE  Joined(frontier, Leaf(n + 1))[c] = Subtrees(n + 1)[c][Shifted(n)[c]]
<1> DEFINE J == Joined(frontier, Leaf(n + 1))
           D == {i \in Nat : i <= c => J[i] = Subtrees(n + 1)[i][Shifted(n)[i]]}
<1>1. 0 \in D
  BY JoinedDef, ShiftedDef, SubtreesBelow
<1>2. ASSUME NEW i \in Nat, i \in D PROVE i + 1 \in D
  <2> SUFFICES ASSUME i + 1 <= c PROVE J[i + 1] = Subtrees(n + 1)[i + 1][Shifted(n)[i + 1]]
    OBVIOUS
  <2> DEFINE q == Shifted(n)[i + 1]
  <2>1. i \in Levels /\ i \in 0 .. Depth - 1 /\ i \in 0 .. Depth /\ i <= c /\ i \in 0 .. c - 1
    BY LevelFacts
  <2>2. Shifted(n)[i] = 2 * q + 1 /\ q \in Nat /\ Shifted(n)[i] % 2 = 1
    BY <2>1, ShiftedBits
  <2>3. Shifted(n + 1)[i] = Shifted(n)[i] + 1
    BY <2>1, ShiftedCarry
  <2>4. J[i] = Subtrees(n + 1)[i][2 * q + 1]
    BY <1>2, <2>1, <2>2
  <2>5. frontier[i] = Subtrees(n)[i][2 * q]
    <3>1. frontier[i] = Subtrees(n)[i][Shifted(n)[i] - 1]
      BY <2>1, <2>2 DEF FrontierHas
    <3>2. Shifted(n)[i] - 1 = 2 * q
      BY <2>2
    <3> QED
      BY <3>1, <3>2
  <2>6. Subtrees(n)[i][2 * q] = Subtrees(n + 1)[i][2 * q]
    <3>1. 2 * q \in Nat /\ 2 * q < Shifted(n)[i] /\ 2 * q < Shifted(n + 1)[i] /\ n + 1 \in Nat
      BY <2>2, <2>3
    <3> QED
      BY <2>1, <3>1, FullSubtrees
  <2>7. J[i + 1] = HashPair(frontier[i], J[i])
    BY <2>1, JoinedDef
  <2>8. Subtrees(n + 1)[i + 1][q] = HashPair(Subtrees(n + 1)[i][2 * q], Subtrees(n + 1)[i][2 * q + 1])
    <3>1. n + 1 \in Nat
      OBVIOUS
    <3> HIDE DEF q
    <3> QED
      BY <2>1, <2>2, <3>1, SubtreesAbove
  <2> QED
    BY <2>4, <2>5, <2>6, <2>7, <2>8
<1>3. c \in D
  <2> HIDE DEF D
  <2> QED
    BY <1>1, <1>2, NatSetInduction
<1> QED
  BY <1>3

LEMMA AppendKeepsFrontier ==
  ASSUME NEW n \in Nat, NEW frontier, FrontierHas(frontier, n)
  PROVE  FrontierHas(AppendTo(frontier, Leaf(n + 1)), n + 1)
<1> DEFINE c == Carries(frontier)
           after == AppendTo(frontier, Leaf(n + 1))
<1>1. /\ c \in 0 .. Depth
      /\ \A i \in 0 .. c - 1 : Shifted(n)[i] % 2 = 1
      /\ c < Depth => Shifted(n)[c] % 2 = 0
  BY CarriesFacts
<1>2. \A i \in Levels :
        after[i] = IF i < c THEN Missing
                   ELSE IF i = c THEN Joined(frontier, Leaf(n + 1))[c] ELSE frontier[i]
  BY DEF AppendTo
<1> HIDE DEF c, after
<1>3. \A i \in 0 .. Depth : Shifted(n + 1)[i] = IF i <= c THEN Shifted(n)[i] + 1 ELSE Shifted(n)[i]
  BY <1>1, ShiftedCarry
<1> SUFFICES ASSUME NEW i \in Levels
             PROVE  after[i] = IF Shifted(n + 1)[i] % 2 = 1
                               THEN Subtrees(n + 1)[i][Shifted(n + 1)[i] - 1] ELSE Missing
  BY DEF FrontierHas, after
<1>4. /\ i \in 0 .. Depth /\ i \in Nat /\ n + 1 \in Nat
      /\ Shifted(n)[i] \in Nat /\ Shifted(n)[i] % 2 \in {0, 1}
  BY LevelFacts, ShiftedBits
<1>5. CASE i < c
  <2>1. Shifted(n)[i] % 2 = 1 /\ Shifted(n + 1)[i] = Shifted(n)[i] + 1
    BY <1>1, <1>3, <1>4, <1>5
  <2>2. Shifted(n + 1)[i] % 2 # 1
    BY <1>4, <2>1
  <2> QED
    BY <1>2, <1>5, <2>2
<1>6. CASE i = c
  <2>1. Shifted(n)[i] % 2 = 0 /\ Shifted(n + 1)[i] = Shifted(n)[i] + 1
    BY <1>1, <1>3, <1>4, <1>6, LevelFacts
  <2>2. Shifted(n + 1)[i] % 2 = 1 /\ Shifted(n + 1)[i] - 1 = Shifted(n)[i]
    BY <1>4, <2>1
  <2>3. after[i] = Joined(frontier, Leaf(n + 1))[c]
    BY <1>2, <1>4, <1>6
  <2>4. Joined(frontier, Leaf(n + 1))[c] = Subtrees(n + 1)[c][Shifted(n)[c]]
    BY <1>1, JoinedFacts
  <2> QED
    BY <1>6, <2>2, <2>3, <2>4
<1>7. CASE i > c
  <2>1. Shifted(n + 1)[i] = Shifted(n)[i] /\ after[i] = frontier[i]
    BY <1>1, <1>2, <1>3, <1>4, <1>7
  <2>2. ASSUME Shifted(n)[i] % 2 = 1
        PROVE  Subtrees(n)[i][Shifted(n)[i] - 1] = Subtrees(n + 1)[i][Shifted(n)[i] - 1]
    <3>1. Shifted(n)[i] - 1 \in Nat /\ Shifted(n)[i] - 1 < Shifted(n)[i]
      BY <1>4, <2>2
    <3> QED
      BY <1>4, <2>1, <3>1, FullSubtrees
  <2> QED
    BY <2>1, <2>2 DEF FrontierHas
<1> QED
  BY <1>1, <1>4, <1>5, <1>6, <1>7

LEMMA FrontiersHave ==
  ASSUME NEW n \in Nat
  PROVE  FrontierHas(Frontiers(n)[n], n)
<1> DEFINE D == {k \in Nat : k <= n => FrontierHas(Frontiers(n)[k], k)}
<1>1. 0 \in D
  BY FrontiersDef, EmptyFrontierHas
<1>2. ASSUME NEW k \in Nat, k \in D PROVE k + 1 \in D
  <2> SUFFICES ASSUME k + 1 <= n PROVE FrontierHas(Frontiers(n)[k + 1], k + 1)
    OBVIOUS
  <2>1. k \in 0 .. n - 1 /\ FrontierHas(Frontiers(n)[k], k)
    BY <1>2
  <2>2. Frontiers(n)[k + 1] = AppendTo(Frontiers(n)[k], Leaf(k + 1))
    BY <2>1, FrontiersDef
  <2> QED
    BY <2>1, <2>2, AppendKeepsFrontier
<1>3. n \in D
  <2> HIDE DEF D
  <2> QED
    BY <1>1, <1>2, NatSetInduction
<1> QED
  BY <1>3

\* On the way to the root are the subtrees with the place of the next leaf.
LEMMA PathFacts ==
  ASSUME NEW n \in Nat, NEW frontier, FrontierHas(frontier, n)
  PROVE  Path(frontier, n)[Depth] = Subtrees(n)[Depth][Shifted(n)[Depth]]
<1> DEFINE D == {i \in Nat : i <= Depth => Path(frontier, n)[i] = Subtrees(n)[i][Shifted(n)[i]]}
<1>1. 0 \in D
  BY PathDef, ShiftedDef, SubtreesBelow
<1>2. ASSUME NEW i \in Nat, i \in D PROVE i + 1 \in D
  <2> SUFFICES ASSUME i + 1 <= Depth
               PROVE  Path(frontier, n)[i + 1] = Subtrees(n)[i + 1][Shifted(n)[i + 1]]
    OBVIOUS
  <2> DEFINE q == Shifted(n)[i + 1]
             s == Shifted(n)[i]
             p == Path(frontier, n)[i]
  <2>1. i \in Levels /\ i \in 0 .. Depth - 1 /\ i \in 0 .. Depth /\ p = Subtrees(n)[i][s]
    BY <1>2, LevelFacts
  <2>2. /\ s \in Nat /\ q \in Nat /\ s % 2 \in {0, 1}
        /\ s % 2 = 1 => s = 2 * q + 1
        /\ s % 2 = 0 => s = 2 * q
    BY <2>1, ShiftedBits
  <2>3. Subtrees(n)[i + 1][q] = HashPair(Subtrees(n)[i][2 * q], Subtrees(n)[i][2 * q + 1])
    BY <2>1, <2>2, SubtreesAbove
  <2>4. Path(frontier, n)[i + 1] = IF s % 2 = 1 THEN HashPair(Sibling(frontier, i), p)
                                               ELSE HashPair(p, Sibling(frontier, i))
    BY <2>1, PathDef
  <2>5. CASE s % 2 = 1
    <3>1. frontier[i] = Subtrees(n)[i][s - 1] /\ s - 1 = 2 * q /\ 2 * q \in Nat
      BY <2>1, <2>2, <2>5 DEF FrontierHas
    <3>2. Subtrees(n)[i][2 * q] # Missing
      BY <2>1, <3>1, NodesAreThere
    <3>3. Sibling(frontier, i) = Subtrees(n)[i][2 * q]
      BY <3>1, <3>2 DEF Sibling
    <3> QED
      BY <2>1, <2>2, <2>3, <2>4, <2>5, <3>3
  <2>6. CASE s % 2 = 0
    <3>1. frontier[i] = Missing
      BY <2>1, <2>6 DEF FrontierHas
    <3>2. 2 * q + 1 \in Nat /\ 2 * q + 1 > s
      BY <2>2, <2>6
    <3>3. Subtrees(n)[i][2 * q + 1] = EmptyRoot[i]
      BY <2>1, <3>2, EmptySubtrees
    <3>4. Sibling(frontier, i) = Subtrees(n)[i][2 * q + 1]
      BY <3>1, <3>3 DEF Sibling
    <3> QED
      BY <2>1, <2>2, <2>3, <2>4, <2>6, <3>4
  <2> QED
    BY <2>2, <2>5, <2>6
<1>3. Depth \in D
  <2> HIDE DEF D
  <2> QED
    BY <1>1, <1>2, NatSetInduction, DepthAssumption
<1> QED
  BY <1>3, DepthAssumption

\* For every depth and every number of leaves, the incremental tree has the root of the full one.
THEOREM RootsAreOfLeaves ==
  ASSUME NEW n \in Nat
  PROVE  RootIsOfLeaves(n)
BY FrontiersHave, PathFacts DEF RootIsOfLeaves, Root

---------------------------------------------------------------------------
(* Selection.                                                              *)

LEMMA GasDef ==
  ASSUME NEW T, NEW s \in Seq(T)
  PROVE  /\ GasUpTo(s)[0] = 0
         /\ \A i \in 0 .. Len(s) - 1 : GasUpTo(s)[i + 1] = GasUpTo(s)[i] + s[i + 1].gas
<1> DEFINE Step(a, i) == a + s[i].gas
           Body(g, m) == [i \in 0 .. m |-> IF i = 0 THEN 0 ELSE Step(g[i - 1], i)]
           D == {m \in Nat : \E g : g = Body(g, m)}
<1>1. GasUpTo(s) = CHOOSE g : g = Body(g, Len(s))
  BY DEF GasUpTo
<1> HIDE DEF Step
<1>2. 0 \in D
  <2>1. [i \in 0 .. 0 |-> 0] = Body([i \in 0 .. 0 |-> 0], 0)
    OBVIOUS
  <2> QED
    BY <2>1
<1>3. ASSUME NEW m \in Nat, m \in D PROVE m + 1 \in D
  <2>1. PICK g : g = Body(g, m)
    BY <1>3
  <2> DEFINE f == [i \in 0 .. m + 1 |-> IF i = m + 1 THEN Step(g[m], m + 1) ELSE g[i]]
  <2>2. f = Body(f, m + 1)
    BY <2>1
  <2> HIDE DEF Body, f
  <2> QED
    BY <2>2
<1>4. \E g : g = Body(g, Len(s))
  <2>1. Len(s) \in D
    <3> HIDE DEF D
    <3> QED
      BY <1>2, <1>3, NatSetInduction
  <2> QED
    BY <2>1
<1>5. GasUpTo(s) = Body(GasUpTo(s), Len(s))
  <2> HIDE DEF Body
  <2> QED
    BY <1>1, <1>4
<1>6. GasUpTo(s)[0] = 0
  BY <1>5
<1>7. ASSUME NEW i \in 0 .. Len(s) - 1 PROVE GasUpTo(s)[i + 1] = Step(GasUpTo(s)[i], i + 1)
  <2>1. i + 1 \in 0 .. Len(s) /\ i + 1 # 0 /\ (i + 1) - 1 = i
    OBVIOUS
  <2> QED
    BY <1>5, <2>1
<1> QED
  BY <1>6, <1>7 DEF Step

LEMMA SelectedDef ==
  ASSUME NEW T, NEW s \in Seq(T)
  PROVE  /\ Selected(s)[0] = <<>>
         /\ \A i \in 0 .. Len(s) - 1 : Selected(s)[i + 1] = Take(Selected(s)[i], s[i + 1])
<1> DEFINE Step(a, i) == Take(a, s[i])
           Body(g, m) == [i \in 0 .. m |-> IF i = 0 THEN <<>> ELSE Step(g[i - 1], i)]
           D == {m \in Nat : \E g : g = Body(g, m)}
<1>1. Selected(s) = CHOOSE g : g = Body(g, Len(s))
  BY DEF Selected
<1> HIDE DEF Step
<1>2. 0 \in D
  <2>1. [i \in 0 .. 0 |-> <<>>] = Body([i \in 0 .. 0 |-> <<>>], 0)
    OBVIOUS
  <2> QED
    BY <2>1
<1>3. ASSUME NEW m \in Nat, m \in D PROVE m + 1 \in D
  <2>1. PICK g : g = Body(g, m)
    BY <1>3
  <2> DEFINE f == [i \in 0 .. m + 1 |-> IF i = m + 1 THEN Step(g[m], m + 1) ELSE g[i]]
  <2>2. f = Body(f, m + 1)
    BY <2>1
  <2> HIDE DEF Body, f
  <2> QED
    BY <2>2
<1>4. \E g : g = Body(g, Len(s))
  <2>1. Len(s) \in D
    <3> HIDE DEF D
    <3> QED
      BY <1>2, <1>3, NatSetInduction
  <2> QED
    BY <2>1
<1>5. Selected(s) = Body(Selected(s), Len(s))
  <2> HIDE DEF Body
  <2> QED
    BY <1>1, <1>4
<1>6. Selected(s)[0] = <<>>
  BY <1>5
<1>7. ASSUME NEW i \in 0 .. Len(s) - 1 PROVE Selected(s)[i + 1] = Step(Selected(s)[i], i + 1)
  <2>1. i + 1 \in 0 .. Len(s) /\ i + 1 # 0 /\ (i + 1) - 1 = i
    OBVIOUS
  <2> QED
    BY <1>5, <2>1
<1> QED
  BY <1>6, <1>7 DEF Step

LEMMA PackedDef ==
  ASSUME NEW T, NEW s \in Seq(T)
  PROVE  /\ Packed(s)[0] = EmptyBlock
         /\ \A i \in 0 .. Len(s) - 1 : Packed(s)[i + 1] = Pack(Packed(s)[i], s[i + 1])
<1> DEFINE Step(a, i) == Pack(a, s[i])
           Body(g, m) == [i \in 0 .. m |-> IF i = 0 THEN EmptyBlock ELSE Step(g[i - 1], i)]
           D == {m \in Nat : \E g : g = Body(g, m)}
<1>1. Packed(s) = CHOOSE g : g = Body(g, Len(s))
  BY DEF Packed
<1> HIDE DEF Step
<1>2. 0 \in D
  <2>1. [i \in 0 .. 0 |-> EmptyBlock] = Body([i \in 0 .. 0 |-> EmptyBlock], 0)
    OBVIOUS
  <2> QED
    BY <2>1
<1>3. ASSUME NEW m \in Nat, m \in D PROVE m + 1 \in D
  <2>1. PICK g : g = Body(g, m)
    BY <1>3
  <2> DEFINE f == [i \in 0 .. m + 1 |-> IF i = m + 1 THEN Step(g[m], m + 1) ELSE g[i]]
  <2>2. f = Body(f, m + 1)
    BY <2>1
  <2> HIDE DEF Body, f
  <2> QED
    BY <2>2
<1>4. \E g : g = Body(g, Len(s))
  <2>1. Len(s) \in D
    <3> HIDE DEF D
    <3> QED
      BY <1>2, <1>3, NatSetInduction
  <2> QED
    BY <2>1
<1>5. Packed(s) = Body(Packed(s), Len(s))
  <2> HIDE DEF Body
  <2> QED
    BY <1>1, <1>4
<1>6. Packed(s)[0] = EmptyBlock
  BY <1>5
<1>7. ASSUME NEW i \in 0 .. Len(s) - 1 PROVE Packed(s)[i + 1] = Step(Packed(s)[i], i + 1)
  <2>1. i + 1 \in 0 .. Len(s) /\ i + 1 # 0 /\ (i + 1) - 1 = i
    OBVIOUS
  <2> QED
    BY <1>5, <2>1
<1> QED
  BY <1>6, <1>7 DEF Step

LEMMA GasType ==
  ASSUME NEW T, \A t \in T : t.gas \in Nat, NEW s \in Seq(T)
  PROVE  \A k \in 0 .. Len(s) :
           /\ GasUpTo(s)[k] \in Nat
           /\ \A j \in 0 .. k : GasUpTo(s)[j] \in Nat /\ GasUpTo(s)[j] <= GasUpTo(s)[k]
<1> DEFINE D == {k \in Nat : k <= Len(s) =>
                   /\ GasUpTo(s)[k] \in Nat
                   /\ \A j \in 0 .. k : GasUpTo(s)[j] \in Nat /\ GasUpTo(s)[j] <= GasUpTo(s)[k]}
<1>1. 0 \in D
  BY GasDef
<1>2. ASSUME NEW k \in Nat, k \in D PROVE k + 1 \in D
  <2> SUFFICES ASSUME k + 1 <= Len(s)
               PROVE  /\ GasUpTo(s)[k + 1] \in Nat
                      /\ \A j \in 0 .. k + 1 :
                           GasUpTo(s)[j] \in Nat /\ GasUpTo(s)[j] <= GasUpTo(s)[k + 1]
    OBVIOUS
  <2>1. k \in 0 .. Len(s) - 1 /\ k + 1 \in 1 .. Len(s) /\ k <= Len(s)
    OBVIOUS
  <2>2. GasUpTo(s)[k + 1] = GasUpTo(s)[k] + s[k + 1].gas /\ s[k + 1].gas \in Nat
    BY <2>1, GasDef
  <2>3. /\ GasUpTo(s)[k] \in Nat
        /\ \A j \in 0 .. k : GasUpTo(s)[j] \in Nat /\ GasUpTo(s)[j] <= GasUpTo(s)[k]
    BY <1>2, <2>1
  <2>4. \A j \in 0 .. k + 1 : j \in 0 .. k \/ j = k + 1
    OBVIOUS
  <2> QED
    BY <2>2, <2>3, <2>4
<1>3. Nat \subseteq D
  <2> HIDE DEF D
  <2> QED
    BY <1>1, <1>2, NatSetInduction
<1> QED
  BY <1>3

\* Sequences that begin alike use the same gas there.
LEMMA GasPrefix ==
  ASSUME NEW T, NEW s \in Seq(T), NEW t \in Seq(T), NEW n \in Nat, n <= Len(s), n <= Len(t),
         \A j \in 1 .. n : s[j] = t[j]
  PROVE  GasUpTo(s)[n] = GasUpTo(t)[n]
<1> DEFINE D == {k \in Nat : k <= n => GasUpTo(s)[k] = GasUpTo(t)[k]}
<1>1. 0 \in D
  BY GasDef
<1>2. ASSUME NEW k \in Nat, k \in D PROVE k + 1 \in D
  <2> SUFFICES ASSUME k + 1 <= n PROVE GasUpTo(s)[k + 1] = GasUpTo(t)[k + 1]
    OBVIOUS
  <2>1. k \in 0 .. Len(s) - 1 /\ k \in 0 .. Len(t) - 1 /\ k + 1 \in 1 .. n
    OBVIOUS
  <2>2. GasUpTo(s)[k] = GasUpTo(t)[k] /\ s[k + 1] = t[k + 1]
    BY <1>2, <2>1
  <2> QED
    BY <2>1, <2>2, GasDef
<1>3. n \in D
  <2> HIDE DEF D
  <2> QED
    BY <1>1, <1>2, NatSetInduction
<1> QED
  BY <1>3

LEMMA GasAppend ==
  ASSUME NEW T, NEW s \in Seq(T), NEW x \in T
  PROVE  GasOf(Append(s, x)) = GasOf(s) + x.gas
<1> DEFINE t == Append(s, x)
<1>1. /\ t \in Seq(T) /\ Len(t) = Len(s) + 1 /\ Len(s) \in Nat /\ t[Len(s) + 1] = x
      /\ \A j \in 1 .. Len(s) : s[j] = t[j]
  OBVIOUS
<1> HIDE DEF t
<1>2. GasUpTo(s)[Len(s)] = GasUpTo(t)[Len(s)]
  BY <1>1, GasPrefix
<1>3. GasUpTo(t)[Len(s) + 1] = GasUpTo(t)[Len(s)] + t[Len(s) + 1].gas
  BY <1>1, GasDef
<1>4. GasOf(t) = GasOf(s) + x.gas
  BY <1>1, <1>2, <1>3 DEF GasOf
<1> QED
  BY <1>4 DEF t

LEMMA GasOfNone == GasOf(<<>>) = 0
<1>1. <<>> \in Seq({}) /\ Len(<<>>) = 0
  OBVIOUS
<1> QED
  BY <1>1, GasDef DEF GasOf

LEMMA SequenceFacts ==
  ASSUME NEW T, NEW s \in Seq(T), NEW x \in T
  PROVE  /\ Append(s, x) \in Seq(T) /\ Len(Append(s, x)) = Len(s) + 1 /\ Len(s) \in Nat
         /\ Append(s, x)[Len(s) + 1] = x
         /\ \A j \in 1 .. Len(s) : Append(s, x)[j] = s[j]
  OBVIOUS

\* v is taken from the first k of c.
TakenFrom(v, c, k) == \A j \in 1 .. Len(v) : \E i \in 1 .. k : v[j] = c[i]

\* What is selected from the first k candidates is among them, and fits.
LEMMA SelectedFits ==
  ASSUME NEW T, \A t \in T : t.gas \in Nat, NEW c \in Seq(T)
  PROVE  \A k \in 0 .. Len(c) :
           /\ Selected(c)[k] \in Seq(T)
           /\ Len(Selected(c)[k]) <= MaxTxs /\ GasOf(Selected(c)[k]) <= MaxBlockGas
           /\ TakenFrom(Selected(c)[k], c, k)
<1> USE DEF TakenFrom
<1> DEFINE Fits(v, k) == /\ v \in Seq(T)
                         /\ Len(v) <= MaxTxs /\ GasOf(v) <= MaxBlockGas
                         /\ TakenFrom(v, c, k)
           D == {k \in Nat : k <= Len(c) => Fits(Selected(c)[k], k)}
<1>1. 0 \in D
  <2>1. Fits(<<>>, 0)
    BY GasOfNone, SelectionAssumption
  <2> QED
    BY <2>1, SelectedDef
<1>2. ASSUME NEW k \in Nat, k \in D PROVE k + 1 \in D
  <2> HIDE DEF Fits
  <2> SUFFICES ASSUME k + 1 <= Len(c) PROVE Fits(Selected(c)[k + 1], k + 1)
    OBVIOUS
  <2> USE DEF Fits
  <2> DEFINE v == Selected(c)[k]
             x == c[k + 1]
  <2>1. k \in 0 .. Len(c) - 1 /\ k <= Len(c) /\ k + 1 \in 1 .. Len(c) /\ x \in T
    OBVIOUS
  <2>2. Selected(c)[k + 1] = Take(v, x) /\ Fits(v, k)
    BY <1>2, <2>1, SelectedDef
  <2> HIDE DEF v
  <2>3. Fits(v, k + 1)
    <3>1. \A i \in 1 .. k : i \in 1 .. k + 1
      OBVIOUS
    <3> QED
      BY <2>2, <3>1
  <2>4. ASSUME ~(Len(v) >= MaxTxs \/ GasOf(v) + x.gas > MaxBlockGas) PROVE Fits(Append(v, x), k + 1)
    <3>1. /\ Append(v, x) \in Seq(T) /\ Len(Append(v, x)) = Len(v) + 1 /\ Len(v) \in Nat
          /\ Append(v, x)[Len(v) + 1] = x
          /\ \A j \in 1 .. Len(v) : Append(v, x)[j] = v[j]
      BY <2>1, <2>2, SequenceFacts
    <3>2. GasOf(Append(v, x)) = GasOf(v) + x.gas
      BY <2>1, <2>2, GasAppend
    <3>3. GasOf(v) \in Nat /\ x.gas \in Nat
      <4>1. Len(v) \in 0 .. Len(v) /\ v \in Seq(T)
        BY <2>2
      <4> QED
        BY <2>1, <4>1, GasType DEF GasOf
    <3>4. Len(Append(v, x)) <= MaxTxs /\ GasOf(Append(v, x)) <= MaxBlockGas
      BY <2>4, <3>1, <3>2, <3>3, SelectionAssumption
    <3>5. ASSUME NEW j \in 1 .. Len(v) + 1 PROVE \E i \in 1 .. k + 1 : Append(v, x)[j] = c[i]
      <4>1. CASE j = Len(v) + 1
        BY <3>1, <4>1
      <4>2. CASE j # Len(v) + 1
        <5>1. j \in 1 .. Len(v)
          BY <3>1, <4>2
        <5> QED
          BY <2>3, <3>1, <5>1
      <4> QED
        BY <4>1, <4>2
    <3> QED
      BY <3>1, <3>4, <3>5
  <2>5. CASE Len(v) >= MaxTxs \/ GasOf(v) + x.gas > MaxBlockGas
    <3>1. Take(v, x) = v
      BY <2>5 DEF Take
    <3> HIDE DEF Fits
    <3> QED
      BY <2>2, <2>3, <3>1
  <2>6. CASE ~(Len(v) >= MaxTxs \/ GasOf(v) + x.gas > MaxBlockGas)
    <3>1. Take(v, x) = Append(v, x)
      BY <2>6 DEF Take
    <3> HIDE DEF Fits
    <3> QED
      BY <2>2, <2>4, <2>6, <3>1
  <2> QED
    BY <2>5, <2>6
<1>3. Nat \subseteq D
  <2> HIDE DEF D
  <2> QED
    BY <1>1, <1>2, NatSetInduction
<1> HIDE DEF TakenFrom
<1> QED
  BY <1>3

\* What is selected early stays selected, at its place.
LEMMA SelectedGrows ==
  ASSUME NEW T, \A t \in T : t.gas \in Nat, NEW c \in Seq(T), NEW m \in 0 .. Len(c)
  PROVE  \A k \in m .. Len(c) :
           /\ Len(Selected(c)[m]) <= Len(Selected(c)[k])
           /\ \A j \in 1 .. Len(Selected(c)[m]) : Selected(c)[k][j] = Selected(c)[m][j]
<1> DEFINE Grew(v, w) == Len(v) <= Len(w) /\ \A j \in 1 .. Len(v) : w[j] = v[j]
           D == {k \in Nat : k \in m .. Len(c) => Grew(Selected(c)[m], Selected(c)[k])}
<1>1. 0 \in D
  <2> SUFFICES ASSUME 0 \in m .. Len(c) PROVE Grew(Selected(c)[m], Selected(c)[0])
    OBVIOUS
  <2>1. m = 0
    OBVIOUS
  <2>2. Selected(c)[0] = <<>>
    BY SelectedDef
  <2> QED
    BY <2>1, <2>2
<1>2. ASSUME NEW k \in Nat, k \in D PROVE k + 1 \in D
  <2> SUFFICES ASSUME k + 1 \in m .. Len(c) PROVE Grew(Selected(c)[m], Selected(c)[k + 1])
    OBVIOUS
  <2>1. k \in 0 .. Len(c) - 1 /\ k \in 0 .. Len(c) /\ m \in 0 .. Len(c) /\ c[k + 1] \in T
    OBVIOUS
  <2>4. \A i \in 0 .. Len(c) : Selected(c)[i] \in Seq(T)
    BY SelectedFits
  <2>5. Selected(c)[m] \in Seq(T) /\ Selected(c)[k] \in Seq(T)
    BY <2>1, <2>4
  <2>2. CASE k + 1 = m
    BY <2>1, <2>2, <2>5
  <2>3. CASE k \in m .. Len(c)
    <3>1. Grew(Selected(c)[m], Selected(c)[k])
      BY <1>2, <2>3
    <3>2. Selected(c)[k + 1] \in {Selected(c)[k], Append(Selected(c)[k], c[k + 1])}
      BY <2>1, SelectedDef DEF Take
    <3>3. /\ Len(Append(Selected(c)[k], c[k + 1])) = Len(Selected(c)[k]) + 1
          /\ Len(Selected(c)[k]) \in Nat /\ Len(Selected(c)[m]) \in Nat
          /\ \A j \in 1 .. Len(Selected(c)[k]) : Append(Selected(c)[k], c[k + 1])[j] = Selected(c)[k][j]
      BY <2>1, <2>5, SequenceFacts
    <3>4. Grew(Selected(c)[m], Append(Selected(c)[k], c[k + 1]))
      BY <3>1, <3>3
    <3> HIDE DEF Grew
    <3> QED
      BY <3>1, <3>2, <3>4
  <2> QED
    BY <2>2, <2>3
<1>3. Nat \subseteq D
  <2> HIDE DEF D
  <2> QED
    BY <1>1, <1>2, NatSetInduction
<1>4. \A k \in m .. Len(c) : Grew(Selected(c)[m], Selected(c)[k])
  <2> HIDE DEF Grew
  <2> QED
    BY <1>3
<1> QED
  BY <1>4

\* What fits whole is packed whole.
LEMMA PackedAll ==
  ASSUME NEW T, \A t \in T : t.gas \in Nat, NEW r \in Seq(T),
         \A j \in 1 .. Len(r) : WellFormed(r[j]), GasOf(r) <= MaxBlockGas
  PROVE  Packed(r)[Len(r)].txs = r
<1> DEFINE Begins(b, k) == /\ b = [txs |-> b.txs, full |-> FALSE]
                           /\ b.txs \in Seq(T) /\ Len(b.txs) = k
                           /\ \A j \in 1 .. k : b.txs[j] = r[j]
           D == {k \in Nat : k <= Len(r) => Begins(Packed(r)[k], k)}
<1>1. 0 \in D
  <2>1. Begins(EmptyBlock, 0)
    BY DEF EmptyBlock
  <2> HIDE DEF Begins
  <2> QED
    BY <2>1, PackedDef
<1>2. ASSUME NEW k \in Nat, k \in D PROVE k + 1 \in D
  <2> HIDE DEF Begins
  <2> SUFFICES ASSUME k + 1 <= Len(r) PROVE Begins(Packed(r)[k + 1], k + 1)
    OBVIOUS
  <2> DEFINE b == Packed(r)[k]
             v == b.txs
             x == r[k + 1]
  <2>1. /\ k \in 0 .. Len(r) - 1 /\ k \in 0 .. Len(r) /\ k + 1 \in 1 .. Len(r) /\ k <= Len(r)
        /\ Len(r) \in Nat
    OBVIOUS
  <2>2. x \in T /\ WellFormed(x) /\ x.gas \in Nat
    BY <2>1
  <2>3. Packed(r)[k + 1] = Pack(b, x) /\ Begins(b, k)
    BY <1>2, <2>1, PackedDef
  <2> HIDE DEF b
  <2>4. /\ b = [txs |-> v, full |-> FALSE] /\ v \in Seq(T) /\ Len(v) = k
        /\ \A j \in 1 .. k : v[j] = r[j]
    BY <2>3 DEF Begins
  <2> HIDE DEF v, x
  <2>5. GasOf(v) + x.gas <= MaxBlockGas
    <3>1. GasUpTo(v)[k] = GasUpTo(r)[k]
      BY <2>1, <2>4, GasPrefix
    <3>2. GasUpTo(r)[k + 1] = GasUpTo(r)[k] + x.gas
      BY <2>1, GasDef DEF x
    <3>3. /\ GasUpTo(r)[k + 1] <= GasUpTo(r)[Len(r)]
          /\ GasUpTo(r)[Len(r)] \in Nat /\ GasUpTo(r)[k + 1] \in Nat
      <4>1. Len(r) \in 0 .. Len(r) /\ k + 1 \in 0 .. Len(r)
        BY <2>1
      <4> QED
        BY <4>1, GasType
    <3>4. GasUpTo(r)[k + 1] <= MaxBlockGas
      BY <3>3, SelectionAssumption DEF GasOf
    <3> QED
      BY <2>4, <3>1, <3>2, <3>4 DEF GasOf
  <2>6. Pack(b, x) = [b EXCEPT !.txs = Append(v, x)]
    <3>1. b.full = FALSE
      BY <2>4
    <3>2. GasOf(v) \in Nat
      <4>1. Len(v) \in 0 .. Len(v)
        BY <2>4
      <4> QED
        BY <2>4, <4>1, GasType DEF GasOf
    <3>3. ~(GasOf(b.txs) + x.gas > MaxBlockGas)
      BY <2>2, <2>5, <3>2, SelectionAssumption DEF v
    <3> QED
      BY <2>2, <3>1, <3>3 DEF Pack, v
  <2>7. Pack(b, x) = [txs |-> Append(v, x), full |-> FALSE]
    BY <2>4, <2>6
  <2>8. /\ Append(v, x) \in Seq(T) /\ Len(Append(v, x)) = k + 1
        /\ Append(v, x)[k + 1] = x /\ \A j \in 1 .. k : Append(v, x)[j] = v[j]
    BY <2>2, <2>4, SequenceFacts
  <2>9. ASSUME NEW j \in 1 .. k + 1 PROVE Append(v, x)[j] = r[j]
    <3>1. j = k + 1 \/ j \in 1 .. k
      OBVIOUS
    <3> QED
      BY <2>4, <2>8, <3>1 DEF x
  <2>10. Begins([txs |-> Append(v, x), full |-> FALSE], k + 1)
    BY <2>8, <2>9 DEF Begins
  <2> QED
    BY <2>3, <2>7, <2>10
<1>3. Len(r) \in D
  <2> HIDE DEF D
  <2> QED
    BY <1>1, <1>2, NatSetInduction
<1>4. /\ Packed(r)[Len(r)].txs \in Seq(T) /\ Len(Packed(r)[Len(r)].txs) = Len(r)
      /\ \A j \in 1 .. Len(r) : Packed(r)[Len(r)].txs[j] = r[j]
  BY <1>3
<1> QED
  BY <1>4

\* The candidates in an order are the well-formed transactions of the pool.
LEMMA OrdersFacts ==
  ASSUME NEW pool, IsFiniteSet(pool), NEW c \in Orders(pool)
  PROVE  /\ c \in Seq(pool)
         /\ \A i \in 1 .. Len(c) : WellFormed(c[i])
         /\ \A tx \in pool : WellFormed(tx) => \E i \in 1 .. Len(c) : c[i] = tx
         /\ \A i, j \in 1 .. Len(c) : i < j => c[i].fee >= c[j].fee
<1> DEFINE Q == {tx \in pool : WellFormed(tx)}
           n == Cardinality(Q)
<1>1. IsFiniteSet(Q)
  BY FS_Subset
<1>2. n \in Nat
  BY <1>1, FS_CardinalityType
<1>3. c \in [1 .. n -> Q] /\ \A i, j \in 1 .. n : i # j => c[i] # c[j]
  BY DEF Orders, SetToSeqs
<1>4. \A i, j \in DOMAIN c : i < j => c[i].fee >= c[j].fee
  BY DEF Orders
<1>5. c \in Injection(1 .. n, Q)
  BY <1>3 DEF Injection, IsInjective
<1>6. IsFiniteSet(1 .. n) /\ Cardinality(1 .. n) = n
  BY <1>2, FS_Interval
<1>7. c \in Surjection(1 .. n, Q)
  <2>1. Cardinality(1 .. n) = Cardinality(Q) <=> c \in Surjection(1 .. n, Q)
    BY <1>1, <1>5, FS_Injection
  <2> QED
    BY <1>6, <2>1
<1>8. \A tx \in Q : \E i \in 1 .. n : c[i] = tx
  BY <1>7 DEF Surjection
<1>9. \A i \in 1 .. n : c[i] \in pool /\ WellFormed(c[i])
  BY <1>3
<1>10. c \in Seq(pool) /\ Len(c) = n /\ DOMAIN c = 1 .. n
  <2> HIDE DEF Q, n
  <2>1. c = [i \in 1 .. n |-> c[i]]
    BY <1>3
  <2>2. [i \in 1 .. n |-> c[i]] \in Seq(pool) /\ Len([i \in 1 .. n |-> c[i]]) = n
    BY <1>2, <1>9
  <2> QED
    BY <1>3, <2>1, <2>2
<1> QED
  BY <1>4, <1>8, <1>9, <1>10

\* A selection fits in a block, and its transactions are in the pool.
LEMMA SelectionFits ==
  ASSUME NEW pool, IsFiniteSet(pool), \A t \in pool : t.gas \in Nat, NEW s \in SelectForBlock(pool)
  PROVE  /\ s \in Seq(pool) /\ Len(s) <= MaxTxs /\ GasOf(s) <= MaxBlockGas
         /\ \A j \in 1 .. Len(s) : WellFormed(s[j])
<1>1. PICK c \in Orders(pool) : s = Selected(c)[Len(c)]
  BY DEF SelectForBlock
<1>2. c \in Seq(pool) /\ \A i \in 1 .. Len(c) : WellFormed(c[i])
  BY OrdersFacts
<1>3. Len(c) \in 0 .. Len(c)
  BY <1>2
<1>4. s \in Seq(pool) /\ Len(s) <= MaxTxs /\ GasOf(s) <= MaxBlockGas /\ TakenFrom(s, c, Len(c))
  BY <1>1, <1>2, <1>3, SelectedFits
<1> QED
  BY <1>2, <1>4 DEF TakenFrom

\* What is built from a selection holds all of it.
LEMMA BuiltWhole ==
  ASSUME NEW pool, IsFiniteSet(pool), \A t \in pool : t.gas \in Nat, NEW s \in SelectForBlock(pool)
  PROVE  BuildBlock(s).transactions = s /\ BuildBlock(s).rooted = s
<1>1. Packed(s)[Len(s)].txs = s
  BY SelectionFits, PackedAll
<1> QED
  BY <1>1 DEF BuildBlock

\* A candidate is passed over only for those selected from before it.
LEMMA PassedOver ==
  ASSUME NEW T, \A t \in T : t.gas \in Nat, NEW c \in Seq(T), NEW m \in 1 .. Len(c),
         c[m] \notin ToSet(Selected(c)[Len(c)])
  PROVE  \E k \in 0 .. Len(Selected(c)[Len(c)]) :
           /\ \A j \in 1 .. k : \E i \in 1 .. m - 1 : Selected(c)[Len(c)][j] = c[i]
           /\ k = MaxTxs \/ GasUpTo(Selected(c)[Len(c)])[k] + c[m].gas > MaxBlockGas
<1> DEFINE s == Selected(c)[Len(c)]
           tx == c[m]
<1>1. PICK q \in 0 .. Len(c) : q = m - 1
  OBVIOUS
<1> DEFINE v == Selected(c)[q]
           w == Selected(c)[m]
<1>2. /\ q \in 0 .. Len(c) - 1 /\ q + 1 = m /\ m \in 0 .. Len(c)
      /\ Len(c) \in 0 .. Len(c) /\ Len(c) \in q .. Len(c) /\ Len(c) \in m .. Len(c)
  BY <1>1
<1>3. v \in Seq(T) /\ Len(v) <= MaxTxs /\ TakenFrom(v, c, q)
  BY SelectedFits
<1>4. s \in Seq(T)
  BY <1>2, SelectedFits
<1>5. w = Take(v, tx)
  BY <1>2, SelectedDef
<1>6. Len(v) <= Len(s) /\ \A j \in 1 .. Len(v) : s[j] = v[j]
  BY <1>2, SelectedGrows
<1>7. Len(w) <= Len(s) /\ \A j \in 1 .. Len(w) : s[j] = w[j]
  BY <1>2, SelectedGrows
<1>8. tx \in T /\ tx \notin ToSet(s)
  OBVIOUS
<1> HIDE DEF v, w, s, tx
<1>9. Len(v) >= MaxTxs \/ GasOf(v) + tx.gas > MaxBlockGas
  <2> SUFFICES ASSUME ~(Len(v) >= MaxTxs \/ GasOf(v) + tx.gas > MaxBlockGas) PROVE FALSE
    OBVIOUS
  <2>1. w = Append(v, tx)
    BY <1>5 DEF Take
  <2>2. Len(Append(v, tx)) = Len(v) + 1 /\ Len(v) \in Nat /\ Append(v, tx)[Len(v) + 1] = tx
    BY <1>3, <1>8, SequenceFacts
  <2>3. Len(v) + 1 \in 1 .. Len(s) /\ s[Len(v) + 1] = tx
    <3>1. Len(w) = Len(v) + 1 /\ w[Len(v) + 1] = tx
      BY <2>1, <2>2
    <3>2. Len(s) \in Nat /\ Len(v) + 1 \in 1 .. Len(w)
      BY <1>4, <2>2, <3>1
    <3> QED
      BY <1>7, <2>2, <3>1, <3>2
  <2>4. DOMAIN s = 1 .. Len(s)
    BY <1>4
  <2> QED
    BY <1>8, <2>3, <2>4 DEF ToSet
<1>10. Len(v) \in 0 .. Len(s) /\ Len(v) \in Nat
  BY <1>3, <1>4, <1>6
<1>11. GasUpTo(s)[Len(v)] = GasOf(v)
  <2>1. GasUpTo(v)[Len(v)] = GasUpTo(s)[Len(v)]
    BY <1>3, <1>4, <1>6, <1>10, GasPrefix
  <2> QED
    BY <2>1 DEF GasOf
<1>12. \A j \in 1 .. Len(v) : \E i \in 1 .. m - 1 : s[j] = c[i]
  BY <1>1, <1>3, <1>6 DEF TakenFrom
<1>13. Len(v) = MaxTxs \/ GasUpTo(s)[Len(v)] + tx.gas > MaxBlockGas
  BY <1>3, <1>9, <1>10, <1>11, SelectionAssumption
<1> QED
  BY <1>10, <1>12, <1>13 DEF s, tx

\* Greedy: what is left out did not fit after transactions that pay as much.
LEMMA SelectionLeavesOut ==
  ASSUME NEW pool, IsFiniteSet(pool), \A t \in pool : t.gas \in Nat, NEW s \in SelectForBlock(pool),
         NEW tx \in pool, WellFormed(tx), tx \notin ToSet(s)
  PROVE  \E k \in 0 .. Len(s) :
           /\ \A j \in 1 .. k : s[j].fee >= tx.fee
           /\ k = MaxTxs \/ GasUpTo(s)[k] + tx.gas > MaxBlockGas
<1>1. PICK c \in Orders(pool) : s = Selected(c)[Len(c)]
  BY DEF SelectForBlock
<1>2. /\ c \in Seq(pool)
      /\ \E i \in 1 .. Len(c) : c[i] = tx
      /\ \A i, j \in 1 .. Len(c) : i < j => c[i].fee >= c[j].fee
  BY OrdersFacts
<1>3. PICK m \in 1 .. Len(c) : c[m] = tx
  BY <1>2
<1>4. PICK k \in 0 .. Len(s) :
        /\ \A j \in 1 .. k : \E i \in 1 .. m - 1 : s[j] = c[i]
        /\ k = MaxTxs \/ GasUpTo(s)[k] + tx.gas > MaxBlockGas
  BY <1>1, <1>2, <1>3, PassedOver
<1>5. ASSUME NEW j \in 1 .. k PROVE s[j].fee >= tx.fee
  <2>1. PICK i \in 1 .. m - 1 : s[j] = c[i]
    BY <1>4
  <2>2. i \in 1 .. Len(c) /\ i < m
    BY <1>2
  <2> QED
    BY <1>2, <1>3, <2>1, <2>2
<1> QED
  BY <1>4, <1>5

\* BlocksAreGreedy of every finite pool: blocks built from a selection hold all
\* of it, which is the best paid that fits (pool.rs 82-114, block_builder.rs
\* 44-70).
THEOREM GreedyBlocks ==
  ASSUME NEW pool, IsFiniteSet(pool), \A t \in pool : t.gas \in Nat
  PROVE  BlocksAreGreedy(pool)
BY BuiltWhole, SelectionLeavesOut DEF BlocksAreGreedy


---------------------------------------------------------------------------
(* Fees and rewards.                                                       *)

LEMMA BaseFeesDef ==
  ASSUME NEW base, NEW target, NEW blocks \in Seq(Nat)
  PROVE  /\ BaseFees(base, target, blocks)[0] = base
         /\ \A i \in 0 .. Len(blocks) - 1 :
              BaseFees(base, target, blocks)[i + 1]
                = AdjustBaseFee(BaseFees(base, target, blocks)[i], target, blocks[i + 1])
<1> DEFINE Step(a, i) == AdjustBaseFee(a, target, blocks[i])
           Body(g, m) == [i \in 0 .. m |-> IF i = 0 THEN base ELSE Step(g[i - 1], i)]
           D == {m \in Nat : \E g : g = Body(g, m)}
<1>1. BaseFees(base, target, blocks) = CHOOSE g : g = Body(g, Len(blocks))
  BY DEF BaseFees
<1> HIDE DEF Step
<1>2. 0 \in D
  <2>1. [i \in 0 .. 0 |-> base] = Body([i \in 0 .. 0 |-> base], 0)
    OBVIOUS
  <2> QED
    BY <2>1
<1>3. ASSUME NEW m \in Nat, m \in D PROVE m + 1 \in D
  <2>1. PICK g : g = Body(g, m)
    BY <1>3
  <2> DEFINE f == [i \in 0 .. m + 1 |-> IF i = m + 1 THEN Step(g[m], m + 1) ELSE g[i]]
  <2>2. f = Body(f, m + 1)
    BY <2>1
  <2> HIDE DEF Body, f
  <2> QED
    BY <2>2
<1>4. \E g : g = Body(g, Len(blocks))
  <2>1. Len(blocks) \in D
    <3> HIDE DEF D
    <3> QED
      BY <1>2, <1>3, NatSetInduction
  <2> QED
    BY <2>1
<1>5. BaseFees(base, target, blocks) = Body(BaseFees(base, target, blocks), Len(blocks))
  <2> HIDE DEF Body
  <2> QED
    BY <1>1, <1>4
<1>6. BaseFees(base, target, blocks)[0] = base
  BY <1>5
<1>7. ASSUME NEW i \in 0 .. Len(blocks) - 1
      PROVE  BaseFees(base, target, blocks)[i + 1] = Step(BaseFees(base, target, blocks)[i], i + 1)
  <2>1. i + 1 \in 0 .. Len(blocks) /\ i + 1 # 0 /\ (i + 1) - 1 = i
    OBVIOUS
  <2> QED
    BY <1>5, <2>1
<1> QED
  BY <1>6, <1>7 DEF Step

LEMMA ShiftedRewardDef ==
   /\ ShiftedReward[0] = INITIAL_BLOCK_REWARD
         /\ \A i \in 0 .. 64 - 1 : ShiftedReward[i + 1] = ShiftedReward[i] \div 2
<1> DEFINE Step(a, i) == a \div 2
           Body(g, m) == [i \in 0 .. m |-> IF i = 0 THEN INITIAL_BLOCK_REWARD ELSE Step(g[i - 1], i - 1)]
           D == {m \in Nat : \E g : g = Body(g, m)}
<1>1. ShiftedReward = CHOOSE g : g = Body(g, 64)
  BY DEF ShiftedReward
<1> HIDE DEF Step
<1>2. 0 \in D
  <2>1. [i \in 0 .. 0 |-> INITIAL_BLOCK_REWARD] = Body([i \in 0 .. 0 |-> INITIAL_BLOCK_REWARD], 0)
    OBVIOUS
  <2> QED
    BY <2>1
<1>3. ASSUME NEW m \in Nat, m \in D PROVE m + 1 \in D
  <2>1. PICK g : g = Body(g, m)
    BY <1>3
  <2> DEFINE f == [i \in 0 .. m + 1 |-> IF i = m + 1 THEN Step(g[m], m) ELSE g[i]]
  <2>2. f = Body(f, m + 1)
    BY <2>1
  <2> HIDE DEF Body, f
  <2> QED
    BY <2>2
<1>4. \E g : g = Body(g, 64)
  <2>1. 64 \in D
    <3> HIDE DEF D
    <3> QED
      BY <1>2, <1>3, NatSetInduction
  <2> QED
    BY <2>1
<1>5. ShiftedReward = Body(ShiftedReward, 64)
  <2> HIDE DEF Body
  <2> QED
    BY <1>1, <1>4
<1>6. ShiftedReward[0] = INITIAL_BLOCK_REWARD
  BY <1>5
<1>7. ASSUME NEW i \in 0 .. 64 - 1 PROVE ShiftedReward[i + 1] = Step(ShiftedReward[i], i)
  <2>1. i + 1 \in 0 .. 64 /\ i + 1 # 0 /\ (i + 1) - 1 = i
    OBVIOUS
  <2> QED
    BY <1>5, <2>1
<1> QED
  BY <1>6, <1>7 DEF Step

LEMMA FloorIsOne == BaseFeeFloor = 1
  BY DEF BaseFeeFloor, MIN_FEE, BASE_TX_GAS

\* What division by any positive number is.
LEMMA Quotient ==
  ASSUME NEW a \in Nat, NEW n \in Nat \ {0}
  PROVE  a \div n \in Nat /\ (a \div n) * n <= a /\ a < (a \div n) * n + n
  OBVIOUS

LEMMA Cancel ==
  ASSUME NEW a \in Nat, NEW b \in Nat, NEW n \in Nat \ {0}, a * n <= b * n
  PROVE  a <= b
<1> SUFFICES ASSUME a >= b + 1 PROVE FALSE
  OBVIOUS
<1>1. PICK d \in Nat : a = (b + 1) + d
  <2>1. a - (b + 1) \in Nat /\ a = (b + 1) + (a - (b + 1))
    OBVIOUS
  <2> QED
    BY <2>1
<1>2. a * n = b * n + n + d * n
  BY <1>1
<1>3. d * n \in Nat /\ b * n \in Nat
  OBVIOUS
<1> QED
  BY <1>2, <1>3

\* A distance d from the target of at most the target moves by an eighth at most.
LEMMA EighthAtMost ==
  ASSUME NEW base \in Nat, NEW target \in Nat \ {0}, NEW d \in Nat, d <= target
  PROVE  /\ (base * d) \div (8 * target) \in Nat
         /\ 8 * ((base * d) \div (8 * target)) <= base
<1>1. base * d \in Nat /\ 8 * target \in Nat \ {0}
  OBVIOUS
<1>2. PICK q \in Nat : q = (base * d) \div (8 * target)
  BY <1>1, Quotient
<1>3. q * (8 * target) <= base * d
  BY <1>1, <1>2, Quotient
<1>4. base * d <= base * target
  <2>1. PICK e \in Nat : target = d + e
    <3>1. target - d \in Nat /\ target = d + (target - d)
      OBVIOUS
    <3> QED
      BY <3>1
  <2>2. base * target = base * d + base * e /\ base * e \in Nat /\ base * d \in Nat
    BY <2>1
  <2> QED
    BY <2>2
<1>5. (8 * q) * target <= base * target
  <2>1. q * (8 * target) = (8 * q) * target
    BY <1>2
  <2>2. base * target \in Nat /\ (8 * q) * target \in Nat
    BY <1>2
  <2> QED
    BY <1>1, <1>3, <1>4, <2>1, <2>2
<1>6. 8 * q <= base
  <2>1. 8 * q \in Nat
    BY <1>2
  <2> QED
    BY <1>5, <2>1, Cancel
<1> QED
  BY <1>2, <1>6

\* One block.
LEMMA FeeMoves ==
  ASSUME NEW base \in Nat, base >= BaseFeeFloor, NEW target \in Nat \ {0}, NEW used \in Nat,
         used <= 2 * target, NEW next, next = AdjustBaseFee(base, target, used)
  PROVE  /\ 8 * (next - base) <= base /\ 8 * (base - next) <= base
         /\ used > target => next >= base
         /\ used < target => next <= base
         /\ base < 8 => next >= base
         /\ base \in BaseFeeFloor .. 7 => next = base
<1>1. CASE used >= target
  <2>1. PICK d \in Nat : d = used - target
    BY <1>1
  <2>2. d <= target
    BY <2>1
  <2>3. PICK q \in Nat : q = (base * d) \div (8 * target) /\ 8 * q <= base
    BY <2>2, EighthAtMost
  <2>4. base * d \in Nat
    OBVIOUS
  <2>5. TowardsZero(base * (used - target), 8 * target) = q
    BY <2>1, <2>3, <2>4 DEF TowardsZero
  <2>6. next = base + q
    BY <2>5, FloorIsOne DEF AdjustBaseFee
  <2> QED
    BY <1>1, <2>3, <2>6, FloorIsOne
<1>2. CASE used < target
  <2>1. PICK d \in Nat : d = target - used
    BY <1>2
  <2>2. d <= target /\ d > 0
    BY <1>2, <2>1
  <2>3. PICK q \in Nat : q = (base * d) \div (8 * target) /\ 8 * q <= base
    BY <2>2, EighthAtMost
  <2>4. base * d \in Nat /\ base * d > 0
    BY <2>2, FloorIsOne
  <2>5. base * (used - target) = -(base * d)
    BY <2>1
  <2>6. TowardsZero(base * (used - target), 8 * target) = -q
    <3>1. ~(base * (used - target) >= 0) /\ -(base * (used - target)) = base * d
      BY <2>4, <2>5
    <3> QED
      BY <2>3, <3>1 DEF TowardsZero
  <2>7. next = IF base - q < BaseFeeFloor THEN BaseFeeFloor ELSE base - q
    BY <2>3, <2>6 DEF AdjustBaseFee
  <2> QED
    BY <1>2, <2>3, <2>7, FloorIsOne
<1> QED
  BY <1>1, <1>2

\* From the floor, less than nine times the target moves nothing.
LEMMA FloorStays ==
  ASSUME NEW target \in Nat \ {0}, NEW used \in Nat, used < 9 * target
  PROVE  AdjustBaseFee(BaseFeeFloor, target, used) = BaseFeeFloor
<1>1. \A d \in Nat : d < 8 * target => d \div (8 * target) = 0
  <2> SUFFICES ASSUME NEW d \in Nat, d < 8 * target PROVE d \div (8 * target) = 0
    OBVIOUS
  <2>1. PICK q \in Nat : q = d \div (8 * target)
    BY Quotient
  <2>2. q * (8 * target) <= d
    BY <2>1, Quotient
  <2>3. q >= 1 => q * (8 * target) >= 8 * target
    <3> SUFFICES ASSUME q >= 1 PROVE q * (8 * target) >= 8 * target
      OBVIOUS
    <3>1. PICK p \in Nat : q = p + 1
      <4>1. q - 1 \in Nat /\ q = (q - 1) + 1
        OBVIOUS
      <4> QED
        BY <4>1
    <3>2. q * (8 * target) = p * (8 * target) + 8 * target /\ p * (8 * target) \in Nat
      BY <3>1
    <3> QED
      BY <3>2
  <2>4. q * (8 * target) \in Nat
    OBVIOUS
  <2> QED
    BY <2>1, <2>2, <2>3, <2>4
<1>2. TowardsZero(1 * (used - target), 8 * target) = 0
  <2>1. CASE used >= target
    <3>1. PICK d \in Nat : d = used - target
      BY <2>1
    <3>2. 1 * (used - target) = d /\ d >= 0 /\ d < 8 * target
      BY <3>1
    <3>3. TowardsZero(d, 8 * target) = 0
      BY <1>1, <3>2 DEF TowardsZero
    <3> QED
      BY <3>2, <3>3
  <2>2. CASE used < target
    <3>1. PICK d \in Nat : d = target - used
      BY <2>2
    <3>2. 1 * (used - target) = -d /\ d > 0 /\ d < 8 * target /\ -(-d) = d
      BY <2>2, <3>1
    <3>3. d \div (8 * target) = 0
      BY <1>1, <3>2
    <3>4. TowardsZero(-d, 8 * target) = 0
      BY <3>2, <3>3 DEF TowardsZero
    <3> QED
      BY <3>2, <3>4
  <2> QED
    BY <2>1, <2>2
<1> QED
  BY <1>2, FloorIsOne DEF AdjustBaseFee

LEMMA FloorStaysLong ==
  ASSUME NEW target \in Nat \ {0}, NEW blocks \in Seq(Nat),
         \A k \in DOMAIN blocks : blocks[k] < 9 * target
  PROVE  BaseFees(BaseFeeFloor, target, blocks)[Len(blocks)] = BaseFeeFloor
<1> DEFINE D == {k \in Nat : k <= Len(blocks) => BaseFees(BaseFeeFloor, target, blocks)[k] = BaseFeeFloor}
<1>1. 0 \in D
  BY BaseFeesDef
<1>2. ASSUME NEW k \in Nat, k \in D PROVE k + 1 \in D
  <2> SUFFICES ASSUME k + 1 <= Len(blocks)
               PROVE  BaseFees(BaseFeeFloor, target, blocks)[k + 1] = BaseFeeFloor
    OBVIOUS
  <2>1. k \in 0 .. Len(blocks) - 1 /\ k + 1 \in DOMAIN blocks /\ k <= Len(blocks)
    OBVIOUS
  <2>2. BaseFees(BaseFeeFloor, target, blocks)[k + 1] = AdjustBaseFee(BaseFeeFloor, target, blocks[k + 1])
    BY <1>2, <2>1, BaseFeesDef
  <2>3. blocks[k + 1] \in Nat /\ blocks[k + 1] < 9 * target
    BY <2>1
  <2> QED
    BY <2>2, <2>3, FloorStays
<1>3. Len(blocks) \in D
  <2> HIDE DEF D
  <2> QED
    BY <1>1, <1>2, NatSetInduction
<1> QED
  BY <1>3

\* For every base fee from the floor up, every target, and any blocks.
THEOREM FeesStick ==
  ASSUME NEW base \in Nat, base >= BaseFeeFloor, NEW target \in Nat \ {0}, NEW blocks \in Seq(Nat)
  PROVE  FeeStuckAtFloor(base, target, blocks)
<1>1. \A k \in DOMAIN blocks : blocks[k] \in Nat
  OBVIOUS
<1>2. ASSUME NEW k \in DOMAIN blocks, blocks[k] <= 2 * target
      PROVE  LET next == AdjustBaseFee(base, target, blocks[k])
             IN /\ 8 * (next - base) <= base /\ 8 * (base - next) <= base
                /\ blocks[k] > target => next >= base
                /\ blocks[k] < target => next <= base
                /\ base < 8 => next >= base
                /\ base \in BaseFeeFloor .. 7 => next = base
  BY <1>1, <1>2, FeeMoves
<1> QED
  BY <1>2, FloorStaysLong DEF FeeStuckAtFloor

LEMMA ShiftedRewardType == \A h \in 0 .. 64 : ShiftedReward[h] \in Nat
<1> DEFINE D == {h \in Nat : h <= 64 => ShiftedReward[h] \in Nat}
<1>1. 0 \in D
  BY ShiftedRewardDef DEF INITIAL_BLOCK_REWARD
<1>2. ASSUME NEW h \in Nat, h \in D PROVE h + 1 \in D
  <2> SUFFICES ASSUME h + 1 <= 64 PROVE ShiftedReward[h + 1] \in Nat
    OBVIOUS
  <2>1. h \in 0 .. 64 - 1 /\ ShiftedReward[h] \in Nat
    BY <1>2
  <2> QED
    BY <2>1, ShiftedRewardDef
<1>3. Nat \subseteq D
  <2> HIDE DEF D
  <2> QED
    BY <1>1, <1>2, NatSetInduction
<1> QED
  BY <1>3

\* For every fee, price, gas and height.
THEOREM FeesAndRewardsAlwaysAdd ==
  ASSUME NEW base \in Nat, NEW fee \in Nat, NEW gas \in Nat, NEW height \in Nat
  PROVE  FeesAndRewardsAdd(base, fee, gas, height)
<1>1. /\ SplitFee(base, fee, gas)[1] + SplitFee(base, fee, gas)[2] = fee
      /\ SplitFee(base, fee, gas)[1] <= base * gas
  <2>1. PICK c \in Nat : c = base * gas
    OBVIOUS
  <2>2. SplitFee(base, fee, gas) = IF fee < c THEN <<fee, 0>> ELSE <<c, fee - c>>
    BY <2>1 DEF SplitFee
  <2> QED
    BY <2>1, <2>2
<1> DEFINE h == height \div HALVING_INTERVAL
           g == (height + 1) \div HALVING_INTERVAL
           R(i) == IF i >= 64 \/ ShiftedReward[i] < TAIL_EMISSION THEN TAIL_EMISSION ELSE ShiftedReward[i]
<1>2. h \in Nat /\ g \in {h, h + 1}
  BY DEF HALVING_INTERVAL
<1>3. BlockReward(height + 1) = R(g) /\ (height > 0 => BlockReward(height) = R(h))
  BY DEF BlockReward
<1> HIDE DEF h, g
<1>4. ASSUME NEW i \in Nat PROVE R(i) >= TAIL_EMISSION /\ R(i + 1) <= R(i) /\ R(i) \in Nat
  <2>1. i < 64 => ShiftedReward[i] \in Nat
    BY ShiftedRewardType
  <2>2. i < 64 => ShiftedReward[i + 1] = ShiftedReward[i] \div 2
    BY ShiftedRewardDef
  <2>3. i < 64 => ShiftedReward[i + 1] \in Nat /\ ShiftedReward[i + 1] <= ShiftedReward[i]
    BY <2>1, <2>2
  <2> QED
    BY <2>1, <2>3 DEF TAIL_EMISSION
<1> HIDE DEF R
<1>5. BlockReward(height + 1) >= TAIL_EMISSION
  BY <1>2, <1>3, <1>4
<1>6. height > 0 => BlockReward(height + 1) <= BlockReward(height)
  <2>1. R(h) <= R(h) /\ R(h + 1) <= R(h)
    BY <1>2, <1>4
  <2> QED
    BY <1>2, <1>3, <2>1
<1> QED
  BY <1>1, <1>5, <1>6 DEF FeesAndRewardsAdd

---------------------------------------------------------------------------
(* Gossip.                                                                 *)

LEMMA IntegerBytes ==
  ASSUME NEW n \in Nat, NEW f \in [1 .. n -> Byte]
  PROVE  f \in Seq(Byte) /\ Len(f) = n
<1>1. f = [k \in 1 .. n |-> f[k]] /\ \A k \in 1 .. n : f[k] \in Byte
  OBVIOUS
<1>2. [k \in 1 .. n |-> f[k]] \in Seq(Byte) /\ Len([k \in 1 .. n |-> f[k]]) = n
  BY <1>1
<1> QED
  BY <1>1, <1>2

LEMMA JoinedLengths ==
  ASSUME NEW T, NEW s \in Seq(T), NEW t \in Seq(T)
  PROVE  s \o t \in Seq(T) /\ Len(s \o t) = Len(s) + Len(t)
  BY ConcatProperties

LEMMA EncodedLength ==
  ASSUME NEW vote \in Votes
  PROVE  EncodeVote(vote) \in Seq(Byte) /\ Len(EncodeVote(vote)) = 16 + HashBytes + SignerBytes
<1>1. /\ vote.height \in [1 .. 8 -> Byte] /\ vote.round \in [1 .. 4 -> Byte]
      /\ vote.block_hash \in [1 .. HashBytes -> Byte] /\ vote.vote_type \in [1 .. 4 -> Byte]
      /\ vote.signer \in [1 .. SignerBytes -> Byte]
  BY DEF Votes
<1>2. HashBytes \in Nat /\ SignerBytes \in Nat
  BY DEF HashBytes, SignerBytes
<1>3. /\ vote.height \in Seq(Byte) /\ Len(vote.height) = 8
      /\ vote.round \in Seq(Byte) /\ Len(vote.round) = 4
      /\ vote.block_hash \in Seq(Byte) /\ Len(vote.block_hash) = HashBytes
      /\ vote.vote_type \in Seq(Byte) /\ Len(vote.vote_type) = 4
      /\ vote.signer \in Seq(Byte) /\ Len(vote.signer) = SignerBytes
  BY <1>1, <1>2, IntegerBytes
<1> DEFINE first == vote.height \o vote.round
           second == first \o vote.block_hash
           third == second \o vote.vote_type
<1>5. first \in Seq(Byte) /\ Len(first) = Len(vote.height) + Len(vote.round)
  BY <1>3, JoinedLengths
<1> HIDE DEF first
<1>6. second \in Seq(Byte) /\ Len(second) = Len(first) + Len(vote.block_hash)
  BY <1>3, <1>5, JoinedLengths
<1> HIDE DEF second
<1>7. third \in Seq(Byte) /\ Len(third) = Len(second) + Len(vote.vote_type)
  BY <1>3, <1>6, JoinedLengths
<1> HIDE DEF third
<1>8. /\ third \o vote.signer \in Seq(Byte)
      /\ Len(third \o vote.signer) = Len(third) + Len(vote.signer)
  BY <1>3, <1>7, JoinedLengths
<1>9. third \o vote.signer = EncodeVote(vote)
  BY DEF EncodeVote, first, second, third
<1>10. Len(third) + Len(vote.signer) = 16 + HashBytes + SignerBytes
  BY <1>2, <1>3, <1>5, <1>6, <1>7
<1> QED
  BY <1>8, <1>9, <1>10

\* An integer of variable width takes an odd number of bytes.
LEMMA OddSizes ==
  ASSUME NEW data, NEW at \in Nat, NEW width, NEW p \in AfterVarint(data, at, width)
  PROVE  p \in {at + 1, at + 3, at + 5, at + 9}
<1>1. \A first : VarintSizes(first) \subseteq {1, 3, 5, 9}
  BY DEF VarintSizes
<1>2. PICK size \in VarintSizes(data[at + 1]) : p = at + size
  BY DEF AfterVarint
<1> QED
  BY <1>1, <1>2

\* For every vote and every order of the topics.
THEOREM VotesAreLost ==
  ASSUME NEW vote \in Votes, NEW order
  PROVE  NoVoteReceived(vote, order)
<1> DEFINE data == EncodeVote(vote)
<1>1. Len(data) = 16 + HashBytes + SignerBytes
  BY EncodedLength
<1> HIDE DEF data
<1>2. ASSUME NEW p \in AfterVarint(data, 0, 8), NEW q \in AfterVarint(data, p, 4),
             NEW r \in AfterVariant(data, q + HashBytes)
      PROVE  r + SignerBytes # Len(data)
  <2>1. p \in {1, 3, 5, 9}
    BY OddSizes
  <2>2. q \in {p + 1, p + 3, p + 5, p + 9}
    <3>1. p \in Nat
      BY <2>1
    <3> QED
      BY <3>1, OddSizes
  <2>3. r \in {q + 33, q + 35, q + 37, q + 41}
    <3> DEFINE at == q + HashBytes
    <3>1. at \in Nat /\ at = q + 32
      BY <2>1, <2>2 DEF HashBytes
    <3> HIDE DEF at
    <3>2. r \in AfterVarint(data, at, 1)
      BY DEF AfterVariant, at
    <3> QED
      BY <3>1, <3>2, OddSizes
  <2>4. r # 48 /\ r \in Nat
    BY <2>1, <2>2, <2>3
  <2> QED
    BY <1>1, <2>4 DEF HashBytes, SignerBytes
<1>3. ~DecodesAsVote(data)
  BY <1>2 DEF DecodesAsVote
<1> QED
  BY <1>3 DEF NoVoteReceived, ReceivedAsVote, data

---------------------------------------------------------------------------
(* The wallet's scan.                                                      *)

LEMMA NoticedDef ==
  ASSUME NEW notes, NEW T, NEW outputs \in Seq(T), NEW ivk
  PROVE  /\ Noticed(notes, outputs, ivk)[0] = notes
         /\ \A i \in 0 .. Len(outputs) - 1 :
              Noticed(notes, outputs, ivk)[i + 1]
                = AddFound(Noticed(notes, outputs, ivk)[i], Found(outputs[i + 1], ivk))
<1> DEFINE Step(a, i) == AddFound(a, Found(outputs[i], ivk))
           Body(g, m) == [i \in 0 .. m |-> IF i = 0 THEN notes ELSE Step(g[i - 1], i)]
           D == {m \in Nat : \E g : g = Body(g, m)}
<1>1. Noticed(notes, outputs, ivk) = CHOOSE g : g = Body(g, Len(outputs))
  BY DEF Noticed
<1> HIDE DEF Step
<1>2. 0 \in D
  <2>1. [i \in 0 .. 0 |-> notes] = Body([i \in 0 .. 0 |-> notes], 0)
    OBVIOUS
  <2> QED
    BY <2>1
<1>3. ASSUME NEW m \in Nat, m \in D PROVE m + 1 \in D
  <2>1. PICK g : g = Body(g, m)
    BY <1>3
  <2> DEFINE f == [i \in 0 .. m + 1 |-> IF i = m + 1 THEN Step(g[m], m + 1) ELSE g[i]]
  <2>2. f = Body(f, m + 1)
    BY <2>1
  <2> HIDE DEF Body, f
  <2> QED
    BY <2>2
<1>4. \E g : g = Body(g, Len(outputs))
  <2>1. Len(outputs) \in D
    <3> HIDE DEF D
    <3> QED
      BY <1>2, <1>3, NatSetInduction
  <2> QED
    BY <2>1
<1>5. Noticed(notes, outputs, ivk) = Body(Noticed(notes, outputs, ivk), Len(outputs))
  <2> HIDE DEF Body
  <2> QED
    BY <1>1, <1>4
<1>6. Noticed(notes, outputs, ivk)[0] = notes
  BY <1>5
<1>7. ASSUME NEW i \in 0 .. Len(outputs) - 1
      PROVE  Noticed(notes, outputs, ivk)[i + 1] = Step(Noticed(notes, outputs, ivk)[i], i + 1)
  <2>1. i + 1 \in 0 .. Len(outputs) /\ i + 1 # 0 /\ (i + 1) - 1 = i
    OBVIOUS
  <2> QED
    BY <1>5, <2>1
<1> QED
  BY <1>6, <1>7 DEF Step

LEMMA ScannedDef ==
  ASSUME NEW wallet, NEW chain, NEW T, NEW order \in Seq(T)
  PROVE  /\ Scanned(wallet, chain, order)[0] = wallet
         /\ \A i \in 0 .. Len(order) - 1 :
              Scanned(wallet, chain, order)[i + 1]
                = ScanBlock(Scanned(wallet, chain, order)[i], chain[order[i + 1]])
<1> DEFINE Step(a, i) == ScanBlock(a, chain[order[i]])
           Body(g, m) == [i \in 0 .. m |-> IF i = 0 THEN wallet ELSE Step(g[i - 1], i)]
           D == {m \in Nat : \E g : g = Body(g, m)}
<1>1. Scanned(wallet, chain, order) = CHOOSE g : g = Body(g, Len(order))
  BY DEF Scanned
<1> HIDE DEF Step
<1>2. 0 \in D
  <2>1. [i \in 0 .. 0 |-> wallet] = Body([i \in 0 .. 0 |-> wallet], 0)
    OBVIOUS
  <2> QED
    BY <2>1
<1>3. ASSUME NEW m \in Nat, m \in D PROVE m + 1 \in D
  <2>1. PICK g : g = Body(g, m)
    BY <1>3
  <2> DEFINE f == [i \in 0 .. m + 1 |-> IF i = m + 1 THEN Step(g[m], m + 1) ELSE g[i]]
  <2>2. f = Body(f, m + 1)
    BY <2>1
  <2> HIDE DEF Body, f
  <2> QED
    BY <2>2
<1>4. \E g : g = Body(g, Len(order))
  <2>1. Len(order) \in D
    <3> HIDE DEF D
    <3> QED
      BY <1>2, <1>3, NatSetInduction
  <2> QED
    BY <2>1
<1>5. Scanned(wallet, chain, order) = Body(Scanned(wallet, chain, order), Len(order))
  <2> HIDE DEF Body
  <2> QED
    BY <1>1, <1>4
<1>6. Scanned(wallet, chain, order)[0] = wallet
  BY <1>5
<1>7. ASSUME NEW i \in 0 .. Len(order) - 1
      PROVE  Scanned(wallet, chain, order)[i + 1] = Step(Scanned(wallet, chain, order)[i], i + 1)
  <2>1. i + 1 \in 0 .. Len(order) /\ i + 1 # 0 /\ (i + 1) - 1 = i
    OBVIOUS
  <2> QED
    BY <1>5, <2>1
<1> QED
  BY <1>6, <1>7 DEF Step

\* A ciphertext whose end is cut off.
Cut(c) == \E key, nonce, plain : c = [key |-> key, nonce |-> nonce, plain |-> plain, rest |-> "cut"]

\* What was cut does not authenticate, padded or not.
LEMMA CutFindsNothing ==
  ASSUME NEW o, Cut(o.enc_ciphertext_prefix), NEW ivk
  PROVE  Found(o, ivk) = {}
<1>1. Rebuilt(o.enc_ciphertext_prefix).rest = "zeros"
  BY DEF Cut, Rebuilt, Ending
<1> QED
  BY <1>1 DEF Found, TryDecrypt, Open

LEMMA NothingNoticed ==
  ASSUME NEW notes, NEW T, NEW outputs \in Seq(T), NEW ivk,
         \A k \in 1 .. Len(outputs) : Cut(outputs[k].enc_ciphertext_prefix)
  PROVE  Noticed(notes, outputs, ivk)[Len(outputs)] = notes
<1> DEFINE D == {k \in Nat : k <= Len(outputs) => Noticed(notes, outputs, ivk)[k] = notes}
<1>1. 0 \in D
  BY NoticedDef
<1>2. ASSUME NEW k \in Nat, k \in D PROVE k + 1 \in D
  <2> SUFFICES ASSUME k + 1 <= Len(outputs) PROVE Noticed(notes, outputs, ivk)[k + 1] = notes
    OBVIOUS
  <2>1. k \in 0 .. Len(outputs) - 1 /\ k + 1 \in 1 .. Len(outputs) /\ k <= Len(outputs)
    OBVIOUS
  <2>2. Found(outputs[k + 1], ivk) = {}
    BY <2>1, CutFindsNothing
  <2>3. Noticed(notes, outputs, ivk)[k] = notes
    BY <1>2, <2>1
  <2>4. Noticed(notes, outputs, ivk)[k + 1] = AddFound(Noticed(notes, outputs, ivk)[k], Found(outputs[k + 1], ivk))
    BY <2>1, NoticedDef
  <2> QED
    BY <2>2, <2>3, <2>4 DEF AddFound
<1>3. Len(outputs) \in D
  <2> HIDE DEF D
  <2> QED
    BY <1>1, <1>2, NatSetInduction
<1> QED
  BY <1>3

\* The outputs of a block have lost the ends of their ciphertexts.
CutBlock(block) ==
  /\ \E T : block.outputs \in Seq(T)
  /\ \A k \in 1 .. Len(block.outputs) : Cut(block.outputs[k].enc_ciphertext_prefix)

EmptyHanded(ivk, height) == [ivk |-> ivk, notes |-> <<>>, last_scanned_height |-> height]

LEMMA ScanFindsNothing ==
  ASSUME NEW ivk, NEW height, NEW block, CutBlock(block)
  PROVE  ScanBlock(EmptyHanded(ivk, height), block) = EmptyHanded(ivk, block.height)
<1>1. PICK T : block.outputs \in Seq(T)
  BY DEF CutBlock
<1>2. Noticed(<<>>, block.outputs, ivk)[Len(block.outputs)] = <<>>
  BY <1>1, NothingNoticed DEF CutBlock
<1> DEFINE seen == Noticed(<<>>, block.outputs, ivk)[Len(block.outputs)]
<1>3. [k \in DOMAIN seen |-> [seen[k] EXCEPT !.is_spent = @ \/ seen[k].nullifier \in block.nullifiers]] = <<>>
  BY <1>2
<1>4. /\ EmptyHanded(ivk, height).notes = <<>> /\ EmptyHanded(ivk, height).ivk = ivk
  BY DEF EmptyHanded
<1>5. ScanBlock(EmptyHanded(ivk, height), block)
        = [EmptyHanded(ivk, height) EXCEPT !.notes = <<>>, !.last_scanned_height = block.height]
  BY <1>3, <1>4 DEF ScanBlock
<1> QED
  BY <1>5 DEF EmptyHanded

LEMMA EmptyBalance == ASSUME NEW w, w.notes = <<>> PROVE Balance(w) = 0
<1> DEFINE Body(g) == [k \in 0 .. Len(w.notes) |->
                        IF k = 0 THEN 0
                        ELSE g[k - 1] + IF w.notes[k].is_spent THEN 0 ELSE w.notes[k].note.value]
<1>1. Balance(w) = (CHOOSE g : g = Body(g))[Len(w.notes)]
  BY DEF Balance
<1>2. Len(w.notes) = 0
  OBVIOUS
<1>3. \E g : g = Body(g)
  <2> WITNESS [k \in 0 .. 0 |-> 0]
  <2> QED
    BY <1>2
<1>4. PICK f : f = (CHOOSE g : g = Body(g))
  OBVIOUS
<1>5. f = Body(f)
  <2> HIDE DEF Body
  <2> QED
    BY <1>3, <1>4
<1>6. f[0] = 0
  BY <1>2, <1>5
<1> HIDE DEF Body
<1> QED
  BY <1>1, <1>2, <1>4, <1>6

\* Blocks in any order: the wallet stays empty and is at the last of them.
LEMMA ScansStayEmpty ==
  ASSUME NEW chain, NEW order \in Seq(DOMAIN chain), NEW ivk,
         \A h \in DOMAIN chain : CutBlock(chain[h])
  PROVE  Scanned(NewWallet(ivk), chain, order)[Len(order)]
           = EmptyHanded(ivk, IF order = <<>> THEN 0 ELSE chain[order[Len(order)]].height)
<1> DEFINE At(k) == IF k = 0 THEN 0 ELSE chain[order[k]].height
           D == {k \in Nat : k <= Len(order) =>
                   Scanned(NewWallet(ivk), chain, order)[k] = EmptyHanded(ivk, At(k))}
<1>1. 0 \in D
  <2>1. NewWallet(ivk) = EmptyHanded(ivk, 0)
    BY DEF NewWallet, EmptyHanded
  <2> QED
    BY <2>1, ScannedDef
<1>2. ASSUME NEW k \in Nat, k \in D PROVE k + 1 \in D
  <2> SUFFICES ASSUME k + 1 <= Len(order)
               PROVE  Scanned(NewWallet(ivk), chain, order)[k + 1] = EmptyHanded(ivk, At(k + 1))
    OBVIOUS
  <2>1. k \in 0 .. Len(order) - 1 /\ k + 1 \in 1 .. Len(order) /\ k <= Len(order)
    OBVIOUS
  <2>2. order[k + 1] \in DOMAIN chain
    BY <2>1
  <2>3. Scanned(NewWallet(ivk), chain, order)[k] = EmptyHanded(ivk, At(k))
    BY <1>2, <2>1
  <2>4. Scanned(NewWallet(ivk), chain, order)[k + 1]
          = ScanBlock(Scanned(NewWallet(ivk), chain, order)[k], chain[order[k + 1]])
    BY <2>1, ScannedDef
  <2>5. At(k + 1) = chain[order[k + 1]].height
    OBVIOUS
  <2> HIDE DEF At
  <2> QED
    BY <2>2, <2>3, <2>4, <2>5, ScanFindsNothing
<1>3. Len(order) \in D
  <2> HIDE DEF D
  <2> QED
    BY <1>1, <1>2, NatSetInduction
<1>4. order = <<>> <=> Len(order) = 0
  OBVIOUS
<1> QED
  BY <1>3, <1>4

LEMMA CutAndWhole ==
  ASSUME NEW key, NEW nonce, NEW plain, NEW c, NEW cut,
         c = [key |-> key, nonce |-> nonce, plain |-> plain, rest |-> "kept"],
         cut = Ending(c, "cut")
  PROVE  RebuiltWhole(cut) = c
<1>1. cut = [key |-> key, nonce |-> nonce, plain |-> plain, rest |-> "cut"]
  BY DEF Ending
<1> QED
  BY <1>1 DEF Ending, RebuiltWhole

\* Whole, the ciphertext of a note shows the note to the owner of its key.
LEMMA WholeIsRead ==
  ASSUME NEW value, NEW rcm, NEW rho, NEW diversifier, NEW ivk, NEW ovk, NEW esk, NEW n, NEW o,
         n = Note(value, rcm, rho, [diversifier |-> diversifier, pk_d |-> DeriveFromIvk(ivk)]),
         o = EncryptNote(n, DeriveFromIvk(ivk), ovk, esk)
  PROVE  TryDecrypt(o.enc_ciphertext, o.ephemeral_key, Commitment(n), ivk) = {n}
<1> DEFINE epk == PublicKey(esk)
<1>1. /\ o.ephemeral_key = epk
      /\ o.enc_ciphertext = Seal(KdfNote(DiffieHellman(esk, DeriveFromIvk(ivk)), epk), 1, ToPlaintext(n))
  BY DEF EncryptNote
<1>2. DiffieHellman(esk, DeriveFromIvk(ivk)) = DiffieHellman(ivk, epk)
  <2>1. /\ Head(PublicKey(ivk)) = "pub" /\ PublicKey(ivk)[2] = ivk
        /\ Head(PublicKey(esk)) = "pub" /\ PublicKey(esk)[2] = esk
    BY DEF PublicKey
  <2>2. {esk, ivk} = {ivk, esk}
    OBVIOUS
  <2> QED
    BY <2>1, <2>2 DEF DiffieHellman, DeriveFromIvk
<1>3. Open(KdfNote(DiffieHellman(ivk, epk), epk), 1, o.enc_ciphertext) = {ToPlaintext(n)}
  BY <1>1, <1>2 DEF Open, Seal
<1>4. FromPlaintext(ToPlaintext(n), DeriveFromIvk(ivk)) = n
  BY DEF FromPlaintext, ToPlaintext, Note
<1> QED
  BY <1>1, <1>3, <1>4 DEF TryDecrypt

\* The compact output of a note, Alice's if it is paid to her.
PaidTo(o, payee) ==
  \E value, rcm, rho, esk, ovk, fvk :
    LET n == Note(value, rcm, rho, Reachable(fvk))
    IN /\ o = Compact(EncryptNote(n, DeriveFromIvk(IncomingViewKey(fvk)), ovk, esk), Commitment(n))
       /\ payee = "alice" => fvk = Alice

CompactChain(chain) ==
  \A h \in DOMAIN chain :
    CutBlock(chain[h]) /\ \A k \in DOMAIN chain[h].outputs : PaidTo(chain[h].outputs[k], chain[h].paid[k])

\* For every chain of such blocks, scanned in any order and however often.
THEOREM ScansNeverFind ==
  ASSUME NEW chain, CompactChain(chain), NEW order \in Seq(DOMAIN chain)
  PROVE  ScansFindNothing(chain, order)
<1> DEFINE ivk == IncomingViewKey(Alice)
           wallet == Scanned(NewWallet(ivk), chain, order)[Len(order)]
<1>1. wallet = EmptyHanded(ivk, IF order = <<>> THEN 0 ELSE chain[order[Len(order)]].height)
  BY ScansStayEmpty DEF CompactChain
<1>2. Balance(wallet) = 0
  <2>1. wallet.notes = <<>>
    BY <1>1 DEF EmptyHanded
  <2> HIDE DEF wallet
  <2> QED
    BY <2>1, EmptyBalance
<1>3. order # <<>> => wallet.last_scanned_height = chain[order[Len(order)]].height
  BY <1>1 DEF EmptyHanded
<1> HIDE DEF wallet
<1>4. ASSUME NEW h \in DOMAIN chain, NEW k \in DOMAIN chain[h].outputs, chain[h].paid[k] = "alice",
             NEW o, o = chain[h].outputs[k]
      PROVE  TryDecrypt(RebuiltWhole(o.enc_ciphertext_prefix), o.ephemeral_key, o.note_commitment, ivk) # {}
  <2>1. PICK value, rcm, rho, esk, ovk, fvk :
          /\ o = Compact(EncryptNote(Note(value, rcm, rho, Reachable(fvk)), DeriveFromIvk(IncomingViewKey(fvk)),
                                     ovk, esk), Commitment(Note(value, rcm, rho, Reachable(fvk))))
          /\ fvk = Alice
    BY <1>4 DEF CompactChain, PaidTo
  <2> DEFINE n == Note(value, rcm, rho, Reachable(Alice))
             e == EncryptNote(n, DeriveFromIvk(ivk), ovk, esk)
  <2>2. Reachable(Alice) = [diversifier |-> <<"div", 0>>, pk_d |-> DeriveFromIvk(ivk)]
    BY DEF Reachable
  <2>3. o = Compact(e, Commitment(n))
    BY <2>1
  <2>4. /\ o.note_commitment = Commitment(n) /\ o.ephemeral_key = e.ephemeral_key
        /\ o.enc_ciphertext_prefix = Ending(e.enc_ciphertext, "cut")
    <3> HIDE DEF e, n
    <3> QED
      BY <2>3 DEF Compact
  <2>5. RebuiltWhole(o.enc_ciphertext_prefix) = e.enc_ciphertext
    <3>1. PICK key, nonce, plain : e.enc_ciphertext = Seal(key, nonce, plain)
      BY DEF EncryptNote
    <3> HIDE DEF e
    <3>2. e.enc_ciphertext = [key |-> key, nonce |-> nonce, plain |-> plain, rest |-> "kept"]
      BY <3>1 DEF Seal
    <3> QED
      BY <2>4, <3>2, CutAndWhole
  <2>6. TryDecrypt(e.enc_ciphertext, e.ephemeral_key, Commitment(n), ivk) = {n}
    BY <2>2, WholeIsRead
  <2> HIDE DEF e, n, ivk
  <2> QED
    BY <2>4, <2>5, <2>6
<1>5. ASSUME NEW h \in DOMAIN chain, NEW k \in DOMAIN chain[h].outputs
      PROVE  LET o == chain[h].outputs[k]
             IN chain[h].paid[k] = "alice" =>
                  TryDecrypt(RebuiltWhole(o.enc_ciphertext_prefix), o.ephemeral_key, o.note_commitment, ivk) # {}
  BY <1>4
<1> QED
  BY <1>2, <1>3, <1>5 DEF ScansFindNothing, wallet

LEMMA PaymentsAreCompact ==
  ASSUME NEW height, NEW payees \in Seq({"alice", "bob"}), NEW revealed, NEW block,
         block = BlockPaying(height, payees, revealed)
  PROVE  CutBlock(block) /\ \A k \in DOMAIN block.outputs : PaidTo(block.outputs[k], block.paid[k])
<1> DEFINE Reader(who) == IF who = "alice" THEN Alice ELSE Bob
           NoteTo(k) == Note(height, Random(10 * height + k), Random(2), Reachable(Reader(payees[k])))
           Out(k) == Compact(EncryptNote(NoteTo(k), Reachable(Reader(payees[k])).pk_d, Bob.ovk, Random(3)),
                             Commitment(NoteTo(k)))
<1>1. block.outputs = [k \in DOMAIN payees |-> Out(k)] /\ block.paid = payees
  BY DEF BlockPaying
<1>2. \A fvk : Reachable(fvk).pk_d = DeriveFromIvk(IncomingViewKey(fvk))
  BY DEF Reachable
<1>3. ASSUME NEW k \in DOMAIN payees
      PROVE  Cut(Out(k).enc_ciphertext_prefix) /\ PaidTo(Out(k), payees[k])
  <2>2. Cut(Out(k).enc_ciphertext_prefix)
    <3>1. PICK e : e = EncryptNote(NoteTo(k), Reachable(Reader(payees[k])).pk_d, Bob.ovk, Random(3))
      OBVIOUS
    <3>2. PICK key, nonce, plain : e.enc_ciphertext = Seal(key, nonce, plain)
      BY <3>1 DEF EncryptNote
    <3>3. Out(k).enc_ciphertext_prefix = Ending(e.enc_ciphertext, "cut")
      BY <3>1 DEF Compact
    <3>4. Out(k).enc_ciphertext_prefix = [key |-> key, nonce |-> nonce, plain |-> plain, rest |-> "cut"]
      BY <3>2, <3>3 DEF Seal, Ending
    <3> QED
      BY <3>4 DEF Cut
  <2>3. payees[k] = "alice" => Reader(payees[k]) = Alice
    OBVIOUS
  <2> HIDE DEF Reader
  <2>4. PaidTo(Out(k), payees[k])
    BY <1>2, <2>3 DEF PaidTo
  <2> QED
    BY <2>2, <2>4
<1> HIDE DEF Out
<1>4. \E T : block.outputs \in Seq(T)
  <2> DEFINE T == {Out(k) : k \in DOMAIN payees}
  <2>1. Len(payees) \in Nat /\ DOMAIN payees = 1 .. Len(payees)
    OBVIOUS
  <2>2. [k \in 1 .. Len(payees) |-> Out(k)] \in Seq(T)
    BY <2>1
  <2> QED
    BY <1>1, <2>1, <2>2
<1>5. 1 .. Len(block.outputs) = DOMAIN payees
  BY <1>1, <1>4
<1>6. /\ DOMAIN block.outputs = DOMAIN payees /\ block.paid = payees
      /\ \A k \in DOMAIN payees : block.outputs[k] = Out(k)
  BY <1>1
<1>7. CutBlock(block)
  BY <1>3, <1>4, <1>5, <1>6 DEF CutBlock
<1> QED
  BY <1>3, <1>6, <1>7

---------------------------------------------------------------------------
(* Who reads a note.                                                       *)

\* Addresses carry an X25519 key or the hash payment_address makes.
Readable(address) ==
  \/ \E ivk : address.pk_d = DeriveFromIvk(ivk)
  \/ \E ivk, index : address.pk_d = PaymentAddress(ivk, index).pk_d

\* Two shared secrets agree only between the two ends.
LEMMA AgreedSecret ==
  ASSUME NEW esk, NEW reader, NEW address, Readable(address), Head(reader) = "ivk"
  PROVE  DiffieHellman(reader, PublicKey(esk)) = DiffieHellman(esk, address.pk_d)
           <=> address.pk_d = DeriveFromIvk(reader)
<1>1. DiffieHellman(reader, PublicKey(esk)) = <<"dh", {reader, esk}>>
  <2>1. Head(PublicKey(esk)) = "pub" /\ PublicKey(esk)[2] = esk
    BY DEF PublicKey
  <2> QED
    BY <2>1 DEF DiffieHellman
<1>2. CASE \E ivk : address.pk_d = DeriveFromIvk(ivk)
  <2>1. PICK ivk : address.pk_d = DeriveFromIvk(ivk)
    BY <1>2
  <2>2. Head(DeriveFromIvk(ivk)) = "pub" /\ DeriveFromIvk(ivk)[2] = ivk
    BY DEF DeriveFromIvk, PublicKey
  <2>3. DiffieHellman(esk, address.pk_d) = <<"dh", {esk, ivk}>>
    BY <2>1, <2>2 DEF DiffieHellman
  <2>4. {reader, esk} = {esk, ivk} <=> reader = ivk
    OBVIOUS
  <2>5. DeriveFromIvk(ivk) = DeriveFromIvk(reader) <=> reader = ivk
    BY DEF DeriveFromIvk, PublicKey
  <2>6. <<"dh", {reader, esk}>> = <<"dh", {esk, ivk}>> <=> {reader, esk} = {esk, ivk}
    <3> DEFINE a == {reader, esk}
               b == {esk, ivk}
    <3> HIDE DEF a, b
    <3> QED
      <4>1. <<"dh", a>> = <<"dh", b>> <=> a = b
        OBVIOUS
      <4> QED
        BY <4>1 DEF a, b
  <2> QED
    BY <1>1, <2>1, <2>3, <2>4, <2>5, <2>6
<1>3. CASE \E ivk, index : address.pk_d = PaymentAddress(ivk, index).pk_d
  <2>1. PICK ivk, index : address.pk_d = PaymentAddress(ivk, index).pk_d
    BY <1>3
  <2> DEFINE p == PaymentAddress(ivk, index).pk_d
  <2>2. Head(p) = "pkd"
    BY DEF PaymentAddress
  <2>3. Head(DeriveFromIvk(reader)) = "pub"
    BY DEF DeriveFromIvk, PublicKey
  <2> HIDE DEF p
  <2>4. DiffieHellman(esk, p) = <<"dh", {esk, p}>>
    BY <2>2 DEF DiffieHellman
  <2>5. p # DeriveFromIvk(reader) /\ p # reader
    BY <2>2, <2>3
  <2>6. {reader, esk} # {esk, p}
    BY <2>5
  <2>7. <<"dh", {reader, esk}>> # <<"dh", {esk, p}>>
    <3> DEFINE a == {reader, esk}
               b == {esk, p}
    <3> HIDE DEF a, b
    <3>1. <<"dh", a>> = <<"dh", b>> <=> a = b
      OBVIOUS
    <3> QED
      BY <2>6, <3>1 DEF a, b
  <2> QED
    BY <1>1, <2>1, <2>4, <2>5, <2>7 DEF p
<1> QED
  BY <1>2, <1>3 DEF Readable

\* What a reader supplies for the key comes out in the commitment.
LEMMA NoteReadBack ==
  ASSUME NEW value, NEW rcm, NEW rho, NEW address, NEW pk_d
  PROVE  LET n == Note(value, rcm, rho, address)
             m == FromPlaintext(ToPlaintext(n), pk_d)
         IN /\ Commitment(m) = Commitment(n) <=> pk_d = address.pk_d
            /\ pk_d = address.pk_d => m = n
            /\ Commitment(m) = NoteCommitment(n) => address.pk_d = rcm
<1> DEFINE n == Note(value, rcm, rho, address)
           m == FromPlaintext(ToPlaintext(n), pk_d)
<1>1. n = [value |-> value, rcm |-> rcm, rho |-> rho, pk_d |-> address.pk_d, diversifier |-> address.diversifier]
  BY DEF Note
<1>2. m = [value |-> value, rcm |-> rcm, rho |-> rho, pk_d |-> pk_d, diversifier |-> address.diversifier]
  BY <1>1 DEF FromPlaintext, ToPlaintext
<1> HIDE DEF n, m
<1>3. Commitment(n) = <<"note_cm", value, rcm, rho, address.pk_d, address.diversifier>>
  BY <1>1 DEF Commitment
<1>4. Commitment(m) = <<"note_cm", value, rcm, rho, pk_d, address.diversifier>>
  BY <1>2 DEF Commitment
<1>5. NoteCommitment(n) = <<"note_cm", value, address.pk_d, rho, rcm, address.diversifier>>
  BY <1>1 DEF NoteCommitment
<1>6. Commitment(m) = Commitment(n) <=> pk_d = address.pk_d
  BY <1>3, <1>4
<1>7. pk_d = address.pk_d => m = n
  BY <1>1, <1>2
<1>8. Commitment(m) = NoteCommitment(n) => address.pk_d = rcm
  BY <1>4, <1>5
<1> QED
  BY <1>6, <1>7, <1>8 DEF m, n

\* What the AEAD opens of what was sealed.
LEMMA Opened ==
  ASSUME NEW key, NEW nonce, NEW plain, NEW other, NEW at
  PROVE  Open(other, at, Seal(key, nonce, plain)) = IF key = other /\ nonce = at THEN {plain} ELSE {}
  BY DEF Open, Seal

LEMMA Opening ==
  ASSUME NEW n, NEW recipient, NEW ovk, NEW esk, NEW cm, NEW reader
  PROVE  LET o == EncryptNote(n, recipient, ovk, esk)
             m == FromPlaintext(ToPlaintext(n), DeriveFromIvk(reader))
         IN /\ TryDecrypt(o.enc_ciphertext, o.ephemeral_key, cm, reader)
                 = IF /\ DiffieHellman(reader, PublicKey(esk)) = DiffieHellman(esk, recipient)
                      /\ Commitment(m) = cm
                   THEN {m} ELSE {}
            /\ \A key : Open(KdfOutgoing(key, o.ephemeral_key), 2, o.out_ciphertext)
                          = IF key = ovk THEN {<<recipient, n.rcm>>} ELSE {}
<1> DEFINE o == EncryptNote(n, recipient, ovk, esk)
           m == FromPlaintext(ToPlaintext(n), DeriveFromIvk(reader))
           epk == PublicKey(esk)
           ours == DiffieHellman(reader, epk)
           theirs == DiffieHellman(esk, recipient)
           opened == Open(KdfNote(ours, epk), 1, Seal(KdfNote(theirs, epk), 1, ToPlaintext(n)))
<1>1. /\ o.ephemeral_key = epk /\ o.enc_ciphertext = Seal(KdfNote(theirs, epk), 1, ToPlaintext(n))
      /\ o.out_ciphertext = Seal(KdfOutgoing(ovk, epk), 2, <<recipient, n.rcm>>)
  BY DEF EncryptNote
<1>2. KdfNote(ours, epk) = KdfNote(theirs, epk) <=> ours = theirs
  <2> HIDE DEF ours, theirs, epk
  <2> QED
    BY DEF KdfNote
<1>3. opened = IF ours = theirs THEN {ToPlaintext(n)} ELSE {}
  <2> HIDE DEF ours, theirs, epk
  <2> QED
    BY <1>2, Opened
<1>4. TryDecrypt(o.enc_ciphertext, o.ephemeral_key, cm, reader)
        = {x \in {FromPlaintext(p, DeriveFromIvk(reader)) : p \in opened} : Commitment(x) = cm}
  BY <1>1 DEF TryDecrypt
<1>5. TryDecrypt(o.enc_ciphertext, o.ephemeral_key, cm, reader)
        = IF ours = theirs /\ Commitment(m) = cm THEN {m} ELSE {}
  <2> HIDE DEF o, ours, theirs, opened
  <2>1. CASE ours = theirs
    <3>1. {FromPlaintext(p, DeriveFromIvk(reader)) : p \in opened} = {m}
      BY <1>3, <2>1
    <3> QED
      BY <1>4, <2>1, <3>1
  <2>2. CASE ours # theirs
    BY <1>3, <1>4, <2>2
  <2> QED
    BY <2>1, <2>2
<1>6. ASSUME NEW key
      PROVE  Open(KdfOutgoing(key, o.ephemeral_key), 2, o.out_ciphertext)
               = IF key = ovk THEN {<<recipient, n.rcm>>} ELSE {}
  <2>1. KdfOutgoing(key, epk) = KdfOutgoing(ovk, epk) <=> key = ovk
    <3> HIDE DEF epk
    <3> QED
      BY DEF KdfOutgoing
  <2> HIDE DEF o, epk
  <2> QED
    BY <1>1, <2>1, Opened
<1> QED
  BY <1>5, <1>6 DEF o, m, ours, theirs, epk

LEMMA KeysDiffer ==
  /\ Alice.ovk # Bob.ovk /\ Alice.nk # Bob.nk
  /\ \A fvk : Head(IncomingViewKey(fvk)) = "ivk"
<1>1. Alice.ovk # Bob.ovk
  BY DEF Alice, Bob, FullViewingKey, Prf, SpendingKey
<1>2. Alice.nk # Bob.nk
  BY DEF Alice, Bob, FullViewingKey, Prf, SpendingKey
<1>3. \A fvk : Head(IncomingViewKey(fvk)) = "ivk"
  BY DEF IncomingViewKey
<1> QED
  BY <1>1, <1>2, <1>3

\* A memo comes back under its key, if it is not too long.
LEMMA MemoBack ==
  ASSUME NEW key, NEW other, NEW memo, NEW nonce
  PROVE  UNION {DecryptMemo(other, c) : c \in EncryptMemo(key, memo, nonce)}
           = IF other = key /\ ~(memo > MaxMemo) THEN {memo} ELSE {}
<1>1. CASE memo > MaxMemo
  BY <1>1 DEF EncryptMemo
<1>2. CASE ~(memo > MaxMemo)
  <2> DEFINE box == [nonce |-> nonce, body |-> Seal(key, nonce, memo)]
  <2>1. EncryptMemo(key, memo, nonce) = {box}
    BY <1>2 DEF EncryptMemo
  <2>2. DecryptMemo(other, box) = Open(other, nonce, Seal(key, nonce, memo))
    BY DEF DecryptMemo
  <2> HIDE DEF box
  <2>3. UNION {DecryptMemo(other, c) : c \in {box}} = DecryptMemo(other, box)
    OBVIOUS
  <2> QED
    BY <1>2, <2>1, <2>2, <2>3, Opened
<1> QED
  BY <1>1, <1>2

\* Whatever the value and wherever a note is sent, only the holder of the key
\* it is sent to and named for reads it, and only if committed to in the order
\* of note.rs (stealth.rs 22-94, note.rs 39-76, commitment.rs 31-46).
THEOREM NotesAreReadable ==
  ASSUME NEW sent, Readable(sent.to), Readable(sent.named), sent.reader \in {Alice, Bob}
  PROVE  NotesReadable(sent)
<1> DEFINE back == ReadBack(sent)
           reader == IncomingViewKey(sent.reader)
           n == Note(sent.value, Random(1), Random(2), sent.named)
           m == FromPlaintext(ToPlaintext(n), DeriveFromIvk(reader))
           cm == IF sent.wallet_order THEN NoteCommitment(n) ELSE Commitment(n)
           o == EncryptNote(n, sent.to.pk_d, Bob.ovk, Random(3))
           own == sent.to.pk_d = DeriveFromIvk(reader) /\ sent.named.pk_d = sent.to.pk_d
<1>1. /\ back.note = n /\ back.reader = reader
      /\ back.read = TryDecrypt(o.enc_ciphertext, o.ephemeral_key, cm, reader)
      /\ back.recovered = Open(KdfOutgoing(sent.reader.ovk, o.ephemeral_key), 2, o.out_ciphertext)
  BY DEF ReadBack
<1>2. DiffieHellman(reader, PublicKey(Random(3))) = DiffieHellman(Random(3), sent.to.pk_d)
        <=> sent.to.pk_d = DeriveFromIvk(reader)
  BY AgreedSecret, KeysDiffer
<1>3. sent.named.pk_d # Random(1)
  <2>1. Head(Random(1)) = "random"
    BY DEF Random
  <2>2. \A ivk : Head(DeriveFromIvk(ivk)) = "pub"
    BY DEF DeriveFromIvk, PublicKey
  <2>3. \A ivk, index : Head(PaymentAddress(ivk, index).pk_d) = "pkd"
    BY DEF PaymentAddress
  <2> QED
    BY <2>1, <2>2, <2>3 DEF Readable
<1>4. back.read = IF own /\ ~sent.wallet_order THEN {n} ELSE {}
  <2>1. /\ Commitment(m) = Commitment(n) <=> DeriveFromIvk(reader) = sent.named.pk_d
        /\ DeriveFromIvk(reader) = sent.named.pk_d => m = n
        /\ Commitment(m) # NoteCommitment(n)
    BY <1>3, NoteReadBack
  <2>2. back.read = IF /\ DiffieHellman(reader, PublicKey(Random(3))) = DiffieHellman(Random(3), sent.to.pk_d)
                       /\ Commitment(m) = cm
                    THEN {m} ELSE {}
    <3>1. TryDecrypt(o.enc_ciphertext, o.ephemeral_key, cm, reader)
            = IF /\ DiffieHellman(reader, PublicKey(Random(3))) = DiffieHellman(Random(3), sent.to.pk_d)
                 /\ Commitment(m) = cm
              THEN {m} ELSE {}
      <4> HIDE DEF n, cm, reader
      <4> QED
        BY Opening
    <3> HIDE DEF back, o, cm, m, reader
    <3> QED
      BY <1>1, <3>1
  <2> HIDE DEF back, reader, n, m
  <2> QED
    BY <1>2, <2>1, <2>2
<1>5. back.recovered = IF sent.reader = Bob THEN {<<sent.to.pk_d, Random(1)>>} ELSE {}
  <2>1. n.rcm = Random(1)
    BY DEF Note
  <2>2. sent.reader.ovk = Bob.ovk <=> sent.reader = Bob
    BY KeysDiffer
  <2>3. back.recovered = IF sent.reader.ovk = Bob.ovk THEN {<<sent.to.pk_d, n.rcm>>} ELSE {}
    BY <1>1, Opening
  <2> HIDE DEF back, n
  <2> QED
    BY <2>1, <2>2, <2>3
<1>6. ASSUME NEW other \in {Alice, Bob}
      PROVE  VerifyNullifier(other.nk, n, Nullifier(sent.reader.nk, n)) <=> other = sent.reader
  <2>1. other.nk = sent.reader.nk <=> other = sent.reader
    BY KeysDiffer
  <2>2. \A a, b : Nullifier(a, n) = Nullifier(b, n) <=> a = b
    <3> HIDE DEF n
    <3> QED
      BY DEF Nullifier
  <2> QED
    BY <2>1, <2>2 DEF VerifyNullifier
<1>7. ASSUME NEW memo \in 0 .. MaxMemo + 1, NEW key \in {Alice.ovk, Bob.ovk}
      PROVE  UNION {DecryptMemo(key, c) : c \in EncryptMemo(sent.reader.ovk, memo, Random(6))}
               = IF key = sent.reader.ovk /\ memo <= MaxMemo THEN {memo} ELSE {}
  <2>1. memo <= MaxMemo <=> ~(memo > MaxMemo)
    BY MemoAssumption
  <2> QED
    BY <2>1, MemoBack
<1> HIDE DEF back, reader, n, own
<1> QED
  <2>1. NotesReadable(sent) <=>
          /\ back.read = IF (sent.to.pk_d = DeriveFromIvk(back.reader) /\ sent.named.pk_d = sent.to.pk_d)
                            /\ ~sent.wallet_order THEN {back.note} ELSE {}
          /\ back.recovered = IF sent.reader = Bob THEN {<<sent.to.pk_d, Random(1)>>} ELSE {}
          /\ \A other \in {Alice, Bob} :
               VerifyNullifier(other.nk, back.note, Nullifier(sent.reader.nk, back.note)) <=> other = sent.reader
          /\ \A memo \in 0 .. MaxMemo + 1 : \A key \in {Alice.ovk, Bob.ovk} :
               UNION {DecryptMemo(key, c) : c \in EncryptMemo(sent.reader.ovk, memo, Random(6))}
                 = IF key = sent.reader.ovk /\ memo <= MaxMemo THEN {memo} ELSE {}
    BY DEF NotesReadable, back
  <2> QED
    BY <1>1, <1>4, <1>5, <1>6, <1>7, <2>1 DEF own

---------------------------------------------------------------------------
(* What the client sends, and what a signature covers.                     *)

\* A proof of one spend.
LEMMA OneSpend ==
  ASSUME NEW in
  PROVE  /\ MockProof(in) = {<<Satisfied(in, 1, 2)>>}
         /\ \A proof \in MockProof(in) : VerifySpendProof(proof, 1) <=> 1 * in = 2
<1>1. MockProof(in) = {<<Satisfied(in, 1, 2)>>}
  <2>1. {[k \in DOMAIN <<in>> |-> Satisfied(<<in>>[k], <<1>>[k], <<2>>[k])]} = {<<Satisfied(in, 1, 2)>>}
    <3>1. [k \in DOMAIN <<in>> |-> Satisfied(<<in>>[k], <<1>>[k], <<2>>[k])] = <<Satisfied(in, 1, 2)>>
      OBVIOUS
    <3> QED
      BY <3>1
  <2>2. <<in>> # <<>> /\ Len(<<in>>) = 1 /\ Len(<<1>>) = 1 /\ Len(<<2>>) = 1
    OBVIOUS
  <2> QED
    BY <2>1, <2>2 DEF MockProof, ProveSpends
<1>2. ASSUME NEW proof, proof = <<Satisfied(in, 1, 2)>>
      PROVE  VerifySpendProof(proof, 1) <=> 1 * in = 2
  <2>1. Len(proof) = 1 /\ DOMAIN proof = {1} /\ proof[1] = Satisfied(in, 1, 2)
    BY <1>2
  <2>2. Satisfied(in, 1, 2) <=> 1 * in = 2
    BY DEF Satisfied
  <2> QED
    BY <2>1, <2>2 DEF VerifySpendProof
<1> QED
  BY <1>1, <1>2

LEMMA AssembledFields ==
  ASSUME NEW sk, NEW spend, NEW outputs, NEW fee, NEW gas, NEW call, NEW code, NEW proof, NEW now, NEW tx,
         tx = Assembled(sk, spend, outputs, fee, gas, call, code, proof, now)
  PROVE  /\ tx.version = 1 /\ tx.chain_id = 1 /\ tx.spends = <<spend>> /\ tx.outputs = outputs
         /\ tx.fee = fee /\ tx.gas_limit = gas /\ tx.contract_call = call /\ tx.deploy_contract = code
         /\ tx.timestamp = NowObfuscated(now) /\ tx.proof = proof
<1> DEFINE unsigned == [version |-> 1, chain_id |-> 1, spends |-> <<spend>>, outputs |-> outputs,
                   fee |-> fee, gas_limit |-> gas, contract_call |-> call, deploy_contract |-> code,
                   binding_sig |-> <<>>, timestamp |-> NowObfuscated(now), proof |-> proof]
<1>1. tx = [unsigned EXCEPT !.binding_sig = BindingSig(unsigned, SigningBytes(unsigned), sk)]
  BY DEF Assembled
<1>2. PICK sig : tx = [unsigned EXCEPT !.binding_sig = sig]
  BY <1>1
<1> QED
  BY <1>2

LEMMA NotEmptyAt == \A s : Len(s) = 1 => s # <<>>
  OBVIOUS

LEMMA OneElement == \A s, x : s = <<x>> => Len(s) = 1 /\ s # <<>>
  OBVIOUS

LEMMA NoCallData == ASSUME NEW c, c = <<>> PROVE Len(CallData(c)) = 0
<1>1. [k \in DOMAIN c |-> c[k].method \o c[k].args] = <<>>
  OBVIOUS
<1> QED
  BY <1>1 DEF CallData, FlattenSeq

\* The format of a transfer is valid when its fee is of a tier.
LEMMA TransferFormat ==
  ASSUME NEW tx, NEW now \in Nat, tx.timestamp = NowObfuscated(now),
         tx.version = 1, Len(tx.spends) = 1, Len(tx.outputs) = 1,
         tx.gas_limit = 21000, tx.contract_call = <<>>, tx.deploy_contract = <<>>
  PROVE  ValidFormat(tx) <=> tx.fee \in FEE_TIERS
<1>1. tx.timestamp % 900 = 0
  <2>1. now \div 900 \in Nat
    OBVIOUS
  <2>2. \A k \in Nat : (k * 900) % 900 = 0
    OBVIOUS
  <2> QED
    BY <2>1, <2>2 DEF NowObfuscated
<1>2. tx.spends # <<>> /\ tx.outputs # <<>>
  BY NotEmptyAt
<1>3. LengthOf(tx.deploy_contract) = 0
  BY DEF LengthOf
<1>4. SerializedSize(tx) = ENVELOPE
  <2>1. Len(CallData(tx.contract_call)) = 0
    BY NoCallData
  <2> QED
    BY <1>3, <2>1 DEF SerializedSize, ENVELOPE
<1>5. /\ tx.gas_limit <= MAX_TX_GAS /\ SerializedSize(tx) <= MAX_P2P_MESSAGE_SIZE
      /\ LengthOf(tx.deploy_contract) <= MAX_CONTRACT_SIZE
  BY <1>3, <1>4 DEF MAX_TX_GAS, MAX_CONTRACT_SIZE, MAX_P2P_MESSAGE_SIZE, ENVELOPE
<1>6. Len(tx.spends) <= MAX_SPENDS_PER_TX /\ Len(tx.outputs) <= MAX_OUTPUTS_PER_TX
  BY DEF MAX_SPENDS_PER_TX, MAX_OUTPUTS_PER_TX
<1> QED
  BY <1>1, <1>2, <1>5, <1>6 DEF ValidFormat

\* What a transfer of the client is, whatever it is given.
LEMMA TransferSent ==
  ASSUME NEW sk, NEW recipient, NEW amount \in 0 .. Word - 1, NEW fee \in 0 .. Word - 1,
         NEW now \in Nat, NEW checked \in BOOLEAN, NEW in, in \in Sum64(amount, fee, checked)
  PROVE  /\ BuildTransfer(sk, recipient, amount, fee, in, now, checked) # {}
         /\ \A tx \in BuildTransfer(sk, recipient, amount, fee, in, now, checked) :
              /\ ValidFormat(tx) <=> fee \in FEE_TIERS
              /\ VerifySpendProof(tx.proof, 1) <=> 1 * in = 2
              /\ tx.spends[1].nullifier = "dummy_nf"
<1> DEFINE output == Output(Note(amount, Random(1), Random(2), recipient), recipient.pk_d,
                            FullViewingKey(sk).ovk)
           spend == MockSpend("dummy_nf", in)
           Build(proof) == Assembled(sk, spend, <<output>>, fee, 21000, <<>>, <<>>, proof, now)
           sent == BuildTransfer(sk, recipient, amount, fee, in, now, checked)
<1>1. in \in Nat
  BY WordAssumption DEF Sum64
<1>2. \E rest \in Difference64(in, amount, checked) : Difference64(rest, fee, checked) # {}
  <2>1. CASE in >= amount
    <3>1. Difference64(in, amount, checked) = {in - amount}
      BY <2>1 DEF Difference64
    <3>2. Difference64(in - amount, fee, checked) # {}
      <4>1. amount + fee < Word => in = amount + fee
        BY DEF Sum64
      <4>2. ~(amount + fee < Word) => ~checked
        BY DEF Sum64
      <4>3. CASE checked
        <5>1. in - amount = fee
          BY <4>2, <4>1, <4>3
        <5> QED
          BY <5>1 DEF Difference64
      <4>4. CASE ~checked
        BY <4>4 DEF Difference64
      <4> QED
        BY <4>3, <4>4
    <3> QED
      BY <3>1, <3>2
  <2>2. CASE ~(in >= amount)
    <3>1. ~checked
      BY <2>2, WordAssumption DEF Sum64
    <3> QED
      BY <2>2, <3>1 DEF Difference64
  <2> QED
    BY <2>1, <2>2
<1>3. sent = {Build(proof) : proof \in MockProof(in)}
  BY <1>2 DEF BuildTransfer
<1>4. ASSUME NEW proof \in MockProof(in), NEW tx, tx = Build(proof)
      PROVE  /\ ValidFormat(tx) <=> fee \in FEE_TIERS
             /\ VerifySpendProof(tx.proof, 1) <=> 1 * in = 2
             /\ tx.spends[1].nullifier = "dummy_nf"
  <2>1. /\ tx.version = 1 /\ tx.spends = <<spend>> /\ tx.outputs = <<output>>
        /\ tx.fee = fee /\ tx.gas_limit = 21000 /\ tx.contract_call = <<>> /\ tx.deploy_contract = <<>>
        /\ tx.timestamp = NowObfuscated(now) /\ tx.proof = proof
    <3> HIDE DEF output, spend
    <3> QED
      BY <1>4, AssembledFields
  <2>2. Len(tx.spends) = 1 /\ Len(tx.outputs) = 1 /\ tx.spends[1] = spend
    <3> HIDE DEF output, spend
    <3> QED
      BY <2>1
  <2>3. ValidFormat(tx) <=> fee \in FEE_TIERS
    <3> HIDE DEF output, spend, Build
    <3>2. /\ tx.timestamp = NowObfuscated(now) /\ tx.version = 1 /\ Len(tx.spends) = 1
          /\ Len(tx.outputs) = 1 /\ tx.gas_limit = 21000 /\ tx.contract_call = <<>>
          /\ tx.deploy_contract = <<>>
      BY <2>1, <2>2
    <3>1. ValidFormat(tx) <=> tx.fee \in FEE_TIERS
      BY <3>2, TransferFormat
    <3> QED
      BY <2>1, <3>1
  <2>4. VerifySpendProof(tx.proof, 1) <=> 1 * in = 2
    BY <2>1, OneSpend
  <2>5. tx.spends[1].nullifier = "dummy_nf"
    BY <2>2 DEF MockSpend
  <2> QED
    BY <2>3, <2>4, <2>5
<1>5. MockProof(in) # {}
  BY OneSpend
<1> HIDE DEF Build, sent
<1>6. sent # {}
  BY <1>3, <1>5
<1>7. \A tx \in sent : /\ ValidFormat(tx) <=> fee \in FEE_TIERS
                       /\ VerifySpendProof(tx.proof, 1) <=> 1 * in = 2
                       /\ tx.spends[1].nullifier = "dummy_nf"
  BY <1>3, <1>4
<1> QED
  BY <1>6, <1>7 DEF sent

\* Whatever is sent to whomever, a transfer the pool takes is one the engine
\* refuses, unless amount and fee wrap to 2 (main.rs 145-182, builder.rs
\* 21-118, transaction.rs 55-101).
THEOREM TransfersNeverProven ==
  ASSUME NEW to, NEW amount \in 0 .. Word - 1, NEW fee \in 0 .. Word - 1, NEW now \in Nat,
         NEW checked \in BOOLEAN
  PROVE  SentNeverProven(to, amount, fee, now, checked)
<1> SUFFICES ASSUME NEW keys \in CmdGenerateKeys(Hex("alice", 32))
             PROVE  LET sent == CmdSend(to, amount, fee, keys.spending_key, now, checked)
                    IN /\ CmdSend(keys.payment_address, amount, fee, keys.spending_key, now, checked) = {}
                       /\ sent # {} <=> IsHex32(to) /\ (checked => amount + fee < Word)
                       /\ \A tx \in sent :
                            /\ ValidFormat(tx) <=> fee \in FEE_TIERS
                            /\ ValidFormat(tx) => (VerifySpendProof(tx.proof, 1) <=> amount + fee = Word + 2)
                            /\ tx.spends[1].nullifier = "dummy_nf"
  BY DEF SentNeverProven
<1> DEFINE sent == CmdSend(to, amount, fee, keys.spending_key, now, checked)
           address == [diversifier |-> <<"div", 0>>, pk_d |-> to.bytes]
           Built(in) == BuildTransfer(keys.spending_key.bytes, address, amount, fee, in, now, checked)
<1>1. IsHex32(keys.spending_key) /\ ~IsHex32(keys.payment_address)
  <2>1. IsHex32(Hex("alice", 32))
    BY DEF IsHex32, Hex
  <2>2. keys = [spending_key |-> Hex(SpendingKey(Hex("alice", 32).bytes), 32),
                fvk |-> FullViewingKey(SpendingKey(Hex("alice", 32).bytes)),
                payment_address |->
                  ToBase58(PaymentAddress(IncomingViewKey(FullViewingKey(SpendingKey(Hex("alice", 32).bytes))), 0))]
    BY <2>1 DEF CmdGenerateKeys
  <2>3. keys.spending_key = Hex(SpendingKey(Hex("alice", 32).bytes), 32)
    BY <2>2
  <2>4. \E a : keys.payment_address = ToBase58(a)
    BY <2>2
  <2>5. IsHex32(keys.spending_key)
    BY <2>3 DEF IsHex32, Hex
  <2>6. ~IsHex32(keys.payment_address)
    BY <2>4 DEF IsHex32, ToBase58
  <2> QED
    BY <2>5, <2>6
<1>2. CmdSend(keys.payment_address, amount, fee, keys.spending_key, now, checked) = {}
  BY <1>1 DEF CmdSend
<1>3. sent = IF IsHex32(to) THEN UNION {Built(in) : in \in Sum64(amount, fee, checked)} ELSE {}
  BY <1>1 DEF CmdSend
<1>4. ASSUME NEW in \in Sum64(amount, fee, checked)
      PROVE  /\ Built(in) # {}
             /\ \A tx \in Built(in) : /\ ValidFormat(tx) <=> fee \in FEE_TIERS
                                      /\ VerifySpendProof(tx.proof, 1) <=> 1 * in = 2
                                      /\ tx.spends[1].nullifier = "dummy_nf"
  BY TransferSent
<1>5. ASSUME NEW in \in Sum64(amount, fee, checked), fee \in FEE_TIERS
      PROVE  1 * in = 2 <=> amount + fee = Word + 2
  <2>1. fee > 2
    BY <1>5 DEF FEE_TIERS
  <2>2. CASE amount + fee < Word
    <3>1. in = amount + fee
      BY <2>2 DEF Sum64
    <3> QED
      BY <2>1, <2>2, <3>1, WordAssumption
  <2>3. CASE ~(amount + fee < Word)
    <3>1. in = (amount + fee) % Word
      BY <2>3 DEF Sum64
    <3>2. (amount + fee) % Word = amount + fee - Word
      BY <2>3, WordAssumption
    <3> QED
      BY <2>3, <3>1, <3>2, WordAssumption
  <2> QED
    BY <2>2, <2>3
<1>6. Sum64(amount, fee, checked) # {} <=> (checked => amount + fee < Word)
  BY DEF Sum64
<1> HIDE DEF Built, sent
<1>7. sent # {} <=> IsHex32(to) /\ (checked => amount + fee < Word)
  BY <1>3, <1>4, <1>6
<1>8. ASSUME NEW tx \in sent
      PROVE  /\ ValidFormat(tx) <=> fee \in FEE_TIERS
             /\ ValidFormat(tx) => (VerifySpendProof(tx.proof, 1) <=> amount + fee = Word + 2)
             /\ tx.spends[1].nullifier = "dummy_nf"
  <2>1. PICK in \in Sum64(amount, fee, checked) : tx \in Built(in)
    BY <1>3
  <2> QED
    BY <1>4, <1>5, <2>1
<1> QED
  BY <1>2, <1>7, <1>8 DEF sent

IsSeq(s) == \E T : s \in Seq(T)

LEMMA SeqUnion == ASSUME NEW s, NEW T, NEW U, s \in Seq(T), T \subseteq U PROVE s \in Seq(U)
  OBVIOUS

LEMMA ConcatIs ==
  ASSUME NEW s, NEW t, IsSeq(s), IsSeq(t)
  PROVE  /\ IsSeq(s \o t) /\ Len(s \o t) = Len(s) + Len(t) /\ Len(s) \in Nat /\ Len(t) \in Nat
         /\ \A i \in 1 .. Len(s) + Len(t) : (s \o t)[i] = IF i <= Len(s) THEN s[i] ELSE t[i - Len(s)]
<1>1. PICK T, U : s \in Seq(T) /\ t \in Seq(U)
  BY DEF IsSeq
<1> DEFINE V == T \cup U
<1>2. s \in Seq(V) /\ t \in Seq(V)
  <2>1. T \subseteq V /\ U \subseteq V
    OBVIOUS
  <2> QED
    BY <1>1, <2>1, SeqUnion
<1> HIDE DEF V
<1>3. /\ s \o t \in Seq(V) /\ Len(s \o t) = Len(s) + Len(t)
      /\ \A i \in 1 .. Len(s) + Len(t) : (s \o t)[i] = IF i <= Len(s) THEN s[i] ELSE t[i - Len(s)]
  BY <1>2, ConcatProperties
<1>4. Len(s) \in Nat /\ Len(t) \in Nat
  BY <1>2
<1> QED
  BY <1>3, <1>4 DEF IsSeq

LEMMA ConcatNone == ASSUME NEW s, IsSeq(s) PROVE s \o <<>> = s /\ <<>> \o s = s
<1>1. PICK T : s \in Seq(T)
  BY DEF IsSeq
<1> QED
  BY <1>1, ConcatEmptySeq

LEMMA FlattenOne == ASSUME NEW s PROVE FlattenSeq(<<s>>) = s
<1> DEFINE seqs == <<s>>
           Body(g) == [i \in 1 .. Len(seqs) |-> IF i = 1 THEN seqs[i] ELSE g[i - 1] \o seqs[i]]
           f == [i \in 1 .. 1 |-> s]
           flatten == CHOOSE g : g = Body(g)
<1>1. Len(seqs) = 1 /\ seqs[1] = s
  OBVIOUS
<1>2. FlattenSeq(seqs) = flatten[1]
  <2> HIDE DEF seqs
  <2> QED
    BY <1>1 DEF FlattenSeq
<1> HIDE DEF seqs
<1>3. f = Body(f)
  BY <1>1
<1>4. flatten = Body(flatten)
  <2> HIDE DEF Body, f
  <2> QED
    BY <1>3
<1>5. flatten[1] = s
  <2> HIDE DEF flatten
  <2> QED
    BY <1>1, <1>4
<1> QED
  BY <1>2, <1>5 DEF seqs

LEMMA FlattenNone == FlattenSeq(<<>>) = <<>>
  BY DEF FlattenSeq

LEMMA NoneIsSeq == IsSeq(<<>>)
<1>1. <<>> \in Seq({})
  OBVIOUS
<1> QED
  BY <1>1 DEF IsSeq

\* The parts of a transaction with one spend, an output or none, and a call or
\* none.
LEMMA PartBytes ==
  ASSUME NEW s, NEW c
  PROVE  /\ Cvs(<<s>>) = <<s.cv>> /\ Cvs(<<>>) = <<>>
         /\ SpendBytes(<<s>>) = <<s.nullifier, s.cv>>
         /\ OutputBytes(<<>>) = <<>> /\ OutputBytes(<<s>>) = <<s.note_commitment, s.cv>>
         /\ CallBytes(<<>>) = <<>>
         /\ CallBytes(<<c>>) = <<c.contract_id>> \o c.method \o c.args
<1>1. Cvs(<<s>>) = <<s.cv>> /\ Cvs(<<>>) = <<>>
  BY DEF Cvs
<1>2. SpendBytes(<<s>>) = <<s.nullifier, s.cv>>
  <2>1. [k \in DOMAIN <<s>> |-> <<(<<s>>)[k].nullifier, (<<s>>)[k].cv>>] = <<<<s.nullifier, s.cv>>>>
    OBVIOUS
  <2> QED
    BY <2>1, FlattenOne DEF SpendBytes
<1>3. OutputBytes(<<>>) = <<>> /\ CallBytes(<<>>) = <<>>
  <2> DEFINE none == <<>>
  <2>1. [k \in DOMAIN none |-> <<none[k].note_commitment, none[k].cv>>] = <<>>
    OBVIOUS
  <2>2. [k \in DOMAIN none |-> <<none[k].contract_id>> \o none[k].method \o none[k].args] = <<>>
    OBVIOUS
  <2> QED
    BY <2>1, <2>2, FlattenNone DEF OutputBytes, CallBytes
<1>4. CallBytes(<<c>>) = <<c.contract_id>> \o c.method \o c.args
  <2> DEFINE bytes == <<c.contract_id>> \o c.method \o c.args
             cs == <<c>>
  <2>1. [k \in DOMAIN cs |-> <<cs[k].contract_id>> \o cs[k].method \o cs[k].args] = <<bytes>>
    <3>1. DOMAIN cs = {1} /\ cs[1] = c
      OBVIOUS
    <3> HIDE DEF cs
    <3> DEFINE f == [k \in DOMAIN cs |-> <<cs[k].contract_id>> \o cs[k].method \o cs[k].args]
    <3>2. DOMAIN f = {1} /\ f[1] = bytes
      BY <3>1
    <3>3. f = [k \in {1} |-> f[k]]
      BY <3>1
    <3> HIDE DEF f, bytes
    <3>4. f = <<bytes>>
      BY <3>2, <3>3
    <3> QED
      BY <3>4 DEF f
  <2>2. CallBytes(cs) = FlattenSeq(<<bytes>>)
    <3> HIDE DEF cs, bytes
    <3> QED
      BY <2>1 DEF CallBytes
  <2>3. FlattenSeq(<<bytes>>) = bytes
    BY FlattenOne
  <2> QED
    BY <2>2, <2>3
<1>5. OutputBytes(<<s>>) = <<s.note_commitment, s.cv>>
  <2>1. [k \in DOMAIN <<s>> |-> <<(<<s>>)[k].note_commitment, (<<s>>)[k].cv>>] = <<<<s.note_commitment, s.cv>>>>
    OBVIOUS
  <2> QED
    BY <2>1, FlattenOne DEF OutputBytes
<1> QED
  BY <1>1, <1>2, <1>3, <1>4, <1>5

LEMMA NoCallBytes == CallBytes(<<>>) = <<>>
  BY PartBytes

\* What the binding signature signs.
Signed(tx) == BindingMessage(tx, SigningBytes(tx))

Commits(tx) == Cvs(tx.spends) \o Cvs(tx.outputs)
Described(tx) == SpendBytes(tx.spends) \o OutputBytes(tx.outputs)
Fits(tx, n) ==
  /\ IsSeq(Commits(tx)) /\ Len(Commits(tx)) = n
  /\ IsSeq(Described(tx)) /\ Len(Described(tx)) = 2 * n
  /\ IsSeq(CallBytes(tx.contract_call)) /\ IsSeq(FlattenSeq(tx.deploy_contract))

\* Where the parts of a transaction of n spends and outputs are signed.
LEMMA SignedShape ==
  ASSUME NEW tx, NEW n \in Nat, Fits(tx, n)
  PROVE  /\ Signed(tx)[n + 3] = tx.fee /\ Signed(tx)[n + 4] = tx.timestamp
         /\ Len(Signed(tx)) = 3 * n + 4 + Len(CallBytes(tx.contract_call)) + Len(FlattenSeq(tx.deploy_contract))
         /\ \A i \in 1 .. 2 * n : Signed(tx)[n + 4 + i] = Described(tx)[i]
         /\ \A i \in 1 .. Len(CallBytes(tx.contract_call)) :
              Signed(tx)[3 * n + 4 + i] = CallBytes(tx.contract_call)[i]
<1> DEFINE head == <<tx.version, tx.chain_id, tx.fee, tx.timestamp>>
           cvs == Commits(tx)
           described == Described(tx)
           calls == CallBytes(tx.contract_call)
           code == FlattenSeq(tx.deploy_contract)
<1>1. IsSeq(head) /\ Len(head) = 4 /\ head[3] = tx.fee /\ head[4] = tx.timestamp
  <2>1. head \in Seq({tx.version, tx.chain_id, tx.fee, tx.timestamp})
    OBVIOUS
  <2>2. Len(head) = 4 /\ head[3] = tx.fee /\ head[4] = tx.timestamp
    OBVIOUS
  <2> HIDE DEF head
  <2> QED
    BY <2>1, <2>2 DEF IsSeq
<1>2. Signed(tx) = cvs \o (head \o ((described \o calls) \o code))
  BY DEF Signed, BindingMessage, SigningBytes, SignedParts, Commits, Described
<1>3. /\ IsSeq(cvs) /\ Len(cvs) = n /\ IsSeq(described) /\ Len(described) = 2 * n
      /\ IsSeq(calls) /\ IsSeq(code)
  BY DEF Fits
<1> HIDE DEF head, cvs, described, calls, code
<1> DEFINE most == described \o calls
           parts == most \o code
           bytes == head \o parts
           all == cvs \o bytes
<1>4. /\ IsSeq(most) /\ Len(most) = Len(described) + Len(calls) /\ Len(calls) \in Nat
      /\ \A i \in 1 .. Len(described) + Len(calls) :
           most[i] = IF i <= Len(described) THEN described[i] ELSE calls[i - Len(described)]
  BY <1>3, ConcatIs
<1> HIDE DEF most
<1>5. /\ IsSeq(parts) /\ Len(parts) = Len(most) + Len(code) /\ Len(code) \in Nat
      /\ \A i \in 1 .. Len(most) + Len(code) :
           parts[i] = IF i <= Len(most) THEN most[i] ELSE code[i - Len(most)]
  BY <1>3, <1>4, ConcatIs
<1> HIDE DEF parts
<1>6. /\ IsSeq(bytes) /\ Len(bytes) = Len(head) + Len(parts)
      /\ \A i \in 1 .. Len(head) + Len(parts) :
           bytes[i] = IF i <= Len(head) THEN head[i] ELSE parts[i - Len(head)]
  BY <1>1, <1>5, ConcatIs
<1> HIDE DEF bytes
<1>7. /\ Len(all) = Len(cvs) + Len(bytes)
      /\ \A i \in 1 .. Len(cvs) + Len(bytes) :
           all[i] = IF i <= Len(cvs) THEN cvs[i] ELSE bytes[i - Len(cvs)]
  BY <1>3, <1>6, ConcatIs
<1> HIDE DEF all
<1>8. /\ Len(most) = 2 * n + Len(calls) /\ Len(parts) = 2 * n + Len(calls) + Len(code)
      /\ Len(bytes) = 4 + 2 * n + Len(calls) + Len(code)
      /\ Len(all) = 3 * n + 4 + Len(calls) + Len(code)
      /\ Len(head) = 4 /\ Len(cvs) = n /\ Len(described) = 2 * n
  BY <1>1, <1>3, <1>4, <1>5, <1>6, <1>7
<1>9. \A i \in 1 .. 4 : all[n + i] = head[i]
  <2> SUFFICES ASSUME NEW i \in 1 .. 4 PROVE all[n + i] = head[i]
    OBVIOUS
  <2>1. n + i \in 1 .. Len(cvs) + Len(bytes) /\ ~(n + i <= Len(cvs)) /\ n + i - Len(cvs) = i
    BY <1>4, <1>5, <1>8
  <2>2. i \in 1 .. Len(head) + Len(parts) /\ i <= Len(head)
    BY <1>4, <1>5, <1>8
  <2>3. all[n + i] = bytes[n + i - Len(cvs)]
    BY <1>7, <2>1
  <2> QED
    BY <1>6, <2>1, <2>2, <2>3
<1>10. \A i \in 1 .. 2 * n + Len(calls) : all[n + 4 + i] = most[i]
  <2> SUFFICES ASSUME NEW i \in 1 .. 2 * n + Len(calls) PROVE all[n + 4 + i] = most[i]
    OBVIOUS
  <2>1. /\ n + 4 + i \in 1 .. Len(cvs) + Len(bytes) /\ ~(n + 4 + i <= Len(cvs))
        /\ n + 4 + i - Len(cvs) = 4 + i
    BY <1>4, <1>5, <1>8
  <2>2. 4 + i \in 1 .. Len(head) + Len(parts) /\ ~(4 + i <= Len(head)) /\ 4 + i - Len(head) = i
    BY <1>4, <1>5, <1>8
  <2>3. i \in 1 .. Len(most) + Len(code) /\ i <= Len(most)
    BY <1>4, <1>5, <1>8
  <2>4. all[n + 4 + i] = bytes[n + 4 + i - Len(cvs)]
    BY <1>7, <2>1
  <2>5. bytes[4 + i] = parts[4 + i - Len(head)]
    <3>1. PICK j \in 1 .. Len(head) + Len(parts) : j = 4 + i /\ ~(j <= Len(head))
      BY <2>2
    <3>2. bytes[j] = parts[j - Len(head)]
      BY <1>6, <3>1
    <3> QED
      BY <3>1, <3>2
  <2>6. parts[i] = most[i]
    BY <1>5, <2>3
  <2> QED
    BY <2>1, <2>2, <2>4, <2>5, <2>6
<1>11. \A i \in 1 .. 2 * n : all[n + 4 + i] = described[i]
  <2> SUFFICES ASSUME NEW i \in 1 .. 2 * n PROVE all[n + 4 + i] = described[i]
    OBVIOUS
  <2>1. /\ i \in 1 .. 2 * n + Len(calls) /\ i \in 1 .. Len(described) + Len(calls)
        /\ i <= Len(described)
    BY <1>4, <1>8
  <2> QED
    BY <1>4, <1>10, <2>1
<1>12. \A i \in 1 .. Len(calls) : all[3 * n + 4 + i] = calls[i]
  <2> SUFFICES ASSUME NEW i \in 1 .. Len(calls) PROVE all[3 * n + 4 + i] = calls[i]
    OBVIOUS
  <2>1. /\ 2 * n + i \in 1 .. 2 * n + Len(calls) /\ 2 * n + i \in 1 .. Len(described) + Len(calls)
        /\ ~(2 * n + i <= Len(described)) /\ 2 * n + i - Len(described) = i
        /\ 3 * n + 4 + i = n + 4 + (2 * n + i)
    BY <1>4, <1>8
  <2>2. all[n + 4 + (2 * n + i)] = most[2 * n + i]
    BY <1>10, <2>1
  <2>3. most[2 * n + i] = calls[2 * n + i - Len(described)]
    BY <1>4, <2>1
  <2> QED
    BY <2>1, <2>2, <2>3
<1>13. Signed(tx) = all
  BY <1>2 DEF all, bytes, parts, most
<1>14. all[n + 3] = tx.fee /\ all[n + 4] = tx.timestamp
  BY <1>1, <1>9
<1> QED
  BY <1>8, <1>11, <1>12, <1>13, <1>14 DEF described, calls, code

LEMMA SameFits ==
  ASSUME NEW a, NEW b, NEW n, Fits(a, n), a.spends = b.spends, a.outputs = b.outputs,
         a.contract_call = b.contract_call, a.deploy_contract = b.deploy_contract
  PROVE  Fits(b, n)
  BY DEF Fits, Commits, Described

\* One spend and no output: the forms of calls and deploys.
LEMMA PlainFits ==
  ASSUME NEW tx, NEW s, tx.spends = <<s>>, tx.outputs = <<>>,
         IsSeq(CallBytes(tx.contract_call)), IsSeq(FlattenSeq(tx.deploy_contract))
  PROVE  Fits(tx, 1)
<1> DEFINE spend == <<s.nullifier, s.cv>>
           cv == <<s.cv>>
<1>1. IsSeq(spend) /\ Len(spend) = 2 /\ IsSeq(cv) /\ Len(cv) = 1
  <2>1. spend \in Seq({s.nullifier, s.cv}) /\ cv \in Seq({s.cv})
    OBVIOUS
  <2>2. Len(spend) = 2 /\ Len(cv) = 1
    OBVIOUS
  <2> HIDE DEF spend, cv
  <2> QED
    BY <2>1, <2>2 DEF IsSeq
<1>2. /\ Cvs(tx.spends) = cv /\ Cvs(tx.outputs) = <<>>
      /\ SpendBytes(tx.spends) = spend /\ OutputBytes(tx.outputs) = <<>>
  BY PartBytes
<1> HIDE DEF spend, cv
<1>3. cv \o <<>> = cv /\ spend \o <<>> = spend
  BY <1>1, ConcatNone
<1>4. Commits(tx) = cv /\ Described(tx) = spend
  BY <1>2, <1>3 DEF Commits, Described
<1> QED
  BY <1>1, <1>4 DEF Fits

\* One spend and one output, neither call nor code: the form of a transfer.
LEMMA TransferFits ==
  ASSUME NEW tx, NEW s, NEW o, tx.spends = <<s>>, tx.outputs = <<o>>,
         tx.contract_call = <<>>, tx.deploy_contract = <<>>
  PROVE  Fits(tx, 2) /\ Described(tx)[3] = o.note_commitment
<1> DEFINE spend == <<s.nullifier, s.cv>>
           output == <<o.note_commitment, o.cv>>
           paid == <<s.cv>>
           made == <<o.cv>>
<1>1. /\ IsSeq(spend) /\ Len(spend) = 2 /\ IsSeq(paid) /\ Len(paid) = 1
      /\ IsSeq(output) /\ Len(output) = 2 /\ IsSeq(made) /\ Len(made) = 1
      /\ output[1] = o.note_commitment
  <2>1. /\ spend \in Seq({s.nullifier, s.cv}) /\ paid \in Seq({s.cv})
        /\ output \in Seq({o.note_commitment, o.cv}) /\ made \in Seq({o.cv})
    OBVIOUS
  <2>2. Len(spend) = 2 /\ Len(paid) = 1 /\ Len(output) = 2 /\ Len(made) = 1 /\ output[1] = o.note_commitment
    OBVIOUS
  <2> HIDE DEF spend, paid, output, made
  <2> QED
    BY <2>1, <2>2 DEF IsSeq
<1>2. /\ Cvs(tx.spends) = paid /\ Cvs(tx.outputs) = made
      /\ SpendBytes(tx.spends) = spend /\ OutputBytes(tx.outputs) = output
      /\ CallBytes(tx.contract_call) = <<>> /\ FlattenSeq(tx.deploy_contract) = <<>>
  BY PartBytes, FlattenNone
<1> HIDE DEF spend, output, paid, made
<1>3. IsSeq(paid \o made) /\ Len(paid \o made) = 2
  <2>1. IsSeq(paid \o made) /\ Len(paid \o made) = Len(paid) + Len(made)
    BY <1>1, ConcatIs
  <2> QED
    BY <1>1, <2>1
<1>4. IsSeq(spend \o output) /\ Len(spend \o output) = 4 /\ (spend \o output)[3] = output[1]
  <2>1. /\ IsSeq(spend \o output) /\ Len(spend \o output) = Len(spend) + Len(output)
        /\ \A i \in 1 .. Len(spend) + Len(output) :
             (spend \o output)[i] = IF i <= Len(spend) THEN spend[i] ELSE output[i - Len(spend)]
    BY <1>1, ConcatIs
  <2>2. 3 \in 1 .. Len(spend) + Len(output) /\ ~(3 <= Len(spend)) /\ 3 - Len(spend) = 1
    BY <1>1
  <2> QED
    BY <1>1, <2>1, <2>2
<1> QED
  BY <1>1, <1>2, <1>3, <1>4, NoneIsSeq DEF Fits, Commits, Described

\* A transaction as the builders leave it.
LEMMA BuiltTx ==
  ASSUME NEW sk, NEW spend, NEW outputs, NEW fee, NEW gas, NEW call, NEW code, NEW proof, NEW now, NEW tx,
         tx = Assembled(sk, spend, outputs, fee, gas, call, code, proof, now)
  PROVE  \E sig : /\ sig = Sign(sk, Signed(tx))
                  /\ tx = [version |-> 1, chain_id |-> 1, spends |-> <<spend>>, outputs |-> outputs,
                           fee |-> fee, gas_limit |-> gas, contract_call |-> call, deploy_contract |-> code,
                           binding_sig |-> sig, timestamp |-> NowObfuscated(now), proof |-> proof]
<1> DEFINE unsigned == [version |-> 1, chain_id |-> 1, spends |-> <<spend>>, outputs |-> outputs,
                   fee |-> fee, gas_limit |-> gas, contract_call |-> call, deploy_contract |-> code,
                   binding_sig |-> <<>>, timestamp |-> NowObfuscated(now), proof |-> proof]
           sig == BindingSig(unsigned, SigningBytes(unsigned), sk)
<1>1. tx = [unsigned EXCEPT !.binding_sig = sig]
  BY DEF Assembled
<1>2. tx = [version |-> 1, chain_id |-> 1, spends |-> <<spend>>, outputs |-> outputs,
                           fee |-> fee, gas_limit |-> gas, contract_call |-> call, deploy_contract |-> code,
                           binding_sig |-> sig, timestamp |-> NowObfuscated(now), proof |-> proof]
  <2> HIDE DEF sig
  <2> QED
    BY <1>1
<1>3. Signed(tx) = Signed(unsigned)
  <2>1. /\ tx.version = unsigned.version /\ tx.chain_id = unsigned.chain_id /\ tx.spends = unsigned.spends
        /\ tx.outputs = unsigned.outputs /\ tx.fee = unsigned.fee /\ tx.timestamp = unsigned.timestamp
        /\ tx.contract_call = unsigned.contract_call /\ tx.deploy_contract = unsigned.deploy_contract
    <3> HIDE DEF sig
    <3> QED
      BY <1>2
  <2> HIDE DEF unsigned
  <2> QED
    BY <2>1 DEF Signed, BindingMessage, SigningBytes, SignedParts
<1>4. sig = Sign(sk, Signed(unsigned))
  BY DEF BindingSig, Signed
<1> HIDE DEF sig, unsigned
<1> QED
  BY <1>2, <1>3, <1>4

\* A changed transaction verifies when the same bytes are signed.
LEMMA VerifiesSame ==
  ASSUME NEW sk, NEW tx, NEW changed, tx.binding_sig = Sign(sk, Signed(tx)),
         changed.binding_sig = tx.binding_sig
  PROVE  VerifyBindingSig(changed, SigningBytes(changed), sk) <=> Signed(changed) = Signed(tx)
<1>1. VerifyBindingSig(changed, SigningBytes(changed), sk) <=> Sign(sk, Signed(tx)) = Sign(sk, Signed(changed))
  BY DEF VerifyBindingSig, Verify, Signed
<1>2. Sign(sk, Signed(tx)) = Sign(sk, Signed(changed)) <=> Signed(tx) = Signed(changed)
  BY DEF Sign
<1> QED
  BY <1>1, <1>2

LEMMA SignedSame ==
  ASSUME NEW a, NEW b,
         a.version = b.version, a.chain_id = b.chain_id, a.spends = b.spends, a.outputs = b.outputs,
         a.fee = b.fee, a.timestamp = b.timestamp,
         CallBytes(a.contract_call) = CallBytes(b.contract_call), a.deploy_contract = b.deploy_contract
  PROVE  Signed(a) = Signed(b)
  BY DEF Signed, BindingMessage, SigningBytes, SignedParts

\* What any signed transaction of the builders allows.
LEMMA CoveredFields ==
  ASSUME NEW sk, NEW spend, NEW outputs, NEW gas, NEW call, NEW code, NEW proof, NEW tx, NEW n \in Nat,
         tx = Assembled(sk, spend, outputs, 10000, gas, call, code, proof, 1800), Fits(tx, n)
  PROVE  FieldsCovered(tx, sk)
<1>1. PICK sig :
        /\ sig = Sign(sk, Signed(tx))
        /\ tx = [version |-> 1, chain_id |-> 1, spends |-> <<spend>>, outputs |-> outputs,
                 fee |-> 10000, gas_limit |-> gas, contract_call |-> call, deploy_contract |-> code,
                 binding_sig |-> sig, timestamp |-> NowObfuscated(1800), proof |-> proof]
  BY BuiltTx
<1> DEFINE spent == [tx EXCEPT !.gas_limit = 0, !.proof = <<>>]
           dear == [tx EXCEPT !.fee = 100000]
           late == [tx EXCEPT !.timestamp = 0]
<1>2. /\ tx.binding_sig = Sign(sk, Signed(tx))
      /\ spent.binding_sig = tx.binding_sig /\ dear.binding_sig = tx.binding_sig /\ late.binding_sig = tx.binding_sig
  BY <1>1
<1>3. Signed(spent) = Signed(tx)
  <2>1. /\ spent.version = tx.version /\ spent.chain_id = tx.chain_id /\ spent.spends = tx.spends
        /\ spent.outputs = tx.outputs /\ spent.fee = tx.fee /\ spent.timestamp = tx.timestamp
        /\ spent.contract_call = tx.contract_call /\ spent.deploy_contract = tx.deploy_contract
    BY <1>1
  <2> HIDE DEF spent
  <2> QED
    BY <2>1, SignedSame
<1>4. /\ dear.spends = tx.spends /\ dear.outputs = tx.outputs /\ dear.contract_call = tx.contract_call
      /\ dear.deploy_contract = tx.deploy_contract /\ dear.fee = 100000
  BY <1>1
<1>5. /\ late.spends = tx.spends /\ late.outputs = tx.outputs /\ late.contract_call = tx.contract_call
      /\ late.deploy_contract = tx.deploy_contract /\ late.timestamp = 0
  BY <1>1
<1>6. tx.fee = 10000 /\ tx.timestamp = 1800
  BY <1>1 DEF NowObfuscated
<1> HIDE DEF spent, dear, late
<1>7. Signed(tx)[n + 3] = 10000 /\ Signed(tx)[n + 4] = 1800
  BY <1>6, SignedShape
<1>8. Signed(dear)[n + 3] = 100000
  <2>1. Fits(dear, n)
    BY <1>4, SameFits
  <2> QED
    BY <1>4, <2>1, SignedShape
<1>9. Signed(late)[n + 4] = 0
  <2>1. Fits(late, n)
    BY <1>5, SameFits
  <2> QED
    BY <1>5, <2>1, SignedShape
<1>10. Signed(dear) # Signed(tx) /\ Signed(late) # Signed(tx)
  BY <1>7, <1>8, <1>9
<1>11. /\ VerifyBindingSig(tx, SigningBytes(tx), sk)
       /\ VerifyBindingSig(spent, SigningBytes(spent), sk)
       /\ ~VerifyBindingSig(dear, SigningBytes(dear), sk)
       /\ ~VerifyBindingSig(late, SigningBytes(late), sk)
  BY <1>2, <1>3, <1>10, VerifiesSame
<1> QED
  BY <1>11 DEF FieldsCovered, Verified, spent, dear, late

LEMMA OutputHas ==
  ASSUME NEW n, NEW pk, NEW ovk, NEW o, o = Output(n, pk, ovk), NEW c
  PROVE  o.note_commitment = Commitment(n) /\ [o EXCEPT !.note_commitment = c].note_commitment = c
<1>1. PICK cv, epk, enc, out :
        o = [note_commitment |-> Commitment(n), cv |-> cv, ephemeral_key |-> epk,
             enc_ciphertext |-> enc, out_ciphertext |-> out]
  BY DEF Output
<1> QED
  BY <1>1

LEMMA OtherNote ==
  ASSUME NEW to
  PROVE  Commitment(Note(1, Random(1), Random(2), to)) # Commitment(Note(2, Random(1), Random(2), to))
<1>1. /\ Commitment(Note(1, Random(1), Random(2), to))[2] = 1
      /\ Commitment(Note(2, Random(1), Random(2), to))[2] = 2
  BY DEF Commitment, Note
<1> QED
  BY <1>1

\* A transfer whose output has been exchanged verifies no more.
LEMMA TransferSigned ==
  ASSUME NEW sk, NEW to, NEW pk, NEW ovk, NEW o, o = Output(Note(1, Random(1), Random(2), to), pk, ovk),
         NEW spend, NEW proof, NEW tx,
         tx = Assembled(sk, spend, <<o>>, 10000, 21000, <<>>, <<>>, proof, 1800)
  PROVE  TransferCovered(tx, sk, to)
<1> DEFINE other == Commitment(Note(2, Random(1), Random(2), to))
<1>1. PICK none, outputs : none = <<>> /\ outputs = <<o>>
  <2>1. \E none : none = <<>>
    OBVIOUS
  <2>2. \E outputs : outputs = <<o>>
    <3> WITNESS <<o>>
    <3> QED
      OBVIOUS
  <2> QED
    BY <2>1, <2>2
<1>2. tx = Assembled(sk, spend, outputs, 10000, 21000, none, none, proof, 1800)
  BY <1>1
<1>3. PICK sig :
        /\ sig = Sign(sk, Signed(tx))
        /\ tx = [version |-> 1, chain_id |-> 1, spends |-> <<spend>>, outputs |-> outputs,
                 fee |-> 10000, gas_limit |-> 21000, contract_call |-> none, deploy_contract |-> none,
                 binding_sig |-> sig, timestamp |-> NowObfuscated(1800), proof |-> proof]
  BY <1>2, BuiltTx
<1>4. /\ tx.spends = <<spend>> /\ tx.outputs = outputs /\ tx.contract_call = none /\ tx.deploy_contract = none
      /\ tx.binding_sig = Sign(sk, Signed(tx))
  BY <1>3
<1>5. Fits(tx, 2) /\ Described(tx)[3] = o.note_commitment
  BY <1>1, <1>4, TransferFits
<1>6. FieldsCovered(tx, sk)
  BY <1>2, <1>5, CoveredFields
<1> HIDE DEF other
<1>7. ASSUME NEW altered, altered = [o EXCEPT !.note_commitment = other], NEW made, made = <<altered>>,
             NEW changed, changed = [tx EXCEPT !.outputs = made]
      PROVE  Exchanged(tx, Note(2, Random(1), Random(2), to)) = changed /\ ~Verified(changed, sk)
  <2>1. Exchanged(tx, Note(2, Random(1), Random(2), to)) = changed
    <3>1. [outputs EXCEPT ![1] = altered] = made
      BY <1>1, <1>7
    <3>2. [outputs[1] EXCEPT !.note_commitment = other] = altered
      BY <1>1, <1>7
    <3>3. Exchanged(tx, Note(2, Random(1), Random(2), to))
            = [tx EXCEPT !.outputs = [outputs EXCEPT ![1] = [outputs[1] EXCEPT !.note_commitment = other]]]
      BY <1>4 DEF Exchanged, other
    <3> QED
      BY <1>7, <3>1, <3>2, <3>3
  <2>2. /\ changed.spends = <<spend>> /\ changed.outputs = <<altered>> /\ changed.contract_call = none
        /\ changed.deploy_contract = none /\ changed.binding_sig = tx.binding_sig
    BY <1>3, <1>7
  <2>3. Fits(changed, 2) /\ Described(changed)[3] = altered.note_commitment
    BY <1>1, <2>2, TransferFits
  <2>4. Signed(tx)[9] = o.note_commitment /\ Signed(changed)[9] = altered.note_commitment
    <3>1. 3 \in 1 .. 2 * 2 /\ 2 + 4 + 3 = 9
      OBVIOUS
    <3>2. Signed(tx)[2 + 4 + 3] = Described(tx)[3] /\ Signed(changed)[2 + 4 + 3] = Described(changed)[3]
      BY <1>5, <2>3, <3>1, SignedShape
    <3> QED
      BY <1>5, <2>3, <3>1, <3>2
  <2>5. o.note_commitment # altered.note_commitment
    BY <1>7, OutputHas, OtherNote DEF other
  <2> QED
    BY <1>4, <2>1, <2>2, <2>4, <2>5, VerifiesSame DEF Verified
<1>8. ~Verified(Exchanged(tx, Note(2, Random(1), Random(2), to)), sk)
  <2> DEFINE altered == [o EXCEPT !.note_commitment = other]
             made == <<altered>>
             changed == [tx EXCEPT !.outputs = made]
  <2>1. changed = [tx EXCEPT !.outputs = made]
    OBVIOUS
  <2> HIDE DEF changed
  <2>2. made = <<altered>>
    OBVIOUS
  <2> HIDE DEF made
  <2>3. altered = [o EXCEPT !.note_commitment = other]
    OBVIOUS
  <2> HIDE DEF altered
  <2> QED
    BY <1>7, <2>1, <2>2, <2>3
<1> QED
  BY <1>6, <1>8 DEF TransferCovered

LEMMA ConcatThree ==
  ASSUME NEW s, NEW t, NEW u, IsSeq(s), IsSeq(t), IsSeq(u)
  PROVE  (s \o t) \o u = s \o (t \o u)
<1>1. PICK T, U, V : s \in Seq(T) /\ t \in Seq(U) /\ u \in Seq(V)
  BY DEF IsSeq
<1> DEFINE W == T \cup U \cup V
<1>2. T \subseteq W /\ U \subseteq W /\ V \subseteq W
  OBVIOUS
<1> HIDE DEF W
<1>3. s \in Seq(W) /\ t \in Seq(W) /\ u \in Seq(W)
  BY <1>1, <1>2, SeqUnion
<1> QED
  BY <1>3, ConcatAssociative

\* The parts of a call are signed as one text.
OneCall(c) == CallBytes(<<c>>)
Text(id, m, a) == (id \o m) \o a
BothTexts(m, a) == m \o a
IsCall(c, id, m, a) == c.contract_id = id /\ c.method = m /\ c.args = a

LEMMA CallOf ==
  ASSUME NEW c, NEW id, NEW m, NEW a, IsCall(c, id, m, a)
  PROVE  OneCall(c) = Text(<<id>>, m, a)
  BY PartBytes DEF IsCall, Text, OneCall

LEMMA Texts ==
  ASSUME NEW id, NEW m, NEW a, IsSeq(id), Len(id) = 1, IsSeq(m), IsSeq(a)
  PROVE  /\ IsSeq(BothTexts(m, a))
         /\ IsSeq(Text(id, m, a)) /\ Len(Text(id, m, a)) = 1 + Len(BothTexts(m, a))
         /\ Text(id, <<>>, BothTexts(m, a)) = Text(id, m, a)
         /\ IsSeq(Text(id, <<>>, <<>>)) /\ Len(Text(id, <<>>, <<>>)) = 1
         /\ Text(id, m, a)[1] = id[1]
<1>1. IsSeq(BothTexts(m, a))
  BY ConcatIs DEF BothTexts
<1>2. Text(id, m, a) = id \o BothTexts(m, a)
  BY ConcatThree DEF Text, BothTexts
<1>3. id \o <<>> = id
  BY ConcatNone
<1>4. IsSeq(id \o BothTexts(m, a)) /\ Len(id \o BothTexts(m, a)) = Len(id) + Len(BothTexts(m, a))
  BY <1>1, ConcatIs
<1>5. Text(id, <<>>, BothTexts(m, a)) = id \o BothTexts(m, a)
  BY <1>3 DEF Text
<1>6. Text(id, <<>>, <<>>) = id
  BY <1>3 DEF Text
<1>7. (id \o BothTexts(m, a))[1] = id[1]
  <2>1. \A i \in 1 .. Len(id) + Len(BothTexts(m, a)) :
          (id \o BothTexts(m, a))[i] = IF i <= Len(id) THEN id[i] ELSE BothTexts(m, a)[i - Len(id)]
    BY <1>1, ConcatIs
  <2>2. Len(BothTexts(m, a)) \in Nat
    BY <1>1, ConcatIs
  <2>3. 1 \in 1 .. Len(id) + Len(BothTexts(m, a)) /\ 1 <= Len(id)
    BY <2>2
  <2> QED
    BY <2>1, <2>3
<1> QED
  BY <1>1, <1>2, <1>4, <1>5, <1>6, <1>7

LEMMA OneIsSeq == \A x : IsSeq(<<x>>) /\ Len(<<x>>) = 1
<1> SUFFICES ASSUME NEW x PROVE IsSeq(<<x>>) /\ Len(<<x>>) = 1
  OBVIOUS
<1>1. <<x>> \in Seq({x}) /\ Len(<<x>>) = 1
  OBVIOUS
<1> QED
  BY <1>1 DEF IsSeq

\* Code is signed whole.
LEMMA DeploySigned ==
  ASSUME NEW sk, NEW code, IsSeq(code), NEW gas, NEW spend, NEW proof, NEW tx,
         tx = Assembled(sk, spend, <<>>, 10000, gas, <<>>, <<code>>, proof, 1800)
  PROVE  DeployCovered(tx, sk, code)
<1>1. PICK none, codes : none = <<>> /\ codes = <<code>>
  <2>1. \E none : none = <<>>
    OBVIOUS
  <2>2. \E codes : codes = <<code>>
    <3> WITNESS <<code>>
    <3> QED
      OBVIOUS
  <2> QED
    BY <2>1, <2>2
<1>2. FlattenSeq(codes) = code /\ CallBytes(none) = <<>>
  BY <1>1, FlattenOne, NoCallBytes
<1>3. IsSeq(CallBytes(none)) /\ IsSeq(FlattenSeq(codes)) /\ IsSeq(none)
  BY <1>1, <1>2, NoneIsSeq
<1>4. tx = Assembled(sk, spend, none, 10000, gas, none, codes, proof, 1800)
  BY <1>1
<1>5. PICK sig :
        /\ sig = Sign(sk, Signed(tx))
        /\ tx = [version |-> 1, chain_id |-> 1, spends |-> <<spend>>, outputs |-> none,
                 fee |-> 10000, gas_limit |-> gas, contract_call |-> none, deploy_contract |-> codes,
                 binding_sig |-> sig, timestamp |-> NowObfuscated(1800), proof |-> proof]
  BY <1>4, BuiltTx
<1>6. /\ tx.spends = <<spend>> /\ tx.outputs = none /\ tx.contract_call = none /\ tx.deploy_contract = codes
      /\ tx.binding_sig = Sign(sk, Signed(tx))
  BY <1>5
<1>7. Fits(tx, 1)
  BY <1>1, <1>3, <1>6, PlainFits
<1>8. FieldsCovered(tx, sk)
  BY <1>4, <1>7, CoveredFields
<1>9. Len(Signed(tx)) = 3 * 1 + 4 + Len(CallBytes(none)) + Len(code)
  BY <1>2, <1>6, <1>7, SignedShape
<1>10. ASSUME NEW empty, empty = <<none>>, NEW changed, changed = [tx EXCEPT !.deploy_contract = empty], code # <<>>
       PROVE  ~Verified(changed, sk)
  <2>1. /\ changed.spends = <<spend>> /\ changed.outputs = none /\ changed.contract_call = none
        /\ changed.deploy_contract = empty /\ changed.binding_sig = tx.binding_sig
    BY <1>5, <1>10
  <2>2. FlattenSeq(empty) = none
    BY <1>10, FlattenOne
  <2>3. Fits(changed, 1)
    BY <1>1, <1>3, <2>1, <2>2, PlainFits
  <2>4. Len(Signed(changed)) = 3 * 1 + 4 + Len(CallBytes(none)) + Len(none)
    BY <2>1, <2>2, <2>3, SignedShape
  <2>5. Len(code) \in Nat /\ Len(none) \in Nat /\ Len(CallBytes(none)) \in Nat /\ Len(none) # Len(code)
    <3>1. \A t : IsSeq(t) => Len(t) \in Nat /\ (t # <<>> => Len(t) # 0)
      BY EmptySeq DEF IsSeq
    <3>2. Len(code) \in Nat /\ Len(code) # 0
      BY <1>10, <3>1
    <3>3. Len(none) = 0
      BY <1>1
    <3> QED
      BY <1>1, <1>2, <3>2, <3>3
  <2>6. Signed(changed) # Signed(tx)
    BY <1>9, <2>4, <2>5
  <2> QED
    BY <1>6, <2>1, <2>6, VerifiesSame DEF Verified
<1>11. code # <<>> => ~Verified(Emptied(tx), sk)
  <2> DEFINE empty == <<none>>
             changed == [tx EXCEPT !.deploy_contract = empty]
  <2>1. Emptied(tx) = changed
    BY <1>1 DEF Emptied
  <2>2. changed = [tx EXCEPT !.deploy_contract = empty]
    OBVIOUS
  <2> HIDE DEF changed
  <2>3. empty = <<none>>
    OBVIOUS
  <2> HIDE DEF empty
  <2> QED
    BY <1>10, <2>1, <2>2, <2>3
<1> QED
  BY <1>8, <1>11 DEF DeployCovered

\* What the signature of a call is worth when another call takes its place.
WithCall(tx, c) == [tx EXCEPT !.contract_call = <<c>>]
CoveredBy(tx, sk, call) ==
  /\ FieldsCovered(tx, sk) /\ tx.contract_call = <<call>>
  /\ \A c : IsSeq(OneCall(c)) =>
       /\ OneCall(c) = OneCall(call) => Verified(WithCall(tx, c), sk)
       /\ Len(OneCall(c)) # Len(OneCall(call)) => ~Verified(WithCall(tx, c), sk)
       /\ Len(OneCall(c)) = Len(OneCall(call)) /\ Len(OneCall(c)) # 0 /\ OneCall(c)[1] # OneCall(call)[1]
            => ~Verified(WithCall(tx, c), sk)

LEMMA CallSigned ==
  ASSUME NEW sk, NEW call, IsSeq(OneCall(call)), NEW gas, NEW proof, NEW spend, NEW tx,
         tx = Assembled(sk, spend, <<>>, 10000, gas, <<call>>, <<>>, proof, 1800)
  PROVE  CoveredBy(tx, sk, call)
<1>1. PICK none, calls : none = <<>> /\ calls = <<call>>
  OBVIOUS
<1>2. IsSeq(CallBytes(calls)) /\ IsSeq(FlattenSeq(none))
  <2>1. FlattenSeq(none) = none
    BY <1>1, FlattenNone
  <2> QED
    BY <1>1, <2>1, NoneIsSeq DEF OneCall
<1>3. tx = Assembled(sk, spend, none, 10000, gas, calls, none, proof, 1800)
  BY <1>1
<1>5. PICK sig :
        /\ sig = Sign(sk, Signed(tx))
        /\ tx = [version |-> 1, chain_id |-> 1, spends |-> <<spend>>, outputs |-> none,
                 fee |-> 10000, gas_limit |-> gas, contract_call |-> calls, deploy_contract |-> none,
                 binding_sig |-> sig, timestamp |-> NowObfuscated(1800), proof |-> proof]
  BY <1>3, BuiltTx
<1>6. tx.spends = <<spend>> /\ tx.outputs = none /\ tx.contract_call = calls /\ tx.deploy_contract = none
  BY <1>5
<1>10. Fits(tx, 1)
  BY <1>1, <1>2, <1>6, PlainFits
<1>4. FieldsCovered(tx, sk)
  BY <1>3, <1>10, CoveredFields
<1>7. /\ Len(Signed(tx)) = 3 * 1 + 4 + Len(CallBytes(calls)) + Len(FlattenSeq(none))
      /\ \A i \in 1 .. Len(CallBytes(calls)) : Signed(tx)[3 * 1 + 4 + i] = CallBytes(calls)[i]
  BY <1>6, <1>10, SignedShape
<1>8. ASSUME NEW c, NEW cs, cs = <<c>>, NEW changed, changed = [tx EXCEPT !.contract_call = cs], IsSeq(CallBytes(cs))
      PROVE  /\ CallBytes(cs) = CallBytes(calls) => Verified(changed, sk)
             /\ Len(CallBytes(cs)) # Len(CallBytes(calls)) => ~Verified(changed, sk)
             /\ Len(CallBytes(cs)) = Len(CallBytes(calls)) /\ Len(CallBytes(cs)) # 0
                  /\ CallBytes(cs)[1] # CallBytes(calls)[1] => ~Verified(changed, sk)
  <2>1. /\ changed.version = tx.version /\ changed.chain_id = tx.chain_id /\ changed.spends = tx.spends
        /\ changed.outputs = tx.outputs /\ changed.fee = tx.fee /\ changed.timestamp = tx.timestamp
        /\ changed.contract_call = cs /\ changed.deploy_contract = tx.deploy_contract
        /\ changed.binding_sig = tx.binding_sig
    BY <1>5, <1>8
  <2>2. Verified(changed, sk) <=> Signed(changed) = Signed(tx)
    BY <1>5, <2>1, VerifiesSame DEF Verified
  <2>3. CallBytes(cs) = CallBytes(calls) => Signed(changed) = Signed(tx)
    BY <1>6, <2>1, SignedSame
  <2>4. /\ Len(Signed(changed)) = 3 * 1 + 4 + Len(CallBytes(cs)) + Len(FlattenSeq(none))
        /\ \A i \in 1 .. Len(CallBytes(cs)) : Signed(changed)[3 * 1 + 4 + i] = CallBytes(cs)[i]
    <3>1. changed.spends = <<spend>> /\ changed.outputs = <<>>
      BY <1>1, <1>6, <2>1
    <3>2. IsSeq(CallBytes(changed.contract_call)) /\ IsSeq(FlattenSeq(changed.deploy_contract))
      BY <1>2, <1>6, <1>8, <2>1
    <3>3. Fits(changed, 1)
      BY <3>1, <3>2, PlainFits
    <3> QED
      BY <1>6, <2>1, <3>3, SignedShape
  <2>5. \A s : IsSeq(s) => Len(s) \in Nat
    BY DEF IsSeq
  <2>6. Len(CallBytes(cs)) \in Nat /\ Len(CallBytes(calls)) \in Nat /\ Len(FlattenSeq(none)) \in Nat
    BY <1>2, <1>8, <2>5
  <2>7. Len(CallBytes(cs)) # Len(CallBytes(calls)) => Signed(changed) # Signed(tx)
    BY <1>7, <2>4, <2>6
  <2>8. Len(CallBytes(cs)) = Len(CallBytes(calls)) /\ Len(CallBytes(cs)) # 0
          /\ CallBytes(cs)[1] # CallBytes(calls)[1] => Signed(changed) # Signed(tx)
    <3> SUFFICES ASSUME Len(CallBytes(cs)) = Len(CallBytes(calls)), Len(CallBytes(cs)) # 0,
                        CallBytes(cs)[1] # CallBytes(calls)[1]
                 PROVE  Signed(changed) # Signed(tx)
      OBVIOUS
    <3>1. 1 \in 1 .. Len(CallBytes(cs)) /\ 1 \in 1 .. Len(CallBytes(calls))
      BY <2>6
    <3>2. /\ Signed(changed)[3 * 1 + 4 + 1] = CallBytes(cs)[1]
          /\ Signed(tx)[3 * 1 + 4 + 1] = CallBytes(calls)[1]
      BY <1>7, <2>4, <3>1
    <3> QED
      BY <3>2
  <2> QED
    BY <2>2, <2>3, <2>7, <2>8
<1>9. ASSUME NEW c, IsSeq(OneCall(c))
      PROVE  /\ OneCall(c) = OneCall(call) => Verified(WithCall(tx, c), sk)
             /\ Len(OneCall(c)) # Len(OneCall(call)) => ~Verified(WithCall(tx, c), sk)
             /\ Len(OneCall(c)) = Len(OneCall(call)) /\ Len(OneCall(c)) # 0 /\ OneCall(c)[1] # OneCall(call)[1]
                  => ~Verified(WithCall(tx, c), sk)
  <2>1. PICK cs : cs = <<c>>
    OBVIOUS
  <2>2. OneCall(c) = CallBytes(cs) /\ OneCall(call) = CallBytes(calls) /\ WithCall(tx, c) = [tx EXCEPT !.contract_call = cs]
    BY <1>1, <2>1 DEF OneCall, WithCall
  <2> QED
    BY <1>8, <1>9, <2>1, <2>2
<1> QED
  BY <1>1, <1>4, <1>6, <1>9 DEF CoveredBy

DividedCall(call, args) == [call EXCEPT !.method = <<>>, !.args = args]
PosedCall(call) == [call EXCEPT !.caller_commitment = <<"other">>]
DivertedCall(call) == [call EXCEPT !.contract_id = "c2"]

\* A call whose parts have been changed.
LEMMA CallPartsChanged ==
  ASSUME NEW tx, NEW call, tx.contract_call = <<call>>
  PROVE  /\ Posed(tx) = WithCall(tx, PosedCall(call))
         /\ Diverted(tx) = WithCall(tx, DivertedCall(call))
         /\ \A text : Divided(tx, text) = WithCall(tx, DividedCall(call, text))
<1>1. PICK calls : calls = tx.contract_call
  OBVIOUS
<1>2. \A c : [calls EXCEPT ![1] = c] = <<c>>
  BY <1>1
<1>3. calls[1] = call
  BY <1>1
<1>4. Posed(tx) = [tx EXCEPT !.contract_call = [calls EXCEPT ![1] = [calls[1] EXCEPT !.caller_commitment = <<"other">>]]]
  BY <1>1 DEF Posed
<1>5. ASSUME NEW text PROVE Divided(tx, text) = WithCall(tx, DividedCall(call, text))
  <2>1. Divided(tx, text)
          = [tx EXCEPT !.contract_call = [calls EXCEPT ![1] = [calls[1] EXCEPT !.method = <<>>, !.args = text]]]
    BY <1>1 DEF Divided
  <2> QED
    BY <1>2, <1>3, <2>1 DEF WithCall, DividedCall
<1>6. Posed(tx) = WithCall(tx, PosedCall(call))
  BY <1>2, <1>3, <1>4 DEF WithCall, PosedCall
<1>7. Diverted(tx) = WithCall(tx, DivertedCall(call))
  <2>1. Diverted(tx) = [tx EXCEPT !.contract_call = [calls EXCEPT ![1] = [calls[1] EXCEPT !.contract_id = "c2"]]]
    BY <1>1 DEF Diverted
  <2> QED
    BY <1>2, <1>3, <2>1 DEF WithCall, DivertedCall
<1> QED
  BY <1>5, <1>6, <1>7

LEMMA CallsCovered ==
  ASSUME NEW sk, NEW id, NEW m, NEW a, NEW tx, NEW call, IsSeq(m), IsSeq(a), CoveredBy(tx, sk, call),
         IsCall(call, id, m, a), IsCall(PosedCall(call), id, m, a), id # "c2",
         IsCall(DivertedCall(call), "c2", m, a),
         \A text : IsCall(DividedCall(call, text), id, <<>>, text)
  PROVE  CallCovered(tx, sk, BothTexts(m, a))
<1> DEFINE both == BothTexts(m, a)
           text == Text(<<id>>, m, a)
<1>1. /\ OneCall(call) = text /\ OneCall(PosedCall(call)) = text
      /\ OneCall(DividedCall(call, both)) = Text(<<id>>, <<>>, both)
      /\ OneCall(DividedCall(call, <<>>)) = Text(<<id>>, <<>>, <<>>)
  BY CallOf
<1>2. /\ IsSeq(both) /\ IsSeq(text) /\ Len(text) = 1 + Len(both) /\ Text(<<id>>, <<>>, both) = text
      /\ IsSeq(Text(<<id>>, <<>>, <<>>)) /\ Len(Text(<<id>>, <<>>, <<>>)) = 1
  BY OneIsSeq, Texts
<1>3. /\ IsSeq(OneCall(call)) /\ Len(OneCall(call)) = 1 + Len(both)
      /\ OneCall(PosedCall(call)) = OneCall(call)
      /\ OneCall(DividedCall(call, both)) = OneCall(call)
      /\ IsSeq(OneCall(DividedCall(call, <<>>))) /\ Len(OneCall(DividedCall(call, <<>>))) = 1
  BY <1>1, <1>2
<1>4. /\ Posed(tx) = WithCall(tx, PosedCall(call)) /\ Diverted(tx) = WithCall(tx, DivertedCall(call))
      /\ Divided(tx, both) = WithCall(tx, DividedCall(call, both))
      /\ Divided(tx, <<>>) = WithCall(tx, DividedCall(call, <<>>))
  BY CallPartsChanged DEF CoveredBy
<1>5. Verified(Posed(tx), sk)
  BY <1>3, <1>4 DEF CoveredBy
<1>6. Verified(Divided(tx, both), sk)
  BY <1>3, <1>4 DEF CoveredBy
<1> HIDE DEF both
<1>7. ASSUME both # <<>> PROVE ~Verified(Divided(tx, <<>>), sk)
  <2>1. \A s : IsSeq(s) /\ s # <<>> => Len(s) \in Nat \ {0}
    BY EmptySeq DEF IsSeq
  <2>2. Len(both) \in Nat \ {0}
    BY <1>2, <1>7, <2>1
  <2>3. Len(OneCall(DividedCall(call, <<>>))) # Len(OneCall(call))
    <3>1. Len(OneCall(call)) = 1 + Len(both) /\ Len(OneCall(DividedCall(call, <<>>))) = 1
      BY <1>3
    <3>2. \A l \in Nat \ {0} : 1 # 1 + l
      OBVIOUS
    <3> QED
      BY <2>2, <3>1, <3>2
  <2> QED
    BY <1>3, <1>4, <2>3 DEF CoveredBy
<1>8. ~Verified(Diverted(tx), sk)
  <2>1. /\ IsSeq(Text(<<"c2">>, m, a)) /\ Len(Text(<<"c2">>, m, a)) = 1 + Len(BothTexts(m, a))
        /\ Text(<<"c2">>, m, a)[1] = (<<"c2">>)[1]
    BY OneIsSeq, Texts
  <2>2. text[1] = (<<id>>)[1]
    BY OneIsSeq, Texts
  <2>3. OneCall(DivertedCall(call)) = Text(<<"c2">>, m, a)
    BY CallOf
  <2>4. (<<"c2">>)[1] = "c2" /\ (<<id>>)[1] = id
    OBVIOUS
  <2> HIDE DEF text
  <2>5. /\ IsSeq(OneCall(DivertedCall(call))) /\ Len(OneCall(DivertedCall(call))) = Len(OneCall(call))
        /\ OneCall(DivertedCall(call))[1] # OneCall(call)[1]
    BY <1>1, <1>3, <2>1, <2>2, <2>3, <2>4 DEF both
  <2>6. \A t : IsSeq(t) => Len(t) \in Nat
    BY DEF IsSeq
  <2>7. Len(OneCall(DivertedCall(call))) # 0
    BY <1>2, <1>3, <2>5, <2>6
  <2> QED
    BY <1>4, <2>5, <2>7 DEF CoveredBy
<1>9. FieldsCovered(tx, sk)
  BY DEF CoveredBy
<1> QED
  BY <1>5, <1>6, <1>7, <1>8, <1>9 DEF CallCovered, both

\* What the builders make, whatever the call, the code and the recipient.
LEMMA DeploysCovered ==
  ASSUME NEW sk, NEW code, IsSeq(code), NEW gas, NEW tx \in BuildContractDeploy(sk, code, 10000, gas, 2, 1800)
  PROVE  DeployCovered(tx, sk, code)
<1>1. PICK proof : tx = Assembled(sk, MockSpend("deploy_nf", 2), <<>>, 10000, gas, <<>>, <<code>>, proof, 1800)
  BY DEF BuildContractDeploy
<1> QED
  BY <1>1, DeploySigned

LEMMA BuiltCallsCovered ==
  ASSUME NEW sk, NEW method, NEW args, IsSeq(method), IsSeq(args), NEW gas,
         NEW tx \in BuildContractCall(sk, "c1", method, args, 10000, gas, 2, 1800)
  PROVE  CallCovered(tx, sk, BothTexts(method, args))
<1> DEFINE call == [contract_id |-> "c1", method |-> method, args |-> args, gas_limit |-> gas,
                    caller_commitment |-> <<"blake3", sk>>]
<1>1. PICK proof : tx = Assembled(sk, MockSpend("call_nf", 2), <<>>, 10000, gas, <<call>>, <<>>, proof, 1800)
  BY DEF BuildContractCall
<1>2. /\ IsCall(call, "c1", method, args) /\ IsCall(PosedCall(call), "c1", method, args)
      /\ IsCall(DivertedCall(call), "c2", method, args)
  BY DEF IsCall, PosedCall, DivertedCall
<1>3. \A text : IsCall(DividedCall(call, text), "c1", <<>>, text)
  BY DEF IsCall, DividedCall
<1> HIDE DEF call
<1>4. IsSeq(OneCall(call))
  <2>1. OneCall(call) = Text(<<"c1">>, method, args)
    BY <1>2, CallOf
  <2> QED
    BY <2>1, OneIsSeq, Texts
<1>5. CoveredBy(tx, sk, call)
  BY <1>1, <1>4, CallSigned
<1>6. "c1" # "c2"
  OBVIOUS
<1> QED
  BY <1>2, <1>3, <1>5, <1>6, CallsCovered

LEMMA BuiltTransfer ==
  ASSUME NEW sk, NEW to, NEW o, o = Output(Note(1, Random(1), Random(2), to), to.pk_d, FullViewingKey(sk).ovk),
         NEW checked \in BOOLEAN,
         NEW tx \in BuildTransfer(sk, to, 1, 10000, 10001, 1800, checked)
  PROVE  \E proof : tx = Assembled(sk, MockSpend("dummy_nf", 10001), <<o>>, 10000, 21000, <<>>, <<>>, proof, 1800)
<1> DEFINE Build(proof) == Assembled(sk, MockSpend("dummy_nf", 10001), <<o>>, 10000, 21000, <<>>, <<>>, proof, 1800)
           proofs == IF \E rest \in Difference64(10001, 1, checked) : Difference64(rest, 10000, checked) # {}
                     THEN MockProof(10001) ELSE {}
           sent == BuildTransfer(sk, to, 1, 10000, 10001, 1800, checked)
<1>1. sent = {Build(proof) : proof \in proofs}
  BY DEF BuildTransfer
<1>2. tx \in sent
  OBVIOUS
<1> HIDE DEF Build, proofs, sent
<1>3. \E proof : tx = Build(proof)
  BY <1>1, <1>2
<1> QED
  BY <1>3 DEF Build

LEMMA TransfersCovered ==
  ASSUME NEW sk, NEW to, NEW checked \in BOOLEAN,
         NEW tx \in BuildTransfer(sk, to, 1, 10000, 10001, 1800, checked)
  PROVE  TransferCovered(tx, sk, to)
<1> DEFINE o == Output(Note(1, Random(1), Random(2), to), to.pk_d, FullViewingKey(sk).ovk)
<1>1. o = Output(Note(1, Random(1), Random(2), to), to.pk_d, FullViewingKey(sk).ovk)
  OBVIOUS
<1> HIDE DEF o
<1>2. PICK proof :
        tx = Assembled(sk, MockSpend("dummy_nf", 10001), <<o>>, 10000, 21000, <<>>, <<>>, proof, 1800)
  BY <1>1, BuiltTransfer
<1> QED
  BY <1>1, <1>2, TransferSigned

\* Whatever is called with whatever arguments, or deployed, and for a transfer:
\* the signature covers fee, time, output, contract, call and code, and neither
\* gas limit, proof, caller nor the border between method and arguments
\* (transaction.rs 104-127, keys.rs 62-108, builder.rs 21-237).
THEOREM SignaturesCover ==
  ASSUME NEW method, NEW args, NEW gas, IsSeq(method), IsSeq(args)
  PROVE  SignatureCovers(method, args, gas)
<1>1. IsSeq(method \o args)
  BY ConcatIs
<1>2. \A sk : \A tx \in BuildContractDeploy(sk, method \o args, 10000, gas, 2, 1800) :
        DeployCovered(tx, sk, method \o args)
  BY <1>1, DeploysCovered
<1>3. \A sk : \A tx \in BuildContractCall(sk, "c1", method, args, 10000, gas, 2, 1800) :
        CallCovered(tx, sk, method \o args)
  BY BuiltCallsCovered DEF BothTexts
<1>4. \A sk, to : \A checked \in BOOLEAN : \A tx \in BuildTransfer(sk, to, 1, 10000, 10001, 1800, checked) :
        TransferCovered(tx, sk, to)
  BY TransfersCovered
<1> QED
  BY <1>2, <1>3, <1>4 DEF SignatureCovers

---------------------------------------------------------------------------
(* Elections.                                                              *)

\* What each validator of a sequence has staked, and those before it.
LEMMA StakesDef ==
  ASSUME NEW T, NEW s \in Seq(T)
  PROVE  /\ StakesUpTo(s)[0] = 0
         /\ \A i \in 0 .. Len(s) - 1 : StakesUpTo(s)[i + 1] = StakesUpTo(s)[i] + s[i + 1].stake
<1> DEFINE Step(a, i) == a + s[i].stake
           Body(g, m) == [i \in 0 .. m |-> IF i = 0 THEN 0 ELSE Step(g[i - 1], i)]
           D == {m \in Nat : \E g : g = Body(g, m)}
<1>1. StakesUpTo(s) = CHOOSE g : g = Body(g, Len(s))
  BY DEF StakesUpTo
<1> HIDE DEF Step
<1>2. 0 \in D
  <2>1. [i \in 0 .. 0 |-> 0] = Body([i \in 0 .. 0 |-> 0], 0)
    OBVIOUS
  <2> QED
    BY <2>1
<1>3. ASSUME NEW m \in Nat, m \in D PROVE m + 1 \in D
  <2>1. PICK g : g = Body(g, m)
    BY <1>3
  <2> DEFINE f == [i \in 0 .. m + 1 |-> IF i = m + 1 THEN Step(g[m], m + 1) ELSE g[i]]
  <2>2. f = Body(f, m + 1)
    BY <2>1
  <2> HIDE DEF Body, f
  <2> QED
    BY <2>2
<1>4. \E g : g = Body(g, Len(s))
  <2>1. Len(s) \in D
    <3> HIDE DEF D
    <3> QED
      BY <1>2, <1>3, NatSetInduction
  <2> QED
    BY <2>1
<1>5. StakesUpTo(s) = Body(StakesUpTo(s), Len(s))
  <2> HIDE DEF Body
  <2> QED
    BY <1>1, <1>4
<1>6. StakesUpTo(s)[0] = 0
  BY <1>5
<1>7. ASSUME NEW i \in 0 .. Len(s) - 1 PROVE StakesUpTo(s)[i + 1] = Step(StakesUpTo(s)[i], i + 1)
  <2>1. i + 1 \in 0 .. Len(s) /\ i + 1 # 0 /\ (i + 1) - 1 = i
    OBVIOUS
  <2> QED
    BY <1>5, <2>1
<1> QED
  BY <1>6, <1>7 DEF Step

LEMMA StakesType ==
  ASSUME NEW T, \A t \in T : t.stake \in Nat, NEW s \in Seq(T)
  PROVE  \A k \in 0 .. Len(s) :
           /\ StakesUpTo(s)[k] \in Nat
           /\ \A j \in 0 .. k : StakesUpTo(s)[j] \in Nat /\ StakesUpTo(s)[j] <= StakesUpTo(s)[k]
<1> DEFINE D == {k \in Nat : k <= Len(s) =>
                   /\ StakesUpTo(s)[k] \in Nat
                   /\ \A j \in 0 .. k : StakesUpTo(s)[j] \in Nat /\ StakesUpTo(s)[j] <= StakesUpTo(s)[k]}
<1>1. 0 \in D
  BY StakesDef
<1>2. ASSUME NEW k \in Nat, k \in D PROVE k + 1 \in D
  <2> SUFFICES ASSUME k + 1 <= Len(s)
               PROVE  /\ StakesUpTo(s)[k + 1] \in Nat
                      /\ \A j \in 0 .. k + 1 :
                           StakesUpTo(s)[j] \in Nat /\ StakesUpTo(s)[j] <= StakesUpTo(s)[k + 1]
    OBVIOUS
  <2>1. k \in 0 .. Len(s) - 1 /\ k + 1 \in 1 .. Len(s) /\ k <= Len(s)
    OBVIOUS
  <2>2. StakesUpTo(s)[k + 1] = StakesUpTo(s)[k] + s[k + 1].stake /\ s[k + 1].stake \in Nat
    BY <2>1, StakesDef
  <2>3. /\ StakesUpTo(s)[k] \in Nat
        /\ \A j \in 0 .. k : StakesUpTo(s)[j] \in Nat /\ StakesUpTo(s)[j] <= StakesUpTo(s)[k]
    BY <1>2, <2>1
  <2>4. \A j \in 0 .. k + 1 : j \in 0 .. k \/ j = k + 1
    OBVIOUS
  <2> QED
    BY <2>2, <2>3, <2>4
<1>3. Nat \subseteq D
  <2> HIDE DEF D
  <2> QED
    BY <1>1, <1>2, NatSetInduction
<1> QED
  BY <1>3

\* A set of naturals has a smallest one.
LEMMA SmallestOf ==
  ASSUME NEW S \in SUBSET Nat, S # {}
  PROVE  \E m \in S : \A j \in S : m <= j
<1> DEFINE D == {n \in Nat : \A j \in S : j > n}
<1>1. SUFFICES ASSUME ~ \E m \in S : \A j \in S : m <= j PROVE FALSE
  OBVIOUS
<1>2. 0 \in D
  BY <1>1
<1>3. ASSUME NEW n \in Nat, n \in D PROVE n + 1 \in D
  BY <1>1, <1>3
<1>4. Nat \subseteq D
  <2> HIDE DEF D
  <2> QED
    BY <1>2, <1>3, NatSetInduction
<1>5. PICK x \in S : x \in Nat
  OBVIOUS
<1>6. x \in D
  BY <1>4, <1>5
<1> QED
  BY <1>5, <1>6

\* The first k validators are passed over exactly by the thresholds from the
\* sum of their stakes up.
LEMMA FirstAboveIs ==
  ASSUME NEW T, \A t \in T : t.stake \in Nat, NEW s \in Seq(T), NEW threshold \in Nat
  PROVE  /\ FirstAbove(s, threshold) = 0 <=> TotalStake(s) <= threshold
         /\ \A k \in 1 .. Len(s) : FirstAbove(s, threshold) = k <=>
              StakesUpTo(s)[k - 1] <= threshold /\ threshold < StakesUpTo(s)[k]
         /\ FirstAbove(s, threshold) \in 0 .. Len(s)
<1> DEFINE U == StakesUpTo(s)
           above == {k \in DOMAIN s : U[k] > threshold}
<1>1. \A k \in 0 .. Len(s) : U[k] \in Nat /\ \A j \in 0 .. k : U[j] \in Nat /\ U[j] <= U[k]
  BY StakesType
<1>2. FirstAbove(s, threshold) = IF above = {} THEN 0 ELSE Min(above)
  BY DEF FirstAbove
<1>3. TotalStake(s) = U[Len(s)] /\ U[0] = 0 /\ DOMAIN s = 1 .. Len(s) /\ Len(s) \in Nat
  BY StakesDef DEF TotalStake
<1> HIDE DEF U
<1>4. \A k \in above : k \in 1 .. Len(s) /\ U[k] > threshold
  BY <1>3
<1>5. \A k \in 1 .. Len(s) : U[k] > threshold => k \in above
  BY <1>3
<1>6. CASE above = {}
  <2>1. \A k \in 0 .. Len(s) : U[k] <= threshold
    BY <1>1, <1>3, <1>5, <1>6
  <2>2. FirstAbove(s, threshold) = 0
    <3> HIDE DEF above
    <3> QED
      BY <1>2, <1>6
  <2> HIDE DEF above
  <2>3. TotalStake(s) <= threshold
    BY <1>3, <2>1
  <2>4. \A k \in 1 .. Len(s) : ~(threshold < U[k])
    BY <1>1, <1>3, <2>1
  <2> QED
    BY <1>3, <2>2, <2>3, <2>4 DEF U
<1>7. CASE above # {}
  <2>1. PICK m \in above : \A j \in above : m <= j
    <3>1. above \subseteq Nat
      BY <1>4
    <3> HIDE DEF above
    <3> QED
      BY <1>7, <3>1, SmallestOf
  <2>2. Min(above) = m
    <3>1. \A x \in above : (\A j \in above : x <= j) => x = m
      BY <2>1, <1>4
    <3> HIDE DEF above
    <3> QED
      BY <2>1, <3>1 DEF Min
  <2>3. m \in 1 .. Len(s) /\ U[m] > threshold
    BY <1>4
  <2>4. \A j \in 0 .. m - 1 : U[j] <= threshold
    BY <1>1, <1>3, <1>5, <2>1, <2>3
  <2>5. \A k \in 1 .. Len(s) : m = k <=> U[k - 1] <= threshold /\ threshold < U[k]
    <3> SUFFICES ASSUME NEW k \in 1 .. Len(s) PROVE m = k <=> U[k - 1] <= threshold /\ threshold < U[k]
      OBVIOUS
    <3>1. CASE k = m
      BY <2>3, <2>4, <3>1, <1>1
    <3>2. CASE k < m
      <4>1. U[k] <= threshold
        BY <2>4, <2>3, <3>2
      <4> QED
        BY <4>1, <3>2, <2>3, <1>1
    <3>3. CASE k > m
      <4>1. U[m] <= U[k - 1] /\ U[m] \in Nat /\ U[k - 1] \in Nat
        BY <1>1, <2>3, <3>3
      <4> QED
        BY <4>1, <3>3, <2>3
    <3> QED
      BY <2>3, <3>1, <3>2, <3>3
  <2>6. TotalStake(s) > threshold
    BY <1>1, <1>3, <2>3
  <2>7. FirstAbove(s, threshold) = m
    <3> HIDE DEF above
    <3> QED
      BY <1>2, <1>7, <2>2
  <2>8. TotalStake(s) \in Nat
    BY <1>1, <1>3
  <2> HIDE DEF above
  <2> QED
    BY <1>3, <2>3, <2>5, <2>6, <2>7, <2>8 DEF U
<1> QED
  BY <1>6, <1>7

LEMMA NextDivision ==
  ASSUME NEW n \in Nat, NEW w \in Nat \ {0}
  PROVE  /\ n \div w \in Nat /\ n % w \in 0 .. w - 1
         /\ IF n % w = w - 1 THEN (n + 1) % w = 0 /\ (n + 1) \div w = n \div w + 1
            ELSE (n + 1) % w = (n % w) + 1 /\ (n + 1) \div w = n \div w
<1>1. PICK q \in Int, r \in Int : q = n \div w /\ r = n % w
  OBVIOUS
<1>2. n = w * q + r /\ r \in 0 .. w - 1
  BY <1>1
<1>3. q \in Nat
  BY <1>1
<1>4. CASE r = w - 1
  <2>1. n + 1 = w * (q + 1) + 0
    BY <1>2, <1>4
  <2>2. (n + 1) % w = 0 /\ (n + 1) \div w = q + 1
    BY <2>1, <1>3
  <2> QED
    BY <1>1, <1>2, <1>3, <1>4, <2>2
<1>5. CASE r # w - 1
  <2>1. n + 1 = w * q + (r + 1) /\ r + 1 \in 0 .. w - 1
    BY <1>2, <1>5
  <2>2. (n + 1) % w = r + 1 /\ (n + 1) \div w = q
    BY <2>1, <1>3
  <2> QED
    BY <1>1, <1>2, <1>3, <1>5, <2>2
<1> QED
  BY <1>4, <1>5

\* Of the draws below n, those that fall from a up to b, modulo w.
DrawsIn(n, w, a, b) == {d \in 0 .. n - 1 : a <= d % w /\ d % w < b}

\* Of the last turn, when r of it are drawn.
OfLastTurn(r, a, b) == IF r <= a THEN 0 ELSE IF r >= b THEN b - a ELSE r - a

LEMMA DrawsCounted ==
  ASSUME NEW w \in Nat \ {0}, NEW b \in 0 .. w, NEW a \in 0 .. b, NEW n \in Nat
  PROVE  /\ IsFiniteSet(DrawsIn(n, w, a, b))
         /\ Cardinality(DrawsIn(n, w, a, b)) = (b - a) * (n \div w) + OfLastTurn(n % w, a, b)
<1> DEFINE Count(m) == (b - a) * (m \div w) + OfLastTurn(m % w, a, b)
           D == {m \in Nat : /\ IsFiniteSet(DrawsIn(m, w, a, b))
                             /\ Cardinality(DrawsIn(m, w, a, b)) = Count(m)}
<1>1. 0 \in D
  <2>1. DrawsIn(0, w, a, b) = {}
    BY DEF DrawsIn
  <2>2. 0 \div w = 0 /\ 0 % w = 0
    OBVIOUS
  <2>3. Count(0) = 0
    BY <2>2 DEF OfLastTurn
  <2> QED
    BY <2>1, <2>3, FS_EmptySet
<1>2. ASSUME NEW m \in Nat, m \in D PROVE m + 1 \in D
  <2>1. PICK q, r, p : q = m \div w /\ r = m % w /\ p = (b - a) * q
    OBVIOUS
  <2>2. q \in Nat /\ r \in 0 .. w - 1 /\ p \in Int /\ (b - a) * (q + 1) = p + (b - a)
    <3>1. q \in Nat /\ r \in 0 .. w - 1
      BY <2>1, NextDivision
    <3>2. PICK c \in Int : c = b - a
      OBVIOUS
    <3>3. p = c * q
      BY <2>1, <3>2
    <3> QED
      BY <3>1, <3>2, <3>3
  <2>3. Count(m) = p + OfLastTurn(r, a, b)
    BY <2>1
  <2>4. Count(m + 1) = Count(m) + IF a <= r /\ r < b THEN 1 ELSE 0
    <3>1. CASE r = w - 1
      <4>1. Count(m + 1) = (b - a) * (q + 1) + OfLastTurn(0, a, b)
        BY <2>1, <3>1, NextDivision
      <4>2. OfLastTurn(0, a, b) = 0
        BY DEF OfLastTurn
      <4> HIDE DEF Count
      <4>3. OfLastTurn(r, a, b) + (IF a <= r /\ r < b THEN 1 ELSE 0) = b - a
        BY <3>1 DEF OfLastTurn
      <4> QED
        BY <2>2, <2>3, <4>1, <4>2, <4>3 DEF OfLastTurn
    <3>2. CASE r # w - 1
      <4>1. Count(m + 1) = p + OfLastTurn(r + 1, a, b)
        BY <2>1, <3>2, NextDivision
      <4> HIDE DEF Count
      <4>2. OfLastTurn(r + 1, a, b) = OfLastTurn(r, a, b) + IF a <= r /\ r < b THEN 1 ELSE 0
        BY <2>2 DEF OfLastTurn
      <4> QED
        BY <2>2, <2>3, <4>1, <4>2 DEF OfLastTurn
    <3> QED
      BY <3>1, <3>2
  <2> HIDE DEF Count
  <2>5. m \notin DrawsIn(m, w, a, b)
    BY DEF DrawsIn
  <2>6. DrawsIn(m + 1, w, a, b) = IF a <= r /\ r < b THEN DrawsIn(m, w, a, b) \cup {m} ELSE DrawsIn(m, w, a, b)
    <3>1. \A d : d \in 0 .. m <=> d \in 0 .. m - 1 \/ d = m
      OBVIOUS
    <3> QED
      BY <2>1, <3>1 DEF DrawsIn
  <2>7. Count(m) \in Int
    BY <2>2, <2>3 DEF OfLastTurn
  <2> QED
    BY <1>2, <2>4, <2>5, <2>6, <2>7, FS_AddElement
<1>3. Nat \subseteq D
  <2> HIDE DEF D
  <2> QED
    BY <1>1, <1>2, NatSetInduction
<1> QED
  BY <1>3

\* An interval of the draws modulo w has its part of them.
LEMMA PartOfDraws ==
  ASSUME NEW w \in Nat \ {0}, NEW b \in 0 .. w, NEW a \in 0 .. b
  PROVE  Proportional(Cardinality(DrawsIn(Draws, w, a, b)), b - a, w)
<1>1. PICK q, r, p : q = Draws \div w /\ r = Draws % w /\ p = (b - a) * q
  OBVIOUS
<1>2. Draws \in Nat
  BY ElectionAssumption
<1>3. q \in Nat /\ r \in 0 .. w - 1 /\ p \in Int
  <2>1. q \in Nat /\ r \in 0 .. w - 1
    BY <1>1, <1>2, NextDivision
  <2>2. b - a \in Int
    OBVIOUS
  <2> QED
    BY <1>1, <2>1, <2>2
<1>4. Cardinality(DrawsIn(Draws, w, a, b)) = p + OfLastTurn(r, a, b)
  BY <1>1, <1>2, DrawsCounted
<1>5. OfLastTurn(r, a, b) \in 0 .. (IF r < b - a THEN r ELSE b - a)
  BY <1>3 DEF OfLastTurn
<1>6. p + OfLastTurn(r, a, b) - p = OfLastTurn(r, a, b)
  BY <1>3, <1>5
<1> QED
  BY <1>1, <1>4, <1>5, <1>6 DEF Proportional

\* A sequence of validators of different ids leads for its stakes.
LEMMA SharesHold ==
  ASSUME NEW T, \A t \in T : t.stake \in Nat, NEW s \in Seq(T),
         \A j, k \in 1 .. Len(s) : s[j].id = s[k].id => j = k, TotalStake(s) > 0,
         NEW leads, \A d \in 0 .. Draws - 1 : leads[d] = s[FirstAbove(s, d % TotalStake(s))]
  PROVE  SharesOf(s, leads)
<1> DEFINE U == StakesUpTo(s)
           w == TotalStake(s)
<1>1. /\ w = U[Len(s)] /\ Len(s) \in Nat /\ DOMAIN s = 1 .. Len(s)
      /\ \A k \in 0 .. Len(s) : U[k] \in Nat /\ \A j \in 0 .. k : U[j] \in Nat /\ U[j] <= U[k]
  BY StakesType DEF TotalStake
<1>2. w \in Nat \ {0}
  BY <1>1
<1>3. SUFFICES ASSUME NEW k \in 1 .. Len(s) PROVE Proportional(Chosen(s[k], leads), s[k].stake, w)
  BY <1>1 DEF SharesOf
<1>4. /\ U[k] - U[k - 1] = s[k].stake
      /\ U[k] \in 0 .. w /\ U[k - 1] \in 0 .. U[k]
  <2>1. /\ k - 1 \in 0 .. Len(s) - 1 /\ (k - 1) + 1 = k /\ k \in 0 .. Len(s) /\ k - 1 \in 0 .. k
        /\ Len(s) \in 0 .. Len(s)
    BY <1>1
  <2>2. U[k] = U[k - 1] + s[k].stake
    BY <2>1, StakesDef
  <2>3. s[k].stake \in Nat
    OBVIOUS
  <2> HIDE DEF U, w
  <2>4. U[k] \in Nat /\ U[k - 1] \in Nat /\ U[k - 1] <= U[k] /\ U[k] <= U[Len(s)]
    BY <1>1, <2>1
  <2> QED
    BY <1>1, <2>2, <2>3, <2>4
<1>5. {d \in 0 .. Draws - 1 : leads[d].id = s[k].id} = DrawsIn(Draws, w, U[k - 1], U[k])
  <2>1. ASSUME NEW d \in 0 .. Draws - 1
        PROVE  leads[d].id = s[k].id <=> U[k - 1] <= d % w /\ d % w < U[k]
    <3>1. d \in Nat
      BY ElectionAssumption
    <3>2. d % w \in Nat /\ d % w < w
      <4> HIDE DEF U, w
      <4>1. d % w \in 0 .. w - 1
        BY <1>2, <3>1, NextDivision
      <4> QED
        BY <1>2, <4>1
    <3>3. /\ FirstAbove(s, d % w) = 0 <=> w <= d % w
          /\ FirstAbove(s, d % w) = k <=> U[k - 1] <= d % w /\ d % w < U[k]
          /\ FirstAbove(s, d % w) \in 0 .. Len(s)
      BY <3>2, FirstAboveIs
    <3>4. PICK f : f = FirstAbove(s, d % w)
      OBVIOUS
    <3>5. leads[d] = s[f]
      BY <3>4
    <3> HIDE DEF U, w
    <3>6. f \in 1 .. Len(s)
      BY <1>1, <1>2, <3>2, <3>3, <3>4
    <3>7. leads[d].id = s[k].id <=> f = k
      BY <3>5, <3>6
    <3> QED
      BY <3>3, <3>4, <3>7
  <2> HIDE DEF U, w
  <2> QED
    BY <2>1 DEF DrawsIn
<1> HIDE DEF U, w
<1>6. Proportional(Cardinality(DrawsIn(Draws, w, U[k - 1], U[k])), U[k] - U[k - 1], w)
  BY <1>2, <1>4, PartOfDraws
<1> QED
  BY <1>4, <1>5, <1>6 DEF Chosen

\* ahead says who comes before whom: all but itself, one way round each.
LinedUp(ahead, members) ==
  /\ ahead \in [members -> SUBSET members]
  /\ \A i \in members : i \notin ahead[i]
  /\ \A i, j \in members : i # j => i \in ahead[j] \/ j \in ahead[i]
  /\ \A i, j \in members : j \in ahead[i] => ahead[j] \subseteq ahead[i]

\* In such an order each member has one place in the line.
LEMMA LineHasAll ==
  ASSUME NEW members, IsFiniteSet(members), NEW ahead, LinedUp(ahead, members)
  PROVE  /\ Cardinality(members) \in Nat
         /\ DOMAIN InLine(members, ahead) = 1 .. Cardinality(members)
         /\ \A k \in 1 .. Cardinality(members) : InLine(members, ahead)[k] \in members
         /\ \A j, k \in 1 .. Cardinality(members) : InLine(members, ahead)[j] = InLine(members, ahead)[k] => j = k
<1> DEFINE n == Cardinality(members)
           place == [i \in members |-> Cardinality(ahead[i]) + 1]
<1>1. n \in Nat
  BY FS_CardinalityType
<1>2. ASSUME NEW i \in members
      PROVE  IsFiniteSet(ahead[i]) /\ Cardinality(ahead[i]) \in Nat /\ Cardinality(ahead[i]) < n
  <2>1. ahead[i] \in SUBSET members /\ ahead[i] # members
    BY DEF LinedUp
  <2> QED
    BY <1>1, <2>1, FS_Subset, FS_CardinalityType
<1>3. ASSUME NEW i \in members, NEW j \in members, j \in ahead[i]
      PROVE  Cardinality(ahead[j]) < Cardinality(ahead[i])
  <2>1. ahead[j] \in SUBSET ahead[i] /\ ahead[j] # ahead[i]
    BY <1>3 DEF LinedUp
  <2>2. Cardinality(ahead[j]) <= Cardinality(ahead[i]) /\ Cardinality(ahead[j]) # Cardinality(ahead[i])
    BY <1>2, <2>1, FS_Subset
  <2> QED
    BY <1>2, <2>2
<1>4. \A i, j \in members : Cardinality(ahead[i]) = Cardinality(ahead[j]) => i = j
  <2> SUFFICES ASSUME NEW i \in members, NEW j \in members, i # j
               PROVE  Cardinality(ahead[i]) # Cardinality(ahead[j])
    OBVIOUS
  <2>1. i \in ahead[j] \/ j \in ahead[i]
    BY DEF LinedUp
  <2> QED
    BY <1>2, <1>3, <2>1
<1>5. place \in Injection(members, 1 .. n)
  <2>1. place \in [members -> 1 .. n]
    BY <1>1, <1>2
  <2>2. \A i, j \in members : place[i] = place[j] => i = j
    BY <1>2, <1>4
  <2> QED
    BY <2>1, <2>2 DEF Injection, IsInjective
<1>6. place \in Surjection(members, 1 .. n)
  <2>1. IsFiniteSet(1 .. n) /\ Cardinality(1 .. n) = n
    BY <1>1, FS_Interval
  <2> HIDE DEF place
  <2> QED
    BY <1>5, <2>1, FS_Injection
<1>7. \A k \in 1 .. n : \E i \in members : Cardinality(ahead[i]) = k - 1
  <2> TAKE k \in 1 .. n
  <2>1. PICK i \in members : place[i] = k
    <3> HIDE DEF place
    <3> QED
      BY <1>6 DEF Surjection
  <2> QED
    BY <1>2, <2>1
<1> DEFINE line == InLine(members, ahead)
<1>8. DOMAIN line = 1 .. n /\ \A k \in 1 .. n : line[k] = CHOOSE i \in members : Cardinality(ahead[i]) = k - 1
  BY DEF InLine
<1> HIDE DEF line, n
<1>9. \A k \in 1 .. n : line[k] \in members /\ Cardinality(ahead[line[k]]) = k - 1
  BY <1>7, <1>8
<1>10. \A j, k \in 1 .. n : line[j] = line[k] => j = k
  <2> SUFFICES ASSUME NEW j \in 1 .. n, NEW k \in 1 .. n, line[j] = line[k] PROVE j = k
    OBVIOUS
  <2>1. j - 1 = k - 1
    BY <1>9
  <2> QED
    BY <2>1, <1>1
<1> QED
  BY <1>1, <1>8, <1>9, <1>10 DEF line, n

\* Validators in a row, each once.
Electorate(s, T) ==
  s \in Seq(T) /\ \A j, k \in 1 .. Len(s) : s[j].id = s[k].id => j = k

\* The validators picked from the tree are some of it, each once.
LEMMA PickedOnce ==
  ASSUME NEW T, NEW tree, Electorate(tree, T),
         NEW members \in SUBSET (1 .. Len(tree)), NEW ahead, LinedUp(ahead, members)
  PROVE  /\ Electorate(Picked(tree, InLine(members, ahead)), T)
         /\ \A k \in 1 .. Len(Picked(tree, InLine(members, ahead))) :
              \E i \in members : Picked(tree, InLine(members, ahead))[k] = tree[i]
<1> DEFINE line == InLine(members, ahead)
           s == Picked(tree, line)
<1>1. PICK n : n = Cardinality(members)
  OBVIOUS
<1> tree \in Seq(T) /\ \A i, j \in 1 .. Len(tree) : tree[i].id = tree[j].id => i = j
  BY DEF Electorate
<1>2. IsFiniteSet(members)
  <2>1. IsFiniteSet(1 .. Len(tree))
    BY FS_Interval
  <2> QED
    BY <2>1, FS_Subset
<1>3. /\ n \in Nat /\ DOMAIN line = 1 .. n
      /\ \A k \in 1 .. n : line[k] \in members
      /\ \A j, k \in 1 .. n : line[j] = line[k] => j = k
  BY <1>1, <1>2, LineHasAll
<1> HIDE DEF line
<1>4. s = [k \in 1 .. n |-> tree[line[k]]]
  BY <1>3 DEF Picked
<1>5. \A k \in 1 .. n : line[k] \in 1 .. Len(tree) /\ tree[line[k]] \in T
  <2>1. \A i \in members : i \in 1 .. Len(tree) /\ tree[i] \in T
    OBVIOUS
  <2> QED
    BY <1>3, <2>1
<1>6. s \in Seq(T) /\ Len(s) = n
  BY <1>3, <1>4, <1>5
<1> QED
  <2>1. Electorate(s, T)
    <3>1. \A k \in 1 .. n : s[k].id = tree[line[k]].id
      BY <1>4
    <3> HIDE DEF s
    <3> QED
      BY <1>3, <1>5, <1>6, <3>1 DEF Electorate
  <2>2. \A k \in 1 .. Len(s) : \E i \in members : s[k] = tree[i]
    BY <1>3, <1>4, <1>6
  <2> QED
    BY <2>1, <2>2 DEF line

LEMMA RicherFirst ==
  ASSUME NEW T, \A t \in T : t.stake \in Nat, NEW tree \in Seq(T), NEW members \in SUBSET (1 .. Len(tree))
  PROVE  LinedUp(RicherThan(tree, members), members)
<1>1. \A i \in members : i \in Nat /\ tree[i].stake \in Nat
  OBVIOUS
<1> DEFINE ahead == RicherThan(tree, members)
<1>2. /\ ahead \in [members -> SUBSET members]
      /\ \A i, j \in members :
           j \in ahead[i] <=> tree[j].stake > tree[i].stake \/ (tree[j].stake = tree[i].stake /\ j < i)
  BY DEF RicherThan
<1> HIDE DEF ahead
<1>3. \A i \in members : i \notin ahead[i]
  BY <1>1, <1>2
<1>4. \A i, j \in members : i # j => i \in ahead[j] \/ j \in ahead[i]
  BY <1>1, <1>2
<1>5. \A i, j \in members : j \in ahead[i] => ahead[j] \subseteq ahead[i]
  <2> SUFFICES ASSUME NEW i \in members, NEW j \in members, j \in ahead[i], NEW k \in ahead[j]
               PROVE  k \in ahead[i]
    OBVIOUS
  <2>1. k \in members
    BY <1>2
  <2> QED
    BY <1>1, <1>2, <2>1
<1> QED
  BY <1>2, <1>3, <1>4, <1>5 DEF LinedUp, ahead

LEMMA LowerIdsFirst ==
  ASSUME NEW T, \A t \in T : t.id \in Int, NEW tree \in Seq(T), NEW members \in SUBSET (1 .. Len(tree)),
         \A i, j \in 1 .. Len(tree) : tree[i].id = tree[j].id => i = j
  PROVE  LinedUp(IdsBelow(tree, members), members)
<1>1. \A i \in members : tree[i].id \in Int
  OBVIOUS
<1> DEFINE ahead == IdsBelow(tree, members)
<1>2. /\ ahead \in [members -> SUBSET members]
      /\ \A i, j \in members : j \in ahead[i] <=> tree[j].id < tree[i].id
  BY DEF IdsBelow
<1> HIDE DEF ahead
<1>3. \A i, j \in members : tree[i].id = tree[j].id => i = j
  OBVIOUS
<1>4. \A i \in members : i \notin ahead[i]
  BY <1>1, <1>2
<1>5. \A i, j \in members : i # j => i \in ahead[j] \/ j \in ahead[i]
  BY <1>1, <1>2, <1>3
<1>6. \A i, j \in members : j \in ahead[i] => ahead[j] \subseteq ahead[i]
  <2> SUFFICES ASSUME NEW i \in members, NEW j \in members, j \in ahead[i], NEW k \in ahead[j]
               PROVE  k \in ahead[i]
    OBVIOUS
  <2>1. k \in members
    BY <1>2
  <2> QED
    BY <1>1, <1>2, <2>1
<1> QED
  BY <1>2, <1>4, <1>5, <1>6 DEF LinedUp, ahead

LEMMA ElectedByStake ==
  ASSUME NEW T, \A t \in T : t.stake \in Nat, NEW s, Electorate(s, T), s # <<>>
  PROVE  IF TotalStake(s) > 0 THEN SharesOf(s, Elected(s))
         ELSE \A d \in 0 .. Draws - 1 : Elected(s)[d] = s[1]
<1>1. s \in Seq(T) /\ TotalStake(s) \in Nat /\ Draws \in Nat
  BY ElectionAssumption, StakesType DEF TotalStake, Electorate
<1>2. ASSUME NEW d \in 0 .. Draws - 1 PROVE Elected(s)[d] = ElectLeader(s, d)
  BY DEF Elected
<1>3. CASE TotalStake(s) > 0
  <2>1. \A d \in 0 .. Draws - 1 : Elected(s)[d] = s[FirstAbove(s, d % TotalStake(s))]
    <3> SUFFICES ASSUME NEW d \in 0 .. Draws - 1
                 PROVE  Elected(s)[d] = s[FirstAbove(s, d % TotalStake(s))]
      OBVIOUS
    <3>1. d \in Nat
      BY <1>1
    <3>2. d % TotalStake(s) \in 0 .. TotalStake(s) - 1
      <4>1. PICK w \in Nat \ {0} : w = TotalStake(s)
        BY <1>1, <1>3
      <4> QED
        BY <3>1, <4>1, NextDivision
    <3>3. FirstAbove(s, d % TotalStake(s)) # 0
      BY <1>1, <3>2, FirstAboveIs
    <3>4. TotalStake(s) # 0
      BY <1>1, <1>3
    <3> QED
      BY <1>2, <3>3, <3>4 DEF ElectLeader
  <2> QED
    BY <1>1, <1>3, <2>1, SharesHold DEF Electorate
<1>4. CASE TotalStake(s) = 0
  <2> SUFFICES ASSUME NEW d \in 0 .. Draws - 1 PROVE Elected(s)[d] = s[1]
    BY <1>4
  <2>1. d \in Nat /\ d % 1 = 0
    BY <1>1
  <2>2. FirstAbove(s, 0) = 0
    BY <1>1, <1>4, FirstAboveIs
  <2>3. ElectLeader(s, d) = Head(s)
    BY <1>4, <2>1, <2>2 DEF ElectLeader
  <2> QED
    BY <1>1, <1>2, <2>3
<1> QED
  BY <1>1, <1>3, <1>4

LEMMA SelectedByStake ==
  ASSUME NEW T, \A t \in T : t.stake \in Nat, NEW s, Electorate(s, T), s # <<>>
  PROVE  IF TotalStake(s) > 0 THEN SharesOf(s, SelectedLeaders(s))
         ELSE \A k \in DOMAIN s : Proportional(Chosen(s[k], SelectedLeaders(s)), 1, Len(s))
<1>1. s \in Seq(T) /\ TotalStake(s) \in Nat /\ Draws \in Nat
  BY ElectionAssumption, StakesType DEF TotalStake, Electorate
<1>2. ASSUME NEW d \in 0 .. Draws - 1 PROVE SelectedLeaders(s)[d] = SelectLeader(s, d)
  BY DEF SelectedLeaders
<1>3. CASE TotalStake(s) > 0
  <2>1. \A d \in 0 .. Draws - 1 : SelectedLeaders(s)[d] = s[FirstAbove(s, d % TotalStake(s))]
    <3> SUFFICES ASSUME NEW d \in 0 .. Draws - 1
                 PROVE  SelectedLeaders(s)[d] = s[FirstAbove(s, d % TotalStake(s))]
      OBVIOUS
    <3>1. d \in Nat
      BY <1>1
    <3>2. d % TotalStake(s) \in 0 .. TotalStake(s) - 1
      <4>1. PICK w \in Nat \ {0} : w = TotalStake(s)
        BY <1>1, <1>3
      <4> QED
        BY <3>1, <4>1, NextDivision
    <3>3. FirstAbove(s, d % TotalStake(s)) # 0
      BY <1>1, <3>2, FirstAboveIs
    <3>4. TotalStake(s) # 0
      BY <1>1, <1>3
    <3> QED
      BY <1>2, <3>3, <3>4 DEF SelectLeader
  <2> QED
    BY <1>1, <1>3, <2>1, SharesHold DEF Electorate
<1>4. CASE TotalStake(s) = 0
  <2> SUFFICES ASSUME NEW k \in DOMAIN s PROVE Proportional(Chosen(s[k], SelectedLeaders(s)), 1, Len(s))
    BY <1>4
  <2>1. Len(s) \in Nat \ {0} /\ k \in 1 .. Len(s) /\ k \in 0 .. Len(s) /\ k - 1 \in 0 .. k
    BY <1>1
  <2>2. {d \in 0 .. Draws - 1 : SelectedLeaders(s)[d].id = s[k].id} = DrawsIn(Draws, Len(s), k - 1, k)
    <3>1. ASSUME NEW d \in 0 .. Draws - 1
          PROVE  SelectedLeaders(s)[d].id = s[k].id <=> k - 1 <= d % Len(s) /\ d % Len(s) < k
      <4>1. d \in Nat
        BY <1>1
      <4>2. d % Len(s) \in 0 .. Len(s) - 1
        BY <2>1, <4>1, NextDivision
      <4>3. PICK r \in Nat : r = d % Len(s)
        BY <4>2
      <4>4. SelectedLeaders(s)[d] = s[r + 1]
        BY <1>2, <1>4, <4>3 DEF SelectLeader
      <4>5. r + 1 \in 1 .. Len(s)
        BY <2>1, <4>2, <4>3
      <4>6. s[r + 1].id = s[k].id <=> r + 1 = k
        BY <2>1, <4>5 DEF Electorate
      <4> QED
        BY <2>1, <4>3, <4>4, <4>6
    <3> QED
      BY <3>1 DEF DrawsIn
  <2>3. Proportional(Cardinality(DrawsIn(Draws, Len(s), k - 1, k)), k - (k - 1), Len(s))
    BY <2>1, PartOfDraws
  <2>4. k - (k - 1) = 1
    BY <2>1
  <2> QED
    BY <2>2, <2>3, <2>4 DEF Chosen
<1> QED
  BY <1>1, <1>3, <1>4

\* For every tree of validators of different ids, with any stakes, in any
\* epoch: each leads for its share of the draws, in both rules (validator.rs
\* 219-236, leader.rs 26-67).
THEOREM SharesAlwaysStakes ==
  ASSUME NEW T, \A t \in T : t.stake \in Nat /\ t.id \in Int, NEW tree, Electorate(tree, T), NEW epoch
  PROVE  SharesAreStakes(tree, epoch)
<1>1. tree \in Seq(T) /\ DOMAIN tree = 1 .. Len(tree)
      /\ \A i, j \in 1 .. Len(tree) : tree[i].id = tree[j].id => i = j
  BY DEF Electorate
<1>2. Electorate(EpochSet(tree, epoch), T)
  <2> DEFINE entries == {i \in DOMAIN tree : tree[i].epoch <= epoch /\ IsActive(tree[i])}
  <2>1. entries \in SUBSET (1 .. Len(tree))
    BY <1>1
  <2>2. EpochSet(tree, epoch) = Picked(tree, InLine(entries, RicherThan(tree, entries)))
    BY DEF EpochSet
  <2> HIDE DEF entries
  <2>3. LinedUp(RicherThan(tree, entries), entries)
    BY <1>1, <2>1, RicherFirst
  <2> QED
    BY <2>1, <2>2, <2>3, PickedOnce
<1>3. Electorate(NewSelector(tree), T)
  <2> DEFINE active == ActiveValidators(tree)
  <2>1. active \in SUBSET (1 .. Len(tree))
    BY <1>1 DEF ActiveValidators
  <2>2. NewSelector(tree) = Picked(tree, InLine(active, IdsBelow(tree, active)))
    BY DEF NewSelector
  <2> HIDE DEF active
  <2>3. LinedUp(IdsBelow(tree, active), active)
    BY <1>1, <2>1, LowerIdsFirst
  <2> QED
    BY <2>1, <2>2, <2>3, PickedOnce
<1> QED
  BY <1>2, <1>3, ElectedByStake, SelectedByStake DEF SharesAreStakes

\* The validators of a tree after evidence of a double sign against one.
Punished(tree, accused, hash2) == [k \in DOMAIN tree |-> ApplyEvidence(tree[k], accused, "h1", hash2)]

TreeEntries ==
  [id : Int, stake : Nat, status : {"waiting", "active", "tombstoned"}, epoch : Int, slashed : Int]

LEMMA EvidenceKeeps ==
  ASSUME NEW v \in TreeEntries, NEW accused, NEW hash2
  PROVE  /\ ApplyEvidence(v, accused, "h1", hash2).id = v.id
         /\ ApplyEvidence(v, accused, "h1", hash2).stake = v.stake
         /\ accused = v.id /\ hash2 # "h1" => ~IsActive(ApplyEvidence(v, accused, "h1", hash2))
BY DEF ApplyEvidence, TreeEntries, IsActive

\* Whoever is convicted by two different blocks is in no later set (slashing.rs
\* 25-41, state.rs 195-209), and the others lead for their stakes (validator.rs
\* 219-236, leader.rs 26-67), for any tree of validators of different ids.
THEOREM EvidenceTakesOut ==
  ASSUME NEW tree, Electorate(tree, TreeEntries), NEW accused, NEW hash2, NEW epoch
  PROVE  /\ SharesAreStakes(Punished(tree, accused, hash2), epoch)
         /\ hash2 # "h1" =>
              \A k \in DOMAIN EpochSet(Punished(tree, accused, hash2), epoch) :
                EpochSet(Punished(tree, accused, hash2), epoch)[k].id # accused
<1> DEFINE n == Len(tree)
           t == Punished(tree, accused, hash2)
           T == {t[k] : k \in 1 .. n}
<1>1. /\ n \in Nat /\ DOMAIN tree = 1 .. n
      /\ \A k \in 1 .. n : tree[k] \in TreeEntries
      /\ \A j, k \in 1 .. n : tree[j].id = tree[k].id => j = k
  BY DEF Electorate
<1>2. /\ t = [k \in 1 .. n |-> ApplyEvidence(tree[k], accused, "h1", hash2)]
  BY <1>1 DEF Punished
<1> HIDE DEF t, n
<1>3. /\ DOMAIN t = 1 .. n
      /\ \A k \in 1 .. n : t[k].id = tree[k].id /\ t[k].stake = tree[k].stake
      /\ \A k \in 1 .. n : tree[k].id = accused /\ hash2 # "h1" => ~IsActive(t[k])
  BY <1>1, <1>2, EvidenceKeeps
<1>4. \A k \in 1 .. n : t[k].id \in Int /\ t[k].stake \in Nat
  BY <1>1, <1>3 DEF TreeEntries
<1>5. t \in Seq(T) /\ Len(t) = n
  BY <1>1, <1>2
<1>6. Electorate(t, T)
  <2> HIDE DEF T
  <2> QED
    BY <1>1, <1>3, <1>5 DEF Electorate
<1>7. \A v \in T : v.stake \in Nat /\ v.id \in Int
  BY <1>4
<1>8. SharesAreStakes(t, epoch)
  <2> HIDE DEF T
  <2> QED
    BY <1>6, <1>7, SharesAlwaysStakes
<1>9. ASSUME hash2 # "h1", NEW k \in DOMAIN EpochSet(t, epoch) PROVE EpochSet(t, epoch)[k].id # accused
  <2> DEFINE entries == {i \in DOMAIN t : t[i].epoch <= epoch /\ IsActive(t[i])}
  <2>1. entries \in SUBSET (1 .. Len(t)) /\ \A i \in entries : i \in 1 .. n /\ IsActive(t[i])
    BY <1>3, <1>5
  <2>2. EpochSet(t, epoch) = Picked(t, InLine(entries, RicherThan(t, entries)))
    BY DEF EpochSet
  <2> HIDE DEF entries, T
  <2>3. LinedUp(RicherThan(t, entries), entries)
    BY <1>5, <1>7, <2>1, RicherFirst
  <2>4. /\ Electorate(EpochSet(t, epoch), T)
        /\ \A j \in 1 .. Len(EpochSet(t, epoch)) : \E i \in entries : EpochSet(t, epoch)[j] = t[i]
    BY <1>6, <2>1, <2>2, <2>3, PickedOnce
  <2>5. k \in 1 .. Len(EpochSet(t, epoch))
    BY <1>9, <2>4 DEF Electorate
  <2>6. PICK i \in entries : EpochSet(t, epoch)[k] = t[i]
    BY <2>4, <2>5
  <2>7. IsActive(t[i]) /\ i \in 1 .. n
    BY <2>1
  <2>8. t[i].id = tree[i].id /\ tree[i].id # accused
    BY <1>3, <1>9, <2>7
  <2> QED
    BY <2>6, <2>8
<1> QED
  BY <1>8, <1>9 DEF t

---------------------------------------------------------------------------
(* The inputs.                                                             *)

LEMMA InputKinds ==
  /\ \A x \in Elections : x.algorithm = "elect"
  /\ \A x \in Pools : x.algorithm = "select"
  /\ \A x \in Trees : x.algorithm = "tree"
  /\ \A x \in Payments : x.algorithm = "note"
  /\ \A x \in Scans : x.algorithm = "scan"
  /\ \A x \in Transfers : x.algorithm = "transfer"
  /\ \A x \in Calls : x.algorithm = "call"
  /\ \A x \in Fees : x.algorithm = "fee"
  /\ \A x \in Rewards : x.algorithm = "reward"
  /\ \A x \in Broadcasts : x.algorithm = "vote"
<1>1. \A x \in Elections : x.algorithm = "elect"
  BY DEF Elections
<1>2. \A x \in Pools : x.algorithm = "select"
  BY DEF Pools
<1>3. \A x \in Trees : x.algorithm = "tree"
  BY DEF Trees
<1>4. \A x \in Payments : x.algorithm = "note"
  BY DEF Payments
<1>5. \A x \in Scans : x.algorithm = "scan"
  BY DEF Scans
<1>6. \A x \in Transfers : x.algorithm = "transfer"
  BY DEF Transfers
<1>7. \A x \in Calls : x.algorithm = "call"
  BY DEF Calls
<1>8. \A x \in Fees : x.algorithm = "fee"
  BY DEF Fees
<1>9. \A x \in Rewards : x.algorithm = "reward"
  BY DEF Rewards
<1>10. \A x \in Broadcasts : x.algorithm = "vote"
  BY DEF Broadcasts
<1> QED
  BY <1>1, <1>2, <1>3, <1>4, <1>5, <1>6, <1>7, <1>8, <1>9, <1>10

\* The input of each algorithm is one of those listed for it.
InputOK ==
  /\ input.algorithm = "tree" => input \in Trees
  /\ input.algorithm = "select" => input \in Pools
  /\ input.algorithm = "elect" => input \in Elections
  /\ input.algorithm = "note" => input \in Payments
  /\ input.algorithm = "scan" => input \in Scans
  /\ input.algorithm = "transfer" => input \in Transfers
  /\ input.algorithm = "call" => input \in Calls
  /\ input.algorithm = "fee" => input \in Fees
  /\ input.algorithm = "reward" => input \in Rewards
  /\ input.algorithm = "vote" => input \in Broadcasts

LEMMA InputHolds == InputSpec => []InputOK
<1>1. InputInit => InputOK
  BY DEF InputInit, InputOK
<1>2. InputOK /\ [InputNext]_input => InputOK'
  <2> SUFFICES ASSUME InputOK, [InputNext]_input PROVE InputOK'
    OBVIOUS
  <2>1. CASE InputNext
    BY <2>1, InputKinds DEF InputNext, InputOK
  <2>2. CASE UNCHANGED input
    BY <2>2 DEF InputOK
  <2> QED
    BY <2>1, <2>2
<1> QED
  BY <1>1, <1>2, PTL DEF InputSpec

\* The incremental tree has the root of the full one, at every depth and for
\* every number of leaves that fits (merkle.rs 41-76).
THEOREM TreeRootHolds == InputSpec => []TreeRoot
<1>1. InputOK => TreeRoot
  <2> SUFFICES ASSUME InputOK, input.algorithm = "tree" PROVE RootIsOfLeaves(input.leaves)
    BY DEF TreeRoot
  <2>1. input.leaves \in Nat
    BY DEF InputOK, Trees
  <2> QED
    BY <2>1, RootsAreOfLeaves
<1> QED
  BY <1>1, InputHolds, PTL

\* A block built from the pool is what its roots say, and greedy (pool.rs
\* 82-114, block_builder.rs 44-70).
THEOREM SelectionGreedyHolds == InputSpec => []SelectionGreedy
<1>1. InputOK => SelectionGreedy
  <2> SUFFICES ASSUME InputOK, input.algorithm = "select" PROVE BlocksAreGreedy(input.pool)
    BY DEF SelectionGreedy
  <2> DEFINE All == [id : 1..2, fee : 1..2, gas : {1, 2, 3}]
  <2>1. input \in Pools
    BY DEF InputOK
  <2>2. input.pool \in SUBSET All
    BY <2>1 DEF Pools
  <2>3. IsFiniteSet(All)
    <3> DEFINE ids == 1..2
               gases == {1, 2, 3}
               f == [p \in (ids \X ids) \X gases |-> [id |-> p[1][1], fee |-> p[1][2], gas |-> p[2]]]
    <3>1. IsFiniteSet(ids) /\ IsFiniteSet(gases)
      <4>1. gases = 1 .. 3
        OBVIOUS
      <4>2. \A b \in Nat : IsFiniteSet(1 .. b)
        BY FS_Interval
      <4> QED
        BY <4>1, <4>2
    <3>2. IsFiniteSet(ids \X ids)
      BY <3>1, FS_Product
    <3>3. IsFiniteSet((ids \X ids) \X gases)
      BY <3>1, <3>2, FS_Product
    <3>4. f \in Surjection((ids \X ids) \X gases, All)
      <4>1. f \in [(ids \X ids) \X gases -> All]
        OBVIOUS
      <4>2. ASSUME NEW t \in All PROVE \E p \in (ids \X ids) \X gases : f[p] = t
        <5>1. << <<t.id, t.fee>>, t.gas >> \in (ids \X ids) \X gases
          OBVIOUS
        <5>2. f[<< <<t.id, t.fee>>, t.gas >>] = t
          BY <5>1
        <5> QED
          BY <5>1, <5>2
      <4> QED
        BY <4>1, <4>2 DEF Surjection
    <3> HIDE DEF f, All
    <3> QED
      BY <3>3, <3>4, FS_Surjection
  <2>4. IsFiniteSet(input.pool)
    BY <2>2, <2>3, FS_Subset
  <2>5. \A t \in input.pool : t.gas \in Nat
    BY <2>2
  <2> QED
    BY <2>4, <2>5, GreedyBlocks
<1> QED
  BY <1>1, InputHolds, PTL

\* The base fee and the reward, over any blocks and at any height (fee_market.rs
\* 11-41, block.rs 86-93).
THEOREM FeesAndRewardsHold == InputSpec => []FeesAndRewards
<1>1. InputOK => FeesAndRewards
  <2> SUFFICES ASSUME InputOK PROVE FeesAndRewards
    OBVIOUS
  <2>1. ASSUME input.algorithm = "fee" PROVE FeeStuckAtFloor(input.base, input.target, input.blocks)
    <3>1. input \in Fees
      BY <2>1 DEF InputOK
    <3>2. /\ input.base \in Nat /\ input.base >= BaseFeeFloor /\ input.target \in Nat \ {0}
      BY <3>1, FloorIsOne DEF Fees
    <3>3. input.blocks \in Seq(Nat)
      <4>1. PICK n \in 0 .. 2 : input.blocks \in [1 .. n -> {0, 3, 4, 7, 8, 9, 16, 35}]
        BY <3>1 DEF Fees
      <4> QED
        BY <4>1
    <3> QED
      BY <3>2, <3>3, FeesStick
  <2>2. ASSUME input.algorithm = "reward"
        PROVE  FeesAndRewardsAdd(input.base, input.fee, input.gas, input.height)
    <3>1. input \in Rewards
      BY <2>2 DEF InputOK
    <3>2. input.base \in Nat /\ input.fee \in Nat /\ input.gas \in Nat /\ input.height \in Nat
      BY <3>1 DEF Rewards, HALVING_INTERVAL
    <3> QED
      BY <3>2, FeesAndRewardsAlwaysAdd
  <2> QED
    BY <2>1, <2>2 DEF FeesAndRewards
<1> QED
  BY <1>1, InputHolds, PTL

\* No vote that is broadcast is received as one, whatever its integers and the
\* order of the topics (p2p.rs 162-187 and 206-208).
THEOREM VotesReceivedHolds == InputSpec => []VotesReceived
<1>1. InputOK => VotesReceived
  <2> SUFFICES ASSUME InputOK, input.algorithm = "vote" PROVE NoVoteReceived(input.vote, input.order)
    BY DEF VotesReceived
  <2>1. input \in Broadcasts
    BY DEF InputOK
  <2>2. input.vote \in SampleVotes
    BY <2>1 DEF Broadcasts
  <2>3. PICK h \in {0, 7, 250, 251, 252, 253, 255}, g \in {0, 251, 253}, r \in {0, 1, 251, 252},
             t \in {0, 1}, b \in {0, 251, 252} :
          input.vote = VoteOf(h, g, r, t, b)
    BY <2>2 DEF SampleVotes
  <2>4. h \in Byte /\ g \in Byte /\ r \in Byte /\ t \in Byte /\ b \in Byte /\ 0 \in Byte
    BY DEF Byte
  <2>5. VoteOf(h, g, r, t, b) \in Votes
    BY <2>4 DEF VoteOf, Votes, Leading
  <2> QED
    BY <2>3, <2>5, VotesAreLost
<1> QED
  BY <1>1, InputHolds, PTL

\* Whatever is scanned and in which order, nothing is found (sync.rs 31-83).
THEOREM WalletScansHolds == InputSpec => []WalletScans
<1>1. InputOK => WalletScans
  <2> SUFFICES ASSUME InputOK, input.algorithm = "scan" PROVE ScansFindNothing(input.chain, input.order)
    BY DEF WalletScans
  <2>1. input.chain \in Chains /\ input.order \in UNION {[1..n -> 1..2] : n \in 0..3}
    BY DEF InputOK, Scans
  <2>2. PICK p \in {<<"alice">>, <<"alice", "bob">>}, q \in {<<>>, <<"bob">>, <<"alice">>}, r \in BOOLEAN :
          input.chain = ChainPaying(p, q, r)
    BY <2>1 DEF Chains
  <2>3. p \in Seq({"alice", "bob"}) /\ q \in Seq({"alice", "bob"})
    <3>1. /\ <<"alice">> \in Seq({"alice", "bob"}) /\ <<"alice", "bob">> \in Seq({"alice", "bob"})
          /\ <<"bob">> \in Seq({"alice", "bob"}) /\ <<>> \in Seq({"alice", "bob"})
      OBVIOUS
    <3> QED
      BY <3>1
  <2>4. /\ DOMAIN input.chain = 1 .. 2
        /\ input.chain[1] = BlockPaying(1, p, FALSE) /\ input.chain[2] = BlockPaying(2, q, r)
    BY <2>2 DEF ChainPaying
  <2>5. CompactChain(input.chain)
    <3>1. CutBlock(input.chain[1]) /\ \A k \in DOMAIN input.chain[1].outputs :
            PaidTo(input.chain[1].outputs[k], input.chain[1].paid[k])
      BY <2>3, <2>4, PaymentsAreCompact
    <3>2. CutBlock(input.chain[2]) /\ \A k \in DOMAIN input.chain[2].outputs :
            PaidTo(input.chain[2].outputs[k], input.chain[2].paid[k])
      BY <2>3, <2>4, PaymentsAreCompact
    <3>3. \A h \in DOMAIN input.chain : h = 1 \/ h = 2
      BY <2>4
    <3> QED
      BY <3>1, <3>2, <3>3 DEF CompactChain
  <2>6. input.order \in Seq(DOMAIN input.chain)
    <3>1. PICK n \in 0 .. 3 : input.order \in [1 .. n -> 1 .. 2]
      BY <2>1
    <3> QED
      BY <2>4, <3>1
  <2> QED
    BY <2>5, <2>6, ScansNeverFind
<1> QED
  BY <1>1, InputHolds, PTL

\* Every payment is read by whom it should be (stealth.rs 22-94).
THEOREM NoteReadersHolds == InputSpec => []NoteReaders
<1>1. InputOK => NoteReaders
  <2> SUFFICES ASSUME InputOK, input.algorithm = "note" PROVE NotesReadable(input.sent)
    BY DEF NoteReaders
  <2>1. /\ input.sent.to \in Addresses /\ input.sent.named \in Addresses
        /\ input.sent.reader \in {Alice, Bob}
    BY DEF InputOK, Payments
  <2>2. \A a \in Addresses : Readable(a)
    <3>1. Readable(Reachable(Alice)) /\ Readable(Reachable(Bob))
      BY DEF Reachable, Readable
    <3>2. \A k : Readable(PaymentAddress(IncomingViewKey(Alice), k))
      BY DEF Readable
    <3> QED
      BY <3>1, <3>2 DEF Addresses
  <2> QED
    BY <2>1, <2>2, NotesAreReadable
<1> QED
  BY <1>1, InputHolds, PTL

\* What is sent and what is signed, over the inputs of the run (main.rs
\* 145-215, builder.rs 21-237, transaction.rs 55-127, keys.rs 62-108).
THEOREM WalletTransactionsHolds == InputSpec => []WalletTransactions
<1>1. InputOK => WalletTransactions
  <2> SUFFICES ASSUME InputOK PROVE WalletTransactions
    OBVIOUS
  <2>1. ASSUME input.algorithm = "transfer"
        PROVE  SentNeverProven(input.to, input.amount, input.fee, input.now, input.checked)
    <3>1. /\ input.amount \in {0, 1, 2, 5000, Word - 9998, Word - 1} /\ input.now \in {0, 1799}
          /\ input.fee \in {2, 1000, 10000, 20000, 100000, 1000000} /\ input.checked \in BOOLEAN
      BY <2>1 DEF InputOK, Transfers
    <3>2. input.amount \in 0 .. Word - 1 /\ input.fee \in 0 .. Word - 1 /\ input.now \in Nat
      BY <3>1, WordAssumption
    <3> QED
      BY <3>1, <3>2, TransfersNeverProven
  <2>2. ASSUME input.algorithm = "call"
        PROVE  SignatureCovers(input.method, input.args, input.gas)
    <3>1. input.method \in Words /\ input.args \in Words
      BY <2>2 DEF InputOK, Calls
    <3>2. \A s \in Words : IsSeq(s)
      <4>1. /\ <<>> \in Seq({"a", "b"}) /\ <<"a">> \in Seq({"a", "b"}) /\ <<"a", "b">> \in Seq({"a", "b"})
        OBVIOUS
      <4> QED
        BY <4>1 DEF Words, IsSeq
    <3> QED
      BY <3>1, <3>2, SignaturesCover
  <2> QED
    BY <2>1, <2>2 DEF WalletTransactions
<1> QED
  BY <1>1, InputHolds, PTL

\* Every validator leads for its stake, over the inputs of the run, and none
\* that is convicted (slashing.rs 25-41, state.rs 195-209, validator.rs 219-236,
\* leader.rs 26-67).
THEOREM LeaderSharesHolds == InputSpec => []LeaderShares
<1>1. InputOK => LeaderShares
  <2> SUFFICES ASSUME InputOK, input.algorithm = "elect" PROVE LeaderShares
    BY DEF LeaderShares
  <2>1. PICK s \in [1 .. 3 -> {0, 1, 2, 5}], w \in {{}, {1}} : input.tree = TreeOf(s, w)
    <3>1. input \in Elections
      BY DEF InputOK
    <3>2. PICK s \in [1 .. 3 -> {0, 1, 2, 5}], w \in {{}, {1}}, e \in 0 .. 1, a \in {0, 1, 2}, h \in {"h1", "h2"} :
            input = [algorithm |-> "elect", tree |-> TreeOf(s, w), epoch |-> e, accused |-> a, hash2 |-> h]
      BY <3>1 DEF Elections
    <3> QED
      BY <3>2
  <2> DEFINE tree == input.tree
  <2>2. \A k \in 1 .. 3 : tree[k] \in TreeEntries /\ tree[k].id = k
    BY <2>1 DEF TreeEntries, TreeOf
  <2>3. DOMAIN tree = 1 .. 3 /\ tree \in Seq(TreeEntries) /\ Len(tree) = 3
    <3>1. tree \in [1 .. 3 -> TreeEntries]
      BY <2>1, <2>2 DEF TreeOf
    <3> HIDE DEF tree
    <3>2. tree = [k \in 1 .. 3 |-> tree[k]] /\ \A k \in 1 .. 3 : tree[k] \in TreeEntries
      BY <3>1
    <3> QED
      BY <3>2
  <2> HIDE DEF tree
  <2>4. Electorate(tree, TreeEntries)
    BY <2>2, <2>3 DEF Electorate
  <2>5. SharesAreStakes(Punished(tree, input.accused, input.hash2), input.epoch)
    BY <2>4, EvidenceTakesOut
  <2>6. input.hash2 # "h1" =>
          \A k \in DOMAIN EpochSet(Punished(tree, input.accused, input.hash2), input.epoch) :
            EpochSet(Punished(tree, input.accused, input.hash2), input.epoch)[k].id # input.accused
    BY <2>4, EvidenceTakesOut
  <2> QED
    BY <2>5, <2>6 DEF LeaderShares, Punished, tree
<1> QED
  BY <1>1, InputHolds, PTL
=============================================================================
