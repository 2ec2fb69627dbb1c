-------------------------- MODULE ToolTunnelProofs --------------------------
(***************************************************************************)
(* Theorems about ToolTunnel, for any number of tools and any dependencies *)
(* between them, cycles and ids that nobody registered included.           *)
(***************************************************************************)
EXTENDS ToolTunnel, FiniteSetTheorems, SequenceTheorems, TLAPS

-----------------------------------------------------------------------------
(***************************************************************************)
(* Finite sets of tools and their order.                                   *)
(***************************************************************************)

LEMMA ToolSets ==
  ASSUME NEW S \in SUBSET Tools
  PROVE  IsFiniteSet(S) /\ Cardinality(S) \in Nat /\ Cardinality(S) <= N
<1>1. N \in Nat /\ IsFiniteSet(Tools) /\ Cardinality(Tools) = N
  <2>1. 1 \in Int /\ N \in Nat /\ N \in Int /\ (IF 1 > N THEN 0 ELSE N - 1 + 1) = N
    BY TunnelAssumption
  <2> QED
    BY <2>1, FS_Interval DEF Tools
<1>2. IsFiniteSet(S) /\ Cardinality(S) <= Cardinality(Tools)
  BY <1>1, FS_Subset
<1> QED
  BY <1>1, <1>2, FS_CardinalityType

\* The place of a tool in the order of a set is the number of those up to it.
LEMMA Places ==
  ASSUME NEW S \in SUBSET Tools, NEW x \in S, NEW y \in S
  PROVE  LET upTo(z) == {w \in S : w <= z}
         IN  /\ Cardinality(upTo(x)) \in 1 .. Cardinality(S)
             /\ x < y => Cardinality(upTo(x)) < Cardinality(upTo(y))
<1> DEFINE upTo(z) == {w \in S : w <= z}
<1>1. \A w \in S : w \in Nat
  BY TunnelAssumption DEF Tools
<1>2. /\ IsFiniteSet(S) /\ Cardinality(S) \in Nat
      /\ \A z : IsFiniteSet(upTo(z)) /\ Cardinality(upTo(z)) \in Nat /\ Cardinality(upTo(z)) <= Cardinality(S)
  <2>1. \A z : upTo(z) \in SUBSET S /\ upTo(z) \in SUBSET Tools
    OBVIOUS
  <2> HIDE DEF upTo
  <2>2. IsFiniteSet(S) /\ Cardinality(S) \in Nat
    BY ToolSets
  <2> QED
    BY <2>1, <2>2, ToolSets, FS_Subset
<1>3. Cardinality(upTo(x)) # 0
  <2>1. x \in upTo(x)
    BY <1>1
  <2> QED
    BY <1>2, <2>1, FS_EmptySet
<1>4. x < y => Cardinality(upTo(x)) < Cardinality(upTo(y))
  <2> SUFFICES ASSUME x < y PROVE Cardinality(upTo(x)) < Cardinality(upTo(y))
    OBVIOUS
  <2>1. upTo(x) \in SUBSET upTo(y)
    BY <1>1
  <2>2. y \in upTo(y) /\ y \notin upTo(x)
    BY <1>1
  <2> HIDE DEF upTo
  <2>3. Cardinality(upTo(x)) <= Cardinality(upTo(y)) /\ Cardinality(upTo(y)) # Cardinality(upTo(x))
    BY <1>2, <2>1, <2>2, FS_Subset
  <2> QED
    BY <1>2, <2>3
<1>5. Cardinality(upTo(x)) \in 1 .. Cardinality(S)
  <2> HIDE DEF upTo
  <2> QED
    BY <1>2, <1>3
<1> QED
  BY <1>4, <1>5

\* A set of tools can be listed in order.
LEMMA OrderExists ==
  ASSUME NEW S \in SUBSET Tools
  PROVE  \E s \in [1 .. Cardinality(S) -> S] : \A i, j \in DOMAIN s : i < j => s[i] < s[j]
<1> DEFINE n == Cardinality(S)
           place == [x \in S |-> Cardinality({w \in S : w <= x})]
           s == [k \in 1 .. n |-> CHOOSE x \in S : place[x] = k]
<1>1. n \in Nat /\ IsFiniteSet(S) /\ \A x \in S : x \in Nat
  BY ToolSets, TunnelAssumption DEF Tools
<1>2. /\ place \in [S -> 1 .. n]
      /\ \A x, y \in S : x < y => place[x] < place[y]
  BY Places
<1>3. \A x \in S : place[x] \in Nat
  <2> HIDE DEF place
  <2> QED
    BY <1>1, <1>2
<1> HIDE DEF place
<1>4. place \in Injection(S, 1 .. n)
  <2>1. \A x, y \in S : place[x] = place[y] => x = y
    BY <1>1, <1>2, <1>3
  <2> QED
    BY <1>2, <2>1 DEF Injection, IsInjective
<1>5. IsFiniteSet(1 .. n) /\ Cardinality(1 .. n) = n
  <2>1. 1 \in Int /\ n \in Int /\ (IF 1 > n THEN 0 ELSE n - 1 + 1) = n
    BY <1>1
  <2> HIDE DEF n
  <2> QED
    BY <2>1, FS_Interval
<1>6. \A k \in 1 .. n : \E x \in S : place[x] = k
  <2>1. place \in Surjection(S, 1 .. n)
    BY <1>4, <1>5, FS_Injection
  <2> QED
    BY <2>1 DEF Surjection
<1>7. s \in [1 .. n -> S] /\ \A k \in 1 .. n : place[s[k]] = k
  BY <1>6
<1> HIDE DEF s
<1>8. ASSUME NEW i \in 1 .. n, NEW j \in 1 .. n, i < j PROVE s[i] < s[j]
  <2>1. s[i] \in S /\ s[j] \in S /\ place[s[i]] = i /\ place[s[j]] = j
    BY <1>7
  <2>2. ~(s[j] < s[i]) /\ s[i] # s[j]
    BY <1>2, <1>8, <2>1
  <2> QED
    BY <1>1, <2>1, <2>2
<1> QED
  BY <1>7, <1>8

\* InOrder lists each tool of a set once, from the first to the last.
LEMMA InOrderLists ==
  ASSUME NEW S \in SUBSET Tools
  PROVE  /\ InOrder(S) \in Seq(Tools)
         /\ \A i, j \in 1 .. Len(InOrder(S)) : i < j => InOrder(S)[i] < InOrder(S)[j]
         /\ Elems(InOrder(S)) = S
<1> DEFINE n == Cardinality(S)
           s == InOrder(S)
<1>1. s \in [1 .. n -> S] /\ \A i, j \in 1 .. n : i < j => s[i] < s[j]
  <2>1. s \in [1 .. n -> S] /\ \A i, j \in DOMAIN s : i < j => s[i] < s[j]
    BY OrderExists DEF InOrder
  <2> HIDE DEF s
  <2> QED
    BY <2>1
<1> HIDE DEF s
<1>2. n \in Nat /\ IsFiniteSet(S) /\ \A x \in S : x \in Nat
  BY ToolSets, TunnelAssumption DEF Tools
<1>3. s \in Seq(Tools) /\ Len(s) = n
  BY <1>1, <1>2
<1>4. IsFiniteSet(1 .. n) /\ Cardinality(1 .. n) = n
  <2>1. 1 \in Int /\ n \in Int /\ (IF 1 > n THEN 0 ELSE n - 1 + 1) = n
    BY <1>2
  <2> HIDE DEF n
  <2> QED
    BY <2>1, FS_Interval
<1>5. s \in Injection(1 .. n, S)
  <2>1. \A i, j \in 1 .. n : s[i] = s[j] => i = j
    BY <1>1, <1>2
  <2> QED
    BY <1>1, <2>1 DEF Injection, IsInjective
<1>6. s \in Surjection(1 .. n, S)
  BY <1>2, <1>4, <1>5, FS_Injection
<1>7. Elems(s) = S
  BY <1>1, <1>6 DEF Elems, Surjection
<1> QED
  BY <1>1, <1>3, <1>7 DEF s

-----------------------------------------------------------------------------
(***************************************************************************)
(* Sorting.                                                                *)
(***************************************************************************)

HasTier == {j \in Tools : inDegree[j] = Placed}

\* The tiers are what was peeled, in its order, and the degrees count what is
\* still waited for.
BuildType ==
  /\ phase \in {"build", "panic", "run", "done"}
  /\ id \in [Tools -> Ids] /\ deps \in [Tools -> SUBSET Ids]
  /\ inDegree \in [Tools -> Int]
  /\ tiers \in Seq(SUBSET Tools)

Layered ==
  /\ \A k, l \in 1 .. Len(tiers) : k # l => tiers[k] \cap tiers[l] = {}
  /\ UNION Elems(tiers) = HasTier
  /\ Len(tiers) <= Cardinality(HasTier)
  /\ \A k \in 1 .. Len(tiers) : \A j \in tiers[k] :
       /\ WaitsFor(j) \subseteq Before(k)
       /\ k > 1 => WaitsFor(j) \cap tiers[k - 1] # {}

Counted ==
  /\ \A j \in Tools \ HasTier : inDegree[j] = Cardinality(WaitsFor(j) \ HasTier)
  /\ Len(tiers) > 0 => \A j \in Free : WaitsFor(j) \cap tiers[Len(tiers)] # {}

Decided ==
  /\ phase = "panic" => Duplicated \/ (Free = {} /\ HasTier # Tools)
  /\ phase \in {"run", "done"} => ~Duplicated /\ HasTier = Tools

BuildInv == BuildType /\ Layered /\ Counted /\ Decided

LEMMA InitBuild == Init => BuildInv
<1> SUFFICES ASSUME Init PROVE BuildInv
  OBVIOUS
<1>1. \A j \in Tools : inDegree[j] = Cardinality(WaitsFor(j)) /\ Cardinality(WaitsFor(j)) \in Nat
  BY ToolSets DEF Init, InDegree, WaitsFor
<1>2. HasTier = {}
  BY <1>1 DEF HasTier, Placed
<1>3. BuildType
  <2>1. id \in [Tools -> Ids] /\ deps \in [Tools -> SUBSET Ids]
    BY TunnelAssumption DEF Init
  <2>2. inDegree \in [Tools -> Int]
    BY <1>1 DEF Init
  <2> QED
    BY <2>1, <2>2 DEF Init, BuildType
<1>4. Layered
  <2>1. tiers = <<>> /\ Len(tiers) = 0 /\ Elems(tiers) = {}
    BY DEF Init, Elems
  <2>2. Cardinality({}) = 0
    BY FS_EmptySet
  <2> QED
    BY <1>2, <2>1, <2>2 DEF Layered
<1>5. Counted
  <2>1. \A j \in Tools : WaitsFor(j) \ HasTier = WaitsFor(j)
    BY <1>2
  <2>2. Len(tiers) = 0
    BY DEF Init
  <2> QED
    BY <1>1, <2>1, <2>2 DEF Counted
<1>6. Decided
  BY DEF Init, Decided
<1> QED
  BY <1>3, <1>4, <1>5, <1>6 DEF BuildInv

\* A round of peeling.
LEMMA PeelBuild ==
  ASSUME BuildInv, Peel
  PROVE  BuildInv'
<1> USE DEF buildVars, runVars, Peeled
<1>1. /\ phase' = phase /\ phase = "build" /\ id' = id /\ deps' = deps
      /\ tiers' = Append(tiers, Free) /\ Free # {} /\ Free \in SUBSET Tools
      /\ tiers \in Seq(SUBSET Tools) /\ Len(tiers) \in Nat
      /\ \A j \in Tools : WaitsFor(j)' = WaitsFor(j) /\ WaitsFor(j) \in SUBSET Tools
  BY DEF Peel, Free, WaitsFor, BuildInv, BuildType
<1>2. /\ Len(tiers') = Len(tiers) + 1 /\ tiers' \in Seq(SUBSET Tools)
      /\ \A k \in 1 .. Len(tiers) : tiers'[k] = tiers[k]
      /\ tiers'[Len(tiers) + 1] = Free
  BY <1>1
<1>3. Free \cap HasTier = {} /\ HasTier \in SUBSET Tools
  BY DEF Free, HasTier, Placed
<1>4. ASSUME NEW j \in Tools, j \notin Free, j \notin HasTier
      PROVE  /\ inDegree'[j] = Cardinality((WaitsFor(j) \ HasTier) \ Free)
             /\ inDegree'[j] \in Nat
             /\ inDegree'[j] = 0 => WaitsFor(j) \cap Free # {}
  <2> DEFINE still == WaitsFor(j) \ HasTier
  <2>1. /\ inDegree'[j] = inDegree[j] - Cardinality(WaitsFor(j) \cap Free)
        /\ inDegree[j] = Cardinality(still) /\ inDegree[j] # 0
    BY <1>4 DEF Peel, BuildInv, Counted, HasTier, Free
  <2>2. still \cap Free = WaitsFor(j) \cap Free /\ still \in SUBSET Tools
        /\ still \ Free \in SUBSET Tools /\ WaitsFor(j) \cap Free \in SUBSET Tools
    BY <1>1, <1>3
  <2>3. IsFiniteSet(still) /\ Cardinality(still) \in Nat /\ Cardinality(still \ Free) \in Nat
    BY <2>2, ToolSets
  <2>4. Cardinality(still \ Free) = Cardinality(still) - Cardinality(WaitsFor(j) \cap Free)
    BY <2>2, <2>3, FS_Difference
  <2>5. inDegree'[j] = 0 => Cardinality(WaitsFor(j) \cap Free) # 0
    <3>1. Cardinality(WaitsFor(j) \cap Free) \in Nat
      BY <2>2, ToolSets
    <3> QED
      BY <2>1, <2>3, <3>1
  <2>6. WaitsFor(j) \cap Free = {} => Cardinality(WaitsFor(j) \cap Free) = 0
    BY FS_EmptySet
  <2> QED
    BY <2>1, <2>3, <2>4, <2>5, <2>6
<1>5. \A j \in Free \cup HasTier : inDegree'[j] = Placed
  BY DEF Peel, HasTier, Free
<1>6. HasTier' = HasTier \cup Free
  <2>1. \A j \in Tools : j \in HasTier' <=> inDegree'[j] = Placed
    BY DEF HasTier
  <2>2. \A j \in Tools : j \notin HasTier \cup Free => inDegree'[j] # Placed
    <3>1. \A n \in Nat : n # Placed
      BY DEF Placed
    <3> QED
      BY <1>4, <3>1
  <2>3. HasTier' \in SUBSET Tools
    BY DEF HasTier
  <2> HIDE DEF HasTier
  <2> QED
    BY <1>1, <1>3, <1>5, <2>1, <2>2, <2>3
<1>7. BuildType'
  <2>1. \A j \in Tools : inDegree'[j] \in Int
    <3>1. Placed \in Int
      BY DEF Placed
    <3>2. \A j \in Tools : j \notin HasTier \cup Free => inDegree'[j] \in Int
      <4>1. \A n \in Nat : n \in Int
        OBVIOUS
      <4> QED
        BY <1>4, <4>1, Zenon
    <3> QED
      BY <1>5, <3>1, <3>2
  <2>2. inDegree' \in [Tools -> Int]
    BY <2>1 DEF Peel
  <2> QED
    BY <1>1, <1>2, <2>2 DEF BuildInv, BuildType
<1>8. Elems(tiers') = Elems(tiers) \cup {Free}
  <2>1. DOMAIN tiers = 1 .. Len(tiers) /\ DOMAIN tiers' = 1 .. Len(tiers) + 1
    BY <1>1, <1>2
  <2>2. 1 .. Len(tiers) + 1 = (1 .. Len(tiers)) \cup {Len(tiers) + 1}
    BY <1>1
  <2> QED
    BY <1>2, <2>1, <2>2 DEF Elems
<1>9. \A k \in 1 .. Len(tiers) + 1 : Before(k)' = Before(k)
  <2> SUFFICES ASSUME NEW k \in 1 .. Len(tiers) + 1 PROVE Before(k)' = Before(k)
    OBVIOUS
  <2>1. \A l \in 1 .. k - 1 : l \in 1 .. Len(tiers)
    BY <1>1
  <2>2. {tiers'[l] : l \in 1 .. k - 1} = {tiers[l] : l \in 1 .. k - 1}
    BY <1>2, <2>1
  <2> QED
    BY <2>2 DEF Before
<1>10. Before(Len(tiers) + 1) = HasTier
  <2>1. Len(tiers) + 1 - 1 = Len(tiers) /\ DOMAIN tiers = 1 .. Len(tiers)
    BY <1>1
  <2>2. Before(Len(tiers) + 1) = UNION Elems(tiers)
    BY <2>1 DEF Before, Elems
  <2> QED
    BY <2>2 DEF BuildInv, Layered
<1>11. Layered'
  <2>1. UNION Elems(tiers') = HasTier'
    BY <1>6, <1>8 DEF BuildInv, Layered
  <2>2. \A k \in 1 .. Len(tiers) : tiers[k] \subseteq HasTier /\ tiers[k] \cap Free = {}
    <3>1. \A k \in 1 .. Len(tiers) : tiers[k] \in Elems(tiers)
      BY <1>1 DEF Elems
    <3> QED
      BY <1>3, <3>1 DEF BuildInv, Layered
  <2>3. \A k \in 1 .. Len(tiers') : k \in 1 .. Len(tiers) \/ k = Len(tiers) + 1
    BY <1>1, <1>2
  <2>4. \A k, l \in 1 .. Len(tiers') : k # l => tiers'[k] \cap tiers'[l] = {}
    BY <1>2, <2>2, <2>3 DEF BuildInv, Layered
  <2>5. Len(tiers') <= Cardinality(HasTier')
    <3>1. /\ IsFiniteSet(HasTier') /\ Cardinality(HasTier') \in Nat /\ Cardinality(HasTier) \in Nat
          /\ HasTier \in SUBSET HasTier' /\ HasTier # HasTier'
      BY <1>1, <1>3, <1>6, ToolSets
    <3>2. Cardinality(HasTier) <= Cardinality(HasTier') /\ Cardinality(HasTier') # Cardinality(HasTier)
      BY <3>1, FS_Subset
    <3> QED
      BY <1>1, <1>2, <3>1, <3>2 DEF BuildInv, Layered
  <2>6. ASSUME NEW k \in 1 .. Len(tiers'), NEW j \in tiers'[k]
        PROVE  /\ WaitsFor(j)' \subseteq Before(k)'
               /\ k > 1 => WaitsFor(j)' \cap tiers'[k - 1] # {}
    <3>1. CASE k \in 1 .. Len(tiers)
      <4>1. j \in tiers[k] /\ j \in Tools /\ Before(k)' = Before(k)
        BY <1>1, <1>2, <1>9, <2>2, <2>6, <3>1 DEF HasTier
      <4>2. k > 1 => k - 1 \in 1 .. Len(tiers)
        BY <1>1, <3>1
      <4> QED
        BY <1>1, <1>2, <3>1, <4>1, <4>2 DEF BuildInv, Layered
    <3>2. CASE k = Len(tiers) + 1
      <4>1. j \in Free /\ j \in Tools /\ Before(k)' = HasTier
        BY <1>1, <1>2, <1>9, <1>10, <2>6, <3>2
      <4>2. WaitsFor(j) \subseteq HasTier
        <5>1. inDegree[j] = 0 /\ j \notin HasTier
          BY <1>3, <4>1 DEF Free
        <5>2. Cardinality(WaitsFor(j) \ HasTier) = 0
          BY <4>1, <5>1 DEF BuildInv, Counted
        <5>3. IsFiniteSet(WaitsFor(j) \ HasTier)
          BY <1>1, <4>1, ToolSets
        <5>4. WaitsFor(j) \ HasTier = {}
          BY <5>2, <5>3, FS_EmptySet
        <5> QED
          BY <5>4
      <4>3. k > 1 => Len(tiers) > 0 /\ k - 1 = Len(tiers) /\ tiers'[k - 1] = tiers[Len(tiers)]
        BY <1>1, <1>2, <3>2
      <4> QED
        BY <1>1, <4>1, <4>2, <4>3 DEF BuildInv, Counted
    <3> QED
      BY <2>3, <2>6, <3>1, <3>2
  <2> QED
    BY <2>1, <2>4, <2>5, <2>6 DEF Layered
<1>12. Counted'
  <2>1. \A j \in Tools : (WaitsFor(j) \ HasTier) \ Free = WaitsFor(j)' \ HasTier'
    BY <1>1, <1>6
  <2>2. \A j \in Free' : j \in Tools /\ j \notin Free /\ j \notin HasTier
    BY <1>5 DEF Free, Placed
  <2>3. tiers'[Len(tiers')] = Free
    BY <1>2
  <2>4. \A j \in Free' : WaitsFor(j)' \cap tiers'[Len(tiers')] # {}
    BY <1>1, <1>4, <2>2, <2>3 DEF Free
  <2> QED
    BY <1>4, <1>6, <2>1, <2>4 DEF Counted
<1>13. Decided'
  BY <1>1 DEF Decided
<1> QED
  BY <1>7, <1>11, <1>12, <1>13 DEF BuildInv

LEMMA NextBuild ==
  ASSUME BuildInv, [Next]_vars
  PROVE  BuildInv'
<1> USE DEF buildVars, runVars
<1>1. CASE Peel
  BY <1>1, PeelBuild
<1>2. CASE UNCHANGED buildVars /\ phase' \in {"build", "panic", "run", "done"} /\ Decided'
  <2>1. /\ HasTier' = HasTier /\ Free' = Free
        /\ \A j : WaitsFor(j)' = WaitsFor(j) /\ Before(j)' = Before(j)
    BY <1>2 DEF HasTier, Free, WaitsFor, Before
  <2>2. BuildType'
    BY <1>2 DEF BuildInv, BuildType
  <2>3. Layered' /\ Counted'
    BY <1>2, <2>1 DEF BuildInv, Layered, Counted
  <2> QED
    BY <1>2, <2>2, <2>3 DEF BuildInv
<1>3. ASSUME UNCHANGED buildVars
      PROVE  HasTier' = HasTier /\ Free' = Free /\ Duplicated' = Duplicated
  BY <1>3 DEF HasTier, Free, Duplicated
<1>4. CASE Refuse
  <2>1. UNCHANGED buildVars /\ phase' = "panic" /\ Duplicated
    BY <1>4 DEF Refuse
  <2> QED
    BY <1>2, <1>3, <2>1 DEF Decided
<1>5. CASE Sorted
  <2>1. /\ UNCHANGED buildVars /\ Free = {} /\ ~Duplicated
        /\ \/ phase' = "panic" /\ \E j \in Tools : inDegree[j] # Placed
           \/ phase' = "run" /\ \A j \in Tools : inDegree[j] = Placed
    BY <1>5 DEF Sorted
  <2>2. (HasTier = Tools) <=> \A j \in Tools : inDegree[j] = Placed
    BY DEF HasTier
  <2> QED
    BY <1>2, <1>3, <2>1, <2>2 DEF Decided
<1>6. CASE \/ StartTier \/ EndTier \/ Finish \/ UNCHANGED vars
           \/ \E i \in Tools : TimeOut(i) \/ Return(i)
  <2>1. /\ UNCHANGED buildVars
        /\ phase' = phase \/ (phase = "run" /\ phase' = "done")
    BY <1>6 DEF StartTier, EndTier, Finish, TimeOut, Return, vars
  <2>2. phase' \in {"build", "panic", "run", "done"}
    BY <2>1 DEF BuildInv, BuildType
  <2>3. Decided'
    BY <1>3, <2>1 DEF BuildInv, Decided
  <2> QED
    BY <1>2, <2>1, <2>2, <2>3
<1> QED
  BY <1>1, <1>4, <1>5, <1>6 DEF Next, Build, Run

\* When every tool has a tier, the tier of a tool is a rank that respects the
\* dependencies.
LEMMA TiersRank ==
  ASSUME BuildInv, HasTier = Tools
  PROVE  Sortable
<1> DEFINE rank == [j \in Tools |-> CHOOSE k \in 1 .. Len(tiers) : j \in tiers[k]]
<1>1. /\ Len(tiers) \in Nat /\ DOMAIN tiers = 1 .. Len(tiers)
      /\ N \in Nat /\ Len(tiers) <= N
  <2>1. tiers \in Seq(SUBSET Tools)
    BY DEF BuildInv, BuildType
  <2>2. Len(tiers) \in Nat /\ DOMAIN tiers = 1 .. Len(tiers)
    BY <2>1
  <2>3. Cardinality(HasTier) \in Nat /\ Cardinality(HasTier) <= N
    BY ToolSets
  <2>4. Len(tiers) <= Cardinality(HasTier)
    BY DEF BuildInv, Layered
  <2> QED
    BY <2>2, <2>3, <2>4, TunnelAssumption
<1>2. \A j \in Tools : \E k \in 1 .. Len(tiers) : j \in tiers[k]
  BY <1>1 DEF BuildInv, Layered, Elems
<1>3. \A j \in Tools : rank[j] \in 1 .. Len(tiers) /\ j \in tiers[rank[j]]
  BY <1>2
<1>4. rank \in [Tools -> Tools]
  <2>1. \A k \in 1 .. Len(tiers) : k \in Tools
    BY <1>1 DEF Tools
  <2> QED
    BY <1>3, <2>1
<1> HIDE DEF rank
<1>5. ASSUME NEW j \in Tools, NEW i \in WaitsFor(j) PROVE rank[i] < rank[j]
  <2>1. i \in Tools /\ rank[i] \in 1 .. Len(tiers) /\ rank[j] \in 1 .. Len(tiers) /\ i \in tiers[rank[i]]
    BY <1>3, <1>5 DEF WaitsFor
  <2>2. i \in Before(rank[j])
    BY <1>3, <1>5 DEF BuildInv, Layered
  <2>3. PICK l \in 1 .. rank[j] - 1 : i \in tiers[l]
    BY <2>2 DEF Before
  <2>4. l \in 1 .. Len(tiers) /\ l < rank[j]
    BY <1>1, <2>1, <2>3
  <2>5. rank[i] = l
    BY <2>1, <2>3, <2>4 DEF BuildInv, Layered
  <2> QED
    BY <2>4, <2>5
<1> QED
  BY <1>4, <1>5 DEF Sortable

\* Tools that all wait for one another cannot be sorted.
LEMMA CycleUnsortable ==
  ASSUME NEW S \in SUBSET Tools, S # {}, \A j \in S : WaitsFor(j) \cap S # {}
  PROVE  ~Sortable
<1> SUFFICES ASSUME NEW rank \in [Tools -> Tools],
                    \A j \in Tools : \A i \in WaitsFor(j) : rank[i] < rank[j]
             PROVE  FALSE
  BY DEF Sortable
<1> DEFINE lower(j) == {i \in S : rank[i] < rank[j]}
           lowers == {lower(j) : j \in S}
<1>1. \A j \in Tools : rank[j] \in Nat
  BY TunnelAssumption DEF Tools
<1>2. IsWellFoundedOn(StrictSubsetOrdering(Tools), FiniteSubsetsOf(Tools))
  BY FS_StrictSubsetOrderingWellFounded
<1>3. lowers \subseteq FiniteSubsetsOf(Tools) /\ lowers # {}
  <2>1. \A j \in S : lower(j) \in SUBSET Tools
    OBVIOUS
  <2> HIDE DEF lower
  <2> QED
    BY <2>1, ToolSets DEF FiniteSubsetsOf
<1>4. PICK L \in lowers : \A M \in lowers : <<M, L>> \notin StrictSubsetOrdering(Tools)
  <2> HIDE DEF lowers
  <2> QED
    BY <1>2, <1>3, WFMin
<1>5. PICK j \in S : L = lower(j)
  OBVIOUS
<1>6. PICK i \in S : i \in WaitsFor(j)
  OBVIOUS
<1>7. rank[i] < rank[j] /\ rank[i] \in Nat /\ rank[j] \in Nat
  BY <1>1, <1>6
<1>8. lower(i) \subseteq lower(j) /\ lower(i) # lower(j)
  <2>1. i \in lower(j) /\ i \notin lower(i)
    BY <1>7
  <2>2. \A k \in S : k \in lower(i) => k \in lower(j)
    BY <1>1, <1>7
  <2> QED
    BY <2>1, <2>2
<1>9. lower(i) \in SUBSET Tools /\ lower(j) \in SUBSET Tools /\ lower(i) \in lowers
  OBVIOUS
<1>10. <<lower(i), lower(j)>> \in StrictSubsetOrdering(Tools)
  <2> HIDE DEF lower
  <2> QED
    BY <1>8, <1>9 DEF StrictSubsetOrdering
<1> QED
  BY <1>4, <1>5, <1>9, <1>10

LEMMA SortedIsSorted == BuildInv => SortedOrRefused
<1> SUFFICES ASSUME BuildInv PROVE SortedOrRefused
  OBVIOUS
<1>1. Len(tiers) \in Nat /\ DOMAIN tiers = 1 .. Len(tiers)
  <2>1. tiers \in Seq(SUBSET Tools)
    BY DEF BuildInv, BuildType
  <2> QED
    BY <2>1
<1>2. ASSUME Free = {}, HasTier # Tools PROVE ~Sortable
  <2> DEFINE S == Tools \ HasTier
  <2>1. S \in SUBSET Tools /\ S # {}
    BY <1>2 DEF HasTier
  <2>2. ASSUME NEW j \in S PROVE WaitsFor(j) \cap S # {}
    <3>1. inDegree[j] # 0 /\ inDegree[j] = Cardinality(WaitsFor(j) \ HasTier)
      BY <1>2, <2>2 DEF Free, BuildInv, Counted
    <3>2. WaitsFor(j) \ HasTier # {}
      BY <3>1, FS_EmptySet
    <3> QED
      BY <3>2 DEF WaitsFor
  <2> HIDE DEF S
  <2> QED
    BY <2>1, <2>2, CycleUnsortable
<1>3. phase = "panic" => Duplicated \/ ~Sortable
  BY <1>2 DEF BuildInv, Decided
<1>4. ASSUME phase \in {"run", "done"}
      PROVE  ~Duplicated /\ HasTier = Tools /\ Sortable /\ UNION Elems(tiers) = Tools
  BY <1>4, TiersRank DEF BuildInv, Decided, Layered
<1>5. \A k, l \in DOMAIN tiers : k # l => tiers[k] \cap tiers[l] = {}
  BY <1>1 DEF BuildInv, Layered
<1>6. \A k \in DOMAIN tiers : \A j \in tiers[k] : k > 1 => WaitsFor(j) \cap tiers[k - 1] # {}
  BY <1>1 DEF BuildInv, Layered
<1> QED
  BY <1>3, <1>4, <1>5, <1>6 DEF SortedOrRefused

\* The server refuses to start exactly on a duplicate id or a cycle, for any
\* tools; and when it starts, every tool has one tier, the first possible one.
THEOREM TiersSortTheTools == Spec => []SortedOrRefused
<1>1. BuildInv /\ [Next]_vars => BuildInv'
  BY NextBuild
<1> QED
  BY <1>1, InitBuild, SortedIsSorted, PTL DEF Spec

-----------------------------------------------------------------------------
(***************************************************************************)
(* Execution.                                                              *)
(***************************************************************************)

\* Tools of the running tier that were invoked.
Fired == pending \cup Returned

RunType ==
  /\ tier \in Nat
  /\ pending \in SUBSET Tools
  /\ DOMAIN result = Tools
  /\ acc \in Seq(Tools)

\* The tools at work are of one tier, all that are on in it; what is accumulated
\* is of earlier tiers, and has every tool that is on in them.
RunInv ==
  /\ RunType
  /\ phase # "run" => pending = {}
  /\ phase \in {"build", "panic"} => Returned = {} /\ acc = <<>>
  /\ phase = "run" =>
       /\ tier \in 1 .. Len(tiers) + 1
       /\ pending \cap Returned = {}
       /\ Fired # {} => /\ tier \in 1 .. Len(tiers)
                        /\ Fired \subseteq tiers[tier]
                        /\ \A i \in tiers[tier] : gate[i] = "on" => i \in Fired
       /\ \A i \in Before(tier) : gate[i] = "on" => i \in Elems(acc)
       /\ Elems(acc) \subseteq Before(tier)
  /\ NumberingStable

LEMMA InitRun == Init => RunInv
<1> SUFFICES ASSUME Init PROVE RunInv
  OBVIOUS
<1>1. acc = <<>> /\ <<>> \in Seq(Tools) /\ DOMAIN <<>> = {}
  BY DEF Init
<1>2. Returned = {} /\ RunType /\ phase = "build" /\ pending = {}
  BY <1>1 DEF Init, Returned, RunType
<1>3. NumberingStable
  BY <1>1 DEF NumberingStable
<1> QED
  BY <1>1, <1>2, <1>3 DEF RunInv

\* The tools before the next tier are those before this one and its own.
LEMMA BeforeNext ==
  ASSUME NEW k \in Nat \ {0}
  PROVE  Before(k + 1) = Before(k) \cup tiers[k] /\ Before(1) = {}
<1>1. 1 .. k + 1 - 1 = (1 .. k - 1) \cup {k} /\ 1 .. 1 - 1 = {}
  OBVIOUS
<1> QED
  BY <1>1 DEF Before

\* Tools of the running tier are not among those before it.
LEMMA RunningIsLater ==
  ASSUME BuildInv, NEW k \in 1 .. Len(tiers)
  PROVE  tiers[k] \cap Before(k) = {}
<1>1. Len(tiers) \in Nat
  <2>1. tiers \in Seq(SUBSET Tools)
    BY DEF BuildInv, BuildType
  <2> QED
    BY <2>1
<1>2. \A l \in 1 .. k - 1 : l \in 1 .. Len(tiers) /\ l # k
  BY <1>1
<1>3. \A l \in 1 .. k - 1 : tiers[k] \cap tiers[l] = {}
  BY <1>2 DEF BuildInv, Layered
<1> QED
  BY <1>3 DEF Before

\* The outputs of a tier, put in order behind those of the tiers before.
LEMMA OrderKept ==
  ASSUME BuildInv, RunInv, phase = "run", Returned # {}, tier \in 1 .. Len(tiers),
         Returned \subseteq tiers[tier], Returned \in SUBSET Tools,
         acc' = acc \o InOrder(Returned), tiers' = tiers
  PROVE  /\ acc' \in Seq(Tools) /\ Elems(acc') = Elems(acc) \cup Returned
         /\ NumberingStable'
<1> DEFINE more == InOrder(Returned)
<1>1. /\ acc \in Seq(Tools) /\ more \in Seq(Tools) /\ Elems(more) = Returned
      /\ \A i, j \in 1 .. Len(more) : i < j => more[i] < more[j]
      /\ acc' = acc \o more
  BY InOrderLists DEF RunInv, RunType
<1> HIDE DEF more
<1>2. /\ Len(acc) \in Nat /\ Len(more) \in Nat /\ acc' \in Seq(Tools)
      /\ Len(acc') = Len(acc) + Len(more)
      /\ \A i \in 1 .. Len(acc) : acc'[i] = acc[i]
      /\ \A i \in 1 .. Len(acc) + Len(more) : i > Len(acc) => acc'[i] = more[i - Len(acc)]
  BY <1>1, ConcatProperties
<1>3. DOMAIN acc = 1 .. Len(acc) /\ DOMAIN more = 1 .. Len(more) /\ DOMAIN acc' = 1 .. Len(acc')
  BY <1>1, <1>2
<1>4. ASSUME NEW i \in 1 .. Len(acc')
      PROVE  \/ i \in 1 .. Len(acc) /\ acc'[i] = acc[i] /\ acc[i] \in Elems(acc)
             \/ /\ i > Len(acc) /\ i - Len(acc) \in 1 .. Len(more)
                /\ acc'[i] = more[i - Len(acc)] /\ acc'[i] \in Returned
  <2>1. CASE i \in 1 .. Len(acc)
    BY <1>2, <1>3, <2>1 DEF Elems
  <2>2. CASE i > Len(acc)
    <3>1. i \in 1 .. Len(acc) + Len(more) /\ i - Len(acc) \in 1 .. Len(more)
      BY <1>2, <2>2
    <3>2. acc'[i] = more[i - Len(acc)]
      BY <1>2, <2>2, <3>1
    <3> QED
      BY <1>1, <1>3, <2>2, <3>1, <3>2 DEF Elems
  <2> QED
    BY <1>2, <2>1, <2>2
<1>5. Elems(acc') = Elems(acc) \cup Returned
  <2>1. Elems(acc') \subseteq Elems(acc) \cup Returned
    BY <1>3, <1>4 DEF Elems
  <2>2. Elems(acc) \subseteq Elems(acc')
    <3>1. \A i \in 1 .. Len(acc) : i \in 1 .. Len(acc')
      BY <1>2
    <3> QED
      BY <1>2, <1>3, <3>1 DEF Elems
  <2>3. Returned \subseteq Elems(acc')
    <3> SUFFICES ASSUME NEW i \in 1 .. Len(more) PROVE more[i] \in Elems(acc')
      BY <1>1, <1>3 DEF Elems
    <3>1. /\ Len(acc) + i \in 1 .. Len(acc) + Len(more) /\ Len(acc) + i > Len(acc)
          /\ Len(acc) + i - Len(acc) = i
      BY <1>2
    <3>2. acc'[Len(acc) + i] = more[i] /\ Len(acc) + i \in DOMAIN acc'
      BY <1>2, <1>3, <3>1
    <3> QED
      BY <3>2 DEF Elems
  <2> QED
    BY <2>1, <2>2, <2>3
<1>6. NumberingStable'
  <2> SUFFICES ASSUME NEW p \in 1 .. Len(acc'), NEW q \in 1 .. Len(acc'), p < q
               PROVE  \E k, l \in DOMAIN tiers :
                        /\ acc'[p] \in tiers[k] /\ acc'[q] \in tiers[l]
                        /\ k < l \/ (k = l /\ acc'[p] < acc'[q])
    BY <1>3 DEF NumberingStable
  <2>1. DOMAIN tiers = 1 .. Len(tiers) /\ Len(tiers) \in Nat
    <3>1. tiers \in Seq(SUBSET Tools)
      BY DEF BuildInv, BuildType
    <3> QED
      BY <3>1
  <2>2. CASE q \in 1 .. Len(acc)
    <3>1. p \in 1 .. Len(acc)
      BY <1>2, <2>2
    <3> QED
      BY <1>2, <1>3, <2>2, <3>1 DEF RunInv, NumberingStable
  <2>3. CASE p \in 1 .. Len(acc) /\ q \notin 1 .. Len(acc)
    <3>1. acc'[p] \in Elems(acc) /\ acc'[q] \in tiers[tier]
      BY <1>2, <1>4, <2>3
    <3>2. acc'[p] \in Before(tier)
      BY <3>1 DEF RunInv
    <3>3. PICK k \in 1 .. tier - 1 : acc'[p] \in tiers[k]
      BY <3>2 DEF Before
    <3>4. k \in DOMAIN tiers /\ tier \in DOMAIN tiers /\ k < tier
      BY <2>1, <3>3
    <3> QED
      BY <3>1, <3>3, <3>4
  <2>4. CASE p \notin 1 .. Len(acc) /\ q \notin 1 .. Len(acc)
    <3>1. /\ acc'[p] = more[p - Len(acc)] /\ acc'[q] = more[q - Len(acc)]
          /\ p - Len(acc) \in 1 .. Len(more) /\ q - Len(acc) \in 1 .. Len(more)
          /\ acc'[p] \in tiers[tier] /\ acc'[q] \in tiers[tier]
      BY <1>4, <2>4
    <3>2. p - Len(acc) < q - Len(acc)
      BY <1>2
    <3>3. acc'[p] < acc'[q]
      BY <1>1, <3>1, <3>2
    <3> QED
      BY <2>1, <3>1, <3>3
  <2>5. p \in 1 .. Len(acc) \/ q \notin 1 .. Len(acc)
    BY <1>2
  <2> QED
    BY <2>2, <2>3, <2>4, <2>5
<1> QED
  BY <1>2, <1>5, <1>6

LEMMA NextRun ==
  ASSUME BuildInv, BuildInv', RunInv, [Next]_vars
  PROVE  RunInv'
<1> USE DEF buildVars, runVars
<1>t. tiers \in Seq(SUBSET Tools) /\ Len(tiers) \in Nat /\ Len(tiers') \in Nat
  <2>1. tiers \in Seq(SUBSET Tools) /\ tiers' \in Seq(SUBSET Tools)
    BY DEF BuildInv, BuildType
  <2> QED
    BY <2>1
<1>e. Elems(<<>>) = {}
  BY DEF Elems
<1>1. CASE Refuse \/ Peel
  <2>1. /\ UNCHANGED runVars /\ phase' \in {"build", "panic"} /\ phase = "build"
    BY <1>1 DEF Refuse, Peel
  <2>2. RunType' /\ Returned' = {} /\ acc' = <<>> /\ pending' = {}
    BY <2>1 DEF RunInv, RunType, Returned
  <2>3. NumberingStable'
    BY <2>2 DEF NumberingStable
  <2> QED
    BY <2>1, <2>2, <2>3 DEF RunInv
<1>2. CASE Sorted
  <2>1. /\ UNCHANGED <<tiers, pending, result, acc, output>> /\ phase = "build"
        /\ \/ phase' = "panic" /\ tier' = tier
           \/ phase' = "run" /\ tier' = 1
    BY <1>2 DEF Sorted
  <2>2. Returned' = {} /\ acc' = <<>> /\ pending' = {} /\ Fired' = {}
    BY <2>1 DEF RunInv, Returned, Fired
  <2>3. RunType' /\ NumberingStable'
    BY <2>1, <2>2 DEF RunInv, RunType, NumberingStable
  <2>4. Before(1)' = {}
    <3>1. 1 .. 1 - 1 = {}
      OBVIOUS
    <3> QED
      BY <3>1 DEF Before
  <2>5. 1 \in 1 .. Len(tiers') + 1
    BY <1>t
  <2> QED
    BY <1>e, <2>1, <2>2, <2>3, <2>4, <2>5 DEF RunInv
<1>3. CASE StartTier
  <2> DEFINE firing == {i \in tiers[tier] : ShouldFire(i)}
  <2>1. /\ phase = "run" /\ tier <= Len(tiers) /\ pending = {} /\ Returned = {}
        /\ UNCHANGED <<phase, tiers, gate, result, acc, output>>
        /\ \/ firing = {} /\ tier' = tier + 1 /\ pending' = {}
           \/ firing # {} /\ tier' = tier /\ pending' = firing
    BY <1>3 DEF StartTier, Returned
  <2>2. tier \in 1 .. Len(tiers) /\ tier \in Nat \ {0}
    BY <1>t, <2>1 DEF RunInv
  <2>3. /\ Returned' = {} /\ Fired' = pending' /\ firing \in SUBSET Tools
        /\ \A k : Before(k)' = Before(k)
    <3>1. Returned' = {}
      BY <2>1 DEF Returned
    <3>2. tiers[tier] \in SUBSET Tools
      BY <1>t, <2>2
    <3> QED
      BY <2>1, <3>1, <3>2 DEF Fired, Before
  <2>4. \A i \in tiers[tier] : gate[i] = "on" => i \in firing
    BY DEF ShouldFire
  <2>5. RunType' /\ NumberingStable'
    BY <2>1, <2>2, <2>3 DEF RunInv, RunType, NumberingStable
  <2>6. CASE firing = {}
    <3>1. /\ Before(tier + 1) = Before(tier) \cup tiers[tier]
          /\ tier + 1 \in 1 .. Len(tiers) + 1
      BY <1>t, <2>2, BeforeNext
    <3> QED
      BY <2>1, <2>3, <2>4, <2>5, <2>6, <3>1 DEF RunInv
  <2>7. CASE firing # {}
    <3>1. tier' = tier /\ pending' = firing /\ firing \subseteq tiers[tier]
      BY <2>1, <2>7
    <3> HIDE DEF firing
    <3> QED
      BY <2>1, <2>2, <2>3, <2>4, <2>5, <3>1 DEF RunInv
  <2> QED
    BY <2>6, <2>7
<1>4. ASSUME NEW i \in Tools, TimeOut(i) \/ Return(i) PROVE RunInv'
  <2>1. /\ i \in pending /\ pending' = pending \ {i}
        /\ UNCHANGED <<phase, tiers, gate, tier, acc>>
        /\ \E r \in Outputs \cup Errors \cup {"timeout"} : result' = [result EXCEPT ![i] = r]
    BY <1>4 DEF TimeOut, Return
  <2>2. phase = "run" /\ i \in Tools
    BY <2>1 DEF RunInv
  <2>3. Returned' = Returned \cup {i} /\ DOMAIN result' = Tools
    <3>1. \A r \in Outputs \cup Errors \cup {"timeout"} : r # None
      BY DEF Outputs, Errors, None
    <3> QED
      BY <2>1, <3>1 DEF Returned, RunInv, RunType
  <2>4. /\ Fired' = Fired /\ (pending \cap Returned = {} => (pending \cap Returned)' = {})
        /\ \A k : Before(k)' = Before(k)
    BY <2>1, <2>3 DEF Fired, Before
  <2>5. RunType' /\ NumberingStable'
    BY <2>1, <2>3 DEF RunInv, RunType, NumberingStable
  <2> QED
    BY <2>1, <2>2, <2>4, <2>5 DEF RunInv
<1>5. CASE EndTier
  <2>1. /\ phase = "run" /\ pending = {} /\ Returned # {} /\ Fired = Returned
        /\ Returned \in SUBSET Tools
        /\ UNCHANGED <<tiers, gate, pending>> /\ result' = [i \in Tools |-> None]
    BY <1>5 DEF EndTier, Fired, Returned
  <2>2. /\ tier \in 1 .. Len(tiers) /\ tier \in Nat \ {0} /\ Returned \subseteq tiers[tier]
        /\ \A i \in tiers[tier] : gate[i] = "on" => i \in Returned
    BY <2>1 DEF RunInv
  <2>3. Returned' = {} /\ Fired' = {} /\ (pending \cap Returned)' = {} /\ \A k : Before(k)' = Before(k)
    BY <2>1 DEF Returned, Fired, Before
  <2>4. CASE phase' = "done" /\ UNCHANGED <<tier, acc, output>>
    <3>1. RunType' /\ NumberingStable'
      BY <2>1, <2>4 DEF RunInv, RunType, NumberingStable
    <3> QED
      BY <2>1, <2>4, <3>1 DEF RunInv
  <2>5. CASE acc' = acc \o InOrder(Returned) /\ tier' = tier + 1 /\ phase' = phase
    <3>1. /\ acc' \in Seq(Tools) /\ Elems(acc') = Elems(acc) \cup Returned
          /\ NumberingStable'
      BY <2>1, <2>2, <2>5, OrderKept
    <3>2. RunType'
      BY <2>1, <2>2, <2>5, <3>1 DEF RunInv, RunType
    <3>3. Before(tier + 1) = Before(tier) \cup tiers[tier] /\ tier + 1 \in 1 .. Len(tiers) + 1
      BY <1>t, <2>2, BeforeNext
    <3> QED
      BY <2>1, <2>2, <2>3, <2>5, <3>1, <3>2, <3>3 DEF RunInv
  <2> QED
    BY <1>5, <2>4, <2>5 DEF EndTier
<1>6. CASE Finish \/ UNCHANGED vars
  <2>1. /\ UNCHANGED <<tiers, runVars>>
        /\ phase' = phase \/ (phase = "run" /\ phase' = "done" /\ tier > Len(tiers))
    BY <1>6 DEF Finish, vars
  <2>2. /\ Returned' = Returned /\ Fired' = Fired
        /\ \A k : Before(k)' = Before(k)
    BY <2>1 DEF Returned, Fired, Before
  <2>3. RunType' /\ NumberingStable'
    BY <2>1 DEF RunInv, RunType, NumberingStable
  <2>4. CASE phase' = phase
    BY <2>1, <2>2, <2>3, <2>4 DEF RunInv
  <2>5. CASE phase = "run" /\ phase' = "done" /\ tier > Len(tiers)
    <3>1. Fired = {}
      BY <1>t, <2>5 DEF RunInv
    <3> QED
      BY <2>1, <2>3, <2>5, <3>1 DEF RunInv, Fired
  <2> QED
    BY <2>1, <2>4, <2>5
<1> QED
  BY <1>1, <1>2, <1>3, <1>4, <1>5, <1>6 DEF Next, Build, Run

LEMMA ExecutionIsTiered == Spec => [](BuildInv /\ RunInv)
<1>1. BuildInv /\ RunInv /\ [Next]_vars => (BuildInv /\ RunInv)'
  BY NextBuild, NextRun
<1> QED
  BY <1>1, InitBuild, InitRun, PTL DEF Spec

\* Whatever order the tools come back in and whatever fails, no tool is invoked
\* before the tools it depends on have had their turn and their outputs are there
\* for it to see.
THEOREM ToolsWaitForDependencies == Spec => []DependenciesFirst
<1>1. BuildInv /\ RunInv => DependenciesFirst
  <2> SUFFICES ASSUME BuildInv, RunInv, NEW j \in pending, NEW i \in WaitsFor(j)
               PROVE  /\ i \in Before(tier) /\ i \notin pending
                      /\ gate[i] = "on" => i \in Elems(acc)
    BY DEF DependenciesFirst
  <2>1. phase = "run" /\ j \in Fired
    BY DEF RunInv, Fired
  <2>2. tier \in 1 .. Len(tiers) /\ Fired \subseteq tiers[tier]
    BY <2>1 DEF RunInv
  <2>3. i \in Before(tier)
    BY <2>1, <2>2 DEF BuildInv, Layered
  <2>4. i \notin pending
    BY <2>2, <2>3, RunningIsLater DEF Fired
  <2> QED
    BY <2>1, <2>3, <2>4 DEF RunInv
<1> QED
  BY <1>1, ExecutionIsTiered, PTL

\* The numbers of the sources follow the tiers and in a tier the registration,
\* whatever order the tools come back in.
THEOREM NumbersFollowTheTiers == Spec => []NumberingStable
<1>1. RunInv => NumberingStable
  BY DEF RunInv
<1> QED
  BY <1>1, ExecutionIsTiered, PTL

=============================================================================
