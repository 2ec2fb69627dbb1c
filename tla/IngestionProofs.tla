-------------------------- MODULE IngestionProofs --------------------------
(***************************************************************************)
(* Theorems about Ingestion, for any site and folder, texts, command lines *)
(* and numbers of runs and faults: what a crawl lists, what is reported as *)
(* ingested, and that a large enough overlap loses nothing of a text.      *)
(***************************************************************************)
EXTENDS Ingestion, FiniteSetTheorems, WellFoundedInduction, TLAPS

-----------------------------------------------------------------------------
(***************************************************************************)
(* Sequences, and functions defined by recursion.                          *)
(***************************************************************************)

\* The elements of a sequence are finitely many.
LEMMA FewElements ==
  ASSUME NEW T, NEW s \in Seq(T)
  PROVE  IsFiniteSet(ToSet(s)) /\ ToSet(s) \subseteq T
<1>1. Len(s) \in Nat /\ DOMAIN s = 1 .. Len(s) /\ \A i \in 1 .. Len(s) : s[i] \in T
  OBVIOUS
<1>2. IsFiniteSet(1 .. Len(s))
  <2>1. 1 \in Int /\ Len(s) \in Int
    BY <1>1
  <2> QED
    BY <2>1, FS_Interval
<1>3. ToSet(s) \subseteq T
  BY <1>1 DEF ToSet
<1>4. s \in Surjection(DOMAIN s, ToSet(s))
  BY DEF Surjection, ToSet
<1> QED
  BY <1>1, <1>2, <1>3, <1>4, FS_Surjection

\* An order of a set lists each of its elements once.
LEMMA Listing ==
  ASSUME NEW S, IsFiniteSet(S), NEW s \in SetToSeqs(S)
  PROVE  s \in Seq(S) /\ IsInjective(s) /\ ToSet(s) = S
<1> DEFINE n == Cardinality(S)
<1>1. n \in Nat
  BY FS_CardinalityType
<1>2. s \in [1 .. n -> S] /\ \A i, j \in 1 .. n : i # j => s[i] # s[j]
  BY DEF SetToSeqs
<1>3. IsFiniteSet(1 .. n) /\ Cardinality(1 .. n) = n
  <2>1. 1 \in Int /\ n \in Int /\ (IF 1 > n THEN 0 ELSE n - 1 + 1) = n
    BY <1>1
  <2> HIDE DEF n
  <2> QED
    BY <2>1, FS_Interval
<1> HIDE DEF n
<1>4. s \in Seq(S) /\ IsInjective(s)
  BY <1>1, <1>2 DEF IsInjective
<1>5. s \in Injection(1 .. n, S)
  BY <1>2, <1>4 DEF Injection
<1>6. s \in Surjection(1 .. n, S)
  BY <1>3, <1>5, FS_Injection DEF n
<1>7. ToSet(s) = S
  BY <1>2, <1>6 DEF ToSet, Surjection
<1> QED
  BY <1>4, <1>7

\* A set of numbers that contains 0 and goes on from each to the next contains all.
LEMMA ReachesAll ==
  ASSUME NEW n \in Nat, NEW S \in SUBSET (0 .. n), 0 \in S,
         \A k \in 1 .. n : k - 1 \in S => k \in S
  PROVE  S = 0 .. n
<1> DEFINE Rest == (0 .. n) \ S
<1>1. ASSUME Rest # {} PROVE FALSE
  <2>1. Rest \in SUBSET Nat
    OBVIOUS
  <2> HIDE DEF Rest
  <2>2. PICK k \in Rest : \A j \in Rest : <<j, k>> \notin OpToRel(<, Nat)
    BY <1>1, <2>1, NatLessThanWellFounded, WFMin
  <2>3. \A j \in Nat : <<j, k>> \notin OpToRel(<, Nat) => k <= j
    BY <2>1 DEF OpToRel
  <2>4. k \in 1 .. n
    BY DEF Rest
  <2>5. k - 1 \notin Rest
    <3>1. k \in Nat /\ k - 1 \in Nat /\ ~(k <= k - 1)
      BY <2>4
    <3> QED
      BY <2>2, <2>3, <3>1, Zenon
  <2> QED
    BY <2>4, <2>5 DEF Rest
<1> QED
  BY <1>1

\* The ways to go n times from a value of V to another, and what one that begins with
\* the value a passes.
Ways(n, V) == [1 .. n -> [V -> V]]
Passed(a, g, n, V) ==
  {f \in [0 .. n -> V] : f[0] = a /\ \A k \in 1 .. n : f[k] = g[k][f[k - 1]]}

\* A recursion over the numbers up to n defines a function: there is one that passes every step.
LEMMA Recursion ==
  ASSUME NEW n \in Nat, NEW V, NEW a \in V, NEW g \in Ways(n, V)
  PROVE  \E f : f \in Passed(a, g, n, V)
<1> DEFINE Upto(f, m) == f[0] = a /\ \A k \in 1 .. m : f[k] = g[k][f[k - 1]]
           S == {m \in 0 .. n : \E f \in [0 .. m -> V] : Upto(f, m)}
<1> USE DEF Ways
<1>1. 0 \in S
  <2>1. [k \in 0 .. 0 |-> a] \in [0 .. 0 -> V] /\ Upto([k \in 0 .. 0 |-> a], 0)
    OBVIOUS
  <2> HIDE DEF Upto
  <2> QED
    BY <2>1
<1>2. ASSUME NEW m \in 1 .. n, m - 1 \in S PROVE m \in S
  <2>1. PICK f \in [0 .. m - 1 -> V] : Upto(f, m - 1)
    BY <1>2
  <2> DEFINE h == [k \in 0 .. m |-> IF k = m THEN g[m][f[m - 1]] ELSE f[k]]
  <2>2. m \in Nat /\ m >= 1 /\ m - 1 \in 0 .. m - 1
    OBVIOUS
  <2>3. g[m][f[m - 1]] \in V
    <3>1. g[m] \in [V -> V] /\ f[m - 1] \in V
      BY <2>2
    <3> QED
      BY <3>1
  <2>4. \A k \in 0 .. m : k # m => k \in 0 .. m - 1 /\ h[k] = f[k] /\ f[k] \in V
    BY <2>2
  <2>5. h \in [0 .. m -> V]
    BY <2>3, <2>4
  <2>6. h[m] = g[m][f[m - 1]] /\ h[m - 1] = f[m - 1] /\ h[0] = f[0]
    BY <2>2
  <2>7. \A k \in 1 .. m : k # m => k \in 1 .. m - 1 /\ h[k] = f[k] /\ h[k - 1] = f[k - 1]
    BY <2>2
  <2> HIDE DEF h
  <2>8. Upto(h, m)
    BY <2>1, <2>6, <2>7
  <2> HIDE DEF Upto
  <2> QED
    BY <2>5, <2>8
<1>3. n \in S
  <2> HIDE DEF S
  <2>1. S \in SUBSET (0 .. n)
    BY DEF S
  <2>2. S = 0 .. n
    BY <1>1, <1>2, <2>1, ReachesAll
  <2> QED
    BY <2>2
<1> QED
  BY <1>3 DEF Passed

\* Two that begin and go on alike are the same.
Alike(f, h, n) ==
  f[0] = h[0] /\ \A k \in 1 .. n : f[k - 1] = h[k - 1] => f[k] = h[k]

\* There is only one such function.
LEMMA SameWay ==
  ASSUME NEW n \in Nat, NEW f, NEW h, Alike(f, h, n)
  PROVE  \A k \in 0 .. n : f[k] = h[k]
<1> DEFINE S == {m \in 0 .. n : f[m] = h[m]}
<1>1. S \in SUBSET (0 .. n) /\ 0 \in S /\ \A k \in 1 .. n : k - 1 \in S => k \in S
  BY DEF Alike
<1> HIDE DEF S
<1>2. S = 0 .. n
  BY <1>1, ReachesAll
<1> QED
  BY <1>2 DEF S

\* What is kept of a sequence.
LEMMA OnlyKeeps ==
  ASSUME NEW T, NEW s \in Seq(T), NEW S
  PROVE  Only(s, S) \in Seq(T) /\ ToSet(Only(s, S)) = ToSet(s) \cap S
<1> DEFINE n == Len(s)
           Next1(v, k) == IF s[k] \in S THEN Append(v, s[k]) ELSE v
           g == [k \in 1 .. n |-> [v \in Seq(T) |-> Next1(v, k)]]
           Rec(f) == f = [k \in 0 .. Len(s) |->
                            IF k = 0 THEN <<>>
                            ELSE IF s[k] \in S THEN Append(f[k - 1], s[k]) ELSE f[k - 1]]
           upTo == CHOOSE f : Rec(f)
           Read(m) == {s[i] : i \in 1 .. m} \cap S
<1>1. n \in Nat /\ \A i \in 1 .. n : s[i] \in T
  OBVIOUS
<1>2. \A k \in 1 .. n : \A v \in Seq(T) : Next1(v, k) \in Seq(T)
  BY <1>1
<1>3. g \in [1 .. n -> [Seq(T) -> Seq(T)]]
  BY <1>2
<1>4. <<>> \in Seq(T)
  OBVIOUS
<1>5. PICK f \in [0 .. n -> Seq(T)] : f[0] = <<>> /\ \A k \in 1 .. n : f[k] = g[k][f[k - 1]]
  <2>1. g \in Ways(n, Seq(T))
    BY <1>3 DEF Ways
  <2> HIDE DEF g, n
  <2>2. \E f : f \in Passed(<<>>, g, n, Seq(T))
    BY <1>1, <1>4, <2>1, Recursion, Zenon
  <2> QED
    BY <2>2 DEF Passed
<1>6. \A k \in 1 .. n : f[k - 1] \in Seq(T) /\ f[k] = Next1(f[k - 1], k)
  <2> HIDE DEF n, Next1
  <2>1. \A k \in 1 .. n : k - 1 \in 0 .. n
    BY <1>1
  <2> QED
    BY <1>5, <2>1
<1>7. Rec(f)
  <2>1. \A k \in 0 .. n : k = 0 \/ k \in 1 .. n
    BY <1>1
  <2>2. \A k \in 0 .. n : f[k] = IF k = 0 THEN <<>>
                                 ELSE IF s[k] \in S THEN Append(f[k - 1], s[k]) ELSE f[k - 1]
    BY <1>5, <1>6, <2>1
  <2> HIDE DEF Next1, g
  <2> QED
    BY <1>5, <2>2
<1>8. Rec(upTo)
  <2> HIDE DEF Rec
  <2> QED
    BY <1>7
<1>9. Only(s, S) = upTo[n]
  BY Zenon DEF Only
<1>10. /\ upTo[0] = <<>>
       /\ \A k \in 1 .. n : upTo[k] = Next1(upTo[k - 1], k)
  <2> HIDE DEF upTo
  <2>1. upTo = [k \in 0 .. n |-> IF k = 0 THEN <<>>
                                 ELSE IF s[k] \in S THEN Append(upTo[k - 1], s[k]) ELSE upTo[k - 1]]
    BY <1>8
  <2> HIDE DEF n, Rec
  <2>2. 0 \in 0 .. n /\ \A k \in 1 .. n : k \in 0 .. n /\ k # 0
    BY <1>1
  <2> QED
    BY <2>1, <2>2
<1> HIDE DEF upTo, Rec, g
<1> DEFINE Q == {m \in 0 .. n : upTo[m] \in Seq(T) /\ ToSet(upTo[m]) = Read(m)}
<1>11. 0 \in Q
  <2>1. Read(0) = {} /\ ToSet(<<>>) = {}
    BY DEF ToSet
  <2>2. upTo[0] = <<>> /\ 0 \in 0 .. n
    BY <1>1, <1>10
  <2>3. upTo[0] \in Seq(T) /\ ToSet(upTo[0]) = Read(0)
    BY <1>4, <2>1, <2>2
  <2> QED
    BY <2>2, <2>3
<1>12. ASSUME NEW k \in 1 .. n, k - 1 \in Q PROVE k \in Q
  <2> DEFINE before == upTo[k - 1]
  <2>1. before \in Seq(T) /\ ToSet(before) = Read(k - 1)
    BY <1>12
  <2>2. upTo[k] = Next1(before, k) /\ s[k] \in T /\ k \in 0 .. n
    BY <1>1, <1>10
  <2> HIDE DEF before, Q
  <2>3. {s[i] : i \in 1 .. k} = {s[i] : i \in 1 .. k - 1} \cup {s[k]}
    <3>1. \A i : i \in 1 .. k <=> (i \in 1 .. k - 1 \/ i = k)
      BY <1>1
    <3> QED
      BY <3>1
  <2>4. ToSet(Append(before, s[k])) = ToSet(before) \cup {s[k]}
    <3>1. /\ Len(before) \in Nat /\ DOMAIN before = 1 .. Len(before)
          /\ DOMAIN Append(before, s[k]) = 1 .. Len(before) + 1
          /\ \A i \in 1 .. Len(before) : Append(before, s[k])[i] = before[i]
          /\ Append(before, s[k])[Len(before) + 1] = s[k]
      BY <2>1, <2>2
    <3>2. \A i : i \in 1 .. Len(before) + 1 <=> (i \in 1 .. Len(before) \/ i = Len(before) + 1)
      BY <3>1
    <3> QED
      BY <3>1, <3>2 DEF ToSet
  <2>5. upTo[k] \in Seq(T)
    BY <2>1, <2>2
  <2>6. ToSet(upTo[k]) = Read(k)
    BY <2>1, <2>2, <2>3, <2>4
  <2> QED
    BY <2>2, <2>5, <2>6 DEF Q
<1>13. n \in Q
  <2>1. Q \in SUBSET (0 .. n)
    OBVIOUS
  <2> HIDE DEF Q, n
  <2>2. Q = 0 .. n
    BY <1>1, <1>11, <1>12, <2>1, ReachesAll
  <2> QED
    BY <1>1, <2>2
<1>14. {s[i] : i \in 1 .. n} = ToSet(s)
  BY DEF ToSet
<1> QED
  BY <1>9, <1>13, <1>14

-----------------------------------------------------------------------------
(***************************************************************************)
(* The pages of a crawl.                                                   *)
(***************************************************************************)

Linked(S) == UNION {ToSet(extract_links(p)) : p \in S}

\* The links of a page lead to pages.
LEMMA LinksLead ==
  ASSUME NEW p \in Pages
  PROVE  extract_links(p) \in Seq(Pages)
<1> DEFINE Anchored == [to : Pages, domain : STRING, scheme : STRING, fragment : BOOLEAN]
           kept == Only(Anchors[p], {a \in ToSet(Anchors[p]) : OnSite(a)})
<1>1. Anchors[p] \in Seq(Anchored)
  BY IngestionAssumption, Zenon
<1>2. kept \in Seq(Anchored)
  <2> HIDE DEF Anchored
  <2> QED
    BY <1>1, OnlyKeeps
<1>3. extract_links(p) = [i \in DOMAIN kept |-> kept[i].to]
  BY Zenon DEF extract_links
<1>4. \A i \in DOMAIN kept : kept[i].to \in Pages
  <2> HIDE DEF kept, Anchored
  <2>1. \A i \in DOMAIN kept : kept[i] \in Anchored
    BY <1>2
  <2> QED
    BY <2>1 DEF Anchored
<1>5. Len(kept) \in Nat /\ DOMAIN kept = 1 .. Len(kept)
  BY <1>2
<1> HIDE DEF kept
<1> QED
  BY <1>3, <1>4, <1>5

\* The links of pages are pages.
LEMMA LinkedPages ==
  ASSUME NEW S \in SUBSET Pages
  PROVE  Linked(S) \subseteq Pages
<1>1. \A p \in S : ToSet(extract_links(p)) \subseteq Pages
  <2>1. ASSUME NEW p \in S PROVE ToSet(extract_links(p)) \subseteq Pages
    <3>1. extract_links(p) \in Seq(Pages)
      BY LinksLead
    <3> QED
      BY <3>1, FewElements
  <2> QED
    BY <2>1
<1> QED
  BY <1>1 DEF Linked

\* The recursion of Within defines a function, and its values are those of Within.
Reaching(entry, n) ==
  {f \in [0 .. n -> SUBSET Pages] :
     f[0] = {entry} /\ \A k \in 1 .. n : f[k] = f[k - 1] \cup Linked(f[k - 1])}

\* The pages within a number of links are such a function at it.
LEMMA WithinIs ==
  ASSUME NEW entry \in Pages, NEW n \in Nat
  PROVE  \E f \in Reaching(entry, n) : Within(entry, n) = f[n]
<1> DEFINE V == SUBSET Pages
           g == [k \in 1 .. n |-> [S \in V |-> S \cup Linked(S)]]
           Rec(f) == f = [k \in 0 .. n |->
                            IF k = 0 THEN {entry}
                            ELSE f[k - 1] \cup UNION {ToSet(extract_links(p)) : p \in f[k - 1]}]
           reach == CHOOSE f : Rec(f)
<1>1. g \in Ways(n, V)
  <2>1. \A S \in V : S \cup Linked(S) \in V
    BY LinkedPages
  <2> QED
    BY <2>1 DEF Ways
<1>2. {entry} \in V
  OBVIOUS
<1>3. PICK f \in [0 .. n -> V] : f[0] = {entry} /\ \A k \in 1 .. n : f[k] = g[k][f[k - 1]]
  <2> HIDE DEF g, V
  <2>1. \E f : f \in Passed({entry}, g, n, V)
    BY <1>1, <1>2, Recursion, Zenon
  <2> QED
    BY <2>1 DEF Passed
<1>4. \A k \in 1 .. n : f[k - 1] \in V /\ f[k] = f[k - 1] \cup Linked(f[k - 1])
  <2>1. \A k \in 1 .. n : k - 1 \in 0 .. n
    OBVIOUS
  <2>2. \A k \in 1 .. n : f[k - 1] \in V
    BY <1>3, <2>1
  <2> HIDE DEF V
  <2> QED
    BY <1>3, <2>2
<1>5. Rec(f)
  <2>1. \A k \in 0 .. n : k = 0 \/ k \in 1 .. n
    OBVIOUS
  <2>2. \A k \in 0 .. n :
          f[k] = IF k = 0 THEN {entry}
                 ELSE f[k - 1] \cup UNION {ToSet(extract_links(p)) : p \in f[k - 1]}
    BY <1>3, <1>4, <2>1 DEF Linked
  <2> HIDE DEF g, V
  <2> QED
    BY <1>3, <2>2
<1>6. Rec(reach)
  <2> HIDE DEF Rec
  <2> QED
    BY <1>5
<1>7. Within(entry, n) = reach[n]
  BY Zenon DEF Within
<1>8. reach[0] = f[0] /\ \A k \in 1 .. n : reach[k] = reach[k - 1] \cup Linked(reach[k - 1])
  <2> HIDE DEF reach
  <2>1. reach = [k \in 0 .. n |->
                   IF k = 0 THEN {entry}
                   ELSE reach[k - 1] \cup UNION {ToSet(extract_links(p)) : p \in reach[k - 1]}]
    BY <1>6
  <2> HIDE DEF Rec, g, V
  <2>2. 0 \in 0 .. n /\ \A k \in 1 .. n : k \in 0 .. n /\ k # 0
    OBVIOUS
  <2> QED
    BY <1>3, <2>1, <2>2 DEF Linked
<1> HIDE DEF reach, Rec, g
<1>9. \A k \in 0 .. n : reach[k] = f[k]
  <2>1. Alike(reach, f, n)
    BY <1>4, <1>8 DEF Alike
  <2> QED
    BY <2>1, SameWay, Zenon
<1>10. Within(entry, n) = f[n]
  BY <1>7, <1>9
<1> QED
  BY <1>3, <1>4, <1>10 DEF Reaching

\* The first pages are the entry, and one link further are those linked to from there.
LEMMA WithinGrows ==
  ASSUME NEW entry \in Pages
  PROVE  /\ Within(entry, 0) = {entry}
         /\ \A n \in Nat : Within(entry, n) \subseteq Pages
         /\ \A n \in Nat : Within(entry, n + 1) = Within(entry, n) \cup Linked(Within(entry, n))
<1>1. Within(entry, 0) = {entry}
  <2>1. PICK f \in Reaching(entry, 0) : Within(entry, 0) = f[0]
    BY WithinIs
  <2> QED
    BY <2>1 DEF Reaching
<1>2. ASSUME NEW n \in Nat
      PROVE  Within(entry, n) \subseteq Pages /\ Within(entry, n + 1) = Within(entry, n) \cup Linked(Within(entry, n))
  <2>1. PICK f \in Reaching(entry, n) : Within(entry, n) = f[n]
    BY WithinIs
  <2>2. PICK h \in Reaching(entry, n + 1) : Within(entry, n + 1) = h[n + 1]
    <3>1. n + 1 \in Nat
      OBVIOUS
    <3> QED
      BY <3>1, WithinIs, Zenon
  <2>3. \A k \in 0 .. n : f[k] = h[k]
    <3>1. \A k \in 1 .. n : k \in 1 .. n + 1
      OBVIOUS
    <3>2. Alike(f, h, n)
      BY <3>1 DEF Alike, Reaching
    <3> QED
      BY <3>2, SameWay, Zenon
  <2>4. h[n + 1] = h[n] \cup Linked(h[n])
    <3>1. n + 1 \in 1 .. n + 1 /\ (n + 1) - 1 = n
      OBVIOUS
    <3> QED
      BY <3>1 DEF Reaching
  <2>5. f[n] = h[n] /\ f[n] \subseteq Pages
    BY <2>3 DEF Reaching
  <2> QED
    BY <2>1, <2>2, <2>4, <2>5
<1> QED
  BY <1>1, <1>2

\* More links lead to more pages.
LEMMA WithinMore ==
  ASSUME NEW entry \in Pages, NEW m \in Nat, NEW n \in Nat, m <= n
  PROVE  Within(entry, m) \subseteq Within(entry, n)
<1> DEFINE S == {d \in 0 .. n - m : Within(entry, m) \subseteq Within(entry, m + d)}
<1>1. n - m \in Nat /\ S \in SUBSET (0 .. n - m)
  OBVIOUS
<1>2. 0 \in S
  <2>1. m + 0 = m
    OBVIOUS
  <2> QED
    BY <1>1, <2>1
<1>3. ASSUME NEW d \in 1 .. n - m, d - 1 \in S PROVE d \in S
  <2>1. m + (d - 1) \in Nat /\ (m + (d - 1)) + 1 = m + d
    OBVIOUS
  <2>2. Within(entry, m + d) = Within(entry, m + (d - 1)) \cup Linked(Within(entry, m + (d - 1)))
    BY <2>1, WithinGrows
  <2>3. Within(entry, m) \subseteq Within(entry, m + (d - 1))
    BY <1>3
  <2>4. d \in 0 .. n - m
    OBVIOUS
  <2> QED
    BY <2>2, <2>3, <2>4
<1>4. n - m \in S
  <2> HIDE DEF S
  <2>1. S = 0 .. n - m
    BY <1>1, <1>2, <1>3, ReachesAll
  <2> QED
    BY <1>1, <2>1
<1>5. m + (n - m) = n
  OBVIOUS
<1> QED
  BY <1>4, <1>5

\* The last entry is looked at, the others stay.
LEMMA Popped ==
  ASSUME NEW T, NEW s \in Seq(T), s # <<>>
  PROVE  /\ Len(s) \in 1 .. Len(s) /\ Last(s) = s[Len(s)] /\ Last(s) \in T
         /\ Front(s) \in Seq(T) /\ Len(Front(s)) = Len(s) - 1
         /\ \A i \in 1 .. Len(s) - 1 : Front(s)[i] = s[i] /\ i \in 1 .. Len(s)
         /\ \A i \in 1 .. Len(s) : i # Len(s) => i \in 1 .. Len(s) - 1
<1>1. Len(s) \in Nat /\ Len(s) >= 1
  OBVIOUS
<1>2. s[Len(s)] \in T
  BY <1>1
<1>3. Last(s) = s[Len(s)]
  BY DEF Last
<1>4. Front(s) = SubSeq(s, 1, Len(s) - 1)
  BY DEF Front
<1> DEFINE t == SubSeq(s, 1, Len(s) - 1)
<1>5. t \in Seq(T) /\ Len(t) = Len(s) - 1 /\ \A i \in 1 .. Len(s) - 1 : t[i] = s[i]
  BY <1>1
<1>6. /\ Len(s) \in 1 .. Len(s)
      /\ \A i \in 1 .. Len(s) - 1 : i \in 1 .. Len(s)
      /\ \A i \in 1 .. Len(s) : i # Len(s) => i \in 1 .. Len(s) - 1
  BY <1>1
<1> HIDE DEF t
<1> QED
  BY <1>2, <1>3, <1>4, <1>5, <1>6 DEF t

\* A list grows by a new page.
LEMMA Listed ==
  ASSUME NEW T, NEW s \in Seq(T), IsInjective(s), NEW x \in T, x \notin ToSet(s)
  PROVE  /\ Append(s, x) \in Seq(T) /\ IsInjective(Append(s, x))
         /\ ToSet(Append(s, x)) = ToSet(s) \cup {x}
<1> DEFINE t == Append(s, x)
           n == Len(s)
<1>1. /\ n \in Nat /\ DOMAIN s = 1 .. n /\ t \in Seq(T) /\ DOMAIN t = 1 .. n + 1
      /\ \A i \in 1 .. n : t[i] = s[i]
      /\ t[n + 1] = x
  OBVIOUS
<1> HIDE DEF t, n
<1>2. \A i : i \in 1 .. n + 1 <=> (i \in 1 .. n \/ i = n + 1)
  BY <1>1
<1>3. \A i \in 1 .. n : s[i] # x
  BY <1>1 DEF ToSet
<1>4. IsInjective(t)
  BY <1>1, <1>2, <1>3 DEF IsInjective
<1>5. ToSet(t) = ToSet(s) \cup {x}
  BY <1>1, <1>2 DEF ToSet
<1> QED
  BY <1>1, <1>4, <1>5 DEF t

\* The links put on the stack.
LEMMA PushedLinks ==
  ASSUME NEW u \in Pages, NEW d \in Nat
  PROVE  /\ Pushed(u, d) \in Seq(Pages \X Nat)
         /\ \A i \in 1 .. Len(Pushed(u, d)) :
              Pushed(u, d)[i][1] \in Linked({u}) /\ Pushed(u, d)[i][2] = d + 1
         /\ \A l \in Linked({u}) \ (visited \cup {u}) :
              \E i \in 1 .. Len(Pushed(u, d)) : Pushed(u, d)[i] = <<l, d + 1>>
<1> DEFINE links == Unvisited(u)
<1>1. extract_links(u) \in Seq(Pages)
  BY LinksLead
<1>2. links \in Seq(Pages) /\ ToSet(links) = ToSet(extract_links(u)) \cap (Pages \ (visited \cup {u}))
  BY <1>1, OnlyKeeps DEF Unvisited
<1>3. Linked({u}) = ToSet(extract_links(u)) /\ Linked({u}) \subseteq Pages
  BY <1>1, FewElements DEF Linked
<1>4. Pushed(u, d) = [i \in DOMAIN links |-> <<links[i], d + 1>>]
  BY Zenon DEF Pushed
<1> HIDE DEF links
<1>5. /\ Len(links) \in Nat /\ DOMAIN links = 1 .. Len(links)
      /\ \A i \in 1 .. Len(links) : links[i] \in Pages /\ links[i] \in ToSet(links)
      /\ \A l \in ToSet(links) : \E i \in 1 .. Len(links) : links[i] = l
  BY <1>2 DEF ToSet
<1>6. Pushed(u, d) \in Seq(Pages \X Nat) /\ Len(Pushed(u, d)) = Len(links)
  BY <1>4, <1>5
<1>7. \A i \in 1 .. Len(links) : Pushed(u, d)[i] = <<links[i], d + 1>>
  BY <1>4, <1>5
<1>8. \A i \in 1 .. Len(links) : links[i] \in Linked({u})
  BY <1>2, <1>3, <1>5
<1>9. \A l \in Linked({u}) \ (visited \cup {u}) : l \in ToSet(links)
  BY <1>2, <1>3
<1>10. \A i \in 1 .. Len(links) :
         Pushed(u, d)[i][1] \in Linked({u}) /\ Pushed(u, d)[i][2] = d + 1
  <2> SUFFICES ASSUME NEW i \in 1 .. Len(links)
               PROVE  Pushed(u, d)[i][1] \in Linked({u}) /\ Pushed(u, d)[i][2] = d + 1
    OBVIOUS
  <2>1. Pushed(u, d)[i] = <<links[i], d + 1>> /\ links[i] \in Linked({u})
    BY <1>7, <1>8
  <2>2. Pushed(u, d)[i][1] = links[i] /\ Pushed(u, d)[i][2] = d + 1
    BY <2>1
  <2> QED
    BY <2>1, <2>2
<1>11. \A l \in Linked({u}) \ (visited \cup {u}) :
         \E i \in 1 .. Len(links) : Pushed(u, d)[i] = <<l, d + 1>>
  BY <1>5, <1>7, <1>9
<1> QED
  BY <1>6, <1>10, <1>11

\* After the crawl.
Past == {"documents", "embed", "upsert"}

-----------------------------------------------------------------------------
(***************************************************************************)
(* A text has finitely many chunks.                                        *)
(***************************************************************************)

\* As many values as arguments.
LEMMA Images ==
  ASSUME NEW S, IsFiniteSet(S), NEW f, DOMAIN f = S, f = [x \in S |-> f[x]]
  PROVE  IsFiniteSet({f[x] : x \in S})
<1> DEFINE T == {f[x] : x \in S}
<1>1. f \in [S -> T]
  OBVIOUS
<1>2. \A y \in T : \E x \in S : f[x] = y
  OBVIOUS
<1> HIDE DEF T
<1>3. f \in Surjection(S, T)
  BY <1>1, <1>2 DEF Surjection
<1>4. IsFiniteSet(T)
  BY <1>3, FS_Surjection
<1> QED
  BY <1>4 DEF T

\* Finitely many positions lie before a bound.
LEMMA Before ==
  ASSUME NEW S \in SUBSET Nat, NEW n \in Nat, \A s \in S : s < n
  PROVE  IsFiniteSet(S)
<1>1. \A s \in S : s <= n
  OBVIOUS
<1> QED
  BY <1>1, FS_BoundedSetOfNaturals

\* The loop over a text always moves on.
LEMMA StepMoves ==
  ASSUME NEW size \in Nat, NEW overlap \in Nat
  PROVE  Step(size, overlap) \in Nat /\ Step(size, overlap) >= 1
BY DEF Step

\* The lengths of a text.
LEMMA Texts ==
  ASSUME NEW s \in DOMAIN Text
  PROVE  /\ Text[s].chars \in Nat /\ Text[s].width \in Nat /\ Text[s].width >= 1
         /\ Text[s].unit \in Nat /\ Text[s].unit >= 1
         /\ Tokens(Text[s]) \in Nat
<1>1. Text[s] \in [chars : Nat, width : Positive, unit : Positive, ends : SUBSET Nat,
                   blank : SUBSET Nat]
  BY IngestionAssumption, Zenon
<1>2. /\ Text[s].chars \in Nat /\ Text[s].width \in Nat /\ Text[s].width >= 1
      /\ Text[s].unit \in Nat /\ Text[s].unit >= 1
  BY <1>1 DEF Positive
<1> DEFINE b == Text[s].chars * Text[s].width
           u == Text[s].unit
<1>3. b \in Nat /\ u \in Nat /\ u >= 1
  BY <1>2
<1>4. Tokens(Text[s]) = (b + u - 1) \div u
  BY DEF Tokens, Bytes
<1> HIDE DEF b, u
<1>5. (b + u - 1) \div u \in Nat
  <2>1. b + u - 1 \in Nat
    BY <1>3
  <2> QED
    BY <1>3, <2>1
<1> QED
  BY <1>2, <1>4, <1>5

IsList(s) == \E n \in Nat : s = [i \in 1 .. n |-> s[i]]

\* The slices in their order.
LEMMA OrderedIsList ==
  ASSUME NEW S, IsFiniteSet(S)
  PROVE  IsList(InOrder(S))
<1>1. Cardinality(S) \in Nat
  BY FS_CardinalityType
<1> DEFINE Pick(i) == CHOOSE c \in S : Cardinality({d \in S : d.from < c.from}) = i - 1
           g == [i \in 1 .. Cardinality(S) |-> Pick(i)]
<1>2. InOrder(S) = g
  BY Zenon DEF InOrder
<1>3. g = [i \in 1 .. Cardinality(S) |-> g[i]]
  <2> HIDE DEF Pick
  <2> QED
    OBVIOUS
<1> HIDE DEF g
<1> QED
  BY <1>1, <1>2, <1>3 DEF IsList

\* Where a loop over m positions with the step st begins a slice, when it ends with the
\* first slice in Stops.
Begins(m, st, Stops) ==
  {s \in {k * st : k \in 0 .. m} : s < m /\ \A r \in {k * st : k \in 0 .. m} : r < s => r \notin Stops}

CharSlices(t, size, overlap) ==
  {[from |-> r, to |-> Least(r + size, t.chars)] :
     r \in Begins(t.chars, Step(size, overlap), {r \in Nat : ~(r + size < t.chars)})}
TokenSlices(t, o) ==
  {Slice(t, r, o.size) :
     r \in {r \in Begins(Tokens(t), Step(o.size, o.overlap),
                         {r \in Nat : Reaches(t, r, o.size) /\ Decodes(t, r, o.size)}) : Decodes(t, r, o.size)}}
InkedOnly(t, slices) == {c \in slices : Inked(t, c)}

\* A loop begins finitely many slices, all of them inside the text.
LEMMA BeginsAre ==
  ASSUME NEW m \in Nat, NEW st \in Nat, NEW Stops
  PROVE  /\ {k * st : k \in 0 .. m} \subseteq Nat
         /\ Begins(m, st, Stops) \subseteq Nat /\ \A r \in Begins(m, st, Stops) : r < m
         /\ IsFiniteSet(Begins(m, st, Stops))
<1>1. {k * st : k \in 0 .. m} \subseteq Nat
  <2>1. \A k \in 0 .. m : k * st \in Nat
    OBVIOUS
  <2> QED
    BY <2>1
<1>2. Begins(m, st, Stops) \in SUBSET Nat /\ \A r \in Begins(m, st, Stops) : r < m
  BY <1>1 DEF Begins
<1>3. IsFiniteSet(Begins(m, st, Stops))
  BY <1>2, Before
<1> QED
  BY <1>1, <1>2, <1>3

\* Sizes are numbers.
LEMMA OptionSizes ==
  ASSUME NEW o \in Options
  PROVE  o.size \in Nat /\ o.overlap \in Nat
<1>1. o \in [command : {"url", "folder"}, entry : Pages \cup Folders, depth : Nat,
             size : Nat, overlap : Nat, batch : Nat, bpe : BOOLEAN]
  BY IngestionAssumption, Zenon
<1> QED
  BY <1>1

\* The slices of the fallback, which are finitely many.
LEMMA CharChunks ==
  ASSUME NEW s \in DOMAIN Text, NEW size \in Nat, NEW overlap \in Nat
  PROVE  /\ IsFiniteSet(InkedOnly(Text[s], CharSlices(Text[s], size, overlap)))
         /\ chunk_by_chars(Text[s], size, overlap)
              = IF Text[s].chars <= size THEN Whole(Text[s])
                ELSE InOrder(InkedOnly(Text[s], CharSlices(Text[s], size, overlap)))
<1> DEFINE t == Text[s]
           all == {k * Step(size, overlap) : k \in 0 .. t.chars}
           Stops == {r \in Nat : ~(r + size < t.chars)}
           starts == Begins(t.chars, Step(size, overlap), Stops)
           f == [r \in starts |-> [from |-> r, to |-> Least(r + size, t.chars)]]
           slices == CharSlices(t, size, overlap)
<1>1. t.chars \in Nat /\ Step(size, overlap) \in Nat
  BY Texts, StepMoves
<1>2. all \subseteq Nat /\ IsFiniteSet(starts)
  BY <1>1, BeginsAre
<1>3. starts = {r \in all : r < t.chars /\ \A q \in all : q < r => q + size < t.chars}
  BY <1>2 DEF Begins
<1>4. slices = {[from |-> r, to |-> Least(r + size, t.chars)] : r \in starts}
  BY DEF CharSlices
<1>5. IsFiniteSet(slices)
  <2>1. DOMAIN f = starts /\ f = [r \in starts |-> f[r]] /\ slices = {f[r] : r \in starts}
    BY <1>4
  <2> HIDE DEF starts, f, slices
  <2> QED
    BY <1>2, <2>1, Images
<1>6. IsFiniteSet(InkedOnly(t, slices))
  <2>1. InkedOnly(t, slices) \in SUBSET slices
    BY DEF InkedOnly
  <2> HIDE DEF slices
  <2> QED
    BY <1>5, <2>1, FS_Subset
<1>7. chunk_by_chars(t, size, overlap)
        = IF t.chars <= size THEN Whole(t) ELSE InOrder(InkedOnly(t, slices))
  <2> HIDE DEF t
  <2>1. chunk_by_chars(t, size, overlap) = IF t.chars <= size THEN Whole(t)
          ELSE InOrder({c \in {[from |-> r, to |-> Least(r + size, t.chars)] :
                               r \in {r \in all : r < t.chars /\ \A q \in all : q < r => q + size < t.chars}} : Inked(t, c)})
    BY Zenon DEF chunk_by_chars
  <2> HIDE DEF starts, all, slices
  <2> QED
    BY <1>3, <1>4, <2>1, Zenon DEF InkedOnly
<1> QED
  BY <1>6, <1>7

\* The slices of the tokens, which are finitely many.
LEMMA TokenChunks ==
  ASSUME NEW s \in DOMAIN Text, NEW o \in Options, ~NoText(Text[s]), o.bpe
  PROVE  /\ IsFiniteSet(InkedOnly(Text[s], TokenSlices(Text[s], o)))
         /\ chunk_text(Text[s], o)
              = IF Tokens(Text[s]) <= o.size THEN Whole(Text[s])
                ELSE InOrder(InkedOnly(Text[s], TokenSlices(Text[s], o)))
<1> DEFINE t == Text[s]
           all == {k * Step(o.size, o.overlap) : k \in 0 .. Tokens(t)}
           Stops == {r \in Nat : Reaches(t, r, o.size) /\ Decodes(t, r, o.size)}
           begins == Begins(Tokens(t), Step(o.size, o.overlap), Stops)
           starts == {r \in begins : Decodes(t, r, o.size)}
           f == [r \in starts |-> Slice(t, r, o.size)]
           slices == TokenSlices(t, o)
<1>1. Tokens(t) \in Nat /\ Step(o.size, o.overlap) \in Nat
  BY Texts, StepMoves, OptionSizes
<1>2. all \subseteq Nat /\ IsFiniteSet(begins)
  BY <1>1, BeginsAre
<1>3. begins = Starts(t, o.size, o.overlap)
  BY <1>2 DEF Begins, Starts
<1>4. slices = {Slice(t, r, o.size) : r \in starts}
  BY DEF TokenSlices
<1>5. IsFiniteSet(starts)
  <2>1. starts \in SUBSET begins
    OBVIOUS
  <2> HIDE DEF starts, begins
  <2> QED
    BY <1>2, <2>1, FS_Subset
<1>6. IsFiniteSet(slices)
  <2>1. DOMAIN f = starts /\ f = [r \in starts |-> f[r]] /\ slices = {f[r] : r \in starts}
    BY <1>4
  <2> HIDE DEF starts, f, slices
  <2> QED
    BY <1>5, <2>1, Images
<1>7. IsFiniteSet(InkedOnly(t, slices))
  <2>1. InkedOnly(t, slices) \in SUBSET slices
    BY DEF InkedOnly
  <2> HIDE DEF slices
  <2> QED
    BY <1>6, <2>1, FS_Subset
<1>8. chunk_text(t, o) = IF Tokens(t) <= o.size THEN Whole(t) ELSE InOrder(InkedOnly(t, slices))
  <2> HIDE DEF t
  <2>1. ~NoText(t)
    BY DEF t
  <2>2. chunk_text(t, o) = IF Tokens(t) <= o.size THEN Whole(t)
          ELSE InOrder({c \in {Slice(t, r, o.size) :
                               r \in {r \in Starts(t, o.size, o.overlap) : Decodes(t, r, o.size)}} : Inked(t, c)})
    BY <2>1, Zenon DEF chunk_text
  <2> HIDE DEF begins, all, slices
  <2> QED
    BY <1>3, <1>4, <2>2, Zenon DEF InkedOnly
<1> QED
  BY <1>7, <1>8

\* Chunks of a text are a list.
LEMMA ChunksAreList ==
  ASSUME NEW s \in DOMAIN Text, NEW o \in Options
  PROVE  IsList(chunk_text(Text[s], o))
<1>1. o.size \in Nat /\ o.overlap \in Nat
  BY OptionSizes
<1>2. IsList(<<>>)
  <2>1. 0 \in Nat /\ <<>> = [i \in 1 .. 0 |-> <<>>[i]]
    OBVIOUS
  <2> QED
    BY <2>1 DEF IsList
<1>3. IsList(Whole(Text[s]))
  <2>1. 1 \in Nat /\ Whole(Text[s]) = [i \in 1 .. 1 |-> Whole(Text[s])[i]]
    BY DEF Whole
  <2> QED
    BY <2>1 DEF IsList
<1>4. CASE NoText(Text[s])
  <2>1. chunk_text(Text[s], o) = <<>>
    BY <1>4 DEF chunk_text
  <2> QED
    BY <1>2, <2>1
<1>5. CASE ~NoText(Text[s]) /\ ~o.bpe
  <2> DEFINE size == o.size * 4
             overlap == o.overlap * 4
  <2>1. size \in Nat /\ overlap \in Nat
    BY <1>1
  <2>2. chunk_text(Text[s], o) = chunk_by_chars(Text[s], size, overlap)
    BY <1>5 DEF chunk_text
  <2> HIDE DEF size, overlap
  <2> QED
    BY <1>3, <2>1, <2>2, CharChunks, OrderedIsList
<1>6. CASE ~NoText(Text[s]) /\ o.bpe
  BY <1>3, <1>6, TokenChunks, OrderedIsList
<1> QED
  BY <1>4, <1>5, <1>6

-----------------------------------------------------------------------------
(***************************************************************************)
(* What is found can be read.                                              *)
(***************************************************************************)

IngestTypes ==
  /\ opts \in Options /\ {faults, runs} \subseteq Nat /\ next \in Nat \ {0}
  /\ found \in Seq(DOMAIN Text)
  /\ pc \in {"ended", "connect", "index", "crawl", "walk", "documents", "embed", "upsert"}
  /\ pc = "crawl" => opts.command = "url"
  /\ pc = "walk" => opts.command # "url"
  /\ opts.command = "url" => visit \in Seq(Pages \X Nat)

\* What a command line says.
LEMMA OptionsAre ==
  ASSUME NEW o \in Options
  PROVE  /\ o.depth \in Nat /\ o.batch \in Nat /\ o.command \in {"url", "folder"}
         /\ o.command = "url" => o.entry \in Pages
<1>1. /\ o.command = "url" => o.entry \in Pages
      /\ o \in [command : {"url", "folder"}, entry : Pages \cup Folders, depth : Nat,
                size : Nat, overlap : Nat, batch : Nat, bpe : BOOLEAN]
  BY IngestionAssumption, Zenon
<1> QED
  BY <1>1

\* A document begun adds its failed contexts to the faults.
LEMMA FaultsAdd ==
  ASSUME IngestTypes, BeginDocument
  PROVE  faults' \in Nat /\ faults' >= faults
<1> DEFINE chunks == chunk_text(Text[Source], opts)
<1>1. Source \in DOMAIN Text
  BY DEF IngestTypes, BeginDocument, Reading, Source
<1>2. IsList(chunks)
  BY <1>1, ChunksAreList DEF IngestTypes
<1>3. \E failing \in SUBSET DOMAIN chunks : faults' = faults + Cardinality(failing)
  BY Zenon DEF BeginDocument
<1> HIDE DEF chunks
<1>4. PICK n \in Nat : chunks = [i \in 1 .. n |-> chunks[i]]
  BY <1>2, Zenon DEF IsList
<1>5. DOMAIN chunks = 1 .. n
  BY <1>4
<1>6. IsFiniteSet(1 .. n)
  <2>1. 1 \in Int /\ n \in Int
    BY <1>4
  <2> QED
    BY <2>1, FS_Interval
<1>7. ASSUME NEW failing \in SUBSET DOMAIN chunks PROVE Cardinality(failing) \in Nat
  BY <1>5, <1>6, FS_Subset, FS_CardinalityType
<1> QED
  BY <1>3, <1>7 DEF IngestTypes

\* Pushed links are pages with a depth.
LEMMA PushedTyped ==
  ASSUME NEW u \in Pages, NEW d \in Nat
  PROVE  Pushed(u, d) \in Seq(Pages \X Nat)
BY PushedLinks

\* A run starts with its entry.
LEMMA StartTypes ==
  ASSUME IngestTypes, Start \/ ensure_collection \/ create_text_index
  PROVE  IngestTypes'
<1>1. CASE Start
  BY <1>1 DEF IngestTypes, Start
<1>2. CASE ensure_collection \/ create_text_index
  <2>1. visit' \in {visit, Targets} /\ pc' \in {pc, "index", Discovery}
        /\ UNCHANGED <<opts, found, next, runs, faults>>
    BY <1>2 DEF ensure_collection, create_text_index, walkVars
  <2>2. opts.command = "url" => Targets \in Seq(Pages \X Nat)
    <3>1. ASSUME opts.command = "url" PROVE <<<<opts.entry, 0>>>> \in Seq(Pages \X Nat)
      <4>1. opts.entry \in Pages
        BY <3>1, OptionsAre DEF IngestTypes
      <4>2. <<opts.entry, 0>> \in Pages \X Nat
        BY <4>1
      <4> QED
        BY <4>2
    <3> QED
      BY <3>1 DEF Targets
  <2>3. pc \notin {"crawl", "walk"}
    BY <1>2 DEF ensure_collection, create_text_index
  <2> QED
    BY <2>1, <2>2, <2>3 DEF IngestTypes, Discovery
<1> QED
  BY <1>1, <1>2

\* What discovery lists are sources that can be read.
LEMMA DiscoveryTypes ==
  ASSUME IngestTypes,
         \/ SkipUrl \/ crawl_urls \/ CrawlFails
         \/ discover_files_inner \/ EntryFails \/ StackOverflow \/ Discovered
  PROVE  IngestTypes'
<1>1. CASE SkipUrl \/ crawl_urls \/ CrawlFails
  <2>1. opts.command = "url" /\ visit \in Seq(Pages \X Nat) /\ visit # <<>>
    BY <1>1 DEF IngestTypes, SkipUrl, crawl_urls, CrawlFails, Crawling
  <2>2. Last(visit) \in Pages \X Nat /\ Front(visit) \in Seq(Pages \X Nat)
    BY <2>1, Popped
  <2>3. Url \in Pages /\ Depth \in Nat
    BY <2>2 DEF Url, Depth
  <2>4. Url \in DOMAIN Text
    <3>1. Pages \subseteq DOMAIN Text
      BY IngestionAssumption
    <3> QED
      BY <2>3, <3>1
  <2>5. found' \in {found, Append(found, Url)}
    BY <1>1 DEF SkipUrl, crawl_urls, CrawlFails
  <2>6. found' \in Seq(DOMAIN Text)
    BY <2>4, <2>5 DEF IngestTypes
  <2>7. visit' \in Seq(Pages \X Nat)
    <3>1. CASE SkipUrl \/ CrawlFails
      BY <2>2, <3>1 DEF SkipUrl, CrawlFails
    <3>2. CASE crawl_urls
      <4>1. Pushed(Url, Depth) \in Seq(Pages \X Nat)
        BY <2>3, PushedTyped
      <4>2. visit' = Front(visit) \o Pushed(Url, Depth) \/ visit' = Front(visit) \o <<>>
        BY <3>2 DEF crawl_urls
      <4>3. \A s, t \in Seq(Pages \X Nat) : s \o t \in Seq(Pages \X Nat)
        OBVIOUS
      <4>4. <<>> \in Seq(Pages \X Nat)
        OBVIOUS
      <4> QED
        BY <2>2, <4>1, <4>2, <4>3, <4>4, Zenon
    <3> QED
      BY <1>1, <3>1, <3>2
  <2>8. UNCHANGED <<pc, opts, next, runs>>
    BY <1>1 DEF SkipUrl, crawl_urls, CrawlFails
  <2>9. faults' \in Nat
    BY <1>1 DEF SkipUrl, crawl_urls, CrawlFails, Fault, IngestTypes
  <2> QED
    BY <2>6, <2>7, <2>8, <2>9 DEF IngestTypes
<1>2. CASE discover_files_inner
  <2>1. opts.command # "url"
    BY <1>2 DEF IngestTypes, discover_files_inner
  <2>2. found' = found \/ (Url \in DOMAIN Text /\ found' = Append(found, Url))
    BY <1>2 DEF discover_files_inner
  <2>3. found' \in Seq(DOMAIN Text)
    BY <2>2 DEF IngestTypes
  <2>4. UNCHANGED <<pc, opts, next, runs, faults>>
    BY <1>2 DEF discover_files_inner
  <2> QED
    BY <2>1, <2>3, <2>4 DEF IngestTypes
<1>3. CASE StackOverflow \/ Discovered
  BY <1>3 DEF StackOverflow, Discovered, IngestTypes, walkVars
<1>4. CASE EntryFails
  <2>1. opts.command # "url"
    BY <1>4 DEF IngestTypes, EntryFails
  <2> QED
    BY <1>4, <2>1 DEF IngestTypes, EntryFails, Fault
<1> QED
  BY <1>1, <1>2, <1>3, <1>4

\* After discovery nothing more is found.
LEMMA DocumentTypes ==
  ASSUME IngestTypes,
         \/ ReadFails \/ SkipEmpty \/ NoChunks \/ BeginDocument
         \/ EmbedBatch \/ EmbedFails \/ upsert_points \/ UpsertFails \/ Finish \/ Kill
         \/ UNCHANGED vars
  PROVE  /\ IngestTypes'
         /\ UNCHANGED <<opts, visit, visited, found>> /\ faults' >= faults
         /\ pc' \in {pc, "ended"} \/ (pc \in Past /\ pc' \in Past)
<1>1. UNCHANGED <<opts, visit, visited, found, runs>>
  BY DEF ReadFails, SkipEmpty, NoChunks, BeginDocument, EmbedBatch, EmbedFails, upsert_points,
     UpsertFails, Finish, Kill, vars, walkVars
<1>2. faults' \in Nat /\ faults' >= faults
  <2>1. CASE BeginDocument
    BY <2>1, FaultsAdd
  <2>2. CASE ReadFails \/ EmbedFails \/ UpsertFails \/ Kill
    BY <2>2 DEF IngestTypes, ReadFails, EmbedFails, UpsertFails, Kill, Fault
  <2>3. CASE SkipEmpty \/ NoChunks \/ EmbedBatch \/ upsert_points \/ Finish \/ UNCHANGED vars
    BY <2>3 DEF IngestTypes, SkipEmpty, NoChunks, EmbedBatch, upsert_points, Finish, vars
  <2> QED
    BY <2>1, <2>2, <2>3
<1>3. next' \in {next, next + 1}
  BY DEF ReadFails, SkipEmpty, NoChunks, BeginDocument, EmbedBatch, EmbedFails, upsert_points,
     UpsertFails, Finish, Kill, vars, Conclude
<1>4. pc' \in {pc, "ended"} \/ (pc \in Past /\ pc' \in Past)
  BY DEF ReadFails, SkipEmpty, NoChunks, BeginDocument, EmbedBatch, EmbedFails, upsert_points,
     UpsertFails, Finish, Kill, vars, Conclude, Reading, Past
<1>5. IngestTypes'
  <2>1. next' \in Nat \ {0}
    BY <1>3 DEF IngestTypes
  <2>2. /\ pc' \in {"ended", "connect", "index", "crawl", "walk", "documents", "embed", "upsert"}
        /\ pc' = "crawl" => opts.command = "url"
        /\ pc' = "walk" => opts.command # "url"
    BY <1>4 DEF IngestTypes, Past
  <2> QED
    BY <1>1, <1>2, <2>1, <2>2 DEF IngestTypes
<1> QED
  BY <1>1, <1>2, <1>4, <1>5

-----------------------------------------------------------------------------
(***************************************************************************)
(* A page on the stack is as near to the entry as its depth says, so that  *)
(* no page is listed beyond the depth of the crawl; and while nothing      *)
(* failed, the entry and every page it links to is listed or still on the  *)
(* stack at a depth that is not passed over.                               *)
(***************************************************************************)

Near == Within(opts.entry, Least(opts.depth, 1))
Waiting(u) == \E i \in 1 .. Len(visit) : visit[i][1] = u /\ visit[i][2] <= opts.depth

CrawlInv ==
  opts.command = "url" =>
    /\ IsInjective(found)
    /\ ToSet(found) \subseteq visited /\ visited \subseteq Within(opts.entry, opts.depth)
    /\ \A i \in 1 .. Len(visit) : visit[i][1] \in Within(opts.entry, visit[i][2])
    /\ pc \in {"connect", "index"} => visit = <<>> /\ found = <<>>
    /\ faults = 0 =>
         /\ visited = ToSet(found)
         /\ pc = "crawl" => \/ found = <<>> /\ visit = Targets
                            \/ \A u \in Near : u \in ToSet(found) \/ Waiting(u)
         /\ pc \in Past => Near \subseteq ToSet(found)

\* A step of the documents changes nothing the crawl has found.
LEMMA DocumentsKeepCrawl ==
  ASSUME IngestTypes, CrawlInv, UNCHANGED <<opts, visit, visited, found>>, faults' \in Nat, faults' >= faults,
         pc' \in {pc, "ended"} \/ (pc \in Past /\ pc' \in Past)
  PROVE  CrawlInv'
<1>1. opts' = opts /\ visit' = visit /\ visited' = visited /\ found' = found
  OBVIOUS
<1>2. faults' = 0 => faults = 0
  BY DEF IngestTypes
<1>3. Near' = Near /\ Targets' = Targets /\ \A u : Waiting(u)' = Waiting(u)
  BY <1>1 DEF Near, Targets, Waiting
<1>4. CASE pc' = pc
  BY <1>1, <1>2, <1>3, <1>4 DEF CrawlInv
<1>5. CASE pc' = "ended" \/ (pc \in Past /\ pc' \in Past)
  <2>1. pc' \notin {"connect", "index", "crawl"}
    BY <1>5 DEF Past
  <2>2. pc' \in Past => pc \in Past
    BY <1>5 DEF Past
  <2> QED
    BY <1>1, <1>2, <1>3, <2>1, <2>2 DEF CrawlInv
<1> QED
  BY <1>4, <1>5

\* The command connects and puts the entry on the stack.
LEMMA StartKeepsCrawl ==
  ASSUME IngestTypes, CrawlInv, Start \/ ensure_collection \/ create_text_index
  PROVE  CrawlInv'
<1>0. <<>> \in Seq(Pages \X Nat) /\ Len(<<>>) = 0 /\ ToSet(<<>>) = {} /\ IsInjective(<<>>)
  BY DEF ToSet, IsInjective
<1>1. CASE Start
  <2>1. pc' = "connect" /\ visit' = <<>> /\ visited' = {} /\ found' = <<>>
    BY <1>1 DEF Start
  <2> QED
    BY <1>0, <2>1 DEF CrawlInv, Past
<1>2. CASE ensure_collection \/ create_text_index
  <2>1. UNCHANGED <<opts, visited, found, faults>> /\ pc \in {"connect", "index"}
    BY <1>2 DEF ensure_collection, create_text_index
  <2>2. \/ visit' = visit /\ pc' \in {pc, "index"}
        \/ visit' = Targets /\ pc' = Discovery
    BY <1>2 DEF ensure_collection, create_text_index
  <2>3. CASE visit' = visit /\ pc' \in {pc, "index"}
    BY <2>1, <2>3 DEF CrawlInv, Past
  <2>4. CASE visit' = Targets /\ pc' = Discovery
    <3> SUFFICES ASSUME opts.command = "url" PROVE CrawlInv'
      BY <2>1 DEF CrawlInv
    <3>1. pc' = "crawl" /\ found' = <<>> /\ visit' = Targets /\ Targets' = Targets
      BY <2>1, <2>4 DEF CrawlInv, Discovery, Targets
    <3>2. visit' = <<<<opts.entry, 0>>>> /\ Len(visit') = 1
      BY <2>4 DEF Targets
    <3>3. opts.entry \in Within(opts.entry, 0)
      <4>1. opts.entry \in Pages
        BY OptionsAre DEF IngestTypes
      <4>2. Within(opts.entry, 0) = {opts.entry}
        BY <4>1, WithinGrows
      <4> QED
        BY <4>2
    <3>4. \A i \in 1 .. Len(visit') : visit'[i][1] \in Within(opts.entry, visit'[i][2])
      <4> SUFFICES ASSUME NEW i \in 1 .. Len(visit')
                   PROVE  visit'[i][1] \in Within(opts.entry, visit'[i][2])
        OBVIOUS
      <4>1. visit'[i][1] = opts.entry /\ visit'[i][2] = 0
        BY <3>2
      <4> QED
        BY <3>3, <4>1
    <3> QED
      BY <2>1, <3>1, <3>4 DEF CrawlInv, Past
  <2> QED
    BY <2>2, <2>3, <2>4
<1> QED
  BY <1>1, <1>2

\* Nothing is left on the stack.
LEMMA DiscoveredKeepsCrawl ==
  ASSUME IngestTypes, CrawlInv,
         StackOverflow \/ Discovered \/ discover_files_inner \/ EntryFails
  PROVE  CrawlInv'
<1> SUFFICES ASSUME opts.command = "url" PROVE CrawlInv'
  BY DEF CrawlInv, StackOverflow, Discovered, discover_files_inner, EntryFails
<1>1. Discovered /\ pc = "crawl"
  BY DEF IngestTypes, StackOverflow, Discovered, discover_files_inner, EntryFails
<1>2. visit = <<>> /\ visit # Targets /\ \A u : ~Waiting(u)
  <2>1. visit = <<>>
    BY <1>1 DEF Discovered
  <2>2. Len(visit) = 0
    BY <2>1
  <2>3. <<>> # <<<<opts.entry, 0>>>>
    OBVIOUS
  <2> QED
    BY <2>1, <2>2, <2>3 DEF Targets, Waiting
<1>3. UNCHANGED <<opts, visit, visited, found, faults>> /\ pc' = "documents"
  BY <1>1 DEF Discovered, walkVars
<1>4. Near' = Near
  BY <1>3 DEF Near
<1> QED
  BY <1>1, <1>2, <1>3, <1>4 DEF CrawlInv, Past

\* The entry looked at is on the stack as deep as the crawl goes, and those under it stay.
LEMMA LookedAt ==
  ASSUME IngestTypes, CrawlInv, Crawling
  PROVE  /\ opts.command = "url" /\ opts.entry \in Pages /\ opts.depth \in Nat
         /\ visit \in Seq(Pages \X Nat) /\ Len(visit) \in 1 .. Len(visit)
         /\ Last(visit) = visit[Len(visit)] /\ Url \in Pages /\ Depth \in Nat
         /\ Url \in DOMAIN Text /\ Url \in Within(opts.entry, Depth)
         /\ Front(visit) \in Seq(Pages \X Nat) /\ Len(Front(visit)) = Len(visit) - 1
         /\ \A i \in 1 .. Len(visit) - 1 : Front(visit)[i] = visit[i] /\ i \in 1 .. Len(visit)
         /\ \A i \in 1 .. Len(visit) : i # Len(visit) => i \in 1 .. Len(visit) - 1
<1>1. opts.command = "url" /\ visit \in Seq(Pages \X Nat) /\ visit # <<>>
  BY DEF IngestTypes, Crawling
<1>2. opts.entry \in Pages /\ opts.depth \in Nat
  BY <1>1, OptionsAre DEF IngestTypes
<1>3. /\ Len(visit) \in 1 .. Len(visit) /\ Last(visit) = visit[Len(visit)] /\ Last(visit) \in Pages \X Nat
      /\ Front(visit) \in Seq(Pages \X Nat) /\ Len(Front(visit)) = Len(visit) - 1
      /\ \A i \in 1 .. Len(visit) - 1 : Front(visit)[i] = visit[i] /\ i \in 1 .. Len(visit)
      /\ \A i \in 1 .. Len(visit) : i # Len(visit) => i \in 1 .. Len(visit) - 1
  BY <1>1, Popped
<1>4. Url \in Pages /\ Depth \in Nat
  BY <1>3 DEF Url, Depth
<1>5. Url \in Within(opts.entry, Depth)
  <2>1. visit[Len(visit)][1] \in Within(opts.entry, visit[Len(visit)][2])
    BY <1>1, <1>3 DEF CrawlInv
  <2> QED
    BY <1>3, <2>1, Zenon DEF Url, Depth
<1>6. Url \in DOMAIN Text
  <2>1. Pages \subseteq DOMAIN Text
    BY IngestionAssumption
  <2> QED
    BY <1>4, <2>1
<1> QED
  BY <1>1, <1>2, <1>3, <1>4, <1>5, <1>6

\* A page met again, or too deep.
LEMMA SkipKeepsCrawl ==
  ASSUME IngestTypes, CrawlInv, SkipUrl
  PROVE  CrawlInv'
<1>1. Crawling
  BY DEF SkipUrl
<1>2. /\ visit \in Seq(Pages \X Nat) /\ Len(visit) \in 1 .. Len(visit) /\ Last(visit) = visit[Len(visit)]
      /\ Len(Front(visit)) = Len(visit) - 1
      /\ \A i \in 1 .. Len(visit) - 1 : Front(visit)[i] = visit[i] /\ i \in 1 .. Len(visit)
      /\ \A i \in 1 .. Len(visit) : i # Len(visit) => i \in 1 .. Len(visit) - 1
      /\ opts.command = "url" /\ opts.entry \in Pages /\ opts.depth \in Nat /\ Depth \in Nat
  BY <1>1, LookedAt
<1>3. visit' = Front(visit) /\ UNCHANGED <<pc, opts, visited, found, faults>> /\ pc = "crawl"
  BY DEF SkipUrl, Crawling
<1>4. Near' = Near
  BY <1>3 DEF Near
<1>5. \A i \in 1 .. Len(visit') : visit'[i][1] \in Within(opts.entry, visit'[i][2])
  BY <1>2, <1>3 DEF CrawlInv
<1>6. ASSUME faults = 0 PROVE \A u \in Near : u \in ToSet(found) \/ Waiting(u)'
  <2>1. visited = ToSet(found)
    BY <1>2, <1>6 DEF CrawlInv
  <2>2. ~(found = <<>> /\ visit = Targets)
    <3> SUFFICES ASSUME found = <<>>, visit = Targets PROVE FALSE
      OBVIOUS
    <3>1. Len(Targets) = 1 /\ Targets[1][2] = 0
      BY DEF Targets
    <3>2. Depth = 0
      BY <1>2, <3>1 DEF Depth
    <3>3. visited = {}
      BY <2>1 DEF ToSet
    <3> QED
      BY <1>2, <3>2, <3>3 DEF SkipUrl
  <2>3. \A u \in Near : u \in ToSet(found) \/ Waiting(u)
    BY <1>2, <1>3, <1>6, <2>2 DEF CrawlInv
  <2>4. ASSUME NEW u \in Near, u \notin ToSet(found) PROVE Waiting(u)'
    <3>1. PICK i \in 1 .. Len(visit) : visit[i][1] = u /\ visit[i][2] <= opts.depth
      BY <2>3, <2>4 DEF Waiting
    <3>2. i # Len(visit)
      <4> SUFFICES ASSUME i = Len(visit) PROVE FALSE
        OBVIOUS
      <4>1. Url = u /\ Depth <= opts.depth
        BY <1>2, <3>1 DEF Url, Depth
      <4> QED
        BY <1>2, <2>1, <2>4, <4>1 DEF SkipUrl
    <3>3. i \in 1 .. Len(visit) - 1 /\ visit'[i] = visit[i] /\ Len(visit') = Len(visit) - 1
      BY <1>2, <1>3, <3>2
    <3> QED
      BY <1>3, <3>1, <3>3 DEF Waiting
  <2> QED
    BY <2>4
<1> QED
  BY <1>2, <1>3, <1>4, <1>5, <1>6 DEF CrawlInv, Past

\* A page taken up is near enough and was not listed before.
LEMMA TakenUp ==
  ASSUME IngestTypes, CrawlInv, Crawling, Url \notin visited, Depth <= opts.depth
  PROVE  /\ visited \cup {Url} \subseteq Within(opts.entry, opts.depth)
         /\ IsInjective(found) /\ IsInjective(Append(found, Url))
         /\ ToSet(found) \subseteq visited /\ ToSet(Append(found, Url)) = ToSet(found) \cup {Url}
<1>1. /\ opts.command = "url" /\ opts.entry \in Pages /\ opts.depth \in Nat /\ Depth \in Nat
      /\ Url \in DOMAIN Text /\ Url \in Within(opts.entry, Depth)
  BY LookedAt
<1>2. Within(opts.entry, Depth) \subseteq Within(opts.entry, opts.depth)
  BY <1>1, WithinMore
<1>3. /\ IsInjective(found) /\ ToSet(found) \subseteq visited
      /\ visited \subseteq Within(opts.entry, opts.depth)
  BY <1>1 DEF CrawlInv
<1>4. found \in Seq(DOMAIN Text) /\ Url \notin ToSet(found)
  BY <1>3 DEF IngestTypes
<1>5. IsInjective(Append(found, Url)) /\ ToSet(Append(found, Url)) = ToSet(found) \cup {Url}
  BY <1>1, <1>3, <1>4, Listed
<1> QED
  BY <1>1, <1>2, <1>3, <1>5

\* A page that cannot be fetched is not looked at again.
LEMMA FailedFetchKeepsCrawl ==
  ASSUME IngestTypes, CrawlInv, CrawlFails
  PROVE  CrawlInv'
<1>1. Crawling /\ Url \notin visited /\ Depth <= opts.depth /\ faults' # 0
  BY DEF CrawlFails, Fault, IngestTypes
<1>2. /\ visited \cup {Url} \subseteq Within(opts.entry, opts.depth)
      /\ IsInjective(found) /\ IsInjective(Append(found, Url))
      /\ ToSet(found) \subseteq visited /\ ToSet(Append(found, Url)) = ToSet(found) \cup {Url}
  BY <1>1, TakenUp
<1>3. /\ visit \in Seq(Pages \X Nat) /\ Len(Front(visit)) = Len(visit) - 1
      /\ \A i \in 1 .. Len(visit) - 1 : Front(visit)[i] = visit[i] /\ i \in 1 .. Len(visit)
      /\ opts.command = "url"
  BY <1>1, LookedAt
<1>4. /\ visit' = Front(visit) /\ UNCHANGED <<pc, opts>> /\ pc = "crawl"
      /\ visited' = visited \cup {Url} /\ found' \in {found, Append(found, Url)}
  BY DEF CrawlFails, Crawling
<1>5. \A i \in 1 .. Len(visit') : visit'[i][1] \in Within(opts.entry, visit'[i][2])
  BY <1>3, <1>4 DEF CrawlInv
<1>6. IsInjective(found') /\ ToSet(found') \subseteq visited'
  BY <1>2, <1>4
<1> QED
  BY <1>1, <1>2, <1>4, <1>5, <1>6 DEF CrawlInv

\* What is under the page looked at, and its links, one further than the page.
LEMMA Stacked ==
  ASSUME NEW s \in Seq(Pages \X Nat), NEW t \in Seq(Pages \X Nat)
  PROVE  /\ Len(s \o t) = Len(s) + Len(t)
         /\ \A i \in 1 .. Len(s) : i \in 1 .. Len(s \o t) /\ (s \o t)[i] = s[i]
         /\ \A i \in 1 .. Len(t) : i + Len(s) \in 1 .. Len(s \o t) /\ (s \o t)[i + Len(s)] = t[i]
         /\ \A i \in 1 .. Len(s \o t) : i \in 1 .. Len(s) \/ \E j \in 1 .. Len(t) : i = j + Len(s)
<1>1. /\ Len(s \o t) = Len(s) + Len(t) /\ Len(s) \in Nat /\ Len(t) \in Nat
      /\ \A i \in 1 .. Len(s) + Len(t) :
           (s \o t)[i] = IF i <= Len(s) THEN s[i] ELSE t[i - Len(s)]
  OBVIOUS
<1>2. \A i \in 1 .. Len(t) : i + Len(s) \in 1 .. Len(s) + Len(t) /\ ~(i + Len(s) <= Len(s))
        /\ (i + Len(s)) - Len(s) = i
  BY <1>1
<1>3. \A i \in 1 .. Len(s) : i \in 1 .. Len(s) + Len(t) /\ i <= Len(s)
  BY <1>1
<1>4. ASSUME NEW i \in 1 .. Len(s) + Len(t), i \notin 1 .. Len(s)
      PROVE  \E j \in 1 .. Len(t) : i = j + Len(s)
  <2>1. i - Len(s) \in 1 .. Len(t) /\ i = (i - Len(s)) + Len(s)
    BY <1>1, <1>4
  <2> QED
    BY <2>1
<1> QED
  BY <1>1, <1>2, <1>3, <1>4

\* A page fetched has its links one deeper on the stack.
LEMMA FetchKeepsCrawl ==
  ASSUME IngestTypes, CrawlInv, crawl_urls
  PROVE  CrawlInv'
<1> DEFINE links == IF Depth < opts.depth THEN Pushed(Url, Depth) ELSE <<>>
           under == Front(visit)
<1>1. Crawling /\ Url \notin visited /\ Depth <= opts.depth
  BY DEF crawl_urls
<1>2. /\ visited \cup {Url} \subseteq Within(opts.entry, opts.depth)
      /\ IsInjective(found) /\ IsInjective(Append(found, Url))
      /\ ToSet(found) \subseteq visited /\ ToSet(Append(found, Url)) = ToSet(found) \cup {Url}
  BY <1>1, TakenUp
<1>3. /\ visit \in Seq(Pages \X Nat) /\ Len(visit) \in 1 .. Len(visit) /\ Last(visit) = visit[Len(visit)]
      /\ under \in Seq(Pages \X Nat) /\ Len(under) = Len(visit) - 1
      /\ \A i \in 1 .. Len(visit) - 1 : under[i] = visit[i] /\ i \in 1 .. Len(visit)
      /\ \A i \in 1 .. Len(visit) : i # Len(visit) => i \in 1 .. Len(visit) - 1
      /\ opts.command = "url" /\ opts.entry \in Pages /\ opts.depth \in Nat
      /\ Url \in Pages /\ Depth \in Nat /\ Url \in Within(opts.entry, Depth)
  BY <1>1, LookedAt
<1>4. /\ visit' = under \o links /\ UNCHANGED <<pc, opts, faults>> /\ pc = "crawl"
      /\ visited' = visited \cup {Url} /\ found' = Append(found, Url)
  BY DEF crawl_urls, Crawling
<1>5. /\ links \in Seq(Pages \X Nat)
      /\ \A i \in 1 .. Len(links) : links[i][1] \in Linked({Url}) /\ links[i][2] = Depth + 1
      /\ Depth < opts.depth => \A l \in Linked({Url}) \ (visited \cup {Url}) :
                                 \E i \in 1 .. Len(links) : links[i] = <<l, Depth + 1>>
  <2>1. CASE Depth < opts.depth
    <3>1. links = Pushed(Url, Depth)
      BY <2>1
    <3>2. /\ Pushed(Url, Depth) \in Seq(Pages \X Nat)
          /\ \A i \in 1 .. Len(Pushed(Url, Depth)) :
               Pushed(Url, Depth)[i][1] \in Linked({Url}) /\ Pushed(Url, Depth)[i][2] = Depth + 1
          /\ \A l \in Linked({Url}) \ (visited \cup {Url}) :
               \E i \in 1 .. Len(Pushed(Url, Depth)) : Pushed(Url, Depth)[i] = <<l, Depth + 1>>
      <4>1. Url \in Pages /\ Depth \in Nat
        BY <1>3
      <4> QED
        BY <4>1, PushedLinks
    <3> HIDE DEF links
    <3> QED
      BY <3>1, <3>2
  <2>2. CASE ~(Depth < opts.depth)
    <3>1. links = <<>> /\ Len(<<>>) = 0
      BY <2>2
    <3> QED
      BY <2>2, <3>1
  <2> QED
    BY <2>1, <2>2
<1> HIDE DEF links, under
<1>6. /\ Len(visit') = Len(under) + Len(links)
      /\ \A i \in 1 .. Len(under) : i \in 1 .. Len(visit') /\ visit'[i] = under[i]
      /\ \A i \in 1 .. Len(links) : i + Len(under) \in 1 .. Len(visit') /\ visit'[i + Len(under)] = links[i]
      /\ \A i \in 1 .. Len(visit') : i \in 1 .. Len(under) \/ \E j \in 1 .. Len(links) : i = j + Len(under)
  BY <1>3, <1>4, <1>5, Stacked
<1>7. Near' = Near
  BY <1>4 DEF Near
<1>8. Linked({Url}) \subseteq Within(opts.entry, Depth + 1)
  <2>1. Within(opts.entry, Depth + 1) = Within(opts.entry, Depth) \cup Linked(Within(opts.entry, Depth))
    BY <1>3, WithinGrows
  <2> QED
    BY <1>3, <2>1 DEF Linked
<1>9. \A i \in 1 .. Len(visit') : visit'[i][1] \in Within(opts.entry, visit'[i][2])
  <2> SUFFICES ASSUME NEW i \in 1 .. Len(visit')
               PROVE  visit'[i][1] \in Within(opts.entry, visit'[i][2])
    OBVIOUS
  <2>1. CASE i \in 1 .. Len(under)
    BY <1>3, <1>6, <2>1 DEF CrawlInv
  <2>2. CASE \E j \in 1 .. Len(links) : i = j + Len(under)
    <3>1. PICK j \in 1 .. Len(links) : i = j + Len(under)
      BY <2>2
    <3>2. visit'[i] = links[j]
      BY <1>6, <3>1
    <3> QED
      BY <1>5, <1>8, <3>2
  <2> QED
    BY <1>6, <2>1, <2>2
<1>10. ASSUME faults = 0 PROVE \A u \in Near : u \in ToSet(found') \/ Waiting(u)'
  <2>1. visited = ToSet(found)
    BY <1>3, <1>10 DEF CrawlInv
  <2>2. CASE found = <<>> /\ visit = Targets
    <3>1. Len(Targets) = 1 /\ Targets[1] = <<opts.entry, 0>>
      BY DEF Targets
    <3>2. Url = opts.entry /\ Depth = 0
      BY <1>3, <2>2, <3>1 DEF Url, Depth
    <3>3. Within(opts.entry, 0) = {opts.entry}
      BY <1>3, WithinGrows
    <3>4. opts.entry \in ToSet(found')
      BY <1>2, <1>4, <3>2
    <3>5. CASE opts.depth = 0
      BY <1>3, <3>3, <3>4, <3>5 DEF Near, Least
    <3>6. CASE opts.depth # 0
      <4>1. Near = Within(opts.entry, 1)
        <5>1. Least(opts.depth, 1) = 1
          <6>1. \A n \in Nat : n # 0 => Least(n, 1) = 1
            BY DEF Least
          <6> QED
            BY <1>3, <3>6, <6>1
        <5> QED
          BY <5>1 DEF Near
      <4>2. Within(opts.entry, 0 + 1) = Within(opts.entry, 0) \cup Linked(Within(opts.entry, 0))
        BY <1>3, WithinGrows
      <4>3. Near = {Url} \cup Linked({Url})
        BY <3>2, <3>3, <4>1, <4>2
      <4>4. ASSUME NEW u \in Linked({Url}), u \notin ToSet(found') PROVE Waiting(u)'
        <5>1. u \notin visited \cup {Url}
          BY <1>2, <1>4, <2>1, <4>4
        <5>2. Depth < opts.depth /\ Depth + 1 = 1 /\ 1 <= opts.depth
          BY <1>3, <3>2, <3>6
        <5>3. PICK i \in 1 .. Len(links) : links[i] = <<u, Depth + 1>>
          BY <1>5, <4>4, <5>1, <5>2
        <5>4. i + Len(under) \in 1 .. Len(visit') /\ visit'[i + Len(under)] = <<u, 1>>
          BY <1>6, <5>2, <5>3
        <5> DEFINE k == i + Len(under)
        <5>5. visit'[k][1] = u /\ visit'[k][2] = 1 /\ k \in 1 .. Len(visit')
          BY <5>4
        <5> HIDE DEF k
        <5> QED
          BY <1>4, <5>2, <5>5 DEF Waiting
      <4> QED
        BY <3>2, <3>4, <4>3, <4>4
    <3> QED
      BY <3>5, <3>6
  <2>3. CASE ~(found = <<>> /\ visit = Targets)
    <3>1. \A u \in Near : u \in ToSet(found) \/ Waiting(u)
      BY <1>3, <1>4, <1>10, <2>3 DEF CrawlInv
    <3>2. ASSUME NEW u \in Near, u \notin ToSet(found') PROVE Waiting(u)'
      <4>1. u \notin ToSet(found) /\ u # Url
        BY <1>2, <1>4, <3>2
      <4>2. PICK i \in 1 .. Len(visit) : visit[i][1] = u /\ visit[i][2] <= opts.depth
        BY <3>1, <3>2, <4>1 DEF Waiting
      <4>3. i # Len(visit)
        BY <1>3, <4>1, <4>2 DEF Url
      <4>4. i \in 1 .. Len(under) /\ under[i] = visit[i]
        BY <1>3, <4>2, <4>3
      <4>5. i \in 1 .. Len(visit') /\ visit'[i] = visit[i]
        BY <1>6, <4>4
      <4> QED
        BY <1>4, <4>2, <4>5 DEF Waiting
    <3> QED
      BY <3>2
  <2> QED
    BY <2>2, <2>3
<1>11. faults = 0 => visited' = ToSet(found')
  BY <1>2, <1>3, <1>4 DEF CrawlInv
<1>12. ToSet(found') \subseteq visited' /\ visited' \subseteq Within(opts.entry, opts.depth) /\ IsInjective(found')
  BY <1>2, <1>4
<1> QED
  BY <1>3, <1>4, <1>7, <1>9, <1>10, <1>11, <1>12 DEF CrawlInv, Past

\* Both hold in every state.
LEMMA CrawlKeeps == Spec => [](IngestTypes /\ CrawlInv)
<1>1. Init => IngestTypes /\ CrawlInv
  <2> SUFFICES ASSUME Init PROVE IngestTypes /\ CrawlInv
    OBVIOUS
  <2>1. opts \in Options
    BY IngestionAssumption DEF Init
  <2>2. Len(<<>>) = 0 /\ ToSet(<<>>) = {} /\ IsInjective(<<>>)
    BY DEF ToSet, IsInjective
  <2>3. <<>> \in Seq(Pages \X Nat) /\ <<>> \in Seq(DOMAIN Text)
    OBVIOUS
  <2> QED
    BY <2>1, <2>2, <2>3 DEF Init, IngestTypes, CrawlInv, Past
<1>2. (IngestTypes /\ CrawlInv) /\ [Next]_vars => (IngestTypes /\ CrawlInv)'
  <2> SUFFICES ASSUME IngestTypes, CrawlInv, [Next]_vars PROVE IngestTypes' /\ CrawlInv'
    OBVIOUS
  <2>1. CASE Start \/ ensure_collection \/ create_text_index
    BY <2>1, StartTypes, StartKeepsCrawl
  <2>2. CASE \/ SkipUrl \/ crawl_urls \/ CrawlFails
             \/ discover_files_inner \/ EntryFails \/ StackOverflow \/ Discovered
    BY <2>2, DiscoveryTypes, SkipKeepsCrawl, FetchKeepsCrawl, FailedFetchKeepsCrawl, DiscoveredKeepsCrawl
  <2>3. CASE \/ ReadFails \/ SkipEmpty \/ NoChunks \/ BeginDocument
             \/ EmbedBatch \/ EmbedFails \/ upsert_points \/ UpsertFails \/ Finish \/ Kill
             \/ UNCHANGED vars
    <3>1. /\ IngestTypes' /\ UNCHANGED <<opts, visit, visited, found>> /\ faults' >= faults
          /\ pc' \in {pc, "ended"} \/ (pc \in Past /\ pc' \in Past)
      BY <2>3, DocumentTypes
    <3>2. faults' \in Nat
      BY <3>1 DEF IngestTypes
    <3> QED
      BY <3>1, <3>2, DocumentsKeepCrawl
  <2> QED
    BY <2>1, <2>2, <2>3 DEF Next
<1> QED
  BY <1>1, <1>2, PTL DEF Spec

\* A crawl (crawler.rs) lists no page twice and none further from the entry than its
\* depth, whatever order the links are met in; and when no call failed it lists the entry
\* and, with a depth of one or more, every page of the site the entry links to.
THEOREM CrawlStaysInBounds == Spec => []CrawlBounds
<1>1. IngestTypes /\ CrawlInv => CrawlBounds
  BY DEF CrawlInv, CrawlBounds, Near, Past
<1> QED
  BY <1>1, CrawlKeeps, PTL

-----------------------------------------------------------------------------
(***************************************************************************)
(* The vectors come back in any order and are put in the order of their    *)
(* indices.                                                                *)
(***************************************************************************)

\* What rises from position to position and has no room to spare stays in its place.
Rising(g, n) ==
  /\ g \in [1 .. n -> 1 .. n]
  /\ \A j \in 1 .. n : j - 1 \in 1 .. n => g[j - 1] < g[j]

\* Such a function is the identity: it can neither stay behind nor run ahead.
LEMMA NoRoom ==
  ASSUME NEW n \in Nat, NEW g, Rising(g, n)
  PROVE  \A j \in 1 .. n : g[j] = j
<1> DEFINE Up == {k \in 0 .. n : k = 0 \/ g[k] >= k}
           Down == {k \in 0 .. n : n - k = 0 \/ g[n - k] <= n - k}
<1>0. \A j \in 1 .. n : g[j] \in Nat /\ g[j] >= 1 /\ g[j] <= n
  BY DEF Rising
<1>1. Up \in SUBSET (0 .. n) /\ 0 \in Up
  OBVIOUS
<1>2. ASSUME NEW k \in 1 .. n, k - 1 \in Up PROVE k \in Up
  <2>1. CASE k = 1
    BY <1>0, <2>1
  <2>2. CASE k # 1
    <3>1. k - 1 \in 1 .. n
      BY <2>2
    <3>2. g[k - 1] >= k - 1 /\ g[k - 1] < g[k]
      BY <1>2, <3>1 DEF Rising
    <3>3. g[k - 1] \in Nat /\ g[k] \in Nat
      BY <1>0, <3>1
    <3>4. g[k] >= k
      BY <3>2, <3>3
    <3> QED
      BY <3>4
  <2> QED
    BY <2>1, <2>2
<1>3. Down \in SUBSET (0 .. n)
  OBVIOUS
<1>4. 0 \in Down
  BY <1>0
<1>5. ASSUME NEW k \in 1 .. n, k - 1 \in Down PROVE k \in Down
  <2>1. CASE n - k = 0
    BY <2>1
  <2>2. CASE n - k # 0
    <3>1. n - k \in 1 .. n /\ n - (k - 1) \in 1 .. n /\ (n - (k - 1)) - 1 = n - k
      BY <2>2
    <3>2. g[n - (k - 1)] <= n - (k - 1) /\ g[n - k] < g[n - (k - 1)]
      BY <1>5, <3>1 DEF Rising
    <3>3. g[n - k] \in Nat /\ g[n - (k - 1)] \in Nat
      BY <1>0, <3>1
    <3>4. g[n - k] <= n - k
      BY <3>2, <3>3
    <3> QED
      BY <3>4
  <2> QED
    BY <2>1, <2>2
<1> HIDE DEF Up, Down
<1>6. Up = 0 .. n
  BY <1>1, <1>2, ReachesAll
<1>7. Down = 0 .. n
  BY <1>3, <1>4, <1>5, ReachesAll
<1> QED
  <2> SUFFICES ASSUME NEW j \in 1 .. n PROVE g[j] = j
    OBVIOUS
  <2>1. j \in Up /\ n - j \in Down
    BY <1>6, <1>7
  <2>2. g[j] >= j
    BY <2>1 DEF Up
  <2>3. n - (n - j) = j
    OBVIOUS
  <2>4. g[j] <= j
    BY <2>1, <2>3 DEF Down
  <2> QED
    BY <1>0, <2>2, <2>4

\* There are as many entries as texts.
LEMMA DataSize ==
  ASSUME NEW T, NEW texts \in Seq(T), NEW n \in Nat, n = Len(texts)
  PROVE  /\ IsFiniteSet(Data(texts, 1 .. n)) /\ Cardinality(Data(texts, 1 .. n)) = n
         /\ [i \in 1 .. n |-> [index |-> i, embedding |-> texts[i]]] \in SetToSeqs(Data(texts, 1 .. n))
<1> DEFINE f == [i \in 1 .. n |-> [index |-> i, embedding |-> texts[i]]]
           S == Data(texts, 1 .. n)
<1>1. f \in [1 .. n -> S] /\ \A x \in S : \E i \in 1 .. n : f[i] = x
  BY DEF Data
<1>2. \A i, j \in 1 .. n : i # j => f[i] # f[j]
  OBVIOUS
<1> HIDE DEF f, S
<1>3. f \in Bijection(1 .. n, S)
  <2>1. f \in Injection(1 .. n, S)
    BY <1>1, <1>2 DEF Injection, IsInjective
  <2>2. f \in Surjection(1 .. n, S)
    BY <1>1 DEF Surjection
  <2> QED
    BY <2>1, <2>2 DEF Bijection
<1>4. IsFiniteSet(1 .. n) /\ Cardinality(1 .. n) = n
  <2>1. 1 \in Int /\ n \in Int /\ (IF 1 > n THEN 0 ELSE n - 1 + 1) = n
    OBVIOUS
  <2> QED
    BY <2>1, FS_Interval
<1>5. IsFiniteSet(S) /\ Cardinality(S) = n
  BY <1>3, <1>4, FS_Bijection DEF ExistsBijection
<1>6. f \in SetToSeqs(S)
  BY <1>1, <1>2, <1>5 DEF SetToSeqs, IsInjective
<1> QED
  BY <1>5, <1>6 DEF f, S

Ordered(s) == \A i, j \in DOMAIN s : i < j => s[i].index <= s[j].index

\* In whatever order the entries come, the vectors are those of the texts.
LEMMA EmbeddedInOrder ==
  ASSUME NEW T, NEW texts \in Seq(T), NEW data \in Replies(texts, DOMAIN texts)
  PROVE  embed(data) = texts
<1> DEFINE n == Len(texts)
           S == Data(texts, 1 .. n)
           f == [i \in 1 .. n |-> [index |-> i, embedding |-> texts[i]]]
           sorted == CHOOSE s \in SetToSeqs(ToSet(data)) :
                       \A i, j \in DOMAIN s : i < j => s[i].index <= s[j].index
<1>1. n \in Nat /\ DOMAIN texts = 1 .. n
  OBVIOUS
<1>2. IsFiniteSet(S) /\ Cardinality(S) = n /\ f \in SetToSeqs(S)
  BY <1>1, DataSize
<1>3. ToSet(data) = S
  BY <1>1, <1>2, Listing DEF Replies
<1>4. Ordered(f)
  BY <1>1 DEF Ordered
<1>5. sorted = CHOOSE s \in SetToSeqs(S) : Ordered(s)
  BY <1>3, Zenon DEF Ordered
<1>6. sorted \in SetToSeqs(S) /\ Ordered(sorted)
  <2> HIDE DEF sorted, f, S
  <2> QED
    BY <1>2, <1>4, <1>5, Zenon
<1>7. embed(data) = [i \in DOMAIN sorted |-> sorted[i].embedding]
  BY Zenon DEF embed
<1> HIDE DEF sorted, f
<1>8. sorted \in [1 .. n -> S] /\ \A i, j \in 1 .. n : i # j => sorted[i] # sorted[j]
  <2> HIDE DEF S, n
  <2> QED
    BY <1>2, <1>6 DEF SetToSeqs, IsInjective
<1>9. \A x \in S : x.index \in 1 .. n /\ x.embedding = texts[x.index]
  BY DEF Data
<1>10. \A x, y \in S : x.index = y.index => x = y
  BY DEF Data
<1> HIDE DEF S, n
<1>11. \A i \in 1 .. n : sorted[i] \in S /\ sorted[i].index \in 1 .. n
  BY <1>8, <1>9
<1>12. Rising([i \in 1 .. n |-> sorted[i].index], n)
  <2>1. [i \in 1 .. n |-> sorted[i].index] \in [1 .. n -> 1 .. n]
    BY <1>11
  <2>2. ASSUME NEW j \in 1 .. n, j - 1 \in 1 .. n PROVE sorted[j - 1].index < sorted[j].index
    <3>1. j - 1 < j /\ j - 1 # j
      BY <1>1
    <3>2. sorted[j - 1].index <= sorted[j].index
      BY <1>6, <1>8, <2>2, <3>1 DEF Ordered
    <3>3. sorted[j - 1].index # sorted[j].index
      BY <1>8, <1>10, <1>11, <2>2, <3>1
    <3>4. sorted[j - 1].index \in 1 .. n /\ sorted[j].index \in 1 .. n
      BY <1>11, <2>2
    <3> QED
      BY <1>1, <3>2, <3>3, <3>4
  <2> QED
    BY <2>1, <2>2 DEF Rising
<1>13. \A i \in 1 .. n : sorted[i].index = i
  <2> DEFINE g == [i \in 1 .. n |-> sorted[i].index]
  <2>1. \A i \in 1 .. n : g[i] = sorted[i].index
    OBVIOUS
  <2>2. Rising(g, n)
    BY <1>12
  <2> HIDE DEF g
  <2>3. \A i \in 1 .. n : g[i] = i
    BY <1>1, <2>2, NoRoom
  <2> QED
    BY <2>1, <2>3
<1>14. \A i \in 1 .. n : sorted[i].embedding = texts[i]
  BY <1>9, <1>11, <1>13
<1>15. DOMAIN sorted = 1 .. n
  BY <1>8
<1> QED
  <2>1. embed(data) = [i \in 1 .. n |-> texts[i]]
    BY <1>7, <1>14, <1>15
  <2> QED
    BY <1>1, <2>1

-----------------------------------------------------------------------------
(***************************************************************************)
(* The store holds points of documents begun, every one of those reported, *)
(* and of the document being stored the ones counted by at; the totals are *)
(* those of the documents of this run.                                     *)
(***************************************************************************)

Point(d, k) ==
  [doc |-> d, index |-> k, text |-> docs[d].chunks[k], vector |-> docs[d].chunks[k]]

IsDoc(r) ==
  /\ r = [source |-> r.source, run |-> r.run, opts |-> r.opts, chunks |-> r.chunks, status |-> r.status]
  /\ r.source \in DOMAIN Text /\ r.opts \in Options /\ r.run \in Nat
  /\ r.chunks \in Seq(ToSet(r.chunks)) /\ r.status \in {"open", "stored", "failed"}

DocsTyped ==
  /\ docs \in Seq(ToSet(docs)) /\ \A d \in 1 .. Len(docs) : IsDoc(docs[d]) /\ docs[d].run <= runs
  /\ report \in [docs : Nat, chunks : Nat, errors : Nat]

StorePoints ==
  /\ IsFiniteSet(store)
  /\ \A p \in store : /\ p.doc \in 1 .. Len(docs) /\ p.index \in 1 .. Len(docs[p.doc].chunks)
                      /\ p = Point(p.doc, p.index)
  /\ \A d \in Reported : \A k \in 1 .. Len(docs[d].chunks) : Point(d, k) \in store

Storing ==
  /\ Doc >= 1 /\ docs[Doc].status = "open" /\ docs[Doc].run = runs /\ opts.batch >= 1
  /\ at \in Nat /\ at < Len(DocChunks) /\ \A k \in 1 .. at : Point(Doc, k) \in store

BatchInv ==
  /\ pc \in {"embed", "upsert"} => Storing
  /\ pc = "upsert" =>
       pending = {Point(Doc, k) : k \in at + 1 .. Least(at + opts.batch, Len(DocChunks))}
  /\ pc \notin {"upsert", "ended"} => pending = {}

ReportedNow == {d \in Reported : docs[d].run = runs}
FailedNow == {d \in DOMAIN docs : docs[d].run = runs /\ docs[d].status = "failed"}
ReportedPoints == {p \in store : p.doc \in Reported /\ docs[p.doc].run = runs}
Totals ==
  /\ report.docs = Cardinality(ReportedNow)
  /\ report.chunks = Cardinality(ReportedPoints)
  /\ Cardinality(FailedNow) <= report.errors

ReportInv == DocsTyped /\ StorePoints /\ BatchInv /\ Totals

\* A list stays a list when an entry is added or changed.
LEMMA AppendedList ==
  ASSUME NEW s, s \in Seq(ToSet(s)), NEW x
  PROVE  /\ Append(s, x) \in Seq(ToSet(Append(s, x))) /\ Len(Append(s, x)) = Len(s) + 1
         /\ \A i \in 1 .. Len(s) : Append(s, x)[i] = s[i]
         /\ Append(s, x)[Len(s) + 1] = x
<1> DEFINE T == ToSet(s) \cup {x}
           t == Append(s, x)
<1>1. s \in Seq(T)
  OBVIOUS
<1>2. x \in T
  OBVIOUS
<1> HIDE DEF T
<1>3. /\ t \in Seq(T) /\ Len(t) = Len(s) + 1 /\ Len(s) \in Nat /\ DOMAIN t = 1 .. Len(t)
      /\ \A i \in 1 .. Len(s) : t[i] = s[i]
      /\ t[Len(s) + 1] = x
  BY <1>1, <1>2
<1> HIDE DEF t
<1>4. t \in Seq(ToSet(t))
  <2>1. \A i \in 1 .. Len(t) : t[i] \in ToSet(t)
    BY <1>3 DEF ToSet
  <2>2. t = [i \in 1 .. Len(t) |-> t[i]] /\ Len(t) \in Nat
    BY <1>3
  <2> QED
    BY <2>1, <2>2
<1> QED
  BY <1>3, <1>4 DEF t

\* A list is one of its own elements.
LEMMA ListOfItsOwn ==
  ASSUME NEW T, NEW t \in Seq(T)
  PROVE  t \in Seq(ToSet(t))
<1>1. Len(t) \in Nat /\ DOMAIN t = 1 .. Len(t) /\ t = [i \in 1 .. Len(t) |-> t[i]]
  OBVIOUS
<1>2. \A i \in 1 .. Len(t) : t[i] \in ToSet(t)
  BY <1>1 DEF ToSet
<1> QED
  BY <1>1, <1>2

Changed(s, n, x, t) ==
  /\ t \in Seq(ToSet(t)) /\ Len(t) = Len(s) /\ DOMAIN t = 1 .. Len(s)
  /\ \A i \in 1 .. Len(s) : i # n => t[i] = s[i]
  /\ t[n] = x

\* A list in which one entry is replaced.
LEMMA ChangedList ==
  ASSUME NEW s, s \in Seq(ToSet(s)), NEW n \in 1 .. Len(s), NEW x
  PROVE  Changed(s, n, x, [s EXCEPT ![n] = x])
<1> DEFINE T == ToSet(s) \cup {x}
           t == [s EXCEPT ![n] = x]
<1>1. s \in Seq(T)
  OBVIOUS
<1>2. x \in T
  OBVIOUS
<1> HIDE DEF T
<1>3. /\ t \in Seq(T) /\ Len(t) = Len(s) /\ Len(s) \in Nat /\ DOMAIN t = 1 .. Len(s)
      /\ \A i \in 1 .. Len(s) : i # n => t[i] = s[i]
      /\ t[n] = x
  BY <1>1, <1>2
<1> HIDE DEF t
<1>4. t \in Seq(ToSet(t))
  BY <1>3, ListOfItsOwn
<1>5. Changed(s, n, x, t)
  BY <1>3, <1>4 DEF Changed
<1> QED
  BY <1>5 DEF t

\* A document begun.
Added(r) ==
  /\ Len(docs)' = Len(docs) + 1 /\ Len(docs) \in Nat /\ DOMAIN docs = 1 .. Len(docs) /\ DOMAIN docs' = 1 .. Len(docs)'
  /\ \A d \in 1 .. Len(docs) : docs'[d] = docs[d]
  /\ docs'[Len(docs) + 1] = r

\* A document that is added leaves the others.
LEMMA DocAdded ==
  ASSUME DocsTyped, NEW r, docs' = Append(docs, r), IsDoc(r), r.run <= runs, runs' = runs,
         report' \in [docs : Nat, chunks : Nat, errors : Nat]
  PROVE  DocsTyped' /\ Added(r)
<1>1. /\ docs' \in Seq(ToSet(docs')) /\ Len(docs') = Len(docs) + 1
      /\ \A d \in 1 .. Len(docs) : docs'[d] = docs[d]
      /\ docs'[Len(docs) + 1] = r
  <2>1. docs \in Seq(ToSet(docs))
    BY DEF DocsTyped
  <2>2. /\ Append(docs, r) \in Seq(ToSet(Append(docs, r))) /\ Len(Append(docs, r)) = Len(docs) + 1
        /\ \A i \in 1 .. Len(docs) : Append(docs, r)[i] = docs[i]
        /\ Append(docs, r)[Len(docs) + 1] = r
    BY <2>1, AppendedList
  <2> QED
    BY <2>2
<1>2. Len(docs) \in Nat /\ DOMAIN docs = 1 .. Len(docs) /\ DOMAIN docs' = 1 .. Len(docs')
  BY <1>1 DEF DocsTyped
<1>3. \A d \in 1 .. Len(docs') : IsDoc(docs'[d]) /\ docs'[d].run <= runs'
  <2> SUFFICES ASSUME NEW d \in 1 .. Len(docs') PROVE IsDoc(docs'[d]) /\ docs'[d].run <= runs'
    OBVIOUS
  <2>1. d \in 1 .. Len(docs) \/ d = Len(docs) + 1
    BY <1>1, <1>2
  <2> QED
    BY <1>1, <2>1 DEF DocsTyped
<1> QED
  BY <1>1, <1>2, <1>3 DEF DocsTyped, Added, IsDoc

\* The status of the last document.
Ended(s) ==
  /\ Len(docs)' = Len(docs) /\ Len(docs) \in Nat /\ DOMAIN docs = 1 .. Len(docs) /\ DOMAIN docs' = 1 .. Len(docs)
  /\ \A d \in 1 .. Len(docs) : d # Doc => docs'[d] = docs[d]
  /\ docs'[Doc].chunks = docs[Doc].chunks /\ docs'[Doc].run = docs[Doc].run
  /\ docs'[Doc].source = docs[Doc].source /\ docs'[Doc].opts = docs[Doc].opts
  /\ docs'[Doc].status = s

\* A document that ends keeps everything but its status.
LEMMA DocEnded ==
  ASSUME DocsTyped, Doc >= 1, NEW s \in {"stored", "failed"}, docs' = [docs EXCEPT ![Doc].status = s],
         runs' = runs, report' \in [docs : Nat, chunks : Nat, errors : Nat]
  PROVE  DocsTyped' /\ Ended(s)
<1> DEFINE r == [docs[Doc] EXCEPT !.status = s]
<1>1. Doc \in 1 .. Len(docs) /\ Len(docs) \in Nat /\ DOMAIN docs = 1 .. Len(docs)
  BY DEF DocsTyped, Doc
<1>2. IsDoc(docs[Doc]) /\ docs[Doc].run <= runs
  BY <1>1 DEF DocsTyped
<1>3. /\ r.source = docs[Doc].source /\ r.run = docs[Doc].run /\ r.opts = docs[Doc].opts
      /\ r.chunks = docs[Doc].chunks /\ r.status = s
      /\ r = [source |-> r.source, run |-> r.run, opts |-> r.opts, chunks |-> r.chunks, status |-> r.status]
  <2> DEFINE q == docs[Doc]
  <2>1. q = [source |-> q.source, run |-> q.run, opts |-> q.opts, chunks |-> q.chunks, status |-> q.status]
    BY <1>2 DEF IsDoc
  <2>2. r = [q EXCEPT !.status = s]
    OBVIOUS
  <2> HIDE DEF q, r
  <2>3. r = [source |-> q.source, run |-> q.run, opts |-> q.opts, chunks |-> q.chunks, status |-> s]
    BY <2>1, <2>2
  <2> QED
    BY <2>3 DEF q
<1>4. docs' = [docs EXCEPT ![Doc] = r]
  OBVIOUS
<1> HIDE DEF r
<1>5. IsDoc(r)
  <2>1. /\ r.source \in DOMAIN Text /\ r.opts \in Options /\ r.run \in Nat
        /\ r.chunks \in Seq(ToSet(r.chunks))
    BY <1>2, <1>3 DEF IsDoc
  <2> QED
    BY <1>3, <2>1 DEF IsDoc
<1>6. /\ docs' \in Seq(ToSet(docs')) /\ Len(docs') = Len(docs)
      /\ \A d \in 1 .. Len(docs) : d # Doc => docs'[d] = docs[d]
      /\ docs'[Doc] = r
  <2>1. docs \in Seq(ToSet(docs))
    BY DEF DocsTyped
  <2>2. Changed(docs, Doc, r, [docs EXCEPT ![Doc] = r])
    BY <1>1, <2>1, ChangedList, Zenon
  <2> QED
    BY <1>4, <2>2 DEF Changed
<1>7. \A d \in 1 .. Len(docs') : IsDoc(docs'[d]) /\ docs'[d].run <= runs'
  BY <1>2, <1>3, <1>5, <1>6 DEF DocsTyped
<1>8. DOMAIN docs' = 1 .. Len(docs)
  BY <1>6
<1> QED
  BY <1>1, <1>3, <1>6, <1>7, <1>8 DEF DocsTyped, Ended, IsDoc

\* The documents begun before keep their chunks.
Kept ==
  /\ Len(docs) \in Nat /\ Len(docs)' \in Nat /\ Len(docs)' >= Len(docs)
  /\ DOMAIN docs = 1 .. Len(docs) /\ DOMAIN docs' = 1 .. Len(docs)'
  /\ \A d \in 1 .. Len(docs) : docs'[d].chunks = docs[d].chunks /\ docs'[d].run = docs[d].run

\* Every step keeps the documents begun before.
LEMMA DocsKept ==
  ASSUME DocsTyped,
         \/ docs' = docs \/ (\E r : Added(r)) \/ (\E s : Ended(s))
  PROVE  Kept
<1>1. CASE docs' = docs
  <2>1. Len(docs) \in Nat /\ DOMAIN docs = 1 .. Len(docs)
    BY DEF DocsTyped
  <2> QED
    BY <1>1, <2>1 DEF Kept
<1>2. CASE \E r : Added(r)
  <2>1. PICK r : Added(r)
    BY <1>2
  <2> QED
    BY <2>1 DEF Added, Kept
<1>3. CASE \E s : Ended(s)
  <2>1. PICK s : Ended(s)
    BY <1>3
  <2>2. \A d \in 1 .. Len(docs) : docs'[d].chunks = docs[d].chunks /\ docs'[d].run = docs[d].run
    BY <2>1 DEF Ended
  <2> QED
    BY <2>1, <2>2 DEF Ended, Kept
<1> QED
  BY <1>1, <1>2, <1>3

Points(d, K) == {Point(d, k) : k \in K}

\* There are as many points as positions.
LEMMA PointsCounted ==
  ASSUME NEW d, NEW n \in Nat, NEW K \in SUBSET (1 .. n)
  PROVE  /\ IsFiniteSet(Points(d, K)) /\ Cardinality(Points(d, K)) = Cardinality(K)
         /\ Cardinality(1 .. n) = n
<1> DEFINE f == [k \in K |-> Point(d, k)]
           S == Points(d, K)
<1>1. IsFiniteSet(K) /\ Cardinality(1 .. n) = n
  <2>1. 1 \in Int /\ n \in Int /\ (IF 1 > n THEN 0 ELSE n - 1 + 1) = n
    OBVIOUS
  <2>2. IsFiniteSet(1 .. n) /\ Cardinality(1 .. n) = n
    BY <2>1, FS_Interval
  <2> QED
    BY <2>2, FS_Subset
<1>2. f \in [K -> S] /\ \A x \in S : \E k \in K : f[k] = x
  BY DEF Points
<1>3. \A k, j \in K : f[k] = f[j] => k = j
  BY DEF Point
<1> HIDE DEF f, S
<1>4. f \in Bijection(K, S)
  <2>1. f \in Injection(K, S)
    BY <1>2, <1>3 DEF Injection, IsInjective
  <2>2. f \in Surjection(K, S)
    BY <1>2 DEF Surjection
  <2> QED
    BY <2>1, <2>2 DEF Bijection
<1>5. IsFiniteSet(S) /\ Cardinality(S) = Cardinality(K)
  BY <1>1, <1>4, FS_Bijection DEF ExistsBijection
<1> QED
  BY <1>1, <1>5 DEF S

\* The points of the documents begun before stay what they are.
LEMMA PointKept ==
  ASSUME Kept, NEW d \in 1 .. Len(docs)
  PROVE  \A k : Point(d, k)' = Point(d, k)
BY DEF Kept, Point

\* The store grows by points of the last document.
Stores(K) ==
  /\ K \subseteq 1 .. Len(DocChunks) /\ (K # {} => Doc \in 1 .. Len(docs))
  /\ store' = store \cup Points(Doc, K)

\* Points of the last document may be added, when what is newly reported has all of its own.
LEMMA StoreGrows ==
  ASSUME DocsTyped, StorePoints, Kept, NEW K, Stores(K),
         \A d \in Reported' : d \in Reported \/ \A k \in 1 .. Len(docs'[d].chunks) : Point(d, k)' \in store'
  PROVE  StorePoints'
<1>1. \A p \in store' : /\ p.doc \in 1 .. Len(docs) /\ p.index \in 1 .. Len(docs[p.doc].chunks)
                        /\ p = Point(p.doc, p.index)
  <2> SUFFICES ASSUME NEW p \in store'
               PROVE  /\ p.doc \in 1 .. Len(docs) /\ p.index \in 1 .. Len(docs[p.doc].chunks)
                      /\ p = Point(p.doc, p.index)
    OBVIOUS
  <2>1. CASE p \in store
    BY <2>1 DEF StorePoints
  <2>2. CASE p \in Points(Doc, K)
    <3>1. PICK k \in K : p = Point(Doc, k)
      BY <2>2 DEF Points
    <3>2. p.doc = Doc /\ p.index = k
      BY <3>1 DEF Point
    <3>3. Doc \in 1 .. Len(docs) /\ k \in 1 .. Len(docs[Doc].chunks)
      BY DEF Stores, DocChunks
    <3> QED
      BY <3>1, <3>2, <3>3
  <2> QED
    BY <2>1, <2>2 DEF Stores
<1>2. \A p \in store' : /\ p.doc \in 1 .. Len(docs') /\ p.index \in 1 .. Len(docs'[p.doc].chunks)
                        /\ p = Point(p.doc, p.index)'
  <2> SUFFICES ASSUME NEW p \in store'
               PROVE  /\ p.doc \in 1 .. Len(docs') /\ p.index \in 1 .. Len(docs'[p.doc].chunks)
                      /\ p = Point(p.doc, p.index)'
    OBVIOUS
  <2>1. /\ p.doc \in 1 .. Len(docs) /\ p.index \in 1 .. Len(docs[p.doc].chunks)
        /\ p = Point(p.doc, p.index)
    BY <1>1
  <2>2. p.doc \in 1 .. Len(docs') /\ docs'[p.doc].chunks = docs[p.doc].chunks
    BY <2>1 DEF Kept
  <2>3. Point(p.doc, p.index)' = Point(p.doc, p.index)
    BY <2>2 DEF Point
  <2> QED
    BY <2>1, <2>2, <2>3
<1>3. IsFiniteSet(store')
  <2>1. CASE K = {}
    <3>1. store' = store
      BY <2>1 DEF Stores, Points
    <3> QED
      BY <3>1 DEF StorePoints
  <2>2. CASE K # {}
    <3>1. Len(DocChunks) \in Nat
      <4>1. Doc \in 1 .. Len(docs)
        BY <2>2 DEF Stores
      <4>2. IsDoc(docs[Doc])
        BY <4>1 DEF DocsTyped
      <4>3. docs[Doc].chunks \in Seq(ToSet(docs[Doc].chunks))
        BY <4>2 DEF IsDoc
      <4> QED
        BY <4>3 DEF DocChunks
    <3>2. IsFiniteSet(Points(Doc, K))
      BY <3>1, PointsCounted DEF Stores
    <3> QED
      BY <3>2, FS_Union DEF Stores, StorePoints
  <2> QED
    BY <2>1, <2>2
<1>4. \A d \in Reported' : \A k \in 1 .. Len(docs'[d].chunks) : Point(d, k)' \in store'
  <2> SUFFICES ASSUME NEW d \in Reported', d \in Reported, NEW k \in 1 .. Len(docs'[d].chunks)
               PROVE  Point(d, k)' \in store'
    OBVIOUS
  <2>1. d \in 1 .. Len(docs) /\ docs'[d].chunks = docs[d].chunks
    BY DEF Reported, Kept
  <2>2. Point(d, k) \in store
    BY <2>1 DEF StorePoints
  <2>3. Point(d, k)' = Point(d, k)
    BY <2>1 DEF Point
  <2> QED
    BY <2>2, <2>3 DEF Stores
<1> QED
  BY <1>2, <1>3, <1>4 DEF StorePoints

\* What is reported stays while only points of other documents are stored.
LEMMA ReportedStays ==
  ASSUME Kept, runs' = runs, store \subseteq store', Reported' = Reported,
         \A p \in store' : p \in store \/ p.doc \notin Reported
  PROVE  ReportedNow' = ReportedNow /\ ReportedPoints' = ReportedPoints
<1>1. \A d \in Reported : d \in 1 .. Len(docs)
  BY DEF Reported, Kept
<1>2. ReportedNow' = ReportedNow
  BY <1>1 DEF ReportedNow, Kept
<1>3. ReportedPoints' = ReportedPoints
  BY <1>1 DEF ReportedPoints, Kept
<1> QED
  BY <1>2, <1>3

\* Sets of documents are finite.
LEMMA FiniteDocs ==
  ASSUME Kept, NEW S \in SUBSET DOMAIN docs
  PROVE  IsFiniteSet(S) /\ Cardinality(S) \in Nat
<1>1. S \in SUBSET (1 .. Len(docs)) /\ Len(docs) \in Nat
  BY DEF Kept
<1>2. IsFiniteSet(1 .. Len(docs))
  <2>1. 1 \in Int /\ Len(docs) \in Int
    BY <1>1
  <2> QED
    BY <2>1, FS_Interval
<1> QED
  BY <1>1, <1>2, FS_Subset, FS_CardinalityType

\* The totals stay true while only points of documents that are not reported are stored.
LEMMA TotalsStay ==
  ASSUME StorePoints, Totals, Kept, runs' = runs, store \subseteq store',
         report' \in [docs : Nat, chunks : Nat, errors : Nat],
         report \in [docs : Nat, chunks : Nat, errors : Nat],
         report'.docs = report.docs, report'.chunks = report.chunks, report'.errors >= report.errors,
         Reported' = Reported, FailedNow' = FailedNow,
         \A p \in store' : p \in store \/ p.doc \notin Reported
  PROVE  Totals'
<1>1. ReportedNow' = ReportedNow /\ ReportedPoints' = ReportedPoints
  BY ReportedStays
<1>2. Cardinality(FailedNow) \in Nat
  BY FiniteDocs DEF FailedNow
<1>3. report.errors \in Nat /\ report'.errors \in Nat
  OBVIOUS
<1> QED
  BY <1>1, <1>2, <1>3 DEF Totals

\* Steps that begin and store no document.
LEMMA QuietKeepsReport ==
  ASSUME ReportInv, UNCHANGED <<docs, at, pending, store, runs>>,
         report' = report \/ report' = [report EXCEPT !.errors = @ + 1],
         pc \notin {"upsert", "ended"}, pc' \notin {"embed", "upsert"}
  PROVE  ReportInv'
<1>1. /\ report' \in [docs : Nat, chunks : Nat, errors : Nat]
      /\ report'.docs = report.docs /\ report'.chunks = report.chunks /\ report'.errors >= report.errors
  BY DEF ReportInv, DocsTyped
<1>2. DocsTyped'
  BY <1>1 DEF ReportInv, DocsTyped
<1>3. Kept
  BY DocsKept DEF ReportInv
<1>4. Reported' = Reported /\ FailedNow' = FailedNow /\ store' = store /\ Point(0, 0) = Point(0, 0)
  BY DEF Reported, FailedNow
<1>5. StorePoints'
  BY <1>4 DEF ReportInv, StorePoints, Point, Reported
<1>6. Totals'
  BY <1>1, <1>3, <1>4, TotalsStay DEF ReportInv, DocsTyped
<1>7. BatchInv'
  BY DEF ReportInv, BatchInv
<1> QED
  BY <1>2, <1>5, <1>6, <1>7 DEF ReportInv

\* A step that changes nothing.
LEMMA StutterKeepsReport ==
  ASSUME ReportInv, UNCHANGED vars
  PROVE  ReportInv'
BY DEF ReportInv, vars, docVars, walkVars, DocsTyped, StorePoints, BatchInv, Storing, Totals, Point,
     Reported, ReportedNow, ReportedPoints, FailedNow, Doc, DocChunks

\* A run begins with totals of nothing, and no document is of it yet.
LEMMA StartKeepsReport ==
  ASSUME IngestTypes, ReportInv, Start
  PROVE  ReportInv'
<1>1. /\ docs' = docs /\ store' = store /\ runs' = runs + 1 /\ report' = NoReport /\ pending' = {}
      /\ pc' = "connect" /\ runs \in Nat
  BY DEF Start, IngestTypes
<1>2. /\ report'.docs = 0 /\ report'.chunks = 0 /\ report'.errors = 0
      /\ report' \in [docs : Nat, chunks : Nat, errors : Nat]
  BY <1>1 DEF NoReport
<1>3. \A d \in 1 .. Len(docs) : IsDoc(docs[d]) /\ docs[d].run <= runs /\ docs[d].run \in Nat
  BY DEF ReportInv, DocsTyped, IsDoc
<1>4. DocsTyped'
  <2>1. \A d \in 1 .. Len(docs) : docs[d].run <= runs + 1
    BY <1>1, <1>3
  <2> QED
    BY <1>1, <1>2, <2>1 DEF ReportInv, DocsTyped, IsDoc
<1>5. StorePoints'
  BY <1>1 DEF ReportInv, StorePoints, Point, Reported
<1>6. BatchInv'
  BY <1>1 DEF BatchInv
<1>7. \A d \in DOMAIN docs : docs[d].run # runs + 1
  <2>1. DOMAIN docs = 1 .. Len(docs)
    BY DEF ReportInv, DocsTyped
  <2> QED
    BY <1>1, <1>3, <2>1
<1>8. ReportedNow' = {} /\ FailedNow' = {} /\ ReportedPoints' = {}
  BY <1>1, <1>7 DEF ReportedNow, FailedNow, ReportedPoints, Reported
<1>9. Totals'
  BY <1>2, <1>8, FS_EmptySet DEF Totals
<1> QED
  BY <1>4, <1>5, <1>6, <1>9 DEF ReportInv

\* What a new document is.
LEMMA NewDocIs ==
  ASSUME IngestTypes, Reading, NEW chunks, chunks \in Seq(ToSet(chunks)), NEW s \in {"open", "stored"}
  PROVE  /\ IsDoc(NewDoc(chunks, s)) /\ NewDoc(chunks, s).run = runs
         /\ NewDoc(chunks, s).chunks = chunks /\ NewDoc(chunks, s).status = s
         /\ NewDoc(chunks, s).run <= runs
<1>1. Source \in DOMAIN Text /\ opts \in Options /\ runs \in Nat
  BY DEF IngestTypes, Reading, Source
<1>2. /\ NewDoc(chunks, s).source = Source /\ NewDoc(chunks, s).run = runs
      /\ NewDoc(chunks, s).opts = opts /\ NewDoc(chunks, s).chunks = chunks
      /\ NewDoc(chunks, s).status = s
  BY DEF NewDoc
<1>3. NewDoc(chunks, s) = [source |-> Source, run |-> runs, opts |-> opts, chunks |-> chunks, status |-> s]
  BY DEF NewDoc
<1>4. IsDoc(NewDoc(chunks, s))
  <2> DEFINE r == NewDoc(chunks, s)
  <2>1. r = [source |-> r.source, run |-> r.run, opts |-> r.opts, chunks |-> r.chunks, status |-> r.status]
    BY <1>2, <1>3
  <2>2. /\ r.source \in DOMAIN Text /\ r.opts \in Options /\ r.run \in Nat
        /\ r.chunks \in Seq(ToSet(r.chunks)) /\ r.status \in {"open", "stored", "failed"}
    BY <1>1, <1>2
  <2> HIDE DEF r
  <2>3. IsDoc(r)
    BY <2>1, <2>2 DEF IsDoc
  <2> QED
    BY <2>3 DEF r
<1> QED
  BY <1>1, <1>2, <1>4

\* A document without chunks is counted at once.
LEMMA NoChunksKeepsReport ==
  ASSUME IngestTypes, ReportInv, NoChunks
  PROVE  ReportInv'
<1> DEFINE r == NewDoc(<<>>, "stored")
           n == Len(docs) + 1
<1>1. /\ Reading /\ docs' = Append(docs, r) /\ report' = [report EXCEPT !["docs"] = @ + 1]
      /\ UNCHANGED <<pc, at, pending, store, runs>> /\ pc = "documents"
  BY DEF NoChunks, Count, Reading
<1>2. <<>> \in Seq(ToSet(<<>>))
  OBVIOUS
<1>3. IsDoc(r) /\ r.run = runs /\ r.run <= runs /\ r.chunks = <<>> /\ r.status = "stored"
  BY <1>1, <1>2, NewDocIs
<1>4. /\ report' \in [docs : Nat, chunks : Nat, errors : Nat]
      /\ report'.docs = report.docs + 1 /\ report'.chunks = report.chunks /\ report'.errors = report.errors
  BY <1>1 DEF ReportInv, DocsTyped
<1> HIDE DEF r
<1>5. DocsTyped' /\ Added(r)
  BY <1>1, <1>3, <1>4, DocAdded DEF ReportInv
<1>6. Kept
  BY <1>5, DocsKept DEF ReportInv
<1>7. /\ n \notin DOMAIN docs /\ DOMAIN docs' = DOMAIN docs \cup {n} /\ docs'[n] = r
      /\ \A d \in DOMAIN docs : docs'[d] = docs[d]
  BY <1>5 DEF Added
<1> HIDE DEF n
<1>8. Reported' = Reported \cup {n}
  BY <1>3, <1>7 DEF Reported
<1>9. StorePoints'
  <2>1. Stores({})
    BY <1>1 DEF Stores, Points
  <2>2. Len(docs'[n].chunks) = 0
    BY <1>3, <1>7
  <2>3. \A d \in Reported' : d \in Reported \/ \A k \in 1 .. Len(docs'[d].chunks) : Point(d, k)' \in store'
    BY <1>8, <2>2
  <2> QED
    BY <1>6, <2>1, <2>3, StoreGrows DEF ReportInv
<1>10. ReportedNow' = ReportedNow \cup {n} /\ n \notin ReportedNow /\ IsFiniteSet(ReportedNow)
  <2>1. ReportedNow' = ReportedNow \cup {n} /\ n \notin ReportedNow
    BY <1>1, <1>3, <1>7, <1>8 DEF ReportedNow, Reported
  <2>2. IsFiniteSet(ReportedNow)
    BY <1>6, FiniteDocs DEF ReportedNow, Reported
  <2> QED
    BY <2>1, <2>2
<1>11. FailedNow' = FailedNow
  BY <1>1, <1>3, <1>7 DEF FailedNow
<1>12. ReportedPoints' = ReportedPoints
  <2>1. \A p \in store : p.doc \in DOMAIN docs
    BY <1>6 DEF ReportInv, StorePoints, Kept
  <2> QED
    BY <1>1, <1>7, <1>8, <2>1 DEF ReportedPoints
<1>13. Totals'
  <2>1. Cardinality(ReportedNow') = Cardinality(ReportedNow) + 1
    BY <1>10, FS_AddElement
  <2> QED
    BY <1>4, <1>11, <1>12, <2>1 DEF ReportInv, Totals
<1>14. BatchInv'
  BY <1>1 DEF ReportInv, BatchInv
<1> QED
  BY <1>5, <1>9, <1>13, <1>14 DEF ReportInv

\* A document begun is open and has chunks.
LEMMA BeginKeepsReport ==
  ASSUME IngestTypes, ReportInv, BeginDocument
  PROVE  ReportInv'
<1> DEFINE chunks == chunk_text(Text[Source], opts)
<1>1. /\ Reading /\ chunks # <<>> /\ pc = "documents" /\ at' = 0
      /\ pc' = IF opts.batch = 0 THEN "ended" ELSE "embed"
      /\ UNCHANGED <<opts, pending, report, store, runs>>
  BY DEF BeginDocument, Reading
<1>2. PICK failing : docs' = Append(docs, NewDoc([i \in DOMAIN chunks |->
                                contextualize(chunks[i], i \notin failing)], "open"))
  BY Zenon DEF BeginDocument
<1>3. Source \in DOMAIN Text /\ opts \in Options /\ runs \in Nat
  BY <1>1 DEF IngestTypes, Reading, Source
<1>4. IsList(chunks)
  BY <1>3, ChunksAreList
<1> DEFINE cs == [i \in DOMAIN chunks |-> contextualize(chunks[i], i \notin failing)]
           r == NewDoc(cs, "open")
<1> HIDE DEF chunks
<1>5. PICK m \in Nat : chunks = [i \in 1 .. m |-> chunks[i]]
  BY <1>4, Zenon DEF IsList
<1>6. cs \in Seq(ToSet(cs)) /\ Len(cs) = m /\ m > 0
  <2>1. DOMAIN chunks = 1 .. m
    BY <1>5
  <2>2. \A i \in 1 .. m : cs[i] \in ToSet(cs)
    BY <2>1 DEF ToSet
  <2>3. cs = [i \in 1 .. m |-> cs[i]]
    BY <2>1
  <2>4. m # 0
    <3> SUFFICES ASSUME m = 0 PROVE FALSE
      OBVIOUS
    <3>1. chunks = <<>>
      BY <1>5
    <3> QED
      BY <1>1, <3>1
  <2> HIDE DEF cs
  <2> QED
    BY <2>2, <2>3, <2>4
<1> HIDE DEF cs
<1>7. IsDoc(r) /\ r.run = runs /\ r.run <= runs /\ r.chunks = cs /\ r.status = "open"
  BY <1>1, <1>6, NewDocIs
<1>8. docs' = Append(docs, r)
  BY <1>2 DEF cs
<1> HIDE DEF r
<1>9. DocsTyped' /\ Added(r)
  BY <1>1, <1>7, <1>8, DocAdded DEF ReportInv, DocsTyped
<1>10. Kept
  BY <1>9, DocsKept DEF ReportInv
<1>11. /\ DOMAIN docs' = DOMAIN docs \cup {Doc'} /\ docs'[Doc'] = r /\ Doc' >= 1
       /\ \A d \in DOMAIN docs : docs'[d] = docs[d]
  BY <1>9 DEF Added, Doc
<1>12. Reported' = Reported /\ FailedNow' = FailedNow
  <2>1. Doc' \notin DOMAIN docs
    BY <1>9 DEF Added, Doc
  <2> QED
    BY <1>1, <1>7, <1>11, <2>1 DEF Reported, FailedNow
<1>13. StorePoints'
  <2>1. Stores({})
    BY <1>1 DEF Stores, Points
  <2> QED
    BY <1>10, <1>12, <2>1, StoreGrows DEF ReportInv
<1>14. Totals'
  <2>1. report \in [docs : Nat, chunks : Nat, errors : Nat] /\ report.errors \in Nat /\ report' = report
    BY <1>1 DEF ReportInv, DocsTyped
  <2> QED
    BY <1>1, <1>10, <1>12, <2>1, TotalsStay DEF ReportInv
<1>15. BatchInv'
  <2>1. pending' = {}
    BY <1>1 DEF ReportInv, BatchInv
  <2>2. pc' = "embed" => Storing'
    <3>1. opts.batch \in Nat
      BY <1>3, OptionsAre
    <3>2. DocChunks' = cs
      BY <1>7, <1>11 DEF DocChunks
    <3> QED
      BY <1>1, <1>6, <1>7, <1>11, <3>1, <3>2 DEF Storing
  <2> QED
    BY <1>1, <2>1, <2>2 DEF BatchInv
<1> QED
  BY <1>9, <1>13, <1>14, <1>15 DEF ReportInv

\* Where the batch ends.
Upto == Least(at + opts.batch, Len(DocChunks))

\* The chunks of a batch.
LEMMA BatchIs ==
  ASSUME IngestTypes, DocsTyped, Storing
  PROVE  /\ Doc \in 1 .. Len(docs) /\ Len(DocChunks) \in Nat /\ Upto \in Nat
         /\ at < Upto /\ Upto <= Len(DocChunks) /\ at + 1 .. Upto \subseteq 1 .. Len(DocChunks)
         /\ Batch \in Seq(ToSet(DocChunks)) /\ DOMAIN Batch = 1 .. Upto - at
         /\ \A i \in 1 .. Upto - at : Batch[i] = DocChunks[at + i]
         /\ Cardinality(at + 1 .. Upto) = Upto - at
<1>1. Doc \in 1 .. Len(docs)
  BY DEF DocsTyped, Doc, Storing
<1>2. DocChunks \in Seq(ToSet(DocChunks))
  BY <1>1 DEF DocsTyped, IsDoc, DocChunks
<1>3. opts.batch \in Nat /\ opts.batch >= 1 /\ at \in Nat /\ at < Len(DocChunks) /\ Len(DocChunks) \in Nat
  <2>1. opts.batch \in Nat
    BY OptionsAre DEF IngestTypes
  <2> QED
    BY <1>2, <2>1 DEF Storing
<1>4. Upto \in Nat /\ at < Upto /\ Upto <= Len(DocChunks)
  <2>1. \A a, b \in Nat : Least(a, b) \in {a, b} /\ Least(a, b) <= b
    BY DEF Least
  <2>2. at + opts.batch \in Nat /\ at < at + opts.batch
    BY <1>3
  <2>3. Upto \in {at + opts.batch, Len(DocChunks)} /\ Upto <= Len(DocChunks)
    BY <1>3, <2>1, <2>2 DEF Upto
  <2> QED
    BY <1>3, <2>2, <2>3
<1>5. Batch = SubSeq(DocChunks, at + 1, Upto)
  BY DEF Batch, Upto
<1> DEFINE T == ToSet(DocChunks)
<1>6. /\ Batch \in Seq(T) /\ Len(Batch) = Upto - at /\ DOMAIN Batch = 1 .. Upto - at
      /\ \A i \in 1 .. Upto - at : Batch[i] = DocChunks[at + i]
  <2>1. \A s \in Seq(T) : \A a, b \in Nat : a < b /\ b <= Len(s) =>
          /\ SubSeq(s, a + 1, b) \in Seq(T) /\ Len(SubSeq(s, a + 1, b)) = b - a
          /\ DOMAIN SubSeq(s, a + 1, b) = 1 .. b - a
          /\ \A i \in 1 .. b - a : SubSeq(s, a + 1, b)[i] = s[a + i]
    <3> HIDE DEF T
    <3> SUFFICES ASSUME NEW s \in Seq(T), NEW a \in Nat, NEW b \in Nat, a < b, b <= Len(s)
                 PROVE  /\ SubSeq(s, a + 1, b) \in Seq(T) /\ Len(SubSeq(s, a + 1, b)) = b - a
                        /\ DOMAIN SubSeq(s, a + 1, b) = 1 .. b - a
                        /\ \A i \in 1 .. b - a : SubSeq(s, a + 1, b)[i] = s[a + i]
      OBVIOUS
    <3>1. SubSeq(s, a + 1, b) \in Seq(T) /\ Len(SubSeq(s, a + 1, b)) = b - a
      OBVIOUS
    <3>2. \A i \in 1 .. b - a : SubSeq(s, a + 1, b)[i] = s[a + i]
      OBVIOUS
    <3> QED
      BY <3>1, <3>2
  <2> HIDE DEF T
  <2> QED
    BY <1>2, <1>3, <1>4, <1>5, <2>1 DEF T
<1>7. Cardinality(at + 1 .. Upto) = Upto - at
  <2>1. at + 1 \in Int /\ Upto \in Int /\ (IF at + 1 > Upto THEN 0 ELSE Upto - (at + 1) + 1) = Upto - at
    BY <1>3, <1>4
  <2> QED
    BY <2>1, FS_Interval
<1> QED
  BY <1>1, <1>3, <1>4, <1>6, <1>7

\* A batch comes back embedded in order.
LEMMA EmbedKeepsReport ==
  ASSUME IngestTypes, ReportInv, EmbedBatch
  PROVE  ReportInv'
<1>1. /\ pc = "embed" /\ pc' = "upsert" /\ UNCHANGED <<opts, docs, at, report, store, runs>>
      /\ Storing
  BY DEF EmbedBatch, ReportInv, BatchInv
<1>2. PICK data \in Replies(Batch, DOMAIN Batch) : pending' = Zipped(Batch, embed(data))
  BY DEF EmbedBatch
<1>3. /\ Upto \in Nat /\ at \in Nat
      /\ Batch \in Seq(ToSet(DocChunks)) /\ DOMAIN Batch = 1 .. Upto - at
      /\ \A i \in 1 .. Upto - at : Batch[i] = DocChunks[at + i]
  BY <1>1, BatchIs DEF ReportInv, Storing
<1>4. embed(data) = Batch
  BY <1>2, <1>3, EmbeddedInOrder
<1>5. Zipped(Batch, Batch) = {Point(Doc, k) : k \in at + 1 .. Upto}
  <2>1. Zipped(Batch, Batch) = {Point(Doc, at + i) : i \in 1 .. Upto - at}
    BY <1>3 DEF Zipped, Point, DocChunks
  <2>2. \A i \in 1 .. Upto - at : at + i \in at + 1 .. Upto
    BY <1>3
  <2>3. \A k \in at + 1 .. Upto : k - at \in 1 .. Upto - at /\ at + (k - at) = k
    BY <1>3
  <2>4. \A k \in at + 1 .. Upto : Point(Doc, k) \in {Point(Doc, at + i) : i \in 1 .. Upto - at}
    BY <2>3
  <2> QED
    BY <2>1, <2>2, <2>4
<1>6. DocsTyped' /\ StorePoints' /\ Totals'
  BY <1>1 DEF ReportInv, DocsTyped, StorePoints, Totals, Point, Reported, ReportedNow, ReportedPoints,
     FailedNow
<1>7. BatchInv'
  <2>1. Storing'
    BY <1>1 DEF Storing, Doc, DocChunks, Point
  <2>2. pending' = {Point(Doc, k) : k \in at + 1 .. Least(at + opts.batch, Len(DocChunks))}
    BY <1>2, <1>4, <1>5 DEF Upto
  <2>3. pending' = {Point(Doc, k)' : k \in at' + 1 .. Least(at' + opts'.batch, Len(DocChunks)')}
    BY <1>1, <2>2 DEF Point, Doc, DocChunks
  <2> QED
    BY <1>1, <2>1, <2>3 DEF BatchInv, Doc
<1> QED
  BY <1>6, <1>7 DEF ReportInv

\* What the points still to be stored are.
LEMMA PendingIs ==
  ASSUME IngestTypes, ReportInv, pc # "ended"
  PROVE  \/ pending = {}
         \/ /\ pc = "upsert" /\ Storing /\ pending = Points(Doc, at + 1 .. Upto)
            /\ at + 1 .. Upto \subseteq 1 .. Len(DocChunks) /\ Doc \in 1 .. Len(docs)
            /\ Doc \notin Reported
<1>1. pc # "upsert" => pending = {}
  BY DEF ReportInv, BatchInv
<1>2. ASSUME pc = "upsert"
      PROVE  /\ Storing /\ pending = Points(Doc, at + 1 .. Upto)
             /\ at + 1 .. Upto \subseteq 1 .. Len(DocChunks) /\ Doc \in 1 .. Len(docs)
             /\ Doc \notin Reported
  <2>1. Storing /\ pending = Points(Doc, at + 1 .. Upto)
    BY <1>2 DEF ReportInv, BatchInv, Points, Upto
  <2>2. at + 1 .. Upto \subseteq 1 .. Len(DocChunks) /\ Doc \in 1 .. Len(docs)
    BY <2>1, BatchIs DEF ReportInv
  <2>3. Doc \notin Reported
    BY <2>1 DEF Storing, Reported
  <2> QED
    BY <2>1, <2>2, <2>3
<1> QED
  BY <1>1, <1>2

\* Whether or not they are stored, they are of a document that is not reported.
LEMMA PendingStored ==
  ASSUME IngestTypes, ReportInv, pc # "ended", store' \in {store, store \cup pending}
  PROVE  /\ store \subseteq store' /\ \E K : Stores(K)
         /\ \A p \in store' : p \in store \/ p.doc \notin Reported
<1>1. Stores({}) <=> store' = store
  BY DEF Stores, Points
<1>2. CASE store' = store
  BY <1>1, <1>2
<1>3. CASE store' = store \cup pending /\ store' # store
  <2>1. /\ Storing /\ pending = Points(Doc, at + 1 .. Upto)
        /\ at + 1 .. Upto \subseteq 1 .. Len(DocChunks) /\ Doc \in 1 .. Len(docs)
        /\ Doc \notin Reported
    BY <1>3, PendingIs
  <2>2. Stores(at + 1 .. Upto)
    BY <1>3, <2>1 DEF Stores
  <2>3. \A p \in pending : p.doc = Doc
    BY <2>1 DEF Points, Point
  <2> QED
    BY <1>3, <2>1, <2>2, <2>3
<1> QED
  BY <1>2, <1>3

\* A kill stores what is pending or not.
LEMMA KillKeepsReport ==
  ASSUME IngestTypes, ReportInv, Kill
  PROVE  ReportInv'
<1>1. /\ pc # "ended" /\ pc' = "ended" /\ store' \in {store, store \cup pending}
      /\ UNCHANGED <<docs, report, runs>>
  BY DEF Kill, docVars
<1>2. DocsTyped'
  BY <1>1 DEF ReportInv, DocsTyped
<1>3. Kept
  BY <1>1, DocsKept DEF ReportInv
<1>4. Reported' = Reported /\ FailedNow' = FailedNow
  BY <1>1 DEF Reported, FailedNow
<1>5. /\ store \subseteq store' /\ \E K : Stores(K)
      /\ \A p \in store' : p \in store \/ p.doc \notin Reported
  BY <1>1, PendingStored
<1>6. StorePoints'
  <2>1. PICK K : Stores(K)
    BY <1>5
  <2> QED
    BY <1>3, <1>4, <2>1, StoreGrows DEF ReportInv
<1>7. Totals'
  <2>1. report \in [docs : Nat, chunks : Nat, errors : Nat] /\ report.errors \in Nat /\ report' = report
    BY <1>1 DEF ReportInv, DocsTyped
  <2> QED
    BY <1>1, <1>3, <1>4, <1>5, <2>1, TotalsStay DEF ReportInv
<1>8. BatchInv'
  BY <1>1 DEF BatchInv
<1> QED
  BY <1>2, <1>6, <1>7, <1>8 DEF ReportInv

\* A document that fails is counted, and whatever is stored of it is not reported.
LEMMA FailureKeepsReport ==
  ASSUME IngestTypes, ReportInv, EmbedFails \/ UpsertFails
  PROVE  ReportInv'
<1>1. /\ pc \in {"embed", "upsert"} /\ pc' = "documents" /\ docs' = [docs EXCEPT ![Doc].status = "failed"]
      /\ report' = [report EXCEPT !["errors"] = @ + 1] /\ UNCHANGED <<opts, runs>>
      /\ store' \in {store, store \cup pending}
  BY DEF EmbedFails, UpsertFails, Conclude, Count
<1>2. pending' = {}
  BY DEF EmbedFails, UpsertFails, ReportInv, BatchInv
<1>3. Storing /\ Doc >= 1
  BY <1>1 DEF ReportInv, BatchInv, Storing
<1>4. /\ report' \in [docs : Nat, chunks : Nat, errors : Nat] /\ report.errors \in Nat
      /\ report'.docs = report.docs /\ report'.chunks = report.chunks /\ report'.errors = report.errors + 1
  BY <1>1 DEF ReportInv, DocsTyped
<1>5. DocsTyped' /\ Ended("failed")
  BY <1>1, <1>3, <1>4, DocEnded DEF ReportInv
<1>6. Kept
  BY <1>5, DocsKept DEF ReportInv
<1>7. Doc \in DOMAIN docs /\ DOMAIN docs' = DOMAIN docs /\ docs[Doc].status = "open" /\ docs[Doc].run = runs
  <2>1. Doc \in 1 .. Len(docs)
    <3>1. Len(docs) \in Nat
      BY <1>5 DEF Ended
    <3> QED
      BY <1>3, <3>1 DEF Doc
  <2> QED
    BY <1>3, <1>5, <2>1 DEF Ended, Storing
<1>8. Reported' = Reported
  BY <1>5, <1>7 DEF Reported, Ended
<1>9. FailedNow' = FailedNow \cup {Doc} /\ Doc \notin FailedNow
  BY <1>1, <1>5, <1>7 DEF FailedNow, Ended
<1>10. /\ store \subseteq store' /\ \E K : Stores(K)
       /\ \A p \in store' : p \in store \/ p.doc \notin Reported
  BY <1>1, PendingStored
<1>11. StorePoints'
  <2>1. PICK K : Stores(K)
    BY <1>10
  <2> QED
    BY <1>6, <1>8, <2>1, StoreGrows DEF ReportInv
<1>12. Totals'
  <2>1. ReportedNow' = ReportedNow /\ ReportedPoints' = ReportedPoints
    BY <1>1, <1>6, <1>8, <1>10, ReportedStays
  <2>2. IsFiniteSet(FailedNow) /\ Cardinality(FailedNow) \in Nat
    BY <1>6, FiniteDocs DEF FailedNow
  <2>3. Cardinality(FailedNow') = Cardinality(FailedNow) + 1
    BY <1>9, <2>2, FS_AddElement
  <2> QED
    BY <1>4, <2>1, <2>2, <2>3 DEF ReportInv, Totals
<1>13. BatchInv'
  BY <1>1, <1>2 DEF BatchInv
<1> QED
  BY <1>5, <1>11, <1>12, <1>13 DEF ReportInv

\* A batch is stored, and with the last one the document.
LEMMA UpsertKeepsReport ==
  ASSUME IngestTypes, ReportInv, upsert_points
  PROVE  ReportInv'
<1>1. /\ pc = "upsert" /\ store' = store \cup pending /\ at' = at + Cardinality(pending) /\ pending' = {}
      /\ UNCHANGED <<opts, runs>>
  BY DEF upsert_points
<1>2. /\ Storing /\ pending = Points(Doc, at + 1 .. Upto) /\ Doc \notin Reported
  <2>1. pc = "upsert" => Storing /\ pending = Points(Doc, at + 1 .. Upto)
    BY DEF ReportInv, BatchInv, Points, Upto
  <2> QED
    BY <1>1, <2>1 DEF Storing, Reported
<1>3. /\ Doc \in 1 .. Len(docs) /\ Len(DocChunks) \in Nat /\ Upto \in Nat /\ at \in Nat
      /\ at < Upto /\ Upto <= Len(DocChunks) /\ at + 1 .. Upto \subseteq 1 .. Len(DocChunks)
      /\ Cardinality(at + 1 .. Upto) = Upto - at
  BY <1>2, BatchIs DEF ReportInv, Storing
<1>4. Cardinality(pending) = Upto - at
  <2> DEFINE n == Len(DocChunks)
             K == at + 1 .. Upto
  <2>1. n \in Nat /\ K \in SUBSET (1 .. n)
    BY <1>3
  <2> HIDE DEF n, K
  <2>2. Cardinality(Points(Doc, K)) = Cardinality(K)
    BY <2>1, PointsCounted
  <2> QED
    BY <1>2, <1>3, <2>2 DEF K
<1>5. at' = Upto
  BY <1>1, <1>3, <1>4
<1>6. Stores(at + 1 .. Upto) /\ store \subseteq store'
  BY <1>1, <1>2, <1>3 DEF Stores
<1>7. \A k \in 1 .. Upto : Point(Doc, k) \in store'
  <2>1. \A k \in 1 .. Upto : k \in 1 .. at \/ k \in at + 1 .. Upto
    BY <1>3
  <2> QED
    BY <1>2, <1>6, <2>1 DEF Storing, Stores, Points
<1>8. CASE ~LastBatch
  <2>1. UNCHANGED <<docs, report>> /\ pc' = "embed"
    BY <1>8 DEF upsert_points
  <2>2. Upto # Len(DocChunks)
    BY <1>3, <1>4, <1>8 DEF LastBatch
  <2>3. DocsTyped'
    BY <1>1, <2>1 DEF ReportInv, DocsTyped
  <2>4. Kept
    BY <2>1, DocsKept DEF ReportInv
  <2>5. Reported' = Reported /\ FailedNow' = FailedNow
    BY <1>1, <2>1 DEF Reported, FailedNow
  <2>6. StorePoints'
    BY <1>6, <2>4, <2>5, StoreGrows DEF ReportInv
  <2>7. Totals'
    <3>1. report \in [docs : Nat, chunks : Nat, errors : Nat] /\ report.errors \in Nat /\ report' = report
      BY <2>1 DEF ReportInv, DocsTyped
    <3>2. \A p \in store' : p \in store \/ p.doc \notin Reported
      BY <1>1, <1>2 DEF Points, Point
    <3> QED
      BY <1>1, <1>6, <2>4, <2>5, <3>1, <3>2, TotalsStay DEF ReportInv
  <2>8. BatchInv'
    <3>1. Doc' = Doc /\ DocChunks' = DocChunks
      BY <2>1 DEF Doc, DocChunks
    <3>2. \A k : Point(Doc, k)' = Point(Doc, k)
      BY <2>1 DEF Point, Doc
    <3>3. Storing'
      BY <1>1, <1>2, <1>3, <1>5, <1>7, <2>1, <2>2, <3>1, <3>2 DEF Storing
    <3> QED
      BY <1>1, <2>1, <3>3 DEF BatchInv
  <2> QED
    BY <2>3, <2>6, <2>7, <2>8 DEF ReportInv
<1>9. CASE LastBatch
  <2> DEFINE n == Len(DocChunks)
  <2>1. /\ docs' = [docs EXCEPT ![Doc].status = "stored"] /\ pc' = "documents"
        /\ report' = [report EXCEPT !.docs = @ + 1, !.chunks = @ + n]
    BY <1>9 DEF upsert_points, Conclude
  <2>2. Upto = n /\ n \in Nat
    BY <1>3, <1>4, <1>9 DEF LastBatch
  <2> HIDE DEF n
  <2>3. /\ report' \in [docs : Nat, chunks : Nat, errors : Nat]
        /\ report'.docs = report.docs + 1 /\ report'.chunks = report.chunks + n
        /\ report'.errors = report.errors
    <3>1. report \in [docs : Nat, chunks : Nat, errors : Nat]
      BY DEF ReportInv, DocsTyped
    <3>2. report' = [report EXCEPT !.docs = report.docs + 1, !.chunks = report.chunks + n]
      BY <2>1, <3>1
    <3>3. /\ report.docs + 1 \in Nat /\ report.chunks + n \in Nat /\ report.errors \in Nat
          /\ report = [docs |-> report.docs, chunks |-> report.chunks, errors |-> report.errors]
      BY <2>2, <3>1
    <3>4. report' = [docs |-> report.docs + 1, chunks |-> report.chunks + n, errors |-> report.errors]
      BY <3>2, <3>3
    <3> QED
      BY <3>3, <3>4
  <2>4. DocsTyped' /\ Ended("stored")
    BY <1>1, <1>2, <2>1, <2>3, DocEnded DEF ReportInv, Storing
  <2>5. Kept
    BY <2>4, DocsKept DEF ReportInv
  <2>6. Doc \in DOMAIN docs /\ DOMAIN docs' = DOMAIN docs /\ docs[Doc].status = "open" /\ docs[Doc].run = runs
    BY <1>2, <1>3, <2>4 DEF Ended, Storing
  <2>7. Reported' = Reported \cup {Doc}
    BY <2>4, <2>6 DEF Reported, Ended
  <2>8. FailedNow' = FailedNow
    BY <1>1, <2>4, <2>6 DEF FailedNow, Ended
  <2>9. \A k \in 1 .. Len(docs'[Doc].chunks) : Point(Doc, k)' \in store'
    <3>1. Len(docs'[Doc].chunks) = Upto
      BY <2>2, <2>4 DEF Ended, DocChunks, n
    <3>2. \A k : docs'[Doc].chunks[k] = docs[Doc].chunks[k]
      BY <2>4 DEF Ended
    <3>3. Doc' = Doc
      BY <2>4 DEF Ended, Doc
    <3>4. \A k : Point(Doc, k)' = Point(Doc, k)
      BY <3>2, <3>3 DEF Point
    <3> QED
      BY <1>7, <3>1, <3>4
  <2>10. StorePoints'
    <3>1. Doc' = Doc
      BY <2>4 DEF Ended, Doc
    <3>2. \A d \in Reported' : d \in Reported \/ \A k \in 1 .. Len(docs'[d].chunks) : Point(d, k)' \in store'
      <4> SUFFICES ASSUME NEW d \in Reported', d \notin Reported, NEW k \in 1 .. Len(docs'[d].chunks)
                   PROVE  Point(d, k)' \in store'
        OBVIOUS
      <4>1. d = Doc
        BY <2>7
      <4>2. Point(Doc, k)' \in store'
        BY <2>9, <4>1
      <4> QED
        BY <3>1, <4>1, <4>2 DEF Point
    <3> QED
      BY <1>6, <2>5, <3>2, StoreGrows DEF ReportInv
  <2>11. ReportedNow' = ReportedNow \cup {Doc} /\ Doc \notin ReportedNow
    BY <1>1, <1>2, <2>4, <2>6, <2>7 DEF ReportedNow, Ended, Reported
  <2>12. Cardinality(ReportedNow') = Cardinality(ReportedNow) + 1
    <3>1. IsFiniteSet(ReportedNow)
      BY <2>5, FiniteDocs DEF ReportedNow, Reported
    <3> QED
      BY <2>11, <3>1, FS_AddElement
  <2> DEFINE new == Points(Doc, 1 .. n)
  <2>13. \A p \in store' : p.doc = Doc => p \in new
    <3> SUFFICES ASSUME NEW p \in store', p.doc = Doc PROVE p \in new
      OBVIOUS
    <3>1. CASE p \in store
      <4>1. p.index \in 1 .. n /\ p = Point(Doc, p.index)
        BY <3>1 DEF ReportInv, StorePoints, n, DocChunks
      <4> QED
        BY <4>1 DEF Points
    <3>2. CASE p \in Points(Doc, at + 1 .. Upto)
      <4>1. at + 1 .. Upto \subseteq 1 .. n
        BY <1>3 DEF n
      <4> QED
        BY <3>2, <4>1 DEF Points
    <3> QED
      BY <1>1, <1>2, <3>1, <3>2
  <2>14. new \subseteq store' /\ \A p \in new : p.doc = Doc
    BY <1>7, <2>2 DEF Points, Point
  <2> HIDE DEF new
  <2>15. ReportedPoints' = ReportedPoints \cup new /\ ReportedPoints \cap new = {}
    <3>1. \A d \in DOMAIN docs : docs'[d].run = docs[d].run
      BY <2>5 DEF Kept
    <3>2. Reported \subseteq DOMAIN docs
      BY DEF Reported
    <3>3. \A p \in store' : p \in store \/ p.doc = Doc
      BY <1>1, <1>2 DEF Points, Point
    <3>4. ReportedPoints' = {p \in store' : p.doc \in Reported' /\ docs'[p.doc].run = runs'}
      BY DEF ReportedPoints
    <3>5. \A p \in ReportedPoints' : p \in ReportedPoints \cup new
      BY <1>1, <2>7, <2>13, <3>1, <3>2, <3>3, <3>4 DEF ReportedPoints
    <3>6. \A p \in ReportedPoints \cup new : p \in ReportedPoints'
      BY <1>1, <1>6, <2>6, <2>7, <2>14, <3>1, <3>2, <3>4 DEF ReportedPoints
    <3>7. \A p \in new : p \notin ReportedPoints
      BY <1>2, <2>14 DEF ReportedPoints
    <3> QED
      BY <3>5, <3>6, <3>7
  <2>16. Cardinality(ReportedPoints') = Cardinality(ReportedPoints) + n
    <3>1. IsFiniteSet(new) /\ Cardinality(new) = n
      <4>1. (1 .. n) \in SUBSET (1 .. n)
        OBVIOUS
      <4> QED
        BY <2>2, <4>1, PointsCounted DEF new
    <3>2. IsFiniteSet(ReportedPoints)
      <4>1. ReportedPoints \in SUBSET store /\ IsFiniteSet(store)
        BY DEF ReportedPoints, ReportInv, StorePoints
      <4> QED
        BY <4>1, FS_Subset
    <3>3. Cardinality(ReportedPoints \cup new)
            = Cardinality(ReportedPoints) + Cardinality(new) - Cardinality(ReportedPoints \cap new)
      BY <3>1, <3>2, FS_Union
    <3>4. Cardinality(ReportedPoints \cap new) = 0
      BY <2>15, FS_EmptySet
    <3>5. Cardinality(ReportedPoints) \in Nat
      BY <3>2, FS_CardinalityType
    <3> QED
      BY <2>2, <2>15, <3>1, <3>3, <3>4, <3>5
  <2>17. Totals'
    BY <2>3, <2>8, <2>12, <2>16 DEF ReportInv, Totals
  <2>18. BatchInv'
    BY <1>1, <2>1 DEF BatchInv
  <2> QED
    BY <2>4, <2>10, <2>17, <2>18 DEF ReportInv
<1> QED
  BY <1>8, <1>9

\* Both hold in every state.
LEMMA ReportKeeps == Spec => [](IngestTypes /\ ReportInv)
<1>1. Init => ReportInv
  <2> SUFFICES ASSUME Init PROVE ReportInv
    OBVIOUS
  <2>1. /\ pc = "ended" /\ docs = <<>> /\ store = {} /\ pending = {} /\ runs = 0
        /\ report = [docs |-> 0, chunks |-> 0, errors |-> 0]
    BY DEF Init, NoReport
  <2>2. Len(docs) = 0 /\ DOMAIN docs = {} /\ docs \in Seq(ToSet(docs))
    BY <2>1
  <2>3. DocsTyped
    BY <2>1, <2>2 DEF DocsTyped
  <2>4. Reported = {} /\ ReportedNow = {} /\ FailedNow = {} /\ ReportedPoints = {}
    BY <2>1, <2>2 DEF Reported, ReportedNow, FailedNow, ReportedPoints
  <2>5. StorePoints
    BY <2>1, <2>4, FS_EmptySet DEF StorePoints
  <2>6. Totals
    <3>1. report.docs = 0 /\ report.chunks = 0 /\ report.errors = 0
      BY <2>1
    <3> QED
      BY <2>4, <3>1, FS_EmptySet DEF Totals
  <2>7. BatchInv
    BY <2>1 DEF BatchInv
  <2> QED
    BY <2>3, <2>5, <2>6, <2>7 DEF ReportInv
<1>2. IngestTypes /\ ReportInv /\ [Next]_vars => ReportInv'
  <2> SUFFICES ASSUME IngestTypes, ReportInv, [Next]_vars PROVE ReportInv'
    OBVIOUS
  <2>1. CASE Start
    BY <2>1, StartKeepsReport
  <2>2. CASE \/ ensure_collection \/ create_text_index \/ SkipUrl \/ crawl_urls \/ CrawlFails
             \/ discover_files_inner \/ EntryFails \/ StackOverflow \/ Discovered
    <3>1. UNCHANGED <<docs, at, pending, store, runs, report>>
      BY <2>2 DEF ensure_collection, create_text_index, SkipUrl, crawl_urls, CrawlFails,
           discover_files_inner, EntryFails, StackOverflow, Discovered, docVars
    <3>2. pc \notin {"upsert", "ended"} /\ pc' \notin {"embed", "upsert"}
      BY <2>2 DEF ensure_collection, create_text_index, SkipUrl, crawl_urls, CrawlFails,
           discover_files_inner, EntryFails, StackOverflow, Discovered, Crawling, Discovery
    <3> QED
      BY <3>1, <3>2, QuietKeepsReport
  <2>3. CASE ReadFails \/ SkipEmpty \/ Finish
    <3>1. UNCHANGED <<docs, at, pending, store, runs>> /\ pc = "documents" /\ pc' \in {"documents", "ended"}
      BY <2>3 DEF ReadFails, SkipEmpty, Finish, Reading, docVars
    <3>2. report' = report \/ report' = [report EXCEPT !["errors"] = @ + 1]
      BY <2>3 DEF ReadFails, SkipEmpty, Finish, Count
    <3> QED
      BY <3>1, <3>2, QuietKeepsReport
  <2>4. CASE NoChunks
    BY <2>4, NoChunksKeepsReport
  <2>5. CASE BeginDocument
    BY <2>5, BeginKeepsReport
  <2>6. CASE EmbedBatch
    BY <2>6, EmbedKeepsReport
  <2>7. CASE EmbedFails \/ UpsertFails
    BY <2>7, FailureKeepsReport
  <2>8. CASE upsert_points
    BY <2>8, UpsertKeepsReport
  <2>9. CASE Kill
    BY <2>9, KillKeepsReport
  <2>10. CASE UNCHANGED vars
    BY <2>10, StutterKeepsReport
  <2> QED
    BY <2>1, <2>2, <2>3, <2>4, <2>5, <2>6, <2>7, <2>8, <2>9, <2>10 DEF Next
<1> QED
  BY <1>1, <1>2, CrawlKeeps, PTL DEF Spec

\* A document the command reports as ingested (process_document, ingest_url) is stored
\* whole, and the totals it prints are those of the documents of this run, whatever calls
\* failed and wherever it or an earlier run was killed; and every vector is that of the
\* text it is stored with, in whatever order the service answered.
THEOREM ReportIsTrue == Spec => []ReportTrue
<1>1. IngestTypes /\ ReportInv => ReportTrue
  <2> SUFFICES ASSUME ReportInv PROVE ReportTrue
    OBVIOUS
  <2>1. \A p \in store : p.vector = p.text /\ p.text = docs[p.doc].chunks[p.index]
    <3> SUFFICES ASSUME NEW p \in store
                 PROVE  p.vector = p.text /\ p.text = docs[p.doc].chunks[p.index]
      OBVIOUS
    <3>1. p = Point(p.doc, p.index)
      BY DEF ReportInv, StorePoints
    <3>2. /\ Point(p.doc, p.index).vector = docs[p.doc].chunks[p.index]
          /\ Point(p.doc, p.index).text = docs[p.doc].chunks[p.index]
      BY DEF Point
    <3> QED
      BY <3>1, <3>2, Zenon
  <2>2. ASSUME NEW d \in Reported PROVE StoredOf(d) = DOMAIN docs[d].chunks
    <3>1. d \in 1 .. Len(docs)
      BY DEF Reported, ReportInv, DocsTyped
    <3>2. docs[d].chunks \in Seq(ToSet(docs[d].chunks))
      BY <3>1 DEF ReportInv, DocsTyped, IsDoc
    <3>3. DOMAIN docs[d].chunks = 1 .. Len(docs[d].chunks)
      BY <3>2
    <3>4. \A k \in 1 .. Len(docs[d].chunks) : k \in StoredOf(d)
      <4> SUFFICES ASSUME NEW k \in 1 .. Len(docs[d].chunks) PROVE k \in StoredOf(d)
        OBVIOUS
      <4>1. Point(d, k) \in store
        BY DEF ReportInv, StorePoints
      <4>2. Point(d, k).doc = d /\ Point(d, k).index = k
        BY DEF Point
      <4> QED
        BY <4>1, <4>2, Zenon DEF StoredOf
    <3>5. \A k \in StoredOf(d) : k \in 1 .. Len(docs[d].chunks)
      BY DEF StoredOf, ReportInv, StorePoints
    <3> QED
      BY <3>3, <3>4, <3>5
  <2>3. Totals
    BY DEF ReportInv
  <2> QED
    BY <2>1, <2>2, <2>3 DEF ReportTrue, Totals, ReportedNow, FailedNow, ReportedPoints
<1> QED
  BY <1>1, ReportKeeps, PTL

-----------------------------------------------------------------------------
(***************************************************************************)
(* A text is covered by its chunks.  The loop takes a slice for every      *)
(* multiple of its step before the first that reaches the end, and a slice *)
(* is cut, if at all, behind the place where the next one begins.          *)
(***************************************************************************)

\* The multiple of the step at or before a position.
LEMMA Multiples ==
  ASSUME NEW st \in Nat, st >= 1, NEW i \in Nat
  PROVE  \E k \in 0 .. i : k * st <= i /\ i < k * st + st
<1> DEFINE S == {m \in 0 .. i : \E k \in 0 .. m : k * st <= m /\ m < k * st + st}
<1>1. S \in SUBSET (0 .. i) /\ 0 \in S
  <2>1. 0 * st = 0
    OBVIOUS
  <2> QED
    BY <2>1
<1>2. ASSUME NEW m \in 1 .. i, m - 1 \in S PROVE m \in S
  <2>1. PICK k \in 0 .. m - 1 : k * st <= m - 1 /\ m - 1 < k * st + st
    BY <1>2
  <2>2. k * st \in Nat /\ (k + 1) * st = k * st + st
    BY <2>1
  <2>3. CASE m < k * st + st
    <3>1. k \in 0 .. m /\ k * st <= m
      BY <2>1, <2>2
    <3>2. m \in 0 .. i
      OBVIOUS
    <3> QED
      BY <2>3, <3>1, <3>2
  <2>4. CASE ~(m < k * st + st)
    <3>1. m = (k + 1) * st /\ (k + 1) * st <= m /\ m < (k + 1) * st + st
      BY <2>1, <2>2, <2>4
    <3>2. k + 1 \in 0 .. m
      BY <2>1
    <3> QED
      BY <3>1, <3>2
  <2> QED
    BY <2>3, <2>4
<1>3. i \in S
  <2> HIDE DEF S
  <2>1. S = 0 .. i
    BY <1>1, <1>2, ReachesAll
  <2> QED
    BY <2>1
<1> QED
  BY <1>3

\* A slice begins at or before every position, and reaches it or is the last.
LEMMA LoopReaches ==
  ASSUME NEW m \in Nat, NEW st \in Nat, st >= 1, NEW Stops, NEW j \in 0 .. m - 1
  PROVE  \E s \in Begins(m, st, Stops) : s \in Nat /\ s <= j /\ (s \in Stops \/ j < s + st)
<1> DEFINE all == {k * st : k \in 0 .. m}
<1>0. j \in Nat
  OBVIOUS
<1>1. PICK k \in 0 .. j : k * st <= j /\ j < k * st + st
  BY <1>0, Multiples
<1>2. all \subseteq Nat
  OBVIOUS
<1>3. k * st \in all /\ k * st < m /\ k * st \in Nat
  BY <1>1
<1> HIDE DEF all
<1>4. CASE \A r \in all : r < k * st => r \notin Stops
  <2>1. k * st \in Begins(m, st, Stops)
    BY <1>3, <1>4 DEF Begins, all
  <2> QED
    BY <1>1, <1>3, <2>1
<1>5. CASE \E r \in all : r < k * st /\ r \in Stops
  <2> DEFINE R == {r \in all : r < k * st /\ r \in Stops}
  <2>1. R \in SUBSET Nat /\ R # {}
    BY <1>2, <1>5
  <2> HIDE DEF R
  <2>2. PICK s \in R : \A q \in R : <<q, s>> \notin OpToRel(<, Nat)
    BY <2>1, NatLessThanWellFounded, WFMin
  <2>3. \A q \in R : ~(q < s)
    BY <2>1, <2>2 DEF OpToRel
  <2>4. s \in all /\ s < k * st /\ s \in Stops /\ s \in Nat
    BY <2>1 DEF R
  <2>5. \A r \in all : r < s => r \notin Stops
    <3> SUFFICES ASSUME NEW r \in all, r < s, r \in Stops PROVE FALSE
      OBVIOUS
    <3>1. r \in Nat /\ r < k * st
      BY <1>2, <1>3, <2>4
    <3> QED
      BY <2>3, <3>1 DEF R
  <2>6. s < m /\ s <= j
    BY <1>1, <1>3, <2>4
  <2>7. s \in Begins(m, st, Stops)
    BY <2>4, <2>5, <2>6 DEF Begins, all
  <2> QED
    BY <2>4, <2>6, <2>7
<1> QED
  BY <1>4, <1>5

\* Every slice of a set is in its order, when no two begin at the same place.
LEMMA OrderHasAll ==
  ASSUME NEW S, IsFiniteSet(S), \A c \in S : c.from \in Nat,
         \A c, d \in S : c.from = d.from => c = d, NEW c \in S
  PROVE  \E k \in DOMAIN InOrder(S) : InOrder(S)[k] = c
<1> DEFINE Below(x) == {d \in S : d.from < x.from}
           Rank(x) == Cardinality(Below(x))
           n == Cardinality(S)
           Pick(i) == CHOOSE x \in S : Cardinality({d \in S : d.from < x.from}) = i - 1
<1>1. n \in Nat
  BY FS_CardinalityType
<1>2. \A x \in S : IsFiniteSet(Below(x)) /\ Rank(x) \in Nat
  <2> SUFFICES ASSUME NEW x \in S PROVE IsFiniteSet(Below(x)) /\ Rank(x) \in Nat
    OBVIOUS
  <2>1. Below(x) \in SUBSET S
    OBVIOUS
  <2> HIDE DEF Below
  <2> QED
    BY <2>1, FS_Subset, FS_CardinalityType
<1>3. ASSUME NEW x \in S, NEW y \in S, x.from < y.from PROVE Rank(x) < Rank(y)
  <2>1. Below(x) \in SUBSET Below(y) /\ x \in Below(y) /\ x \notin Below(x)
    BY <1>3
  <2>2. IsFiniteSet(Below(y)) /\ Rank(x) \in Nat /\ Rank(y) \in Nat
    BY <1>2
  <2> HIDE DEF Below
  <2>3. Rank(x) <= Rank(y) /\ Rank(x) # Rank(y)
    BY <2>1, <2>2, FS_Subset
  <2> HIDE DEF Rank
  <2> QED
    BY <2>2, <2>3
<1>4. \A x \in S : Rank(x) = Rank(c) => x = c
  <2> SUFFICES ASSUME NEW x \in S, Rank(x) = Rank(c), x # c PROVE FALSE
    OBVIOUS
  <2>1. Rank(x) \in Nat /\ Rank(c) \in Nat
    BY <1>2
  <2> HIDE DEF Rank
  <2>2. x.from < c.from \/ c.from < x.from
    OBVIOUS
  <2> QED
    BY <1>3, <2>1, <2>2
<1>5. Rank(c) + 1 \in 1 .. n
  <2>1. Below(c) \in SUBSET (S \ {c})
    OBVIOUS
  <2>2. IsFiniteSet(S \ {c}) /\ Cardinality(S \ {c}) = n - 1
    BY FS_RemoveElement
  <2> HIDE DEF Below, n
  <2>3. Rank(c) <= n - 1
    BY <2>1, <2>2, FS_Subset
  <2>4. Rank(c) \in Nat
    BY <1>2
  <2> HIDE DEF Rank
  <2> QED
    BY <1>1, <2>3, <2>4
<1>6. Pick(Rank(c) + 1) = c
  <2>1. Rank(c) \in Nat
    BY <1>2
  <2>2. (Rank(c) + 1) - 1 = Rank(c)
    <3> HIDE DEF Rank
    <3> QED
      BY <2>1
  <2>3. \A x \in S : Cardinality({d \in S : d.from < x.from}) = (Rank(c) + 1) - 1 <=> x = c
    <3>1. \A x \in S : Cardinality({d \in S : d.from < x.from}) = Rank(x)
      OBVIOUS
    <3> HIDE DEF Rank
    <3> QED
      BY <1>4, <2>2, <3>1
  <2> DEFINE P(x) == Cardinality({d \in S : d.from < x.from}) = (Rank(c) + 1) - 1
  <2>4. Pick(Rank(c) + 1) = CHOOSE x \in S : P(x)
    OBVIOUS
  <2>5. \A x \in S : P(x) <=> x = c
    BY <2>3
  <2> HIDE DEF P, Pick, Rank
  <2> QED
    BY <2>4, <2>5
<1>7. InOrder(S) = [i \in 1 .. n |-> Pick(i)]
  BY Zenon DEF InOrder
<1> HIDE DEF Pick, Rank, n
<1> QED
  BY <1>5, <1>6, <1>7

\* The last of some positions.
LEMMA LastOf ==
  ASSUME NEW b \in Nat, NEW S \in SUBSET (0 .. b), S # {}
  PROVE  Max(S) \in S
<1> DEFINE D == {b - x : x \in S}
<1>1. D \in SUBSET Nat /\ D # {}
  <2>1. \A x \in S : b - x \in Nat
    OBVIOUS
  <2> QED
    BY <2>1
<1> HIDE DEF D
<1>2. PICK d \in D : \A e \in D : <<e, d>> \notin OpToRel(<, Nat)
  BY <1>1, NatLessThanWellFounded, WFMin
<1>3. \A e \in D : ~(e < d)
  BY <1>1, <1>2 DEF OpToRel
<1>4. PICK x \in S : d = b - x
  BY DEF D
<1>5. \A y \in S : x >= y
  <2> SUFFICES ASSUME NEW y \in S PROVE x >= y
    OBVIOUS
  <2>1. b - y \in D /\ ~(b - y < d)
    BY <1>3 DEF D
  <2> QED
    BY <1>4, <2>1
<1> QED
  BY <1>5 DEF Max

Covered(cs, i) == \E k \in DOMAIN cs : i \in cs[k].from .. (cs[k].to - 1)

\* A text that is one chunk.
LEMMA WholeCovers ==
  ASSUME NEW t, NEW i \in 0 .. t.chars - 1
  PROVE  Covered(Whole(t), i)
<1>1. 1 \in DOMAIN Whole(t) /\ Whole(t)[1].from = 0 /\ Whole(t)[1].to = t.chars
  BY DEF Whole
<1> QED
  BY <1>1 DEF Covered

\* A slice that has a character of the text is one of its chunks.
LEMMA SliceCovers ==
  ASSUME NEW t, NEW slices, IsFiniteSet(InkedOnly(t, slices)), \A c \in slices : c.from \in Nat,
         \A c, d \in slices : c.from = d.from => c = d,
         NEW c \in slices, NEW i \in c.from .. (c.to - 1), i \notin t.blank
  PROVE  Covered(InOrder(InkedOnly(t, slices)), i)
<1> DEFINE S == InkedOnly(t, slices)
<1>1. c \in S
  BY DEF InkedOnly, Inked
<1>2. (\A x \in S : x.from \in Nat) /\ (\A x, y \in S : x.from = y.from => x = y) /\ IsFiniteSet(S)
  BY DEF InkedOnly
<1> HIDE DEF S
<1>3. PICK k \in DOMAIN InOrder(S) : InOrder(S)[k] = c
  BY <1>1, <1>2, OrderHasAll
<1>4. Covered(InOrder(S), i)
  BY <1>3 DEF Covered
<1> QED
  BY <1>4 DEF S

\* The slices of the fallback cover a text: each begins at or before the end of the one before.
LEMMA CharsCover ==
  ASSUME NEW s \in DOMAIN Text, NEW size \in Nat, size >= 1, NEW overlap \in Nat,
         NEW i \in 0 .. Text[s].chars - 1, i \notin Text[s].blank
  PROVE  Covered(chunk_by_chars(Text[s], size, overlap), i)
<1> DEFINE t == Text[s]
           Stops == {r \in Nat : ~(r + size < t.chars)}
           st == Step(size, overlap)
           starts == Begins(t.chars, st, Stops)
           slices == CharSlices(t, size, overlap)
<1>1. t.chars \in Nat /\ st \in Nat /\ st >= 1 /\ st <= size
  <2>1. st <= size
    BY DEF Step
  <2> QED
    BY <2>1, Texts, StepMoves
<1>2. starts \subseteq Nat
  BY <1>1, BeginsAre
<1>3. slices = {[from |-> r, to |-> Least(r + size, t.chars)] : r \in starts}
  BY DEF CharSlices
<1>4. (\A c \in slices : c.from \in Nat) /\ (\A c, d \in slices : c.from = d.from => c = d)
  <2>1. \A c \in slices : c.from \in starts /\ c = [from |-> c.from, to |-> Least(c.from + size, t.chars)]
    BY <1>3
  <2> HIDE DEF slices, starts, t
  <2> QED
    BY <1>2, <2>1
<1>5. IsFiniteSet(InkedOnly(t, slices))
  BY CharChunks
<1>6. i \in 0 .. t.chars - 1 /\ i \notin t.blank
  OBVIOUS
<1>7. chunk_by_chars(t, size, overlap) = IF t.chars <= size THEN Whole(t) ELSE InOrder(InkedOnly(t, slices))
  BY CharChunks
<1>8. PICK r \in starts : r \in Nat /\ r <= i /\ (r \in Stops \/ i < r + st)
  <2> HIDE DEF st, Stops, t
  <2> QED
    BY <1>1, <1>6, LoopReaches
<1>9. i \in r .. Least(r + size, t.chars) - 1
  <2>1. i < r + size /\ i < t.chars
    BY <1>1, <1>6, <1>8
  <2>2. \A a, b \in Nat : i < a /\ i < b => i < Least(a, b) /\ Least(a, b) \in Nat
    BY DEF Least
  <2>3. i < Least(r + size, t.chars) /\ Least(r + size, t.chars) \in Nat
    BY <1>1, <1>8, <2>1, <2>2
  <2> HIDE DEF st, Stops, t
  <2> QED
    BY <1>6, <1>8, <2>3
<1> DEFINE c == [from |-> r, to |-> Least(r + size, t.chars)]
<1>10. c \in slices /\ i \in c.from .. c.to - 1
  BY <1>3, <1>9
<1> HIDE DEF c, slices, starts, Stops, st, t
<1>11. Covered(InOrder(InkedOnly(t, slices)), i)
  BY <1>4, <1>5, <1>6, <1>10, SliceCovers
<1>12. Covered(Whole(t), i)
  BY <1>6, WholeCovers
<1>13. Covered(chunk_by_chars(t, size, overlap), i)
  BY <1>7, <1>11, <1>12
<1> QED
  BY <1>13 DEF t

\* The tokens of a text reach its end, and without the last one they do not.
LEMMA TokensReach ==
  ASSUME NEW s \in DOMAIN Text, Text[s].width = 1
  PROVE  /\ Bytes(Text[s]) = Text[s].chars /\ Text[s].chars \in Nat
         /\ Tokens(Text[s]) * Text[s].unit >= Text[s].chars
         /\ \A n \in Nat : n < Tokens(Text[s]) => n * Text[s].unit < Text[s].chars
<1> DEFINE b == Text[s].chars
           u == Text[s].unit
           q == Tokens(Text[s])
<1>1. b \in Nat /\ u \in Nat /\ u >= 1 /\ q \in Nat
  BY Texts
<1>2. Bytes(Text[s]) = b
  BY <1>1 DEF Bytes
<1>3. q = (b + u - 1) \div u
  BY <1>2 DEF Tokens
<1> HIDE DEF b, u, q
<1>4. q * u <= b + u - 1 /\ b + u - 1 < q * u + u
  BY <1>1, <1>3
<1>5. q * u \in Nat
  BY <1>1
<1>6. q * u >= b
  BY <1>1, <1>4, <1>5
<1>7. ASSUME NEW n \in Nat, n < q PROVE n * u < b
  <2>1. PICK m \in Nat : q = n + 1 + m
    <3>1. q - n - 1 \in Nat /\ q = n + 1 + (q - n - 1)
      BY <1>1, <1>7
    <3> QED
      BY <3>1
  <2>2. q * u = n * u + u + m * u
    BY <1>1, <2>1
  <2>3. n * u \in Nat /\ m * u \in Nat
    BY <1>1
  <2> QED
    BY <1>1, <1>4, <2>2, <2>3
<1> QED
  BY <1>1, <1>2, <1>6, <1>7 DEF b, u, q

\* What a cut leaves of a slice.
LEMMA CutKeeps ==
  ASSUME NEW s \in DOMAIN Text, Text[s].width = 1, NEW a \in Nat, NEW b \in Nat, a <= b,
         NEW more \in BOOLEAN
  PROVE  /\ MinKeep(Text[s], b - a) \in Nat
         /\ adjust_to_sentence_boundary(Text[s], a, b, more) \in Nat
         /\ \/ adjust_to_sentence_boundary(Text[s], a, b, more) = b
            \/ more /\ adjust_to_sentence_boundary(Text[s], a, b, more) >= a + MinKeep(Text[s], b - a) + 1
<1> DEFINE t == Text[s]
           keep == MinKeep(t, b - a)
           cuts == {i \in (a + keep) .. (b - 1) : i \in t.ends}
<1>1. keep \in Nat
  <2>1. keep = ((b - a) * 1 * 85) \div 100
    BY DEF MinKeep
  <2>2. b - a \in Nat
    OBVIOUS
  <2> HIDE DEF keep
  <2> QED
    BY <2>1, <2>2
<1>2. adjust_to_sentence_boundary(t, a, b, more) = IF more /\ cuts # {} THEN Max(cuts) + 1 ELSE b
  BY Zenon DEF adjust_to_sentence_boundary
<1> HIDE DEF keep
<1>3. cuts # {} => Max(cuts) \in cuts
  <2>1. cuts \in SUBSET (0 .. b)
    BY <1>1
  <2> HIDE DEF cuts
  <2> QED
    BY <2>1, LastOf
<1>4. \A x \in cuts : x \in Nat /\ x >= a + keep
  BY <1>1
<1> HIDE DEF cuts, t
<1>5. CASE more /\ cuts # {}
  <2>1. Max(cuts) \in Nat /\ Max(cuts) >= a + keep
    BY <1>3, <1>4, <1>5
  <2> QED
    BY <1>1, <1>2, <1>5, <2>1 DEF t, keep
<1>6. CASE ~(more /\ cuts # {})
  BY <1>1, <1>2, <1>6 DEF t, keep
<1> QED
  BY <1>5, <1>6

\* A slice of tokens that are whole characters.
LEMMA SliceIs ==
  ASSUME NEW s \in DOMAIN Text, Text[s].width = 1, NEW size \in Nat, size >= 1,
         NEW r \in Nat, r < Tokens(Text[s])
  PROVE  /\ Decodes(Text[s], r, size) /\ Slice(Text[s], r, size).from = r * Text[s].unit
         /\ Slice(Text[s], r, size).to \in Nat
         /\ Reaches(Text[s], r, size) => Slice(Text[s], r, size).to = Text[s].chars
         /\ ~Reaches(Text[s], r, size) =>
              \/ Slice(Text[s], r, size).to = r * Text[s].unit + size * Text[s].unit
              \/ Slice(Text[s], r, size).to
                   >= r * Text[s].unit + MinKeep(Text[s], size * Text[s].unit) + 1
<1> DEFINE t == Text[s]
           u == Text[s].unit
           a == r * u
           n == size * u
           e == SliceEnd(t, r, size)
<1>1. /\ t.chars \in Nat /\ u \in Nat /\ u >= 1 /\ Tokens(t) \in Nat /\ Bytes(t) = t.chars
      /\ Tokens(t) * u >= t.chars /\ \A k \in Nat : k < Tokens(t) => k * u < t.chars
  BY Texts, TokensReach
<1>2. a \in Nat /\ n \in Nat /\ (r + size) * u = a + n /\ a < t.chars
  <2>1. r * u \in Nat /\ size * u \in Nat /\ (r + size) * u = r * u + size * u
    BY <1>1
  <2> QED
    BY <1>1, <2>1
<1>3. e = IF a + n <= t.chars THEN a + n ELSE t.chars
  BY <1>1, <1>2 DEF SliceEnd, Least
<1>4. Reaches(t, r, size) <=> r + size >= Tokens(t)
  BY DEF Reaches
<1>5. Reaches(t, r, size) => e = t.chars
  <2>0. SUFFICES ASSUME r + size >= Tokens(t) PROVE e = t.chars
    BY <1>4
  <2>1. PICK m \in Nat : r + size = Tokens(t) + m
    <3>1. r + size - Tokens(t) \in Nat /\ r + size = Tokens(t) + (r + size - Tokens(t))
      BY <1>1, <2>0
    <3> QED
      BY <3>1
  <2> DEFINE q == Tokens(t)
  <2>2. q \in Nat /\ q * u >= t.chars
    BY <1>1
  <2>3. a + n = (q + m) * u
    BY <1>2, <2>1
  <2> HIDE DEF e, q, a, n, u, t
  <2>4. (q + m) * u = q * u + m * u /\ m * u \in Nat /\ q * u \in Nat
    BY <1>1, <2>2
  <2>5. a + n >= t.chars
    BY <1>1, <2>2, <2>3, <2>4
  <2> QED
    BY <1>1, <1>2, <1>3, <2>5
<1>6. ~Reaches(t, r, size) => e = a + n
  <2>1. SUFFICES ASSUME ~(r + size >= Tokens(t)) PROVE e = a + n
    BY <1>4
  <2>2. r + size \in Nat /\ r + size < Tokens(t)
    BY <1>1, <2>1
  <2>3. (r + size) * u < t.chars
    BY <1>1, <2>2
  <2> HIDE DEF e, a, n, u, t
  <2>4. a + n < t.chars
    BY <1>2, <2>3
  <2> QED
    BY <1>1, <1>2, <1>3, <2>4
<1>7. e \in Nat /\ a <= e
  BY <1>1, <1>2, <1>3
<1>8. Slice(t, r, size) = [from |-> a \div 1, to |-> adjust_to_sentence_boundary(t, a \div 1, e \div 1, ~Reaches(t, r, size))]
  BY Zenon DEF Slice
<1>9. Decodes(t, r, size) <=> (a % 1 = 0 /\ e % 1 = 0)
  BY DEF Decodes
<1> HIDE DEF a, n, e
<1>10. a \div 1 = a /\ e \div 1 = e /\ a % 1 = 0 /\ e % 1 = 0
  BY <1>2, <1>7
<1> DEFINE to == adjust_to_sentence_boundary(t, a, e, ~Reaches(t, r, size))
<1>11. Slice(t, r, size).from = a /\ Slice(t, r, size).to = to
  BY <1>8, <1>10
<1>12. /\ to \in Nat
       /\ to = e \/ (~Reaches(t, r, size) /\ to >= a + MinKeep(t, e - a) + 1)
  <2>1. (~Reaches(t, r, size)) \in BOOLEAN
    BY DEF Reaches
  <2> QED
    BY <1>2, <1>7, <2>1, CutKeeps
<1> HIDE DEF to
<1>13. ~Reaches(t, r, size) => e - a = n
  BY <1>2, <1>6
<1> QED
  BY <1>5, <1>6, <1>9, <1>10, <1>11, <1>12, <1>13 DEF a, n

\* The slices of the tokens cover a text: a cut takes no more than the overlap gives back.
LEMMA TokensCover ==
  ASSUME NEW s \in DOMAIN Text, NEW o \in Options, ~NoText(Text[s]), o.bpe, Safe(Text[s], o),
         NEW i \in 0 .. Text[s].chars - 1, i \notin Text[s].blank
  PROVE  Covered(chunk_text(Text[s], o), i)
<1> DEFINE t == Text[s]
           u == Text[s].unit
           size == o.size
           st == Step(o.size, o.overlap)
           Stops == {r \in Nat : Reaches(t, r, size) /\ Decodes(t, r, size)}
           begins == Begins(Tokens(t), st, Stops)
           slices == TokenSlices(t, o)
<1>1. /\ t.chars \in Nat /\ u \in Nat /\ u >= 1 /\ Tokens(t) \in Nat /\ t.width = 1
      /\ size \in Nat /\ size >= 1 /\ o.overlap \in Nat
  BY Texts, OptionSizes DEF Safe
<1>2. Tokens(t) * u >= t.chars /\ \A k \in Nat : k < Tokens(t) => k * u < t.chars
  BY <1>1, TokensReach
<1>3. st \in Nat /\ st >= 1 /\ st <= size /\ size - st = Least(o.overlap, size - 1)
  BY <1>1 DEF Step, Least
<1>4. begins \subseteq Nat /\ \A r \in begins : r < Tokens(t)
  BY <1>1, <1>3, BeginsAre
<1>5. \A r \in begins : Decodes(t, r, size) /\ Slice(t, r, size).from = r * u
  BY <1>1, <1>4, SliceIs
<1>6. slices = {Slice(t, r, size) : r \in begins}
  BY <1>5 DEF TokenSlices
<1>7. (\A c \in slices : c.from \in Nat) /\ (\A c, d \in slices : c.from = d.from => c = d)
  <2>1. \A c \in slices : \E r \in begins : c = Slice(t, r, size) /\ c.from = r * u
    BY <1>5, <1>6
  <2> HIDE DEF slices, begins, t, size, u
  <2>2. \A r, q \in begins : r * u = q * u => r = q
    BY <1>1, <1>4
  <2>3. \A r \in begins : r * u \in Nat
    BY <1>1, <1>4
  <2> QED
    BY <2>1, <2>2, <2>3
<1>8. IsFiniteSet(InkedOnly(t, slices))
      /\ chunk_text(t, o) = IF Tokens(t) <= size THEN Whole(t) ELSE InOrder(InkedOnly(t, slices))
  BY TokenChunks
<1>9. i \in 0 .. t.chars - 1 /\ i \notin t.blank
  OBVIOUS
<1>10. PICK j \in Nat : j * u <= i /\ i < j * u + u
  <2>1. i \in Nat
    BY <1>1, <1>9
  <2> HIDE DEF u, t
  <2>2. \E j \in 0 .. i : j * u <= i /\ i < j * u + u
    BY <1>1, <2>1, Multiples
  <2> QED
    BY <2>1, <2>2
<1>11. j \in 0 .. Tokens(t) - 1
  <2> SUFFICES ASSUME ~(j < Tokens(t)) PROVE FALSE
    BY <1>1, <1>10
  <2>1. PICK m \in Nat : j = Tokens(t) + m
    <3>1. j - Tokens(t) \in Nat /\ j = Tokens(t) + (j - Tokens(t))
      BY <1>1, <1>10
    <3> QED
      BY <3>1
  <2> DEFINE q == Tokens(t)
  <2>2. q \in Nat /\ q * u >= t.chars /\ j = q + m
    BY <1>1, <1>2, <2>1
  <2> HIDE DEF q, u, t
  <2>3. j * u = q * u + m * u /\ m * u \in Nat /\ q * u \in Nat
    BY <1>1, <2>2
  <2> QED
    BY <1>1, <1>9, <1>10, <2>2, <2>3
<1>12. PICK r \in begins : r \in Nat /\ r <= j /\ (r \in Stops \/ j < r + st)
  <2> HIDE DEF st, Stops, t
  <2> QED
    BY <1>1, <1>3, <1>11, LoopReaches
<1> DEFINE c == Slice(t, r, size)
<1>13. /\ c \in slices /\ c.from = r * u /\ c.to \in Nat /\ r * u \in Nat
       /\ Reaches(t, r, size) => c.to = t.chars
       /\ ~Reaches(t, r, size) =>
            c.to = r * u + size * u \/ c.to >= r * u + MinKeep(t, size * u) + 1
  <2>1. r < Tokens(t)
    BY <1>4
  <2>2. r * u \in Nat
    BY <1>1, <1>12
  <2> QED
    BY <1>1, <1>6, <1>12, <2>1, <2>2, SliceIs
<1>14. c.from <= i
  <2>1. PICK m \in Nat : j = r + m
    <3>1. j - r \in Nat /\ j = r + (j - r)
      BY <1>10, <1>12
    <3> QED
      BY <3>1
  <2> HIDE DEF c, t, u
  <2>2. j * u = r * u + m * u /\ m * u \in Nat
    BY <1>1, <1>12, <2>1
  <2> QED
    BY <1>9, <1>10, <1>13, <2>2
<1>15. i < c.to
  <2>1. CASE Reaches(t, r, size)
    BY <1>1, <1>9, <1>13, <2>1
  <2>2. CASE ~Reaches(t, r, size)
    <3>1. j < r + st
      BY <1>12, <2>2
    <3>2. i < r * u + st * u
      <4>1. PICK m \in Nat : r + st = j + 1 + m
        <5>1. r + st - j - 1 \in Nat /\ r + st = j + 1 + (r + st - j - 1)
          BY <1>3, <1>10, <1>12, <3>1
        <5> QED
          BY <5>1
      <4> HIDE DEF t, u, st, c
      <4>2. r * u + st * u = j * u + u + m * u /\ m * u \in Nat /\ j * u \in Nat
        <5>1. (r + st) * u = (j + 1 + m) * u
          BY <4>1
        <5>2. (r + st) * u = r * u + st * u
          BY <1>1, <1>3, <1>12
        <5>3. (j + 1 + m) * u = j * u + u + m * u /\ m * u \in Nat /\ j * u \in Nat
          BY <1>1, <1>10, <4>1
        <5> QED
          BY <5>1, <5>2, <5>3
      <4> QED
        BY <1>1, <1>9, <1>10, <4>2
    <3>3. st * u \in Nat /\ st * u <= size * u /\ size * u \in Nat
      <4>1. PICK m \in Nat : size = st + m
        <5>1. size - st \in Nat /\ size = st + (size - st)
          BY <1>1, <1>3
        <5> QED
          BY <5>1
      <4> HIDE DEF t, u, st, c, size
      <4>2. size * u = st * u + m * u /\ m * u \in Nat /\ st * u \in Nat
        BY <1>1, <1>3, <4>1
      <4> QED
        BY <4>2
    <3>4. CASE c.to = r * u + size * u
      BY <1>9, <1>13, <3>2, <3>3, <3>4
    <3>5. CASE c.to >= r * u + MinKeep(t, size * u) + 1
      <4> DEFINE n == size * u
                 keep == MinKeep(t, n)
      <4>1. MaxTrim(t, size) <= (size - st) * u
        BY <1>3 DEF Safe
      <4>2. MaxTrim(t, size) = n - Least(n, keep + 1)
        BY DEF MaxTrim
      <4>3. keep \in Nat /\ n \in Nat
        <5>1. n \in Nat /\ 0 \in Nat /\ 0 <= n /\ n - 0 = n
          BY <3>3
        <5> HIDE DEF n
        <5>2. MinKeep(t, n - 0) \in Nat
          BY <1>1, <5>1, CutKeeps
        <5> QED
          BY <5>1, <5>2
      <4>4. (size - st) * u = n - st * u
        BY <1>1, <1>3
      <4>5. st * u \in Nat
        BY <3>3
      <4> HIDE DEF n, keep, c, t, u, st, size
      <4>6. Least(n, keep + 1) >= st * u
        <5>1. Least(n, keep + 1) \in Nat
          BY <4>3 DEF Least
        <5> QED
          BY <4>1, <4>2, <4>3, <4>4, <4>5, <5>1
      <4>7. keep + 1 >= st * u
        BY <4>3, <4>5, <4>6 DEF Least
      <4>8. c.to >= r * u + keep + 1
        BY <3>5 DEF keep, n
      <4> QED
        BY <1>9, <1>13, <3>2, <4>3, <4>5, <4>7, <4>8
    <3> QED
      BY <1>13, <2>2, <3>4, <3>5
  <2> QED
    BY <2>1, <2>2
<1>16. i \in c.from .. c.to - 1
  BY <1>9, <1>13, <1>14, <1>15
<1> HIDE DEF c, slices, begins, Stops, st, t
<1>17. Covered(InOrder(InkedOnly(t, slices)), i)
  BY <1>7, <1>8, <1>9, <1>13, <1>16, SliceCovers
<1>18. Covered(Whole(t), i)
  BY <1>9, WholeCovers
<1>19. Covered(chunk_text(t, o), i)
  BY <1>8, <1>17, <1>18
<1> QED
  BY <1>19 DEF t

\* A text is covered by its chunks when the overlap is as large as a cut.
LEMMA OverlapSuffices ==
  ASSUME NEW s \in DOMAIN Text, NEW o \in Options, Safe(Text[s], o),
         NEW i \in 0 .. Text[s].chars - 1, i \notin Text[s].blank
  PROVE  Covered(chunk_text(Text[s], o), i)
<1>1. ~NoText(Text[s])
  BY DEF NoText
<1>2. CASE o.bpe
  BY <1>1, <1>2, TokensCover
<1>3. CASE ~o.bpe
  <2> DEFINE size == o.size * 4
             overlap == o.overlap * 4
  <2>1. size \in Nat /\ size >= 1 /\ overlap \in Nat
    BY OptionSizes DEF Safe
  <2>2. chunk_text(Text[s], o) = chunk_by_chars(Text[s], size, overlap)
    BY <1>1, <1>3 DEF chunk_text
  <2> HIDE DEF size, overlap
  <2> QED
    BY <2>1, <2>2, CharsCover
<1> QED
  BY <1>2, <1>3

\* A document has the chunks its text is cut into.
CutFrom(cs, all) == DOMAIN cs = DOMAIN all /\ \A k \in DOMAIN all : cs[k].chunk = all[k]
ChunksCut == \A d \in 1 .. Len(docs) : CutFrom(docs[d].chunks, chunk_text(Text[docs[d].source], docs[d].opts))

\* A document that is added has the chunks of its text.
LEMMA AddedIsCut ==
  ASSUME ChunksCut, NEW r, Added(r), CutFrom(r.chunks, chunk_text(Text[r.source], r.opts))
  PROVE  ChunksCut'
<1> SUFFICES ASSUME NEW d \in 1 .. Len(docs')
             PROVE  CutFrom(docs'[d].chunks, chunk_text(Text[docs'[d].source], docs'[d].opts))
  BY Zenon DEF ChunksCut, CutFrom, chunk_text, chunk_by_chars
<1>1. d \in 1 .. Len(docs) \/ d = Len(docs) + 1
  BY DEF Added
<1>2. CASE d \in 1 .. Len(docs)
  <2>1. docs'[d] = docs[d]
    BY <1>2 DEF Added
  <2> QED
    BY <1>2, <2>1 DEF ChunksCut
<1>3. CASE d = Len(docs) + 1
  <2>1. docs'[d] = r
    BY <1>3 DEF Added
  <2> QED
    BY <2>1
<1> QED
  BY <1>1, <1>2, <1>3

\* A step that adds none.
LEMMA ChunksStay ==
  ASSUME DocsTyped, ChunksCut, docs' = docs \/ \E s : Ended(s)
  PROVE  ChunksCut'
<1> SUFFICES ASSUME NEW d \in 1 .. Len(docs')
             PROVE  CutFrom(docs'[d].chunks, chunk_text(Text[docs'[d].source], docs'[d].opts))
  BY Zenon DEF ChunksCut
<1>1. CASE docs' = docs
  BY <1>1 DEF ChunksCut
<1>2. ASSUME NEW s, Ended(s)
      PROVE  CutFrom(docs'[d].chunks, chunk_text(Text[docs'[d].source], docs'[d].opts))
  <2>1. d \in 1 .. Len(docs)
    BY <1>2 DEF Ended
  <2>2. docs'[d].chunks = docs[d].chunks /\ docs'[d].source = docs[d].source /\ docs'[d].opts = docs[d].opts
    BY <1>2, <2>1 DEF Ended
  <2>3. CutFrom(docs[d].chunks, chunk_text(Text[docs[d].source], docs[d].opts))
    BY <2>1 DEF ChunksCut
  <2> QED
    BY <2>2, <2>3
<1> QED
  BY <1>1, <1>2

\* A document without chunks.
LEMMA NoChunksIsCut ==
  ASSUME IngestTypes, ReportInv, ChunksCut, NoChunks
  PROVE  ChunksCut'
<1> DEFINE r == NewDoc(<<>>, "stored")
<1>1. /\ Reading /\ docs' = Append(docs, r) /\ report' = [report EXCEPT !["docs"] = @ + 1]
      /\ runs' = runs /\ chunk_text(Text[Source], opts) = <<>>
  BY DEF NoChunks, Count
<1>2. <<>> \in Seq(ToSet(<<>>))
  OBVIOUS
<1>3. IsDoc(r) /\ r.run <= runs /\ r.chunks = <<>>
  BY <1>1, <1>2, NewDocIs
<1>4. r.source = Source /\ r.opts = opts
  BY DEF NewDoc
<1>5. report' \in [docs : Nat, chunks : Nat, errors : Nat]
  BY <1>1 DEF ReportInv, DocsTyped
<1> HIDE DEF r
<1>6. Added(r)
  BY <1>1, <1>3, <1>5, DocAdded DEF ReportInv
<1>7. CutFrom(r.chunks, chunk_text(Text[r.source], r.opts))
  BY <1>1, <1>3, <1>4 DEF CutFrom
<1> QED
  BY <1>6, <1>7, AddedIsCut

\* A document begun: a context that fails leaves its chunk as it is.
LEMMA BeginIsCut ==
  ASSUME IngestTypes, ReportInv, ChunksCut, BeginDocument
  PROVE  ChunksCut'
<1> DEFINE chunks == chunk_text(Text[Source], opts)
<1>1. Reading /\ UNCHANGED <<report, runs>>
  BY DEF BeginDocument
<1>2. PICK failing : docs' = Append(docs, NewDoc([i \in DOMAIN chunks |->
                                contextualize(chunks[i], i \notin failing)], "open"))
  BY Zenon DEF BeginDocument
<1>3. Source \in DOMAIN Text /\ opts \in Options
  BY <1>1 DEF IngestTypes, Reading, Source
<1>4. IsList(chunks)
  BY <1>3, ChunksAreList
<1> DEFINE cs == [i \in DOMAIN chunks |-> contextualize(chunks[i], i \notin failing)]
           r == NewDoc(cs, "open")
<1>5. CutFrom(cs, chunks)
  <2> HIDE DEF chunks
  <2>1. \A i \in DOMAIN chunks : cs[i].chunk = chunks[i]
    BY DEF contextualize
  <2> QED
    BY <2>1 DEF CutFrom
<1>6. r.source = Source /\ r.opts = opts
  BY DEF NewDoc
<1> HIDE DEF chunks
<1>7. PICK m \in Nat : chunks = [i \in 1 .. m |-> chunks[i]]
  BY <1>4, Zenon DEF IsList
<1>8. cs \in Seq(ToSet(cs))
  <2>1. DOMAIN chunks = 1 .. m
    BY <1>7
  <2>2. \A i \in 1 .. m : cs[i] \in ToSet(cs)
    BY <2>1 DEF ToSet
  <2>3. cs = [i \in 1 .. m |-> cs[i]]
    BY <2>1
  <2> HIDE DEF cs
  <2> QED
    BY <2>2, <2>3
<1>9. docs' = Append(docs, r)
  BY <1>2
<1> HIDE DEF cs
<1>10. IsDoc(r) /\ r.run <= runs /\ r.chunks = cs
  BY <1>1, <1>8, NewDocIs
<1> HIDE DEF r
<1>11. Added(r)
  BY <1>1, <1>9, <1>10, DocAdded DEF ReportInv, DocsTyped
<1>12. CutFrom(r.chunks, chunk_text(Text[r.source], r.opts))
  BY <1>5, <1>6, <1>10 DEF chunks
<1> QED
  BY <1>11, <1>12, AddedIsCut

\* The end of a document leaves its chunks.
LEMMA EndIsCut ==
  ASSUME ReportInv, ChunksCut, EmbedFails \/ UpsertFails \/ upsert_points
  PROVE  ChunksCut'
<1>1. /\ Doc >= 1 /\ runs' = runs
  BY DEF EmbedFails, UpsertFails, upsert_points, ReportInv, BatchInv, Storing
<1>2. \/ docs' = docs
      \/ \E s \in {"stored", "failed"} :
           docs' = [docs EXCEPT ![Doc].status = s] /\ report' \in [docs : Nat, chunks : Nat, errors : Nat]
  <2>1. report \in [docs : Nat, chunks : Nat, errors : Nat]
    BY DEF ReportInv, DocsTyped
  <2>2. CASE EmbedFails \/ UpsertFails
    BY <2>1, <2>2 DEF EmbedFails, UpsertFails, Conclude, Count
  <2>3. CASE upsert_points
    <3>1. pc = "upsert"
      BY <2>3 DEF upsert_points
    <3>2. Len(DocChunks) \in Nat
      <4>1. Doc \in 1 .. Len(docs)
        BY <1>1 DEF Doc, ReportInv, DocsTyped
      <4>2. docs[Doc].chunks \in Seq(ToSet(docs[Doc].chunks))
        BY <4>1 DEF ReportInv, DocsTyped, IsDoc
      <4> QED
        BY <4>2 DEF DocChunks
    <3> DEFINE n == Len(DocChunks)
    <3>3. \/ docs' = docs
          \/ /\ docs' = [docs EXCEPT ![Doc].status = "stored"]
             /\ report' = [report EXCEPT !.docs = @ + 1, !.chunks = @ + n]
      BY <2>3 DEF upsert_points, Conclude
    <3> HIDE DEF n
    <3>4. n \in Nat
      BY <3>2 DEF n
    <3>5. [report EXCEPT !.docs = @ + 1, !.chunks = @ + n] \in [docs : Nat, chunks : Nat, errors : Nat]
      <4>1. report.docs + 1 \in Nat /\ report.chunks + n \in Nat
        BY <2>1, <3>4
      <4>2. \A a, b \in Nat :
              [report EXCEPT !.docs = a, !.chunks = b] \in [docs : Nat, chunks : Nat, errors : Nat]
        BY <2>1
      <4>3. [report EXCEPT !.docs = @ + 1, !.chunks = @ + n]
              = [report EXCEPT !.docs = report.docs + 1, !.chunks = report.chunks + n]
        BY <2>1
      <4> QED
        BY <4>1, <4>2, <4>3
    <3> QED
      BY <3>3, <3>5
  <2> QED
    BY <2>2, <2>3
<1>3. docs' = docs \/ \E s : Ended(s)
  <2>1. DocsTyped
    BY DEF ReportInv
  <2> QED
    BY <1>1, <1>2, <2>1, DocEnded
<1> QED
  BY <1>3, ChunksStay DEF ReportInv

\* All three hold in every state.
LEMMA ChunksKeepCut == Spec => [](IngestTypes /\ ReportInv /\ ChunksCut)
<1>1. Init => ChunksCut
  <2> SUFFICES ASSUME Init PROVE ChunksCut
    OBVIOUS
  <2>1. Len(docs) = 0
    BY DEF Init
  <2> QED
    BY <2>1 DEF ChunksCut
<1>2. IngestTypes /\ ReportInv /\ ChunksCut /\ [Next]_vars => ChunksCut'
  <2> SUFFICES ASSUME IngestTypes, ReportInv, ChunksCut, [Next]_vars PROVE ChunksCut'
    OBVIOUS
  <2>1. CASE NoChunks
    BY <2>1, NoChunksIsCut
  <2>2. CASE BeginDocument
    BY <2>2, BeginIsCut
  <2>3. CASE EmbedFails \/ UpsertFails \/ upsert_points
    BY <2>3, EndIsCut
  <2>4. CASE \/ Start \/ ensure_collection \/ create_text_index \/ SkipUrl \/ crawl_urls \/ CrawlFails
             \/ discover_files_inner \/ EntryFails \/ StackOverflow \/ Discovered \/ ReadFails \/ SkipEmpty
             \/ EmbedBatch \/ Finish \/ Kill \/ UNCHANGED vars
    <3>1. docs' = docs
      BY <2>4 DEF Start, ensure_collection, create_text_index, SkipUrl, crawl_urls, CrawlFails,
           discover_files_inner, EntryFails, StackOverflow, Discovered, ReadFails, SkipEmpty, EmbedBatch, Finish,
           Kill, vars, docVars
    <3> QED
      BY <3>1, ChunksStay DEF ReportInv
  <2> QED
    BY <2>1, <2>2, <2>3, <2>4 DEF Next
<1> QED
  BY <1>1, <1>2, ReportKeeps, PTL DEF Spec

\* Nothing of a text is lost between its chunks (chunk_text with the cut at a sentence end,
\* adjust_to_sentence_boundary), for every text whose characters are single bytes and every
\* size and overlap, when the overlap that is in effect is at least what a cut may take.
THEOREM ChunksCoverText == Spec => []OverlapCovers
<1>1. IngestTypes /\ ReportInv /\ ChunksCut => OverlapCovers
  <2> SUFFICES ASSUME ReportInv, ChunksCut, NEW d \in Open, Safe(Text[docs[d].source], docs[d].opts),
                      NEW i \in Lost(d)
               PROVE  FALSE
    BY DEF OverlapCovers
  <2> DEFINE s == docs[d].source
             o == docs[d].opts
             cs == docs[d].chunks
             all == chunk_text(Text[s], o)
  <2>1. d \in 1 .. Len(docs) /\ s \in DOMAIN Text /\ o \in Options
    <3>1. d \in 1 .. Len(docs)
      BY DEF Open, ReportInv, DocsTyped
    <3> QED
      BY <3>1 DEF ReportInv, DocsTyped, IsDoc
  <2>2. CutFrom(cs, all)
    BY <2>1 DEF ChunksCut
  <2>3. /\ i \in 0 .. Text[s].chars - 1 /\ i \notin Text[s].blank
        /\ \A k \in DOMAIN cs : i \notin cs[k].chunk.from .. (cs[k].chunk.to - 1)
    BY DEF Lost
  <2>4. Covered(all, i)
    <3> HIDE DEF s, o
    <3>1. Safe(Text[s], o)
      BY DEF s, o
    <3> QED
      BY <2>1, <2>3, <3>1, OverlapSuffices
  <2> HIDE DEF cs, all
  <2>5. PICK k \in DOMAIN all : i \in all[k].from .. (all[k].to - 1)
    BY <2>4 DEF Covered
  <2>6. k \in DOMAIN cs /\ cs[k].chunk = all[k]
    BY <2>2 DEF CutFrom
  <2> QED
    BY <2>3, <2>5, <2>6
<1> QED
  BY <1>1, ChunksKeepCut, PTL
=============================================================================
