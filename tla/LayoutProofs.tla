----------------------------- MODULE LayoutProofs -----------------------------
(***************************************************************************)
(* Proofs about Layout, for any events of a day and any number of them:    *)
(* groups have everything that overlaps a member, no block is ever more    *)
(* than twice as wide as another, events at one time stand apart, and a    *)
(* tap finds each of them.                                                 *)
(***************************************************************************)
EXTENDS Layout, FiniteSetTheorems, TLAPS

\* The blocks are of two sizes, halves and what is left of the wholes: the first
\* whole is split in its place, and its other half is the last block.
TwoSizes ==
  \E k \in Nat :
    /\ k <= Len(blocks) /\ Len(blocks) < 2 * k
    /\ \A b \in DOMAIN blocks :
         blocks[b].parts = IF Len(blocks) - k < b /\ b <= k THEN k ELSE 2 * k

\* While groups are formed, `group' is the newest.
Newest ==
  /\ at \in {"group", "scan"} => \A i \in All : groupOf[i] <= group
  /\ at # "group" => group # 0

\* No place in a group is beyond its end: each member finds its block.
PlacesFit ==
  /\ at = "scan" => size = Cardinality(Members(group))
  /\ \A i \in All, g \in Nat : groupOf[i] = g /\ g # 0 => rank[i] \in 1..Cardinality(Members(g))

\* A pass that has found nobody so far has passed over nobody that belongs.
PassedOver ==
  at = "scan" /\ ~changed =>
    \A k, j \in All : groupOf[k] = group /\ groupOf[j] = 0 /\ j < next => ~Overlap(k, j)

IInv == TypeOK /\ TwoSizes /\ Newest /\ PlacesFit /\ PassedOver /\ GroupsApart

-------------------------------------------------------------------------------
LEMMA OverlapSymmetric == \A i, j : Overlap(i, j) <=> Overlap(j, i)
BY DEF Overlap, EventsOverlap

\* What a step that changes neither the blocks nor the groups has to leave alone.
LEMMA SameEvents ==
  ASSUME events' = events
  PROVE  All' = All /\ \A i, j : Overlap(i, j)' <=> Overlap(i, j)
BY DEF All, N, Overlap, EventsOverlap

LEMMA KeepTypes ==
  ASSUME TypeOK, UNCHANGED <<dayLength, events>>,
         at' \in {"group", "scan", "split", "done"}, changed' \in BOOLEAN,
         groupOf' \in [All -> Nat], rank' \in [All -> Nat],
         group' \in Nat, size' \in Nat, next' \in Nat \ {0},
         blocks' \in Seq(Block), Len(blocks') > 0, column' \in [All -> Block]
  PROVE  TypeOK'
<1>1. All' = All
  BY SameEvents
<1> QED
  BY <1>1 DEF TypeOK

LEMMA MembersFinite ==
  ASSUME TypeOK, NEW g
  PROVE  /\ IsFiniteSet(Members(g)) /\ Cardinality(Members(g)) \in Nat
         /\ N \in Nat /\ All = 1..N
<1>1. N \in Nat
  BY DEF TypeOK, N
<1>2. IsFiniteSet(All)
  BY <1>1, FS_Interval DEF All
<1>3. IsFiniteSet(Members(g))
  BY <1>2, FS_Subset DEF Members
<1> QED
  BY <1>1, <1>3, FS_CardinalityType DEF All

\* A step that leaves the groups alone.
LEMMA SameGroups ==
  ASSUME UNCHANGED <<events, groupOf>>
  PROVE  All' = All /\ \A g : Members(g)' = Members(g)
BY SameEvents DEF Members

LEMMA MembersAfter ==
  ASSUME All' = All
  PROVE  \A g : Members(g)' = {i \in All : groupOf'[i] = g}
BY DEF Members

LEMMA OneBlockSizes ==
  ASSUME blocks = <<Whole>>
  PROVE  TwoSizes
<1>1. 1 \in Nat /\ Len(blocks) = 1 /\ DOMAIN blocks = {1} /\ blocks[1].parts = 1
  BY DEF Whole
<1> QED
  BY <1>1 DEF TwoSizes

LEMMA InitInv == Init => IInv
<1> SUFFICES ASSUME Init PROVE IInv
  OBVIOUS
<1>1. TypeOK
  <2>1. events \in Seq(Times)
    BY MaxEventsAssumption DEF Init
  <2>2. Whole \in Block /\ <<Whole>> \in Seq(Block) /\ Len(<<Whole>>) > 0
    BY DEF Whole, Block
  <2>3. groupOf \in [All -> Nat] /\ rank \in [All -> Nat] /\ column \in [All -> Block]
    BY <2>2 DEF Init
  <2>4. /\ blocks \in Seq(Block) /\ Len(blocks) > 0
        /\ dayLength \in DayLengths /\ at \in {"group", "scan", "split", "done"}
        /\ group \in Nat /\ size \in Nat /\ next \in Nat \ {0}
    BY <2>2 DEF Init
  <2>5. changed \in BOOLEAN
    BY Zenon DEF Init
  <2> QED
    BY <2>1, <2>3, <2>4, <2>5 DEF TypeOK
<1>2. TwoSizes
  <2>1. blocks = <<Whole>>
    BY DEF Init
  <2> QED
    BY <2>1, OneBlockSizes
<1>3. Newest /\ PlacesFit /\ PassedOver /\ GroupsApart
  BY DEF Init, Newest, PlacesFit, PassedOver, GroupsApart
<1> QED
  BY <1>1, <1>2, <1>3 DEF IInv

-------------------------------------------------------------------------------
(* The blocks.                                                             *)

\* Splitting a widest block of two sizes leaves two sizes.
LEMMA SplitKeepsBlocks ==
  ASSUME blocks \in Seq(Block), TwoSizes, NEW w \in DOMAIN blocks, Widest(w),
         blocks' = Append([blocks EXCEPT ![w] = LeftHalf(blocks[w])], RightHalf(blocks[w]))
  PROVE  blocks' \in Seq(Block) /\ Len(blocks') > 0 /\ TwoSizes'
<1> DEFINE left == LeftHalf(blocks[w])
           right == RightHalf(blocks[w])
           split == [blocks EXCEPT ![w] = left]
<1>1. blocks[w] \in Block
  OBVIOUS
<1>2. left \in Block /\ right \in Block
  BY <1>1 DEF Block, LeftHalf, RightHalf
<1>3. left.parts = 2 * blocks[w].parts /\ right.parts = 2 * blocks[w].parts
  BY DEF LeftHalf, RightHalf
<1> HIDE DEF left, right
<1>4. split \in Seq(Block) /\ Len(split) = Len(blocks)
  BY <1>2
<1>5. blocks' = Append(split, right)
  BY DEF left, right
<1>6. /\ blocks' \in Seq(Block) /\ Len(blocks') = Len(blocks) + 1
      /\ \A b \in DOMAIN blocks' : blocks'[b] = IF b = Len(blocks) + 1 THEN right
                                                ELSE IF b = w THEN left ELSE blocks[b]
  BY <1>2, <1>4, <1>5
<1>7. PICK k \in Nat :
        /\ k <= Len(blocks) /\ Len(blocks) < 2 * k
        /\ \A b \in DOMAIN blocks :
             blocks[b].parts = IF Len(blocks) - k < b /\ b <= k THEN k ELSE 2 * k
  BY DEF TwoSizes
<1> DEFINE n == Len(blocks)
           first == n - k + 1
<1>8. n \in Nat /\ DOMAIN blocks = 1..n /\ DOMAIN blocks' = 1..(n + 1) /\ Len(blocks') = n + 1
  BY <1>6
<1>9. first \in 1..n /\ first <= k
  BY <1>7, <1>8
<1>10. blocks[first].parts = k
  BY <1>7, <1>8, <1>9
<1> HIDE DEF n
<1>11. w = first
  <2>1. blocks[w].parts <= k /\ k < 2 * k
    BY <1>7, <1>8, <1>9, <1>10 DEF Widest
  <2>2. n - k < w /\ w <= k /\ w \in Nat
    BY <1>7, <1>8, <2>1 DEF n
  <2>3. blocks[w].parts = k
    BY <1>7, <1>8, <2>2 DEF n
  <2>4. first < w => blocks[w].parts < blocks[first].parts
    BY <1>8, <1>9 DEF Widest
  <2> QED
    BY <1>7, <1>8, <1>10, <2>2, <2>3, <2>4
<1>12. blocks[w].parts = k
  BY <1>10, <1>11
<1>13. \A b \in 1..(n + 1) :
         blocks'[b].parts = IF n + 1 - k < b /\ b <= k THEN k ELSE 2 * k
  <2> SUFFICES ASSUME NEW b \in 1..(n + 1)
               PROVE  blocks'[b].parts = IF n + 1 - k < b /\ b <= k THEN k ELSE 2 * k
    OBVIOUS
  <2>1. CASE b = n + 1
    BY <1>3, <1>6, <1>7, <1>8, <1>12, <2>1 DEF n
  <2>2. CASE b = w
    BY <1>3, <1>6, <1>7, <1>8, <1>9, <1>11, <1>12, <2>2 DEF n
  <2>3. CASE b # n + 1 /\ b # w
    <3>1. b \in DOMAIN blocks /\ blocks'[b] = blocks[b]
      BY <1>6, <1>8, <2>3 DEF n
    <3> QED
      BY <1>7, <1>8, <1>11, <2>3, <3>1 DEF n
  <2> QED
    BY <2>1, <2>2, <2>3
<1>14. TwoSizes'
  <2>1. CASE n + 1 < 2 * k
    <3>1. k <= n
      BY <1>7 DEF n
    <3>2. k <= n + 1
      BY <1>8, <3>1
    <3>3. /\ k <= Len(blocks') /\ Len(blocks') < 2 * k
          /\ \A b \in DOMAIN blocks' :
               blocks'[b].parts = IF Len(blocks') - k < b /\ b <= k THEN k ELSE 2 * k
      BY <1>8, <1>13, <2>1, <3>2
    <3> QED
      BY <3>3 DEF TwoSizes
  <2>2. CASE n + 1 = 2 * k
    <3>1. \A b \in 1..(n + 1) : blocks'[b].parts = 2 * k
      <4>1. \A b \in 1..(n + 1) : ~(n + 1 - k < b /\ b <= k)
        BY <1>8, <2>2
      <4> QED
        BY <1>13, <4>1
    <3>2. PICK m \in Nat : m = 2 * k
      BY <1>7
    <3>3. m <= n + 1 /\ n + 1 < 2 * m /\ n + 1 - m = 0
      BY <1>7, <1>8, <2>2, <3>2
    <3>4. \A b \in 1..(n + 1) : n + 1 - m < b /\ b <= m /\ blocks'[b].parts = m
      BY <1>8, <2>2, <3>1, <3>2
    <3>5. \A b \in 1..(n + 1) :
            blocks'[b].parts = IF n + 1 - m < b /\ b <= m THEN m ELSE 2 * m
      BY <3>4
    <3>6. /\ m <= Len(blocks') /\ Len(blocks') < 2 * m
          /\ \A b \in DOMAIN blocks' :
               blocks'[b].parts = IF Len(blocks') - m < b /\ b <= m THEN m ELSE 2 * m
      BY <1>8, <3>3, <3>5
    <3> QED
      BY <3>6 DEF TwoSizes
  <2>3. n < 2 * k
    BY <1>7 DEF n
  <2>4. n + 1 < 2 * k \/ n + 1 = 2 * k
    BY <1>7, <1>8, <2>3
  <2> QED
    BY <2>1, <2>2, <2>4
<1> QED
  BY <1>6, <1>14

LEMMA OneBlock ==
  ASSUME blocks' = <<Whole>>
  PROVE  blocks' \in Seq(Block) /\ Len(blocks') > 0 /\ TwoSizes'
<1>1. Whole \in Block
  BY DEF Whole, Block
<1>2. 1 \in Nat /\ Len(blocks') = 1 /\ DOMAIN blocks' = {1} /\ blocks'[1].parts = 1
  BY DEF Whole
<1>3. TwoSizes'
  BY <1>2 DEF TwoSizes
<1> QED
  BY <1>1, <1>2, <1>3

-------------------------------------------------------------------------------
(* One case per action.                                                    *)

LEMMA StepInv == IInv /\ [Next]_vars => IInv'
<1> SUFFICES ASSUME IInv, [Next]_vars PROVE IInv'
  OBVIOUS
<1>a. TypeOK /\ TwoSizes /\ Newest /\ PlacesFit /\ PassedOver /\ GroupsApart
  BY DEF IInv
<1>e. N \in Nat /\ All = 1..N
  BY <1>a, MembersFinite
<1>b. /\ groupOf \in [All -> Nat] /\ rank \in [All -> Nat]
      /\ group \in Nat /\ size \in Nat /\ next \in Nat \ {0}
  BY <1>a DEF TypeOK
<1>f. /\ at \in {"group", "scan", "split", "done"} /\ changed \in BOOLEAN
      /\ blocks \in Seq(Block) /\ Len(blocks) > 0 /\ column \in [All -> Block]
  BY <1>a DEF TypeOK
<1>c. blocks' = blocks => TwoSizes'
  BY <1>a DEF TwoSizes
<1>d. \A g : IsFiniteSet(Members(g)) /\ Cardinality(Members(g)) \in Nat
  BY <1>a, MembersFinite
<1>1. ASSUME BeginGroup PROVE IInv'
  <2>1. PICK i \in All : /\ groupOf[i] = 0
                         /\ groupOf' = [groupOf EXCEPT ![i] = group + 1]
                         /\ rank' = [rank EXCEPT ![i] = 1]
    BY <1>1 DEF BeginGroup
  <2>2. /\ at = "group" /\ at' = "scan" /\ group' = group + 1 /\ size' = 1
        /\ next' = 1 /\ changed' = FALSE
        /\ UNCHANGED <<dayLength, events, blocks, column>>
    BY <1>1 DEF BeginGroup
  <2>3. All' = All /\ \A k, j : Overlap(k, j)' <=> Overlap(k, j)
    BY <2>2, SameEvents
  <2>4. TypeOK' /\ TwoSizes'
    <3>1. groupOf' \in [All -> Nat] /\ rank' \in [All -> Nat]
      BY <1>b, <2>1
    <3> QED
      <4>1. /\ group' \in Nat /\ size' \in Nat /\ next' \in Nat \ {0}
            /\ at' \in {"group", "scan", "split", "done"}
        BY <1>b, <2>2
      <4>3. changed' \in BOOLEAN
        BY <2>2, Zenon
      <4>2. blocks' \in Seq(Block) /\ Len(blocks') > 0 /\ column' \in [All -> Block] /\ TwoSizes'
        BY <1>c, <1>f, <2>2
      <4> QED
        BY <1>a, <2>2, <3>1, <4>1, <4>2, <4>3, KeepTypes
  <2>5. \A j \in All : groupOf'[j] = IF j = i THEN group + 1 ELSE groupOf[j]
    BY <1>b, <2>1
  <2>6. Newest'
    BY <1>a, <1>b, <2>2, <2>3, <2>5 DEF Newest
  <2>7. PassedOver'
    BY <2>2, <2>3 DEF PassedOver, All
  <2>8. GroupsApart'
    <3> SUFFICES ASSUME NEW k \in All, NEW j \in All,
                        groupOf'[k] # 0, groupOf'[k] < group + 1, groupOf'[j] # groupOf'[k]
                 PROVE ~Overlap(k, j)
      BY <2>2, <2>3 DEF GroupsApart, Closed
    <3>1. groupOf[k] # 0 /\ groupOf[j] # groupOf[k]
      BY <1>b, <2>1, <2>5
    <3> QED
      BY <1>a, <2>2, <3>1 DEF GroupsApart, Closed
  <2>9. PlacesFit'
    <3> DEFINE After(g) == {j \in All : groupOf'[j] = g}
    <3>1. After(group + 1) = {i}
      BY <1>a, <1>b, <2>2, <2>5 DEF Newest
    <3>2. \A g : g # 0 /\ g # group + 1 => After(g) = Members(g)
      BY <2>1, <2>5 DEF Members
    <3>3. \A j \in All : rank'[j] = IF j = i THEN 1 ELSE rank[j]
      BY <1>b, <2>1
    <3>4. Cardinality({i}) = 1
      BY FS_Singleton
    <3>5. \A j \in All, g \in Nat :
            groupOf'[j] = g /\ g # 0 => rank'[j] \in 1..Cardinality(After(g))
      <4> SUFFICES ASSUME NEW j \in All, NEW g \in Nat, groupOf'[j] = g, g # 0
                   PROVE rank'[j] \in 1..Cardinality(After(g))
        OBVIOUS
      <4>1. CASE j = i
        <5>1. g = group + 1 /\ rank'[j] = 1
          BY <2>5, <3>3, <4>1
        <5>2. Cardinality(After(g)) = 1
          BY <3>1, <3>4, <5>1
        <5> QED
          BY <5>1, <5>2
      <4>2. CASE j # i
        <5>1. groupOf[j] = g /\ g # group + 1 /\ rank'[j] = rank[j]
          BY <1>a, <1>b, <2>2, <2>5, <3>3, <4>2 DEF Newest
        <5>2. rank[j] \in 1..Cardinality(Members(g))
          BY <1>a, <5>1 DEF PlacesFit
        <5>3. After(g) = Members(g)
          BY <3>2, <5>1
        <5> QED
          BY <5>1, <5>2, <5>3
      <4> QED
        BY <4>1, <4>2
    <3> QED
      <4>1. \A g : Members(g)' = After(g)
        BY <2>3, MembersAfter
      <4>2. After(group') = {i}
        BY <2>2, <3>1
      <4> HIDE DEF After
      <4> QED
        BY <2>2, <2>3, <3>4, <3>5, <4>1, <4>2 DEF PlacesFit
  <2> QED
    BY <2>4, <2>6, <2>7, <2>8, <2>9 DEF IInv
<1>2. ASSUME Scan PROVE IInv'
  <2>1. /\ at = "scan" /\ next <= N /\ next' = next + 1
        /\ UNCHANGED <<dayLength, events, at, group, blocks, column>>
    BY <1>2 DEF Scan
  <2>2. All' = All /\ \A k, j : Overlap(k, j)' <=> Overlap(k, j)
    BY <2>1, SameEvents
  <2>3. next \in All /\ group # 0
    BY <1>a, <1>b, <1>e, <2>1 DEF Newest
  <2>4. CASE /\ groupOf[next] = 0
             /\ groupOf' = [groupOf EXCEPT ![next] = group]
             /\ rank' = [rank EXCEPT ![next] = size + 1]
             /\ size' = size + 1 /\ changed' = TRUE
    <3>1. TypeOK' /\ TwoSizes'
      <4>1. groupOf' \in [All -> Nat] /\ rank' \in [All -> Nat]
        <5>1. size + 1 \in Nat
          BY <1>b
        <5> QED
          BY <1>b, <2>4, <5>1
      <4> QED
        BY <1>a, <1>b, <1>c, <1>f, <2>1, <2>4, <4>1, KeepTypes
    <3>2. \A j \in All : groupOf'[j] = IF j = next THEN group ELSE groupOf[j]
      BY <1>b, <2>4
    <3>3. Newest' /\ PassedOver'
      BY <1>a, <1>b, <2>1, <2>2, <2>4, <3>2 DEF Newest, PassedOver
    <3>4. GroupsApart'
      <4> SUFFICES ASSUME NEW k \in All, NEW j \in All,
                          groupOf'[k] # 0, groupOf'[k] < group, groupOf'[j] # groupOf'[k]
                   PROVE ~Overlap(k, j)
        BY <2>1, <2>2 DEF GroupsApart, Closed
      <4>1. groupOf[k] # 0 /\ groupOf[k] < group /\ groupOf[j] # groupOf[k]
        BY <1>b, <2>3, <2>4, <3>2
      <4> QED
        BY <1>a, <4>1 DEF GroupsApart, Closed
    <3>5. PlacesFit'
      <4> DEFINE After(g) == {j \in All : groupOf'[j] = g}
      <4>1. After(group) = Members(group) \union {next} /\ next \notin Members(group)
        BY <2>3, <2>4, <3>2 DEF Members
      <4>2. \A g : g # 0 /\ g # group => After(g) = Members(g)
        BY <2>4, <3>2 DEF Members
      <4>3. Cardinality(After(group)) = Cardinality(Members(group)) + 1
        BY <1>d, <4>1, FS_AddElement
      <4>4. size = Cardinality(Members(group))
        BY <1>a, <2>1 DEF PlacesFit
      <4>5. \A j \in All : rank'[j] = IF j = next THEN size + 1 ELSE rank[j]
        BY <1>b, <2>4
      <4>6. \A j \in All, g \in Nat :
              groupOf'[j] = g /\ g # 0 => rank'[j] \in 1..Cardinality(After(g))
        <5> SUFFICES ASSUME NEW j \in All, NEW g \in Nat, groupOf'[j] = g, g # 0
                     PROVE rank'[j] \in 1..Cardinality(After(g))
          OBVIOUS
        <5>1. CASE j = next
          <6>1. g = group /\ rank'[j] = size + 1
            BY <3>2, <4>5, <5>1
          <6>2. Cardinality(After(g)) = size + 1
            BY <4>3, <4>4, <6>1
          <6> QED
            BY <1>b, <6>1, <6>2
        <5>2. CASE j # next
          <6>1. groupOf[j] = g /\ rank'[j] = rank[j]
            BY <3>2, <4>5, <5>2
          <6>2. rank[j] \in 1..Cardinality(Members(g))
            BY <1>a, <6>1 DEF PlacesFit
          <6>3. CASE g = group
            <7>1. Cardinality(After(g)) = Cardinality(Members(g)) + 1
              BY <4>3, <6>3
            <7>2. Cardinality(Members(g)) \in Nat
              BY <1>d
            <7> QED
              BY <6>1, <6>2, <7>1, <7>2
          <6>4. CASE g # group
            <7>1. After(g) = Members(g)
              BY <4>2, <6>4
            <7> QED
              BY <6>1, <6>2, <7>1
          <6> QED
            BY <6>3, <6>4
        <5> QED
          BY <5>1, <5>2
      <4> QED
        <5>1. \A g : Members(g)' = After(g)
          BY <2>2, MembersAfter
        <5>2. size' = Cardinality(After(group'))
          BY <2>1, <2>4, <4>3, <4>4
        <5> HIDE DEF After
        <5> QED
          BY <2>2, <4>6, <5>1, <5>2 DEF PlacesFit
    <3> QED
      BY <3>1, <3>3, <3>4, <3>5 DEF IInv
  <2>5. CASE /\ ~(groupOf[next] = 0 /\ \E k \in Members(group) : Overlap(k, next))
             /\ UNCHANGED <<groupOf, rank, size, changed>>
    <3>1. TypeOK' /\ TwoSizes'
      BY <1>a, <1>b, <1>c, <1>f, <2>1, <2>5, KeepTypes
    <3>2. Newest'
      BY <1>a, <2>1, <2>2, <2>5 DEF Newest
    <3>3. PassedOver'
      <4> SUFFICES ASSUME ~changed, NEW k \in All, NEW j \in All,
                          groupOf[k] = group, groupOf[j] = 0, j < next + 1
                   PROVE ~Overlap(k, j)
        BY <2>1, <2>2, <2>5 DEF PassedOver
      <4>1. CASE j = next
        BY <2>5, <4>1 DEF Members
      <4>2. CASE j # next
        <5>1. j < next
          BY <1>b, <1>e, <4>2
        <5> QED
          BY <1>a, <2>1, <5>1 DEF PassedOver
      <4> QED
        BY <4>1, <4>2
    <3>4. GroupsApart'
      BY <1>a, <2>1, <2>2, <2>5 DEF GroupsApart, Closed
    <3>5. PlacesFit'
      BY <1>a, <2>1, <2>5, SameGroups DEF PlacesFit
    <3> QED
      BY <3>1, <3>2, <3>3, <3>4, <3>5 DEF IInv
  <2> QED
    BY <1>2, <2>4, <2>5 DEF Scan
<1>3. ASSUME EndPass PROVE IInv'
  <2>1. /\ at = "scan" /\ next > N /\ next' = 1 /\ changed' = FALSE
        /\ at' = IF changed THEN "scan" ELSE "group"
        /\ UNCHANGED <<dayLength, events, groupOf, rank, group, size, blocks, column>>
    BY <1>3 DEF EndPass
  <2>2. All' = All /\ \A k, j : Overlap(k, j)' <=> Overlap(k, j)
    BY <2>1, SameEvents
  <2>3. TypeOK' /\ TwoSizes'
    <3>1. next' \in Nat \ {0} /\ at' \in {"group", "scan", "split", "done"}
      BY <2>1
    <3>3. changed' \in BOOLEAN
      BY <2>1, Zenon
    <3>2. blocks' \in Seq(Block) /\ Len(blocks') > 0 /\ column' \in [All -> Block] /\ TwoSizes'
      BY <1>c, <1>f, <2>1
    <3> QED
      BY <1>a, <1>b, <2>1, <3>1, <3>2, <3>3, KeepTypes
  <2>4. Newest'
    BY <1>a, <2>1, <2>2 DEF Newest
  <2>5. PassedOver'
    BY <2>1, <2>2 DEF PassedOver, All
  <2>6. GroupsApart'
    <3> SUFFICES ASSUME NEW k \in All, NEW j \in All, groupOf[k] # 0, groupOf[j] # groupOf[k],
                        changed => groupOf[k] < group
                 PROVE ~Overlap(k, j)
      BY <2>1, <2>2 DEF GroupsApart, Closed
    <3>1. CASE groupOf[k] < group
      BY <1>a, <3>1 DEF GroupsApart, Closed
    <3>2. CASE groupOf[k] = group /\ groupOf[j] = 0
      <4>1. j < next
        BY <1>b, <1>e, <2>1
      <4> QED
        BY <1>a, <2>1, <3>1, <3>2, <4>1 DEF PassedOver
    <3>3. CASE groupOf[k] = group /\ groupOf[j] # 0
      <4>1. groupOf[j] < group
        BY <1>a, <1>b, <2>1, <3>3 DEF Newest
      <4>2. ~Overlap(j, k)
        BY <1>a, <3>3, <4>1 DEF GroupsApart, Closed
      <4> QED
        BY <4>2, OverlapSymmetric
    <3> QED
      BY <1>a, <1>b, <2>1, <3>1, <3>2, <3>3 DEF Newest
  <2>7. PlacesFit'
    BY <1>a, <2>1, SameGroups DEF PlacesFit
  <2> QED
    BY <2>3, <2>4, <2>5, <2>6, <2>7 DEF IInv
<1>4. ASSUME EndGroups PROVE IInv'
  <2>1. /\ at = "group" /\ at' \in {"done", "split"} /\ group' = 1 /\ blocks' = <<Whole>>
        /\ UNCHANGED <<dayLength, events, groupOf, rank, size, next, changed, column>>
    BY <1>4 DEF EndGroups
  <2>2. All' = All /\ \A k, j : Overlap(k, j)' <=> Overlap(k, j)
    BY <2>1, SameEvents
  <2>3. TypeOK' /\ TwoSizes'
    BY <1>a, <1>b, <1>f, <2>1, OneBlock, KeepTypes
  <2>4. Newest' /\ PassedOver' /\ PlacesFit'
    BY <1>a, <2>1, SameGroups DEF Newest, PassedOver, PlacesFit
  <2>5. GroupsApart'
    BY <1>a, <2>1, <2>2 DEF GroupsApart, Closed
  <2> QED
    BY <2>3, <2>4, <2>5 DEF IInv
<1>5. ASSUME Split PROVE IInv'
  <2>1. PICK w \in DOMAIN blocks :
          /\ Widest(w)
          /\ blocks' = Append([blocks EXCEPT ![w] = LeftHalf(blocks[w])], RightHalf(blocks[w]))
    BY <1>5 DEF Split
  <2>2. /\ at = "split"
        /\ UNCHANGED <<dayLength, events, at, groupOf, rank, group, size, next, changed, column>>
    BY <1>5 DEF Split
  <2>3. All' = All /\ \A k, j : Overlap(k, j)' <=> Overlap(k, j)
    BY <2>2, SameEvents
  <2>4. blocks \in Seq(Block)
    BY <1>a DEF TypeOK
  <2>5. blocks' \in Seq(Block) /\ Len(blocks') > 0 /\ TwoSizes'
    BY <1>a, <2>1, <2>4, SplitKeepsBlocks
  <2>6. TypeOK'
    BY <1>a, <1>b, <1>f, <2>2, <2>5, KeepTypes
  <2>7. Newest' /\ PassedOver' /\ PlacesFit'
    BY <1>a, <2>2, SameGroups DEF Newest, PassedOver, PlacesFit
  <2>8. GroupsApart'
    BY <1>a, <2>2, <2>3 DEF GroupsApart, Closed
  <2> QED
    BY <2>5, <2>6, <2>7, <2>8 DEF IInv
<1>6. ASSUME DrawGroup PROVE IInv'
  <2>1. /\ at = "split" /\ at' \in {"done", "split"} /\ group' = group + 1
        /\ blocks' = <<Whole>> /\ Len(blocks) = Cardinality(Members(group))
        /\ column' = [i \in All |-> IF groupOf[i] = group THEN blocks[rank[i]] ELSE column[i]]
        /\ UNCHANGED <<dayLength, events, groupOf, rank, size, next, changed>>
    BY <1>6 DEF DrawGroup
  <2>2. All' = All /\ \A k, j : Overlap(k, j)' <=> Overlap(k, j)
    BY <2>1, SameEvents
  <2>3. TypeOK' /\ TwoSizes'
    <3>1. ASSUME NEW i \in All, groupOf[i] = group PROVE blocks[rank[i]] \in Block
      <4>1. group # 0
        BY <1>a, <2>1 DEF Newest
      <4>2. rank[i] \in 1..Len(blocks)
        BY <1>a, <1>b, <2>1, <3>1, <4>1 DEF PlacesFit
      <4> QED
        BY <1>f, <4>2
    <3>2. column' \in [All -> Block]
      BY <1>f, <2>1, <3>1
    <3> QED
      BY <1>a, <1>b, <1>f, <2>1, <3>2, OneBlock, KeepTypes
  <2>4. Newest' /\ PassedOver' /\ PlacesFit'
    BY <1>a, <1>b, <2>1, SameGroups DEF Newest, PassedOver, PlacesFit
  <2>5. GroupsApart'
    BY <1>a, <2>1, <2>2 DEF GroupsApart, Closed
  <2> QED
    BY <2>3, <2>4, <2>5 DEF IInv
<1>7. CASE UNCHANGED vars
  <2>1. UNCHANGED <<dayLength, events, at, groupOf, rank, group, size, next, changed, blocks, column>>
    BY <1>7 DEF vars
  <2>2. All' = All /\ \A k, j : Overlap(k, j)' <=> Overlap(k, j)
    BY <2>1, SameEvents
  <2>3. TypeOK' /\ TwoSizes' /\ Newest' /\ PassedOver' /\ GroupsApart'
    BY <1>a, <1>b, <1>c, <1>f, <2>1, <2>2, KeepTypes DEF Newest, PassedOver, GroupsApart, Closed
  <2>4. PlacesFit'
    BY <1>a, <2>1, SameGroups DEF PlacesFit
  <2> QED
    BY <2>3, <2>4 DEF IInv
<1> QED
  BY <1>1, <1>2, <1>3, <1>4, <1>5, <1>6, <1>7 DEF Next

THEOREM Invariance == Spec => []IInv
<1>1. Init => IInv
  BY InitInv
<1>2. IInv /\ [Next]_vars => IInv'
  BY StepInv
<1> QED
  BY <1>1, <1>2, PTL DEF Spec

(* Every reachable state has its type; in particular every member of a     *)
(* group finds a block to be drawn in.                                     *)
THEOREM TypeCorrect == Spec => []TypeOK
<1>1. IInv => TypeOK
  BY DEF IInv
<1> QED
  BY <1>1, Invariance, PTL

(* overlapGroups leaves no overlap between two groups.                     *)
THEOREM GroupsCorrect == Spec => []GroupsApart
<1>1. IInv => GroupsApart
  BY DEF IInv
<1> QED
  BY <1>1, Invariance, PTL

(* The guarantee of ADR-0001, for a group of any size.                     *)
THEOREM SplitsAreBalanced == Spec => []Balanced
<1>1. IInv => Balanced
  <2> SUFFICES ASSUME IInv, NEW a \in DOMAIN blocks, NEW b \in DOMAIN blocks
               PROVE blocks[a].parts <= 2 * blocks[b].parts
    BY DEF Balanced
  <2>1. PICK k \in Nat : \A c \in DOMAIN blocks : blocks[c].parts \in {k, 2 * k}
    BY DEF IInv, TwoSizes
  <2> QED
    BY <2>1
<1> QED
  BY <1>1, Invariance, PTL

-------------------------------------------------------------------------------
(* Events at the same time stand side by side.                             *)

BlocksApart == \A b, c \in DOMAIN blocks : b # c => Apart(blocks[b], blocks[c])

\* No two members of a group have one place.
OwnPlace ==
  \A i, j \in All : i # j /\ groupOf[i] # 0 /\ groupOf[i] = groupOf[j] => rank[i] # rank[j]

\* The groups before `group' are drawn.
Drawn ==
  at \in {"split", "done"} =>
    /\ \A i \in All : groupOf[i] # 0
    /\ at = "done" => \A i \in All : groupOf[i] < group
    /\ \A i, j \in All :
         i # j /\ groupOf[i] = groupOf[j] /\ groupOf[i] < group => Apart(column[i], column[j])

DInv == BlocksApart /\ OwnPlace /\ Drawn

LEMMA ApartSymmetric == \A a, b : Apart(a, b) <=> Apart(b, a)
BY DEF Apart

(* What is apart from a block is apart from its halves.                    *)
LEMMA HalvesApart ==
  ASSUME NEW a \in Block, NEW b \in Block, Apart(a, b)
  PROVE  Apart(LeftHalf(a), b) /\ Apart(RightHalf(a), b)
<1>1. /\ LeftHalf(a).parts = 2 * a.parts /\ LeftHalf(a).pos = 2 * a.pos
      /\ RightHalf(a).parts = 2 * a.parts /\ RightHalf(a).pos = 2 * a.pos + 1
  BY DEF LeftHalf, RightHalf
<1>2. a.parts \in Nat /\ a.pos \in Nat /\ b.parts \in Nat /\ b.pos \in Nat
  BY DEF Block
<1>3. PICK ab \in Nat : ab = a.pos * b.parts
  BY <1>2
<1>4. PICK ba \in Nat : ba = b.pos * a.parts
  BY <1>2
<1>5. /\ (a.pos + 1) * b.parts = ab + b.parts
      /\ (2 * a.pos) * b.parts = 2 * ab
      /\ (2 * a.pos + 1) * b.parts = 2 * ab + b.parts
      /\ ((2 * a.pos + 1) + 1) * b.parts = 2 * ab + 2 * b.parts
  BY <1>2, <1>3
<1>6. /\ (b.pos + 1) * a.parts = ba + a.parts
      /\ b.pos * (2 * a.parts) = 2 * ba
      /\ (b.pos + 1) * (2 * a.parts) = 2 * ba + 2 * a.parts
  BY <1>2, <1>4
<1>7. (ab + b.parts <= ba) \/ (ba + a.parts <= ab)
  BY <1>3, <1>4, <1>5, <1>6 DEF Apart, Before
<1>8. /\ Before(LeftHalf(a), b) <=> 2 * ab + b.parts <= 2 * ba
      /\ Before(b, LeftHalf(a)) <=> 2 * ba + 2 * a.parts <= 2 * ab
  BY <1>1, <1>5, <1>6 DEF Before
<1>9. Before(RightHalf(a), b) <=> 2 * ab + 2 * b.parts <= 2 * ba
  <2>1. (RightHalf(a).pos + 1) * b.parts = 2 * ab + 2 * b.parts
    BY <1>1, <1>5
  <2>2. b.pos * RightHalf(a).parts = 2 * ba
    BY <1>1, <1>6
  <2> QED
    BY <2>1, <2>2 DEF Before
<1>10. Before(b, RightHalf(a)) <=> 2 * ba + 2 * a.parts <= 2 * ab + b.parts
  <2>1. (b.pos + 1) * RightHalf(a).parts = 2 * ba + 2 * a.parts
    BY <1>1, <1>6
  <2>2. RightHalf(a).pos * b.parts = 2 * ab + b.parts
    BY <1>1, <1>5
  <2> QED
    BY <2>1, <2>2 DEF Before
<1> QED
  BY <1>2, <1>7, <1>8, <1>9, <1>10 DEF Apart

LEMMA SplitKeepsApart ==
  ASSUME blocks \in Seq(Block), BlocksApart, NEW w \in DOMAIN blocks, Widest(w),
         blocks' = Append([blocks EXCEPT ![w] = LeftHalf(blocks[w])], RightHalf(blocks[w]))
  PROVE  BlocksApart'
<1> DEFINE left == LeftHalf(blocks[w])
           right == RightHalf(blocks[w])
           last == Len(blocks) + 1
<1>1. blocks[w] \in Block
  OBVIOUS
<1>2. left \in Block /\ right \in Block /\ Apart(left, right)
  <2>1. left \in Block /\ right \in Block
    BY <1>1 DEF Block, LeftHalf, RightHalf
  <2>2. left.pos + 1 = right.pos /\ left.parts = right.parts
    BY DEF LeftHalf, RightHalf
  <2>3. Before(left, right)
    BY <2>1, <2>2 DEF Before, Block
  <2> QED
    BY <2>1, <2>3 DEF Apart
<1>3. \A b \in DOMAIN blocks \ {w} : blocks[b] \in Block /\ Apart(left, blocks[b]) /\ Apart(right, blocks[b])
  BY <1>1, HalvesApart DEF BlocksApart, Widest
<1>4. blocks' = Append([blocks EXCEPT ![w] = left], right)
  OBVIOUS
<1> HIDE DEF left, right
<1>5. /\ DOMAIN blocks' = DOMAIN blocks \union {last} /\ last \notin DOMAIN blocks
      /\ blocks'[last] = right /\ blocks'[w] = left
      /\ \A b \in DOMAIN blocks \ {w} : blocks'[b] = blocks[b]
  BY <1>2, <1>4
<1> HIDE DEF last
<1>6. ASSUME NEW b \in DOMAIN blocks', NEW c \in DOMAIN blocks', b # c
      PROVE  Apart(blocks'[b], blocks'[c])
  <2>1. CASE b \in DOMAIN blocks \ {w} /\ c \in DOMAIN blocks \ {w}
    BY <1>5, <1>6, <2>1 DEF BlocksApart
  <2>2. CASE b \in {w, last} /\ c \in DOMAIN blocks \ {w}
    BY <1>3, <1>5, <2>2
  <2>3. CASE b \in DOMAIN blocks \ {w} /\ c \in {w, last}
    BY <1>2, <1>3, <1>5, <2>3, ApartSymmetric
  <2>4. CASE b \in {w, last} /\ c \in {w, last}
    BY <1>2, <1>5, <1>6, <2>4, ApartSymmetric
  <2> QED
    BY <1>5, <2>1, <2>2, <2>3, <2>4
<1> QED
  BY <1>6 DEF BlocksApart

LEMMA OneBlockApart ==
  ASSUME blocks' = <<Whole>>
  PROVE  BlocksApart'
BY DEF BlocksApart

LEMMA InitDrawn == Init => DInv
<1> SUFFICES ASSUME Init PROVE DInv
  OBVIOUS
<1>1. BlocksApart
  BY DEF Init, BlocksApart
<1>2. OwnPlace /\ Drawn
  BY DEF Init, OwnPlace, Drawn
<1> QED
  BY <1>1, <1>2 DEF DInv

LEMMA StepDrawn == IInv /\ DInv /\ [Next]_vars => DInv'
<1> SUFFICES ASSUME IInv, DInv, [Next]_vars PROVE DInv'
  OBVIOUS
<1>a. TypeOK /\ Newest /\ PlacesFit /\ BlocksApart /\ OwnPlace /\ Drawn
  BY DEF IInv, DInv
<1>b. /\ groupOf \in [All -> Nat] /\ rank \in [All -> Nat]
      /\ group \in Nat /\ size \in Nat /\ next \in Nat \ {0} /\ blocks \in Seq(Block)
  BY <1>a DEF TypeOK
<1>e. N \in Nat /\ All = 1..N
  BY <1>a, MembersFinite
<1>s. blocks' = blocks => BlocksApart'
  BY <1>a DEF BlocksApart
<1>o. UNCHANGED <<events, groupOf, rank>> => OwnPlace'
  BY <1>a, SameEvents DEF OwnPlace
<1>1. ASSUME BeginGroup PROVE DInv'
  <2>1. PICK i \in All : /\ groupOf[i] = 0
                         /\ groupOf' = [groupOf EXCEPT ![i] = group + 1]
                         /\ rank' = [rank EXCEPT ![i] = 1]
    BY <1>1 DEF BeginGroup
  <2>2. /\ at = "group" /\ at' = "scan"
        /\ UNCHANGED <<events, blocks>>
    BY <1>1 DEF BeginGroup
  <2>3. /\ \A j \in All : groupOf'[j] = IF j = i THEN group + 1 ELSE groupOf[j]
        /\ \A j \in All : j # i => rank'[j] = rank[j]
    BY <1>b, <2>1
  <2>4. \A j \in All : groupOf[j] <= group /\ groupOf[j] \in Nat
    BY <1>a, <1>b, <2>2 DEF Newest
  <2>5. OwnPlace'
    <3> SUFFICES ASSUME NEW j \in All, NEW k \in All, j # k, groupOf'[j] # 0, groupOf'[j] = groupOf'[k]
                 PROVE  rank'[j] # rank'[k]
      BY <2>2, SameEvents DEF OwnPlace
    <3>1. j # i /\ k # i
      BY <1>b, <2>3, <2>4
    <3> QED
      BY <1>a, <2>3, <3>1 DEF OwnPlace
  <2>6. Drawn'
    BY <2>2 DEF Drawn
  <2> QED
    BY <1>s, <2>2, <2>5, <2>6 DEF DInv
<1>2. ASSUME Scan PROVE DInv'
  <2>1. /\ at = "scan" /\ next <= N /\ UNCHANGED <<events, at, blocks>>
    BY <1>2 DEF Scan
  <2>2. CASE UNCHANGED <<groupOf, rank>>
    BY <1>s, <1>o, <2>1, <2>2 DEF DInv, Drawn
  <2>3. CASE /\ groupOf' = [groupOf EXCEPT ![next] = group]
             /\ rank' = [rank EXCEPT ![next] = size + 1]
    <3>1. next \in All /\ group # 0
      BY <1>a, <1>b, <1>e, <2>1 DEF Newest
    <3>2. \A j \in All : /\ groupOf'[j] = IF j = next THEN group ELSE groupOf[j]
                         /\ rank'[j] = IF j = next THEN size + 1 ELSE rank[j]
      BY <1>b, <2>3
    <3>3. \A j \in All : groupOf[j] = group => rank[j] \in 1..size
      BY <1>a, <1>b, <2>1, <3>1 DEF PlacesFit
    <3>4. OwnPlace'
      <4> SUFFICES ASSUME NEW j \in All, NEW k \in All, j # k, groupOf'[j] # 0, groupOf'[j] = groupOf'[k]
                   PROVE  rank'[j] # rank'[k]
        BY <2>1, SameEvents DEF OwnPlace
      <4>1. CASE j = next
        BY <1>b, <3>2, <3>3, <4>1
      <4>2. CASE k = next
        BY <1>b, <3>2, <3>3, <4>2
      <4>3. CASE j # next /\ k # next
        BY <1>a, <3>2, <4>3 DEF OwnPlace
      <4> QED
        BY <4>1, <4>2, <4>3
    <3> QED
      BY <1>s, <2>1, <3>4 DEF DInv, Drawn
  <2> QED
    BY <1>2, <2>2, <2>3 DEF Scan
<1>3. ASSUME EndPass PROVE DInv'
  BY <1>3, <1>s, <1>o DEF EndPass, DInv, Drawn
<1>4. ASSUME EndGroups PROVE DInv'
  <2>1. /\ at' = (IF N = 0 THEN "done" ELSE "split") /\ group' = 1 /\ blocks' = <<Whole>>
        /\ \A i \in All : groupOf[i] # 0
        /\ UNCHANGED <<events, groupOf, rank, column>>
    BY <1>4 DEF EndGroups
  <2>2. All' = All
    BY <2>1, SameEvents
  <2>3. \A i \in All : ~ groupOf[i] < 1
    BY <1>b, <2>1
  <2>4. at' = "done" => All = {}
    BY <1>e, <2>1
  <2>5. Drawn'
    BY <2>1, <2>2, <2>3, <2>4 DEF Drawn
  <2> QED
    BY <1>o, <2>1, <2>5, OneBlockApart DEF DInv
<1>5. ASSUME Split PROVE DInv'
  <2>1. PICK w \in DOMAIN blocks :
          /\ Widest(w)
          /\ blocks' = Append([blocks EXCEPT ![w] = LeftHalf(blocks[w])], RightHalf(blocks[w]))
    BY <1>5 DEF Split
  <2>2. UNCHANGED <<events, at, groupOf, rank, group, column>>
    BY <1>5 DEF Split
  <2>3. BlocksApart'
    BY <1>a, <1>b, <2>1, SplitKeepsApart
  <2>4. Drawn'
    BY <1>a, <2>2, SameEvents DEF Drawn
  <2> QED
    BY <1>o, <2>2, <2>3, <2>4 DEF DInv
<1>6. ASSUME DrawGroup PROVE DInv'
  <2>1. /\ at = "split" /\ group' = group + 1
        /\ at' = (IF \A i \in All : groupOf[i] <= group THEN "done" ELSE "split")
        /\ blocks' = <<Whole>> /\ Len(blocks) = Cardinality(Members(group))
        /\ column' = [i \in All |-> IF groupOf[i] = group THEN blocks[rank[i]] ELSE column[i]]
        /\ UNCHANGED <<events, groupOf, rank>>
    BY <1>6 DEF DrawGroup
  <2>2. All' = All
    BY <2>1, SameEvents
  <2>3. at' = "done" => \A i \in All : groupOf[i] < group + 1
    BY <1>b, <2>1
  <2>4. ASSUME NEW i \in All, NEW j \in All, i # j, groupOf[i] = groupOf[j], groupOf[i] < group + 1
        PROVE  Apart(column'[i], column'[j])
    <3>1. CASE groupOf[i] = group
      <4>1. group # 0
        BY <1>a, <2>1 DEF Newest
      <4>a. rank[i] \in 1..Len(blocks) /\ rank[j] \in 1..Len(blocks)
        BY <1>a, <1>b, <2>1, <2>4, <3>1, <4>1 DEF PlacesFit
      <4>b. rank[i] # rank[j]
        BY <1>a, <2>4, <3>1, <4>1 DEF OwnPlace
      <4>2. rank[i] \in DOMAIN blocks /\ rank[j] \in DOMAIN blocks /\ rank[i] # rank[j]
        BY <1>b, <4>a, <4>b
      <4>3. column'[i] = blocks[rank[i]] /\ column'[j] = blocks[rank[j]]
        BY <2>1, <2>4, <3>1
      <4> QED
        BY <1>a, <4>2, <4>3 DEF BlocksApart
    <3>2. CASE groupOf[i] # group
      <4>1. groupOf[i] < group
        BY <1>b, <2>4, <3>2
      <4>2. column'[i] = column[i] /\ column'[j] = column[j]
        BY <2>1, <2>4, <3>2
      <4> QED
        BY <1>a, <2>1, <2>4, <4>1, <4>2 DEF Drawn
    <3> QED
      BY <3>1, <3>2
  <2>5. \A i \in All : groupOf[i] # 0
    BY <1>a, <2>1 DEF Drawn
  <2>6. Drawn'
    BY <2>1, <2>2, <2>3, <2>4, <2>5 DEF Drawn
  <2> QED
    BY <1>o, <2>1, <2>6, OneBlockApart DEF DInv
<1>7. CASE UNCHANGED vars
  <2>1. UNCHANGED <<events, at, groupOf, rank, group, blocks, column>>
    BY <1>7 DEF vars
  <2>2. Drawn'
    BY <1>a, <2>1, SameEvents DEF Drawn
  <2> QED
    BY <1>s, <1>o, <2>1, <2>2 DEF DInv
<1> QED
  BY <1>1, <1>2, <1>3, <1>4, <1>5, <1>6, <1>7 DEF Next

(* For any events of a day and any number of them, those at the same time  *)
(* are given parts of the width that do not meet (overlapGroups, bspAssign *)
(* and renderDayEvents together).                                          *)
THEOREM OverlapsStandApart == Spec => []SideBySide
<1>1. Init => DInv
  BY InitDrawn
<1>2. IInv /\ DInv /\ [Next]_vars => DInv'
  BY StepDrawn
<1>3. IInv /\ DInv => SideBySide
  <2> SUFFICES ASSUME IInv, DInv, at = "done", NEW i \in All, NEW j \in All, i # j, Overlap(i, j)
               PROVE  Apart(column[i], column[j])
    BY DEF SideBySide
  <2>1. groupOf[i] # 0 /\ groupOf[i] < group
    BY DEF DInv, Drawn
  <2>2. groupOf[j] = groupOf[i]
    BY <2>1 DEF IInv, GroupsApart, Closed
  <2> QED
    BY <2>1, <2>2 DEF DInv, Drawn
<1> QED
  BY <1>1, <1>2, <1>3, Invariance, PTL DEF Spec

-------------------------------------------------------------------------------
(* The groups are in the order of time.                                    *)

Start(i) == events[i].start
End(i) == EffectiveEnd(events[i])

\* Who is in a group ends before whoever comes later, or is in none yet, begins.
InOrder ==
  \A i, j \in All :
    groupOf[i] # 0 /\ Closed(groupOf[i]) /\ (groupOf[j] = 0 \/ groupOf[i] < groupOf[j])
      => End(i) <= Start(j)

\* Its first event begins before whoever is in it or in none, and from then until
\* the last one begins there is no time at which none of its events is on.
NoGap ==
  at = "scan" =>
    \E f \in All :
      /\ groupOf[f] = group
      /\ \A j \in All : groupOf[j] \in {0, group} => Start(f) <= Start(j)
      /\ \A j \in All, t \in Nat :
           groupOf[j] = group /\ Start(f) <= t /\ t <= Start(j) =>
             \E k \in All : groupOf[k] = group /\ Start(k) <= t /\ t < End(k)

\* A block is wider than half of an equal share.
WideBlocks ==
  at \in {"split", "done"} =>
    \A i \in All :
      groupOf[i] < group => column[i].parts < 2 * Cardinality(Members(groupOf[i]))

OInv == Sorted(events) /\ InOrder /\ NoGap /\ WideBlocks

LEMMA TimesOf ==
  ASSUME TypeOK
  PROVE  \A i \in All : Start(i) \in Nat /\ End(i) \in Nat /\ Start(i) < End(i)
<1> SUFFICES ASSUME NEW i \in All
             PROVE  Start(i) \in Nat /\ End(i) \in Nat /\ Start(i) < End(i)
  OBVIOUS
<1>1. events[i] \in Times
  <2>1. events \in Seq(Times) /\ i \in 1..Len(events)
    BY DEF TypeOK, All, N
  <2> QED
    BY <2>1
<1>2. events[i].start \in Nat /\ events[i].end \in Nat
  BY <1>1, TimesAssumption
<1> QED
  BY <1>2 DEF Start, End, EffectiveEnd, Hour

LEMMA OverlapTimes == \A i, j : Overlap(i, j) <=> Start(i) < End(j) /\ Start(j) < End(i)
BY DEF Overlap, EventsOverlap, Start, End

LEMMA SameTimes ==
  ASSUME events' = events
  PROVE  /\ All' = All /\ \A i : Start(i)' = Start(i) /\ End(i)' = End(i)
         /\ Sorted(events)' <=> Sorted(events)
BY SameEvents DEF Start, End, EffectiveEnd, Sorted

LEMMA BlocksAreWide ==
  ASSUME TypeOK, TwoSizes
  PROVE  \A b \in DOMAIN blocks : blocks[b].parts < 2 * Len(blocks)
<1>1. PICK k \in Nat :
        /\ k <= Len(blocks) /\ Len(blocks) < 2 * k
        /\ \A b \in DOMAIN blocks :
             blocks[b].parts = IF Len(blocks) - k < b /\ b <= k THEN k ELSE 2 * k
  BY DEF TwoSizes
<1> SUFFICES ASSUME NEW b \in DOMAIN blocks PROVE blocks[b].parts < 2 * Len(blocks)
  OBVIOUS
<1>2. Len(blocks) \in Nat /\ b \in 1..Len(blocks)
  BY DEF TypeOK
<1>3. CASE k = Len(blocks)
  BY <1>1, <1>2, <1>3
<1>4. CASE k < Len(blocks)
  BY <1>1, <1>2, <1>4
<1> QED
  BY <1>1, <1>2, <1>3, <1>4

LEMMA InitOrder == Init => OInv
<1> SUFFICES ASSUME Init PROVE OInv
  OBVIOUS
<1>1. Sorted(events)
  BY DEF Init, EventsForDay
<1>2. InOrder /\ NoGap /\ WideBlocks
  BY DEF Init, InOrder, NoGap, WideBlocks
<1> QED
  BY <1>1, <1>2 DEF OInv

\* A pass that ends without a change leaves nobody that begins before a member ends.
LEMMA NobodyBefore ==
  ASSUME TypeOK, PassedOver, NoGap, at = "scan", ~changed, next > N,
         NEW i \in All, NEW j \in All, groupOf[i] = group, groupOf[j] = 0
  PROVE  End(i) <= Start(j)
<1>1. next \in Nat /\ N \in Nat /\ j \in 1..N
  BY MembersFinite DEF TypeOK
<1>2. j < next
  BY <1>1
<1>3. \A k \in All : groupOf[k] = group => ~Overlap(k, j)
  BY <1>2 DEF PassedOver
<1>4. PICK f \in All :
        /\ groupOf[f] = group
        /\ \A a \in All : groupOf[a] \in {0, group} => Start(f) <= Start(a)
        /\ \A a \in All, t \in Nat :
             groupOf[a] = group /\ Start(f) <= t /\ t <= Start(a) =>
               \E k \in All : groupOf[k] = group /\ Start(k) <= t /\ t < End(k)
  BY DEF NoGap
<1>5. /\ Start(j) \in Nat /\ End(j) \in Nat /\ Start(j) < End(j)
      /\ Start(i) \in Nat /\ End(i) \in Nat
  BY TimesOf
<1>6. SUFFICES ASSUME Start(j) < End(i) PROVE FALSE
  BY <1>5
<1>7. ~(Start(i) < End(j))
  BY <1>3, <1>6, OverlapTimes
<1>8. Start(f) <= Start(j) /\ Start(j) <= Start(i)
  BY <1>4, <1>5, <1>7
<1>9. PICK k \in All : groupOf[k] = group /\ Start(k) <= Start(j) /\ Start(j) < End(k)
  BY <1>4, <1>5, <1>8
<1>10. Start(k) < End(j)
  BY <1>5, <1>9, TimesOf
<1> QED
  BY <1>3, <1>9, <1>10, OverlapTimes

LEMMA StepOrder == IInv /\ OInv /\ Drawn /\ [Next]_vars => OInv'
<1> SUFFICES ASSUME IInv, OInv, Drawn, [Next]_vars PROVE OInv'
  OBVIOUS
<1>a. /\ TypeOK /\ TwoSizes /\ Newest /\ PlacesFit /\ PassedOver
      /\ Sorted(events) /\ InOrder /\ NoGap /\ WideBlocks
  BY DEF IInv, OInv
<1>b. /\ groupOf \in [All -> Nat] /\ rank \in [All -> Nat]
      /\ group \in Nat /\ size \in Nat /\ next \in Nat \ {0}
  BY <1>a DEF TypeOK
<1>e. N \in Nat /\ All = 1..N
  BY <1>a, MembersFinite
<1>t. \A i \in All : Start(i) \in Nat /\ End(i) \in Nat /\ Start(i) < End(i)
  BY <1>a, TimesOf
<1>1. ASSUME BeginGroup PROVE OInv'
  <2>1. PICK i \in All : /\ groupOf[i] = 0 /\ \A j \in 1..(i - 1) : groupOf[j] # 0
                         /\ groupOf' = [groupOf EXCEPT ![i] = group + 1]
    BY <1>1 DEF BeginGroup
  <2>2. /\ at = "group" /\ at' = "scan" /\ group' = group + 1
        /\ UNCHANGED events
    BY <1>1 DEF BeginGroup
  <2>3. \A j \in All : groupOf'[j] = IF j = i THEN group + 1 ELSE groupOf[j]
    BY <1>b, <2>1
  <2>4. \A j \in All : groupOf[j] <= group /\ groupOf[j] \in Nat
    BY <1>a, <1>b, <2>2 DEF Newest
  <2>5. InOrder'
    <3> SUFFICES ASSUME NEW k \in All, NEW j \in All, groupOf'[k] # 0, groupOf'[k] < group + 1,
                        groupOf'[j] = 0 \/ groupOf'[k] < groupOf'[j]
                 PROVE  End(k) <= Start(j)
      BY <2>2, SameTimes DEF InOrder, Closed
    <3>1. groupOf[k] # 0 /\ (groupOf[j] = 0 \/ groupOf[k] < groupOf[j])
      BY <1>b, <2>1, <2>3, <2>4
    <3> QED
      BY <1>a, <2>2, <3>1 DEF InOrder, Closed
  <2>6. NoGap'
    <3>1. \A j \in All : groupOf'[j] = 0 => Start(i) <= Start(j)
      <4> SUFFICES ASSUME NEW j \in All, groupOf'[j] = 0 PROVE Start(i) <= Start(j)
        OBVIOUS
      <4>1. groupOf[j] = 0 /\ j # i
        BY <1>b, <2>1, <2>3
      <4>2. i < j
        BY <1>e, <2>1, <4>1
      <4>3. i \in DOMAIN events /\ j \in DOMAIN events
        BY <1>a DEF TypeOK, All, N
      <4> QED
        BY <1>a, <4>2, <4>3 DEF Sorted, Start
    <3>2. \A j \in All : groupOf'[j] = group + 1 => j = i
      BY <1>b, <2>3, <2>4
    <3>3. groupOf'[i] = group + 1
      BY <2>3
    <3>4. /\ \A j \in All : groupOf'[j] \in {0, group + 1} => Start(i) <= Start(j)
          /\ \A j \in All, t \in Nat :
               groupOf'[j] = group + 1 /\ Start(i) <= t /\ t <= Start(j) =>
                 \E k \in All : groupOf'[k] = group + 1 /\ Start(k) <= t /\ t < End(k)
      <4>1. ASSUME NEW j \in All, groupOf'[j] \in {0, group + 1} PROVE Start(i) <= Start(j)
        BY <1>t, <3>1, <3>2, <4>1
      <4>2. ASSUME NEW t \in Nat, Start(i) <= t, t <= Start(i) PROVE t < End(i)
        BY <1>t, <4>2
      <4> QED
        BY <3>2, <3>3, <4>1, <4>2
    <3> QED
      BY <2>2, <3>3, <3>4, SameTimes DEF NoGap
  <2>7. WideBlocks'
    BY <2>2 DEF WideBlocks
  <2> QED
    BY <1>a, <2>2, <2>5, <2>6, <2>7, SameTimes DEF OInv
<1>2. ASSUME Scan PROVE OInv'
  <2>1. /\ at = "scan" /\ at' = "scan" /\ group' = group /\ next <= N /\ UNCHANGED events
    BY <1>2 DEF Scan
  <2>2. next \in All /\ group # 0
    BY <1>a, <1>b, <1>e, <2>1 DEF Newest
  <2>3. WideBlocks'
    BY <2>1 DEF WideBlocks
  <2>4. CASE groupOf' = groupOf
    <3>1. InOrder'
      BY <1>a, <2>1, <2>4, SameTimes DEF InOrder, Closed
    <3>2. NoGap'
      BY <1>a, <2>1, <2>4, SameTimes DEF NoGap
    <3> QED
      BY <1>a, <2>1, <2>3, <3>1, <3>2, SameTimes DEF OInv
  <2>5. CASE /\ groupOf[next] = 0 /\ \E m \in Members(group) : Overlap(m, next)
             /\ groupOf' = [groupOf EXCEPT ![next] = group]
    <3>1. \A j \in All : groupOf'[j] = IF j = next THEN group ELSE groupOf[j]
      BY <1>b, <2>5
    <3>2. InOrder'
      <4> SUFFICES ASSUME NEW k \in All, NEW j \in All, groupOf'[k] # 0, groupOf'[k] < group,
                          groupOf'[j] = 0 \/ groupOf'[k] < groupOf'[j]
                   PROVE  End(k) <= Start(j)
        BY <2>1, SameTimes DEF InOrder, Closed
      <4>1. groupOf[k] # 0 /\ groupOf[k] < group /\ (groupOf[j] = 0 \/ groupOf[k] < groupOf[j])
        BY <1>b, <2>2, <2>5, <3>1
      <4> QED
        BY <1>a, <4>1 DEF InOrder, Closed
    <3>3. PICK m \in All : groupOf[m] = group /\ Overlap(m, next)
      BY <2>5 DEF Members
    <3>4. PICK f \in All :
            /\ groupOf[f] = group
            /\ \A a \in All : groupOf[a] \in {0, group} => Start(f) <= Start(a)
            /\ \A a \in All, t \in Nat :
                 groupOf[a] = group /\ Start(f) <= t /\ t <= Start(a) =>
                   \E k \in All : groupOf[k] = group /\ Start(k) <= t /\ t < End(k)
      BY <1>a, <2>1 DEF NoGap
    <3>5. groupOf'[f] = group /\ \A k \in All : groupOf[k] = group => groupOf'[k] = group
      BY <3>1, <3>4
    <3>6. \A j \in All : groupOf'[j] \in {0, group} => groupOf[j] \in {0, group}
      BY <2>5, <3>1
    <3>7. ASSUME NEW t \in Nat, Start(f) <= t, t <= Start(next)
          PROVE  \E k \in All : groupOf[k] = group /\ Start(k) <= t /\ t < End(k)
      <4>1. CASE t <= Start(m)
        BY <3>3, <3>4, <3>7, <4>1
      <4>2. CASE ~(t <= Start(m))
        <5>1. Start(next) < End(m)
          BY <3>3, OverlapTimes
        <5>2. Start(m) <= t /\ t < End(m)
          BY <1>t, <2>2, <3>7, <4>2, <5>1
        <5> QED
          BY <3>3, <5>2
      <4> QED
        BY <4>1, <4>2
    <3>8. /\ \A j \in All : groupOf'[j] \in {0, group} => Start(f) <= Start(j)
          /\ \A j \in All, t \in Nat :
               groupOf'[j] = group /\ Start(f) <= t /\ t <= Start(j) =>
                 \E k \in All : groupOf'[k] = group /\ Start(k) <= t /\ t < End(k)
      <4>1. \A j \in All : groupOf'[j] \in {0, group} => Start(f) <= Start(j)
        BY <3>4, <3>6
      <4>2. ASSUME NEW j \in All, NEW t \in Nat,
                   groupOf'[j] = group, Start(f) <= t, t <= Start(j)
            PROVE  \E k \in All : groupOf[k] = group /\ Start(k) <= t /\ t < End(k)
        <5>1. CASE j = next
          BY <3>7, <4>2, <5>1
        <5>2. CASE j # next
          BY <3>1, <3>4, <4>2, <5>2
        <5> QED
          BY <5>1, <5>2
      <4> QED
        BY <3>5, <4>1, <4>2
    <3>9. NoGap'
      BY <2>1, <3>5, <3>8, SameTimes DEF NoGap
    <3> QED
      BY <1>a, <2>1, <2>3, <3>2, <3>9, SameTimes DEF OInv
  <2> QED
    BY <1>2, <2>4, <2>5 DEF Scan
<1>3. ASSUME EndPass PROVE OInv'
  <2>1. /\ at = "scan" /\ next > N /\ at' = (IF changed THEN "scan" ELSE "group")
        /\ UNCHANGED <<events, groupOf, group>>
    BY <1>3 DEF EndPass
  <2>2. NoGap'
    BY <1>a, <2>1, SameTimes DEF NoGap
  <2>3. WideBlocks'
    BY <2>1 DEF WideBlocks
  <2>4. InOrder'
    <3>1. CASE changed
      BY <1>a, <2>1, <3>1, SameTimes DEF InOrder, Closed
    <3>2. CASE ~changed
      <4> SUFFICES ASSUME NEW k \in All, NEW j \in All, groupOf[k] # 0,
                          groupOf[j] = 0 \/ groupOf[k] < groupOf[j]
                   PROVE  End(k) <= Start(j)
        BY <2>1, SameTimes DEF InOrder
      <4>1. groupOf[k] \in Nat /\ groupOf[k] <= group /\ groupOf[j] \in Nat /\ groupOf[j] <= group
        BY <1>a, <1>b, <2>1 DEF Newest
      <4>2. CASE groupOf[k] = group
        <5>1. groupOf[j] = 0
          BY <1>b, <4>1, <4>2
        <5> QED
          BY <1>a, <2>1, <3>2, <4>2, <5>1, NobodyBefore
      <4>3. CASE groupOf[k] < group
        BY <1>a, <4>3 DEF InOrder, Closed
      <4> QED
        BY <1>b, <4>1, <4>2, <4>3
    <3> QED
      BY <3>1, <3>2
  <2> QED
    BY <1>a, <2>1, <2>2, <2>3, <2>4, SameTimes DEF OInv
<1>4. ASSUME EndGroups PROVE OInv'
  <2>1. /\ at = "group" /\ at' \in {"done", "split"} /\ group' = 1
        /\ \A i \in All : groupOf[i] # 0
        /\ UNCHANGED <<events, groupOf, column>>
    BY <1>4 DEF EndGroups
  <2>2. InOrder'
    BY <1>a, <2>1, SameTimes DEF InOrder, Closed
  <2>3. NoGap'
    BY <2>1 DEF NoGap
  <2>4. \A i \in All : ~(groupOf[i] < 1)
    BY <1>b, <2>1
  <2>5. WideBlocks'
    BY <2>1, <2>4, SameGroups DEF WideBlocks
  <2> QED
    BY <1>a, <2>1, <2>2, <2>3, <2>5, SameTimes DEF OInv
<1>5. ASSUME Split PROVE OInv'
  <2>1. UNCHANGED <<events, at, groupOf, group, column>>
    BY <1>5 DEF Split
  <2> QED
    BY <1>a, <2>1, SameTimes, SameGroups DEF OInv, InOrder, Closed, NoGap, WideBlocks
<1>6. ASSUME DrawGroup PROVE OInv'
  <2>1. /\ at = "split" /\ at' \in {"done", "split"} /\ group' = group + 1
        /\ Len(blocks) = Cardinality(Members(group))
        /\ column' = [i \in All |-> IF groupOf[i] = group THEN blocks[rank[i]] ELSE column[i]]
        /\ UNCHANGED <<events, groupOf>>
    BY <1>6 DEF DrawGroup
  <2>2. InOrder'
    BY <1>a, <2>1, SameTimes DEF InOrder, Closed
  <2>3. NoGap'
    BY <2>1 DEF NoGap
  <2>4. ASSUME NEW i \in All, groupOf[i] < group + 1
        PROVE  column'[i].parts < 2 * Cardinality(Members(groupOf[i]))
    <3>1. CASE groupOf[i] = group
      <4>1. group # 0
        BY <1>a, <2>1 DEF Newest
      <4>2. rank[i] \in 1..Len(blocks)
        BY <1>a, <1>b, <2>1, <3>1, <4>1 DEF PlacesFit
      <4>3. rank[i] \in DOMAIN blocks
        BY <1>a, <4>2 DEF TypeOK
      <4>4. blocks[rank[i]].parts < 2 * Len(blocks)
        BY <1>a, <4>3, BlocksAreWide
      <4> QED
        BY <2>1, <3>1, <4>4
    <3>2. CASE groupOf[i] # group
      <4>1. groupOf[i] < group
        BY <1>b, <2>4, <3>2
      <4> QED
        BY <1>a, <2>1, <3>2, <4>1 DEF WideBlocks
    <3> QED
      BY <3>1, <3>2
  <2>5. WideBlocks'
    BY <2>1, <2>4, SameGroups DEF WideBlocks
  <2> QED
    BY <1>a, <2>1, <2>2, <2>3, <2>5, SameTimes DEF OInv
<1>7. CASE UNCHANGED vars
  <2>1. UNCHANGED <<events, at, groupOf, group, column>>
    BY <1>7 DEF vars
  <2> QED
    BY <1>a, <2>1, SameTimes, SameGroups DEF OInv, InOrder, Closed, NoGap, WideBlocks
<1> QED
  BY <1>1, <1>2, <1>3, <1>4, <1>5, <1>6, <1>7 DEF Next

-------------------------------------------------------------------------------
(* Pixels.                                                                 *)

\* What a whole quotient is.
LEMMA DivBound ==
  ASSUME NEW x \in Nat, NEW p \in Nat \ {0}
  PROVE  /\ x \div p \in Nat
         /\ \A s \in Nat : s <= x \div p <=> s * p <= x
<1>1. x \div p \in Nat /\ p * (x \div p) <= x /\ x < p * (x \div p) + p
  OBVIOUS
<1>2. ASSUME NEW s \in Nat, s <= x \div p PROVE s * p <= x
  <2>1. PICK d \in Nat : d = x \div p
    BY <1>1
  <2>2. s * p <= p * d
    <3>1. PICK e \in Nat : d = s + e
      <4>1. d - s \in Nat /\ d = s + (d - s)
        BY <1>2, <2>1
      <4> QED
        BY <4>1
    <3>2. p * (s + e) = p * s + p * e /\ p * e \in Nat /\ p * s = s * p /\ p * s \in Nat
      OBVIOUS
    <3> QED
      BY <3>1, <3>2
  <2> QED
    BY <1>1, <2>1, <2>2
<1>3. ASSUME NEW s \in Nat, s * p <= x PROVE s <= x \div p
  <2>1. PICK d \in Nat : d = x \div p
    BY <1>1
  <2>2. CASE s <= d
    BY <2>1, <2>2
  <2>3. CASE ~(s <= d)
    <3>1. PICK e \in Nat : s = d + 1 + e
      <4>1. s - d - 1 \in Nat /\ s = d + 1 + (s - d - 1)
        BY <2>3
      <4> QED
        BY <4>1
    <3>2. (d + 1 + e) * p = p * d + p + e * p /\ e * p \in Nat /\ p * d \in Nat
      OBVIOUS
    <3>3. x < p * d + p
      BY <1>1, <2>1
    <3> QED
      BY <1>3, <3>1, <3>2, <3>3
  <2> QED
    BY <2>2, <2>3
<1> QED
  BY <1>1, <1>2, <1>3

LEMMA Scaled ==
  ASSUME NEW a \in Nat, NEW b \in Nat, NEW c \in Nat
  PROVE  /\ a <= b => a * c <= b * c
         /\ c # 0 /\ a * c <= b * c => a <= b
<1>1. ASSUME a <= b PROVE a * c <= b * c
  <2>1. PICK e \in Nat : b = a + e
    <3>1. b - a \in Nat /\ b = a + (b - a)
      BY <1>1
    <3> QED
      BY <3>1
  <2>2. (a + e) * c = a * c + e * c /\ a * c \in Nat /\ e * c \in Nat
    OBVIOUS
  <2> QED
    BY <2>1, <2>2
<1>2. ASSUME c # 0, b < a PROVE b * c < a * c
  <2>1. PICK e \in Nat : a = b + 1 + e
    <3>1. a - b - 1 \in Nat /\ a = b + 1 + (a - b - 1)
      BY <1>2
    <3> QED
      BY <3>1
  <2>2. (b + 1 + e) * c = b * c + c + e * c /\ b * c \in Nat /\ e * c \in Nat
    OBVIOUS
  <2> QED
    BY <1>2, <2>1, <2>2
<1>3. a * c \in Nat /\ b * c \in Nat
  OBVIOUS
<1> QED
  BY <1>1, <1>2, <1>3

\* A fraction of the width that is no larger is rounded to no more.
LEMMA FloorMonotone ==
  ASSUME NEW u \in Nat, NEW p \in Nat \ {0}, NEW v \in Nat, NEW q \in Nat \ {0}, NEW w \in Nat,
         u * q <= v * p
  PROVE  (u * w) \div p <= (v * w) \div q
<1>1. u * w \in Nat /\ v * w \in Nat /\ u * q \in Nat /\ v * p \in Nat
  OBVIOUS
<1>2. PICK s \in Nat : s = (u * w) \div p
  BY <1>1, DivBound
<1>3. s * p <= u * w /\ s * p \in Nat
  BY <1>1, <1>2, DivBound
<1>4. (s * p) * q <= (u * w) * q
  BY <1>1, <1>3, Scaled
<1>5. (u * q) * w <= (v * p) * w
  BY <1>1, Scaled
<1>6. (u * w) * q = (u * q) * w /\ (v * p) * w = (v * w) * p /\ (s * p) * q = (s * q) * p
  OBVIOUS
<1>7. (s * q) * p <= (v * w) * p
  BY <1>4, <1>5, <1>6
<1>8. s * q \in Nat
  OBVIOUS
<1>9. s * q <= v * w
  BY <1>1, <1>7, <1>8, Scaled
<1> QED
  BY <1>1, <1>2, <1>9, DivBound

\* One of `p' equal parts is two pixels wide, if that many fit twice into the width.
LEMMA TwoPixels ==
  ASSUME NEW p \in Nat \ {0}, NEW u \in Nat, NEW w \in Nat, 2 * p <= w
  PROVE  (u * w) \div p + 2 <= ((u + 1) * w) \div p
<1>1. u * w \in Nat /\ (u + 1) * w \in Nat /\ (u + 1) * w = u * w + w
  OBVIOUS
<1>2. PICK s \in Nat : s = (u * w) \div p
  BY <1>1, DivBound
<1>3. s * p <= u * w /\ s * p \in Nat /\ s + 2 \in Nat
  BY <1>1, <1>2, DivBound
<1>4. (s + 2) * p = s * p + 2 * p
  OBVIOUS
<1>5. (s + 2) * p <= (u + 1) * w
  BY <1>1, <1>3, <1>4
<1> QED
  BY <1>1, <1>2, <1>3, <1>5, DivBound

-------------------------------------------------------------------------------
(* What a tap finds.                                                       *)

\* On its own day, a block is drawn from where its event starts, 14 pixels at least.
LEMMA TopAndBottom ==
  ASSUME TypeOK, NEW i \in All, Start(i) < dayLength
  PROVE  Top(i) = Start(i) /\ Bottom(i) \in Nat /\ Top(i) + MinHeight <= Bottom(i)
<1>1. Start(i) \in Nat /\ dayLength \in Nat
  BY TimesOf, DayLengthsAssumption DEF TypeOK
<1>2. Top(i) = Start(i)
  BY DEF Top, TimeOfDay, Start
<1>3. events[i].end \in Nat
  <2>1. events \in Seq(Times) /\ i \in 1..Len(events)
    BY DEF TypeOK, All, N
  <2>2. events[i] \in Times
    BY <2>1
  <2> QED
    BY <2>2, TimesAssumption
<1>4. TimeOfDay(events[i].end) \in Nat
  <2>1. CASE events[i].end < dayLength
    BY <1>3, <2>1 DEF TimeOfDay
  <2>2. CASE ~(events[i].end < dayLength)
    <3>1. events[i].end - dayLength \in Nat
      BY <1>1, <1>3, <2>2
    <3>2. (events[i].end - dayLength) % (24 * Hour) \in Nat
      BY <3>1 DEF Hour
    <3> QED
      BY <2>2, <3>2 DEF TimeOfDay
  <2> QED
    BY <2>1, <2>2
<1> DEFINE end == TimeOfDay(events[i].end)
           last == IF events[i].end # 0 /\ end > Top(i) THEN end ELSE Top(i) + Hour
<1>5. last \in Nat /\ Top(i) \in Nat
  BY <1>1, <1>2, <1>4 DEF Hour
<1>6. Bottom(i) = IF last - Top(i) < MinHeight THEN Top(i) + MinHeight ELSE last
  BY DEF Bottom
<1> HIDE DEF last
<1> QED
  BY <1>2, <1>5, <1>6 DEF MinHeight

\* ... and if it ends on that day, to where it ends, or 14 pixels.
LEMMA BottomOfShort ==
  ASSUME TypeOK, NEW i \in All, Start(i) < dayLength, End(i) < dayLength
  PROVE  Bottom(i) = End(i) \/ Bottom(i) = Top(i) + MinHeight
<1>1. Start(i) \in Nat /\ End(i) \in Nat /\ dayLength \in Nat
  BY TimesOf, DayLengthsAssumption DEF TypeOK
<1>2. Top(i) = Start(i)
  BY TopAndBottom
<1>3. events[i].end \in Nat
  <2>1. events \in Seq(Times) /\ i \in 1..Len(events)
    BY DEF TypeOK, All, N
  <2>2. events[i] \in Times
    BY <2>1
  <2> QED
    BY <2>2, TimesAssumption
<1>4. End(i) = IF events[i].end > Start(i) THEN events[i].end ELSE Start(i) + Hour
  BY DEF End, EffectiveEnd, Start
<1>5. TimeOfDay(events[i].end) = events[i].end
  BY <1>1, <1>3, <1>4 DEF TimeOfDay
<1> DEFINE last == IF events[i].end # 0 /\ events[i].end > Top(i)
                     THEN events[i].end ELSE Top(i) + Hour
<1>6. last = End(i)
  BY <1>1, <1>2, <1>3, <1>4
<1>7. Bottom(i) = IF last - Top(i) < MinHeight THEN Top(i) + MinHeight ELSE last
  BY <1>5 DEF Bottom
<1> QED
  BY <1>6, <1>7

\* The block is wide enough to have a pixel in the middle.
Visible(i) == Left(i) <= Right(i)

Middle(i) == (Left(i) + Right(i)) \div 2

LEMMA ColumnTypes ==
  ASSUME TypeOK, NEW i \in All
  PROVE  column[i].parts \in Nat \ {0} /\ column[i].pos \in Nat
BY DEF TypeOK, Block

LEMMA Edges ==
  ASSUME TypeOK, NEW i \in All
  PROVE  /\ (column[i].pos * ColWidth) \div column[i].parts \in Nat
         /\ ((column[i].pos + 1) * ColWidth) \div column[i].parts \in Nat
<1>1. column[i].parts \in Nat \ {0} /\ column[i].pos \in Nat
  BY ColumnTypes
<1>2. column[i].pos * ColWidth \in Nat /\ (column[i].pos + 1) * ColWidth \in Nat
  BY <1>1, ColWidthAssumption
<1> QED
  BY <1>1, <1>2, DivBound

LEMMA MiddleInside ==
  ASSUME TypeOK, NEW i \in All, Visible(i)
  PROVE  Middle(i) \in Left(i)..Right(i)
<1>1. PICK l \in Nat : l = (column[i].pos * ColWidth) \div column[i].parts
  BY Edges
<1>2. PICK r \in Nat : r = ((column[i].pos + 1) * ColWidth) \div column[i].parts
  BY Edges
<1>3. Left(i) = l + 1 /\ Right(i) = r - 1
  BY <1>1, <1>2 DEF Left, Right
<1> QED
  BY <1>3 DEF Middle, Visible

\* A block that ends where another begins, or before, has no pixel with it in common.
LEMMA BeforeIsLeft ==
  ASSUME TypeOK, NEW i \in All, NEW k \in All, Before(column[i], column[k])
  PROVE  Right(i) < Left(k)
<1>1. /\ column[i].parts \in Nat \ {0} /\ column[i].pos + 1 \in Nat
      /\ column[k].parts \in Nat \ {0} /\ column[k].pos \in Nat
  BY ColumnTypes
<1>2. (column[i].pos + 1) * column[k].parts <= column[k].pos * column[i].parts
  BY DEF Before
<1>3. ((column[i].pos + 1) * ColWidth) \div column[i].parts
        <= (column[k].pos * ColWidth) \div column[k].parts
  BY <1>1, <1>2, FloorMonotone, ColWidthAssumption
<1>4. PICK r \in Nat : r = ((column[i].pos + 1) * ColWidth) \div column[i].parts
  BY Edges
<1>5. PICK l \in Nat : l = (column[k].pos * ColWidth) \div column[k].parts
  BY Edges
<1>6. Right(i) = r - 1 /\ Left(k) = l + 1
  BY <1>4, <1>5 DEF Left, Right
<1> QED
  BY <1>3, <1>4, <1>5, <1>6

LEMMA ApartInPixels ==
  ASSUME TypeOK, NEW i \in All, NEW k \in All, Apart(column[i], column[k]),
         NEW x \in Left(i)..Right(i)
  PROVE  x \notin Left(k)..Right(k)
<1>1. Right(i) < Left(k) \/ Right(k) < Left(i)
  BY BeforeIsLeft DEF Apart
<1>2. \A j \in All : Left(j) \in Int /\ Right(j) \in Int
  BY Edges DEF Left, Right
<1> QED
  BY <1>1, <1>2

\* With half as many parts as pixels, each has one.
LEMMA WideIsVisible ==
  ASSUME TypeOK, NEW i \in All, 2 * column[i].parts <= ColWidth
  PROVE  Visible(i)
<1>1. column[i].parts \in Nat \ {0} /\ column[i].pos \in Nat
  BY ColumnTypes
<1>2. PICK l \in Nat : l = (column[i].pos * ColWidth) \div column[i].parts
  BY Edges
<1>3. PICK r \in Nat : r = ((column[i].pos + 1) * ColWidth) \div column[i].parts
  BY Edges
<1>4. l + 2 <= r
  BY <1>1, <1>2, <1>3, TwoPixels, ColWidthAssumption
<1> QED
  BY <1>2, <1>3, <1>4 DEF Visible, Left, Right

(* A tap in the middle of the lower edge finds the block, whatever is       *)
(* drawn before it.                                                        *)
LEMMA TapFinds ==
  ASSUME IInv, DInv, OInv, at = "done", NEW i \in All, Start(i) < dayLength, Visible(i)
  PROVE  Tapped(i, Middle(i), Bottom(i))
<1>a. TypeOK /\ GroupsApart /\ Drawn /\ OwnPlace /\ InOrder
  BY DEF IInv, DInv, OInv
<1>b. \A k \in All : groupOf[k] \in Nat /\ rank[k] \in Nat /\ groupOf[k] # 0 /\ groupOf[k] < group
  BY <1>a DEF TypeOK, Drawn
<1>1. Middle(i) \in Left(i)..Right(i)
  BY <1>a, MiddleInside
<1>2. Top(i) = Start(i) /\ Bottom(i) \in Nat /\ Top(i) + MinHeight <= Bottom(i)
  BY <1>a, TopAndBottom
<1>3. Start(i) \in Nat /\ dayLength \in Nat
  BY <1>a, TimesOf, DayLengthsAssumption DEF TypeOK
<1>4. Hit(i, Middle(i), Bottom(i))
  BY <1>1, <1>2, <1>3 DEF Hit, MinHeight
<1>5. ASSUME NEW k \in All, groupOf[k] = groupOf[i], rank[k] < rank[i]
      PROVE  ~Hit(k, Middle(i), Bottom(i))
  <2>1. k # i
    BY <1>b, <1>5
  <2>2. Apart(column[i], column[k])
    BY <1>a, <1>b, <1>5, <2>1 DEF Drawn
  <2> QED
    BY <1>a, <1>1, <2>2, ApartInPixels DEF Hit
<1>6. ASSUME NEW k \in All, groupOf[k] < groupOf[i]
      PROVE  ~Hit(k, Middle(i), Bottom(i))
  <2>1. End(k) <= Start(i)
    BY <1>a, <1>b, <1>6 DEF InOrder, Closed
  <2>2. Start(k) \in Nat /\ End(k) \in Nat /\ Start(k) < End(k)
    BY <1>a, TimesOf
  <2>3. Start(k) < dayLength /\ End(k) < dayLength
    BY <1>3, <2>1, <2>2
  <2>4. Top(k) = Start(k) /\ Bottom(k) \in Nat
    BY <1>a, <2>3, TopAndBottom
  <2>5. Bottom(k) = End(k) \/ Bottom(k) = Top(k) + MinHeight
    BY <1>a, <2>3, BottomOfShort
  <2>6. Bottom(k) < Bottom(i)
    BY <1>2, <1>3, <2>1, <2>2, <2>4, <2>5 DEF MinHeight
  <2> QED
    BY <1>2, <2>4, <2>6 DEF Hit
<1>7. ASSUME NEW k \in All, Hit(k, Middle(i), Bottom(i))
      PROVE  \/ groupOf[i] < groupOf[k]
             \/ groupOf[i] = groupOf[k] /\ rank[i] <= rank[k]
  BY <1>b, <1>5, <1>6, <1>7
<1> QED
  BY <1>4, <1>7 DEF Tapped

LEMMA OwnBlockOpens ==
  ASSUME TypeOK, NEW i \in All
  PROVE  i \in Opens(i)
BY DEF Opens, Members

(* The three inductive invariants together.                                *)
THEOREM DayInvariance == Spec => [](IInv /\ DInv /\ OInv)
<1>1. Init => DInv /\ OInv
  BY InitDrawn, InitOrder
<1>2. IInv /\ (DInv /\ OInv) /\ [Next]_vars => (DInv /\ OInv)'
  <2>1. DInv => Drawn
    BY DEF DInv
  <2> QED
    BY <2>1, StepDrawn, StepOrder
<1> QED
  BY <1>1, <1>2, Invariance, PTL DEF Spec

(* ADR-0001 in numbers: of a group of n events none is given half of the   *)
(* n-th part of the day or less, however often bspAssign halves.           *)
EqualShares ==
  at = "done" => \A i \in All : column[i].parts < 2 * Cardinality(Members(groupOf[i]))

(* The theorem of EqualShares: renderDayEvents draws nothing narrower.     *)
THEOREM NoneTooNarrow == Spec => []EqualShares
<1>1. IInv /\ DInv /\ OInv => EqualShares
  BY DEF DInv, OInv, Drawn, WideBlocks, EqualShares
<1> QED
  BY <1>1, DayInvariance, PTL

(* The blocks of a day (renderDayEvents) stay inside its column: a tap on   *)
(* one day never finds what another day has drawn.                         *)
InsideDay ==
  at = "done" => \A i \in All : 1 <= Left(i) /\ Right(i) < ColWidth

(* The theorem of InsideDay, for a day of any width.                       *)
THEOREM StaysInside == Spec => []InsideDay
<1>1. IInv => InsideDay
  <2> SUFFICES ASSUME IInv, NEW i \in All PROVE 1 <= Left(i) /\ Right(i) < ColWidth
    BY DEF InsideDay
  <2>1. TypeOK
    BY DEF IInv
  <2>2. column[i] \in Block
    BY <2>1 DEF TypeOK
  <2>3. column[i].parts \in Nat \ {0} /\ column[i].pos + 1 \in Nat
        /\ (column[i].pos + 1) * 1 <= 1 * column[i].parts
    BY <2>2 DEF Block
  <2>4. ((column[i].pos + 1) * ColWidth) \div column[i].parts <= (1 * ColWidth) \div 1
    BY <2>3, FloorMonotone, ColWidthAssumption
  <2>5. (1 * ColWidth) \div 1 = ColWidth
    BY ColWidthAssumption
  <2>6. PICK r \in Nat : r = ((column[i].pos + 1) * ColWidth) \div column[i].parts
    BY <2>1, Edges
  <2>7. PICK l \in Nat : l = (column[i].pos * ColWidth) \div column[i].parts
    BY <2>1, Edges
  <2>8. Left(i) = l + 1 /\ Right(i) = r - 1
    BY <2>6, <2>7 DEF Left, Right
  <2> QED
    BY <2>4, <2>5, <2>6, <2>8, ColWidthAssumption
<1> QED
  BY <1>1, Invariance, PTL

(* Every event with a pixel to its name is found by Tapped, or shown in    *)
(* the Pop-out View that opens, in the middle of the lower edge of its own *)
(* block, though renderDayEvents draws short ones over what comes later.   *)
EachTapped ==
  at = "done" =>
    \A i \in All :
      Start(i) < dayLength /\ Visible(i) => i \in Opens(i) /\ Tapped(i, Middle(i), Bottom(i))

(* The theorem of EachTapped: it needs no assumption on widths or numbers. *)
THEOREM TapsFind == Spec => []EachTapped
<1>1. IInv /\ DInv /\ OInv => EachTapped
  BY TapFinds, OwnBlockOpens DEF EachTapped, IInv
<1> QED
  BY <1>1, DayInvariance, PTL

LEMMA AtMostAll ==
  ASSUME TypeOK, NEW g
  PROVE  Cardinality(Members(g)) <= N
<1>1. N \in Nat /\ All = 1..N
  BY MembersFinite
<1>2. IsFiniteSet(All) /\ Cardinality(All) = N
  BY <1>1, FS_Interval
<1>3. Members(g) \subseteq All
  BY DEF Members
<1> QED
  BY <1>2, <1>3, FS_Subset

\* No event is added to a day.
Bounded == N <= MaxEvents

(* The bound on the events of a day holds in every state.                  *)
THEOREM StaysBounded == Spec => []Bounded
<1>1. Init => Bounded
  BY MaxEventsAssumption DEF Init, Bounded, N
<1>2. Bounded /\ [Next]_vars => Bounded'
  <2>1. [Next]_vars => events' = events
    BY DEF Next, vars, BeginGroup, Scan, EndPass, EndGroups, Split, DrawGroup
  <2> QED
    BY <2>1 DEF Bounded, N
<1> QED
  BY <1>1, <1>2, PTL DEF Spec

(* Every event of a day can be opened (renderDayEvents and Tapped), if the *)
(* day is at least four pixels wide for each event there may be: a block   *)
(* is then wider than its margins, which take two pixels.                  *)
THEOREM EveryEventOpens == 4 * MaxEvents <= ColWidth => (Spec => []Reachable)
<1> SUFFICES ASSUME 4 * MaxEvents <= ColWidth PROVE Spec => []Reachable
  OBVIOUS
<1>1. IInv /\ DInv /\ OInv /\ Bounded => Reachable
  <2> SUFFICES ASSUME IInv, DInv, OInv, Bounded, at = "done", NEW i \in All, Start(i) < dayLength
               PROVE  \E k \in All : i \in Opens(k) /\ \E y \in Top(k)..Bottom(k) : Tapped(k, Middle(k), y)
    BY DEF Reachable, Start, Middle
  <2>1. TypeOK
    BY DEF IInv
  <2>2. column[i].parts < 2 * Cardinality(Members(groupOf[i]))
    BY DEF DInv, OInv, Drawn, WideBlocks
  <2>3. Cardinality(Members(groupOf[i])) <= MaxEvents /\ Cardinality(Members(groupOf[i])) \in Nat
    BY <2>1, AtMostAll, MembersFinite, MaxEventsAssumption DEF Bounded
  <2>4. 2 * column[i].parts <= ColWidth
    BY <2>1, <2>2, <2>3, ColumnTypes, MaxEventsAssumption, ColWidthAssumption
  <2>5. Tapped(i, Middle(i), Bottom(i))
    BY <2>1, <2>4, WideIsVisible, TapFinds
  <2>6. Bottom(i) \in Top(i)..Bottom(i)
    BY <2>5 DEF Tapped, Hit
  <2> QED
    BY <2>1, <2>5, <2>6, OwnBlockOpens
<1> QED
  BY <1>1, DayInvariance, StaysBounded, PTL
===============================================================================
