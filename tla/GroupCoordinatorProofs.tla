----------------------- MODULE GroupCoordinatorProofs -----------------------
(* Proofs about GroupCoordinator: the coordinator's state is well typed,   *)
(* no partition has two owners, and the generation fences every change of  *)
(* members or assignments, for any groups, members and partition counts.   *)
EXTENDS GroupCoordinator, FiniteSetTheorems, WellFoundedInduction, TLAPS

-----------------------------------------------------------------------------
(* The range assignment                                                    *)

\* Multiplication by a natural number is monotone.
LEMMA TimesMonotone ==
    ASSUME NEW a \in Nat, NEW b \in Nat, NEW q \in Nat, a <= b
    PROVE  a * q <= b * q
  BY Z3

\* The quotient and the remainder of the partition count are natural numbers.
LEMMA DivisionNat ==
    ASSUME NEW n \in Nat, NEW c \in Nat \ {0}
    PROVE  n \div c \in Nat /\ n % c \in Nat
  BY Z3

\* The start of each member's range is a partition number.
LEMMA FirstPartitionNat ==
    ASSUME NEW n \in Nat, NEW c \in Nat \ {0}, NEW i \in Nat
    PROVE  FirstPartition(i, n, c) \in Nat
  <1>1. n \div c \in Nat /\ n % c \in Nat  BY DivisionNat
  <1>2. i * (n \div c) \in Nat  BY <1>1
  <1> QED  BY <1>1, <1>2 DEF FirstPartition

\* Ranges of later members start at or after the end of earlier ones.
LEMMA FirstPartitionMonotone ==
    ASSUME NEW n \in Nat, NEW c \in Nat \ {0}, NEW i \in Nat, NEW j \in Nat, i <= j
    PROVE  FirstPartition(i, n, c) <= FirstPartition(j, n, c)
  <1>1. n \div c \in Nat /\ n % c \in Nat  BY DivisionNat
  <1>2. i * (n \div c) <= j * (n \div c)  BY <1>1, TimesMonotone
  <1>3. i * (n \div c) \in Nat /\ j * (n \div c) \in Nat  BY <1>1
  <1> QED  BY <1>1, <1>2, <1>3 DEF FirstPartition

\* The members of a group are finitely many.
LEMMA MembersFinite ==
    ASSUME NEW S \in SUBSET Member
    PROVE  IsFiniteSet(S) /\ Cardinality(S) \in Nat
  <1>1. MaxMember \in Int  BY CoordinatorAssumption
  <1>2. IsFiniteSet(Member)  BY <1>1, FS_Interval DEF Member
  <1> QED  BY <1>2, FS_Subset, FS_CardinalityType, Zenon

\* A member's index is a natural number, and smaller than that of a later one.
LEMMA IndexOrder ==
    ASSUME NEW S \in SUBSET Member, NEW m \in S, NEW k \in S
    PROVE  /\ Index(m, S) \in Nat
           /\ m < k => Index(m, S) < Index(k, S)
  <1> DEFINE A == {j \in S : j < m}
             B == {j \in S : j < k}
  <1>1. A \in SUBSET Member /\ B \in SUBSET Member  OBVIOUS
  <1>2. IsFiniteSet(A) /\ IsFiniteSet(B) /\ Cardinality(A) \in Nat /\ Cardinality(B) \in Nat
    BY <1>1, MembersFinite
  <1>3. ASSUME m < k PROVE Cardinality(A) < Cardinality(B)
    <2>1. m \in Int /\ k \in Int /\ \A j \in S : j \in Int
      BY CoordinatorAssumption DEF Member
    <2>2. A \subseteq B
      <3>1. ASSUME NEW j \in S, j < m PROVE j < k
        BY <1>3, <2>1, <3>1
      <3> QED  BY <3>1
    <2>3. m \in B /\ m \notin A  BY <1>3, <2>1
    <2>4. Cardinality(A) <= Cardinality(B) /\ (Cardinality(A) = Cardinality(B) => A = B)
      BY <1>2, <2>2, FS_Subset, Zenon
    <2> HIDE DEF A, B
    <2> QED  BY <1>2, <2>3, <2>4
  <1> QED  BY <1>2, <1>3, Zenon DEF Index

\* recompute_assignment gives no partition to two members.
LEMMA AssignedDisjoint ==
    ASSUME NEW S \in SUBSET Member, NEW n \in Nat, NEW m \in S, NEW k \in S, m # k
    PROVE  Assigned(S, n)[m] \cap Assigned(S, n)[k] = {}
  <1> DEFINE c == Cardinality(S)
             F(i) == FirstPartition(i, n, c)
  <1>1. IsFiniteSet(S) /\ c \in Nat  BY MembersFinite, Zenon
  <1>2. c # 0  BY <1>1, FS_EmptySet, Zenon
  <1>3. c \in Nat \ {0}  BY <1>1, <1>2, Zenon
  <1>4. ASSUME NEW x \in S, NEW y \in S, x < y
        PROVE  Assigned(S, n)[x] \cap Assigned(S, n)[y] = {}
    <2> DEFINE i == Index(x, S)
               j == Index(y, S)
    <2>1. i \in Nat /\ j \in Nat /\ i < j  BY <1>4, IndexOrder, Zenon
    <2>2. i + 1 \in Nat /\ j + 1 \in Nat /\ i + 1 <= j  BY <2>1
    <2>3. F(i) \in Nat /\ F(i + 1) \in Nat /\ F(j) \in Nat /\ F(j + 1) \in Nat
      BY <1>3, <2>1, <2>2, FirstPartitionNat, ZenonT(60)
    <2>4. F(i + 1) <= F(j)  BY <1>3, <2>1, <2>2, FirstPartitionMonotone, Zenon
    <2>5. x \in Member /\ y \in Member  OBVIOUS
    <2>6. Assigned(S, n)[x] = F(i) .. F(i + 1) - 1  BY <2>5, Zenon DEF Assigned
    <2>7. Assigned(S, n)[y] = F(j) .. F(j + 1) - 1  BY <2>5, Zenon DEF Assigned
    <2> HIDE DEF F, i, j
    <2> QED  BY <2>3, <2>4, <2>6, <2>7
  <1>5. m \in Int /\ k \in Int  BY CoordinatorAssumption DEF Member
  <1>6. m < k \/ k < m  BY <1>5
  <1> QED  BY <1>4, <1>6, Zenon

\* recompute_assignment gives every member a set of partition numbers.
LEMMA AssignedType ==
    ASSUME NEW S \in SUBSET Member, NEW n \in Nat
    PROVE  Assigned(S, n) \in [Member -> SUBSET Nat]
  <1> DEFINE c == Cardinality(S)
  <1>1. ASSUME NEW m \in S
        PROVE  FirstPartition(Index(m, S), n, c) .. FirstPartition(Index(m, S) + 1, n, c) - 1
                 \in SUBSET Nat
    <2>1. IsFiniteSet(S) /\ c \in Nat  BY MembersFinite
    <2>2. c # 0  BY <2>1, FS_EmptySet
    <2>3. c \in Nat \ {0}  BY <2>1, <2>2
    <2>4. Index(m, S) \in Nat /\ Index(m, S) + 1 \in Nat  BY IndexOrder
    <2>5. /\ FirstPartition(Index(m, S), n, c) \in Nat
          /\ FirstPartition(Index(m, S) + 1, n, c) \in Nat
      BY <2>3, <2>4, FirstPartitionNat, ZenonT(60)
    <2> HIDE DEF c
    <2> QED  BY <2>5
  <1> QED  BY <1>1, Zenon DEF Assigned

-----------------------------------------------------------------------------
(* All partitions are handed out, evenly                                   *)

\* A set of natural numbers has a least element.
LEMMA LeastNat ==
    ASSUME NEW T, T \subseteq Nat, T # {}
    PROVE  \E x \in T : \A y \in T : x <= y
  <1>1. IsWellFoundedOn(OpToRel(<, Nat), Nat)  BY NatLessThanWellFounded, Zenon
  <1>2. PICK x \in T : \A y \in T : ~(<<y, x>> \in OpToRel(<, Nat))
    BY <1>1, WFMin, Zenon
  <1>3. ASSUME NEW y \in T PROVE x <= y
    <2>1. x \in Nat /\ y \in Nat  OBVIOUS
    <2>2. ~(y < x)
      <3>1. <<y, x>> \in Nat \X Nat  BY <2>1
      <3> QED  BY <1>2, <3>1 DEF OpToRel
    <2> QED  BY <2>1, <2>2
  <1> QED  BY <1>3

\* A group with members has one with the highest id.
LEMMA LastMember ==
    ASSUME NEW S \in SUBSET Member, S # {}
    PROVE  \E x \in S : \A y \in S : y <= x
  <1> DEFINE T == {k \in Nat : \A y \in S : y <= k}
  <1>1. MaxMember \in T  BY CoordinatorAssumption DEF Member
  <1>2. T \subseteq Nat /\ T # {}  BY <1>1
  <1>3. PICK x \in T : \A k \in T : x <= k  BY <1>2, LeastNat, Zenon
  <1>4. x \in S
    <2> SUFFICES ASSUME x \notin S PROVE FALSE  OBVIOUS
    <2>1. \A y \in S : y \in Nat \ {0} /\ y <= x /\ y # x
      BY <1>3, CoordinatorAssumption DEF Member
    <2>2. x \in Nat  BY <1>3
    <2>3. x - 1 \in Nat /\ \A y \in S : y <= x - 1  BY <2>1, <2>2
    <2>4. x - 1 \in T  BY <2>3
    <2> HIDE DEF T
    <2> QED  BY <1>3, <2>2, <2>4
  <1> QED  BY <1>3, <1>4

\* A member comes right after the highest one below it.
LEMMA IndexAfter ==
    ASSUME NEW S \in SUBSET Member, NEW m \in S, NEW x \in S, x < m,
           \A y \in S : y < m => y <= x
    PROVE  Index(m, S) = Index(x, S) + 1
  <1> DEFINE A == {j \in S : j < x}
             B == {j \in S : j < m}
  <1>1. x \in Int /\ m \in Int /\ \A j \in S : j \in Int
    BY CoordinatorAssumption DEF Member
  <1>2. B = A \cup {x} /\ x \notin A
    <2>1. ASSUME NEW j \in S PROVE j < m <=> j < x \/ j = x  BY <1>1
    <2>2. ~(x < x)  BY <1>1
    <2> QED  BY <2>1, <2>2, Zenon
  <1>3. IsFiniteSet(A) /\ Cardinality(A) \in Nat  BY MembersFinite, Zenon
  <1>4. Cardinality(A \cup {x}) = Cardinality(A) + 1
    <2> HIDE DEF A
    <2> QED  BY <1>2, <1>3, FS_AddElement
  <1> QED  BY <1>2, <1>4 DEF Index

\* The member with the highest id is the last of the group.
LEMMA IndexLast ==
    ASSUME NEW S \in SUBSET Member, NEW x \in S, \A y \in S : y <= x
    PROVE  Cardinality(S) = Index(x, S) + 1
  <1> DEFINE A == {j \in S : j < x}
  <1>1. x \in Int /\ \A j \in S : j \in Int  BY CoordinatorAssumption DEF Member
  <1>2. S = A \cup {x} /\ x \notin A
    <2>1. ASSUME NEW j \in S PROVE j < x \/ j = x  BY <1>1
    <2>2. ~(x < x)  BY <1>1
    <2> QED  BY <2>1, <2>2, Zenon
  <1>3. IsFiniteSet(A) /\ Cardinality(A) \in Nat  BY MembersFinite, Zenon
  <1>4. Cardinality(A \cup {x}) = Cardinality(A) + 1
    <2> HIDE DEF A
    <2> QED  BY <1>2, <1>3, FS_AddElement
  <1> QED  BY <1>2, <1>4 DEF Index

\* The range after the last member's starts at the partition count.
LEMMA FirstPartitionEnd ==
    ASSUME NEW n \in Nat, NEW c \in Nat \ {0}
    PROVE  FirstPartition(0, n, c) = 0 /\ FirstPartition(c, n, c) = n
  <1>1. n \div c \in Nat /\ n % c \in Nat  BY DivisionNat
  <1>2. n % c < c  BY SMT
  <1>3. n = c * (n \div c) + (n % c)  BY SMT
  <1>4. 0 * (n \div c) = 0  BY <1>1
  <1> QED  BY <1>1, <1>2, <1>3, <1>4 DEF FirstPartition

\* A range has the quotient of the partition count, or one more.
LEMMA FirstPartitionStep ==
    ASSUME NEW n \in Nat, NEW c \in Nat \ {0}, NEW i \in Nat
    PROVE  FirstPartition(i + 1, n, c) - FirstPartition(i, n, c)
             \in {n \div c, n \div c + 1}
  <1> DEFINE q == n \div c
             r == n % c
  <1>1. q \in Nat /\ r \in Nat  BY DivisionNat
  <1> HIDE DEF q, r
  <1>2. (i + 1) * q = i * q + q /\ i * q \in Nat  BY <1>1
  <1> QED  BY <1>1, <1>2 DEF FirstPartition, q, r

\* Every range is within the topic's partitions.
LEMMA AssignedWithin ==
    ASSUME NEW S \in SUBSET Member, NEW n \in Nat, NEW m \in Member
    PROVE  Assigned(S, n)[m] \subseteq 0 .. n - 1
  <1> DEFINE c == Cardinality(S)
             i == Index(m, S)
             F(k) == FirstPartition(k, n, c)
  <1>1. CASE m \notin S
    <2>1. Assigned(S, n)[m] = {}  BY <1>1, Zenon DEF Assigned
    <2> QED  BY <2>1, Zenon
  <1>2. CASE m \in S
    <2>1. PICK x \in S : \A y \in S : y <= x  BY <1>2, LastMember, Zenon
    <2>2. c = Index(x, S) + 1  BY <2>1, IndexLast, Zenon
    <2>3. /\ i \in Nat /\ Index(x, S) \in Nat
          /\ m < x => i < Index(x, S)
      BY <1>2, IndexOrder, Zenon
    <2>4. m \in Int /\ x \in Int /\ m <= x
      BY <1>2, <2>1, CoordinatorAssumption DEF Member
    <2>5. m = x \/ m < x  BY <2>4
    <2>6. c \in Nat \ {0} /\ i + 1 \in Nat /\ i + 1 <= c
      <3> HIDE DEF c, i
      <3> QED  BY <2>2, <2>3, <2>5 DEF i
    <2>7. F(i) \in Nat /\ F(i + 1) \in Nat
      BY <2>3, <2>6, FirstPartitionNat, ZenonT(60)
    <2>8. c \in Nat  BY <2>6, Zenon
    <2>9. F(i + 1) <= F(c)  BY <2>6, <2>8, FirstPartitionMonotone, Zenon
    <2>10. F(c) = n  BY <2>6, FirstPartitionEnd, Zenon
    <2>11. Assigned(S, n)[m] = F(i) .. F(i + 1) - 1  BY <1>2, Zenon DEF Assigned
    <2> HIDE DEF F, i, c
    <2> QED  BY <2>7, <2>9, <2>10, <2>11
  <1> QED  BY <1>1, <1>2, Zenon

\* Every partition is in the range of some member: of the first one whose range
\* ends above it.
LEMMA AssignedCovers ==
    ASSUME NEW S \in SUBSET Member, S # {}, NEW n \in Nat, NEW p \in 0 .. n - 1
    PROVE  \E m \in S : p \in Assigned(S, n)[m]
  <1> DEFINE c == Cardinality(S)
             F(k) == FirstPartition(k, n, c)
             T == {m \in S : p < F(Index(m, S) + 1)}
  <1>1. PICK x \in S : \A y \in S : y <= x  BY LastMember, Zenon
  <1>2. c = Index(x, S) + 1 /\ Index(x, S) \in Nat  BY <1>1, IndexLast, IndexOrder, Zenon
  <1>3. c \in Nat \ {0}  BY <1>2
  <1>4. F(c) = n /\ F(0) = 0  BY <1>3, FirstPartitionEnd, Zenon
  <1>5. p < F(Index(x, S) + 1)
    <2>1. F(Index(x, S) + 1) = n  BY <1>2, <1>4, Zenon
    <2> HIDE DEF F
    <2> QED  BY <2>1
  <1>6. T \subseteq Nat /\ T # {}
    <2>1. S \subseteq Nat  BY CoordinatorAssumption DEF Member
    <2> QED  BY <1>1, <1>5, <2>1, Zenon
  <1>7. PICK m \in T : \A k \in T : m <= k  BY <1>6, LeastNat, Zenon
  <1> DEFINE i == Index(m, S)
  <1>8. m \in S /\ m \in Member /\ p < F(i + 1)  BY <1>7, Zenon
  <1>9. i \in Nat  BY <1>8, IndexOrder, Zenon
  <1>10. F(i) <= p
    <2> DEFINE B == {k \in S : k < m}
    <2>1. CASE B = {}
      <3>1. i = 0  BY <2>1, FS_EmptySet, Zenon DEF Index
      <3>2. F(i) = 0  BY <1>4, <3>1, Zenon
      <3> HIDE DEF F, i
      <3> QED  BY <3>2
    <2>2. CASE B # {}
      <3>1. B \in SUBSET Member  BY Zenon
      <3>2. PICK y \in B : \A k \in B : k <= y  BY <2>2, <3>1, LastMember, Zenon
      <3>3. y \in S /\ y < m /\ \A k \in S : k < m => k <= y  BY <3>2, Zenon
      <3>4. i = Index(y, S) + 1  BY <1>8, <3>3, IndexAfter, Zenon
      <3>5. ~(m <= y)  BY <1>8, <3>3, CoordinatorAssumption DEF Member
      <3>6. ~(p < F(Index(y, S) + 1))  BY <1>7, <3>3, <3>5, Zenon
      <3>7. ~(p < F(i))  BY <3>4, <3>6, Zenon
      <3>8. F(i) \in Nat  BY <1>3, <1>9, FirstPartitionNat, ZenonT(60)
      <3> HIDE DEF F, i
      <3> QED  BY <3>7, <3>8
    <2> QED  BY <2>1, <2>2, Zenon
  <1>11. Assigned(S, n)[m] = F(i) .. F(i + 1) - 1  BY <1>8, Zenon DEF Assigned
  <1>12. F(i) \in Nat /\ F(i + 1) \in Nat
    <2>1. i + 1 \in Nat  BY <1>9
    <2> QED  BY <1>3, <1>9, <2>1, FirstPartitionNat, ZenonT(60)
  <1>13. p \in F(i) .. F(i + 1) - 1
    <2> HIDE DEF F, i
    <2> QED  BY <1>8, <1>10, <1>12
  <1> QED  BY <1>8, <1>11, <1>13, Zenon

\* A member has as many partitions as its range is long, and ranges differ by
\* one at most.
LEMMA AssignedEven ==
    ASSUME NEW S \in SUBSET Member, NEW n \in Nat, NEW m \in S, NEW k \in S
    PROVE  Cardinality(Assigned(S, n)[m]) <= Cardinality(Assigned(S, n)[k]) + 1
  <1> DEFINE c == Cardinality(S)
             F(i) == FirstPartition(i, n, c)
             q == n \div c
  <1>1. c \in Nat \ {0}
    <2>1. IsFiniteSet(S) /\ c \in Nat  BY MembersFinite, Zenon
    <2>2. c # 0  BY <2>1, FS_EmptySet, Zenon
    <2> QED  BY <2>1, <2>2, Zenon
  <1>2. q \in Nat  BY <1>1, DivisionNat
  <1>3. ASSUME NEW x \in S
        PROVE  Cardinality(Assigned(S, n)[x]) \in {q, q + 1}
    <2> DEFINE i == Index(x, S)
    <2>1. i \in Nat /\ i + 1 \in Nat
      <3>1. i \in Nat  BY IndexOrder, Zenon
      <3> QED  BY <3>1
    <2>2. F(i) \in Nat /\ F(i + 1) \in Nat
      BY <1>1, <2>1, FirstPartitionNat, ZenonT(60)
    <2>3. F(i + 1) - F(i) \in {q, q + 1}  BY <1>1, <2>1, FirstPartitionStep, Zenon
    <2>4. Assigned(S, n)[x] = F(i) .. F(i + 1) - 1
      <3>1. x \in Member  OBVIOUS
      <3> QED  BY <3>1, Zenon DEF Assigned
    <2> HIDE DEF F, i, q
    <2>5. F(i) \in Int /\ F(i + 1) - 1 \in Int  BY <2>2
    <2>6. Cardinality(F(i) .. F(i + 1) - 1)
            = IF F(i) > F(i + 1) - 1 THEN 0 ELSE (F(i + 1) - 1) - F(i) + 1
      BY <2>5, FS_Interval, Zenon
    <2> QED  BY <1>2, <2>2, <2>3, <2>4, <2>6
  <1> HIDE DEF q
  <1> QED  BY <1>2, <1>3

-----------------------------------------------------------------------------
(* The inductive invariant CoordIInv                                       *)

\* Partition counts are natural numbers.
LEMMA CountsNat == PartitionCount \cup {0} \subseteq Nat
  <1>1. PartitionCount \subseteq Nat  BY CoordinatorAssumption, Zenon
  <1> QED  BY <1>1

\* Restricting a member map to some members keeps its type.
LEMMA KeptType ==
    ASSUME NEW T, NEW zero \in T, NEW f \in [Member -> T], NEW S
    PROVE  Kept(f, S, zero) \in [Member -> T]
  BY DEF Kept

\* A sweep keeps the types of what it changes, moves no generation back, and
\* leaves the assignment that the remaining members should have.  A group whose
\* generation it does not move keeps its members and its assignment.
LEMMA SweepStep ==
    ASSUME CoordIInv, NEW G \in SUBSET Group, Sweep(G)
    PROVE  /\ members' \in [Group -> SUBSET Member]
           /\ timeout' \in [Group -> [Member -> Timeout \cup {0}]]
           /\ assignment' \in [Group -> [Member -> SUBSET Nat]]
           /\ generation' \in [Group -> Nat]
           /\ \A g \in Group :
                 /\ members'[g] = (IF g \in G THEN Unexpired(g) ELSE members[g])
                 /\ members'[g] \subseteq members[g]
                 /\ assignment'[g] = Assigned(members'[g], count[g])
                 /\ generation'[g] >= generation[g]
                 /\ generation'[g] = generation[g] =>
                       members'[g] = members[g] /\ assignment'[g] = assignment[g]
  <1>ty. CoordTypeOK  BY DEF CoordIInv
  <1>1. \A g \in Group : Unexpired(g) \subseteq members[g] /\ Unexpired(g) \in SUBSET Member
    BY <1>ty, Zenon DEF CoordTypeOK, Unexpired
  <1>2. \A g \in Group : members'[g] = (IF g \in G THEN Unexpired(g) ELSE members[g])
    BY Zenon DEF Sweep
  <1>3. members' \in [Group -> SUBSET Member]
    BY <1>ty, <1>1 DEF CoordTypeOK, Sweep
  <1>4. timeout' \in [Group -> [Member -> Timeout \cup {0}]]
    <2>1. \A g \in Group : Kept(timeout[g], Unexpired(g), 0) \in [Member -> Timeout \cup {0}]
      BY <1>ty, KeptType, ZenonT(60) DEF CoordTypeOK
    <2> QED  BY <1>ty, <2>1, Zenon DEF CoordTypeOK, Sweep
  <1>5. \A g \in Group : count[g] \in Nat
    BY <1>ty, CountsNat, Zenon DEF CoordTypeOK
  <1>6. assignment' \in [Group -> [Member -> SUBSET Nat]]
    <2>1. \A g \in Group : Assigned(Unexpired(g), count[g]) \in [Member -> SUBSET Nat]
      BY <1>1, <1>5, AssignedType, SMTT(60)
    <2> QED  BY <1>ty, <2>1, Zenon DEF CoordTypeOK, Sweep
  <1>7. generation' \in [Group -> Nat]
    <2>1. \A g \in Group : generation[g] \in Nat  BY <1>ty, Zenon DEF CoordTypeOK
    <2>2. \A g \in Group : SweptGeneration(g) \in Nat  BY <2>1 DEF SweptGeneration
    <2> QED  BY <2>1, <2>2, Zenon DEF Sweep
  <1>8. ASSUME NEW g \in Group
        PROVE  /\ assignment'[g] = Assigned(members'[g], count[g])
               /\ generation'[g] >= generation[g]
               /\ generation'[g] = generation[g] =>
                     members'[g] = members[g] /\ assignment'[g] = assignment[g]
    <2>1. assignment[g] = Assigned(members[g], count[g])  BY Zenon DEF CoordIInv
    <2>2. generation[g] \in Nat  BY <1>ty, Zenon DEF CoordTypeOK
    <2>3. CASE g \in G /\ Expires(g)
      <3>1. generation'[g] = generation[g] + 1  BY <2>3, Zenon DEF Sweep, SweptGeneration
      <3>2. assignment'[g] = Assigned(Unexpired(g), count[g])  BY <2>3, Zenon DEF Sweep
      <3> QED  BY <1>2, <2>2, <2>3, <3>1, <3>2
    <2>4. CASE ~(g \in G /\ Expires(g))
      <3>1. members'[g] = members[g]  BY <1>2, <2>4, Zenon DEF Expires
      <3>2. assignment'[g] = assignment[g]  BY <2>4 DEF Sweep
      <3>3. generation'[g] = generation[g]  BY <2>2, <2>4 DEF Sweep, SweptGeneration
      <3> QED  BY <2>1, <2>2, <3>1, <3>2, <3>3
    <2> QED  BY <2>3, <2>4
  <1> QED  BY <1>1, <1>2, <1>3, <1>4, <1>6, <1>7, <1>8, Zenon

\* The ages stay natural numbers through a sweep.
LEMMA SweepAgesType ==
    ASSUME CoordTypeOK, NEW G, NEW R, SweepAges(G, R)
    PROVE  age' \in [Group -> [Member -> Nat]]
  <1>1. \A g \in Group : Kept(age[g], Unexpired(g) \ R, 0) \in [Member -> Nat]
    BY KeptType, ZenonT(60) DEF CoordTypeOK
  <1> QED  BY <1>1, ZenonT(60) DEF CoordTypeOK, SweepAges

\* What a step may do to a group it keeps.
FencedStep(g) ==
    /\ generation'[g] >= generation[g]
    /\ generation'[g] = generation[g] =>
          members'[g] = members[g] /\ assignment'[g] = assignment[g]

\* A request that only sweeps its group keeps the invariant, and is fenced.
LEMMA SweepOnly ==
    ASSUME CoordIInv, NEW G \in SUBSET Group, NEW R, Sweep(G), SweepAges(G, R),
           UNCHANGED <<count, known, nextId, topicVars>>
    PROVE  CoordIInv' /\ \A g \in Group : FencedStep(g)
  <1>ty. CoordTypeOK  BY Zenon DEF CoordIInv
  <1>1. age' \in [Group -> [Member -> Nat]]  BY <1>ty, SweepAgesType, Zenon
  <1>2. CoordTypeOK'
    BY <1>ty, <1>1, SweepStep, Zenon DEF CoordTypeOK, topicVars
  <1>3. \A g \in Group :
           /\ assignment'[g] = Assigned(members'[g], count'[g])
           /\ members'[g] # {} => live' /\ g \in known' /\ count'[g] = partitions'
    BY SweepStep DEF CoordIInv, topicVars
  <1> QED  BY <1>2, <1>3, SweepStep, Zenon DEF CoordIInv, FencedStep

\* join keeps the invariant, and moves the generation whenever it changes the
\* members or an assignment.
LEMMA JoinKeeps ==
    ASSUME CoordIInv, NEW g \in Group, NEW id \in Member, NEW t \in Timeout,
           Join(g, id, t), nextId' \in Nat \ {0}
    PROVE  CoordIInv' /\ \A h \in Group : FencedStep(h)
  <1> DEFINE S == Unexpired(g) \cup {id}
             inserted == id \notin Unexpired(g)
  <1>ty. CoordTypeOK  BY Zenon DEF CoordIInv
  <1>1. /\ live
        /\ members' = [members EXCEPT ![g] = S]
        /\ timeout' = [timeout EXCEPT ![g] = [Kept(timeout[g], S, 0) EXCEPT ![id] = t]]
        /\ age' = [age EXCEPT ![g] = [Kept(age[g], S, 0) EXCEPT ![id] = 0]]
        /\ generation' = [generation EXCEPT ![g] =
                             SweptGeneration(g) + (IF inserted THEN 1 ELSE 0)]
        /\ assignment' = [assignment EXCEPT ![g] =
                             IF Expires(g) \/ inserted \/ assignment[g][id] = {}
                             THEN Assigned(S, partitions) ELSE assignment[g]]
        /\ count' = [count EXCEPT ![g] = partitions]
        /\ known' = known \cup {g}
        /\ live' = live /\ partitions' = partitions /\ deletes' = deletes
    BY Zenon DEF Join, topicVars
  <1>2. Unexpired(g) \subseteq members[g] /\ members[g] \in SUBSET Member
    BY <1>ty, Zenon DEF CoordTypeOK, Unexpired
  <1>3. S \in SUBSET Member  BY <1>2
  <1>4. partitions \in PartitionCount /\ partitions \in Nat
    BY <1>ty, CountsNat DEF CoordTypeOK
  <1>5. generation[g] \in Nat  BY <1>ty DEF CoordTypeOK
  <1>6. assignment[g] = Assigned(members[g], count[g])
        /\ (members[g] # {} => count[g] = partitions)
    BY DEF CoordIInv
  <1>7. ASSUME ~Expires(g), ~inserted
        PROVE  S = members[g] /\ assignment[g] = Assigned(S, partitions)
    <2>1. Unexpired(g) = members[g]  BY <1>7 DEF Expires
    <2>2. S = members[g] /\ members[g] # {}  BY <1>7, <2>1
    <2> QED  BY <1>6, <2>2, SMTT(60)
  <1> HIDE DEF S, inserted
  <1>8. assignment' = [assignment EXCEPT ![g] = Assigned(S, partitions)]
    BY <1>1, <1>7, ZenonT(60)
  <1>9. Assigned(S, partitions) \in [Member -> SUBSET Nat]  BY <1>3, <1>4, AssignedType, Zenon
  <1>10. CoordTypeOK'
    <2>1. members' \in [Group -> SUBSET Member]  BY <1>ty, <1>1, <1>3, Zenon DEF CoordTypeOK
    <2>2. timeout' \in [Group -> [Member -> Timeout \cup {0}]]
      <3>1. Kept(timeout[g], S, 0) \in [Member -> Timeout \cup {0}]
        BY <1>ty, KeptType, ZenonT(60) DEF CoordTypeOK
      <3>2. [Kept(timeout[g], S, 0) EXCEPT ![id] = t] \in [Member -> Timeout \cup {0}]
        BY <3>1, Zenon
      <3> QED  BY <1>ty, <1>1, <3>2, Zenon DEF CoordTypeOK
    <2>3. age' \in [Group -> [Member -> Nat]]
      <3>1. Kept(age[g], S, 0) \in [Member -> Nat]  BY <1>ty, KeptType, ZenonT(60) DEF CoordTypeOK
      <3>2. [Kept(age[g], S, 0) EXCEPT ![id] = 0] \in [Member -> Nat]  BY <3>1, Zenon
      <3> QED  BY <1>ty, <1>1, <3>2, Zenon DEF CoordTypeOK
    <2>4. assignment' \in [Group -> [Member -> SUBSET Nat]]
      BY <1>ty, <1>8, <1>9, Zenon DEF CoordTypeOK
    <2>5. generation' \in [Group -> Nat]
      <3>1. SweptGeneration(g) + (IF inserted THEN 1 ELSE 0) \in Nat
        BY <1>5 DEF SweptGeneration
      <3> QED  BY <1>ty, <1>1, <3>1, Zenon DEF CoordTypeOK
    <2>6. count' \in [Group -> PartitionCount \cup {0}]
      BY <1>ty, <1>1, <1>4, Zenon DEF CoordTypeOK
    <2>7. known' \subseteq Group /\ live' \in BOOLEAN /\ partitions' \in PartitionCount
          /\ deletes' \in 0 .. MaxDeletes
      BY <1>ty, <1>1, Zenon DEF CoordTypeOK
    <2> QED  BY <2>1, <2>2, <2>3, <2>4, <2>5, <2>6, <2>7, Zenon DEF CoordTypeOK
  <1>11. ASSUME NEW h \in Group
         PROVE  /\ assignment'[h] = Assigned(members'[h], count'[h])
                /\ members'[h] # {} => live' /\ h \in known' /\ count'[h] = partitions'
                /\ FencedStep(h)
    <2>1. CASE h = g
      <3>1. members'[h] = S /\ count'[h] = partitions
            /\ assignment'[h] = Assigned(S, partitions)
        BY <1>ty, <1>1, <1>8, <2>1, Zenon DEF CoordTypeOK
      <3>2. generation'[h] = SweptGeneration(g) + (IF inserted THEN 1 ELSE 0)
        BY <1>ty, <1>1, <2>1, Zenon DEF CoordTypeOK
      <3>3. generation'[h] >= generation[h]
        BY <1>5, <2>1, <3>2 DEF SweptGeneration
      <3>4. generation'[h] = generation[h] => ~Expires(g) /\ ~inserted
        BY <1>5, <2>1, <3>2 DEF SweptGeneration
      <3> QED  BY <1>1, <1>7, <2>1, <3>1, <3>3, <3>4, Zenon DEF FencedStep
    <2>2. CASE h # g
      <3>1. /\ members'[h] = members[h] /\ count'[h] = count[h]
            /\ assignment'[h] = assignment[h] /\ generation'[h] = generation[h]
        BY <1>ty, <1>1, <1>8, <2>2, Zenon DEF CoordTypeOK
      <3>2. generation[h] \in Nat  BY <1>ty DEF CoordTypeOK
      <3>3. assignment[h] = Assigned(members[h], count[h])
            /\ (members[h] # {} => live /\ h \in known /\ count[h] = partitions)
        BY DEF CoordIInv
      <3> QED  BY <1>1, <3>1, <3>2, <3>3 DEF FencedStep
    <2> QED  BY <2>1, <2>2
  <1> QED  BY <1>10, <1>11 DEF CoordIInv

\* leave keeps the invariant, and moves the generation when the member goes.
LEMMA LeaveKeeps ==
    ASSUME CoordIInv, NEW g \in Group, NEW id \in Member, NEW gen, Leave(g, id, gen)
    PROVE  CoordIInv' /\ \A h \in Group : FencedStep(h)
  <1>ty. CoordTypeOK  BY DEF CoordIInv
  <1>1. CASE ~Admits(g, id, gen)
    <2>1. Sweep({g}) /\ SweepAges({g}, {}) /\ UNCHANGED <<count, known, nextId, topicVars>>
      BY <1>1 DEF Leave
    <2> QED  BY <2>1, SweepOnly
  <1>2. CASE Admits(g, id, gen)
    <2> DEFINE S == Unexpired(g) \ {id}
    <2>1. /\ members' = [members EXCEPT ![g] = S]
          /\ timeout' = [timeout EXCEPT ![g] = Kept(timeout[g], S, 0)]
          /\ age' = [age EXCEPT ![g] = Kept(age[g], S, 0)]
          /\ generation' = [generation EXCEPT ![g] = SweptGeneration(g) + 1]
          /\ assignment' = [assignment EXCEPT ![g] = Assigned(S, count[g])]
          /\ count' = count /\ known' = known /\ nextId' = nextId
          /\ live' = live /\ partitions' = partitions /\ deletes' = deletes
      BY <1>2 DEF Leave, topicVars
    <2>2. S \subseteq members[g] /\ S \in SUBSET Member
      BY <1>ty DEF CoordTypeOK, Unexpired
    <2> HIDE DEF S
    <2>3. count[g] \in Nat /\ generation[g] \in Nat
      BY <1>ty, CountsNat DEF CoordTypeOK
    <2>4. Assigned(S, count[g]) \in [Member -> SUBSET Nat]  BY <2>2, <2>3, AssignedType, Zenon
    <2>5. SweptGeneration(g) + 1 \in Nat /\ SweptGeneration(g) + 1 > generation[g]
      BY <2>3 DEF SweptGeneration
    <2>6. /\ Kept(timeout[g], S, 0) \in [Member -> Timeout \cup {0}]
          /\ Kept(age[g], S, 0) \in [Member -> Nat]
      BY <1>ty, KeptType, ZenonT(60) DEF CoordTypeOK
    <2>7. CoordTypeOK'
      BY <1>ty, <2>1, <2>2, <2>4, <2>5, <2>6, Zenon DEF CoordTypeOK
    <2>8. ASSUME NEW h \in Group
          PROVE  /\ assignment'[h] = Assigned(members'[h], count'[h])
                 /\ members'[h] # {} => live' /\ h \in known' /\ count'[h] = partitions'
                 /\ FencedStep(h)
      <3>0. assignment[h] = Assigned(members[h], count[h])
            /\ (members[h] # {} => live /\ h \in known /\ count[h] = partitions)
        BY DEF CoordIInv
      <3>1. CASE h = g
        <4>1. members'[h] = S /\ assignment'[h] = Assigned(S, count[g])
              /\ generation'[h] = SweptGeneration(g) + 1
          BY <1>ty, <2>1, <3>1, Zenon DEF CoordTypeOK
        <4>2. generation'[h] >= generation[h] /\ generation'[h] # generation[h]
          BY <2>3, <2>5, <3>1, <4>1
        <4> QED  BY <2>1, <2>2, <3>0, <3>1, <4>1, <4>2, Zenon DEF FencedStep
      <3>2. CASE h # g
        <4>1. /\ members'[h] = members[h] /\ generation'[h] = generation[h]
              /\ assignment'[h] = assignment[h]
          BY <1>ty, <2>1, <3>2, Zenon DEF CoordTypeOK
        <4>2. generation[h] \in Nat  BY <1>ty, Zenon DEF CoordTypeOK
        <4> QED  BY <2>1, <3>0, <4>1, <4>2 DEF FencedStep
      <3> QED  BY <3>1, <3>2, Zenon
    <2> QED  BY <2>7, <2>8, Zenon DEF CoordIInv
  <1> QED  BY <1>1, <1>2, Zenon

\* delete_topic up to the topic's removal: if it goes, no member is left.
LEMMA BeginDeleteKeeps ==
    ASSUME CoordIInv, BeginDelete
    PROVE  CoordIInv' /\ \A h \in Group : FencedStep(h)
  <1> DEFINE active == \E g \in known : Unexpired(g) # {}
  <1>ty. CoordTypeOK  BY DEF CoordIInv
  <1>1. known \in SUBSET Group  BY <1>ty, Zenon DEF CoordTypeOK
  <1>2. Sweep(known) /\ SweepAges(known, {})  BY DEF BeginDelete
  <1>3. /\ live' = active
        /\ deletes' = IF active THEN deletes ELSE deletes + 1
        /\ deletes < MaxDeletes
        /\ live
        /\ partitions' = partitions /\ count' = count /\ known' = known /\ nextId' = nextId
    BY DEF BeginDelete
  <1>4. age' \in [Group -> [Member -> Nat]]  BY <1>ty, <1>2, SweepAgesType, Zenon
  <1>5. \A g \in Group :
           /\ members'[g] = (IF g \in known THEN Unexpired(g) ELSE members[g])
           /\ members'[g] \subseteq members[g]
           /\ assignment'[g] = Assigned(members'[g], count[g])
           /\ FencedStep(g)
    BY <1>1, <1>2, SweepStep, Zenon DEF FencedStep
  <1>6. deletes' \in 0 .. MaxDeletes
    <2>1. deletes \in 0 .. MaxDeletes  BY <1>ty DEF CoordTypeOK
    <2>2. MaxDeletes \in Nat  BY CoordinatorAssumption
    <2> HIDE DEF active
    <2> QED  BY <1>3, <2>1, <2>2
  <1>7. live' \in BOOLEAN  BY <1>3
  <1> HIDE DEF active
  <1>8. CoordTypeOK'
    BY <1>ty, <1>1, <1>2, <1>3, <1>4, <1>6, <1>7, SweepStep, Zenon DEF CoordTypeOK
  <1>9. ASSUME NEW g \in Group, members'[g] # {}
        PROVE  live' /\ g \in known' /\ count'[g] = partitions'
    <2>1. members[g] # {}  BY <1>5, <1>9
    <2>2. g \in known /\ count[g] = partitions  BY <2>1 DEF CoordIInv
    <2>3. active  BY <1>5, <1>9, <2>2, Zenon DEF active
    <2> QED  BY <1>3, <2>2, <2>3
  <1> QED  BY <1>3, <1>5, <1>8, <1>9, Zenon DEF CoordIInv

\* The topic is created again: the deletion has left no member behind.
LEMMA CreateTopicKeeps ==
    ASSUME CoordIInv, NEW n \in PartitionCount, CreateTopic(n)
    PROVE  CoordIInv' /\ \A h \in Group : FencedStep(h)
  <1>1. /\ ~live /\ live' = TRUE /\ partitions' = n
        /\ UNCHANGED <<members, timeout, age, assignment, generation, count, known,
                       nextId, deletes>>
    BY DEF CreateTopic, memberVars
  <1>2. \A g \in Group : members[g] = {}  BY <1>1 DEF CoordIInv
  <1>3. CoordTypeOK'  BY <1>1, Zenon DEF CoordIInv, CoordTypeOK
  <1>4. \A g \in Group : generation[g] \in Nat  BY Zenon DEF CoordIInv, CoordTypeOK
  <1> QED  BY <1>1, <1>2, <1>3, <1>4 DEF CoordIInv, FencedStep

\* A group without members has nothing assigned.
LEMMA AssignedNone ==
    ASSUME NEW n
    PROVE  Assigned({}, n) = [m \in Member |-> {}]
  BY DEF Assigned

\* remove_topic leaves no group at all.
LEMMA RemoveTopicKeeps ==
    ASSUME CoordIInv, RemoveTopic
    PROVE  CoordIInv' /\ known' = {}
  <1>1. deletes \in 0 .. MaxDeletes /\ MaxDeletes \in Nat
    BY CoordinatorAssumption, Zenon DEF CoordIInv, CoordTypeOK
  <1>2. deletes > 0 /\ deletes' = deletes - 1  BY DEF RemoveTopic
  <1>3. deletes' \in 0 .. MaxDeletes  BY <1>1, <1>2
  <1>4. /\ members' = [g \in Group |-> {}]
        /\ timeout' = [g \in Group |-> [m \in Member |-> 0]]
        /\ age' = [g \in Group |-> [m \in Member |-> 0]]
        /\ assignment' = [g \in Group |-> [m \in Member |-> {}]]
        /\ count' = [g \in Group |-> 0]
        /\ generation' = [g \in Group |-> 0]
        /\ known' = {}
        /\ UNCHANGED <<nextId, live, partitions>>
    BY DEF RemoveTopic
  <1>5. CoordTypeOK'  BY <1>3, <1>4, Zenon DEF CoordIInv, CoordTypeOK
  <1>6. \A g \in Group : assignment'[g] = Assigned({}, count'[g]) /\ members'[g] = {}
    BY <1>4, AssignedNone
  <1> QED  BY <1>4, <1>5, <1>6, Zenon DEF CoordIInv

\* Time alone changes nothing but ages.
LEMMA TickKeeps ==
    ASSUME CoordIInv, Tick
    PROVE  CoordIInv' /\ \A h \in Group : FencedStep(h)
  <1>1. UNCHANGED <<members, timeout, assignment, generation, count, known, nextId,
                    live, partitions, deletes>>
    BY DEF Tick, topicVars
  <1>2. \A g \in Group, m \in Member : age[g][m] \in Nat /\ age[g][m] + 1 \in Nat
    BY DEF CoordIInv, CoordTypeOK
  <1>3. age' \in [Group -> [Member -> Nat]]  BY <1>2, Zenon DEF Tick
  <1>4. CoordTypeOK'  BY <1>1, <1>3, Zenon DEF CoordIInv, CoordTypeOK
  <1>5. \A g \in Group : generation[g] \in Nat  BY Zenon DEF CoordIInv, CoordTypeOK
  <1> QED  BY <1>1, <1>4, <1>5 DEF CoordIInv, FencedStep

-----------------------------------------------------------------------------
(* Every step                                                              *)

\* A request keeps the invariant and is fenced, one case per operation.
LEMMA RequestKeeps ==
    ASSUME CoordIInv, NEW g \in Group, Request(g)
    PROVE  CoordIInv' /\ \A h \in Group : FencedStep(h)
  <1>0. {g} \in SUBSET Group  OBVIOUS
  <1>ty. nextId \in Nat \ {0}  BY Zenon DEF CoordIInv, CoordTypeOK
  <1>1. ASSUME NEW t \in Timeout, JoinNew(g, t)
        PROVE  CoordIInv' /\ \A h \in Group : FencedStep(h)
    <2>1. nextId \in Member /\ Join(g, nextId, t) /\ nextId' = nextId + 1
      BY <1>1 DEF JoinNew
    <2>2. nextId' \in Nat \ {0}  BY <1>ty, <2>1
    <2> QED  BY <2>1, <2>2, JoinKeeps, Zenon
  <1>2. ASSUME NEW id \in Member, NEW t \in Timeout, Rejoin(g, id, t)
        PROVE  CoordIInv' /\ \A h \in Group : FencedStep(h)
    <2>1. Join(g, id, t) /\ nextId' \in Nat \ {0}  BY <1>ty, <1>2 DEF Rejoin
    <2> QED  BY <2>1, JoinKeeps, Zenon
  <1>3. ASSUME NEW id \in Member, NEW gen, Sync(g, id, gen)
        PROVE  CoordIInv' /\ \A h \in Group : FencedStep(h)
    BY <1>0, <1>3, SweepOnly, Zenon DEF Sync
  <1>4. ASSUME NEW id \in Member, NEW gen, Heartbeat(g, id, gen)
        PROVE  CoordIInv' /\ \A h \in Group : FencedStep(h)
    BY <1>0, <1>4, SweepOnly, Zenon DEF Heartbeat
  <1>5. ASSUME NEW id \in Member, NEW gen, Leave(g, id, gen)
        PROVE  CoordIInv' /\ \A h \in Group : FencedStep(h)
    BY <1>5, LeaveKeeps
  <1>6. ASSUME NEW id \in Member, NEW gen, NEW p, ValidateCommit(g, id, gen, p)
        PROVE  CoordIInv' /\ \A h \in Group : FencedStep(h)
    BY <1>0, <1>6, SweepOnly, Zenon DEF ValidateCommit
  <1>7. ASSUME Expire(g)
        PROVE  CoordIInv' /\ \A h \in Group : FencedStep(h)
    BY <1>0, <1>7, SweepOnly DEF Expire
  <1> QED  BY <1>1, <1>2, <1>3, <1>4, <1>5, <1>6, <1>7, Zenon DEF Request

\* Every step keeps the invariant, and is fenced for the groups it keeps.
LEMMA StepKeeps ==
    ASSUME CoordIInv, [CoordNext]_coordVars
    PROVE  CoordIInv' /\ \A h \in known \cap known' : FencedStep(h)
  <1>0. known \subseteq Group  BY Zenon DEF CoordIInv, CoordTypeOK
  <1>1. ASSUME NEW g \in Group, Request(g)
        PROVE  CoordIInv' /\ \A h \in known \cap known' : FencedStep(h)
    BY <1>0, <1>1, RequestKeeps, Zenon
  <1>2. CASE BeginDelete  BY <1>0, <1>2, BeginDeleteKeeps, Zenon
  <1>3. ASSUME NEW n \in PartitionCount, CreateTopic(n)
        PROVE  CoordIInv' /\ \A h \in known \cap known' : FencedStep(h)
    BY <1>0, <1>3, CreateTopicKeeps, Zenon
  <1>4. CASE RemoveTopic  BY <1>4, RemoveTopicKeeps, Zenon
  <1>5. CASE Tick  BY <1>0, <1>5, TickKeeps, Zenon
  <1>6. CASE UNCHANGED coordVars
    <2>1. UNCHANGED <<members, timeout, age, assignment, generation, count, known, nextId,
                      live, partitions, deletes>>
      BY <1>6 DEF coordVars, memberVars, topicVars
    <2>2. CoordIInv'  BY <2>1, Zenon DEF CoordIInv, CoordTypeOK
    <2>3. \A g \in Group : generation[g] \in Nat  BY Zenon DEF CoordIInv, CoordTypeOK
    <2> QED  BY <1>0, <2>1, <2>2, <2>3 DEF FencedStep
  <1> QED  BY <1>1, <1>2, <1>3, <1>4, <1>5, <1>6, Zenon DEF CoordNext

\* The coordinator starts without groups.
LEMMA InitHolds == CoordInit => CoordIInv
  <1> SUFFICES ASSUME CoordInit PROVE CoordIInv  OBVIOUS
  <1>1. MaxDeletes \in Nat  BY CoordinatorAssumption
  <1>2. CoordTypeOK  BY <1>1 DEF CoordInit, CoordTypeOK
  <1>3. \A g \in Group : assignment[g] = Assigned({}, count[g]) /\ members[g] = {}
    BY AssignedNone DEF CoordInit
  <1> QED  BY <1>2, <1>3, Zenon DEF CoordIInv

\* Ranges of members that the invariant describes do not overlap.
LEMMA OwnersApart == CoordIInv => OwnersDisjoint
  <1> SUFFICES ASSUME CoordIInv, NEW g \in Group, NEW m \in members[g],
                      NEW k \in members[g], m # k
               PROVE  assignment[g][m] \cap assignment[g][k] = {}
    BY DEF OwnersDisjoint
  <1>1. members[g] \in SUBSET Member /\ count[g] \in Nat
    BY CountsNat, Zenon DEF CoordIInv, CoordTypeOK
  <1>2. assignment[g] = Assigned(members[g], count[g])  BY DEF CoordIInv
  <1> QED  BY <1>1, <1>2, AssignedDisjoint, ZenonT(60)

-----------------------------------------------------------------------------
(* The theorems                                                            *)

\* For every number of groups, members, timeouts and partitions, each group has
\* the assignment recompute_assignment gives its present members for the
\* topic's present partition count, and a topic without members is all that
\* delete_topic removes.
THEOREM CoordInvariant == CoordSpec => []CoordIInv
  <1>1. CoordIInv /\ [CoordNext]_coordVars => CoordIInv'  BY StepKeeps
  <1> QED  BY InitHolds, <1>1, PTL DEF CoordSpec

\* The variables of the coordinator keep their types.
THEOREM CoordTypes == CoordSpec => []CoordTypeOK
  <1>1. CoordIInv => CoordTypeOK  BY DEF CoordIInv
  <1> QED  BY CoordInvariant, <1>1, PTL

\* No partition ever has two owners in a group, by the arithmetic of
\* recompute_assignment.
THEOREM CoordOwnersDisjoint == CoordSpec => []OwnersDisjoint
  BY CoordInvariant, OwnersApart, PTL

\* Every partition of the topic has an owner in a group with members, no other
\* number has one, and no member owns two partitions more than another.
THEOREM CoordPartitionsCovered == CoordSpec => []PartitionsCovered
  <1>1. CoordIInv => PartitionsCovered
    <2> SUFFICES ASSUME CoordIInv, NEW g \in Group, members[g] # {}
                 PROVE  /\ UNION {assignment[g][m] : m \in members[g]} = 0 .. partitions - 1
                        /\ \A m, k \in members[g] :
                              Cardinality(assignment[g][m])
                                <= Cardinality(assignment[g][k]) + 1
      BY Zenon DEF PartitionsCovered
    <2>1. members[g] \in SUBSET Member /\ count[g] \in Nat
      BY CountsNat, Zenon DEF CoordIInv, CoordTypeOK
    <2>2. assignment[g] = Assigned(members[g], partitions) /\ partitions \in Nat
      BY <2>1, Zenon DEF CoordIInv
    <2>3. \A m \in members[g] : assignment[g][m] \subseteq 0 .. partitions - 1
      BY <2>1, <2>2, AssignedWithin, ZenonT(60)
    <2>4. \A p \in 0 .. partitions - 1 : \E m \in members[g] : p \in assignment[g][m]
      BY <2>1, <2>2, AssignedCovers, ZenonT(60)
    <2>5. \A m, k \in members[g] :
             Cardinality(assignment[g][m]) <= Cardinality(assignment[g][k]) + 1
      BY <2>1, <2>2, AssignedEven, ZenonT(60)
    <2>6. UNION {assignment[g][m] : m \in members[g]} = 0 .. partitions - 1
      BY <2>3, <2>4, Zenon
    <2> QED  BY <2>5, <2>6
  <1> QED  BY CoordInvariant, <1>1, PTL

\* No step changes the members or the assignment of a group under an unchanged
\* generation, and none moves a generation back, as long as the group exists.
THEOREM CoordGenerationFences == CoordSpec => GenerationFences
  <1>1. CoordIInv /\ [CoordNext]_coordVars
        => [\A g \in known \cap known' :
               /\ generation'[g] >= generation[g]
               /\ generation'[g] = generation[g] =>
                     members'[g] = members[g] /\ assignment'[g] = assignment[g]]_coordVars
    BY StepKeeps DEF FencedStep
  <1> QED  BY CoordInvariant, <1>1, PTL DEF CoordSpec, GenerationFences

=============================================================================
