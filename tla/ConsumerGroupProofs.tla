------------------------ MODULE ConsumerGroupProofs ------------------------
(***************************************************************************)
(* ConsumerGroup's safety properties, for every number of consumers,       *)
(* partitions, records, stalls and crashes.                                *)
(***************************************************************************)
EXTENDS ConsumerGroup, GroupCoordinatorProofs

\* The places in run_coordinated_consumer, and where a commit is under way.
Places == {"off", "join", "sync", "head", "fetch", "commit", "leave", "ghost"}

Committing == {"commit", "ghost"}

\* The places that work on an assignment.
Working == {"head", "fetch", "commit", "ghost"}

State == [pc : Places, id : Member \cup {0}, gen : Nat, view : SUBSET Partition,
          rest : SUBSET Partition, pos : Nat, tries : Nat, beat : Nat, run : Nat]

\* A consumer past its join has a member id, and its for loop goes over
\* partitions of its assignment.
Shaped(k) ==
    /\ k.pc \notin {"off", "join"} => k.id # 0
    /\ k.rest \subseteq k.view
    /\ k.pc \in {"fetch"} \cup Committing => k.rest # {}

\* The records of partition p below n were processed or skipped over, or are
\* trimmed.
Processed(p, n) == \A o \in 0 .. n - 1 : o \in passed[p] \/ o < earliest[p]

GroupTypeOK ==
    /\ consumer \in [Consumer -> State]
    /\ committed \in [Partition -> Nat \cup {NoOffset}]
    /\ earliest \in [Partition -> Nat]
    /\ end \in [Partition -> Nat]
    /\ epoch \in Nat
    /\ passed \in [Partition -> SUBSET Nat]

\* What keeps records from being skipped; it survives a broker restart.
SafeIInv ==
    /\ CoordIInv
    /\ GroupTypeOK
    /\ \A c \in Consumer : Shaped(consumer[c])
    /\ \A p \in Partition : Processed(p, committed[p])
    /\ \A c \in Consumer :
          consumer[c].pc \in Committing => Processed(Min(consumer[c].rest), consumer[c].pos)

\* The coordinator's members include k, in the generation k was given.
Current(k) == k.id \in members[group] /\ k.gen = generation[group]

\* No two consumers have one id, and those in use were handed out.
IdsDistinct ==
    /\ \A c \in Consumer : consumer[c].id < nextId /\ consumer[c].gen <= generation[group]
    /\ \A c, d \in Consumer : c # d /\ consumer[c].id = consumer[d].id => consumer[c].id = 0

\* A current consumer works on what it owns, and commits no step back.
ViewOK(c) ==
    consumer[c].pc \in Working /\ Current(consumer[c])
      => consumer[c].view = assignment[group][consumer[c].id]

PosOK(c) ==
    consumer[c].pc \in Committing /\ Current(consumer[c])
      => committed[Min(consumer[c].rest)] <= consumer[c].pos

\* What fences the commits of a consumer that was replaced; it holds between
\* two restarts of the broker.
FenceIInv ==
    /\ SafeIInv
    /\ IdsDistinct
    /\ \A c \in Consumer : ViewOK(c) /\ PosOK(c)

-----------------------------------------------------------------------------
(* The coordinator's part of a step                                        *)

\* Generations are compared along a chain of steps.
LEMMA AtMost ==
    ASSUME NEW i \in Nat, NEW j \in Nat, NEW k \in Nat, i <= j, j <= k
    PROVE  i <= k
OBVIOUS

\* Generation 0 is the lowest, and a generation is at most itself.
LEMMA AtMostEnds ==
    ASSUME NEW i \in Nat
    PROVE  0 <= i /\ i <= i
OBVIOUS

\* The first partition of a range is in it.
LEMMA MinIn ==
    ASSUME NEW S, S \subseteq Nat, S # {}
    PROVE  Min(S) \in S
  <1>1. PICK x \in S : \A y \in S : x <= y  BY LeastNat, Zenon
  <1> QED  BY <1>1, Zenon DEF Min

\* The fields of a consumer's state.
LEMMA StateTypes ==
    ASSUME NEW k \in State
    PROVE  /\ k.pc \in Places
           /\ k.id \in Member \cup {0} /\ k.id \in Nat
           /\ k.gen \in Nat /\ k.pos \in Nat
           /\ k.view \subseteq Partition /\ k.rest \subseteq Partition
           /\ Partition \subseteq Nat
  <1>1. Member \cup {0} \subseteq Nat /\ Partition \subseteq Nat
    BY CoordinatorAssumption DEF Member, Partition
  <1>2. k.id \in Member \cup {0}  BY Zenon DEF State
  <1>3. k.id \in Nat  BY <1>1, <1>2, Zenon
  <1>4. k.pc \in Places /\ k.gen \in Nat /\ k.pos \in Nat
        /\ k.view \subseteq Partition /\ k.rest \subseteq Partition
    BY Zenon DEF State
  <1> QED  BY <1>1, <1>2, <1>3, <1>4, Zenon

\* What every step of the group does to the coordinator: it keeps the
\* coordinator's invariant, is fenced, and leaves the topic.
CoordPart ==
    /\ CoordIInv'
    /\ FencedStep(group)
    /\ partitions' = partitions

\* A request that only sweeps.
LEMMA SweepPart ==
    ASSUME CoordIInv, NEW R, Sweep({group}), SweepAges({group}, R),
           UNCHANGED <<count, known, nextId, topicVars>>
    PROVE  /\ CoordPart
           /\ nextId' = nextId
           /\ members'[group] = Unexpired(group)
           /\ generation'[group] = SweptGeneration(group)
  <1>1. {group} \in SUBSET Group /\ group \in Group  BY Zenon, ConsumerAssumption
  <1>2. CoordIInv' /\ FencedStep(group)  BY <1>1, SweepOnly, Zenon
  <1>3. members'[group] = Unexpired(group) /\ generation'[group] = SweptGeneration(group)
    BY Zenon, <1>1 DEF Sweep
  <1> QED  BY Zenon, <1>2, <1>3 DEF CoordPart, topicVars

\* A step that asks nothing of the coordinator.
LEMMA StillPart ==
    ASSUME CoordIInv, UNCHANGED coordVars
    PROVE  /\ CoordPart
           /\ nextId' = nextId
           /\ members' = members /\ generation' = generation /\ assignment' = assignment
  <1>1. UNCHANGED <<members, timeout, age, assignment, generation, count, known, nextId,
                    live, partitions, deletes>>
    BY Zenon DEF coordVars, memberVars, topicVars
  <1>2. CoordIInv'  BY <1>1, Zenon DEF CoordIInv, CoordTypeOK
  <1>3. generation[group] \in Nat  BY Zenon, ConsumerAssumption DEF CoordIInv, CoordTypeOK
  <1> QED  BY <1>1, <1>2, <1>3 DEF CoordPart, FencedStep

\* A join.
LEMMA JoinPart ==
    ASSUME CoordIInv, NEW id \in Member \cup {0}, NEW t \in Timeout,
           IF id = 0 THEN JoinNew(group, t) ELSE Rejoin(group, id, t)
    PROVE  /\ CoordPart
           /\ generation'[group] \in Nat
           /\ IF id = 0 THEN nextId \in Member /\ nextId' = nextId + 1 ELSE nextId' = nextId
  <1>0. group \in Group  BY Zenon, ConsumerAssumption
  <1>ty. nextId \in Nat \ {0}  BY Zenon DEF CoordIInv, CoordTypeOK
  <1>1. CASE id = 0
    <2>1. nextId \in Member /\ Join(group, nextId, t) /\ nextId' = nextId + 1
      BY Zenon, <1>1 DEF JoinNew
    <2>2. nextId' \in Nat \ {0}  BY <1>ty, <2>1
    <2>3. CoordIInv' /\ FencedStep(group)  BY <1>0, <2>1, <2>2, JoinKeeps, Zenon
    <2>4. partitions' = partitions  BY Zenon, <2>1 DEF Join, topicVars
    <2> QED  BY <1>0, <1>1, <2>1, <2>3, <2>4, Zenon DEF CoordPart, CoordIInv, CoordTypeOK
  <1>2. CASE id # 0
    <2>1. Join(group, id, t) /\ nextId' = nextId  BY Zenon, <1>2 DEF Rejoin
    <2>2. nextId' \in Nat \ {0} /\ id \in Member  BY Zenon, <1>2, <1>ty, <2>1
    <2>3. CoordIInv' /\ FencedStep(group)  BY <1>0, <2>1, <2>2, JoinKeeps, Zenon
    <2>4. partitions' = partitions  BY Zenon, <2>1 DEF Join, topicVars
    <2> QED  BY <1>0, <1>2, <2>1, <2>3, <2>4, Zenon DEF CoordPart, CoordIInv, CoordTypeOK
  <1> QED  BY Zenon, <1>1, <1>2

\* A member's assignment is made of partitions of the topic.
OwnersWithin == \A m \in members[group] : assignment[group][m] \subseteq Partition

\* The coordinator's invariant says so, by the arithmetic of the assignment.
LEMMA ViewWithin == CoordIInv => OwnersWithin
  <1> SUFFICES ASSUME CoordIInv, NEW m \in members[group]
               PROVE  assignment[group][m] \subseteq Partition
    BY Zenon DEF OwnersWithin
  <1>0. group \in Group  BY Zenon, ConsumerAssumption
  <1>1. members[group] \in SUBSET Member /\ partitions \in Nat
    BY <1>0, CountsNat, Zenon DEF CoordIInv, CoordTypeOK
  <1>2. assignment[group] = Assigned(members[group], partitions)
    BY <1>0, Zenon DEF CoordIInv
  <1>3. m \in Member  BY <1>1, Zenon
  <1> QED  BY <1>1, <1>2, <1>3, AssignedWithin, Zenon DEF Partition

\* The same after a step that keeps the coordinator's invariant.
LEMMA NextViewWithin ==
    ASSUME CoordPart, NEW m \in members'[group]
    PROVE  assignment'[group][m] \subseteq Partition
  <1>1. CoordIInv' => OwnersWithin'  BY ViewWithin, PTL
  <1>2. Partition' = Partition  BY Zenon DEF CoordPart, Partition
  <1> QED  BY Zenon, <1>1, <1>2 DEF CoordPart, OwnersWithin

-----------------------------------------------------------------------------
(* What a step of one consumer has to show                                 *)

\* A step of consumer c that leaves the log and the committed offsets alone
\* keeps the invariant when it does for c's next state.
LEMMA KeepSafe ==
    ASSUME SafeIInv, CoordPart, NEW c \in Consumer, NEW k \in State, Shaped(k),
           consumer' = [consumer EXCEPT ![c] = k],
           UNCHANGED <<committed, logVars, epoch, passed>>,
           k.pc \in Committing => Processed(Min(k.rest), k.pos)
    PROVE  SafeIInv'
  <1>1. Partition' = Partition /\ State' = State  BY Zenon DEF CoordPart, Partition, State
  <1>2. UNCHANGED <<committed, earliest, end, epoch, passed>>  BY Zenon DEF logVars
  <1>3. consumer \in [Consumer -> State]  BY Zenon DEF SafeIInv, GroupTypeOK
  <1>4. GroupTypeOK'
    <2>1. consumer' \in [Consumer -> State]  BY <1>3, Zenon
    <2> QED  BY <1>1, <1>2, <2>1, Zenon DEF SafeIInv, GroupTypeOK
  <1>5. ASSUME NEW d \in Consumer
        PROVE  /\ Shaped(consumer'[d])
               /\ consumer'[d].pc \in Committing
                     => Processed(Min(consumer'[d].rest), consumer'[d].pos)
    <2>1. consumer'[d] = k \/ consumer'[d] = consumer[d]  BY <1>3, Zenon
    <2>2. Shaped(consumer'[d])  BY <2>1, Zenon DEF SafeIInv
    <2>3. consumer'[d].pc \in Committing
            => Processed(Min(consumer'[d].rest), consumer'[d].pos)
      BY <2>1, Zenon DEF SafeIInv
    <2> QED  BY Zenon, <2>2, <2>3
  <1>6. \A p \in Partition' : Processed(p, committed[p])'
    BY Zenon, <1>1, <1>2 DEF SafeIInv, Processed
  <1>7. \A d \in Consumer : Shaped(consumer[d])'  BY Zenon, <1>5 DEF Shaped
  <1>8. \A d \in Consumer : (consumer[d].pc \in Committing
            => Processed(Min(consumer[d].rest), consumer[d].pos))'
    BY Zenon, <1>2, <1>5 DEF Processed, Committing
  <1> QED  BY Zenon, <1>4, <1>6, <1>7, <1>8 DEF SafeIInv, CoordPart

\* A consumer that is current after a step was so before it, and the group has
\* not changed: this is what the generation is for.
LEMMA StillCurrent ==
    ASSUME FenceIInv, CoordPart, NEW d \in Consumer,
           consumer[d].id \in members'[group], consumer[d].gen = generation'[group]
    PROVE  /\ Current(consumer[d])
           /\ members'[group] = members[group] /\ assignment'[group] = assignment[group]
           /\ generation'[group] = generation[group]
  <1>1. generation[group] \in Nat /\ generation'[group] \in Nat
    BY Zenon, ConsumerAssumption DEF FenceIInv, SafeIInv, CoordPart, CoordIInv, CoordTypeOK
  <1>2. consumer[d].gen \in Nat /\ consumer[d].gen <= generation[group]
    BY Zenon DEF FenceIInv, SafeIInv, GroupTypeOK, State, IdsDistinct
  <1>3. generation'[group] = generation[group]
    BY <1>1, <1>2 DEF CoordPart, FencedStep
  <1> QED  BY Zenon, <1>3 DEF CoordPart, FencedStep, Current

\* A step of consumer c keeps the fence when it does for c's next state, and
\* for the commits the others have under way.
LEMMA KeepFence ==
    ASSUME FenceIInv, SafeIInv', CoordPart, NEW c \in Consumer, NEW k \in State,
           consumer' = [consumer EXCEPT ![c] = k],
           \/ k.id \in {0, consumer[c].id} /\ nextId' = nextId
           \/ k.id = nextId /\ nextId' = nextId + 1,
           k.gen <= generation'[group],
           k.pc \in Working /\ k.id \in members'[group] /\ k.gen = generation'[group]
             => k.view = assignment'[group][k.id],
           k.pc \in Committing /\ k.id \in members'[group] /\ k.gen = generation'[group]
             => committed'[Min(k.rest)] <= k.pos,
           \A d \in Consumer \ {c} : PosOK(d)'
    PROVE  FenceIInv'
  <1>1. consumer \in [Consumer -> State] /\ nextId \in Nat \ {0}
    BY Zenon DEF FenceIInv, SafeIInv, GroupTypeOK, CoordIInv, CoordTypeOK
  <1>2. consumer'[c] = k /\ \A d \in Consumer \ {c} : consumer'[d] = consumer[d]
    BY <1>1, Zenon
  <1>3. generation[group] \in Nat /\ generation'[group] \in Nat
        /\ generation[group] <= generation'[group]
    BY Zenon, ConsumerAssumption
    DEF FenceIInv, SafeIInv, CoordPart, CoordIInv, CoordTypeOK, FencedStep
  <1>4. \A d \in Consumer : consumer[d].id \in Nat /\ consumer[d].gen \in Nat
    BY <1>1, StateTypes, Zenon
  <1>5. \A d \in Consumer : consumer'[d].id < nextId' /\ consumer'[d].gen <= generation'[group]
    <2>1. \A d \in Consumer : consumer[d].id < nextId /\ consumer[d].gen <= generation[group]
      BY Zenon DEF FenceIInv, IdsDistinct
    <2>2. k.id < nextId'
      <3>1. consumer[c].id < nextId /\ consumer[c].id \in Nat  BY <1>4, <2>1, Zenon
      <3>2. CASE k.id \in {0, consumer[c].id} /\ nextId' = nextId  BY <1>1, <3>1, <3>2
      <3>3. CASE k.id = nextId /\ nextId' = nextId + 1  BY <1>1, <3>3
      <3> QED  BY <3>2, <3>3, Zenon
    <2>3. ASSUME NEW d \in Consumer, d # c
          PROVE  consumer'[d].id < nextId' /\ consumer'[d].gen <= generation'[group]
      <3>1. consumer'[d] = consumer[d]  BY Zenon, <1>2, <2>3
      <3>2. nextId <= nextId' /\ nextId' \in Nat  BY <1>1
      <3> QED  BY <1>1, <1>3, <1>4, <2>1, <3>1, <3>2
    <2> QED  BY Zenon, <1>2, <2>2, <2>3
  <1>6. ASSUME NEW d \in Consumer \ {c}, k.id = consumer[d].id
        PROVE  k.id = 0
    <2>1. d \in Consumer /\ d # c  BY Zenon
    <2>2. k.id # nextId
      <3>1. consumer[d].id < nextId /\ consumer[d].id \in Nat
        BY <1>4, <2>1, Zenon DEF FenceIInv, IdsDistinct
      <3> QED  BY <1>1, <1>6, <3>1
    <2> QED  BY <1>6, <2>1, <2>2, Zenon DEF FenceIInv, IdsDistinct
  <1>7. \A d, e \in Consumer : d # e /\ consumer'[d].id = consumer'[e].id => consumer'[d].id = 0
    <2>1. \A d, e \in Consumer : d # e /\ consumer[d].id = consumer[e].id => consumer[d].id = 0
      BY Zenon DEF FenceIInv, IdsDistinct
    <2> SUFFICES ASSUME NEW d \in Consumer, NEW e \in Consumer, d # e,
                        consumer'[d].id = consumer'[e].id
                 PROVE  consumer'[d].id = 0
      BY Zenon
    <2>2. CASE d = c
      <3>1. consumer'[d] = k /\ e \in Consumer \ {c}  BY Zenon, <1>2, <2>2
      <3>2. consumer'[e] = consumer[e]  BY Zenon, <1>2, <3>1
      <3> QED  BY Zenon, <1>6, <3>1, <3>2
    <2>3. CASE e = c
      <3>1. consumer'[e] = k /\ d \in Consumer \ {c}  BY Zenon, <1>2, <2>3
      <3>2. consumer'[d] = consumer[d]  BY Zenon, <1>2, <3>1
      <3> QED  BY Zenon, <1>6, <3>1, <3>2
    <2>4. CASE d # c /\ e # c
      <3>1. consumer'[d] = consumer[d] /\ consumer'[e] = consumer[e]  BY Zenon, <1>2, <2>4
      <3> QED  BY Zenon, <2>1, <3>1
    <2> QED  BY Zenon, <2>2, <2>3, <2>4
  <1>8. IdsDistinct'  BY <1>5, <1>7, Zenon DEF IdsDistinct
  <1>9. ASSUME NEW d \in Consumer
        PROVE  ViewOK(d)'
    <2>1. CASE d = c  BY <1>2, <2>1, Zenon DEF ViewOK, Current
    <2>2. CASE d # c
      <3>1. consumer'[d] = consumer[d]  BY <1>2, <2>2, Zenon
      <3> QED  BY <3>1, StillCurrent, Zenon DEF FenceIInv, ViewOK, Current
    <2> QED  BY Zenon, <2>1, <2>2
  <1>10. \A d \in Consumer : PosOK(d)'  BY <1>2, Zenon DEF PosOK, Current
  <1> QED  BY <1>8, <1>9, <1>10, Zenon DEF FenceIInv

\* As long as the committed offsets stay, so do the commits under way.
LEMMA PosKept ==
    ASSUME FenceIInv, CoordPart, NEW d \in Consumer,
           consumer'[d] = consumer[d], committed' = committed
    PROVE  PosOK(d)'
  BY StillCurrent, Zenon DEF FenceIInv, PosOK, Current

\* A consumer that is not running.
LEMMA OffState ==
    Off \in State /\ Shaped(Off) /\ Off.pc = "off" /\ Off.id = 0 /\ Off.gen = 0
  BY Zenon DEF Off, State, Places, Shaped, Committing

-----------------------------------------------------------------------------
(* The steps, one by one.  Each keeps SafeIInv, and FenceIInv with it.     *)

KeepsBoth == SafeIInv' /\ (FenceIInv => FenceIInv')

\* A step of consumer c that leaves the log and the committed offsets alone.
LEMMA KeepBoth ==
    ASSUME SafeIInv, CoordPart, NEW c \in Consumer, NEW k \in State, Shaped(k),
           consumer' = [consumer EXCEPT ![c] = k],
           UNCHANGED <<committed, logVars, epoch, passed>>,
           k.pc \in Committing =>
              consumer[c].pc \in Committing /\ k.rest = consumer[c].rest
              /\ k.pos = consumer[c].pos /\ k.id = consumer[c].id /\ k.gen = consumer[c].gen,
           \/ k.id \in {0, consumer[c].id} /\ nextId' = nextId
           \/ k.id = nextId /\ nextId' = nextId + 1,
           k.gen \in {0, consumer[c].gen, generation'[group]},
           k.pc \in Working =>
              \/ /\ consumer[c].pc \in Working
                 /\ k.id = consumer[c].id /\ k.gen = consumer[c].gen
                 /\ k.view = consumer[c].view
              \/ k.view = assignment'[group][k.id]
    PROVE  KeepsBoth
  <1>1. k.pc \in Committing => Processed(Min(k.rest), k.pos)  BY Zenon DEF SafeIInv
  <1>2. SafeIInv'  BY <1>1, KeepSafe, Zenon
  <1>3. ASSUME FenceIInv
        PROVE  FenceIInv'
    <2>1. generation[group] \in Nat /\ generation'[group] \in Nat
          /\ generation[group] <= generation'[group]
      BY Zenon, ConsumerAssumption DEF SafeIInv, CoordPart, CoordIInv, CoordTypeOK, FencedStep
    <2>2. consumer[c].gen \in Nat /\ consumer[c].gen <= generation[group]
      BY Zenon, <1>3 DEF SafeIInv, GroupTypeOK, State, FenceIInv, IdsDistinct
    <2>3. k.gen <= generation'[group]
      <3>1. consumer[c].gen <= generation'[group]  BY <2>1, <2>2, AtMost, Zenon
      <3> QED  BY <2>1, <3>1, AtMostEnds, Zenon
    <2>4. k.pc \in Working /\ k.id \in members'[group] /\ k.gen = generation'[group]
            => k.view = assignment'[group][k.id]
      BY <1>3, StillCurrent, Zenon DEF FenceIInv, ViewOK
    <2>5. k.pc \in Committing /\ k.id \in members'[group] /\ k.gen = generation'[group]
            => committed'[Min(k.rest)] <= k.pos
      <3>1. committed' = committed  BY Zenon
      <3> QED  BY <1>3, <3>1, StillCurrent, Zenon DEF FenceIInv, PosOK
    <2>6. \A d \in Consumer \ {c} : PosOK(d)'
      <3>1. \A d \in Consumer \ {c} : consumer'[d] = consumer[d]
        BY Zenon DEF SafeIInv, GroupTypeOK
      <3>2. committed' = committed  BY Zenon
      <3> QED  BY <1>3, <3>1, <3>2, PosKept, Zenon
    <2> QED  BY <1>2, <1>3, <2>3, <2>4, <2>5, <2>6, KeepFence, Zenon
  <1> QED  BY Zenon, <1>2, <1>3 DEF KeepsBoth

\* A step that ends consumer c.
LEMMA EndBoth ==
    ASSUME SafeIInv, CoordPart, NEW c \in Consumer,
           consumer' = [consumer EXCEPT ![c] = Off],
           UNCHANGED <<committed, logVars, epoch, passed, nextId>>
    PROVE  KeepsBoth
  <1>1. Off.pc \notin Committing /\ Off.pc \notin Working
    BY Zenon, OffState DEF Committing, Working
  <1>2. PICK k : k = Off  BY Zenon
  <1>3. nextId' = nextId  BY Zenon
  <1> HIDE DEF Off
  <1> QED  BY <1>1, <1>2, <1>3, OffState, KeepBoth, Zenon

\* A step that sends consumer c back to join.
LEMMA RejoinBoth ==
    ASSUME SafeIInv, CoordPart, NEW c \in Consumer,
           consumer' = [consumer EXCEPT ![c] = [consumer[c] EXCEPT !.pc = "join"]],
           UNCHANGED <<committed, logVars, epoch, passed, nextId>>
    PROVE  KeepsBoth
  <1>1. consumer[c] \in State /\ Shaped(consumer[c])  BY Zenon DEF SafeIInv, GroupTypeOK
  <1>2. PICK k : k = [consumer[c] EXCEPT !.pc = "join"]  BY Zenon
  <1>3. k \in State  BY Zenon, <1>1, <1>2 DEF State, Places
  <1>4. /\ k.pc = "join" /\ k.id = consumer[c].id /\ k.gen = consumer[c].gen
        /\ k.view = consumer[c].view /\ k.rest = consumer[c].rest
    BY Zenon, <1>1, <1>2 DEF State
  <1>5. Shaped(k) /\ k.pc \notin Committing /\ k.pc \notin Working
    BY Zenon, <1>1, <1>4 DEF Shaped, Committing, Working
  <1>6. nextId' = nextId  BY Zenon
  <1> QED  BY <1>2, <1>3, <1>4, <1>5, <1>6, KeepBoth, Zenon

\* Start, IdleExit and Abandon only move the consumer, Die ends it.
LEMMA MoveKeeps ==
    ASSUME SafeIInv, NEW c \in Consumer, Start(c) \/ IdleExit(c) \/ Die(c) \/ Abandon(c)
    PROVE  KeepsBoth
  <1>1. consumer[c] \in State /\ Shaped(consumer[c])
    BY Zenon DEF SafeIInv, GroupTypeOK
  <1>2. UNCHANGED <<committed, logVars, epoch, passed>> /\ UNCHANGED coordVars
    BY Zenon DEF Start, IdleExit, Die, Abandon, histVars
  <1>3. CoordPart /\ nextId' = nextId  BY Zenon, <1>2, StillPart DEF SafeIInv
  <1>4. CASE Die(c)
    <2>1. consumer' = [consumer EXCEPT ![c] = Off]  BY Zenon, <1>4 DEF Die
    <2> QED  BY Zenon, <1>2, <1>3, <2>1, EndBoth
  <1>5. ASSUME NEW place \in {"join", "leave", "ghost"},
               consumer' = [consumer EXCEPT ![c].pc = place],
               place = "join" => consumer[c].pc = "off",
               place = "leave" => consumer[c].pc = "head",
               place = "ghost" => consumer[c].pc = "commit"
        PROVE  KeepsBoth
    <2>1. PICK k : k = [consumer[c] EXCEPT !.pc = place]  BY Zenon
    <2>2. k \in State  BY Zenon, <1>1, <2>1 DEF State, Places
    <2>3. /\ k.pc = place /\ k.id = consumer[c].id /\ k.gen = consumer[c].gen
          /\ k.view = consumer[c].view /\ k.rest = consumer[c].rest
          /\ k.pos = consumer[c].pos
      BY Zenon, <1>1, <2>1 DEF State
    <2>4. consumer' = [consumer EXCEPT ![c] = k]  BY Zenon, <1>5, <2>1
    <2>5. Shaped(k)  BY Zenon, <1>1, <1>5, <2>3 DEF Shaped, Committing
    <2>6. k.pc \in Committing => consumer[c].pc \in Committing
      BY Zenon, <1>5, <2>3 DEF Committing
    <2>7. k.pc \in Working => consumer[c].pc \in Working
      BY Zenon, <1>5, <2>3 DEF Working
    <2> QED  BY <1>2, <1>3, <2>2, <2>3, <2>4, <2>5, <2>6, <2>7, KeepBoth, Zenon
  <1>6. CASE Start(c)  BY Zenon, <1>5, <1>6 DEF Start
  <1>7. CASE IdleExit(c)  BY Zenon, <1>5, <1>7 DEF IdleExit
  <1>8. CASE Abandon(c)  BY Zenon, <1>5, <1>8 DEF Abandon
  <1> QED  BY Zenon, <1>4, <1>6, <1>7, <1>8

\* join_group: the consumer gets an id nobody else has, or keeps its own.
LEMMA JoinStepKeeps ==
    ASSUME SafeIInv, NEW c \in Consumer, JoinStep(c)
    PROVE  KeepsBoth
  <1>1. consumer[c] \in State /\ Shaped(consumer[c]) /\ consumer[c].pc = "join"
    BY Zenon DEF SafeIInv, GroupTypeOK, JoinStep
  <1>2. UNCHANGED <<committed, logVars, epoch, passed>>  BY Zenon DEF JoinStep, histVars
  <1>3. consumer[c].id \in Member \cup {0} /\ consumer[c].id \in Nat
    BY <1>1, StateTypes, Zenon
  <1>4. /\ CoordPart
        /\ generation'[group] \in Nat
        /\ IF consumer[c].id = 0 THEN nextId \in Member /\ nextId' = nextId + 1
           ELSE nextId' = nextId
    <2>1. PICK id \in Member \cup {0} : id = consumer[c].id  BY Zenon, <1>3
    <2>2. PICK t \in Timeout : IF id = 0 THEN JoinNew(group, t) ELSE Rejoin(group, id, t)
      BY Zenon, <2>1 DEF JoinStep
    <2>3. CoordIInv  BY Zenon DEF SafeIInv
    <2> QED  BY <2>1, <2>2, <2>3, JoinPart, Zenon
  <1>5. PICK k : k = [consumer[c] EXCEPT !.pc = "sync",
                         !.id = IF @ = 0 THEN nextId ELSE @,
                         !.gen = generation'[group],
                         !.tries = @ + 1, !.run = epoch]
    BY Zenon
  <1>6. consumer' = [consumer EXCEPT ![c] = k]  BY Zenon, <1>5 DEF JoinStep
  <1>7. /\ k.pc = "sync" /\ k.id = (IF consumer[c].id = 0 THEN nextId ELSE consumer[c].id)
        /\ k.gen = generation'[group] /\ k.rest = consumer[c].rest
        /\ k.view = consumer[c].view
    BY Zenon, <1>1, <1>5 DEF State
  <1>8. k \in State
    <2>1. (IF consumer[c].id = 0 THEN nextId ELSE consumer[c].id) \in Member \cup {0}
      BY Zenon, <1>3, <1>4
    <2>2. consumer[c].tries + 1 \in Nat /\ epoch \in Nat
      BY <1>1 DEF State, SafeIInv, GroupTypeOK
    <2> QED  BY Zenon, <1>1, <1>4, <1>5, <2>1, <2>2 DEF State, Places
  <1>9. Shaped(k)
    <2>1. nextId # 0  BY Zenon DEF SafeIInv, CoordIInv, CoordTypeOK
    <2> QED  BY Zenon, <1>1, <1>7, <2>1 DEF Shaped, Committing
  <1>10. k.pc \notin Committing /\ k.pc \notin Working  BY Zenon, <1>7 DEF Committing, Working
  <1>11. \/ k.id \in {0, consumer[c].id} /\ nextId' = nextId
         \/ k.id = nextId /\ nextId' = nextId + 1
    BY Zenon, <1>4, <1>7
  <1>12. k.gen \in {0, consumer[c].gen, generation'[group]}  BY Zenon, <1>7
  <1> QED  BY <1>2, <1>4, <1>6, <1>8, <1>9, <1>10, <1>11, <1>12, KeepBoth, Zenon

\* sync_group: an admitted consumer takes over its assignment.
LEMMA SyncStepKeeps ==
    ASSUME SafeIInv, NEW c \in Consumer, SyncStep(c)
    PROVE  KeepsBoth
  <1> DEFINE j == consumer[c]
  <1>1. j \in State /\ Shaped(j) /\ j.pc = "sync"
    BY Zenon DEF SafeIInv, GroupTypeOK, SyncStep
  <1>2. UNCHANGED <<committed, logVars, epoch, passed>>  BY Zenon DEF SyncStep, histVars
  <1>3. Sync(group, j.id, j.gen)  BY Zenon DEF SyncStep
  <1>4. /\ CoordPart /\ nextId' = nextId
        /\ members'[group] = Unexpired(group)
    <2>1. CoordIInv  BY Zenon DEF SafeIInv
    <2>2. PICK R : SweepAges({group}, R)  BY Zenon, <1>3 DEF Sync
    <2> QED  BY Zenon, <1>3, <2>1, <2>2, SweepPart DEF Sync
  <1>5. PICK next \in {"head", "leave"} :
           consumer' = [consumer EXCEPT ![c] =
              IF Admits(group, j.id, j.gen)
              THEN [j EXCEPT !.pc = next, !.view = assignment'[group][j.id],
                             !.rest = {}, !.tries = 0, !.beat = 0]
              ELSE IF j.tries = MaxAttempts THEN Off
              ELSE [j EXCEPT !.pc = "join"]]
    BY Zenon DEF SyncStep
  <1>6. CASE Admits(group, j.id, j.gen)
    <2>1. PICK k : k = [j EXCEPT !.pc = next, !.view = assignment'[group][j.id],
                                 !.rest = {}, !.tries = 0, !.beat = 0]
      BY Zenon
    <2>2. assignment'[group][j.id] \subseteq Partition
      <3>1. j.id \in members'[group]  BY Zenon, <1>4, <1>6 DEF Admits
      <3> QED  BY <1>4, <3>1, NextViewWithin, Zenon
    <2>3. k \in State  BY Zenon, <1>1, <2>1, <2>2 DEF State, Places
    <2>4. /\ k.pc = next /\ k.id = j.id /\ k.gen = j.gen /\ k.rest = {}
          /\ k.view = assignment'[group][j.id]
      BY Zenon, <1>1, <2>1 DEF State
    <2>5. Shaped(k) /\ k.pc \notin Committing
      BY Zenon, <1>1, <2>4 DEF Shaped, Committing
    <2>6. consumer' = [consumer EXCEPT ![c] = k]  BY Zenon, <1>5, <1>6, <2>1
    <2> QED  BY <1>2, <1>4, <2>3, <2>4, <2>5, <2>6, KeepBoth, Zenon
  <1>7. CASE ~Admits(group, j.id, j.gen) /\ j.tries = MaxAttempts
    <2>1. consumer' = [consumer EXCEPT ![c] = Off]  BY Zenon, <1>5, <1>7
    <2> QED  BY Zenon, <1>2, <1>4, <2>1, EndBoth
  <1>8. CASE ~Admits(group, j.id, j.gen) /\ j.tries # MaxAttempts
    <2>1. consumer' = [consumer EXCEPT ![c] = [j EXCEPT !.pc = "join"]]  BY Zenon, <1>5, <1>8
    <2> QED  BY Zenon, <1>1, <1>2, <1>4, <2>1, RejoinBoth
  <1> QED  BY Zenon, <1>6, <1>7, <1>8

\* A heartbeat that is refused sends the consumer back to join.
LEMMA HeartbeatStepKeeps ==
    ASSUME SafeIInv, NEW c \in Consumer, HeartbeatStep(c)
    PROVE  KeepsBoth
  <1> DEFINE j == consumer[c]
  <1>1. j \in State /\ Shaped(j) /\ j.pc = "head"
    BY Zenon DEF SafeIInv, GroupTypeOK, HeartbeatStep
  <1>2. UNCHANGED <<committed, logVars, epoch, passed>>  BY Zenon DEF HeartbeatStep, histVars
  <1>3. CoordPart /\ nextId' = nextId
    <2>1. CoordIInv  BY Zenon DEF SafeIInv
    <2>2. PICK R : SweepAges({group}, R)  BY Zenon DEF HeartbeatStep, Heartbeat
    <2> QED  BY Zenon, <2>1, <2>2, SweepPart DEF HeartbeatStep, Heartbeat
  <1>4. CASE Admits(group, j.id, j.gen)
    <2>1. PICK k : k = [j EXCEPT !.beat = 0]  BY Zenon
    <2>2. k \in State  BY Zenon, <1>1, <2>1 DEF State
    <2>3. /\ k.pc = "head" /\ k.id = j.id /\ k.gen = j.gen /\ k.rest = j.rest
          /\ k.view = j.view
      BY Zenon, <1>1, <2>1 DEF State
    <2>4. Shaped(k) /\ k.pc \notin Committing /\ j.pc \in Working
      BY Zenon, <1>1, <2>3 DEF Shaped, Committing, Working
    <2>5. consumer' = [consumer EXCEPT ![c] = k]  BY Zenon, <1>4, <2>1 DEF HeartbeatStep
    <2> QED  BY <1>2, <1>3, <2>2, <2>3, <2>4, <2>5, KeepBoth, Zenon
  <1>5. CASE ~Admits(group, j.id, j.gen)
    <2>1. consumer' = [consumer EXCEPT ![c] = [j EXCEPT !.pc = "join"]]
      BY Zenon, <1>5 DEF HeartbeatStep
    <2> QED  BY Zenon, <1>1, <1>2, <1>3, <2>1, RejoinBoth
  <1> QED  BY Zenon, <1>4, <1>5

\* leave_group: the consumer ends, whatever the answer.
LEMMA LeaveStepKeeps ==
    ASSUME SafeIInv, NEW c \in Consumer, LeaveStep(c)
    PROVE  KeepsBoth
  <1>1. consumer[c] \in State /\ Shaped(consumer[c]) /\ consumer[c].pc = "leave"
    BY Zenon DEF SafeIInv, GroupTypeOK, LeaveStep
  <1>2. PICK id \in Member, gen \in Nat : id = consumer[c].id /\ gen = consumer[c].gen
    <2>1. consumer[c].id \in Member \cup {0} /\ consumer[c].id # 0 /\ consumer[c].gen \in Nat
      BY Zenon, <1>1, StateTypes DEF Shaped
    <2> QED  BY Zenon, <2>1
  <1>3. Leave(group, id, gen)  BY Zenon, <1>2 DEF LeaveStep
  <1>4. CoordIInv' /\ FencedStep(group)
    <2>1. group \in Group /\ CoordIInv  BY Zenon, ConsumerAssumption DEF SafeIInv
    <2> QED  BY <1>3, <2>1, LeaveKeeps, Zenon
  <1>5. CoordPart /\ nextId' = nextId  BY Zenon, <1>3, <1>4 DEF Leave, topicVars, CoordPart
  <1>6. UNCHANGED <<committed, logVars, epoch, passed>>  BY Zenon DEF LeaveStep, histVars
  <1>7. consumer' = [consumer EXCEPT ![c] = Off]  BY Zenon DEF LeaveStep
  <1> QED  BY Zenon, <1>5, <1>6, <1>7, EndBoth

\* A step that may also trim, append, commit or process records, but forgets
\* nothing of what was processed.
LEMMA GrowSafe ==
    ASSUME SafeIInv, CoordIInv', partitions' = partitions, GroupTypeOK',
           \A p \in Partition : passed[p] \subseteq passed'[p] /\ earliest[p] <= earliest'[p],
           \A p \in Partition : committed'[p] = committed[p] \/ Processed(p, committed[p])',
           \A d \in Consumer : Shaped(consumer[d])',
           \A d \in Consumer : consumer'[d].pc \in Committing =>
              \/ /\ consumer[d].pc \in Committing
                 /\ consumer'[d].rest = consumer[d].rest
                 /\ consumer'[d].pos = consumer[d].pos
              \/ Processed(Min(consumer[d].rest), consumer[d].pos)'
    PROVE  SafeIInv'
  <1>1. Partition' = Partition  BY Zenon DEF Partition
  <1>2. ASSUME NEW p \in Partition, NEW n, Processed(p, n), n \in Int
        PROVE  \A o \in 0 .. n - 1 : o \in passed'[p] \/ o < earliest'[p]
    <2>1. earliest[p] \in Nat /\ earliest'[p] \in Nat /\ earliest[p] <= earliest'[p]
      BY Zenon, <1>1 DEF SafeIInv, GroupTypeOK
    <2>2. ASSUME NEW o \in 0 .. n - 1
          PROVE  o \in passed'[p] \/ o < earliest'[p]
      <3>1. o \in passed[p] \/ o < earliest[p]  BY Zenon, <1>2 DEF Processed
      <3>2. CASE o \in passed[p]  BY Zenon, <3>2
      <3>3. CASE o < earliest[p]  BY <1>2, <2>1, <3>3
      <3> QED  BY Zenon, <3>1, <3>2, <3>3
    <2> QED  BY Zenon, <2>2
  <1>3. \A p \in Partition' : Processed(p, committed[p])'
    <2> SUFFICES ASSUME NEW p \in Partition, committed'[p] = committed[p]
                 PROVE  Processed(p, committed[p])'
      BY Zenon, <1>1
    <2>1. committed[p] \in Int /\ Processed(p, committed[p])
      BY DEF SafeIInv, GroupTypeOK, NoOffset
    <2> QED  BY Zenon, <1>2, <2>1 DEF Processed
  <1>4. \A d \in Consumer : (consumer[d].pc \in Committing
            => Processed(Min(consumer[d].rest), consumer[d].pos))'
    <2> SUFFICES ASSUME NEW d \in Consumer, consumer[d].pc \in Committing,
                        consumer'[d].rest = consumer[d].rest,
                        consumer'[d].pos = consumer[d].pos
                 PROVE  Processed(Min(consumer[d].rest), consumer[d].pos)'
      BY Zenon DEF Committing
    <2> DEFINE p == Min(consumer[d].rest)
               n == consumer[d].pos
    <2>1. consumer[d] \in State /\ Shaped(consumer[d]) /\ Processed(p, n)
      BY Zenon DEF SafeIInv, GroupTypeOK
    <2>2. consumer[d].rest \subseteq Partition /\ Partition \subseteq Nat /\ n \in Nat
      BY <2>1, StateTypes, Zenon
    <2>3. consumer[d].rest # {}  BY Zenon, <2>1 DEF Shaped
    <2>4. p \in Partition  BY Zenon, <2>2, <2>3, MinIn
    <2>5. \A o \in 0 .. n - 1 : o \in passed'[p] \/ o < earliest'[p]
      <3>1. n \in Int  BY <2>2
      <3> HIDE DEF p, n
      <3> QED  BY <1>2, <2>1, <2>4, <3>1, Zenon
    <2> QED  BY Zenon, <2>5 DEF Processed
  <1> QED  BY Zenon, <1>3, <1>4 DEF SafeIInv

\* The partition at the front of the loop, and the state the loop goes on from.
LEMMA FetchFrom ==
    ASSUME SafeIInv, NEW c \in Consumer, MayFetch(consumer[c]), NEW j,
           j = IF consumer[c].pc = "head"
               THEN [consumer[c] EXCEPT !.rest = consumer[c].view] ELSE consumer[c]
    PROVE  /\ j \in State /\ Shaped(j)
           /\ consumer[c].pc \in Working /\ j.pc \in {"head", "fetch"}
           /\ j.id = consumer[c].id /\ j.gen = consumer[c].gen /\ j.view = consumer[c].view
           /\ j.rest # {}
           /\ Min(j.rest) \in j.rest /\ Min(j.rest) \in Partition
           /\ FetchOffset(Min(j.rest)) \in Nat
  <1>1. consumer[c] \in State /\ Shaped(consumer[c])  BY Zenon DEF SafeIInv, GroupTypeOK
  <1>2. consumer[c].pc \in {"head", "fetch"}  BY Zenon DEF MayFetch
  <1>3. j \in State /\ j.pc = consumer[c].pc /\ j.id = consumer[c].id
        /\ j.gen = consumer[c].gen /\ j.view = consumer[c].view
        /\ j.rest = (IF consumer[c].pc = "head" THEN consumer[c].view ELSE consumer[c].rest)
    <2>1. CASE consumer[c].pc = "head"
      BY Zenon, <1>1, <2>1 DEF State
    <2>2. CASE consumer[c].pc # "head"
      BY Zenon, <1>1, <2>2
    <2> QED  BY Zenon, <2>1, <2>2
  <1>4. j.rest # {}  BY Zenon, <1>1, <1>2, <1>3 DEF MayFetch, Shaped
  <1>5. Shaped(j)  BY Zenon, <1>1, <1>2, <1>3, <1>4 DEF Shaped
  <1>6. j.rest \subseteq Partition /\ Partition \subseteq Nat  BY <1>3, StateTypes, Zenon
  <1>7. Min(j.rest) \in j.rest  BY Zenon, <1>4, <1>6, MinIn
  <1>8. Min(j.rest) \in Partition  BY Zenon, <1>6, <1>7
  <1>9. FetchOffset(Min(j.rest)) \in Nat
    BY Zenon, <1>8 DEF FetchOffset, SafeIInv, GroupTypeOK
  <1> QED  BY Zenon, <1>2, <1>3, <1>4, <1>5, <1>7, <1>8, <1>9 DEF Working

\* The state after a partition without a commit.
LEMMA NextPartitionState ==
    ASSUME NEW j \in State, Shaped(j), j.id # 0, NEW idle \in BOOLEAN, NEW k,
           k = NextPartition(j, idle)
    PROVE  /\ k \in State /\ Shaped(k)
           /\ k.pc \in {"fetch", "head", "leave"}
           /\ k.id = j.id /\ k.gen = j.gen /\ k.view = j.view
  <1> DEFINE rest == j.rest \ {Min(j.rest)}
             place == IF rest # {} THEN "fetch" ELSE IF idle THEN "leave" ELSE "head"
  <1>1. k = [j EXCEPT !.rest = rest, !.pc = place]  BY Zenon DEF NextPartition
  <1>2. rest \in SUBSET Partition /\ rest \subseteq j.view  BY Zenon DEF State, Shaped
  <1>3. place \in {"fetch", "head", "leave"} /\ (place = "fetch" => rest # {})  BY Zenon
  <1> HIDE DEF rest, place
  <1>4. k \in State  BY Zenon, <1>1, <1>2, <1>3 DEF State, Places
  <1>5. k.pc = place /\ k.rest = rest /\ k.id = j.id /\ k.gen = j.gen /\ k.view = j.view
    BY Zenon, <1>1 DEF State
  <1>6. Shaped(k)  BY Zenon, <1>2, <1>3, <1>5 DEF Shaped, Committing
  <1> QED  BY Zenon, <1>3, <1>4, <1>5, <1>6

\* A fetch that processes records up to n: all of them were processed from the
\* committed offset on.
LEMMA ProcessKeeps ==
    ASSUME SafeIInv, NEW c \in Consumer, NEW j \in State, Shaped(j),
           consumer[c].pc \in Working, consumer[c].id # 0,
           j.id = consumer[c].id, j.gen = consumer[c].gen, j.view = consumer[c].view,
           j.rest # {}, NEW p \in Partition, p = Min(j.rest),
           NEW from \in Nat, from = FetchOffset(p), NEW n \in from + 1 .. end[p],
           consumer' = [consumer EXCEPT ![c] = [j EXCEPT !.pc = "commit", !.pos = n]],
           passed' = [passed EXCEPT ![p] = @ \cup (from .. n - 1)],
           UNCHANGED <<coordVars, committed, logVars, histVars>>
    PROVE  KeepsBoth
  <1>ty. GroupTypeOK /\ CoordIInv  BY Zenon DEF SafeIInv
  <1>1. /\ CoordPart /\ nextId' = nextId /\ members' = members
        /\ generation' = generation /\ assignment' = assignment
    BY <1>ty, StillPart, Zenon
  <1>2. committed' = committed /\ earliest' = earliest /\ end' = end /\ epoch' = epoch
    BY Zenon DEF logVars, histVars
  <1>3. n \in Nat /\ from < n  BY <1>ty DEF GroupTypeOK
  <1>4. PICK k : k = [j EXCEPT !.pc = "commit", !.pos = n]  BY Zenon
  <1>5. k \in State  BY Zenon, <1>3, <1>4 DEF State, Places
  <1>6. k.pc = "commit" /\ k.pos = n /\ k.rest = j.rest /\ k.id = j.id /\ k.gen = j.gen
        /\ k.view = j.view
    BY Zenon, <1>4 DEF State
  <1>7. Shaped(k)  BY Zenon, <1>6 DEF Shaped
  <1>8. consumer' = [consumer EXCEPT ![c] = k]  BY Zenon, <1>4
  <1>9. consumer'[c] = k /\ \A d \in Consumer \ {c} : consumer'[d] = consumer[d]
    BY <1>ty, <1>8, Zenon DEF GroupTypeOK
  <1>10. Partition' = Partition /\ State' = State  BY Zenon, <1>1 DEF CoordPart, Partition, State
  <1>11. GroupTypeOK'
    <2>1. consumer' \in [Consumer -> State]  BY <1>ty, <1>5, <1>8, Zenon DEF GroupTypeOK
    <2>2. passed[p] \cup (from .. n - 1) \in SUBSET Nat  BY <1>ty, <1>3 DEF GroupTypeOK
    <2>3. passed' \in [Partition -> SUBSET Nat]  BY <1>ty, <2>2, Zenon DEF GroupTypeOK
    <2> QED  BY <1>ty, <1>2, <1>10, <2>1, <2>3, Zenon DEF GroupTypeOK
  <1>12. \A q \in Partition : passed[q] \subseteq passed'[q] /\ earliest[q] <= earliest'[q]
    <2>1. \A q \in Partition : passed[q] \subseteq passed'[q]
      BY <1>ty, Zenon DEF GroupTypeOK
    <2>2. \A q \in Partition : earliest[q] <= earliest'[q]
      BY <1>ty, <1>2 DEF GroupTypeOK
    <2> QED  BY Zenon, <2>1, <2>2
  <1>13. \A o \in 0 .. n - 1 : o \in passed'[p] \/ o < earliest'[p]
    <2> SUFFICES ASSUME NEW o \in 0 .. n - 1
                 PROVE  o \in passed'[p] \/ o < earliest[p]
      BY Zenon, <1>2
    <2>1. passed'[p] = passed[p] \cup (from .. n - 1)  BY <1>ty, Zenon DEF GroupTypeOK
    <2>2. CASE from <= o  BY <1>3, <2>1, <2>2
    <2>3. CASE o < from
      <3>1. CASE committed[p] = NoOffset
        <4>1. from = earliest[p]  BY Zenon, <3>1 DEF FetchOffset
        <4> QED  BY Zenon, <2>3, <4>1
      <3>2. CASE committed[p] # NoOffset
        <4>1. from = committed[p]  BY Zenon, <3>2 DEF FetchOffset
        <4>2. Processed(p, from)  BY Zenon, <4>1 DEF SafeIInv
        <4>3. o \in 0 .. from - 1  BY <2>3
        <4> QED  BY <2>1, <4>2, <4>3, Zenon DEF Processed
      <3> QED  BY Zenon, <3>1, <3>2
    <2> QED  BY <1>3, <2>2, <2>3
  <1>14. SafeIInv'
    <2>1. \A d \in Consumer : Shaped(consumer'[d])
      BY <1>7, <1>9, Zenon DEF SafeIInv
    <2>2. \A d \in Consumer : Shaped(consumer[d])'  BY Zenon, <2>1 DEF Shaped
    <2>3. Processed(Min(consumer[c].rest), consumer[c].pos)'
      BY Zenon, <1>6, <1>9, <1>13 DEF Processed
    <2>4. \A d \in Consumer : consumer'[d].pc \in Committing =>
             \/ /\ consumer[d].pc \in Committing
                /\ consumer'[d].rest = consumer[d].rest
                /\ consumer'[d].pos = consumer[d].pos
             \/ Processed(Min(consumer[d].rest), consumer[d].pos)'
      BY <1>9, <2>3, Zenon
    <2> QED  BY <1>1, <1>2, <1>11, <1>12, <2>2, <2>4, GrowSafe, Zenon DEF CoordPart
  <1>15. ASSUME FenceIInv
         PROVE  FenceIInv'
    <2>1. k.gen <= generation'[group]
      BY <1>1, <1>6, <1>15, Zenon DEF FenceIInv, IdsDistinct
    <2>2. k.id \in members'[group] /\ k.gen = generation'[group]
            => k.view = assignment'[group][k.id]
      BY <1>1, <1>6, <1>15, Zenon DEF FenceIInv, ViewOK, Current
    <2>3. committed'[Min(k.rest)] <= k.pos
      <3>1. committed[p] \in Nat \cup {-1}  BY Zenon, <1>ty DEF GroupTypeOK, NoOffset
      <3>2. committed[p] # -1 => from = committed[p]  BY Zenon DEF FetchOffset, NoOffset
      <3>3. committed[p] <= n  BY <1>3, <3>1, <3>2
      <3> QED  BY Zenon, <1>2, <1>6, <3>3
    <2>4. \A d \in Consumer \ {c} : PosOK(d)'  BY <1>1, <1>2, <1>9, <1>15, PosKept, Zenon
    <2>5. k.id \in {0, consumer[c].id} /\ nextId' = nextId  BY <1>1, <1>6, Zenon
    <2> QED  BY <1>1, <1>5, <1>8, <1>14, <1>15, <2>1, <2>2, <2>3, <2>4, <2>5, KeepFence, ZenonT(60)
  <1> QED  BY Zenon, <1>14, <1>15 DEF KeepsBoth

\* A fetch ends the consumer, goes on to the next partition, or processes.
LEMMA FetchStepKeeps ==
    ASSUME SafeIInv, NEW c \in Consumer, FetchStep(c)
    PROVE  KeepsBoth
  <1>1. MayFetch(consumer[c]) /\ UNCHANGED <<coordVars, committed, logVars, histVars>>
    BY Zenon DEF FetchStep
  <1>2. PICK j : j = IF consumer[c].pc = "head"
                     THEN [consumer[c] EXCEPT !.rest = consumer[c].view] ELSE consumer[c]
    BY Zenon
  <1>3. PICK p : p = Min(j.rest)  BY Zenon
  <1>4. PICK from : from = FetchOffset(p)  BY Zenon
  <1>5. /\ j \in State /\ Shaped(j)
        /\ consumer[c].pc \in Working /\ j.pc \in {"head", "fetch"}
        /\ j.id = consumer[c].id /\ j.gen = consumer[c].gen /\ j.view = consumer[c].view
        /\ j.rest # {} /\ p \in Partition /\ from \in Nat
    BY <1>1, <1>2, <1>3, <1>4, FetchFrom, Zenon
  <1>6. j.id # 0  BY Zenon, <1>5 DEF Shaped
  <1>7. CoordPart /\ nextId' = nextId  BY <1>1, StillPart, Zenon DEF SafeIInv
  <1>8. UNCHANGED <<committed, logVars, epoch>>  BY Zenon, <1>1 DEF histVars
  <1>9. \/ consumer' = [consumer EXCEPT ![c] = Off] /\ passed' = passed
        \/ /\ \E idle \in BOOLEAN :
                 consumer' = [consumer EXCEPT ![c] = NextPartition(j, idle)]
           /\ passed' = passed
        \/ \E n \in from + 1 .. end[p] :
              /\ consumer' = [consumer EXCEPT ![c] = [j EXCEPT !.pc = "commit", !.pos = n]]
              /\ passed' = [passed EXCEPT ![p] = @ \cup (from .. n - 1)]
    BY <1>2, <1>3, <1>4, Zenon DEF FetchStep
  <1>10. CASE consumer' = [consumer EXCEPT ![c] = Off] /\ passed' = passed
    BY Zenon, <1>7, <1>8, <1>10, EndBoth
  <1>11. ASSUME NEW idle \in BOOLEAN, passed' = passed,
                consumer' = [consumer EXCEPT ![c] = NextPartition(j, idle)]
         PROVE  KeepsBoth
    <2>1. PICK k : k = NextPartition(j, idle)  BY Zenon
    <2>2. /\ k \in State /\ Shaped(k) /\ k.pc \in {"fetch", "head", "leave"}
          /\ k.id = j.id /\ k.gen = j.gen /\ k.view = j.view
      BY <1>5, <1>6, <2>1, NextPartitionState, Zenon
    <2>3. k.pc \notin Committing  BY Zenon, <2>2 DEF Committing
    <2>4. UNCHANGED <<committed, logVars, epoch, passed>>  BY Zenon, <1>8, <1>11
    <2> QED  BY <1>5, <1>7, <1>11, <2>1, <2>2, <2>3, <2>4, KeepBoth, Zenon
  <1>12. ASSUME NEW n \in from + 1 .. end[p],
                consumer' = [consumer EXCEPT ![c] = [j EXCEPT !.pc = "commit", !.pos = n]],
                passed' = [passed EXCEPT ![p] = @ \cup (from .. n - 1)]
         PROVE  KeepsBoth
    BY <1>1, <1>3, <1>4, <1>5, <1>6, <1>12, ProcessKeeps, Zenon
  <1> QED  BY <1>9, <1>10, <1>11, <1>12, Zenon

\* The handler of a commit that consumer c has under way.
LEMMA HandlerEffect ==
    ASSUME SafeIInv, NEW c \in Consumer, consumer[c].pc \in Committing,
           CommitHandler(consumer[c]), NEW p, p = Min(consumer[c].rest)
    PROVE  /\ p \in Partition /\ p \in consumer[c].rest
           /\ CoordPart /\ nextId' = nextId
           /\ \/ committed' = committed
              \/ /\ committed' = [committed EXCEPT ![p] = consumer[c].pos]
                 /\ MayCommit(group, consumer[c].id, consumer[c].gen, p)
                 /\ generation'[group] = SweptGeneration(group)
  <1>1. consumer[c] \in State /\ Shaped(consumer[c]) /\ CoordIInv
    BY Zenon DEF SafeIInv, GroupTypeOK
  <1>2. consumer[c].rest \subseteq Partition /\ Partition \subseteq Nat  BY <1>1, StateTypes, Zenon
  <1>3. consumer[c].rest # {}  BY Zenon, <1>1 DEF Shaped
  <1>4. p \in consumer[c].rest /\ p \in Partition  BY Zenon, <1>2, <1>3, MinIn
  <1>5. CASE consumer[c].pos < earliest[p]
    <2>1. UNCHANGED coordVars /\ committed' = committed  BY Zenon, <1>5 DEF CommitHandler
    <2> QED  BY <1>1, <1>4, <2>1, StillPart, Zenon
  <1>6. CASE ~(consumer[c].pos < earliest[p])
    <2>1. /\ ValidateCommit(group, consumer[c].id, consumer[c].gen, p)
          /\ committed' = IF MayCommit(group, consumer[c].id, consumer[c].gen, p)
                          THEN [committed EXCEPT ![p] = consumer[c].pos] ELSE committed
      BY Zenon, <1>6 DEF CommitHandler
    <2>2. PICK R : SweepAges({group}, R)  BY Zenon, <2>1 DEF ValidateCommit
    <2>3. CoordPart /\ nextId' = nextId /\ generation'[group] = SweptGeneration(group)
      BY Zenon, <1>1, <2>1, <2>2, SweepPart DEF ValidateCommit
    <2> QED  BY Zenon, <1>4, <2>1, <2>3
  <1> QED  BY Zenon, <1>5, <1>6

\* A consumer that may commit is current: its generation is never ahead of the
\* coordinator's, so no member is about to expire.
LEMMA MayCommitCurrent ==
    ASSUME FenceIInv, NEW c \in Consumer, NEW p,
           MayCommit(group, consumer[c].id, consumer[c].gen, p)
    PROVE  /\ Current(consumer[c])
           /\ p \in assignment[group][consumer[c].id]
           /\ SweptGeneration(group) = generation[group]
  <1>1. generation[group] \in Nat
    BY Zenon, ConsumerAssumption DEF FenceIInv, SafeIInv, CoordIInv, CoordTypeOK
  <1>2. consumer[c].gen \in Nat /\ consumer[c].gen <= generation[group]
    BY Zenon DEF FenceIInv, SafeIInv, GroupTypeOK, State, IdsDistinct
  <1>3. consumer[c].gen = SweptGeneration(group) /\ consumer[c].id \in Unexpired(group)
    BY Zenon DEF MayCommit, Admits
  <1>4. ~Expires(group) /\ SweptGeneration(group) = generation[group]
    BY <1>1, <1>2, <1>3 DEF SweptGeneration
  <1>5. consumer[c].id \in members[group]  BY Zenon, <1>3 DEF Unexpired
  <1> QED  BY Zenon, <1>3, <1>4, <1>5 DEF MayCommit, Current

\* Two current consumers do not own a partition both.
LEMMA OneOwner ==
    ASSUME FenceIInv, NEW c \in Consumer, NEW d \in Consumer, c # d,
           Current(consumer[c]), Current(consumer[d])
    PROVE  assignment[group][consumer[c].id] \cap assignment[group][consumer[d].id] = {}
  <1>1. group \in Group  BY Zenon, ConsumerAssumption
  <1>2. OwnersDisjoint  BY Zenon, OwnersApart DEF FenceIInv, SafeIInv
  <1>3. consumer[c].id # 0
    <2>1. members[group] \subseteq Member  BY Zenon, <1>1 DEF FenceIInv, SafeIInv, CoordIInv, CoordTypeOK
    <2>2. 0 \notin Member  BY CoordinatorAssumption DEF Member
    <2> QED  BY Zenon, <2>1, <2>2 DEF Current
  <1>4. consumer[c].id # consumer[d].id  BY Zenon, <1>3 DEF FenceIInv, IdsDistinct
  <1> QED  BY <1>1, <1>2, <1>4, Zenon DEF OwnersDisjoint, Current

\* A commit, and what becomes of its consumer.
LEMMA CommitKeeps ==
    ASSUME SafeIInv, NEW c \in Consumer, consumer[c].pc \in Committing,
           CommitHandler(consumer[c]), NEW k \in State, Shaped(k), k.pc \notin Committing,
           consumer' = [consumer EXCEPT ![c] = k], UNCHANGED <<logVars, epoch, passed>>,
           k.id \in {0, consumer[c].id}, k.gen \in {0, consumer[c].gen},
           k.pc \in Working =>
              k.id = consumer[c].id /\ k.gen = consumer[c].gen /\ k.view = consumer[c].view
    PROVE  KeepsBoth
  <1> DEFINE p == Min(consumer[c].rest)
             n == consumer[c].pos
  <1>ty. GroupTypeOK /\ CoordIInv  BY Zenon DEF SafeIInv
  <1>1. /\ p \in Partition /\ p \in consumer[c].rest
        /\ CoordPart /\ nextId' = nextId
        /\ \/ committed' = committed
           \/ /\ committed' = [committed EXCEPT ![p] = n]
              /\ MayCommit(group, consumer[c].id, consumer[c].gen, p)
              /\ generation'[group] = SweptGeneration(group)
    BY HandlerEffect, Zenon
  <1>2. earliest' = earliest /\ end' = end /\ epoch' = epoch /\ passed' = passed
    BY Zenon DEF logVars
  <1>3. n \in Nat /\ Processed(p, n)
    <2>1. consumer[c] \in State  BY Zenon, <1>ty DEF GroupTypeOK
    <2> QED  BY <2>1, StateTypes, Zenon DEF SafeIInv
  <1> HIDE DEF p, n
  <1>4. consumer'[c] = k /\ \A d \in Consumer \ {c} : consumer'[d] = consumer[d]
    BY <1>ty, Zenon DEF GroupTypeOK
  <1>5. Partition' = Partition /\ State' = State  BY Zenon, <1>1 DEF CoordPart, Partition, State
  <1>6. \A q \in Partition : committed'[q] = committed[q] \/ (q = p /\ committed'[q] = n)
    BY <1>ty, <1>1, Zenon DEF GroupTypeOK
  <1>7. GroupTypeOK'
    <2>1. consumer' \in [Consumer -> State]  BY <1>ty, Zenon DEF GroupTypeOK
    <2>2. committed' \in [Partition -> Nat \cup {NoOffset}]
      <3>1. n \in Nat \cup {NoOffset}  BY Zenon, <1>3
      <3> QED  BY <1>ty, <1>1, <3>1, Zenon DEF GroupTypeOK
    <2> QED  BY <1>ty, <1>2, <1>5, <2>1, <2>2, Zenon DEF GroupTypeOK
  <1>8. SafeIInv'
    <2>1. \A q \in Partition : passed[q] \subseteq passed'[q] /\ earliest[q] <= earliest'[q]
      BY <1>ty, <1>2 DEF GroupTypeOK
    <2>2. \A q \in Partition : committed'[q] = committed[q] \/ Processed(q, committed[q])'
      BY Zenon, <1>2, <1>3, <1>6 DEF Processed
    <2>3. \A d \in Consumer : Shaped(consumer'[d])  BY <1>4, Zenon DEF SafeIInv
    <2>4. \A d \in Consumer : Shaped(consumer[d])'  BY Zenon, <2>3 DEF Shaped
    <2>5. \A d \in Consumer : consumer'[d].pc \in Committing =>
             /\ consumer[d].pc \in Committing
             /\ consumer'[d].rest = consumer[d].rest
             /\ consumer'[d].pos = consumer[d].pos
      BY <1>4, Zenon
    <2> QED  BY <1>1, <1>7, <2>1, <2>2, <2>4, <2>5, GrowSafe, Zenon DEF CoordPart
  <1>9. ASSUME FenceIInv
        PROVE  FenceIInv'
    <2>1. generation[group] \in Nat /\ generation'[group] \in Nat
          /\ generation[group] <= generation'[group]
      BY Zenon, <1>1, ConsumerAssumption DEF SafeIInv, CoordPart, CoordIInv, CoordTypeOK, FencedStep
    <2>2. consumer[c].gen \in Nat /\ consumer[c].gen <= generation[group]
      BY Zenon, <1>9 DEF SafeIInv, GroupTypeOK, State, FenceIInv, IdsDistinct
    <2>3. k.gen <= generation'[group]
      <3>1. consumer[c].gen <= generation'[group]  BY <2>1, <2>2, AtMost, Zenon
      <3> QED  BY <2>1, <3>1, AtMostEnds, Zenon
    <2>4. k.pc \in Working /\ k.id \in members'[group] /\ k.gen = generation'[group]
            => k.view = assignment'[group][k.id]
      <3>1. consumer[c].pc \in Working  BY Zenon DEF Committing, Working
      <3> QED  BY <1>1, <1>9, <3>1, StillCurrent, Zenon DEF FenceIInv, ViewOK
    <2>5. ASSUME NEW d \in Consumer \ {c}
          PROVE  PosOK(d)'
      <3>1. consumer'[d] = consumer[d] /\ d \in Consumer  BY <1>4, Zenon
      <3>2. CASE committed' = committed  BY <1>1, <1>9, <3>1, <3>2, PosKept, Zenon
      <3>3. CASE /\ committed' = [committed EXCEPT ![p] = n]
                 /\ MayCommit(group, consumer[c].id, consumer[c].gen, p)
        <4> SUFFICES ASSUME consumer[d].pc \in Committing,
                            consumer[d].id \in members'[group],
                            consumer[d].gen = generation'[group]
                     PROVE  committed'[Min(consumer[d].rest)] <= consumer[d].pos
          BY <3>1, Zenon DEF PosOK, Current
        <4> DEFINE q == Min(consumer[d].rest)
        <4>1. Current(consumer[d])  BY <1>1, <1>9, <3>1, StillCurrent, Zenon
        <4>2. committed[q] <= consumer[d].pos  BY <1>9, <3>1, <4>1, Zenon DEF FenceIInv, PosOK
        <4>3. q \in consumer[d].rest /\ q \in Partition
          <5>1. consumer[d] \in State /\ Shaped(consumer[d])
            BY <3>1, Zenon DEF SafeIInv, GroupTypeOK
          <5>2. consumer[d].rest \subseteq Partition /\ Partition \subseteq Nat
            BY <5>1, StateTypes, Zenon
          <5>3. consumer[d].rest # {}  BY Zenon, <5>1 DEF Shaped
          <5> QED  BY Zenon, <5>2, <5>3, MinIn
        <4>4. q # p
          <5>1. Current(consumer[c]) /\ p \in assignment[group][consumer[c].id]
            BY <1>9, <3>3, MayCommitCurrent, Zenon
          <5>2. consumer[d].view = assignment[group][consumer[d].id]
            <6>1. consumer[d].pc \in Working  BY Zenon DEF Committing, Working
            <6> QED  BY <1>9, <3>1, <4>1, <6>1, Zenon DEF FenceIInv, ViewOK
          <5>3. consumer[d].rest \subseteq consumer[d].view
            BY <3>1, Zenon DEF SafeIInv, Shaped
          <5>4. c # d  BY Zenon
          <5> QED  BY <1>9, <3>1, <4>1, <4>3, <5>1, <5>2, <5>3, <5>4, OneOwner, Zenon
        <4>5. committed'[q] = committed[q]  BY <1>6, <4>3, <4>4, Zenon
        <4> QED  BY Zenon, <4>2, <4>5
      <3> QED  BY <1>1, <3>2, <3>3, Zenon
    <2>6. k.id \in {0, consumer[c].id} /\ nextId' = nextId  BY Zenon, <1>1
    <2> QED  BY <1>1, <1>8, <1>9, <2>3, <2>4, <2>5, <2>6, KeepFence, ZenonT(60)
  <1> QED  BY Zenon, <1>8, <1>9 DEF KeepsBoth

\* commit_group_offset by a running consumer.
LEMMA CommitStepKeeps ==
    ASSUME SafeIInv, NEW c \in Consumer, NEW last \in BOOLEAN, CommitStep(c, last)
    PROVE  KeepsBoth
  <1>1. consumer[c] \in State /\ Shaped(consumer[c]) /\ consumer[c].pc = "commit"
    BY Zenon DEF SafeIInv, GroupTypeOK, CommitStep
  <1>2. UNCHANGED <<logVars, epoch, passed>>  BY Zenon DEF CommitStep, histVars
  <1>3. consumer[c].pc \in Committing /\ CommitHandler(consumer[c])
    BY Zenon, <1>1 DEF CommitStep, Committing
  <1>4. PICK j : j = [consumer[c] EXCEPT !.pos = 0]  BY Zenon
  <1>5. /\ j \in State /\ j.pc = "commit" /\ j.id = consumer[c].id
        /\ j.gen = consumer[c].gen /\ j.view = consumer[c].view /\ j.rest = consumer[c].rest
    BY Zenon, <1>1, <1>4 DEF State
  <1>6. Shaped(j) /\ j.id # 0  BY Zenon, <1>1, <1>5 DEF Shaped
  <1>7. ASSUME NEW k \in State, Shaped(k), consumer' = [consumer EXCEPT ![c] = k],
               k.pc \in Places \ Committing, k.id \in {0, j.id}, k.gen \in {0, j.gen},
               k.pc \in Working => k.id = j.id /\ k.gen = j.gen /\ k.view = j.view
        PROVE  KeepsBoth
    <2>1. k.pc \notin Committing  BY Zenon, <1>7
    <2> QED  BY <1>2, <1>3, <1>5, <1>7, <2>1, CommitKeeps, ZenonT(60)
  <1>8. \/ consumer' = [consumer EXCEPT ![c] = Off]
        \/ consumer' = [consumer EXCEPT ![c] = [j EXCEPT !.pc = "join"]]
        \/ consumer' = [consumer EXCEPT ![c] = [j EXCEPT !.pc = "leave", !.rest = {}]]
        \/ consumer' = [consumer EXCEPT ![c] = NextPartition(j, FALSE)]
    BY Zenon, <1>4 DEF CommitStep
  <1>9. CASE consumer' = [consumer EXCEPT ![c] = Off]
    <2>1. Off.pc \in Places \ Committing /\ Off.pc \notin Working
      BY Zenon, OffState DEF Places, Committing, Working
    <2> QED  BY <1>7, <1>9, <2>1, OffState, Zenon
  <1>10. CASE consumer' = [consumer EXCEPT ![c] = [j EXCEPT !.pc = "join"]]
    <2>1. PICK k : k = [j EXCEPT !.pc = "join"]  BY Zenon
    <2>2. k \in State  BY Zenon, <1>5, <2>1 DEF State, Places
    <2>3. /\ k.pc = "join" /\ k.id = j.id /\ k.gen = j.gen /\ k.view = j.view
          /\ k.rest = j.rest
      BY Zenon, <1>5, <2>1 DEF State
    <2>4. Shaped(k)  BY Zenon, <1>6, <2>3 DEF Shaped, Committing
    <2>5. k.pc \in Places \ Committing  BY Zenon, <2>3 DEF Places, Committing
    <2> QED  BY <1>7, <1>10, <2>1, <2>2, <2>3, <2>4, <2>5, Zenon
  <1>11. CASE consumer' = [consumer EXCEPT ![c] = [j EXCEPT !.pc = "leave", !.rest = {}]]
    <2>1. PICK k : k = [j EXCEPT !.pc = "leave", !.rest = {}]  BY Zenon
    <2>2. k \in State  BY Zenon, <1>5, <2>1 DEF State, Places
    <2>3. /\ k.pc = "leave" /\ k.id = j.id /\ k.gen = j.gen /\ k.view = j.view
          /\ k.rest = {}
      BY Zenon, <1>5, <2>1 DEF State
    <2>4. Shaped(k)  BY Zenon, <1>6, <2>3 DEF Shaped, Committing
    <2>5. k.pc \in Places \ Committing  BY Zenon, <2>3 DEF Places, Committing
    <2> QED  BY <1>7, <1>11, <2>1, <2>2, <2>3, <2>4, <2>5, Zenon
  <1>12. CASE consumer' = [consumer EXCEPT ![c] = NextPartition(j, FALSE)]
    <2>1. PICK k : k = NextPartition(j, FALSE)  BY Zenon
    <2>2. /\ k \in State /\ Shaped(k) /\ k.pc \in {"fetch", "head", "leave"}
          /\ k.id = j.id /\ k.gen = j.gen /\ k.view = j.view
      BY <1>5, <1>6, <2>1, NextPartitionState, Zenon
    <2>3. k.pc \in Places \ Committing  BY Zenon, <2>2 DEF Places, Committing
    <2> QED  BY <1>7, <1>12, <2>1, <2>2, <2>3, Zenon
  <1> QED  BY <1>8, <1>9, <1>10, <1>11, <1>12, Zenon

\* The commit of a consumer that has given up on it.
LEMMA GhostCommitKeeps ==
    ASSUME SafeIInv, NEW c \in Consumer, GhostCommit(c)
    PROVE  KeepsBoth
  <1>1. consumer[c].pc \in Committing /\ CommitHandler(consumer[c])
    BY Zenon DEF GhostCommit, Committing
  <1>2. UNCHANGED <<logVars, epoch, passed>>  BY Zenon DEF GhostCommit, histVars
  <1>3. PICK k : k = Off  BY Zenon
  <1>4. consumer' = [consumer EXCEPT ![c] = k]  BY Zenon, <1>3 DEF GhostCommit
  <1>5. k \in State /\ Shaped(k) /\ k.id = 0 /\ k.gen = 0 /\ k.pc = "off"
    BY Zenon, <1>3, OffState
  <1>6. k.pc \notin Committing /\ k.pc \notin Working  BY Zenon, <1>5 DEF Committing, Working
  <1> QED  BY <1>1, <1>2, <1>4, <1>5, <1>6, CommitKeeps, ZenonT(60)

-----------------------------------------------------------------------------
(* The rest of the broker                                                  *)

\* Consumer d is where it was; it may have come closer to its next heartbeat.
Stays(d) ==
    /\ consumer'[d].pc = consumer[d].pc
    /\ consumer'[d].id = consumer[d].id
    /\ consumer'[d].gen = consumer[d].gen
    /\ consumer'[d].view = consumer[d].view
    /\ consumer'[d].rest = consumer[d].rest
    /\ consumer'[d].pos = consumer[d].pos

\* A step that moves no consumer and forgets nothing of what was processed.
LEMMA WorldSafe ==
    ASSUME SafeIInv, CoordPart, GroupTypeOK', \A d \in Consumer : Stays(d),
           \A p \in Partition : passed[p] \subseteq passed'[p] /\ earliest[p] <= earliest'[p],
           \A p \in Partition : committed'[p] = committed[p] \/ Processed(p, committed[p])'
    PROVE  SafeIInv'
  <1>1. \A d \in Consumer : Shaped(consumer[d])'
    <2>1. \A d \in Consumer : Shaped(consumer[d])  BY Zenon DEF SafeIInv
    <2> QED  BY Zenon, <2>1 DEF Shaped, Stays, Committing
  <1>2. \A d \in Consumer : consumer'[d].pc \in Committing =>
           /\ consumer[d].pc \in Committing
           /\ consumer'[d].rest = consumer[d].rest
           /\ consumer'[d].pos = consumer[d].pos
    BY Zenon DEF Stays
  <1> QED  BY <1>1, <1>2, GrowSafe, Zenon DEF CoordPart

\* Such a step keeps the fence if it leaves the commits under way alone.
LEMMA WorldFence ==
    ASSUME FenceIInv, SafeIInv', CoordPart, nextId' = nextId,
           \A d \in Consumer : Stays(d),
           \A d \in Consumer : committed'[Min(consumer[d].rest)] = committed[Min(consumer[d].rest)]
                                \/ members'[group] = {}
    PROVE  FenceIInv'
  <1>1. generation[group] \in Nat /\ generation'[group] \in Nat
        /\ generation[group] <= generation'[group]
    BY Zenon, ConsumerAssumption
    DEF FenceIInv, SafeIInv, CoordPart, CoordIInv, CoordTypeOK, FencedStep
  <1>2. \A d \in Consumer : consumer[d].gen \in Nat
    BY Zenon DEF FenceIInv, SafeIInv, GroupTypeOK, State
  <1>3. IdsDistinct'
    <2>1. \A d \in Consumer : consumer'[d].id < nextId'
      BY Zenon DEF FenceIInv, IdsDistinct, Stays
    <2>2. \A d \in Consumer : consumer'[d].gen <= generation'[group]
      <3>1. \A d \in Consumer : consumer[d].gen <= generation[group]
        BY Zenon DEF FenceIInv, IdsDistinct
      <3>2. \A d \in Consumer : consumer'[d].gen = consumer[d].gen  BY Zenon DEF Stays
      <3> QED  BY <1>1, <1>2, <3>1, <3>2, AtMost, Zenon
    <2>3. \A d, e \in Consumer :
             d # e /\ consumer'[d].id = consumer'[e].id => consumer'[d].id = 0
      <3>1. \A d \in Consumer : consumer'[d].id = consumer[d].id  BY Zenon DEF Stays
      <3>2. \A d, e \in Consumer :
               d # e /\ consumer[d].id = consumer[e].id => consumer[d].id = 0
        BY Zenon DEF FenceIInv, IdsDistinct
      <3> QED  BY Zenon, <3>1, <3>2
    <2> QED  BY <2>1, <2>2, <2>3, Zenon DEF IdsDistinct
  <1>4. ASSUME NEW d \in Consumer
        PROVE  ViewOK(d)' /\ PosOK(d)'
    <2>1. Stays(d)  BY Zenon
    <2>2. ViewOK(d)'  BY <2>1, StillCurrent, Zenon DEF FenceIInv, ViewOK, Current, Stays
    <2>3. PosOK(d)'
      <3> SUFFICES ASSUME consumer[d].pc \in Committing,
                          consumer[d].id \in members'[group],
                          consumer[d].gen = generation'[group]
                   PROVE  committed'[Min(consumer[d].rest)] <= consumer[d].pos
        BY <2>1, Zenon DEF PosOK, Current, Stays
      <3>1. Current(consumer[d])  BY StillCurrent, Zenon
      <3>2. committed[Min(consumer[d].rest)] <= consumer[d].pos
        BY <3>1, Zenon DEF FenceIInv, PosOK
      <3>3. members'[group] # {}  BY Zenon
      <3>4. committed'[Min(consumer[d].rest)] = committed[Min(consumer[d].rest)]
        BY <3>3, Zenon
      <3> QED  BY <3>2, <3>4, Zenon
    <2> QED  BY Zenon, <2>2, <2>3
  <1> QED  BY <1>3, <1>4, Zenon DEF FenceIInv

\* Producers append and retention trims.
LEMMA LogKeeps ==
    ASSUME SafeIInv, NEW p \in Partition, Produce(p) \/ Trim(p)
    PROVE  KeepsBoth
  <1>ty. GroupTypeOK /\ CoordIInv  BY Zenon DEF SafeIInv
  <1>1. UNCHANGED <<consumer, committed, epoch, passed>> /\ UNCHANGED coordVars
    BY Zenon DEF Produce, Trim, histVars
  <1>2. CoordPart /\ nextId' = nextId  BY <1>ty, <1>1, StillPart, Zenon
  <1>3. \A d \in Consumer : Stays(d)  BY Zenon, <1>1 DEF Stays
  <1>4. earliest' \in [Partition -> Nat] /\ end' \in [Partition -> Nat]
        /\ \A q \in Partition : earliest[q] <= earliest'[q]
    BY <1>ty DEF GroupTypeOK, Produce, Trim
  <1>5. GroupTypeOK'
    <2>1. Partition' = Partition /\ State' = State  BY Zenon, <1>2 DEF CoordPart, Partition, State
    <2> QED  BY <1>ty, <1>1, <1>4, <2>1, Zenon DEF GroupTypeOK
  <1>6. \A q \in Partition : passed[q] \subseteq passed'[q] /\ committed'[q] = committed[q]
    BY <1>1, Zenon
  <1>7. SafeIInv'  BY <1>2, <1>3, <1>4, <1>5, <1>6, WorldSafe, Zenon
  <1>8. FenceIInv => FenceIInv'
    <2>1. committed' = committed  BY Zenon, <1>1
    <2> QED  BY <1>2, <1>3, <1>7, <2>1, WorldFence, Zenon
  <1> QED  BY Zenon, <1>7, <1>8 DEF KeepsBoth

\* A reset of a group without active members.
LEMMA AdminCommitKeeps ==
    ASSUME SafeIInv, NEW p \in Partition, NEW o \in 0 .. MaxOffset, AdminCommit(p, o)
    PROVE  KeepsBoth
  <1>ty. GroupTypeOK /\ CoordIInv  BY Zenon DEF SafeIInv
  <1>0. group \in Group /\ o \in Nat  BY ConsumerAssumption
  <1>1. UNCHANGED <<consumer, earliest, end, epoch>>  BY Zenon DEF AdminCommit, logVars, histVars
  <1>2. /\ CoordPart /\ nextId' = nextId
        /\ Unexpired(group) = {} => members'[group] = {}
    <2>1. CASE group \in known
      <3>1. Expire(group)  BY Zenon, <2>1 DEF AdminCommit
      <3>2. PICK R : SweepAges({group}, R)  BY Zenon, <3>1 DEF Expire
      <3> QED  BY Zenon, <1>ty, <3>1, <3>2, SweepPart DEF Expire
    <2>2. CASE group \notin known
      <3>1. UNCHANGED coordVars  BY Zenon, <2>2 DEF AdminCommit
      <3>2. members[group] = {}  BY <1>ty, <1>0, <2>2, Zenon DEF CoordIInv
      <3> QED  BY <1>ty, <3>1, <3>2, StillPart, Zenon
    <2> QED  BY Zenon, <2>1, <2>2
  <1>3. \A d \in Consumer : Stays(d)  BY Zenon, <1>1 DEF Stays
  <1>4. \/ committed' = committed /\ passed' = passed
        \/ /\ Unexpired(group) = {}
           /\ committed' = [committed EXCEPT ![p] = o]
           /\ passed' = [passed EXCEPT ![p] = @ \cup (0 .. o - 1)]
    BY Zenon DEF AdminCommit
  <1>5. GroupTypeOK'
    <2>1. Partition' = Partition /\ State' = State  BY Zenon, <1>2 DEF CoordPart, Partition, State
    <2>2. passed[p] \cup (0 .. o - 1) \in SUBSET Nat  BY <1>ty, <1>0 DEF GroupTypeOK
    <2>3. passed' \in [Partition -> SUBSET Nat]  BY <1>ty, <1>4, <2>2, Zenon DEF GroupTypeOK
    <2>4. committed' \in [Partition -> Nat \cup {NoOffset}]
      <3>1. o \in Nat \cup {NoOffset}  BY Zenon, <1>0
      <3> QED  BY <1>ty, <1>4, <3>1, Zenon DEF GroupTypeOK
    <2> QED  BY <1>ty, <1>1, <2>1, <2>3, <2>4, Zenon DEF GroupTypeOK
  <1>6. \A q \in Partition : passed[q] \subseteq passed'[q]
    BY <1>ty, <1>4, Zenon DEF GroupTypeOK
  <1>7. \A q \in Partition : committed'[q] = committed[q] \/ Processed(q, committed[q])'
    <2>1. CASE committed' = committed  BY Zenon, <2>1
    <2>2. CASE /\ committed' = [committed EXCEPT ![p] = o]
               /\ passed' = [passed EXCEPT ![p] = @ \cup (0 .. o - 1)]
      <3>1. committed'[p] = o /\ passed'[p] = passed[p] \cup (0 .. o - 1)
        BY <1>ty, <2>2, Zenon DEF GroupTypeOK
      <3>2. \A q \in Partition : q # p => committed'[q] = committed[q]
        BY <1>ty, <2>2, Zenon DEF GroupTypeOK
      <3>3. Processed(p, committed[p])'  BY Zenon, <3>1 DEF Processed
      <3> QED  BY Zenon, <3>2, <3>3
    <2> QED  BY Zenon, <1>4, <2>1, <2>2
  <1>8. \A q \in Partition : earliest[q] <= earliest'[q]  BY <1>ty, <1>1 DEF GroupTypeOK
  <1>9. SafeIInv'  BY <1>2, <1>3, <1>5, <1>6, <1>7, <1>8, WorldSafe, Zenon
  <1>10. FenceIInv => FenceIInv'
    BY <1>2, <1>3, <1>4, <1>9, WorldFence, Zenon
  <1> QED  BY Zenon, <1>9, <1>10 DEF KeepsBoth

\* Time passes.
LEMMA ClockTickKeeps ==
    ASSUME SafeIInv, ClockTick
    PROVE  KeepsBoth
  <1>ty. GroupTypeOK /\ CoordIInv  BY Zenon DEF SafeIInv
  <1>1. UNCHANGED <<committed, earliest, end, epoch, passed>> /\ Tick
    BY Zenon DEF ClockTick, logVars
  <1>2. CoordPart /\ nextId' = nextId
    <2>1. group \in Group  BY Zenon, ConsumerAssumption
    <2>2. CoordIInv' /\ FencedStep(group)  BY <1>ty, <1>1, <2>1, TickKeeps, Zenon
    <2> QED  BY Zenon, <1>1, <2>2 DEF CoordPart, Tick, topicVars
  <1>3. ASSUME NEW d \in Consumer
        PROVE  consumer'[d] \in State /\ Stays(d)
    <2>1. consumer[d] \in State  BY Zenon, <1>ty DEF GroupTypeOK
    <2>2. consumer'[d] = consumer[d] \/ consumer'[d] = [consumer[d] EXCEPT !.beat = @ + 1]
      BY Zenon DEF ClockTick
    <2>3. CASE consumer'[d] = consumer[d]  BY Zenon, <2>1, <2>3 DEF Stays
    <2>4. CASE consumer'[d] = [consumer[d] EXCEPT !.beat = @ + 1]
      BY <2>1, <2>4 DEF State, Stays
    <2> QED  BY Zenon, <2>2, <2>3, <2>4
  <1>4. GroupTypeOK'
    <2>1. Partition' = Partition /\ State' = State  BY Zenon, <1>2 DEF CoordPart, Partition, State
    <2>2. consumer' = [d \in Consumer |-> consumer'[d]]  BY Zenon DEF ClockTick
    <2>3. consumer' \in [Consumer -> State]  BY <1>3, <2>2, Zenon
    <2> QED  BY <1>ty, <1>1, <2>1, <2>3, Zenon DEF GroupTypeOK
  <1>5. \A q \in Partition : /\ passed[q] \subseteq passed'[q] /\ committed'[q] = committed[q]
                             /\ earliest[q] <= earliest'[q]
    BY <1>ty, <1>1 DEF GroupTypeOK
  <1>6. SafeIInv'  BY <1>2, <1>3, <1>4, <1>5, WorldSafe, Zenon
  <1>7. FenceIInv => FenceIInv'
    <2>1. committed' = committed  BY Zenon, <1>1
    <2> QED  BY <1>2, <1>3, <1>6, <2>1, WorldFence, Zenon
  <1> QED  BY Zenon, <1>6, <1>7 DEF KeepsBoth

\* The broker comes back without groups; the consumers keep what they know.
LEMMA RestartSafe ==
    ASSUME SafeIInv, Restart
    PROVE  SafeIInv'
  <1>ty. GroupTypeOK /\ CoordIInv /\ CoordTypeOK  BY Zenon DEF SafeIInv, CoordIInv
  <1>1. UNCHANGED <<live, partitions, deletes, committed, earliest, end, passed>>
    BY Zenon DEF Restart, topicVars, logVars
  <1>2. CoordIInv'
    <2>1. CoordTypeOK'  BY <1>ty, <1>1 DEF Restart, CoordTypeOK
    <2>2. \A g \in Group : members'[g] = {} /\ assignment'[g] = Assigned({}, count'[g])
      BY Zenon, AssignedNone DEF Restart
    <2> QED  BY <2>1, <2>2, Zenon DEF CoordIInv
  <1>3. ASSUME NEW d \in Consumer
        PROVE  consumer'[d] = consumer[d] \/ consumer'[d] = Off
    BY Zenon DEF Restart
  <1>4. Partition' = Partition /\ State' = State  BY Zenon, <1>1 DEF Partition, State
  <1>5. GroupTypeOK'
    <2>1. consumer' = [d \in Consumer |-> consumer'[d]]  BY Zenon DEF Restart
    <2>2. \A d \in Consumer : consumer'[d] \in State
      BY <1>ty, <1>3, OffState, Zenon DEF GroupTypeOK
    <2>3. consumer' \in [Consumer -> State]  BY <2>1, <2>2, Zenon
    <2>4. epoch' \in Nat  BY <1>ty DEF GroupTypeOK, Restart
    <2> QED  BY <1>ty, <1>1, <1>4, <2>3, <2>4, Zenon DEF GroupTypeOK
  <1>6. \A d \in Consumer : Shaped(consumer[d])'
    <2>1. \A d \in Consumer : Shaped(consumer'[d])  BY <1>3, OffState, Zenon DEF SafeIInv
    <2> QED  BY Zenon, <2>1 DEF Shaped
  <1>7. \A d \in Consumer : consumer'[d].pc \in Committing =>
           /\ consumer[d].pc \in Committing
           /\ consumer'[d].rest = consumer[d].rest
           /\ consumer'[d].pos = consumer[d].pos
    <2>1. Off.pc \notin Committing  BY Zenon, OffState DEF Committing
    <2> QED  BY <1>3, <2>1, Zenon
  <1>8. \A q \in Partition : /\ passed[q] \subseteq passed'[q] /\ committed'[q] = committed[q]
                             /\ earliest[q] <= earliest'[q]
    BY <1>ty, <1>1 DEF GroupTypeOK
  <1> QED  BY <1>1, <1>2, <1>5, <1>6, <1>7, <1>8, GrowSafe, Zenon

-----------------------------------------------------------------------------
(* The theorems                                                            *)

\* Every step of the group keeps both invariants.
LEMMA NextKeeps ==
    ASSUME SafeIInv, Next
    PROVE  KeepsBoth
  <1>1. ASSUME NEW c \in Consumer, ConsumerStep(c)
        PROVE  KeepsBoth
    <2>1. CASE JoinStep(c)  BY <2>1, JoinStepKeeps, Zenon
    <2>2. CASE SyncStep(c)  BY <2>2, SyncStepKeeps, Zenon
    <2>3. CASE HeartbeatStep(c)  BY <2>3, HeartbeatStepKeeps, Zenon
    <2>4. CASE FetchStep(c)  BY <2>4, FetchStepKeeps, Zenon
    <2>5. CASE \E last \in BOOLEAN : CommitStep(c, last)  BY <2>5, CommitStepKeeps, Zenon
    <2>6. CASE LeaveStep(c)  BY <2>6, LeaveStepKeeps, Zenon
    <2> QED  BY <1>1, <2>1, <2>2, <2>3, <2>4, <2>5, <2>6, Zenon DEF ConsumerStep
  <1>2. ASSUME NEW c \in Consumer, Start(c) \/ IdleExit(c) \/ Die(c) \/ Abandon(c)
        PROVE  KeepsBoth
    BY <1>2, MoveKeeps, Zenon
  <1>3. ASSUME NEW c \in Consumer, GhostCommit(c)
        PROVE  KeepsBoth
    BY <1>3, GhostCommitKeeps, Zenon
  <1>4. ASSUME NEW p \in Partition, Produce(p) \/ Trim(p)
        PROVE  KeepsBoth
    BY <1>4, LogKeeps, Zenon
  <1>5. ASSUME NEW p \in Partition, NEW o \in 0 .. MaxOffset, AdminCommit(p, o)
        PROVE  KeepsBoth
    BY <1>5, AdminCommitKeeps, Zenon
  <1>6. CASE ClockTick  BY <1>6, ClockTickKeeps, Zenon
  <1> QED  BY <1>1, <1>2, <1>3, <1>4, <1>5, <1>6, Zenon DEF Next

\* A step that changes nothing does too.
LEMMA StutterKeeps ==
    ASSUME SafeIInv, UNCHANGED vars
    PROVE  KeepsBoth
  <1>ty. GroupTypeOK /\ CoordIInv  BY Zenon DEF SafeIInv
  <1>1. UNCHANGED <<consumer, committed, earliest, end, epoch, passed>> /\ UNCHANGED coordVars
    BY Zenon DEF vars, logVars, histVars
  <1>2. CoordPart /\ nextId' = nextId  BY <1>ty, <1>1, StillPart, Zenon
  <1>3. \A d \in Consumer : Stays(d)  BY Zenon, <1>1 DEF Stays
  <1>4. GroupTypeOK'
    <2>1. Partition' = Partition /\ State' = State  BY Zenon, <1>2 DEF CoordPart, Partition, State
    <2> QED  BY <1>ty, <1>1, <2>1, Zenon DEF GroupTypeOK
  <1>5. \A q \in Partition : /\ passed[q] \subseteq passed'[q] /\ committed'[q] = committed[q]
                             /\ earliest[q] <= earliest'[q]
    BY <1>ty, <1>1 DEF GroupTypeOK
  <1>6. SafeIInv'  BY <1>2, <1>3, <1>4, <1>5, WorldSafe, Zenon
  <1>7. FenceIInv => FenceIInv'
    <2>1. committed' = committed  BY Zenon, <1>1
    <2> QED  BY <1>2, <1>3, <1>6, <2>1, WorldFence, Zenon
  <1> QED  BY Zenon, <1>6, <1>7 DEF KeepsBoth

\* No consumer runs and nothing is committed at first.
LEMMA GroupInit == Init => FenceIInv
  <1> SUFFICES ASSUME Init PROVE FenceIInv  BY Zenon
  <1>1. CoordIInv  BY Zenon, InitHolds DEF Init
  <1>2. \A c \in Consumer : consumer[c] = Off  BY Zenon DEF Init
  <1>3. GroupTypeOK
    <2>1. consumer \in [Consumer -> State]  BY Zenon, OffState DEF Init
    <2>2. NoOffset \in Nat \cup {NoOffset} /\ 0 \in Nat /\ {} \in SUBSET Nat  BY Zenon
    <2> QED  BY <2>1, <2>2, Zenon DEF Init, GroupTypeOK
  <1>4. Off.pc \notin Committing /\ Off.pc \notin Working  BY Zenon, OffState DEF Committing, Working
  <1>5. \A p \in Partition : Processed(p, committed[p])
    BY DEF Init, Processed, NoOffset
  <1>6. SafeIInv  BY <1>1, <1>2, <1>3, <1>4, <1>5, OffState, Zenon DEF SafeIInv
  <1>7. IdsDistinct
    <2>1. generation[group] = 0 /\ nextId = 1  BY Zenon, ConsumerAssumption DEF Init, CoordInit
    <2> QED  BY <1>2, <2>1, OffState DEF IdsDistinct
  <1> QED  BY <1>2, <1>4, <1>6, <1>7, Zenon DEF FenceIInv, ViewOK, PosOK

\* Also over broker restarts: what is committed was processed, and so was what
\* any commit under way says.
THEOREM GroupSafe == RestartSpec => []SafeIInv
  <1>1. Init => SafeIInv  BY Zenon, GroupInit DEF FenceIInv
  <1>2. SafeIInv /\ [Next \/ Restart]_vars => SafeIInv'
    BY Zenon, NextKeeps, StutterKeeps, RestartSafe DEF KeepsBoth
  <1> QED  BY <1>1, <1>2, PTL DEF RestartSpec

\* Without restarts the generation fences every commit of a consumer that was
\* replaced.
THEOREM GroupFenced == Spec => []FenceIInv
  <1>1. FenceIInv /\ [Next]_vars => FenceIInv'
    BY Zenon, NextKeeps, StutterKeeps DEF KeepsBoth, FenceIInv
  <1> QED  BY GroupInit, <1>1, PTL DEF Spec

\* Every record below a committed offset was processed by some consumer, was
\* trimmed, or was skipped by a reset: however consumers, commits, sessions and
\* the broker fail.
THEOREM GroupNothingSkipped ==
    (Spec => []NothingSkipped) /\ (RestartSpec => []NothingSkipped)
  <1>1. SafeIInv => NothingSkipped  BY Zenon DEF SafeIInv, NothingSkipped, Processed
  <1>2. FenceIInv => SafeIInv  BY Zenon DEF FenceIInv
  <1> QED  BY GroupSafe, GroupFenced, <1>1, <1>2, PTL

\* Of two consumers, dead ones with a commit under way included, at most one
\* can commit for a partition.
THEOREM GroupOneCommitter == Spec => []OneCommitter
  <1>1. FenceIInv => OneCommitter
    <2> SUFFICES ASSUME FenceIInv, NEW c \in Consumer, NEW d \in Consumer, c # d,
                        NEW p \in Partition, Accepted(c, p), Accepted(d, p)
                 PROVE  FALSE
      BY Zenon DEF OneCommitter
    <2>1. /\ MayCommit(group, consumer[c].id, consumer[c].gen, p)
          /\ MayCommit(group, consumer[d].id, consumer[d].gen, p)
      BY Zenon DEF Accepted
    <2>2. /\ Current(consumer[c]) /\ p \in assignment[group][consumer[c].id]
          /\ Current(consumer[d]) /\ p \in assignment[group][consumer[d].id]
      BY <2>1, MayCommitCurrent, Zenon
    <2> QED  BY <2>2, OneOwner, Zenon
  <1> QED  BY GroupFenced, <1>1, PTL

\* A consumer that the coordinator still admits works on exactly the partitions
\* that the coordinator assigned to it.
THEOREM GroupViewsExact == Spec => []ViewsExact
  <1>1. FenceIInv => ViewsExact
    <2> SUFFICES ASSUME FenceIInv, NEW c \in Consumer,
                        consumer[c].pc \in {"head", "fetch", "commit", "ghost"},
                        Admits(group, consumer[c].id, consumer[c].gen)
                 PROVE  consumer[c].view = assignment[group][consumer[c].id]
      BY Zenon DEF ViewsExact
    <2>1. generation[group] \in Nat
      BY Zenon, ConsumerAssumption DEF FenceIInv, SafeIInv, CoordIInv, CoordTypeOK
    <2>2. consumer[c].gen \in Nat /\ consumer[c].gen <= generation[group]
      BY Zenon DEF FenceIInv, SafeIInv, GroupTypeOK, State, IdsDistinct
    <2>3. consumer[c].gen = SweptGeneration(group) /\ consumer[c].id \in members[group]
      BY Zenon DEF Admits, Unexpired
    <2>4. consumer[c].gen = generation[group]  BY <2>1, <2>2, <2>3 DEF SweptGeneration
    <2>5. consumer[c].pc \in Working  BY Zenon DEF Working
    <2> QED  BY <2>3, <2>4, <2>5, Zenon DEF FenceIInv, ViewOK, Current
  <1> QED  BY GroupFenced, <1>1, PTL

\* A committed offset goes back only by a reset while the group has no active
\* member: no late or repeated commit does it.
THEOREM GroupCommitsAdvance == Spec => CommitsAdvance
  <1> DEFINE Forward == \A p \in Partition :
                           committed'[p] < committed[p] => Unexpired(group) = {}
  <1>1. ASSUME FenceIInv, NEW c \in Consumer, consumer[c].pc \in Committing,
               CommitHandler(consumer[c])
        PROVE  Forward
    <2> DEFINE p == Min(consumer[c].rest)
    <2>0. SafeIInv /\ GroupTypeOK  BY Zenon, <1>1 DEF FenceIInv, SafeIInv
    <2>1. /\ p \in Partition
          /\ \/ committed' = committed
             \/ /\ committed' = [committed EXCEPT ![p] = consumer[c].pos]
                /\ MayCommit(group, consumer[c].id, consumer[c].gen, p)
      BY <1>1, <2>0, HandlerEffect, Zenon
    <2>2. \A q \in Partition : committed[q] \in Int  BY <2>0 DEF GroupTypeOK, NoOffset
    <2>3. CASE committed' = committed  BY <2>2, <2>3
    <2>4. CASE /\ committed' = [committed EXCEPT ![p] = consumer[c].pos]
               /\ MayCommit(group, consumer[c].id, consumer[c].gen, p)
      <3>1. Current(consumer[c])  BY <1>1, <2>4, MayCommitCurrent, Zenon
      <3>2. committed[p] <= consumer[c].pos  BY <1>1, <3>1, Zenon DEF FenceIInv, PosOK
      <3>3. consumer[c].pos \in Nat  BY Zenon, <2>0 DEF GroupTypeOK, State
      <3>4. committed'[p] = consumer[c].pos
            /\ \A q \in Partition \ {p} : committed'[q] = committed[q]
        BY <2>0, <2>1, <2>4, Zenon DEF GroupTypeOK
      <3> HIDE DEF p
      <3> QED  BY <2>1, <2>2, <3>2, <3>3, <3>4
    <2> QED  BY <2>1, <2>3, <2>4, Zenon
  <1>2. FenceIInv /\ [Next]_vars => [Forward]_vars
    <2> SUFFICES ASSUME FenceIInv, Next PROVE Forward  BY Zenon
    <2>1. ASSUME committed' = committed
          PROVE  Forward
      <3>1. \A q \in Partition : committed[q] \in Int
        BY DEF FenceIInv, SafeIInv, GroupTypeOK, NoOffset
      <3> QED  BY <2>1, <3>1
    <2>2. ASSUME NEW c \in Consumer, NEW last \in BOOLEAN, CommitStep(c, last)
          PROVE  Forward
      BY Zenon, <1>1, <2>2 DEF CommitStep, Committing
    <2>3. ASSUME NEW c \in Consumer, GhostCommit(c)
          PROVE  Forward
      BY Zenon, <1>1, <2>3 DEF GhostCommit, Committing
    <2>4. ASSUME NEW p \in Partition, NEW o \in 0 .. MaxOffset, AdminCommit(p, o)
          PROVE  Forward
      BY Zenon, <2>1, <2>4 DEF AdminCommit
    <2>5. ASSUME NEW c \in Consumer,
                 \/ JoinStep(c) \/ SyncStep(c) \/ HeartbeatStep(c) \/ FetchStep(c)
                 \/ LeaveStep(c) \/ Start(c) \/ IdleExit(c) \/ Die(c) \/ Abandon(c)
          PROVE  Forward
      BY Zenon, <2>1, <2>5
      DEF JoinStep, SyncStep, HeartbeatStep, FetchStep, LeaveStep, Start, IdleExit, Die, Abandon
    <2>6. ASSUME NEW p \in Partition, Produce(p) \/ Trim(p)
          PROVE  Forward
      BY Zenon, <2>1, <2>6 DEF Produce, Trim
    <2>7. CASE ClockTick  BY Zenon, <2>1, <2>7 DEF ClockTick
    <2> HIDE DEF Forward
    <2> QED  BY <2>2, <2>3, <2>4, <2>5, <2>6, <2>7, Zenon DEF Next, ConsumerStep
  <1> QED  BY GroupFenced, <1>2, PTL DEF Spec, CommitsAdvance

=============================================================================
