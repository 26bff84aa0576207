-------------------------- MODULE GroupCoordinator --------------------------
(***************************************************************************)
(* The in-memory coordinator of consumer groups                            *)
(* (src/src/broker/group_coordinator.cpp): members with session timeouts,  *)
(* a generation per group, and a range assignment that is recomputed       *)
(* whenever the generation moves.                                          *)
(*                                                                         *)
(* Every operation holds the coordinator's mutex and is one action.  Each  *)
(* first drops the members whose session ran out, also when it then        *)
(* refuses the request.  A request may carry any member id, generation and *)
(* partition.  The groups of one topic are modelled; the topic itself can  *)
(* be deleted and created again with another partition count, and the      *)
(* deleter's remove_topic() comes after the new topic may be in use.       *)
(*                                                                         *)
(* Data: a member id is a number, because generated ids are zero-padded    *)
(* and so sort as numbers do.  For now - last_heartbeat the model keeps    *)
(* age, which stops growing once it reaches the timeout.                   *)
(***************************************************************************)
EXTENDS Integers, FiniteSets

CONSTANTS
    Group,           \* the groups that consume the topic
    MaxMember,       \* bound: member ids are 1 .. MaxMember
    Timeout,         \* session timeouts, in clock ticks
    PartitionCount,  \* partition counts a topic may be created with
    MaxGeneration,   \* bound: no member is added above it
    MaxDeletes       \* bound: topic deletions under way at once

ASSUME CoordinatorAssumption ==
    /\ MaxMember \in Nat
    /\ Timeout \subseteq Nat \ {0}
    /\ PartitionCount \subseteq Nat \ {0}
    /\ MaxGeneration \in Nat
    /\ MaxDeletes \in Nat

Member == 1 .. MaxMember

VARIABLES
    \* groups_, by group
    members,     \* the keys of the members map
    timeout,     \* session_timeout_ms of each member, 0 for the others
    age,         \* now - last_heartbeat of each member
    assignment,  \* assignment of each member
    count,       \* partition_count
    generation,  \* generation_id
    known,       \* the groups that have an entry in groups_
    nextId,      \* next_member_id_
    \* the topic, as the broker's handlers see it
    live,        \* it is in topics_ and not being deleted
    partitions,  \* its partition_count
    deletes      \* delete_topic calls that have not reached remove_topic

memberVars == <<members, timeout, age, assignment, generation>>
topicVars  == <<live, partitions, deletes>>
coordVars  == <<memberVars, count, known, nextId, topicVars>>

-----------------------------------------------------------------------------
(* recompute_assignment: contiguous ranges over the members in id order.   *)

\* The position of a member in the sorted map.
Index(m, S) == Cardinality({k \in S : k < m})

\* Mutant: the remainder is not handed out.
FirstPartitionFloor(i, n, size) == i * (n \div size)

\* next_partition when the loop reaches the member at index i: each of the
\* first n % size members before it took one partition more.
FirstPartition(i, n, size) ==
    i * (n \div size) + (IF i < n % size THEN i ELSE n % size)

\* Mutant: the inner loop runs once too often.
AssignedInclusive(S, n) ==
    [m \in Member |->
        IF m \in S
        THEN FirstPartition(Index(m, S), n, Cardinality(S))
               .. FirstPartition(Index(m, S) + 1, n, Cardinality(S))
        ELSE {}]

Assigned(S, n) ==
    [m \in Member |->
        IF m \in S
        THEN FirstPartition(Index(m, S), n, Cardinality(S))
               .. FirstPartition(Index(m, S) + 1, n, Cardinality(S)) - 1
        ELSE {}]

-----------------------------------------------------------------------------
(* expire_members and bump_generation                                      *)

\* Mutant: no session ever runs out.
UnexpiredAll(g) == members[g]

Unexpired(g) == {m \in members[g] : age[g][m] < timeout[g][m]}

Expires(g) == Unexpired(g) # members[g]

\* The generation once the expired members are dropped.
SweptGeneration(g) == generation[g] + (IF Expires(g) THEN 1 ELSE 0)

\* Entries of members that are gone are set back, the map has no such entry.
Kept(f, S, zero) == [m \in Member |-> IF m \in S THEN f[m] ELSE zero]

\* Mutant: a member that expired does not change the generation.
SweepSilent(G) ==
    /\ members' = [g \in Group |-> IF g \in G THEN Unexpired(g) ELSE members[g]]
    /\ generation' = generation
    /\ timeout' = [g \in Group |-> IF g \in G THEN Kept(timeout[g], Unexpired(g), 0)
                                   ELSE timeout[g]]
    /\ assignment' =
          [g \in Group |-> IF g \in G /\ Expires(g)
                           THEN Assigned(Unexpired(g), count[g]) ELSE assignment[g]]

\* The effect of the sweep of the groups G on all but the ages.
Sweep(G) ==
    /\ members' = [g \in Group |-> IF g \in G THEN Unexpired(g) ELSE members[g]]
    /\ generation' = [g \in Group |-> IF g \in G THEN SweptGeneration(g)
                                      ELSE generation[g]]
    /\ timeout' = [g \in Group |-> IF g \in G THEN Kept(timeout[g], Unexpired(g), 0)
                                   ELSE timeout[g]]
    /\ assignment' =
          [g \in Group |-> IF g \in G /\ Expires(g)
                           THEN Assigned(Unexpired(g), count[g]) ELSE assignment[g]]

\* The ages after a sweep of the groups G, with the heartbeat of the members R
\* of these groups refreshed.
SweepAges(G, R) ==
    age' = [g \in Group |-> IF g \in G THEN Kept(age[g], Unexpired(g) \ R, 0)
                            ELSE age[g]]

\* The checks that sync, heartbeat, leave and validate_commit share.
Admits(g, id, gen) == id \in Unexpired(g) /\ gen = SweptGeneration(g)

-----------------------------------------------------------------------------
CoordInit ==
    /\ members = [g \in Group |-> {}]
    /\ timeout = [g \in Group |-> [m \in Member |-> 0]]
    /\ age = [g \in Group |-> [m \in Member |-> 0]]
    /\ assignment = [g \in Group |-> [m \in Member |-> {}]]
    /\ count = [g \in Group |-> 0]
    /\ generation = [g \in Group |-> 0]
    /\ known = {}
    /\ nextId = 1
    /\ live = TRUE
    /\ partitions \in PartitionCount
    /\ deletes = 0

\* Mutant: the generation moves for expired members only.
JoinQuiet(g, id, t) ==
    /\ live
    /\ LET S == Unexpired(g) \cup {id}
       IN  /\ members' = [members EXCEPT ![g] = S]
           /\ timeout' = [timeout EXCEPT ![g] = [Kept(@, S, 0) EXCEPT ![id] = t]]
           /\ age' = [age EXCEPT ![g] = [Kept(@, S, 0) EXCEPT ![id] = 0]]
           /\ generation' = [generation EXCEPT ![g] = SweptGeneration(g)]
           /\ assignment' = [assignment EXCEPT ![g] = Assigned(S, partitions)]
    /\ count' = [count EXCEPT ![g] = partitions]
    /\ known' = known \cup {g}
    /\ UNCHANGED topicVars

\* join, with the id the request names or one that was just generated.  The
\* generation moves once for the expired members and once for a new one; a
\* known member that owns nothing has the assignment recomputed.
Join(g, id, t) ==
    /\ live
    /\ LET S == Unexpired(g) \cup {id}
           inserted == id \notin Unexpired(g)
       IN  /\ inserted => generation[g] < MaxGeneration
           /\ members' = [members EXCEPT ![g] = S]
           /\ timeout' = [timeout EXCEPT ![g] = [Kept(@, S, 0) EXCEPT ![id] = t]]
           /\ age' = [age EXCEPT ![g] = [Kept(@, S, 0) EXCEPT ![id] = 0]]
           /\ generation' = [generation EXCEPT ![g] =
                                SweptGeneration(g) + (IF inserted THEN 1 ELSE 0)]
           /\ assignment' =
                 [assignment EXCEPT ![g] =
                     IF Expires(g) \/ inserted \/ assignment[g][id] = {}
                     THEN Assigned(S, partitions) ELSE assignment[g]]
    /\ count' = [count EXCEPT ![g] = partitions]
    /\ known' = known \cup {g}
    /\ UNCHANGED topicVars

\* A request without a member id: next_member_id() names the member.
JoinNew(g, t) ==
    /\ nextId \in Member
    /\ Join(g, nextId, t)
    /\ nextId' = nextId + 1

Rejoin(g, id, t) == Join(g, id, t) /\ UNCHANGED nextId

Sync(g, id, gen) ==
    /\ live /\ g \in known
    /\ Sweep({g})
    /\ SweepAges({g}, IF Admits(g, id, gen) THEN {id} ELSE {})
    /\ UNCHANGED <<count, known, nextId, topicVars>>

Heartbeat(g, id, gen) ==
    /\ live /\ g \in known
    /\ Sweep({g})
    /\ SweepAges({g}, IF Admits(g, id, gen) THEN {id} ELSE {})
    /\ UNCHANGED <<count, known, nextId, topicVars>>

\* Erasing the member moves the generation once more than the sweep does.
Leave(g, id, gen) ==
    /\ live /\ g \in known
    /\ IF Admits(g, id, gen)
       THEN LET S == Unexpired(g) \ {id}
            IN  /\ members' = [members EXCEPT ![g] = S]
                /\ timeout' = [timeout EXCEPT ![g] = Kept(@, S, 0)]
                /\ age' = [age EXCEPT ![g] = Kept(@, S, 0)]
                /\ generation' = [generation EXCEPT ![g] = SweptGeneration(g) + 1]
                /\ assignment' = [assignment EXCEPT ![g] = Assigned(S, count[g])]
       ELSE Sweep({g}) /\ SweepAges({g}, {})
    /\ UNCHANGED <<count, known, nextId, topicVars>>

\* expire, has_active_members and active_member_count; the broker's handlers
\* also call them for a topic that is being deleted.
Expire(g) ==
    /\ g \in known
    /\ Sweep({g}) /\ SweepAges({g}, {})
    /\ UNCHANGED <<count, known, nextId, topicVars>>

\* Mutant: a member may commit for any partition of any generation.
MayCommitUnfenced(g, id, gen, p) == id \in Unexpired(g)

\* What validate_commit finds: the member, its generation and its ownership.
MayCommit(g, id, gen, p) ==
    /\ Admits(g, id, gen)
    /\ p \in (IF Expires(g) THEN Assigned(Unexpired(g), count[g])
              ELSE assignment[g])[id]

ValidateCommit(g, id, gen, p) ==
    /\ live /\ g \in known
    /\ Sweep({g})
    /\ SweepAges({g}, IF MayCommit(g, id, gen, p) THEN {id} ELSE {})
    /\ UNCHANGED <<count, known, nextId, topicVars>>

-----------------------------------------------------------------------------
(* The topic's deletion and re-creation.                                   *)

\* Mutant: the topic is not checked for active members.
BeginDeleteForced ==
    /\ live
    /\ deletes < MaxDeletes
    /\ live' = FALSE
    /\ deletes' = deletes + 1
    /\ UNCHANGED <<memberVars, partitions, count, known, nextId>>

\* delete_topic up to topics_.erase: topic_has_active_members sweeps every
\* group, and the topic goes only if no member is left.
BeginDelete ==
    /\ live
    /\ deletes < MaxDeletes
    /\ Sweep(known) /\ SweepAges(known, {})
    /\ LET active == \E g \in known : Unexpired(g) # {}
       IN  /\ live' = active
           /\ deletes' = IF active THEN deletes ELSE deletes + 1
    /\ UNCHANGED <<partitions, count, known, nextId>>

CreateTopic(n) ==
    /\ ~live
    /\ live' = TRUE
    /\ partitions' = n
    /\ UNCHANGED <<memberVars, count, known, nextId, deletes>>

\* remove_topic drops all the topic's groups, those of a new topic of the same
\* name included.
RemoveTopic ==
    /\ deletes > 0
    /\ deletes' = deletes - 1
    /\ members' = [g \in Group |-> {}]
    /\ timeout' = [g \in Group |-> [m \in Member |-> 0]]
    /\ age' = [g \in Group |-> [m \in Member |-> 0]]
    /\ assignment' = [g \in Group |-> [m \in Member |-> {}]]
    /\ count' = [g \in Group |-> 0]
    /\ generation' = [g \in Group |-> 0]
    /\ known' = {}
    /\ UNCHANGED <<nextId, live, partitions>>

-----------------------------------------------------------------------------
Tick ==
    /\ age' = [g \in Group |-> [m \in Member |->
                  IF age[g][m] < timeout[g][m] THEN age[g][m] + 1 ELSE age[g][m]]]
    /\ UNCHANGED <<members, timeout, assignment, generation, count, known, nextId,
                   topicVars>>

\* A request names the current generation or the one a sweep leads to; it is
\* refused for any other as it is for an unknown member.
Request(g) ==
    \/ \E t \in Timeout : JoinNew(g, t)
    \/ \E id \in Member, t \in Timeout : Rejoin(g, id, t)
    \/ \E id \in Member : \E gen \in {generation[g], SweptGeneration(g)} :
          \/ Sync(g, id, gen)
          \/ Heartbeat(g, id, gen)
          \/ Leave(g, id, gen)
          \/ \E p \in 0 .. partitions - 1 : ValidateCommit(g, id, gen, p)
    \/ Expire(g)

CoordNext ==
    \/ \E g \in Group : Request(g)
    \/ BeginDelete
    \/ \E n \in PartitionCount : CreateTopic(n)
    \/ RemoveTopic
    \/ Tick

CoordSpec == CoordInit /\ [][CoordNext]_coordVars

-----------------------------------------------------------------------------
(* Properties                                                              *)

CoordTypeOK ==
    /\ members \in [Group -> SUBSET Member]
    /\ timeout \in [Group -> [Member -> Timeout \cup {0}]]
    /\ age \in [Group -> [Member -> Nat]]
    /\ assignment \in [Group -> [Member -> SUBSET Nat]]
    /\ count \in [Group -> PartitionCount \cup {0}]
    /\ generation \in [Group -> Nat]
    /\ known \subseteq Group
    /\ nextId \in Nat \ {0}
    /\ live \in BOOLEAN
    /\ partitions \in PartitionCount
    /\ deletes \in 0 .. MaxDeletes

\* No partition has two owners, whatever members joined, left or expired.
OwnersDisjoint ==
    \A g \in Group : \A m, k \in members[g] :
        m # k => assignment[g][m] \cap assignment[g][k] = {}

\* The members of a group own all the topic's partitions and no others, and no
\* member has two more than another.
PartitionsCovered ==
    \A g \in Group : members[g] # {} =>
        /\ UNION {assignment[g][m] : m \in members[g]} = 0 .. partitions - 1
        /\ \A m, k \in members[g] :
              Cardinality(assignment[g][m]) <= Cardinality(assignment[g][k]) + 1

\* Members and assignments of a group change only together with its generation,
\* which never falls, until remove_topic drops the group.
GenerationFences ==
    [][\A g \in known \cap known' :
          /\ generation'[g] >= generation[g]
          /\ generation'[g] = generation[g] =>
                members'[g] = members[g] /\ assignment'[g] = assignment[g]]_coordVars

\* The assignments are always the ones the present members should have for the
\* topic's present partition count; a topic under deletion has no member.
CoordIInv ==
    /\ CoordTypeOK
    /\ \A g \in Group :
          /\ assignment[g] = Assigned(members[g], count[g])
          /\ members[g] # {} => live /\ g \in known /\ count[g] = partitions

=============================================================================
