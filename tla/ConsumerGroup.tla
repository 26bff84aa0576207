--------------------------- MODULE ConsumerGroup ---------------------------
(***************************************************************************)
(* One consumer group at work: the coordinated consumers of                *)
(* src/tools/consumer_cli.cpp, the broker's handlers for their requests    *)
(* (src/src/broker/server.cpp), the coordinator (GroupCoordinator) and the *)
(* committed offsets of the group.                                         *)
(*                                                                         *)
(* A consumer sends one request at a time, each over a connection of its   *)
(* own, so a request with its answer is one step.  The broker's handlers   *)
(* hold the topic's mutex from the coordinator's check to the offset       *)
(* commit, so a handler is one step too.  A consumer may die anywhere; a   *)
(* commit it had sent may still reach the broker afterwards.  Records are  *)
(* offsets; producers append and retention trims.                          *)
(*                                                                         *)
(* Clock: a tick that would let the session of a running consumer run out  *)
(* is a stall (a paused process, a slow network); there are MaxStalls.     *)
(***************************************************************************)
EXTENDS GroupCoordinator, FiniteSetsExt

CONSTANTS
    Consumer,        \* consumer processes
    group,           \* their group
    HeartbeatEvery,  \* heartbeat_ms, in clock ticks
    MaxAttempts,     \* the attempts of join_and_sync
    MaxOffset,       \* bound: records per partition
    MaxStarts,       \* bound: consumers started
    MaxStalls,       \* bound: sessions allowed to run out
    MaxRestarts      \* bound: broker restarts

ASSUME ConsumerAssumption ==
    /\ group \in Group
    /\ HeartbeatEvery \in Nat \ {0}
    /\ \A t \in Timeout : HeartbeatEvery < t
    /\ MaxAttempts \in Nat \ {0}
    /\ {MaxOffset, MaxStarts, MaxStalls, MaxRestarts} \subseteq Nat

VARIABLES
    consumer,   \* the state of each consumer process
    committed,  \* the offset store's entry for each partition, or NoOffset
    earliest,   \* earliest_offset of each partition
    end,        \* next_offset of each partition
    \* bounds and history
    starts, stalls,
    epoch,      \* broker restarts so far
    passed      \* offsets processed by some consumer, or reset over

logVars  == <<earliest, end>>
histVars == <<starts, stalls, epoch>>
vars == <<coordVars, consumer, committed, logVars, histVars, passed>>

Partition == 0 .. partitions - 1

NoOffset == -1

\* Where run_coordinated_consumer is: pc; the locals member_id (0 for none),
\* generation_id, assignment; the partitions its for loop has still to visit;
\* commit_next_offset; attempt; ticks since last_heartbeat; the broker run that
\* gave it its generation.
Off == [pc |-> "off", id |-> 0, gen |-> 0, view |-> {}, rest |-> {}, pos |-> 0,
        tries |-> 0, beat |-> 0, run |-> 0]

Running(c) == consumer[c].pc \notin {"off", "ghost"}

Init ==
    /\ CoordInit
    /\ consumer = [c \in Consumer |-> Off]
    /\ committed = [p \in Partition |-> NoOffset]
    /\ earliest = [p \in Partition |-> 0]
    /\ end = [p \in Partition |-> 0]
    /\ starts = 0 /\ stalls = 0 /\ epoch = 0
    /\ passed = [p \in Partition |-> {}]

-----------------------------------------------------------------------------
(* The consumer's loop                                                     *)

Start(c) ==
    /\ consumer[c].pc = "off"
    /\ starts < MaxStarts
    /\ starts' = starts + 1
    /\ consumer' = [consumer EXCEPT ![c].pc = "join"]
    /\ UNCHANGED <<coordVars, committed, logVars, stalls, epoch, passed>>

JoinStep(c) ==
    /\ consumer[c].pc = "join"
    /\ \E t \in Timeout : IF consumer[c].id = 0 THEN JoinNew(group, t)
                          ELSE Rejoin(group, consumer[c].id, t)
    /\ consumer' = [consumer EXCEPT
                       ![c].pc = "sync",
                       ![c].id = IF @ = 0 THEN nextId ELSE @,
                       ![c].gen = generation'[group],
                       ![c].tries = @ + 1,
                       ![c].run = epoch]
    /\ UNCHANGED <<committed, logVars, histVars, passed>>

\* An error that asks for a rejoin: the next attempt, or exit after the last.
\* A rejoin out of the for loop (rest is not empty) goes on with the test for
\* idle_exit_ms that follows the loop.
SyncStep(c) ==
    /\ consumer[c].pc = "sync"
    /\ LET k == consumer[c]
       IN  /\ Sync(group, k.id, k.gen)
           /\ \E next \in {"head"} \cup (IF k.rest = {} THEN {} ELSE {"leave"}) :
              consumer' = [consumer EXCEPT ![c] =
                 IF Admits(group, k.id, k.gen)
                 THEN [k EXCEPT !.pc = next, !.view = assignment'[group][k.id],
                                !.rest = {}, !.tries = 0, !.beat = 0]
                 ELSE IF k.tries = MaxAttempts THEN Off
                 ELSE [k EXCEPT !.pc = "join"]]
    /\ UNCHANGED <<committed, logVars, histVars, passed>>

HeartbeatStep(c) ==
    /\ consumer[c].pc = "head" /\ consumer[c].beat = HeartbeatEvery
    /\ Heartbeat(group, consumer[c].id, consumer[c].gen)
    /\ consumer' = [consumer EXCEPT ![c] =
          IF Admits(group, @.id, @.gen)
          THEN [@ EXCEPT !.beat = 0]
          ELSE [@ EXCEPT !.pc = "join"]]
    /\ UNCHANGED <<committed, logVars, histVars, passed>>

\* Mutant: the committed offset is taken for that of the last record read.
FetchOffsetAfter(p) ==
    IF committed[p] = NoOffset THEN earliest[p]
    ELSE IF committed[p] < end[p] THEN committed[p] + 1 ELSE committed[p]

\* The offset a fetch from "committed" resolves to.
FetchOffset(p) == IF committed[p] = NoOffset THEN earliest[p] ELSE committed[p]

\* The state after the partition at the front of the loop is done with.  The
\* loop is followed by the test for idle_exit_ms.
NextPartition(k, idle) ==
    LET rest == k.rest \ {Min(k.rest)}
    IN  [k EXCEPT !.rest = rest,
                  !.pc = IF rest # {} THEN "fetch" ELSE IF idle THEN "leave" ELSE "head"]

\* The for loop goes over the assignment, once no heartbeat is due.
MayFetch(k) ==
    /\ k.pc \in {"head", "fetch"}
    /\ k.pc = "head" => k.beat < HeartbeatEvery /\ k.view # {}

\* Fetches from the committed offset and processes some or all of the records;
\* an offset below the earliest is an error response, which ends the consumer.
FetchStep(c) ==
    /\ MayFetch(consumer[c])
    /\ LET k == IF consumer[c].pc = "head"
                THEN [consumer[c] EXCEPT !.rest = consumer[c].view] ELSE consumer[c]
           p == Min(k.rest)
           from == FetchOffset(p)
       IN  \/ /\ from < earliest[p]
              /\ consumer' = [consumer EXCEPT ![c] = Off]
              /\ UNCHANGED passed
           \/ /\ from = end[p]
              /\ \E idle \in BOOLEAN :
                    consumer' = [consumer EXCEPT ![c] = NextPartition(k, idle)]
              /\ UNCHANGED passed
           \/ \E n \in from + 1 .. end[p] :
              /\ from >= earliest[p]
              /\ consumer' = [consumer EXCEPT ![c] =
                                 [k EXCEPT !.pc = "commit", !.pos = n]]
              /\ passed' = [passed EXCEPT ![p] = @ \cup (from .. n - 1)]
    /\ UNCHANGED <<coordVars, committed, logVars, histVars>>

\* commit_group_offset: the range check comes before the coordinator's.
CommitHandler(k) ==
    LET p == Min(k.rest)
    IN  IF k.pos < earliest[p]
        THEN UNCHANGED <<coordVars, committed>>
        ELSE /\ ValidateCommit(group, k.id, k.gen, p)
             /\ committed' = IF MayCommit(group, k.id, k.gen, p)
                             THEN [committed EXCEPT ![p] = k.pos] ELSE committed

\* The consumer goes on with the loop or, once it has seen max_records (last),
\* leaves; a stale member rejoins, any other error ends the consumer.
CommitStep(c, last) ==
    /\ consumer[c].pc = "commit"
    /\ CommitHandler(consumer[c])
    /\ consumer' = [consumer EXCEPT ![c] =
          LET p == Min(@.rest)
              k == [@ EXCEPT !.pos = 0]
          IN  IF @.pos < earliest[p] THEN Off
              ELSE IF ~MayCommit(group, @.id, @.gen, p)
              THEN [k EXCEPT !.pc = "join"]
              ELSE IF last THEN [k EXCEPT !.pc = "leave", !.rest = {}]
              ELSE NextPartition(k, FALSE)]
    /\ UNCHANGED <<logVars, histVars, passed>>

\* idle_exit_ms is over for a consumer that no partition is assigned to.
IdleExit(c) ==
    /\ consumer[c].pc = "head"
    /\ consumer[c].beat < HeartbeatEvery
    /\ consumer[c].view = {}
    /\ consumer' = [consumer EXCEPT ![c].pc = "leave"]
    /\ UNCHANGED <<coordVars, committed, logVars, histVars, passed>>

LeaveStep(c) ==
    /\ consumer[c].pc = "leave"
    /\ Leave(group, consumer[c].id, consumer[c].gen)
    /\ consumer' = [consumer EXCEPT ![c] = Off]
    /\ UNCHANGED <<committed, logVars, histVars, passed>>

-----------------------------------------------------------------------------
(* Failures                                                                *)

Die(c) ==
    /\ Running(c)
    /\ consumer' = [consumer EXCEPT ![c] = Off]
    /\ UNCHANGED <<coordVars, committed, logVars, histVars, passed>>

\* The consumer dies or times out with its commit still under way.
Abandon(c) ==
    /\ consumer[c].pc = "commit"
    /\ consumer' = [consumer EXCEPT ![c].pc = "ghost"]
    /\ UNCHANGED <<coordVars, committed, logVars, histVars, passed>>

GhostCommit(c) ==
    /\ consumer[c].pc = "ghost"
    /\ CommitHandler(consumer[c])
    /\ consumer' = [consumer EXCEPT ![c] = Off]
    /\ UNCHANGED <<logVars, histVars, passed>>

\* The process starts again with an empty coordinator; requests under way are
\* lost, consumers between two requests do not notice.
Restart ==
    /\ epoch < MaxRestarts
    /\ epoch' = epoch + 1
    /\ members' = [g \in Group |-> {}]
    /\ timeout' = [g \in Group |-> [m \in Member |-> 0]]
    /\ age' = [g \in Group |-> [m \in Member |-> 0]]
    /\ assignment' = [g \in Group |-> [m \in Member |-> {}]]
    /\ count' = [g \in Group |-> 0]
    /\ generation' = [g \in Group |-> 0]
    /\ known' = {}
    /\ nextId' = 1
    /\ consumer' = [c \in Consumer |-> IF consumer[c].pc = "ghost" THEN Off
                                       ELSE consumer[c]]
    /\ UNCHANGED <<topicVars, committed, logVars, starts, stalls, passed>>

-----------------------------------------------------------------------------
(* The rest of the broker                                                  *)

Produce(p) ==
    /\ end[p] < MaxOffset
    /\ end' = [end EXCEPT ![p] = @ + 1]
    /\ UNCHANGED <<coordVars, consumer, committed, earliest, histVars, passed>>

Trim(p) ==
    /\ earliest[p] + 1 < end[p]
    /\ earliest' = [earliest EXCEPT ![p] = @ + 1]
    /\ UNCHANGED <<coordVars, consumer, committed, end, histVars, passed>>

\* reset_group_offset, and the legacy commit_offset: only for a group without
\* active members.
AdminCommit(p, o) ==
    /\ IF group \in known THEN Expire(group) ELSE UNCHANGED coordVars
    /\ o \in earliest[p] .. end[p]
    /\ IF Unexpired(group) = {}
       THEN /\ committed' = [committed EXCEPT ![p] = o]
            /\ passed' = [passed EXCEPT ![p] = @ \cup (0 .. o - 1)]
       ELSE UNCHANGED <<committed, passed>>
    /\ UNCHANGED <<consumer, logVars, histVars>>

\* The session of a running consumer would run out.
Late ==
    \E c \in Consumer :
        LET m == consumer[c].id
        IN  Running(c) /\ m \in members[group] /\ age[group][m] + 1 = timeout[group][m]

ClockTick ==
    /\ Tick
    /\ Late => stalls < MaxStalls
    /\ stalls' = IF Late THEN stalls + 1 ELSE stalls
    /\ consumer' = [c \in Consumer |->
          IF Running(c) /\ consumer[c].beat < HeartbeatEvery
          THEN [consumer[c] EXCEPT !.beat = @ + 1] ELSE consumer[c]]
    /\ UNCHANGED <<committed, logVars, starts, epoch, passed>>

-----------------------------------------------------------------------------
\* What a consumer does as long as it runs.
ConsumerStep(c) ==
    \/ JoinStep(c) \/ SyncStep(c) \/ HeartbeatStep(c)
    \/ FetchStep(c)
    \/ \E last \in BOOLEAN : CommitStep(c, last)
    \/ LeaveStep(c)

Next ==
    \/ \E c \in Consumer :
          \/ ConsumerStep(c)
          \/ Start(c) \/ IdleExit(c)
          \/ Die(c) \/ Abandon(c) \/ GhostCommit(c)
    \/ \E p \in Partition : \/ Produce(p) \/ Trim(p)
                            \/ \E o \in 0 .. MaxOffset : AdminCommit(p, o)
    \/ ClockTick

\* A running consumer goes on, and the clock does.
Fairness ==
    /\ \A c \in Consumer : WF_vars(ConsumerStep(c))
    /\ WF_vars(ClockTick)

Spec == Init /\ [][Next]_vars /\ Fairness

\* The broker may also be restarted.
RestartSpec == Init /\ [][Next \/ Restart]_vars

-----------------------------------------------------------------------------
(* Properties                                                              *)

\* The coordinator would accept a commit from consumer c for partition p now.
Accepted(c, p) ==
    /\ consumer[c].pc \in {"fetch", "commit", "ghost"}
    /\ p \in consumer[c].rest
    /\ MayCommit(group, consumer[c].id, consumer[c].gen, p)

\* Two consumers are never both able to commit for a partition, also when one
\* of them is dead and only its last commit is still under way.
OneCommitter ==
    \A c, d \in Consumer : c # d => ~\E p \in Partition : Accepted(c, p) /\ Accepted(d, p)

\* A consumer the coordinator still admits works on exactly the partitions that
\* the coordinator thinks it owns.
ViewsExact ==
    \A c \in Consumer :
        /\ consumer[c].pc \in {"head", "fetch", "commit", "ghost"}
        /\ Admits(group, consumer[c].id, consumer[c].gen)
        => consumer[c].view = assignment[group][consumer[c].id]

\* A committed offset only goes back by a reset of a group that has no active
\* member: no late or repeated commit undoes another consumer's progress.
CommitsAdvance ==
    [][\A p \in Partition :
          committed'[p] < committed[p] => Unexpired(group) = {}]_vars

\* Every record below the committed offset was processed by some consumer, or
\* had been trimmed, or was skipped by a reset.
NothingSkipped ==
    \A p \in Partition : \A o \in 0 .. committed[p] - 1 :
        o \in passed[p] \/ o < earliest[p]

\* No consumer can commit with a generation from before a broker restart.
NoStaleCommitter ==
    \A c \in Consumer, p \in Partition : Accepted(c, p) => consumer[c].run = epoch

\* Each partition is in the view of a running consumer that is up to date.
Settled ==
    \A p \in Partition : \E c \in Consumer :
        /\ consumer[c].pc \in {"head", "fetch", "commit"}
        /\ p \in consumer[c].view
        /\ Admits(group, consumer[c].id, consumer[c].gen)

\* If some consumer stays up, then the partitions of those that died or left
\* are taken over, for good once members stop coming and going.
TakeOver ==
    \A c \in Consumer : <>[]Running(c) => <>[]Settled

=============================================================================
