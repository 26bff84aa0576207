---------------------------- MODULE Replication ----------------------------
(***************************************************************************)
(* ReplicationSimulation: one static leader log, one static follower log,  *)
(* a client that appends to the leader and is answered at once             *)
(* (replication=leader) or when the follower has caught up                 *)
(* (replication=all), and a follower that copies the leader batch by       *)
(* batch, may be unavailable, and may be reopened.  The process may die    *)
(* between any two appends; both logs are then recovered from disk.        *)
(*                                                                         *)
(* A log is what CommitLog promises of a PartitionLog, plus what the index *)
(* says of the frame that holds each record.  An append writes one frame,  *)
(* and recovery drops an incomplete last frame, so it is one step here and *)
(* leaves no hole.                                                         *)
(***************************************************************************)
EXTENDS Integers

CONSTANTS
    Value,        \* keys and messages of a record
    InitialLogs,  \* what the two data directories may hold at first
    MaxOffset,    \* bound on next_offset of the leader
    MaxBatch      \* bound on the records of one produce

VARIABLES
    leader,     \* leader_: [lo, hi, index]
    follower,   \* follower_
    available,  \* follower_available_
    call,       \* the method running: produce(All) with its target, catch_up, or none
    answered,   \* history: next_offset of each produce(All) that returned
    thrown      \* history: the exceptions thrown so far

vars == <<leader, follower, available, call, answered, thrown>>

-----------------------------------------------------------------------------
(* The logs *)

\* An index entry: the record's value, its position in its batch, and the size
\* of that batch (0 for a record in a frame of its own).
Entry == [value : Value, record_index : Nat, record_count : Nat]

\* A log whose retention has left the offsets lo .. hi - 1.
IsLog(l) ==
    /\ l = [lo |-> l.lo, hi |-> l.hi, index |-> l.index]
    /\ l.lo \in Nat /\ l.hi \in Nat /\ l.lo <= l.hi
    /\ l.index \in [l.lo .. l.hi - 1 -> Entry]

\* A batch is in the log with all of its records or not at all.
WholeBatches(l) ==
    \A o \in l.lo .. l.hi - 1 :
        l.index[o].record_count > 0 =>
            /\ o - l.index[o].record_index >= l.lo
            /\ \A k \in 0 .. l.index[o].record_count - 1 :
                   LET p == o - l.index[o].record_index + k
                   IN  /\ p < l.hi
                       /\ l.index[p].record_index = k
                       /\ l.index[p].record_count = l.index[o].record_count

ASSUME ReplicationAssumption ==
    /\ \A l \in InitialLogs : IsLog(l) /\ WholeBatches(l)
    /\ MaxOffset \in Nat
    /\ MaxBatch \in Nat \ {0}

\* The follower holds nothing the leader does not, offset by offset.
Copies(f, l) ==
    /\ f.hi <= l.hi
    /\ \A o \in f.lo .. f.hi - 1 :
           o \in l.lo .. l.hi - 1 /\ f.index[o].value = l.index[o].value

Extended(l, n, entries) ==
    [lo    |-> l.lo,
     hi    |-> l.hi + n,
     index |-> [o \in l.lo .. l.hi + n - 1 |->
                   IF o < l.hi THEN l.index[o] ELSE entries[o - l.hi]]]

\* The values of a batch of n records are indexed from 0, as record_index is.
append_encoded_batch(l, n, values) ==
    Extended(l, n, [k \in 0 .. n - 1 |->
        [value |-> values[k], record_index |-> k, record_count |-> n]])

append_batch(l, v) ==
    Extended(l, 1, [k \in 0 .. 0 |->
        [value |-> v, record_index |-> 0, record_count |-> 0]])

\* A batch can be read encoded from its first record only.
HasEncodedBatch(l, o) ==
    /\ o \in l.lo .. l.hi - 1
    /\ l.index[o].record_index = 0
    /\ l.index[o].record_count > 0

-----------------------------------------------------------------------------
(* replicate_once: FALSE without a step when it returns false *)

CanReplicate == available /\ follower.hi # leader.hi

CopyBatch ==
    LET next == follower.hi
        n == leader.index[next].record_count
    IN  /\ HasEncodedBatch(leader, next)
        /\ follower' = append_encoded_batch(follower, n,
                           [k \in 0 .. n - 1 |-> leader.index[next + k].value])
        /\ UNCHANGED thrown

\* Mutant: the offset of the record that was read is not compared.
CopyRecordUnchecked ==
    LET next == follower.hi
        o == IF next < leader.lo THEN leader.lo ELSE next
    IN  /\ ~HasEncodedBatch(leader, next)
        /\ o \in leader.lo .. leader.hi - 1
        /\ follower' = append_batch(follower, leader.index[o].value)
        /\ UNCHANGED thrown

CopyRecord ==
    LET next == follower.hi
    IN  /\ ~HasEncodedBatch(leader, next)
        /\ next \in leader.lo .. leader.hi - 1
        /\ follower' = append_batch(follower, leader.index[next].value)
        /\ UNCHANGED thrown

\* The leader's retention has passed the follower, or the follower is ahead.
ReplicateThrows ==
    /\ follower.hi \notin leader.lo .. leader.hi - 1
    /\ thrown' = thrown \cup
           {IF follower.hi > leader.hi THEN "follower_ahead" ELSE "cannot_supply"}
    /\ UNCHANGED follower

ReplicateStep == CanReplicate /\ (CopyBatch \/ CopyRecord)

ReplicateFails == CanReplicate /\ ReplicateThrows

-----------------------------------------------------------------------------
(* The methods *)

None == [kind |-> "none", target |-> 0]
All(target) == [kind |-> "all", target |-> target]
CatchUp == [kind |-> "catch_up", target |-> 0]

ProduceLeader(n, values) ==
    /\ call = None
    /\ leader.hi + n <= MaxOffset
    /\ leader' = append_encoded_batch(leader, n, values)
    /\ UNCHANGED <<follower, available, call, answered, thrown>>

ProduceAll(n, values) ==
    /\ call = None
    /\ leader.hi + n <= MaxOffset
    /\ leader' = append_encoded_batch(leader, n, values)
    /\ call' = All(leader.hi + n)
    /\ UNCHANGED <<follower, available, answered, thrown>>

\* The body of the wait loop, while the deadline has not passed.
ProduceWaits ==
    /\ call.kind = "all" /\ follower.hi < call.target
    /\ ReplicateStep
    /\ UNCHANGED <<leader, available, call, answered>>

\* Mutant: the offset is not checked again after the wait loop.
ProduceReturnsLate ==
    /\ call.kind = "all"
    /\ answered' = answered \cup {call.target}
    /\ call' = None
    /\ UNCHANGED <<leader, follower, available, thrown>>

ProduceReturns ==
    /\ call.kind = "all" /\ follower.hi >= call.target
    /\ answered' = answered \cup {call.target}
    /\ call' = None
    /\ UNCHANGED <<leader, follower, available, thrown>>

\* Mutant: the deadline ends the loop only while the follower is available.
ProduceTimesOutAvailable ==
    /\ call.kind = "all" /\ follower.hi < call.target
    /\ available
    /\ thrown' = thrown \cup {"timeout"}
    /\ call' = None
    /\ UNCHANGED <<leader, follower, available, answered>>

ProduceTimesOut ==
    /\ call.kind = "all" /\ follower.hi < call.target
    /\ thrown' = thrown \cup {"timeout"}
    /\ call' = None
    /\ UNCHANGED <<leader, follower, available, answered>>

ProduceThrows ==
    /\ call.kind = "all" /\ follower.hi < call.target
    /\ ReplicateFails
    /\ call' = None
    /\ UNCHANGED <<leader, available, answered>>

ReplicateOnce ==
    /\ call = None
    /\ ReplicateStep \/ ReplicateFails
    /\ UNCHANGED <<leader, available, call, answered>>

CatchUpStarts ==
    /\ call = None
    /\ call' = CatchUp
    /\ UNCHANGED <<leader, follower, available, answered, thrown>>

CatchUpStep ==
    /\ call = CatchUp
    /\ ReplicateStep
    /\ UNCHANGED <<leader, available, call, answered>>

CatchUpEnds ==
    /\ call = CatchUp
    /\ \/ ~CanReplicate /\ UNCHANGED <<follower, thrown>>
       \/ ReplicateFails
    /\ call' = None
    /\ UNCHANGED <<leader, available, answered>>

SetFollowerAvailable ==
    /\ call = None
    /\ available' = ~available
    /\ UNCHANGED <<leader, follower, call, answered, thrown>>

\* The process dies and a new simulation opens both directories.  Reopening
\* the follower alone reads the same directory, and changes nothing.
Restart ==
    /\ call' = None
    /\ available' = TRUE
    /\ thrown' = thrown \cup
           (IF follower.hi > leader.hi THEN {"follower_ahead"} ELSE {})
    /\ UNCHANGED <<leader, follower, answered>>

-----------------------------------------------------------------------------

\* The follower's directory is new, or holds an earlier copy of the leader's
\* records, cut into frames in any way.
Init ==
    /\ leader \in InitialLogs /\ follower \in InitialLogs
    /\ Copies(follower, leader)
    /\ available = TRUE
    /\ call = None
    /\ answered = {}
    /\ thrown = {}

Next ==
    \/ \E n \in 1 .. MaxBatch : \E values \in [0 .. n - 1 -> Value] :
           ProduceLeader(n, values) \/ ProduceAll(n, values)
    \/ ProduceWaits \/ ProduceReturns \/ ProduceTimesOut \/ ProduceThrows
    \/ ReplicateOnce
    \/ CatchUpStarts \/ CatchUpStep \/ CatchUpEnds
    \/ SetFollowerAvailable
    \/ Restart

\* A method that has been called runs: its loop is not preempted for ever, and
\* the deadline of a produce passes.
Fairness ==
    /\ WF_vars(ProduceReturns)
    /\ WF_vars(ProduceTimesOut)
    /\ WF_vars(CatchUpStep)
    /\ WF_vars(CatchUpEnds)

Spec == Init /\ [][Next]_vars

FairSpec == Spec /\ Fairness

-----------------------------------------------------------------------------
(* Properties *)

\* Whatever was produced, missed while the follower was away and copied later,
\* in whole batches or record by record, the follower's log is a copy of the
\* leader's up to its own next_offset: no offset invented or skipped, no
\* record changed, no batch applied in part (replicate_once).  The checks of
\* the constructor and of replicate_once never find the follower ahead,
\* whichever call a restart interrupted.
FollowerCopies ==
    /\ IsLog(follower)
    /\ WholeBatches(follower)
    /\ Copies(follower, leader)
    /\ "follower_ahead" \notin thrown

\* A produce with replication=all that returned is on the follower for good:
\* timeouts of later calls, an unavailable follower and restarts do not take
\* it back (produce, reopen_follower).
AllReplicated == \A n \in answered : n <= follower.hi /\ n <= leader.hi

\* A produce with replication=all and a catch_up come to an end, with the
\* follower away or its next record gone from the leader.
CallsReturn == (call # None) ~> (call = None)

=============================================================================
