# BoltStream in TLA+

A verification development for the BoltStream event-streaming broker: TLA+ modules translated from the
source, TLC configurations that model-check small instances of them, and TLAPS proofs of the most
important properties for every value of the constants. `PROJECT.json` is the index: components, runs,
the mutant that shows each property can fail, the source lines behind each definition, findings,
hazards and theorems. Paths below are relative to the repository (`src/` there is the source tree).

## The system and the modules

A client (AsyncClient) opens a connection to the broker; a BrokerProtocolSession reads one frame at a
time, decodes it, and calls BrokerRuntime. A produce becomes a job in the queue of its partition, a pool
of worker threads appends jobs in batches to the PartitionLog, applies retention and wakes the fetches
that wait for records. Committed offsets go to the OffsetStore; the GroupCoordinator decides who may
commit. Topics are created, deleted, and rebuilt from disk at start-up. Next to the broker,
ReplicationSimulation copies one PartitionLog to another.

| module | code | state and actions |
| --- | --- | --- |
| PartitionLog | storage/partition_log.cpp | segment files, records on disk, `index_`, `next_offset_`; an action per file-system step of an append (both record formats), of the roll-back of a failed one, of a retention pass, and of recovery; crashes and the clock in between |
| CommitLog | | what a log promises: records that never change, appends that fill the next offsets or leave some of their records when the process dies, retention that never takes the newest record |
| PartitionLogInv | | the inductive invariant `IInv` |
| OffsetStore | storage/offset_store.cpp | the groups' files line by line and the map in memory; commit, remove_topic with rewrite_group, recovery, failing calls, crashes |
| GroupCoordinator | broker/group_coordinator.cpp | members, sessions, generations, range assignment; join, sync, heartbeat, leave, validate_commit, expire, topic deletion |
| ConsumerGroup | tools/consumer_cli.cpp, server.cpp | run_coordinated_consumer, composed with GroupCoordinator, the broker's group handlers and the committed offsets |
| AppendQueue | broker/server.cpp | async_produce, produce_batch, append_worker_loop, run_append_batch, complete_append, the drain of delete_topic, stop_append_workers |
| LongPoll | broker/server.cpp | fetch_or_wait, register_long_poll, its callback and timer, notify_fetch_waiters, cancel_fetch_waiter |
| TopicLifecycle | broker/server.cpp | create_topic, delete_topic and its failing calls, requests that looked the topic up before, manifests, load_existing_topics directory by directory |
| Protocol | protocol/protocol.cpp, compression/compression.cpp | every payload's encoder and decoder, each translated on its own; record sets, codecs |
| Session | broker/server.cpp, client/async_client.cpp | BrokerProtocolSession and its nineteen handlers, the TCP stream, AsyncClient |
| Replication | replication/simulation.cpp | produce in both acknowledgement modes, replicate_once, catch_up, restarts |

The modules meet where the code does. ConsumerGroup extends GroupCoordinator; Session extends Protocol;
Replication takes a log to be what CommitLog promises, which PartitionLog is shown to implement, without
holes, because each of its appends writes one frame;
AppendQueue and LongPoll take an append to be one step under the log mutex, for the same reason;
TopicLifecycle takes an append, a commit and a join to be the calls that the other modules detail.

What a step is: what a thread does while it holds a mutex, what a handler does on its strand, or one
file-system call where a crash may come in between. Records are model values with sizes, file names are
base offsets, a name is one byte string of a small set, times are ticks. A partly written record or line
is a torn tail.

## Runs

Each `MC*.tla` names model values; the `.cfg` of the same name gives the bounds.

| run | checks | what it shows |
| --- | --- | --- |
| partition_log_crash | IndexDense, IndexReadable, AckedSurvives, HighWatermarkKept, FetchServed, ImplementsCommitLog | appends of both formats that roll, fail and are undone segment by segment, size retention with failing unlinks, crashes between any two of these steps and inside recovery: no duplicate, no acknowledged record lost, no hole but the one named below, and every step is a step of CommitLog or a stutter |
| partition_log_age | TrimsPrefix, RetentionDone, IInv | age rolls with age and size retention while the clock runs, inside a pass too: the oldest segments go first, a pass ends within its limits, the invariant of the proofs holds |
| offset_store | MemoryOnDisk, HealthyResumes | what is in memory is on disk, and a restart finds what was acknowledged for every group that no failing call has touched |
| group_coordinator | OwnersDisjoint, PartitionsCovered, CoordIInv, GenerationFences | two groups; every partition of a group with members has one owner, and membership changes only with the generation |
| consumer_group | OneCommitter, ViewsExact, NothingSkipped, CommitsAdvance, TakeOver | consumers that die, stall, commit late: one committer, no progress undone, nothing skipped, partitions taken over |
| consumer_group_restart | NoStaleCommitter (violated) | finding 1 |
| append_queue | OneAppender, OrderKept, StopDrains, NoWriteAfterRemoval, JobsAnswered | workers, failures, produce_batch past the queue, deletion, shutdown |
| long_poll | WaitersCounted, MissesOnlyLate, AnsweredOnce, FetchesAnswered | callbacks against timers; a fetch with records to return stays unanswered only if they came while it registered |
| topic_lifecycle | CreatedStays, DeletedGone, NoMemberOfDeleted | two requests at a time, a failing call, a crash between any two steps, of a start-up too, start-up from an empty or a single-partition data directory |
| topic_recreate | CreatedServed (violated) | finding 2 |
| replication | FollowerCopies, AllReplicated, CallsReturn | any pair of earlier logs, whole batches and single records, an absent follower, timeouts, restarts |
| session | AnsweredInKind, TokenFirst, ZstdOnlyIfAsked, PayloadsAgree, RequestsAnswered | all request types, good and broken, both protocol versions, pipelining, codec negotiation, the connection limit, oversized responses, cuts and closes |

Bounds. PartitionLog: up to four offsets with appends of two records of one or two bytes in segments of
two, so that one append rolls twice, a roll-back has several segments to undo, a batch alone exceeds a
segment and retention leaves several segments; three offsets where the clock runs. OffsetStore: two groups, two topics, one failing
call, files of two lines before a rewrite. GroupCoordinator: three members and one or four partitions, so
that there are more members than partitions and shares of unequal size. ConsumerGroup: two consumers on
one partition, two records, one session that runs out. AppendQueue: two workers and two partitions, three
jobs, a queue of two. LongPoll: three sessions for two waiter slots. TopicLifecycle: one name with two
incarnations of up to two partitions, one crash, one fault; the races are between requests for the same
name. Replication: four offsets, batches of two, four initial logs on either side. Session: the scripts
of MCSession (a request of each type, the sequences that matter for tokens, codecs and versions, and
pipelined pairs). Symmetry is used only in runs without liveness properties and on sets whose members are
only compared.

Deadlock is checked where the system always has a next step; it is off where a bound or a shutdown ends
every behaviour.

Fairness. Threads and strands run (AppendQueue, LongPoll, Session, and a consumer that has not died), and
clocks advance (timers, session timeouts, the deadline of a produce). Nothing forces a producer to
produce, a consumer to live, a follower to come back or a peer to close. In Session, fairness of the
session's reading of a frame is stated on the stage it changes, which is the same assumption in a form
that is cheap to evaluate.

## Proofs

TLAPS proves the following for every value of the constants that satisfies the named assumptions: the
capacities and limits are positive or natural numbers, and the sets that the code counts or lists are finite
(the sessions and waiter ids of LongPoll, the topics and partitions of OffsetStore). In each module one
inductive invariant carries the rest, with one lemma per action that keeps it; none of the properties is
inductive by itself.

- PartitionLog (PartitionLogAppendProofs for the operators and the appends; PartitionLogProofs for retention,
  crash, recovery and the results): `Spec => []IInv` and from it IndexDense, IndexReadable, AckedSurvives,
  HighWatermarkKept, TrimsPrefix, RecordsDisjoint, and that every acknowledgement is above all earlier ones.
  IInv adds the layout of the files (Layout), that no offset is passed over unless it was trimmed or lost
  (Accounted), that `index_` has the records on disk and stale entries only of segments that are gone
  (Indexed), what the staged records of an append or of its roll-back are (Staging), what the snapshot the
  roll-back uses says of the others, and which segments it has still to visit (Snapshot), that later segments
  were written later (Times, which makes age retention remove a prefix), how far a retention pass has come
  (Retaining), and that the newest record is never trimmed (History, from which recovery can compute
  `next_offset_`).
- PartitionLog implements CommitLog (PartitionLogProofs, last section). The records the log stands for are
  those on disk but for the ones of the append under way (Durable); by IInv they end at `next_offset_`. The
  publication of an append adds its records, which fill the offsets up to the new end, and acknowledges them.
  A crash inside an append, or inside its roll-back, adds what is left of it on disk, unacknowledged. The
  deletion of a segment, in a pass that ends or in one that throws, trims. Everything else keeps the records:
  the writes and the roll-back of an append touch only its own, and recovery finds what the crash left. That
  an append writes no more records than it was given is part of IInv.
- OffsetStore (OffsetStoreProofs): MemoryOnDisk and HealthyResumes, from StoreIInv. Of a group that no failing
  call or half-done rewrite has left in disorder, memory, the replay of its file and the answers agree
  (Settled), but for the operation in progress (HalfDone, or the files a removal has rewritten so far). What
  a replay finds after a line was added, a tail was cut or a file was rewritten are lemmas about Replay,
  which is the last line of a key: no recursion over the file is involved.
- GroupCoordinator (GroupCoordinatorProofs): the assignment of a group is always the one of its present
  members and partition count (CoordIInv); hence OwnersDisjoint and PartitionsCovered, by the arithmetic of
  recompute_assignment (the shares follow each other without gap or overlap and end at the partition count);
  and GenerationFences.
- ConsumerGroup (ConsumerGroupProofs). SafeIInv survives a restart of the broker: what lies below a committed
  offset, or below the offset of a commit under way, was processed, trimmed or reset past; hence
  NothingSkipped, with and without restarts. FenceIInv holds between restarts: member ids are not shared, and
  a consumer in the current generation has the view the coordinator gave it and a position that is not behind
  the committed offset; hence OneCommitter, ViewsExact and CommitsAdvance. Finding 1 shows why it needs the
  absence of a restart.
- AppendQueue (AppendQueueProofs): QueueIInv says that every accepted job is answered, pending, ready or in one
  worker's batch, and that log, batch and queue of a partition follow each other; hence OneAppender,
  OrderKept, StopDrains and NoWriteAfterRemoval.
- LongPoll (LongPollProofs): PollIInv ties every waiter that is not completed to the session that waits for it
  and back, and says that an append between a fetch and its registration is on record; hence WaitersCounted,
  MissesOnlyLate and AnsweredOnce. The cardinalities of FiniteSetTheorems carry the count of waiters.
- Replication (ReplicationProofs): RInv adds to FollowerCopies and AllReplicated that the leader's log holds
  whole batches; that is what makes a copied batch land where the leader has it.

Where a proof needs induction over the natural numbers (the least offset of a run, the last line of a key, the
shares of an assignment), it takes the least counterexample of a well-founded order.

Only model-checked:

- liveness (TakeOver, JobsAnswered, FetchesAnswered, CallsReturn, RequestsAnswered), which rests on fairness
  and ENABLED;
- PartitionLog's RetentionDone and FetchServed, which are about sums of sizes over sets of files and records:
  the sum is a fold, and what a fold computes takes induction over the set;
- TopicLifecycle (CreatedStays, DeletedGone, NoMemberOfDeleted), not proved so far;
- Session and Protocol (AnsweredInKind, TokenFirst, ZstdOnlyIfAsked, PayloadsAgree): Protocol uses recursive
  operators over nested lists, which the prover does not take. Its round trips are evaluated over sample
  values of every message, whose members differ from one another, but for Booleans and codecs.

## Findings

1. `next_member_id_` and the generations start over with the broker, so a consumer from before a restart
   holds the id and the generation of the first one after it, and its commits are accepted (PLAN.md:644
   says stale members cannot commit for an old generation).
2. delete_topic frees the name before it removes the files. A create_topic of that name in between is
   answered, and then its manifest and directories are removed (PLAN.md:668 says deletion is safe).

## Known limits of what is shown

- A commit whose write fails leaves part of a line in the group's file. HealthyResumes speaks of the groups
  that no failing call has touched; for the others the next line is lost at the next start.
- The roll-back of a failed append undoes its segments oldest first. A crash inside it leaves later records of
  that append on disk, and the next start takes them over with a hole below them: IndexDense names the offsets
  of the hole (the history variable `lost`), and TrimsPrefix speaks of logs without one, because the segment
  that was cut is older but has the later file time. Nothing acknowledged is affected (AckedSurvives,
  HighWatermarkKept, ImplementsCommitLog hold throughout).
- An unlink that fails ends a retention pass before it prunes `index_`. Until a later pass prunes them, or the
  log is opened again, the entries of the segments already deleted (`orphans`) point at missing files and a
  fetch that meets one fails. IndexReadable and FetchServed confine this to those segments.
- The clock moves inside a pass, which reads it per segment. A segment can come of age after it was passed by
  and before a later one is deleted; TrimsPrefix then says that it is due for the next pass.
- A crash inside delete_topic is not finished by the next start, and one whose remove_all or remove_topic
  fails is not finished at all. A crash inside write_topic_manifest, called by create_topic or by the migration
  of a topic without a manifest, leaves a broker that does not start (the model's state `refused`).
  CreatedStays and DeletedGone set aside a name whose deletion met a crash, a fault or a creation, and
  CreatedStays the topic whose migration met a crash.
- A produce whose append succeeded and whose retention pass failed is answered with an error, and no waiter is
  notified: MissesOnlyLate names these appends, and FetchesAnswered shows that the fetches end at their timers.
- RequestsAnswered is about requests made while the client reads. One made after a failed read, while the
  socket is still open, can wait for ever.

## Not modelled

- PartitionLog: the removals and cuts whose result the code ignores (in the catch blocks and in recovery) are
  assumed to succeed; a change of limits between two runs; the `.index` files (rewritten by every recovery and
  read by no broker code).
- AppendQueue: the inline mode of append_workers = 0, in which one thread runs each job at once.
- BrokerServer: the accept loops, of which only the connection limit is in Session; the HTTP admin endpoint;
  signals; the periodic retention timer, whose pass is PartitionLog's.
- BrokerRuntime's read-only requests (metadata, list, describe, metrics) copy state under the locks.
- AsyncClient: connecting again with the same object, which nothing in the repository does.
- Protocol: the CRC computation, which is a fault flag of a frame; zstd, which is external; what the allocator
  says to the `reserve` of a list that is longer than its payload (the decoder's error and the exception are
  one outcome, OverlongList).
- Recovery proof, configuration, options, metrics, logging, the other command-line tools, benchmarks, the
  Python client: no state that others depend on, or test and measurement code. The reasons are listed by
  component in `PROJECT.json`.

## Running

In this directory: `tlc -config X.cfg MCx` for a run, with `-workers` as there are cores; `tlapm M.tla` for
the proofs of a module.
