---------------------------- MODULE AppendQueue ----------------------------
(***************************************************************************)
(* The append queues of a topic (src/src/broker/server.cpp): produce       *)
(* requests become jobs that wait in the queue of their partition, a pool  *)
(* of worker threads carries them out in batches, one batch per partition  *)
(* at a time, produce_batch requests go past the queue, the deletion of    *)
(* the topic waits for the queues to drain, and shutdown lets the workers  *)
(* finish.                                                                 *)
(*                                                                         *)
(* A step is what a thread does while it holds a mutex.  A request that is *)
(* refused, because its queue is full or its topic is being deleted,       *)
(* changes nothing and is left out.  What an append does on disk is the    *)
(* subject of PartitionLog; here a log is the sequence of its jobs.  The   *)
(* configuration without workers, in which a single thread runs each job   *)
(* when it is requested, is left out.                                      *)
(***************************************************************************)
EXTENDS Integers, Sequences

CONSTANTS
    Worker,        \* append worker threads
    Partitions,    \* partition count of the topic
    QueueDepth,    \* max_append_queue_depth
    BatchRecords,  \* append_batch_records
    MaxJobs        \* bound: produce requests

ASSUME QueueAssumption ==
    /\ Worker # {}
    /\ {Partitions, BatchRecords} \subseteq Nat \ {0}
    /\ {QueueDepth, MaxJobs} \subseteq Nat

Partition == 0 .. Partitions - 1

\* A job is the number of its request; 0 stands for a record of a produce_batch.
Job == 1 .. MaxJobs

VARIABLES
    \* partitions
    log,        \* the job of each record
    pending,    \* pending_appends
    appending,  \* append_active
    \* workers
    ready,      \* ready_appends_: partition and job
    worker,     \* what each worker is doing
    stopping,   \* append_stopping_
    \* the topic and its deletion
    topic,      \* "open", "deleting", "removed"
    drained,    \* partitions the drain loop has found idle
    \* requests
    jobs,       \* the number of jobs accepted
    answer      \* the result posted for each job

queueVars == <<pending, appending, ready>>
topicVars == <<topic, drained>>
vars == <<log, queueVars, worker, stopping, topicVars, jobs, answer>>

-----------------------------------------------------------------------------
Rested == [at |-> "idle", part |-> 0, batch |-> <<>>, base |-> 0]

NoAnswer == [is |-> "none", part |-> 0, offset |-> 0]

Init ==
    /\ log = [p \in Partition |-> <<>>]
    /\ pending = [p \in Partition |-> <<>>]
    /\ appending = [p \in Partition |-> FALSE]
    /\ ready = <<>>
    /\ worker = [w \in Worker |-> Rested]
    /\ stopping = FALSE
    /\ topic = "open" /\ drained = {}
    /\ jobs = 0
    /\ answer = [j \in Job |-> NoAnswer]

-----------------------------------------------------------------------------
(* Requests                                                                *)

\* What try_enqueue_append holds against the limit.
Depth(p) == Len(pending[p]) + (IF appending[p] THEN 1 ELSE 0)

\* Mutant: the job goes to the workers at once, whatever the partition is doing.
ProduceUnqueued(p) ==
    /\ topic = "open" /\ ~stopping
    /\ Depth(p) < QueueDepth
    /\ jobs < MaxJobs
    /\ jobs' = jobs + 1
    /\ appending' = [appending EXCEPT ![p] = TRUE]
    /\ ready' = Append(ready, [part |-> p, job |-> jobs'])
    /\ UNCHANGED <<log, pending, worker, stopping, topicVars, answer>>

\* async_produce to the partition that the key's hash or the round-robin counter
\* gives: queues the job, or hands it to the workers when the partition has no
\* append under way.
Produce(p) ==
    /\ topic = "open" /\ ~stopping
    /\ Depth(p) < QueueDepth
    /\ jobs < MaxJobs
    /\ jobs' = jobs + 1
    /\ IF appending[p]
       THEN /\ pending' = [pending EXCEPT ![p] = Append(@, jobs')]
            /\ UNCHANGED <<appending, ready>>
       ELSE /\ appending' = [appending EXCEPT ![p] = TRUE]
            /\ ready' = Append(ready, [part |-> p, job |-> jobs'])
            /\ UNCHANGED pending
    /\ UNCHANGED <<log, worker, stopping, topicVars, answer>>

\* produce_batch appends at once, under the topic's mutex and the log's.
ProduceBatch(p) ==
    /\ topic = "open" /\ ~stopping
    /\ jobs < MaxJobs
    /\ jobs' = jobs + 1
    /\ log' = [log EXCEPT ![p] = Append(@, 0)]
    /\ answer' = [answer EXCEPT ![jobs'] = [is |-> "ok", part |-> p, offset |-> Len(log[p])]]
    /\ UNCHANGED <<queueVars, worker, stopping, topicVars>>

-----------------------------------------------------------------------------
(* Append workers                                                          *)

\* append_worker_loop takes the next partition and its job from ready_appends_.
Take(w) ==
    /\ worker[w].at = "idle" /\ ready # <<>>
    /\ worker' = [worker EXCEPT ![w].at = "taken", ![w].part = Head(ready).part,
                                ![w].batch = <<Head(ready).job>>]
    /\ ready' = Tail(ready)
    /\ UNCHANGED <<log, pending, appending, stopping, topicVars, jobs, answer>>

\* ... fills the batch up from the jobs that are pending for the partition.
Gather(w) ==
    LET p == worker[w].part
        n == IF Len(pending[p]) < BatchRecords THEN Len(pending[p]) ELSE BatchRecords - 1
    IN
    /\ worker[w].at = "taken"
    /\ worker' = [worker EXCEPT ![w].at = "gathered",
                                ![w].batch = @ \o SubSeq(pending[p], 1, n)]
    /\ pending' = [pending EXCEPT ![p] = SubSeq(@, n + 1, Len(@))]
    /\ UNCHANGED <<log, appending, ready, stopping, topicVars, jobs, answer>>

\* run_append_batch, under the log's mutex.
AppendBatch(w) ==
    LET p == worker[w].part IN
    /\ worker[w].at = "gathered"
    /\ log' = [log EXCEPT ![p] = @ \o worker[w].batch]
    /\ worker' = [worker EXCEPT ![w].at = "written", ![w].base = Len(log[p])]
    /\ UNCHANGED <<queueVars, stopping, topicVars, jobs, answer>>

\* ... when append_batch fails, which leaves the log as it was, or when the retention
\* pass behind it fails (late), which does not: all jobs of the batch fail.
AppendFails(w, late) ==
    LET p == worker[w].part IN
    /\ worker[w].at = "gathered"
    /\ log' = IF late THEN [log EXCEPT ![p] = @ \o worker[w].batch] ELSE log
    /\ worker' = [worker EXCEPT ![w].at = "failed"]
    /\ UNCHANGED <<queueVars, stopping, topicVars, jobs, answer>>

\* The completion of every job of the batch is posted to its session.
PostResults(w) ==
    LET b == worker[w].batch IN
    /\ worker[w].at \in {"written", "failed"}
    /\ answer' = [j \in Job |->
           IF \A k \in DOMAIN b : b[k] # j THEN answer[j]
           ELSE [is |-> IF worker[w].at = "written" THEN "ok" ELSE "error", part |-> worker[w].part,
                 offset |-> worker[w].base + (CHOOSE k \in DOMAIN b : b[k] = j) - 1]]
    /\ worker' = [worker EXCEPT ![w].at = "posted"]
    /\ UNCHANGED <<log, queueVars, stopping, topicVars, jobs>>

\* Mutant: the partition is marked inactive in any case.
CompleteAppendInactive(w) ==
    LET p == worker[w].part IN
    /\ worker[w].at = "posted"
    /\ worker' = [worker EXCEPT ![w] = Rested]
    /\ appending' = [appending EXCEPT ![p] = FALSE]
    /\ IF pending[p] # <<>>
       THEN /\ ready' = Append(ready, [part |-> p, job |-> Head(pending[p])])
            /\ pending' = [pending EXCEPT ![p] = Tail(@)]
       ELSE UNCHANGED <<ready, pending>>
    /\ UNCHANGED <<log, stopping, topicVars, jobs, answer>>

\* Mutant: jobs that came in meanwhile are left pending.
CompleteAppendLast(w) ==
    LET p == worker[w].part IN
    /\ worker[w].at = "posted"
    /\ worker' = [worker EXCEPT ![w] = Rested]
    /\ appending' = [appending EXCEPT ![p] = FALSE]
    /\ UNCHANGED <<log, ready, pending, stopping, topicVars, jobs, answer>>

\* complete_append hands the partition's next job to the workers, or marks the
\* partition inactive.
CompleteAppend(w) ==
    LET p == worker[w].part IN
    /\ worker[w].at = "posted"
    /\ worker' = [worker EXCEPT ![w] = Rested]
    /\ IF pending[p] # <<>>
       THEN /\ ready' = Append(ready, [part |-> p, job |-> Head(pending[p])])
            /\ pending' = [pending EXCEPT ![p] = Tail(@)]
            /\ UNCHANGED appending
       ELSE /\ appending' = [appending EXCEPT ![p] = FALSE]
            /\ UNCHANGED <<ready, pending>>
    /\ UNCHANGED <<log, stopping, topicVars, jobs, answer>>

-----------------------------------------------------------------------------
(* Topic deletion and shutdown                                             *)

\* delete_topic marks the topic under its mutex, so that no request gets in.
Delete ==
    /\ topic = "open" /\ ~stopping
    /\ topic' = "deleting"
    /\ UNCHANGED <<log, queueVars, worker, stopping, drained, jobs, answer>>

\* Mutant: an append that is under way is not waited for.
DrainCheckPending(p) ==
    /\ topic = "deleting" /\ drained = 0 .. p - 1
    /\ drained' = IF pending[p] # <<>> THEN {} ELSE drained \cup {p}
    /\ UNCHANGED <<log, queueVars, worker, stopping, topic, jobs, answer>>

\* wait_for_topic_appends_to_drain looks at one partition after the other, and
\* starts over when one has appends left.
DrainCheck(p) ==
    /\ topic = "deleting" /\ drained = 0 .. p - 1
    /\ drained' = IF appending[p] \/ pending[p] # <<>> THEN {} ELSE drained \cup {p}
    /\ UNCHANGED <<log, queueVars, worker, stopping, topic, jobs, answer>>

\* The drain loop returns, and the topic's directory is removed.
RemoveDirectory ==
    /\ topic = "deleting" /\ drained = Partition
    /\ topic' = "removed"
    /\ UNCHANGED <<log, queueVars, worker, stopping, drained, jobs, answer>>

\* BrokerServer::stop, after which no more requests are handled, and then
\* stop_append_workers.
Stop ==
    /\ ~stopping
    /\ stopping' = TRUE
    /\ UNCHANGED <<log, queueVars, worker, topicVars, jobs, answer>>

\* Mutant: a worker returns though jobs are ready.
ExitAtOnce(w) ==
    /\ worker[w].at = "idle" /\ stopping
    /\ worker' = [worker EXCEPT ![w].at = "exited"]
    /\ UNCHANGED <<log, queueVars, stopping, topicVars, jobs, answer>>

\* A worker returns when nothing is ready.
Exit(w) ==
    /\ worker[w].at = "idle" /\ stopping /\ ready = <<>>
    /\ worker' = [worker EXCEPT ![w].at = "exited"]
    /\ UNCHANGED <<log, queueVars, stopping, topicVars, jobs, answer>>

-----------------------------------------------------------------------------
WorkerStep(w) ==
    \/ Take(w)
    \/ Gather(w)
    \/ AppendBatch(w)
    \/ \E late \in BOOLEAN : AppendFails(w, late)
    \/ PostResults(w)
    \/ CompleteAppend(w)
    \/ Exit(w)

DeleteStep ==
    \/ \E p \in Partition : DrainCheck(p)
    \/ RemoveDirectory

Next ==
    \/ \E p \in Partition : Produce(p) \/ ProduceBatch(p)
    \/ \E w \in Worker : WorkerStep(w)
    \/ Delete
    \/ DeleteStep
    \/ Stop

\* Worker threads run, and so does the thread that polls for the drained queues.
Fairness == (\A w \in Worker : WF_vars(WorkerStep(w))) /\ WF_vars(DeleteStep)

Spec == Init /\ [][Next]_vars /\ Fairness

-----------------------------------------------------------------------------
(* Properties                                                              *)

ReadyAppend == [part : Partition, job : Job]

WorkerState == [at : {"idle", "taken", "gathered", "written", "failed", "posted", "exited"},
                part : Partition, batch : Seq(Job), base : Nat]

QueueTypeOK ==
    /\ log \in [Partition -> Seq(Job \cup {0})]
    /\ pending \in [Partition -> Seq(Job)]
    /\ appending \in [Partition -> BOOLEAN]
    /\ ready \in Seq(ReadyAppend)
    /\ worker \in [Worker -> WorkerState]
    /\ stopping \in BOOLEAN
    /\ topic \in {"open", "deleting", "removed"} /\ drained \subseteq Partition
    /\ jobs \in 0 .. MaxJobs
    /\ answer \in [Job -> [is : {"none", "ok", "error"}, part : Partition, offset : Nat]]

\* Worker w has partition p in hand.
Has(w, p) == worker[w].at \notin {"idle", "exited"} /\ worker[w].part = p

\* The append_active flag lends a partition to one worker at a time: there is one
\* entry in ready_appends_ or one worker for it while the flag is set, and none,
\* and no pending job, while it is not.
OneAppender ==
    /\ \A k, l \in DOMAIN ready : ready[k].part = ready[l].part => k = l
    /\ \A w \in Worker, k \in DOMAIN ready : ~Has(w, ready[k].part)
    /\ \A v, w \in Worker, p \in Partition : Has(v, p) /\ Has(w, p) => v = w
    /\ \A p \in Partition :
          /\ appending[p] <=> \/ \E k \in DOMAIN ready : ready[k].part = p
                              \/ \E w \in Worker : Has(w, p)
          /\ pending[p] # <<>> => appending[p]

\* The jobs among the records, leaving out those of a produce_batch, ascend.
Ascending(s) == \A i, j \in DOMAIN s : i < j /\ s[i] # 0 /\ s[j] # 0 => s[i] < s[j]

\* Records are in the log in the order in which their requests were accepted, each
\* once, whichever workers wrote them; and the offset in a producer's answer is
\* that of the record.
OrderKept ==
    /\ \A p \in Partition : Ascending(log[p])
    /\ \A j \in Job : answer[j].is = "ok" =>
          /\ answer[j].offset < Len(log[answer[j].part])
          /\ log[answer[j].part][answer[j].offset + 1] \in {0, j}

\* Nothing is appended to a topic whose directory is removed: the drain loop, which
\* holds no lock between its looks at the partitions, does not return too early.
NoWriteAfterRemoval == [][topic = "removed" => log' = log]_vars

\* When all workers have returned, every job that was accepted is answered.
StopDrains ==
    (\A w \in Worker : worker[w].at = "exited")
        => \A j \in 1 .. jobs : answer[j].is # "none"

\* Every job that is accepted is answered, and a deletion comes to its end.
JobsAnswered ==
    /\ \A j \in Job : j <= jobs ~> answer[j].is # "none"
    /\ topic = "deleting" ~> topic = "removed"

-----------------------------------------------------------------------------
(* The inductive invariant of AppendQueueProofs                            *)

\* Every job is answered, or pending, ready or in a worker's batch.
Tracked(j) ==
    \/ answer[j].is # "none"
    \/ \E p \in Partition : \E k \in DOMAIN pending[p] : pending[p][k] = j
    \/ \E k \in DOMAIN ready : ready[k].job = j
    \/ \E w \in Worker : /\ worker[w].at \in {"taken", "gathered", "written", "failed"}
                         /\ \E k \in DOMAIN worker[w].batch : worker[w].batch[k] = j

JobsTracked == \A j \in 1 .. jobs : Tracked(j)

\* The jobs of a partition in their order: those in the log, then the ones in hand,
\* then the pending ones.
PendingLast ==
    \A p \in Partition :
       /\ Ascending(pending[p])
       /\ \A k \in DOMAIN pending[p] :
             /\ pending[p][k] <= jobs
             /\ \A i \in DOMAIN log[p] : log[p][i] < pending[p][k]

Between(j, p) ==
    /\ j <= jobs
    /\ \A i \in DOMAIN log[p] : log[p][i] < j
    /\ \A i \in DOMAIN pending[p] : j < pending[p][i]

ReadyBetween == \A k \in DOMAIN ready : Between(ready[k].job, ready[k].part)

BatchBetween ==
    \A w \in Worker : worker[w].at \in {"taken", "gathered"} =>
       /\ Ascending(worker[w].batch)
       /\ \A k \in DOMAIN worker[w].batch : Between(worker[w].batch[k], worker[w].part)

LogBelow == \A p \in Partition : \A i \in DOMAIN log[p] : log[p][i] <= jobs

\* A batch that is written is in the log, from its base offset on.
WrittenThere ==
    \A w \in Worker : worker[w].at = "written" =>
       /\ worker[w].base + Len(worker[w].batch) <= Len(log[worker[w].part])
       /\ \A k \in DOMAIN worker[w].batch :
             log[worker[w].part][worker[w].base + k] = worker[w].batch[k]

DrainedIdle ==
    /\ topic = "open" => drained = {}
    /\ topic = "removed" => drained = Partition
    /\ \A p \in drained : ~appending[p]

ExitsLast ==
    /\ \A w \in Worker : worker[w].at = "exited" => stopping
    /\ (\A w \in Worker : worker[w].at = "exited") => ready = <<>>

QueueIInv ==
    /\ QueueTypeOK /\ OneAppender /\ OrderKept
    /\ JobsTracked
    /\ PendingLast /\ ReadyBetween /\ BatchBetween /\ LogBelow
    /\ WrittenThere
    /\ DrainedIdle
    /\ ExitsLast

=============================================================================
