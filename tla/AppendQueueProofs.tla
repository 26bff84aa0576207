------------------------- MODULE AppendQueueProofs -------------------------
(***************************************************************************)
(* Proofs that the invariants of AppendQueue hold for any numbers of       *)
(* workers, partitions and jobs and any queue depth and batch size: facts  *)
(* about its sequences, the steps of requests, deletion, shutdown and      *)
(* workers, and the theorems.                                              *)
(***************************************************************************)
EXTENDS AppendQueue, TLAPS

-----------------------------------------------------------------------------
(* Sequences                                                               *)

\* The elements of a sequence and of one more element.
LEMMA AppendOne ==
    ASSUME NEW S, NEW s \in Seq(S), NEW e \in S
    PROVE  /\ Append(s, e) \in Seq(S)
           /\ DOMAIN Append(s, e) = 1 .. Len(s) + 1
           /\ \A i \in DOMAIN s : Append(s, e)[i] = s[i]
           /\ Append(s, e)[Len(s) + 1] = e
           /\ Len(Append(s, e)) = Len(s) + 1
           /\ DOMAIN s = 1 .. Len(s)
           /\ Len(s) \in Nat
    OBVIOUS

\* The elements of two sequences put together.
LEMMA Together ==
    ASSUME NEW S, NEW s \in Seq(S), NEW t \in Seq(S)
    PROVE  /\ s \o t \in Seq(S)
           /\ DOMAIN (s \o t) = 1 .. Len(s) + Len(t)
           /\ Len(s \o t) = Len(s) + Len(t)
           /\ \A i \in DOMAIN s : (s \o t)[i] = s[i]
           /\ \A i \in DOMAIN t : (s \o t)[Len(s) + i] = t[i]
           /\ DOMAIN s = 1 .. Len(s) /\ DOMAIN t = 1 .. Len(t)
           /\ Len(s) \in Nat /\ Len(t) \in Nat
    OBVIOUS

\* The elements of a sequence without its first n.
LEMMA Dropped ==
    ASSUME NEW S, NEW s \in Seq(S), NEW n \in 0 .. Len(s)
    PROVE  /\ SubSeq(s, n + 1, Len(s)) \in Seq(S)
           /\ DOMAIN SubSeq(s, n + 1, Len(s)) = 1 .. Len(s) - n
           /\ \A i \in 1 .. Len(s) - n : SubSeq(s, n + 1, Len(s))[i] = s[n + i]
           /\ SubSeq(s, 1, n) \in Seq(S)
           /\ DOMAIN SubSeq(s, 1, n) = 1 .. n /\ Len(SubSeq(s, 1, n)) = n
           /\ \A i \in 1 .. n : SubSeq(s, 1, n)[i] = s[i]
           /\ DOMAIN s = 1 .. Len(s) /\ Len(s) \in Nat
    OBVIOUS

\* The elements of a sequence without its first.
LEMMA Rest ==
    ASSUME NEW S, NEW s \in Seq(S), s # <<>>
    PROVE  /\ Tail(s) \in Seq(S)
           /\ Head(s) \in S /\ Head(s) = s[1]
           /\ DOMAIN Tail(s) = 1 .. Len(s) - 1
           /\ \A i \in 1 .. Len(s) - 1 : Tail(s)[i] = s[i + 1]
           /\ DOMAIN s = 1 .. Len(s) /\ Len(s) \in Nat \ {0}
    OBVIOUS

\* Jobs have moved from the front of a queue q to the end of a batch b, which gives a
\* batch c and leaves a queue d: no job is lost, and the order is kept.
Moves(b, q, c, d) ==
    /\ c \in Seq(Job) /\ d \in Seq(Job)
    /\ \A k \in DOMAIN b : k \in DOMAIN c /\ c[k] = b[k]
    /\ \A l \in DOMAIN q : \/ \E k \in DOMAIN c : c[k] = q[l]
                           \/ \E k \in DOMAIN d : d[k] = q[l]
    /\ \A k \in DOMAIN d : \E l \in DOMAIN q : d[k] = q[l]
    /\ \A k \in DOMAIN c : k \in DOMAIN b \/ \E l \in DOMAIN q : c[k] = q[l]
    /\ Ascending(q) => Ascending(d)
    /\ Ascending(b) /\ Ascending(q) /\ (\A k \in DOMAIN b, l \in DOMAIN q : b[k] < q[l])
          => Ascending(c) /\ \A k \in DOMAIN c, l \in DOMAIN d : c[k] < d[l]

\* What a worker does with the first n jobs of the queue.
LEMMA Moved ==
    ASSUME NEW b \in Seq(Job), NEW q \in Seq(Job), NEW n \in 0 .. Len(q),
           NEW c, c = b \o SubSeq(q, 1, n), NEW d, d = SubSeq(q, n + 1, Len(q))
    PROVE  Moves(b, q, c, d)
<1> DEFINE f == SubSeq(q, 1, n)
<1>1. /\ d \in Seq(Job) /\ DOMAIN d = 1 .. Len(q) - n
      /\ \A i \in DOMAIN d : d[i] = q[n + i]
      /\ f \in Seq(Job) /\ Len(f) = n /\ DOMAIN f = 1 .. n
      /\ \A i \in DOMAIN f : f[i] = q[i]
      /\ DOMAIN q = 1 .. Len(q) /\ Len(q) \in Nat
    BY Dropped, SMTT(60)
<1> HIDE DEF f
<1>2. c = b \o f
    BY Zenon DEF f
<1>3. /\ c \in Seq(Job) /\ DOMAIN c = 1 .. Len(b) + n
      /\ \A i \in DOMAIN b : c[i] = b[i]
      /\ \A i \in DOMAIN f : c[Len(b) + i] = f[i]
      /\ DOMAIN b = 1 .. Len(b) /\ Len(b) \in Nat
    BY <1>1, <1>2, Together, SMTT(60)
<1>4. n \in Nat /\ n <= Len(q)
    BY <1>1
<1>5. \A k \in DOMAIN d : /\ k \in Nat \ {0} /\ n + k \in DOMAIN q /\ d[k] = q[n + k]
    BY <1>1, <1>4, SMTT(60)
<1>6. \A k \in DOMAIN c : k \notin DOMAIN b =>
         /\ k - Len(b) \in DOMAIN f /\ k - Len(b) \in DOMAIN q
         /\ k - Len(b) <= n
         /\ c[k] = q[k - Len(b)]
  <2>1. \A k \in DOMAIN c : k \notin DOMAIN b => k - Len(b) \in 1 .. n
      BY <1>1, <1>3, <1>4
  <2>2. \A i \in DOMAIN f : i \in DOMAIN q /\ i \in Int /\ i <= n
      BY <1>1, <1>4
  <2>3. \A k \in DOMAIN c : Len(b) + (k - Len(b)) = k
      BY <1>3, <1>4
  <2>4. ASSUME NEW k \in DOMAIN c, k \notin DOMAIN b
        PROVE  c[k] = f[k - Len(b)]
      BY <1>1, <1>3, <2>1, <2>3, <2>4, Zenon
  <2> QED
      BY <1>1, <2>1, <2>2, <2>4, Zenon
<1>7. \A k \in DOMAIN b : k \in DOMAIN c /\ c[k] = b[k]
    BY <1>3, <1>4
<1>8. ASSUME NEW l \in DOMAIN q
      PROVE  (\E k \in DOMAIN c : c[k] = q[l]) \/ \E k \in DOMAIN d : d[k] = q[l]
  <2>1. CASE l <= n
    <3>1. l \in DOMAIN f /\ Len(b) + l \in DOMAIN c
        BY <1>1, <1>3, <1>4, <2>1
    <3> QED
        BY <1>1, <1>3, <3>1, ZenonT(60)
  <2>2. CASE l > n
    <3>1. l - n \in DOMAIN d /\ n + (l - n) = l
        BY <1>1, <1>4, <2>2
    <3> QED
        BY <1>1, <3>1, ZenonT(60)
  <2> QED
      BY <1>1, <1>4, <2>1, <2>2, SMTT(60)
<1>9. ASSUME Ascending(q) PROVE Ascending(d)
  <2>1. \A i, k \in DOMAIN d : i < k => n + i < n + k
      BY <1>1, <1>4
  <2> QED
      BY <1>5, <1>9, <2>1, Zenon DEF Ascending
<1>10. ASSUME Ascending(b), Ascending(q), \A k \in DOMAIN b, l \in DOMAIN q : b[k] < q[l]
       PROVE  Ascending(c) /\ \A k \in DOMAIN c, l \in DOMAIN d : c[k] < d[l]
  <2>1. \A k \in DOMAIN b : b[k] \in Nat \ {0}
      BY QueueAssumption, SMTT(60) DEF Job
  <2>2. \A k \in DOMAIN q : q[k] \in Nat \ {0}
      BY QueueAssumption, SMTT(60) DEF Job
  <2>3. /\ \A i, k \in DOMAIN b : i < k => b[i] < b[k]
        /\ \A i, k \in DOMAIN q : i < k => q[i] < q[k]
      BY <1>10, <2>1, <2>2, Zenon DEF Ascending
  <2>4. ASSUME NEW i \in DOMAIN c, NEW k \in DOMAIN c, i < k PROVE c[i] < c[k]
    <3>1. CASE k \in DOMAIN b
      <4>1. i \in DOMAIN b
          BY <1>3, <1>4, <2>4, <3>1
      <4> QED
          BY <1>7, <2>3, <2>4, <3>1, <4>1, Zenon
    <3>2. CASE k \notin DOMAIN b /\ i \in DOMAIN b
        BY <1>6, <1>7, <1>10, <3>2, Zenon
    <3>3. CASE k \notin DOMAIN b /\ i \notin DOMAIN b
      <4>1. i - Len(b) < k - Len(b)
          BY <1>3, <1>4, <2>4
      <4> QED
          BY <1>6, <2>3, <3>3, <4>1, ZenonT(60)
    <3> QED
        BY <3>1, <3>2, <3>3, ZenonT(60)
  <2>5. ASSUME NEW k \in DOMAIN c, NEW l \in DOMAIN d PROVE c[k] < d[l]
    <3>1. CASE k \in DOMAIN b
        BY <1>5, <1>7, <1>10, <3>1, Zenon
    <3>2. CASE k \notin DOMAIN b
      <4>1. k - Len(b) < n + l
          BY <1>3, <1>4, <1>5, <1>6, <3>2, SMTT(60)
      <4> QED
          BY <1>5, <1>6, <2>3, <3>2, <4>1, Zenon
    <3> QED
        BY <3>1, <3>2, Zenon
  <2> QED
      BY <2>4, <2>5, ZenonT(60) DEF Ascending
<1>11. \A k \in DOMAIN d : \E l \in DOMAIN q : d[k] = q[l]
    BY <1>5, Zenon
<1>12. \A k \in DOMAIN c : k \in DOMAIN b \/ \E l \in DOMAIN q : c[k] = q[l]
    BY <1>6, ZenonT(60)
<1>13. c \in Seq(Job) /\ d \in Seq(Job)
    BY <1>1, <1>3, Zenon
<1> QED
    BY <1>7, <1>8, <1>9, <1>10, <1>11, <1>12, <1>13, ZenonT(60) DEF Moves

-----------------------------------------------------------------------------
(* Facts for several actions                                               *)

\* The entries of ready_appends_ have their type.
LEMMA ReadyTyped ==
    ASSUME QueueTypeOK
    PROVE  \A k \in DOMAIN ready : /\ ready[k].part \in Partition
                                   /\ ready[k].job \in Job /\ ready[k].job \in Nat \ {0}
<1>1. ready \in Seq(ReadyAppend)
    BY Zenon DEF QueueTypeOK
<1>2. \A k \in DOMAIN ready : ready[k] \in ReadyAppend
    BY <1>1
<1> QED
    BY <1>2, QueueAssumption DEF ReadyAppend, Job

\* The fields of a worker have their type.
LEMMA WorkerTyped ==
    ASSUME QueueTypeOK, NEW w \in Worker
    PROVE  /\ worker[w] \in WorkerState
           /\ worker[w].part \in Partition
           /\ worker[w].batch \in Seq(Job)
           /\ \A k \in DOMAIN worker[w].batch : worker[w].batch[k] \in Job
           /\ \A k \in DOMAIN worker[w].batch : worker[w].batch[k] \in Nat \ {0}
           /\ worker[w].base \in Nat
<1>1. worker[w] \in WorkerState
    BY Zenon DEF QueueTypeOK
<1>2. worker[w].batch \in Seq(Job) /\ worker[w].part \in Partition /\ worker[w].base \in Nat
    BY <1>1, Zenon DEF WorkerState
<1>3. \A k \in DOMAIN worker[w].batch : worker[w].batch[k] \in Job
    BY <1>2
<1> QED
    BY <1>1, <1>2, <1>3, QueueAssumption, SMTT(60) DEF Job

\* The jobs of a log and of a queue are numbers.
LEMMA JobsTyped ==
    ASSUME QueueTypeOK, NEW p \in Partition
    PROVE  /\ pending[p] \in Seq(Job) /\ log[p] \in Seq(Job \cup {0})
           /\ \A k \in DOMAIN pending[p] : pending[p][k] \in Nat \ {0}
           /\ \A k \in DOMAIN log[p] : log[p][k] \in Nat
<1>1. pending[p] \in Seq(Job) /\ log[p] \in Seq(Job \cup {0})
    BY Zenon DEF QueueTypeOK
<1> QED
    BY <1>1, QueueAssumption, SMTT(60) DEF Job

\* The entries of ready_appends_ once schedule_append has added one.
LEMMA ReadyAppended ==
    ASSUME QueueTypeOK, NEW r \in ReadyAppend, ready' = Append(ready, r)
    PROVE  /\ ready' \in Seq(ReadyAppend)
           /\ DOMAIN ready \subseteq DOMAIN ready'
           /\ \A k \in DOMAIN ready : ready'[k] = ready[k] /\ k # Len(ready) + 1
           /\ Len(ready) + 1 \in DOMAIN ready' /\ ready'[Len(ready) + 1] = r
           /\ \A k \in DOMAIN ready' : k \in DOMAIN ready \/ k = Len(ready) + 1
<1>1. ready \in Seq(ReadyAppend)
    BY Zenon DEF QueueTypeOK
<1>2. /\ ready' \in Seq(ReadyAppend)
      /\ DOMAIN ready' = 1 .. Len(ready) + 1 /\ DOMAIN ready = 1 .. Len(ready)
      /\ \A k \in DOMAIN ready : ready'[k] = ready[k]
      /\ ready'[Len(ready) + 1] = r
      /\ Len(ready) \in Nat
    BY <1>1, AppendOne
<1> QED
    BY <1>2

\* The partitions stay lent as they are when no worker takes one or gives one back
\* and no job is made ready.
LEMMA SameAppender ==
    ASSUME QueueTypeOK, OneAppender,
           \A v \in Worker, p \in Partition : Has(v, p)' <=> Has(v, p),
           UNCHANGED <<ready, appending>>,
           \A p \in Partition : pending'[p] # <<>> => appending[p]
    PROVE  OneAppender'
<1>1. \A v \in Worker, k \in DOMAIN ready : ~Has(v, ready[k].part)'
    BY ReadyTyped, Zenon DEF OneAppender
<1> QED
    BY <1>1, Zenon DEF OneAppender

\* A written batch stays in the log when the log is left alone and no worker comes to
\* hold a written batch.
LEMMA WrittenStays ==
    ASSUME WrittenThere, log' = log,
           \A v \in Worker : worker'[v].at = "written" => worker'[v] = worker[v]
    PROVE  WrittenThere'
<1>1. ASSUME NEW v \in Worker, worker'[v].at = "written"
      PROVE  /\ worker'[v].base + Len(worker'[v].batch) <= Len(log'[worker'[v].part])
             /\ \A k \in DOMAIN worker'[v].batch :
                   log'[worker'[v].part][worker'[v].base + k] = worker'[v].batch[k]
  <2>1. worker'[v] = worker[v] /\ worker[v].at = "written"
      BY <1>1, Zenon
  <2>2. /\ worker[v].base + Len(worker[v].batch) <= Len(log[worker[v].part])
        /\ \A k \in DOMAIN worker[v].batch :
              log[worker[v].part][worker[v].base + k] = worker[v].batch[k]
      BY <2>1, Zenon DEF WrittenThere
  <2> QED
      BY <2>1, <2>2, Zenon
<1> QED
    BY <1>1, Zenon DEF WrittenThere

-----------------------------------------------------------------------------
(* Deletion and shutdown                                                   *)

\* Marking the topic keeps the invariant.
LEMMA DeleteKeeps == QueueIInv /\ Delete => QueueIInv'
<1> SUFFICES ASSUME QueueIInv, Delete PROVE QueueIInv'
    BY Zenon
<1> USE DEF QueueIInv, Delete, queueVars
<1>1. QueueTypeOK'
    BY Zenon DEF QueueTypeOK
<1>2. OneAppender'
    BY Zenon DEF OneAppender, Has
<1>3. OrderKept' /\ LogBelow' /\ JobsTracked'
    BY DEF OrderKept, LogBelow, JobsTracked, Tracked, Ascending
<1>4. PendingLast' /\ ReadyBetween' /\ BatchBetween' /\ WrittenThere'
    BY DEF PendingLast, ReadyBetween, BatchBetween, Between, WrittenThere, Ascending
<1>5. DrainedIdle'
    BY Zenon DEF DrainedIdle
<1>6. ExitsLast'
    BY Zenon DEF ExitsLast
<1> QED
    BY <1>1, <1>2, <1>3, <1>4, <1>5, <1>6, Zenon

\* A look at a partition keeps the invariant: what is idle then has no jobs, and
\* gets none, since the topic is marked.
LEMMA DrainCheckKeeps ==
    ASSUME NEW p \in Partition
    PROVE  QueueIInv /\ DrainCheck(p) => QueueIInv'
<1> SUFFICES ASSUME QueueIInv, DrainCheck(p) PROVE QueueIInv'
    BY Zenon
<1> USE DEF QueueIInv, DrainCheck, queueVars
<1>1. QueueTypeOK'
    BY Zenon DEF QueueTypeOK
<1>2. OneAppender'
    BY Zenon DEF OneAppender, Has
<1>3. OrderKept' /\ LogBelow' /\ JobsTracked'
    BY DEF OrderKept, LogBelow, JobsTracked, Tracked, Ascending
<1>4. PendingLast' /\ ReadyBetween' /\ BatchBetween' /\ WrittenThere'
    BY DEF PendingLast, ReadyBetween, BatchBetween, Between, WrittenThere, Ascending
<1>5. DrainedIdle'
    BY Zenon DEF DrainedIdle
<1>6. ExitsLast'
    BY Zenon DEF ExitsLast
<1> QED
    BY <1>1, <1>2, <1>3, <1>4, <1>5, <1>6, Zenon

\* Removing the directory keeps the invariant.
LEMMA RemoveDirectoryKeeps == QueueIInv /\ RemoveDirectory => QueueIInv'
<1> SUFFICES ASSUME QueueIInv, RemoveDirectory PROVE QueueIInv'
    BY Zenon
<1> USE DEF QueueIInv, RemoveDirectory, queueVars
<1>1. QueueTypeOK'
    BY Zenon DEF QueueTypeOK
<1>2. OneAppender'
    BY Zenon DEF OneAppender, Has
<1>3. OrderKept' /\ LogBelow' /\ JobsTracked'
    BY DEF OrderKept, LogBelow, JobsTracked, Tracked, Ascending
<1>4. PendingLast' /\ ReadyBetween' /\ BatchBetween' /\ WrittenThere'
    BY DEF PendingLast, ReadyBetween, BatchBetween, Between, WrittenThere, Ascending
<1>5. DrainedIdle'
    BY Zenon DEF DrainedIdle
<1>6. ExitsLast'
    BY Zenon DEF ExitsLast
<1> QED
    BY <1>1, <1>2, <1>3, <1>4, <1>5, <1>6, Zenon

\* Stopping the broker keeps the invariant.
LEMMA StopKeeps == QueueIInv /\ Stop => QueueIInv'
<1> SUFFICES ASSUME QueueIInv, Stop PROVE QueueIInv'
    BY Zenon
<1> USE DEF QueueIInv, Stop, queueVars, topicVars
<1>1. QueueTypeOK'
    BY Zenon DEF QueueTypeOK
<1>2. OneAppender'
    BY Zenon DEF OneAppender, Has
<1>3. OrderKept' /\ LogBelow' /\ JobsTracked'
    BY DEF OrderKept, LogBelow, JobsTracked, Tracked, Ascending
<1>4. PendingLast' /\ ReadyBetween' /\ BatchBetween' /\ WrittenThere'
    BY DEF PendingLast, ReadyBetween, BatchBetween, Between, WrittenThere, Ascending
<1>5. DrainedIdle'
    BY Zenon DEF DrainedIdle
<1>6. ExitsLast'
    BY Zenon DEF ExitsLast
<1> QED
    BY <1>1, <1>2, <1>3, <1>4, <1>5, <1>6, Zenon

\* The return of a worker keeps the invariant: it has no partition in hand.
LEMMA ExitKeeps ==
    ASSUME NEW w \in Worker
    PROVE  QueueIInv /\ Exit(w) => QueueIInv'
<1> SUFFICES ASSUME QueueIInv, Exit(w) PROVE QueueIInv'
    BY Zenon
<1>1. /\ worker \in [Worker -> WorkerState]
      /\ worker[w].at = "idle"
      /\ worker' = [worker EXCEPT ![w].at = "exited"]
    BY Zenon DEF QueueIInv, QueueTypeOK, Exit
<1>2. /\ worker' \in [Worker -> WorkerState]
      /\ worker'[w].at = "exited"
      /\ \A v \in Worker : v # w => worker'[v] = worker[v]
    BY <1>1, ZenonT(60) DEF WorkerState
<1>3. UNCHANGED <<log, pending, appending, ready, stopping, topic, drained, jobs, answer>>
    BY Zenon DEF Exit, queueVars, topicVars
<1> USE <1>3 DEF QueueIInv
<1>4. QueueTypeOK'
    BY <1>2, Zenon DEF QueueTypeOK
<1>5. \A v \in Worker, p \in Partition : Has(v, p)' <=> Has(v, p)
    BY <1>1, <1>2, Zenon DEF Has
<1>6. OneAppender'
    BY <1>5, SameAppender, Zenon DEF OneAppender
<1>7. OrderKept' /\ LogBelow' /\ PendingLast' /\ ReadyBetween'
    BY Zenon DEF OrderKept, LogBelow, PendingLast, ReadyBetween, Between, Ascending
<1>8. JobsTracked'
    BY <1>1, <1>2 DEF JobsTracked, Tracked
<1>9. BatchBetween' /\ WrittenThere'
  <2>1. \A v \in Worker : worker'[v].at \in {"taken", "gathered", "written", "failed"}
                             => worker'[v] = worker[v]
      BY <1>1, <1>2, Zenon
  <2>2. BatchBetween'
      BY <2>1, Zenon DEF BatchBetween, Between, Ascending
  <2>3. WrittenThere'
      BY <2>1, WrittenStays, Zenon
  <2> QED
      BY <2>2, <2>3, Zenon
<1>10. DrainedIdle'
    BY Zenon DEF DrainedIdle
<1>11. ExitsLast'
    BY <1>1, <1>2 DEF ExitsLast, Exit
<1> QED
    BY <1>4, <1>6, <1>7, <1>8, <1>9, <1>10, <1>11, Zenon

-----------------------------------------------------------------------------
(* Requests                                                                *)

\* A produce_batch keeps the invariant: its record is 0, which has no place in the
\* order, and the logs only grow.
LEMMA ProduceBatchKeeps ==
    ASSUME NEW p \in Partition
    PROVE  QueueIInv /\ ProduceBatch(p) => QueueIInv'
<1> SUFFICES ASSUME QueueIInv, ProduceBatch(p) PROVE QueueIInv'
    BY Zenon
<1>1. /\ UNCHANGED <<pending, appending, ready, worker, stopping, topic, drained>>
      /\ jobs' = jobs + 1 /\ jobs \in Nat /\ jobs' \in Job
      /\ log' = [log EXCEPT ![p] = Append(@, 0)]
      /\ answer' = [answer EXCEPT
             ![jobs'] = [is |-> "ok", part |-> p, offset |-> Len(log[p])]]
    BY QueueAssumption DEF ProduceBatch, queueVars, topicVars, QueueIInv, QueueTypeOK, Job
<1>2. \A q \in Partition : log[q] \in Seq(Job \cup {0})
    BY Zenon DEF QueueIInv, QueueTypeOK
<1>3. /\ log' \in [Partition -> Seq(Job \cup {0})]
      /\ \A q \in Partition :
            /\ log'[q] \in Seq(Job \cup {0})
            /\ DOMAIN log[q] \subseteq DOMAIN log'[q] /\ Len(log[q]) <= Len(log'[q])
            /\ \A i \in DOMAIN log[q] : log'[q][i] = log[q][i]
            /\ \A i \in DOMAIN log'[q] : i \notin DOMAIN log[q] => log'[q][i] = 0
      /\ Len(log'[p]) = Len(log[p]) + 1 /\ log'[p][Len(log[p]) + 1] = 0
      /\ Len(log[p]) \in Nat
  <2>1. log \in [Partition -> Seq(Job \cup {0})]
      BY Zenon DEF QueueIInv, QueueTypeOK
  <2>2. /\ log'[p] = Append(log[p], 0)
        /\ \A q \in Partition : q # p => log'[q] = log[q]
      BY <1>1, <2>1, Zenon
  <2> QED
      BY <1>1, <1>2, <2>1, <2>2, AppendOne
<1> HIDE DEF ProduceBatch
<1> USE DEF QueueIInv
<1>4. QueueTypeOK'
  <2>1. [is |-> "ok", part |-> p, offset |-> Len(log[p])]
            \in [is : {"none", "ok", "error"}, part : Partition, offset : Nat]
      BY <1>3, Zenon
  <2>2. answer' \in [Job -> [is : {"none", "ok", "error"}, part : Partition, offset : Nat]]
      BY <1>1, <2>1, Zenon DEF QueueTypeOK
  <2> QED
      BY <1>1, <1>3, <2>2 DEF QueueTypeOK, Job
<1>5. \A j \in Job : \/ j = jobs' /\ answer'[j] = [is |-> "ok", part |-> p, offset |-> Len(log[p])]
                     \/ j # jobs' /\ answer'[j] = answer[j]
    BY <1>1, Zenon DEF QueueTypeOK
<1>6. OneAppender'
    BY <1>1, Zenon DEF OneAppender, Has
<1>7. OrderKept'
  <2>1. \A q \in Partition : Ascending(log'[q])
      BY <1>2, <1>3, Zenon DEF OrderKept, Ascending
  <2>2. ASSUME NEW j \in Job, answer'[j].is = "ok"
        PROVE  /\ answer'[j].offset < Len(log'[answer'[j].part])
               /\ log'[answer'[j].part][answer'[j].offset + 1] \in {0, j}
    <3>1. CASE j = jobs'
        BY <1>3, <1>5, <3>1, SMTT(60)
    <3>2. CASE j # jobs'
      <4>1. answer'[j] = answer[j]
          BY <1>5, <3>2, Zenon
      <4>2. answer[j].part \in Partition /\ answer[j].offset \in Nat
          BY Zenon DEF QueueTypeOK
      <4>3. /\ answer[j].offset < Len(log[answer[j].part])
            /\ log[answer[j].part][answer[j].offset + 1] \in {0, j}
          BY <2>2, <4>1, Zenon DEF OrderKept
      <4> QED
          BY <1>2, <1>3, <4>1, <4>2, <4>3, SMTT(60)
    <3> QED
        BY <3>1, <3>2, Zenon
  <2> QED
      BY <2>1, <2>2, Zenon DEF OrderKept, Ascending
<1>8. JobsTracked'
  <2>1. \A j \in 1 .. jobs' : j \in Job /\ (j = jobs' \/ j \in 1 .. jobs)
      BY <1>1, QueueAssumption DEF Job
  <2>2. \A j \in 1 .. jobs' : j = jobs' => answer'[j].is # "none"
      BY <1>5, <2>1
  <2> QED
      BY <1>1, <1>5, <2>1, <2>2 DEF JobsTracked, Tracked
<1>9. PendingLast'
    BY <1>1, <1>3, JobsTyped, SMTT(60) DEF PendingLast, Ascending
<1>10. ReadyBetween'
  <2>1. ASSUME NEW k \in DOMAIN ready
        PROVE  /\ ready[k].job <= jobs'
               /\ \A i \in DOMAIN log'[ready[k].part] : log'[ready[k].part][i] < ready[k].job
    <3>1. ready[k].part \in Partition /\ ready[k].job \in Nat \ {0}
        BY Zenon, ReadyTyped
    <3> QED
        BY <1>1, <1>3, <3>1, SMTT(60) DEF ReadyBetween, Between
  <2> QED
      BY <1>1, <2>1, ZenonT(60) DEF ReadyBetween, Between
<1>11. BatchBetween'
  <2>1. ASSUME NEW w \in Worker, worker[w].at \in {"taken", "gathered"},
               NEW k \in DOMAIN worker[w].batch
        PROVE  /\ worker[w].batch[k] <= jobs'
               /\ \A i \in DOMAIN log'[worker[w].part] :
                     log'[worker[w].part][i] < worker[w].batch[k]
    <3>1. worker[w].part \in Partition /\ worker[w].batch[k] \in Nat \ {0}
        BY WorkerTyped, Zenon
    <3> QED
        BY <1>1, <1>3, <2>1, <3>1, SMTT(60) DEF BatchBetween, Between
  <2> QED
      BY <1>1, <2>1, ZenonT(60) DEF BatchBetween, Between, Ascending
<1>12. LogBelow'
    BY <1>1, <1>3, JobsTyped DEF LogBelow
<1>13. WrittenThere'
  <2>1. ASSUME NEW w \in Worker, worker[w].at = "written"
        PROVE  /\ worker[w].base + Len(worker[w].batch) <= Len(log'[worker[w].part])
               /\ \A k \in DOMAIN worker[w].batch :
                     log'[worker[w].part][worker[w].base + k] = worker[w].batch[k]
    <3>1. /\ worker[w].base + Len(worker[w].batch) <= Len(log[worker[w].part])
          /\ \A k \in DOMAIN worker[w].batch :
                log[worker[w].part][worker[w].base + k] = worker[w].batch[k]
        BY <2>1, Zenon DEF WrittenThere
    <3>2. \A k \in DOMAIN worker[w].batch : worker[w].base + k \in DOMAIN log[worker[w].part]
        BY <1>2, <3>1, WorkerTyped, SMTT(60)
    <3>3. /\ Len(log[worker[w].part]) <= Len(log'[worker[w].part])
          /\ \A i \in DOMAIN log[worker[w].part] :
                log'[worker[w].part][i] = log[worker[w].part][i]
        BY <1>3, WorkerTyped, Zenon
    <3>4. /\ worker[w].base + Len(worker[w].batch) \in Nat
          /\ Len(log[worker[w].part]) \in Nat /\ Len(log'[worker[w].part]) \in Nat
        BY <1>2, <1>3, WorkerTyped, SMTT(60)
    <3> QED
        BY <3>1, <3>2, <3>3, <3>4, SMTT(60)
  <2> QED
      BY <1>1, <2>1, ZenonT(60) DEF WrittenThere
<1>14. DrainedIdle' /\ ExitsLast'
    BY <1>1, Zenon DEF DrainedIdle, ExitsLast
<1> QED
    BY <1>4, <1>6, <1>7, <1>8, <1>9, <1>10, <1>11, <1>12, <1>13, <1>14, Zenon

\* A request that is queued behind the append under way keeps the invariant: its
\* number is above all others.
LEMMA ProduceQueued ==
    ASSUME NEW p \in Partition, QueueIInv, Produce(p), appending[p]
    PROVE  QueueIInv'
<1>1. /\ UNCHANGED <<log, appending, ready, worker, stopping, topic, drained, answer>>
      /\ jobs' = jobs + 1 /\ jobs \in Nat /\ jobs' \in Job
      /\ pending' = [pending EXCEPT ![p] = Append(@, jobs')]
      /\ topic = "open" /\ ~stopping
    BY QueueAssumption, SMTT(60) DEF Produce, topicVars, QueueIInv, QueueTypeOK, Job
<1>2. \A q \in Partition : pending[q] \in Seq(Job) /\ DOMAIN pending[q] = 1 .. Len(pending[q])
    BY DEF QueueIInv, QueueTypeOK
<1>3. /\ pending'[p] = Append(pending[p], jobs')
      /\ \A q \in Partition : q # p => pending'[q] = pending[q]
      /\ pending' \in [Partition -> Seq(Job)]
    BY <1>1, <1>2, AppendOne, Zenon DEF QueueIInv, QueueTypeOK
<1>4. /\ Len(pending[p]) \in Nat
      /\ DOMAIN pending'[p] = 1 .. Len(pending[p]) + 1
      /\ \A i \in DOMAIN pending[p] : pending'[p][i] = pending[p][i]
      /\ pending'[p][Len(pending[p]) + 1] = jobs'
    BY <1>1, <1>2, <1>3, AppendOne
<1>5. \A q \in Partition :
         /\ DOMAIN pending[q] \subseteq DOMAIN pending'[q]
         /\ \A i \in DOMAIN pending[q] : pending'[q][i] = pending[q][i]
         /\ \A i \in DOMAIN pending'[q] :
               i \notin DOMAIN pending[q]
                  => pending'[q][i] = jobs' /\ \A l \in DOMAIN pending[q] : l < i
  <2>1. DOMAIN pending[p] = 1 .. Len(pending[p])
      BY <1>2, Zenon
  <2>2. \A i \in DOMAIN pending'[p] :
           i \notin DOMAIN pending[p]
              => i = Len(pending[p]) + 1 /\ \A l \in DOMAIN pending[p] : l < i
      BY <1>4, <2>1
  <2>3. DOMAIN pending[p] \subseteq DOMAIN pending'[p]
      BY <1>4, <2>1
  <2> QED
      BY <1>3, <1>4, <2>2, <2>3, ZenonT(60)
<1>6. \A q \in Partition : \A i, l \in DOMAIN pending'[q] :
         i \notin DOMAIN pending[q] /\ l \notin DOMAIN pending[q] => i = l
    BY <1>2, <1>3, <1>4, SMTT(60)
<1> USE DEF QueueIInv
<1>7. QueueTypeOK'
    BY <1>1, <1>3, SMTT(60) DEF QueueTypeOK, Job
<1>8. OneAppender'
  <2>1. \A v \in Worker, q \in Partition : Has(v, q)' <=> Has(v, q)
      BY <1>1, Zenon DEF Has
  <2>2. \A q \in Partition : pending'[q] # <<>> => appending[q]
      BY <1>3, Zenon DEF OneAppender
  <2> QED
      BY <1>1, <2>1, <2>2, SameAppender, Zenon
<1>9. OrderKept'
    BY <1>1, Zenon DEF OrderKept, Ascending
<1>10. JobsTracked'
  <2>1. \A j \in 1 .. jobs' : j = jobs' \/ j \in 1 .. jobs
      BY <1>1
  <2>2. \E k \in DOMAIN pending'[p] : pending'[p][k] = jobs'
      BY <1>4
  <2>3. ASSUME NEW j \in 1 .. jobs,
               \E q \in Partition : \E k \in DOMAIN pending[q] : pending[q][k] = j
        PROVE  \E q \in Partition : \E k \in DOMAIN pending'[q] : pending'[q][k] = j
      BY <1>5, <2>3
  <2> QED
      BY <1>1, <2>1, <2>2, <2>3, SMTT(60) DEF JobsTracked, Tracked
<1>11. PendingLast'
  <2>1. ASSUME NEW q \in Partition PROVE Ascending(pending'[q])
      BY <1>1, <1>2, <1>5, <1>6, <2>1, JobsTyped, SMTT(60) DEF PendingLast, Ascending
  <2>2. ASSUME NEW q \in Partition, NEW k \in DOMAIN pending'[q]
        PROVE  /\ pending'[q][k] <= jobs'
               /\ \A i \in DOMAIN log[q] : log[q][i] < pending'[q][k]
      BY <1>1, <1>5, <2>2, JobsTyped, SMTT(60) DEF PendingLast, LogBelow
  <2> QED
      BY Zenon, <1>1, <2>1, <2>2 DEF PendingLast, Ascending
<1>12. ReadyBetween'
  <2>1. ASSUME NEW k \in DOMAIN ready
        PROVE  /\ ready[k].job <= jobs'
               /\ \A i \in DOMAIN pending'[ready[k].part] :
                     ready[k].job < pending'[ready[k].part][i]
    <3>1. ready[k].part \in Partition /\ ready[k].job \in Nat \ {0}
        BY ReadyTyped, Zenon
    <3> QED
        BY <1>1, <1>5, <3>1, SMTT(60) DEF ReadyBetween, Between
  <2> QED
      BY <1>1, <2>1, ZenonT(60) DEF ReadyBetween, Between
<1>13. BatchBetween'
  <2>1. ASSUME NEW w \in Worker, worker[w].at \in {"taken", "gathered"},
               NEW k \in DOMAIN worker[w].batch
        PROVE  /\ worker[w].batch[k] <= jobs'
               /\ \A i \in DOMAIN pending'[worker[w].part] :
                     worker[w].batch[k] < pending'[worker[w].part][i]
    <3>1. worker[w].part \in Partition /\ worker[w].batch[k] \in Nat \ {0}
        BY WorkerTyped, Zenon
    <3>2. /\ worker[w].batch[k] <= jobs
          /\ \A i \in DOMAIN pending[worker[w].part] :
                worker[w].batch[k] < pending[worker[w].part][i]
        BY <2>1, Zenon DEF BatchBetween, Between
    <3> QED
        BY <1>1, <1>5, <3>1, <3>2, SMTT(60)
  <2> QED
      BY <1>1, <2>1, ZenonT(60) DEF BatchBetween, Between, Ascending
<1>14. LogBelow'
    BY <1>1, JobsTyped DEF LogBelow
<1>15. WrittenThere' /\ DrainedIdle' /\ ExitsLast'
    BY <1>1, Zenon DEF WrittenThere, DrainedIdle, ExitsLast
<1> QED
    BY <1>7, <1>8, <1>9, <1>10, <1>11, <1>12, <1>13, <1>14, <1>15, Zenon

\* A request that is handed to the workers at once keeps the invariant: nobody has
\* its partition, whose queue is empty.
LEMMA ProduceReady ==
    ASSUME NEW p \in Partition, QueueIInv, Produce(p), ~appending[p]
    PROVE  QueueIInv'
<1> DEFINE r == [part |-> p, job |-> jobs']
<1>1. /\ UNCHANGED <<log, pending, worker, stopping, topic, drained, answer>>
      /\ jobs' = jobs + 1 /\ jobs \in Nat /\ jobs' \in Job
      /\ appending' = [appending EXCEPT ![p] = TRUE]
      /\ ready' = Append(ready, r)
      /\ topic = "open" /\ ~stopping
    BY QueueAssumption, SMTT(60) DEF Produce, topicVars, QueueIInv, QueueTypeOK, Job
<1>2. r \in ReadyAppend /\ r.part = p /\ r.job = jobs'
    BY <1>1, Zenon DEF ReadyAppend
<1> HIDE DEF r
<1>3. /\ ready' \in Seq(ReadyAppend)
      /\ DOMAIN ready \subseteq DOMAIN ready'
      /\ \A k \in DOMAIN ready : ready'[k] = ready[k] /\ k # Len(ready) + 1
      /\ Len(ready) + 1 \in DOMAIN ready' /\ ready'[Len(ready) + 1] = r
      /\ \A k \in DOMAIN ready' : k \in DOMAIN ready \/ k = Len(ready) + 1
    BY <1>1, <1>2, ReadyAppended, Zenon DEF QueueIInv
<1> USE DEF QueueIInv
<1>4. /\ appending' \in [Partition -> BOOLEAN]
      /\ appending'[p] /\ \A q \in Partition : q # p => appending'[q] = appending[q]
    BY Zenon, <1>1 DEF QueueTypeOK
<1>5. /\ \A k \in DOMAIN ready : ready[k].part # p
      /\ \A w \in Worker : ~Has(w, p)
      /\ pending[p] = <<>>
    BY Zenon DEF OneAppender
<1>6. QueueTypeOK'
    BY <1>1, <1>3, <1>4, SMTT(60) DEF QueueTypeOK, Job
<1>7. OneAppender'
  <2>1. \A v \in Worker, q \in Partition : Has(v, q)' <=> Has(v, q)
      BY Zenon, <1>1 DEF Has
  <2>2. \A k, l \in DOMAIN ready' : ready'[k].part = ready'[l].part => k = l
      BY <1>2, <1>3, <1>5, Zenon DEF OneAppender
  <2>3. (\A w \in Worker, k \in DOMAIN ready : ~Has(w, ready[k].part))'
    <3>1. \A k \in DOMAIN ready' : /\ ready'[k].part \in Partition
                                   /\ \A w \in Worker : ~Has(w, ready'[k].part)
        BY <1>2, <1>3, <1>5, ReadyTyped, Zenon DEF OneAppender
    <3> QED
        BY <1>1, <3>1, Zenon DEF Has
  <2>4. \A v, w \in Worker, q \in Partition : Has(v, q)' /\ Has(w, q)' => v = w
      BY <2>1, Zenon DEF OneAppender
  <2>5. ASSUME NEW q \in Partition
        PROVE  /\ appending'[q] <=> \/ \E k \in DOMAIN ready' : ready'[k].part = q
                                    \/ \E w \in Worker : Has(w, q)'
               /\ pending'[q] # <<>> => appending'[q]
    <3>1. CASE q = p
        BY <1>2, <1>3, <1>4, <3>1, Zenon
    <3>2. CASE q # p
        BY <1>1, <1>2, <1>3, <1>4, <2>1, <3>2 DEF OneAppender
    <3> QED
        BY <3>1, <3>2, Zenon
  <2> QED
      BY <2>2, <2>3, <2>4, <2>5, Zenon DEF OneAppender
<1>8. OrderKept'
    BY <1>1, Zenon DEF OrderKept, Ascending
<1>9. JobsTracked'
  <2>1. \A j \in 1 .. jobs' : j = jobs' \/ j \in 1 .. jobs
      BY <1>1
  <2>2. \E k \in DOMAIN ready' : ready'[k].job = jobs'
      BY Zenon, <1>2, <1>3
  <2>3. ASSUME NEW j \in 1 .. jobs, \E k \in DOMAIN ready : ready[k].job = j
        PROVE  \E k \in DOMAIN ready' : ready'[k].job = j
      BY Zenon, <1>3, <2>3
  <2> QED
      BY <1>1, <2>1, <2>2, <2>3, SMTT(60) DEF JobsTracked, Tracked
<1>10. PendingLast'
    BY <1>1, JobsTyped, SMTT(60) DEF PendingLast, Ascending
<1>11. ReadyBetween'
  <2>1. ASSUME NEW k \in DOMAIN ready'
        PROVE  /\ ready'[k].job <= jobs'
               /\ \A i \in DOMAIN log[ready'[k].part] : log[ready'[k].part][i] < ready'[k].job
               /\ \A i \in DOMAIN pending[ready'[k].part] :
                     ready'[k].job < pending[ready'[k].part][i]
    <3>1. CASE k \in DOMAIN ready
      <4>1. ready'[k] = ready[k] /\ ready[k].job \in Nat
          BY <1>3, <3>1, ReadyTyped, Zenon
      <4>2. /\ ready[k].job <= jobs
            /\ \A i \in DOMAIN log[ready[k].part] : log[ready[k].part][i] < ready[k].job
            /\ \A i \in DOMAIN pending[ready[k].part] :
                  ready[k].job < pending[ready[k].part][i]
          BY <3>1, Zenon DEF ReadyBetween, Between
      <4> QED
          BY <1>1, <4>1, <4>2
    <3>2. CASE k \notin DOMAIN ready
      <4>1. ready'[k].part = p /\ ready'[k].job = jobs'
          BY <1>2, <1>3, <3>2, Zenon
      <4>2. \A i \in DOMAIN log[p] : log[p][i] <= jobs /\ log[p][i] \in Nat
          BY JobsTyped, Zenon DEF LogBelow
      <4> QED
          BY <1>1, <1>5, <4>1, <4>2
    <3> QED
        BY <3>1, <3>2, Zenon
  <2> QED
      BY <1>1, <2>1, ZenonT(60) DEF ReadyBetween, Between
<1>12. BatchBetween'
  <2>1. ASSUME NEW w \in Worker, worker[w].at \in {"taken", "gathered"},
               NEW k \in DOMAIN worker[w].batch
        PROVE  worker[w].batch[k] <= jobs'
      BY <1>1, <2>1, WorkerTyped DEF BatchBetween, Between
  <2> QED
      BY <1>1, <2>1, ZenonT(60) DEF BatchBetween, Between, Ascending
<1>13. LogBelow'
    BY <1>1, JobsTyped DEF LogBelow
<1>14. WrittenThere' /\ DrainedIdle'
    BY <1>1, Zenon DEF WrittenThere, DrainedIdle
<1>15. ExitsLast'
    BY <1>1, QueueAssumption, Zenon DEF ExitsLast
<1> QED
    BY <1>6, <1>7, <1>8, <1>9, <1>10, <1>11, <1>12, <1>13, <1>14, <1>15, Zenon

\* A produce request keeps the invariant.
LEMMA ProduceKeeps ==
    ASSUME NEW p \in Partition
    PROVE  QueueIInv /\ Produce(p) => QueueIInv'
    BY ProduceQueued, ProduceReady, Zenon

-----------------------------------------------------------------------------
(* Append workers                                                          *)

\* Taking a job keeps the invariant: what was ready is in the worker's hand.
LEMMA TakeKeeps ==
    ASSUME NEW w \in Worker
    PROVE  QueueIInv /\ Take(w) => QueueIInv'
<1> SUFFICES ASSUME QueueIInv, Take(w) PROVE QueueIInv'
    BY Zenon
<1> USE DEF QueueIInv
<1>1. /\ UNCHANGED <<log, pending, appending, stopping, topic, drained, jobs, answer>>
      /\ worker[w].at = "idle" /\ ready # <<>> /\ ready' = Tail(ready)
      /\ worker' = [worker EXCEPT ![w].at = "taken", ![w].part = Head(ready).part,
                                  ![w].batch = <<Head(ready).job>>]
    BY Zenon DEF Take, topicVars
<1>2. /\ ready \in Seq(ReadyAppend) /\ 1 \in DOMAIN ready /\ Head(ready) = ready[1]
      /\ ready' \in Seq(ReadyAppend)
      /\ \A k \in DOMAIN ready' : /\ k + 1 \in DOMAIN ready /\ k + 1 # 1
                                  /\ ready'[k] = ready[k + 1]
      /\ \A k \in DOMAIN ready : k # 1 => k - 1 \in DOMAIN ready' /\ ready'[k - 1] = ready[k]
      /\ DOMAIN ready' \subseteq Int
  <2>1. ready \in Seq(ReadyAppend)
      BY Zenon DEF QueueTypeOK
  <2> QED
      BY <1>1, <2>1, Rest
<1>3. ready[1].part \in Partition /\ ready[1].job \in Job /\ <<ready[1].job>> \in Seq(Job)
    BY <1>2, ReadyTyped
<1>4. /\ worker' \in [Worker -> WorkerState]
      /\ worker'[w].at = "taken" /\ worker'[w].part = ready[1].part
      /\ worker'[w].batch = <<ready[1].job>>
      /\ \A v \in Worker : v # w => worker'[v] = worker[v]
  <2>1. worker \in [Worker -> WorkerState]
      BY Zenon DEF QueueTypeOK
  <2>2. worker'[w] = [at |-> "taken", part |-> ready[1].part, batch |-> <<ready[1].job>>,
                      base |-> worker[w].base]
      BY <1>1, <1>2, <2>1, ZenonT(60) DEF WorkerState
  <2>3. worker'[w] \in WorkerState
      BY <1>3, <2>1, <2>2 DEF WorkerState
  <2> QED
      BY Zenon, <1>1, <2>1, <2>2, <2>3
<1>5. DOMAIN worker'[w].batch = {1} /\ worker'[w].batch[1] = ready[1].job
    BY <1>4
<1>6. QueueTypeOK'
    BY <1>1, <1>2, <1>4, Zenon DEF QueueTypeOK
<1>7. /\ \A v \in Worker, p \in Partition : v # w => (Has(v, p)' <=> Has(v, p))
      /\ \A p \in Partition : Has(w, p)' <=> p = ready[1].part
      /\ \A p \in Partition : ~Has(w, p)
    BY <1>1, <1>4, Zenon DEF Has
<1>8. OneAppender'
  <2>1. \A k, l \in DOMAIN ready' : ready'[k].part = ready'[l].part => k = l
    <3> SUFFICES ASSUME NEW k \in DOMAIN ready', NEW l \in DOMAIN ready',
                        ready'[k].part = ready'[l].part
                 PROVE  k = l
        BY Zenon
    <3>1. /\ k + 1 \in DOMAIN ready /\ l + 1 \in DOMAIN ready
          /\ ready[k + 1].part = ready[l + 1].part
        BY <1>2, ZenonT(60)
    <3>2. k + 1 = l + 1
        BY <3>1, Zenon DEF OneAppender
    <3> QED
        BY <1>2, <3>2
  <2>2. (\A v \in Worker, k \in DOMAIN ready : ~Has(v, ready[k].part))'
    <3>1. \A k \in DOMAIN ready' : /\ ready'[k].part \in Partition
                                   /\ ready'[k].part # ready[1].part
                                   /\ \A v \in Worker : ~Has(v, ready'[k].part)
        BY <1>2, ReadyTyped, SMTT(60) DEF OneAppender
    <3> QED
        BY <1>1, <1>4, <3>1 DEF Has
  <2>3. \A u, v \in Worker, p \in Partition : Has(u, p)' /\ Has(v, p)' => u = v
      BY <1>2, <1>7 DEF OneAppender
  <2>4. ASSUME NEW p \in Partition
        PROVE  appending[p] <=> \/ \E k \in DOMAIN ready' : ready'[k].part = p
                                \/ \E v \in Worker : Has(v, p)'
    <3>1. CASE p = ready[1].part
        BY Zenon, <1>2, <1>7, <3>1 DEF OneAppender
    <3>2. CASE p # ready[1].part
      <4>1. (\E k \in DOMAIN ready' : ready'[k].part = p)
               <=> \E k \in DOMAIN ready : ready[k].part = p
          BY <1>2, <3>2
      <4>2. (\E v \in Worker : Has(v, p)') <=> \E v \in Worker : Has(v, p)
          BY <1>7, <3>2, Zenon
      <4> QED
          BY <4>1, <4>2, Zenon DEF OneAppender
    <3> QED
        BY Zenon, <3>1, <3>2
  <2> QED
      BY Zenon, <1>1, <2>1, <2>2, <2>3, <2>4 DEF OneAppender
<1>9. OrderKept' /\ PendingLast' /\ LogBelow' /\ DrainedIdle'
    BY <1>1, Zenon DEF OrderKept, PendingLast, LogBelow, DrainedIdle, Ascending
<1>10. JobsTracked'
  <2> SUFFICES ASSUME NEW j \in 1 .. jobs
               PROVE  Tracked(j)'
      BY Zenon, <1>1 DEF JobsTracked
  <2>1. CASE \E k \in DOMAIN ready : ready[k].job = j
    <3>1. PICK k \in DOMAIN ready : ready[k].job = j
        BY Zenon, <2>1
    <3>2. CASE k = 1
        BY <1>4, <1>5, <3>1, <3>2, Zenon DEF Tracked
    <3>3. CASE k # 1
        BY <1>2, <3>1, <3>3, Zenon DEF Tracked
    <3> QED
        BY Zenon, <3>2, <3>3
  <2>2. CASE \E v \in Worker : /\ worker[v].at \in {"taken", "gathered", "written", "failed"}
                               /\ \E k \in DOMAIN worker[v].batch : worker[v].batch[k] = j
      BY Zenon, <1>1, <1>4, <2>2 DEF Tracked
  <2>3. Tracked(j)
      BY Zenon DEF JobsTracked
  <2>4. CASE \/ answer[j].is # "none"
             \/ \E p \in Partition : \E k \in DOMAIN pending[p] : pending[p][k] = j
      BY <1>1, <2>4, Zenon DEF Tracked
  <2> QED
      BY <2>1, <2>2, <2>3, <2>4, Zenon DEF Tracked
<1>11. \A j, p : Between(j, p)' <=> Between(j, p)
    BY <1>1, Zenon DEF Between
<1>12. ReadyBetween'
    BY <1>2, <1>11, Zenon DEF ReadyBetween
<1>13. BatchBetween'
  <2>1. Ascending(worker'[w].batch) /\ Between(worker'[w].batch[1], worker'[w].part)
      BY <1>2, <1>4, <1>5 DEF ReadyBetween, Ascending
  <2>2. \A v \in Worker : v # w /\ worker'[v].at \in {"taken", "gathered"} =>
           /\ Ascending(worker'[v].batch)
           /\ \A k \in DOMAIN worker'[v].batch : Between(worker'[v].batch[k], worker'[v].part)
      BY <1>4, Zenon DEF BatchBetween
  <2> QED
      BY <1>5, <1>11, <2>1, <2>2, Zenon DEF BatchBetween, Ascending
<1>14. WrittenThere'
  <2>1. \A v \in Worker : worker'[v].at = "written" => worker'[v] = worker[v]
      BY <1>4, Zenon
  <2>2. log' = log
      BY <1>1, Zenon
  <2> QED
      BY <2>1, <2>2, WrittenStays, Zenon
<1>15. ExitsLast'
    BY Zenon, <1>1, <1>4 DEF ExitsLast
<1> QED
    BY <1>6, <1>8, <1>9, <1>10, <1>12, <1>13, <1>14, <1>15, Zenon

\* Filling the batch keeps the invariant: the pending jobs follow those in hand.
LEMMA GatherKeeps ==
    ASSUME NEW w \in Worker
    PROVE  QueueIInv /\ Gather(w) => QueueIInv'
<1> SUFFICES ASSUME QueueIInv, Gather(w) PROVE QueueIInv'
    BY Zenon
<1>1. /\ UNCHANGED <<log, appending, ready, stopping, topic, drained, jobs, answer>>
      /\ worker[w].at = "taken"
    BY Zenon DEF Gather, topicVars
<1>2. PICK p \in Partition, b \in Seq(Job), q \in Seq(Job) :
         p = worker[w].part /\ b = worker[w].batch /\ q = pending[p]
    BY WorkerTyped, JobsTyped, Zenon DEF QueueIInv
<1>3. PICK n, c, d :
         /\ n \in 0 .. Len(q)
         /\ c = b \o SubSeq(q, 1, n) /\ d = SubSeq(q, n + 1, Len(q))
         /\ worker' = [worker EXCEPT ![w].at = "gathered", ![w].batch = c]
         /\ pending' = [pending EXCEPT ![p] = d]
  <2> DEFINE m == IF Len(q) < BatchRecords THEN Len(q) ELSE BatchRecords - 1
  <2>1. Len(q) \in Nat
      BY <1>2
  <2>2. m \in 0 .. Len(q)
      BY <2>1, QueueAssumption
  <2>3. /\ worker' = [worker EXCEPT ![w].at = "gathered", ![w].batch = b \o SubSeq(q, 1, m)]
        /\ pending' = [pending EXCEPT ![p] = SubSeq(q, m + 1, Len(q))]
      BY <1>2, Zenon DEF Gather
  <2> HIDE DEF m
  <2> QED
      BY <2>2, <2>3, ZenonT(60)
<1>4. Moves(b, q, c, d)
  <2>1. /\ n \in 0 .. Len(q)
        /\ c = b \o SubSeq(q, 1, n) /\ d = SubSeq(q, n + 1, Len(q))
      BY <1>3, Zenon
  <2> QED
      BY <2>1, Moved, ZenonT(60)
<1> USE DEF QueueIInv
<1>5. /\ worker' \in [Worker -> WorkerState]
      /\ worker'[w].at = "gathered" /\ worker'[w].part = p /\ worker'[w].batch = c
      /\ \A v \in Worker : v # w => worker'[v] = worker[v]
  <2>1. worker \in [Worker -> WorkerState] /\ c \in Seq(Job)
      BY <1>4, Zenon DEF Moves, QueueTypeOK
  <2>2. worker' = [worker EXCEPT ![w].at = "gathered", ![w].batch = c]
      BY <1>3, Zenon
  <2>3. worker'[w] = [at |-> "gathered", part |-> worker[w].part, batch |-> c,
                      base |-> worker[w].base]
      BY <2>1, <2>2, ZenonT(60) DEF WorkerState
  <2>4. worker'[w] \in WorkerState
      BY <2>1, <2>3 DEF WorkerState
  <2>5. worker' \in [Worker -> WorkerState] /\ \A v \in Worker : v # w => worker'[v] = worker[v]
      BY <2>1, <2>2, <2>4, Zenon
  <2> QED
      BY <1>2, <2>3, <2>5
<1>6. /\ pending' \in [Partition -> Seq(Job)]
      /\ pending'[p] = d
      /\ \A o \in Partition : o # p => pending'[o] = pending[o]
    BY <1>3, <1>4, ZenonT(60) DEF Moves, QueueTypeOK
<1>7. /\ \A k \in DOMAIN b : k \in DOMAIN c /\ c[k] = b[k]
      /\ \A l \in DOMAIN q : \/ \E k \in DOMAIN c : c[k] = q[l]
                             \/ \E k \in DOMAIN d : d[k] = q[l]
    BY <1>4, Zenon DEF Moves
<1>8. QueueTypeOK'
    BY <1>1, <1>5, <1>6, Zenon DEF QueueTypeOK
<1>9. OneAppender'
  <2>1. \A v \in Worker, o \in Partition : Has(v, o)' <=> Has(v, o)
      BY <1>1, <1>2, <1>5, Zenon DEF Has
  <2>2. Has(w, p)
      BY Zenon, <1>1, <1>2 DEF Has
  <2>3. \A o \in Partition : pending'[o] # <<>> => appending[o]
      BY <1>6, <2>2, Zenon DEF OneAppender
  <2> QED
      BY <1>1, <2>1, <2>3, SameAppender, Zenon
<1>10. OrderKept' /\ LogBelow'
    BY <1>1, Zenon DEF OrderKept, LogBelow, Ascending
<1>11. JobsTracked'
  <2> SUFFICES ASSUME NEW j \in 1 .. jobs PROVE Tracked(j)'
      BY Zenon, <1>1 DEF JobsTracked
  <2>1. Tracked(j)
      BY Zenon DEF JobsTracked
  <2>2. CASE answer[j].is # "none" \/ \E k \in DOMAIN ready : ready[k].job = j
      BY <1>1, <2>2, Zenon DEF Tracked
  <2>3. CASE \E k \in DOMAIN c : c[k] = j
      BY <1>5, <2>3, Zenon DEF Tracked
  <2>4. CASE \E k \in DOMAIN d : d[k] = j
      BY <1>6, <2>4, Zenon DEF Tracked
  <2>5. CASE \E o \in Partition : \E k \in DOMAIN pending[o] : pending[o][k] = j
    <3>1. PICK o \in Partition : \E k \in DOMAIN pending[o] : pending[o][k] = j
        BY Zenon, <2>5
    <3>2. CASE o # p
        BY <1>6, <3>1, <3>2, Zenon DEF Tracked
    <3>3. CASE o = p
        BY <1>2, <1>7, <2>3, <2>4, <3>1, <3>3
    <3> QED
        BY <3>2, <3>3, Zenon
  <2>6. CASE \E v \in Worker : /\ worker[v].at \in {"taken", "gathered", "written", "failed"}
                               /\ \E k \in DOMAIN worker[v].batch : worker[v].batch[k] = j
    <3>1. PICK v \in Worker : /\ worker[v].at \in {"taken", "gathered", "written", "failed"}
                              /\ \E k \in DOMAIN worker[v].batch : worker[v].batch[k] = j
        BY <2>6, Zenon
    <3>2. CASE v # w
        BY <1>5, <3>1, <3>2, Zenon DEF Tracked
    <3>3. CASE v = w
        BY Zenon, <1>2, <1>7, <2>3, <3>1, <3>3
    <3> QED
        BY Zenon, <3>2, <3>3
  <2> QED
      BY <2>1, <2>2, <2>5, <2>6, Zenon DEF Tracked
<1>12. Ascending(q) /\ \A k \in DOMAIN q : /\ q[k] <= jobs
                                           /\ \A i \in DOMAIN log[p] : log[p][i] < q[k]
    BY <1>2, Zenon DEF PendingLast
<1>13. Ascending(d) /\ \A k \in DOMAIN d : \E l \in DOMAIN q : d[k] = q[l]
    BY Zenon, <1>4, <1>12 DEF Moves
<1>14. PendingLast'
  <2>1. \A k \in DOMAIN d : /\ d[k] <= jobs
                            /\ \A i \in DOMAIN log[p] : log[p][i] < d[k]
      BY Zenon, <1>12, <1>13
  <2> QED
      BY <1>1, <1>6, <1>13, <2>1, ZenonT(60) DEF PendingLast, Ascending
<1>15. \A j, o : o \in Partition /\ Between(j, o) => Between(j, o)'
  <2>1. ASSUME NEW o \in Partition, NEW k \in DOMAIN pending'[o]
        PROVE  \E l \in DOMAIN pending[o] : pending'[o][k] = pending[o][l]
    <3>1. CASE o = p
        BY Zenon, <1>2, <1>6, <1>13, <2>1, <3>1
    <3>2. CASE o # p
        BY <1>6, <2>1, <3>2, ZenonT(60)
    <3> QED
        BY <3>1, <3>2, Zenon
  <2> QED
      BY <1>1, <2>1, Zenon DEF Between
<1>16. ReadyBetween'
    BY <1>1, <1>15, ReadyTyped, Zenon DEF ReadyBetween
<1>17. BatchBetween'
  <2>1. Ascending(b) /\ \A k \in DOMAIN b : Between(b[k], p)
      BY <1>1, <1>2, Zenon DEF BatchBetween
  <2>2. \A k \in DOMAIN b, l \in DOMAIN q : b[k] < q[l]
      BY <1>2, <2>1, Zenon DEF Between
  <2>3. Ascending(c) /\ \A k \in DOMAIN c, l \in DOMAIN d : c[k] < d[l]
      BY <1>4, <1>12, <2>1, <2>2, Zenon DEF Moves
  <2>4. ASSUME NEW k \in DOMAIN c PROVE Between(c[k], p)'
    <3>1. c[k] <= jobs /\ \A i \in DOMAIN log[p] : log[p][i] < c[k]
      <4>1. CASE k \in DOMAIN b
          BY Zenon, <1>7, <2>1, <4>1 DEF Between
      <4>2. CASE k \notin DOMAIN b
          BY <1>4, <1>12, <4>2, Zenon DEF Moves
      <4> QED
          BY <4>1, <4>2, Zenon
    <3> QED
        BY Zenon, <1>1, <1>6, <2>3, <3>1 DEF Between
  <2>5. \A v \in Worker : v # w /\ worker'[v].at \in {"taken", "gathered"} =>
           /\ Ascending(worker'[v].batch)
           /\ \A k \in DOMAIN worker'[v].batch : Between(worker'[v].batch[k], worker'[v].part)
      BY Zenon, <1>5 DEF BatchBetween
  <2>6. \A v \in Worker : worker'[v].part \in Partition
      BY <1>5, Zenon DEF WorkerState
  <2> QED
      BY Zenon, <1>5, <1>15, <2>3, <2>4, <2>5, <2>6 DEF BatchBetween, Ascending
<1>18. WrittenThere'
  <2>1. \A v \in Worker : worker'[v].at = "written" => worker'[v] = worker[v]
      BY <1>5, Zenon
  <2> QED
      BY <1>1, <2>1, Zenon DEF WrittenThere
<1>19. DrainedIdle' /\ ExitsLast'
    BY <1>1, <1>5, Zenon DEF DrainedIdle, ExitsLast
<1> QED
    BY <1>8, <1>9, <1>10, <1>11, <1>14, <1>16, <1>17, <1>18, <1>19, Zenon

-----------------------------------------------------------------------------
(* Append workers                                                          *)

\* A log with a batch at its end: it has grown, it is in order when the batch is and
\* follows the log, and the batch is in it.
Extends(l, b, m) ==
    /\ m \in Seq(Job \cup {0})
    /\ Len(m) = Len(l) + Len(b)
    /\ \A i \in DOMAIN l : i \in DOMAIN m /\ m[i] = l[i]
    /\ \A k \in DOMAIN b : m[Len(l) + k] = b[k]
    /\ \A i \in DOMAIN m : i \in DOMAIN l \/ \E k \in DOMAIN b : m[i] = b[k]
    /\ Ascending(l) /\ Ascending(b) /\ (\A i \in DOMAIN l, k \in DOMAIN b : l[i] < b[k])
          => Ascending(m)

\* What append_batch does with a log.
LEMMA Extended ==
    ASSUME NEW l \in Seq(Job \cup {0}), NEW b \in Seq(Job), NEW m, m = l \o b
    PROVE  Extends(l, b, m)
<1>1. b \in Seq(Job \cup {0})
    OBVIOUS
<1>2. /\ m \in Seq(Job \cup {0}) /\ DOMAIN m = 1 .. Len(l) + Len(b)
      /\ Len(m) = Len(l) + Len(b)
      /\ \A i \in DOMAIN l : m[i] = l[i]
      /\ \A k \in DOMAIN b : m[Len(l) + k] = b[k]
      /\ DOMAIN l = 1 .. Len(l) /\ DOMAIN b = 1 .. Len(b)
      /\ Len(l) \in Nat /\ Len(b) \in Nat
    BY <1>1, Together
<1>3. DOMAIN l \subseteq DOMAIN m
    BY <1>2
<1>4. \A i \in DOMAIN m : i \notin DOMAIN l =>
         i - Len(l) \in DOMAIN b /\ m[i] = b[i - Len(l)]
  <2>1. ASSUME NEW i \in DOMAIN m, i \notin DOMAIN l
        PROVE  i - Len(l) \in DOMAIN b /\ Len(l) + (i - Len(l)) = i
      BY <1>2, <2>1
  <2> QED
      BY <1>2, <2>1, Zenon
<1>5. ASSUME Ascending(l), Ascending(b), \A i \in DOMAIN l, k \in DOMAIN b : l[i] < b[k],
             NEW i \in DOMAIN m, NEW k \in DOMAIN m, i < k, m[i] # 0, m[k] # 0
      PROVE  m[i] < m[k]
  <2>1. CASE k \in DOMAIN l
    <3>1. i \in DOMAIN l
        BY <1>2, <1>5, <2>1
    <3> QED
        BY <1>2, <1>5, <2>1, <3>1, Zenon DEF Ascending
  <2>2. CASE k \notin DOMAIN l /\ i \in DOMAIN l
      BY <1>2, <1>4, <1>5, <2>2, Zenon
  <2>3. CASE k \notin DOMAIN l /\ i \notin DOMAIN l
    <3>1. i - Len(l) < k - Len(l)
        BY <1>2, <1>5
    <3> QED
        BY <1>4, <1>5, <2>3, <3>1, Zenon DEF Ascending
  <2> QED
      BY <2>1, <2>2, <2>3, Zenon
<1>6. \A i \in DOMAIN m : i \in DOMAIN l \/ \E k \in DOMAIN b : m[i] = b[k]
    BY <1>4, Zenon
<1>7. Ascending(l) /\ Ascending(b) /\ (\A i \in DOMAIN l, k \in DOMAIN b : l[i] < b[k])
          => Ascending(m)
    BY <1>5, Zenon DEF Ascending
<1> QED
    BY <1>2, <1>3, <1>6, <1>7, Zenon DEF Extends

\* The append of a batch, whether it succeeds, fails, or fails after it has written,
\* keeps the invariant: nobody else has the partition, and its jobs follow those in
\* the log.
LEMMA WriteKeeps ==
    ASSUME NEW w \in Worker, QueueIInv,
           AppendBatch(w) \/ \E late \in BOOLEAN : AppendFails(w, late)
    PROVE  QueueIInv'
<1>1. /\ UNCHANGED <<pending, appending, ready, stopping, topic, drained, jobs, answer>>
      /\ worker[w].at = "gathered"
    BY ZenonT(60) DEF AppendBatch, AppendFails, queueVars, topicVars
<1>2. PICK p \in Partition, b \in Seq(Job), l \in Seq(Job \cup {0}) :
         p = worker[w].part /\ b = worker[w].batch /\ l = log[p]
    BY WorkerTyped, JobsTyped, Zenon DEF QueueIInv
<1> USE DEF QueueIInv
<1>3. PICK c, m :
         /\ c = b \/ c = <<>>
         /\ Extends(l, c, m)
         /\ log' \in [Partition -> Seq(Job \cup {0})]
         /\ log'[p] = m
         /\ \A o \in Partition : o # p => log'[o] = log[o]
         /\ worker'[w].at = "written" => c = b /\ worker'[w].base = Len(l)
         /\ worker' \in [Worker -> WorkerState]
         /\ worker'[w].at \in {"written", "failed"}
         /\ worker'[w].part = p /\ worker'[w].batch = b
         /\ \A v \in Worker : v # w => worker'[v] = worker[v]
  <2>1. /\ worker \in [Worker -> WorkerState] /\ log \in [Partition -> Seq(Job \cup {0})]
        /\ Len(l) \in Nat /\ <<>> \in Seq(Job) /\ l \o <<>> = l
      BY DEF QueueTypeOK
  <2>2. Extends(l, b, l \o b) /\ Extends(l, <<>>, l)
      BY <2>1, Extended, ZenonT(60)
  <2>3. ASSUME log' = [log EXCEPT ![p] = l \o b]
        PROVE  /\ log' \in [Partition -> Seq(Job \cup {0})]
               /\ log'[p] = l \o b
               /\ \A o \in Partition : o # p => log'[o] = log[o]
    <3>1. l \o b \in Seq(Job \cup {0})
        BY <2>2, Zenon DEF Extends
    <3> QED
        BY <2>1, <2>3, <3>1, Zenon
  <2>4. CASE AppendBatch(w)
    <3>1. /\ log' = [log EXCEPT ![p] = l \o b]
          /\ worker' = [worker EXCEPT ![w].at = "written", ![w].base = Len(l)]
        BY <1>2, <2>4, Zenon DEF AppendBatch
    <3>2. worker'[w] = [at |-> "written", part |-> worker[w].part, batch |-> worker[w].batch,
                        base |-> Len(l)]
        BY <2>1, <3>1, ZenonT(60) DEF WorkerState
    <3>3. worker'[w] \in WorkerState
        BY <2>1, <3>2 DEF WorkerState
    <3>4. worker' \in [Worker -> WorkerState] /\ \A v \in Worker : v # w => worker'[v] = worker[v]
        BY <2>1, <3>1, <3>3, Zenon
    <3>5. /\ worker'[w].at = "written" /\ worker'[w].base = Len(l)
          /\ worker'[w].part = p /\ worker'[w].batch = b
        BY <1>2, <3>2
    <3>6. /\ log' \in [Partition -> Seq(Job \cup {0})]
          /\ log'[p] = l \o b
          /\ \A o \in Partition : o # p => log'[o] = log[o]
        BY <2>3, <3>1, Zenon
    <3> WITNESS b, l \o b
    <3> QED
        BY <2>2, <3>4, <3>5, <3>6, Zenon
  <2>5. CASE \E late \in BOOLEAN : AppendFails(w, late)
    <3>1. /\ \/ log' = [log EXCEPT ![p] = l \o b]
             \/ log' = log
          /\ worker' = [worker EXCEPT ![w].at = "failed"]
        BY <1>2, <2>5, Zenon DEF AppendFails
    <3>2. worker'[w] = [at |-> "failed", part |-> worker[w].part, batch |-> worker[w].batch,
                        base |-> worker[w].base]
        BY <2>1, <3>1, Zenon DEF WorkerState
    <3>3. worker'[w] \in WorkerState
        BY <2>1, <3>2 DEF WorkerState
    <3>4. worker' \in [Worker -> WorkerState] /\ \A v \in Worker : v # w => worker'[v] = worker[v]
        BY <2>1, <3>1, <3>3, Zenon
    <3>5. worker'[w].at = "failed" /\ worker'[w].part = p /\ worker'[w].batch = b
        BY <1>2, <3>2
    <3>6. CASE log' = log
      <4>1. log'[p] = l
          BY Zenon, <1>2, <3>6
      <4> WITNESS <<>>, l
      <4> QED
          BY <2>1, <2>2, <3>4, <3>5, <3>6, <4>1, Zenon
    <3>7. CASE log' = [log EXCEPT ![p] = l \o b]
      <4>1. /\ log' \in [Partition -> Seq(Job \cup {0})]
            /\ log'[p] = l \o b
            /\ \A o \in Partition : o # p => log'[o] = log[o]
          BY Zenon, <2>3, <3>7
      <4> WITNESS b, l \o b
      <4> QED
          BY <2>2, <3>4, <3>5, <4>1, Zenon
    <3> QED
        BY <3>1, <3>6, <3>7, ZenonT(60)
  <2> QED
      BY <2>4, <2>5, ZenonT(60)
<1>4. QueueTypeOK'
    BY <1>1, <1>3, ZenonT(60) DEF QueueTypeOK
<1>5. \A v \in Worker, o \in Partition : Has(v, o)' <=> Has(v, o)
    BY <1>1, <1>2, <1>3, ZenonT(60) DEF Has
<1>6. OneAppender'
    BY <1>1, <1>5, SameAppender, Zenon DEF OneAppender
<1>7. /\ \A k \in DOMAIN ready : ready[k].part \in Partition \ {p}
      /\ \A v \in Worker : v # w /\ worker[v].at \notin {"idle", "exited"}
                              => worker[v].part \in Partition \ {p}
  <2>1. Has(w, p)
      BY <1>1, <1>2, Zenon DEF Has
  <2>2. \A k \in DOMAIN ready : ready[k].part # p
      BY <2>1 DEF OneAppender
  <2>3. \A v \in Worker : v # w => ~Has(v, p)
      BY <2>1, Zenon DEF OneAppender
  <2> QED
      BY Zenon, <2>2, <2>3, ReadyTyped, WorkerTyped DEF Has
<1>8. /\ Ascending(b)
      /\ \A k \in DOMAIN b : /\ b[k] <= jobs
                             /\ \A i \in DOMAIN l : l[i] < b[k]
                             /\ \A i \in DOMAIN pending[p] : b[k] < pending[p][i]
  <2>1. Ascending(b) /\ \A k \in DOMAIN b : Between(b[k], p)
      BY <1>1, <1>2, Zenon DEF BatchBetween
  <2> QED
      BY <1>2, <2>1, Zenon DEF Between
<1>9. \A k \in DOMAIN c : k \in DOMAIN b /\ c[k] = b[k]
    BY <1>3
<1>10. \A i \in DOMAIN m : \/ i \in DOMAIN l /\ m[i] = l[i]
                           \/ \E k \in DOMAIN b : m[i] = b[k]
    BY <1>3, <1>9 DEF Extends
<1>11. OrderKept'
  <2>1. Ascending(m)
    <3>1. Ascending(l)
        BY <1>2, Zenon DEF OrderKept
    <3>2. Ascending(c) /\ \A i \in DOMAIN l, k \in DOMAIN c : l[i] < c[k]
        BY Zenon, <1>3, <1>8, <1>9 DEF Ascending
    <3> QED
        BY <1>3, <3>1, <3>2, Zenon DEF Extends
  <2>2. ASSUME NEW j \in Job, answer[j].is = "ok"
        PROVE  /\ answer[j].offset < Len(log'[answer[j].part])
               /\ log'[answer[j].part][answer[j].offset + 1] \in {0, j}
    <3>1. answer[j].part \in Partition /\ answer[j].offset \in Nat
        BY Zenon DEF QueueTypeOK
    <3>2. /\ answer[j].offset < Len(log[answer[j].part])
          /\ log[answer[j].part][answer[j].offset + 1] \in {0, j}
        BY Zenon, <2>2 DEF OrderKept
    <3>3. CASE answer[j].part # p
        BY <1>3, <3>1, <3>2, <3>3, Zenon
    <3>4. CASE answer[j].part = p
      <4>1. Len(l) \in Nat /\ Len(c) \in Nat /\ DOMAIN l = 1 .. Len(l)
          BY <1>2, <1>3
      <4>2. answer[j].offset + 1 \in DOMAIN l
          BY <1>2, <3>1, <3>2, <3>4, <4>1, SMTT(60)
      <4>3. Len(m) = Len(l) + Len(c) /\ m[answer[j].offset + 1] = l[answer[j].offset + 1]
          BY <1>3, <4>2, Zenon DEF Extends
      <4> QED
        <5>1. answer[j].offset < Len(l) /\ l[answer[j].offset + 1] \in {0, j}
            BY <1>2, <3>2, <3>4, Zenon
        <5>2. answer[j].offset < Len(l) + Len(c)
            BY <3>1, <4>1, <5>1
        <5> QED
            BY <1>3, <3>4, <4>3, <5>1, <5>2, Zenon
    <3> QED
        BY <3>3, <3>4, Zenon
  <2>3. \A o \in Partition : Ascending(log'[o])
      BY <1>3, <2>1, ZenonT(60) DEF OrderKept
  <2> QED
      BY <1>1, <2>2, <2>3, Zenon DEF OrderKept, Ascending
<1>12. JobsTracked'
  <2>1. \A v \in Worker :
           /\ worker'[v].batch = worker[v].batch
           /\ worker[v].at \in {"taken", "gathered", "written", "failed"}
                 => worker'[v].at \in {"taken", "gathered", "written", "failed"}
      BY <1>1, <1>2, <1>3, Zenon
  <2>2. ASSUME NEW j \in 1 .. jobs PROVE Tracked(j)'
    <3>1. Tracked(j)
        BY Zenon DEF JobsTracked
    <3> QED
        BY <1>1, <2>1, <3>1, Zenon DEF Tracked
  <2> QED
      BY Zenon, <1>1, <2>2 DEF JobsTracked
<1>13. PendingLast'
  <2>1. \A k \in DOMAIN pending[p] : \A i \in DOMAIN m : m[i] < pending[p][k]
      BY Zenon, <1>2, <1>8, <1>10 DEF PendingLast
  <2> QED
      BY <1>1, <1>3, <2>1, ZenonT(60) DEF PendingLast, Ascending
<1>14. \A j : \A o \in Partition \ {p} : Between(j, o)' <=> Between(j, o)
    BY <1>1, <1>3, Zenon DEF Between
<1>15. ReadyBetween'
    BY <1>1, <1>7, <1>14, Zenon DEF ReadyBetween
<1>16. BatchBetween'
  <2>1. ASSUME NEW v \in Worker, worker'[v].at \in {"taken", "gathered"}
        PROVE  /\ worker'[v] = worker[v] /\ worker[v].part \in Partition \ {p}
               /\ Ascending(worker[v].batch)
               /\ \A k \in DOMAIN worker[v].batch : Between(worker[v].batch[k], worker[v].part)
      BY <1>3, <1>7, <2>1, ZenonT(60) DEF BatchBetween
  <2> QED
      BY Zenon, <1>14, <2>1 DEF BatchBetween, Ascending
<1>17. LogBelow'
  <2>1. \A i \in DOMAIN m : m[i] <= jobs
      BY <1>2, <1>8, <1>10, Zenon DEF LogBelow
  <2> QED
      BY <1>1, <1>3, <2>1, ZenonT(60) DEF LogBelow
<1>18. WrittenThere'
  <2>1. ASSUME NEW v \in Worker, worker'[v].at = "written"
        PROVE  /\ worker'[v].base + Len(worker'[v].batch) <= Len(log'[worker'[v].part])
               /\ \A k \in DOMAIN worker'[v].batch :
                     log'[worker'[v].part][worker'[v].base + k] = worker'[v].batch[k]
    <3>1. CASE v = w
      <4>1. Len(l) \in Nat /\ Len(b) \in Nat
          BY <1>2
      <4>2. /\ c = b /\ worker'[w].base = Len(l)
            /\ Len(m) = Len(l) + Len(b) /\ \A k \in DOMAIN b : m[Len(l) + k] = b[k]
          BY Zenon, <1>3, <2>1, <3>1 DEF Extends
      <4>3. worker'[w].part = p /\ worker'[w].batch = b /\ log'[p] = m /\ Len(m) \in Nat
          BY <1>3 DEF Extends
      <4> QED
          BY <3>1, <4>1, <4>2, <4>3
    <3>2. CASE v # w
      <4>1. worker'[v] = worker[v] /\ worker[v].part \in Partition \ {p}
          BY <1>3, <1>7, <2>1, <3>2, ZenonT(60)
      <4>2. log'[worker[v].part] = log[worker[v].part]
          BY Zenon, <1>3, <4>1
      <4> QED
          BY <2>1, <4>1, <4>2 DEF WrittenThere
    <3> QED
        BY <3>1, <3>2, Zenon
  <2> QED
      BY <2>1, Zenon DEF WrittenThere
<1>19. DrainedIdle' /\ ExitsLast'
    BY <1>1, <1>3, Zenon DEF DrainedIdle, ExitsLast
<1> QED
    BY <1>4, <1>6, <1>11, <1>12, <1>13, <1>15, <1>16, <1>17, <1>18, <1>19, Zenon

\* Posting the results keeps the invariant: the offsets that are handed out are
\* those of the batch in the log.
LEMMA PostResultsKeeps ==
    ASSUME NEW w \in Worker
    PROVE  QueueIInv /\ PostResults(w) => QueueIInv'
<1> SUFFICES ASSUME QueueIInv, PostResults(w) PROVE QueueIInv'
    BY Zenon
<1> USE DEF QueueIInv
<1>1. /\ UNCHANGED <<log, pending, appending, ready, stopping, topic, drained, jobs>>
      /\ worker[w].at \in {"written", "failed"}
    BY Zenon DEF PostResults, queueVars, topicVars
<1>2. PICK p \in Partition, b \in Seq(Job), n \in Nat :
         p = worker[w].part /\ b = worker[w].batch /\ n = worker[w].base
    BY Zenon, WorkerTyped
<1>3. /\ worker' \in [Worker -> WorkerState]
      /\ worker'[w].at = "posted" /\ worker'[w].part = p
      /\ \A v \in Worker : v # w => worker'[v] = worker[v]
  <2>1. worker \in [Worker -> WorkerState] /\ worker' = [worker EXCEPT ![w].at = "posted"]
      BY Zenon DEF QueueTypeOK, PostResults
  <2>2. worker'[w] = [at |-> "posted", part |-> worker[w].part, batch |-> worker[w].batch,
                      base |-> worker[w].base]
      BY <2>1, ZenonT(60) DEF WorkerState
  <2>3. worker'[w] \in WorkerState
      BY Zenon, <2>1, <2>2 DEF WorkerState
  <2>4. worker' \in [Worker -> WorkerState] /\ \A v \in Worker : v # w => worker'[v] = worker[v]
      BY <2>1, <2>3, Zenon
  <2> QED
      BY <1>2, <2>2, <2>4
<1>4. ASSUME NEW j \in Job
      PROVE  \/ answer'[j] = answer[j] /\ \A k \in DOMAIN b : b[k] # j
             \/ \E k \in DOMAIN b :
                   /\ b[k] = j
                   /\ answer'[j] = [is |-> IF worker[w].at = "written" THEN "ok" ELSE "error",
                                    part |-> p, offset |-> n + k - 1]
  <2>1. answer'[j] = IF \A k \in DOMAIN b : b[k] # j THEN answer[j]
                     ELSE [is |-> IF worker[w].at = "written" THEN "ok" ELSE "error",
                           part |-> p, offset |-> n + (CHOOSE k \in DOMAIN b : b[k] = j) - 1]
      BY <1>2, Zenon DEF PostResults
  <2> QED
      BY <2>1, ZenonT(60)
<1>5. DOMAIN b \subseteq Nat \ {0} /\ \A k \in DOMAIN b : b[k] \in Job
    BY <1>2
<1>6. answer' \in [Job -> [is : {"none", "ok", "error"}, part : Partition, offset : Nat]]
  <2>1. ASSUME NEW j \in Job
        PROVE  answer'[j] \in [is : {"none", "ok", "error"}, part : Partition, offset : Nat]
    <3>1. answer[j] \in [is : {"none", "ok", "error"}, part : Partition, offset : Nat]
        BY Zenon DEF QueueTypeOK
    <3>2. ASSUME NEW k \in DOMAIN b, NEW is \in {"ok", "error"}
          PROVE  [is |-> is, part |-> p, offset |-> n + k - 1]
                     \in [is : {"none", "ok", "error"}, part : Partition, offset : Nat]
      <4>1. n + k - 1 \in Nat
          BY <1>5
      <4> QED
          BY <4>1, Zenon
    <3>3. (IF worker[w].at = "written" THEN "ok" ELSE "error") \in {"ok", "error"}
        BY Zenon
    <3>4. CASE \E k \in DOMAIN b :
                  answer'[j] = [is |-> IF worker[w].at = "written" THEN "ok" ELSE "error",
                                part |-> p, offset |-> n + k - 1]
      <4>1. PICK k \in DOMAIN b :
                  answer'[j] = [is |-> IF worker[w].at = "written" THEN "ok" ELSE "error",
                                part |-> p, offset |-> n + k - 1]
          BY <3>4, Zenon
      <4> QED
          BY ONLY <3>2, <3>3, <4>1, k \in DOMAIN b, Zenon
    <3> QED
        BY Zenon, <1>4, <3>1, <3>4
  <2>2. answer' = [j \in Job |-> answer'[j]]
      BY Zenon DEF PostResults
  <2> QED
      BY <2>1, <2>2, Zenon
<1>7. QueueTypeOK'
    BY <1>1, <1>3, <1>6, Zenon DEF QueueTypeOK
<1>8. OneAppender'
  <2>1. \A v \in Worker, o \in Partition : Has(v, o)' <=> Has(v, o)
      BY <1>1, <1>2, <1>3, Zenon DEF Has
  <2> QED
      BY Zenon, <1>1, <2>1, SameAppender DEF OneAppender
<1>9. OrderKept'
  <2>1. ASSUME NEW j \in Job, answer'[j].is = "ok"
        PROVE  /\ answer'[j].offset < Len(log[answer'[j].part])
               /\ log[answer'[j].part][answer'[j].offset + 1] \in {0, j}
    <3>1. CASE answer'[j] = answer[j]
        BY <2>1, <3>1, Zenon DEF OrderKept
    <3>2. CASE answer'[j] # answer[j]
      <4>1. PICK k \in DOMAIN b :
               /\ b[k] = j
               /\ answer'[j] = [is |-> IF worker[w].at = "written" THEN "ok" ELSE "error",
                                part |-> p, offset |-> n + k - 1]
          BY <1>4, <3>2, Zenon
      <4>2. worker[w].at = "written"
          BY <2>1, <4>1
      <4>3. n + Len(b) <= Len(log[p]) /\ log[p][n + k] = j
          BY <1>2, <4>1, <4>2, ZenonT(60) DEF WrittenThere
      <4>4. Len(log[p]) \in Nat /\ Len(b) \in Nat /\ k \in 1 .. Len(b)
          BY <1>2, JobsTyped
      <4>5. answer'[j].part = p /\ answer'[j].offset = n + k - 1
          BY <4>1
      <4>6. n + k - 1 < Len(log[p]) /\ n + k - 1 + 1 = n + k
          BY <4>3, <4>4, SMTT(60)
      <4> QED
          BY <4>3, <4>5, <4>6, Zenon
    <3> QED
        BY <3>1, <3>2, Zenon
  <2> QED
      BY Zenon, <1>1, <2>1 DEF OrderKept, Ascending
<1>10. JobsTracked'
  <2> SUFFICES ASSUME NEW j \in 1 .. jobs PROVE Tracked(j)'
      BY Zenon, <1>1 DEF JobsTracked
  <2>1. Tracked(j) /\ j \in Job
      BY QueueAssumption, SMTT(60) DEF JobsTracked, QueueTypeOK, Job
  <2>2. CASE \E k \in DOMAIN b : b[k] = j
    <3>1. answer'[j].is \in {"ok", "error"}
      <4>1. \E k \in DOMAIN b :
                  answer'[j] = [is |-> IF worker[w].at = "written" THEN "ok" ELSE "error",
                                part |-> p, offset |-> n + k - 1]
          BY <1>4, <2>1, <2>2, Zenon
      <4> QED
          BY <4>1
    <3> QED
        BY <3>1, Zenon DEF Tracked
  <2>3. CASE \A k \in DOMAIN b : b[k] # j
    <3>1. answer'[j] = answer[j]
        BY <1>4, <2>1, <2>3, ZenonT(60)
    <3>2. \A v \in Worker : (\E k \in DOMAIN worker[v].batch : worker[v].batch[k] = j)
                               => worker'[v] = worker[v]
        BY <1>2, <1>3, <2>3, Zenon
    <3> QED
        BY Zenon, <1>1, <2>1, <3>1, <3>2 DEF Tracked
  <2> QED
      BY <2>2, <2>3, Zenon
<1>11. PendingLast' /\ LogBelow'
    BY <1>1, Zenon DEF PendingLast, LogBelow, Ascending
<1>12. ReadyBetween'
    BY <1>1, ZenonT(60) DEF ReadyBetween, Between
<1>13. \A v \in Worker : worker'[v].at \in {"taken", "gathered", "written"}
                            => worker'[v] = worker[v]
    BY Zenon, <1>3
<1>14. BatchBetween'
    BY <1>1, <1>13, ZenonT(60) DEF BatchBetween, Between, Ascending
<1>15. WrittenThere'
  <2>1. \A v \in Worker : worker'[v].at = "written" => worker'[v] = worker[v]
      BY <1>13, Zenon
  <2>2. log' = log
      BY <1>1, Zenon
  <2> QED
      BY <2>1, <2>2, WrittenStays, Zenon
<1>16. DrainedIdle' /\ ExitsLast'
    BY <1>1, <1>3, Zenon DEF DrainedIdle, ExitsLast
<1> QED
    BY Zenon, <1>7, <1>8, <1>9, <1>10, <1>11, <1>12, <1>14, <1>15, <1>16

\* A worker that has rested has nothing in hand; the other workers are as they were.
LEMMA CompleteWorkers ==
    ASSUME NEW w \in Worker, QueueTypeOK, CompleteAppend(w)
    PROVE  /\ worker' \in [Worker -> WorkerState]
           /\ worker'[w].at = "idle"
           /\ \A v \in Worker : v # w => worker'[v] = worker[v]
           /\ \A v \in Worker, o \in Partition : v # w => (Has(v, o)' <=> Has(v, o))
           /\ \A o \in Partition : ~Has(w, o)'
           /\ \A v \in Worker : worker'[v].at \notin {"idle", "exited"} => worker'[v] = worker[v]
<1>1. worker \in [Worker -> WorkerState] /\ worker' = [worker EXCEPT ![w] = Rested]
    BY Zenon DEF QueueTypeOK, CompleteAppend
<1>2. Rested \in WorkerState /\ Rested.at = "idle"
    BY QueueAssumption DEF Rested, WorkerState, Partition
<1>3. /\ worker' \in [Worker -> WorkerState]
      /\ worker'[w].at = "idle"
      /\ \A v \in Worker : v # w => worker'[v] = worker[v]
    BY <1>1, <1>2, Zenon
<1> QED
    BY <1>3, Zenon DEF Has

\* Handing the next job of the partition to the workers keeps the invariant.
LEMMA CompleteMore ==
    ASSUME NEW w \in Worker, QueueIInv, CompleteAppend(w), pending[worker[w].part] # <<>>
    PROVE  QueueIInv'
<1> USE DEF QueueIInv
<1>1. /\ UNCHANGED <<log, appending, stopping, topic, drained, jobs, answer>>
      /\ worker[w].at = "posted"
    BY Zenon DEF CompleteAppend, topicVars
<1>2. PICK p \in Partition, q \in Seq(Job) : p = worker[w].part /\ q = pending[p] /\ q # <<>>
    BY WorkerTyped, JobsTyped, Zenon
<1>3. PICK r, d : /\ r = [part |-> p, job |-> Head(q)] /\ d = Tail(q)
                  /\ ready' = Append(ready, r) /\ pending' = [pending EXCEPT ![p] = d]
    BY <1>2, ZenonT(60) DEF CompleteAppend
<1>4. /\ d \in Seq(Job) /\ Head(q) \in Job /\ Head(q) = q[1] /\ 1 \in DOMAIN q
      /\ \A k \in DOMAIN d : k \in Nat /\ k + 1 \in DOMAIN q /\ d[k] = q[k + 1] /\ 1 < k + 1
      /\ \A k \in DOMAIN q : k # 1 => k - 1 \in DOMAIN d /\ d[k - 1] = q[k]
  <2>1. /\ Tail(q) \in Seq(Job) /\ Head(q) \in Job /\ Head(q) = q[1]
        /\ DOMAIN Tail(q) = 1 .. Len(q) - 1
        /\ \A i \in 1 .. Len(q) - 1 : Tail(q)[i] = q[i + 1]
        /\ DOMAIN q = 1 .. Len(q) /\ Len(q) \in Nat \ {0}
      BY <1>2, Rest, Zenon
  <2>2. d = Tail(q)
      BY <1>3, Zenon
  <2> QED
      BY <2>1, <2>2
<1>5. r \in ReadyAppend /\ r.part = p /\ r.job = q[1]
    BY <1>3, <1>4, Zenon DEF ReadyAppend
<1>6. /\ ready' \in Seq(ReadyAppend)
      /\ DOMAIN ready \subseteq DOMAIN ready'
      /\ \A k \in DOMAIN ready : ready'[k] = ready[k] /\ k # Len(ready) + 1
      /\ Len(ready) + 1 \in DOMAIN ready' /\ ready'[Len(ready) + 1] = r
      /\ \A k \in DOMAIN ready' : k \in DOMAIN ready \/ k = Len(ready) + 1
  <2>1. ready' = Append(ready, r)
      BY <1>3, Zenon
  <2> QED
      BY <1>5, <2>1, ReadyAppended, Zenon
<1>7. /\ pending' \in [Partition -> Seq(Job)]
      /\ pending'[p] = d
      /\ \A o \in Partition : o # p => pending'[o] = pending[o]
    BY <1>3, <1>4, Zenon DEF QueueTypeOK
<1>8. /\ worker' \in [Worker -> WorkerState]
      /\ worker'[w].at = "idle"
      /\ \A v \in Worker : v # w => worker'[v] = worker[v]
      /\ \A v \in Worker, o \in Partition : v # w => (Has(v, o)' <=> Has(v, o))
      /\ \A o \in Partition : ~Has(w, o)'
      /\ \A v \in Worker : worker'[v].at \notin {"idle", "exited"} => worker'[v] = worker[v]
    BY Zenon, CompleteWorkers
<1>9. QueueTypeOK'
    BY <1>1, <1>6, <1>7, <1>8, Zenon DEF QueueTypeOK
<1>10. /\ Has(w, p) /\ \A o \in Partition : Has(w, o) => o = p
       /\ \A k \in DOMAIN ready : ready[k].part # p
       /\ \A v \in Worker : v # w => ~Has(v, p)
  <2>1. Has(w, p) /\ \A o \in Partition : Has(w, o) => o = p
      BY <1>1, <1>2, Zenon DEF Has
  <2> QED
      BY <2>1 DEF OneAppender
<1>11. OneAppender'
  <2>1. \A k, l \in DOMAIN ready' : ready'[k].part = ready'[l].part => k = l
      BY <1>5, <1>6, <1>10 DEF OneAppender
  <2>2. (\A v \in Worker, k \in DOMAIN ready : ~Has(v, ready[k].part))'
    <3>1. ASSUME NEW k \in DOMAIN ready', NEW v \in Worker, v # w
          PROVE  ready'[k].part \in Partition /\ ~Has(v, ready'[k].part)
      <4>1. CASE k \in DOMAIN ready
          BY <1>6, <4>1, ReadyTyped, Zenon DEF OneAppender
      <4>2. CASE k \notin DOMAIN ready
          BY <1>5, <1>6, <1>10, <3>1, <4>2, Zenon
      <4> QED
          BY Zenon, <4>1, <4>2
    <3> QED
        BY <1>8, <3>1 DEF Has
  <2>3. \A u, v \in Worker, o \in Partition : Has(u, o)' /\ Has(v, o)' => u = v
      BY Zenon, <1>8 DEF OneAppender
  <2>4. ASSUME NEW o \in Partition
        PROVE  /\ appending[o] <=> \/ \E k \in DOMAIN ready' : ready'[k].part = o
                                   \/ \E v \in Worker : Has(v, o)'
               /\ pending'[o] # <<>> => appending[o]
    <3>1. CASE o = p
        BY Zenon, <1>5, <1>6, <1>10, <3>1 DEF OneAppender
    <3>2. CASE o # p
      <4>1. (\E k \in DOMAIN ready' : ready'[k].part = o)
               <=> \E k \in DOMAIN ready : ready[k].part = o
          BY <1>5, <1>6, <3>2, Zenon
      <4>2. (\E v \in Worker : Has(v, o)') <=> \E v \in Worker : Has(v, o)
          BY Zenon, <1>8, <1>10, <3>2
      <4> QED
          BY Zenon, <1>7, <3>2, <4>1, <4>2 DEF OneAppender
    <3> QED
        BY Zenon, <3>1, <3>2
  <2> QED
      BY Zenon, <1>1, <2>1, <2>2, <2>3, <2>4 DEF OneAppender
<1>12. OrderKept' /\ LogBelow'
    BY <1>1, Zenon DEF OrderKept, LogBelow, Ascending
<1>13. JobsTracked'
  <2> SUFFICES ASSUME NEW j \in 1 .. jobs PROVE Tracked(j)'
      BY Zenon, <1>1 DEF JobsTracked
  <2>1. Tracked(j)
      BY Zenon DEF JobsTracked
  <2>2. CASE answer[j].is # "none" \/ \E k \in DOMAIN ready : ready[k].job = j
      BY <1>1, <1>6, <2>2, Zenon DEF Tracked
  <2>3. CASE \E o \in Partition : \E k \in DOMAIN pending[o] : pending[o][k] = j
    <3>1. PICK o \in Partition : \E k \in DOMAIN pending[o] : pending[o][k] = j
        BY <2>3, Zenon
    <3>2. PICK k \in DOMAIN pending[o] : pending[o][k] = j
        BY Zenon, <3>1
    <3>3. CASE o # p
        BY <1>7, <3>2, <3>3, Zenon DEF Tracked
    <3>4. CASE o = p /\ k = 1
        BY Zenon, <1>2, <1>5, <1>6, <3>2, <3>4 DEF Tracked
    <3>5. CASE o = p /\ k # 1
      <4>1. \E i \in DOMAIN d : d[i] = j
          BY Zenon, <1>2, <1>4, <3>2, <3>5
      <4> QED
          BY <1>7, <4>1, Zenon DEF Tracked
    <3> QED
        BY <3>3, <3>4, <3>5, Zenon
  <2>4. CASE \E v \in Worker : /\ worker[v].at \in {"taken", "gathered", "written", "failed"}
                               /\ \E k \in DOMAIN worker[v].batch : worker[v].batch[k] = j
      BY Zenon, <1>1, <1>8, <2>4 DEF Tracked
  <2> QED
      BY <2>1, <2>2, <2>3, <2>4, Zenon DEF Tracked
<1>14. /\ Ascending(q)
       /\ \A k \in DOMAIN q : q[k] <= jobs /\ \A i \in DOMAIN log[p] : log[p][i] < q[k]
    BY <1>2, Zenon DEF PendingLast
<1>15. \A k \in DOMAIN d : \E l \in DOMAIN q : d[k] = q[l] /\ q[1] < q[l]
  <2>1. \A k \in DOMAIN q : q[k] \in Nat \ {0}
      BY Zenon, <1>2, JobsTyped
  <2> QED
      BY Zenon, <1>4, <1>14, <2>1 DEF Ascending
<1>16. PendingLast'
  <2>1. Ascending(d)
    <3>1. \A i, k \in DOMAIN d : i < k => i + 1 < k + 1
        BY <1>4
    <3> QED
        BY Zenon, <1>4, <1>14, <3>1 DEF Ascending
  <2>2. \A k \in DOMAIN d : d[k] <= jobs /\ \A i \in DOMAIN log[p] : log[p][i] < d[k]
      BY <1>14, <1>15, Zenon
  <2> QED
      BY <1>1, <1>7, <2>1, <2>2, Zenon DEF PendingLast, Ascending
<1>17. \A j, o : o \in Partition \ {p} => (Between(j, o)' <=> Between(j, o))
    BY <1>1, <1>7, Zenon DEF Between
<1>18. ReadyBetween'
  <2>1. Between(q[1], p)'
    <3>1. \A k \in DOMAIN d : q[1] < d[k]
        BY <1>15, Zenon
    <3> QED
        BY <1>1, <1>4, <1>7, <1>14, <3>1, Zenon DEF Between
  <2>2. ASSUME NEW k \in DOMAIN ready PROVE Between(ready[k].job, ready[k].part)'
    <3>1. Between(ready[k].job, ready[k].part) /\ ready[k].part \in Partition \ {p}
        BY Zenon, <1>10, ReadyTyped DEF ReadyBetween
    <3>2. /\ log'[ready[k].part] = log[ready[k].part]
          /\ pending'[ready[k].part] = pending[ready[k].part]
        BY <1>1, <1>7, <3>1, Zenon
    <3> QED
        BY <1>1, <1>6, <3>1, <3>2, Zenon DEF Between
  <2> QED
      BY <1>5, <1>6, <2>1, <2>2, Zenon DEF ReadyBetween
<1>19. BatchBetween'
  <2>1. ASSUME NEW v \in Worker, worker'[v].at \in {"taken", "gathered"}
        PROVE  /\ worker'[v] = worker[v] /\ worker[v].part \in Partition \ {p}
               /\ Ascending(worker[v].batch)
               /\ \A k \in DOMAIN worker[v].batch : Between(worker[v].batch[k], worker[v].part)
    <3>1. worker'[v] = worker[v] /\ v # w
        BY Zenon, <1>8, <2>1
    <3>2. worker[v].part \in Partition \ {p}
        BY Zenon, <1>10, <2>1, <3>1, WorkerTyped DEF Has
    <3> QED
        BY <2>1, <3>1, <3>2, Zenon DEF BatchBetween
  <2> QED
      BY Zenon, <1>17, <2>1 DEF BatchBetween, Ascending
<1>20. WrittenThere'
  <2>1. \A v \in Worker : worker'[v].at = "written" => worker'[v] = worker[v]
      BY <1>8, Zenon
  <2>2. log' = log
      BY <1>1, Zenon
  <2> QED
      BY <2>1, <2>2, WrittenStays, Zenon
<1>21. DrainedIdle' /\ ExitsLast'
    BY <1>1, <1>8, Zenon DEF DrainedIdle, ExitsLast
<1> QED
    BY Zenon, <1>9, <1>11, <1>12, <1>13, <1>16, <1>18, <1>19, <1>20, <1>21

\* Marking the partition inactive keeps the invariant: nothing is left for it.
LEMMA CompleteLast ==
    ASSUME NEW w \in Worker, QueueIInv, CompleteAppend(w), pending[worker[w].part] = <<>>
    PROVE  QueueIInv'
<1> USE DEF QueueIInv
<1>1. /\ UNCHANGED <<log, pending, ready, stopping, topic, drained, jobs, answer>>
      /\ worker[w].at = "posted"
    BY Zenon DEF CompleteAppend, topicVars
<1>2. PICK p \in Partition : p = worker[w].part /\ pending[p] = <<>>
    BY WorkerTyped, Zenon
<1>3. /\ appending' \in [Partition -> BOOLEAN]
      /\ ~appending'[p] /\ \A o \in Partition : o # p => appending'[o] = appending[o]
    BY <1>2, ZenonT(60) DEF CompleteAppend, QueueTypeOK
<1>4. /\ worker' \in [Worker -> WorkerState]
      /\ worker'[w].at = "idle"
      /\ \A v \in Worker : v # w => worker'[v] = worker[v]
      /\ \A v \in Worker, o \in Partition : v # w => (Has(v, o)' <=> Has(v, o))
      /\ \A o \in Partition : ~Has(w, o)'
      /\ \A v \in Worker : worker'[v].at \notin {"idle", "exited"} => worker'[v] = worker[v]
    BY Zenon, CompleteWorkers
<1>5. QueueTypeOK'
    BY <1>1, <1>3, <1>4, Zenon DEF QueueTypeOK
<1>6. /\ Has(w, p) /\ \A o \in Partition : Has(w, o) => o = p
      /\ \A k \in DOMAIN ready : ready[k].part # p
      /\ \A v \in Worker : v # w => ~Has(v, p)
  <2>1. Has(w, p) /\ \A o \in Partition : Has(w, o) => o = p
      BY <1>1, <1>2, Zenon DEF Has
  <2> QED
      BY <2>1 DEF OneAppender
<1>7. OneAppender'
  <2>1. \A k \in DOMAIN ready : ready[k].part \in Partition
      BY Zenon, ReadyTyped
  <2>2. (\A v \in Worker, k \in DOMAIN ready : ~Has(v, ready[k].part))'
    <3>1. \A v \in Worker, k \in DOMAIN ready : ~Has(v, ready[k].part)
        BY Zenon DEF OneAppender
    <3>2. \A v \in Worker, k \in DOMAIN ready : ~Has(v, ready[k].part)'
        BY <1>1, <1>4, <2>1, <3>1, Zenon
    <3> QED
        BY <1>1, <3>2, Zenon
  <2>3. \A u, v \in Worker, o \in Partition : Has(u, o)' /\ Has(v, o)' => u = v
      BY Zenon, <1>4 DEF OneAppender
  <2>4. ASSUME NEW o \in Partition
        PROVE  /\ appending'[o] <=> \/ \E k \in DOMAIN ready : ready[k].part = o
                                    \/ \E v \in Worker : Has(v, o)'
               /\ pending[o] # <<>> => appending'[o]
    <3>1. CASE o = p
        BY <1>2, <1>3, <1>4, <1>6, <3>1, Zenon
    <3>2. CASE o # p
      <4>1. (\E v \in Worker : Has(v, o)') <=> \E v \in Worker : Has(v, o)
          BY Zenon, <1>4, <1>6, <3>2
      <4> QED
          BY <1>3, <3>2, <4>1, Zenon DEF OneAppender
    <3> QED
        BY Zenon, <3>1, <3>2
  <2> QED
      BY <1>1, <2>2, <2>3, <2>4, Zenon DEF OneAppender
<1>8. OrderKept' /\ LogBelow' /\ PendingLast'
    BY <1>1, Zenon DEF OrderKept, LogBelow, PendingLast, Ascending
<1>9. JobsTracked'
  <2>1. ASSUME NEW j \in 1 .. jobs PROVE Tracked(j)'
    <3>1. Tracked(j)
        BY Zenon DEF JobsTracked
    <3>2. \A v \in Worker : worker[v].at \in {"taken", "gathered", "written", "failed"}
                               => worker'[v] = worker[v]
        BY Zenon, <1>1, <1>4
    <3> QED
        BY Zenon, <1>1, <3>1, <3>2 DEF Tracked
  <2> QED
      BY <1>1, <2>1, Zenon DEF JobsTracked
<1>10. ReadyBetween'
    BY Zenon, <1>1 DEF ReadyBetween, Between
<1>11. BatchBetween'
  <2>1. \A v \in Worker : worker'[v].at \in {"taken", "gathered"} => worker'[v] = worker[v]
      BY Zenon, <1>4
  <2> QED
      BY <1>1, <2>1, Zenon DEF BatchBetween, Between, Ascending
<1>12. WrittenThere'
  <2>1. \A v \in Worker : worker'[v].at = "written" => worker'[v] = worker[v]
      BY Zenon, <1>4
  <2> QED
      BY <1>1, <2>1, WrittenStays, Zenon
<1>13. DrainedIdle'
    BY Zenon, <1>1, <1>3 DEF DrainedIdle, QueueTypeOK
<1>14. ExitsLast'
    BY <1>1, <1>4, Zenon DEF ExitsLast
<1> QED
    BY Zenon, <1>5, <1>7, <1>8, <1>9, <1>10, <1>11, <1>12, <1>13, <1>14

\* The end of an append keeps the invariant.
LEMMA CompleteAppendKeeps ==
    ASSUME NEW w \in Worker
    PROVE  QueueIInv /\ CompleteAppend(w) => QueueIInv'
    BY CompleteMore, CompleteLast, Zenon

-----------------------------------------------------------------------------
(* The theorems                                                            *)

\* The broker starts with empty queues and idle workers.
LEMMA QueueStarts == Init => QueueIInv
<1> SUFFICES ASSUME Init PROVE QueueIInv
    BY Zenon
<1>1. QueueTypeOK
  <2>1. 0 \in Partition /\ Rested \in WorkerState
      BY QueueAssumption DEF Partition, Rested, WorkerState
  <2>2. NoAnswer \in [is : {"none", "ok", "error"}, part : Partition, offset : Nat]
      BY <2>1, Zenon DEF NoAnswer
  <2>3. /\ <<>> \in Seq(Job \cup {0}) /\ <<>> \in Seq(Job)
        /\ ready \in Seq(ReadyAppend)
      BY DEF Init
  <2>4. /\ log \in [Partition -> Seq(Job \cup {0})] /\ pending \in [Partition -> Seq(Job)]
        /\ appending \in [Partition -> BOOLEAN]
      BY Zenon, <2>3 DEF Init
  <2>5. worker \in [Worker -> WorkerState]
      BY <2>1, Zenon DEF Init
  <2>6. answer \in [Job -> [is : {"none", "ok", "error"}, part : Partition, offset : Nat]]
      BY Zenon, <2>2 DEF Init
  <2>7. jobs \in 0 .. MaxJobs
      BY QueueAssumption DEF Init
  <2> QED
      BY <2>3, <2>4, <2>5, <2>6, <2>7, ZenonT(60) DEF Init, QueueTypeOK
<1>2. \A v \in Worker, p \in Partition : ~Has(v, p)
    BY Zenon DEF Init, Has, Rested
<1>3. OneAppender
  <2>1. DOMAIN ready = {} /\ \A p \in Partition : ~appending[p] /\ pending[p] = <<>>
      BY SMTT(60) DEF Init
  <2> QED
      BY <1>2, <2>1, Zenon DEF OneAppender
<1>4. OrderKept
    BY DEF Init, OrderKept, Ascending, NoAnswer
<1>5. JobsTracked
    BY DEF Init, JobsTracked
<1>6. PendingLast /\ ReadyBetween /\ LogBelow
    BY DEF Init, PendingLast, ReadyBetween, LogBelow, Ascending
<1>7. BatchBetween /\ WrittenThere
    BY Zenon DEF Init, BatchBetween, WrittenThere, Rested
<1>8. DrainedIdle /\ ExitsLast
    BY QueueAssumption, Zenon DEF Init, DrainedIdle, ExitsLast, Rested
<1> QED
    BY <1>1, <1>3, <1>4, <1>5, <1>6, <1>7, <1>8, Zenon DEF QueueIInv

\* Every step of the append queues keeps the invariant.
LEMMA QueueSteps == QueueIInv /\ [Next]_vars => QueueIInv'
<1> SUFFICES ASSUME QueueIInv, [Next]_vars PROVE QueueIInv'
    BY Zenon
<1>1. CASE \E p \in Partition : Produce(p) \/ ProduceBatch(p)
    BY <1>1, ProduceKeeps, ProduceBatchKeeps, Zenon
<1>2. CASE \E w \in Worker : WorkerStep(w)
    BY Zenon, <1>2, TakeKeeps, GatherKeeps, WriteKeeps, PostResultsKeeps, CompleteAppendKeeps,
       ExitKeeps DEF WorkerStep
<1>3. CASE Delete
    BY <1>3, DeleteKeeps, Zenon
<1>4. CASE DeleteStep
    BY Zenon, <1>4, DrainCheckKeeps, RemoveDirectoryKeeps DEF DeleteStep
<1>5. CASE Stop
    BY Zenon, <1>5, StopKeeps
<1>6. CASE UNCHANGED vars
  <2>1. UNCHANGED <<log, pending, appending, ready, worker, stopping, topic, drained, jobs, answer>>
      BY Zenon, <1>6 DEF vars, queueVars, topicVars
  <2> USE <2>1 DEF QueueIInv
  <2>2. QueueTypeOK' /\ OneAppender'
      BY Zenon DEF QueueTypeOK, OneAppender, Has
  <2>3. OrderKept' /\ JobsTracked' /\ LogBelow'
      BY ZenonT(60) DEF OrderKept, JobsTracked, Tracked, LogBelow, Ascending
  <2>4. PendingLast' /\ ReadyBetween'
      BY Zenon DEF PendingLast, ReadyBetween, Between, Ascending
  <2>5. BatchBetween' /\ WrittenThere'
      BY Zenon DEF BatchBetween, Between, WrittenThere, Ascending
  <2>6. DrainedIdle' /\ ExitsLast'
      BY Zenon DEF DrainedIdle, ExitsLast
  <2> QED
      BY <2>2, <2>3, <2>4, <2>5, <2>6, Zenon
<1> QED
    BY Zenon, <1>1, <1>2, <1>3, <1>4, <1>5, <1>6 DEF Next

\* The inductive invariant of the append queues holds for any numbers of workers,
\* partitions and requests and any limits.
THEOREM QueueInvariant == Spec => []QueueIInv
    BY QueueStarts, QueueSteps, PTL DEF Spec

\* The state of the append queues has its types.
THEOREM QueueTypes == Spec => []QueueTypeOK
<1>1. QueueIInv => QueueTypeOK
    BY Zenon DEF QueueIInv
<1> QED
    BY <1>1, QueueInvariant, PTL

\* schedule_append, append_worker_loop and complete_append lend a partition to one
\* worker at a time.
THEOREM QueueLends == Spec => []OneAppender
<1>1. QueueIInv => OneAppender
    BY Zenon DEF QueueIInv
<1> QED
    BY <1>1, QueueInvariant, PTL

\* Whichever workers write them, the records are in the order of their requests, and
\* run_append_batch reports the offsets they have.
THEOREM QueueOrder == Spec => []OrderKept
<1>1. QueueIInv => OrderKept
    BY Zenon DEF QueueIInv
<1> QED
    BY <1>1, QueueInvariant, PTL

\* append_worker_loop leaves no job behind when the workers have returned.
THEOREM QueueStops == Spec => []StopDrains
<1>1. QueueIInv => StopDrains
  <2> SUFFICES ASSUME QueueIInv, \A w \in Worker : worker[w].at = "exited",
                      NEW j \in 1 .. jobs
               PROVE  answer[j].is # "none"
      BY Zenon DEF StopDrains
  <2> USE DEF QueueIInv
  <2>1. ready = <<>>
      BY Zenon DEF ExitsLast
  <2>2. \A p \in Partition : pending[p] = <<>>
      BY <2>1 DEF OneAppender, Has
  <2>3. Tracked(j)
      BY Zenon DEF JobsTracked
  <2>4. /\ DOMAIN ready = {} /\ \A p \in Partition : DOMAIN pending[p] = {}
        /\ \A w \in Worker : worker[w].at \notin {"taken", "gathered", "written", "failed"}
    <3>1. DOMAIN << >> = {}
        OBVIOUS
    <3>2. "exited" \notin {"taken", "gathered", "written", "failed"}
        BY Zenon
    <3> QED
        BY <2>1, <2>2, <3>1, <3>2, Zenon
  <2> QED
      BY <2>3, <2>4, Zenon DEF Tracked
<1> QED
    BY <1>1, QueueInvariant, PTL

\* wait_for_topic_appends_to_drain does not return while an append can still come:
\* the logs of a removed topic do not change.
THEOREM QueueDrains == Spec => NoWriteAfterRemoval
<1>1. QueueIInv /\ [Next]_vars => [topic = "removed" => log' = log]_vars
  <2> SUFFICES ASSUME QueueIInv, Next, topic = "removed" PROVE log' = log
      BY Zenon DEF vars, queueVars, topicVars
  <2>1. \A p \in Partition : ~appending[p]
      BY Zenon DEF QueueIInv, DrainedIdle
  <2>2. ASSUME NEW w \in Worker PROVE worker[w].at \in {"idle", "exited"}
    <3>1. worker[w].part \in Partition
        BY Zenon, WorkerTyped DEF QueueIInv
    <3>2. ~Has(w, worker[w].part)
        BY <2>1, <3>1, Zenon DEF QueueIInv, OneAppender
    <3> QED
        BY Zenon, <3>2 DEF Has
  <2>3. CASE \E p \in Partition : Produce(p) \/ ProduceBatch(p)
      BY Zenon, <2>3 DEF Produce, ProduceBatch
  <2>4. CASE \E w \in Worker : WorkerStep(w)
      BY <2>2, <2>4, ZenonT(60) DEF WorkerStep, Take, Gather, AppendBatch, AppendFails, PostResults,
         CompleteAppend, Exit
  <2>5. CASE Delete \/ DeleteStep \/ Stop
      BY Zenon, <2>5 DEF Delete, DeleteStep, DrainCheck, RemoveDirectory, Stop
  <2> QED
      BY Zenon, <2>3, <2>4, <2>5 DEF Next
<1> QED
    BY <1>1, QueueInvariant, PTL DEF Spec, NoWriteAfterRemoval

=============================================================================
