------------------------------ MODULE LongPoll ------------------------------
(***************************************************************************)
(* Long-poll fetches (src/src/broker/server.cpp): a session whose fetch    *)
(* finds no records registers a waiter and starts a timer; appends, and    *)
(* the deletion of the topic, wake the waiters of a partition by posting   *)
(* to the strands of their sessions; whichever of callback and timer runs  *)
(* first answers the fetch.                                                *)
(*                                                                         *)
(* A session handles one request at a time, and its handlers run one after *)
(* the other in the order in which they were queued on its strand.  The    *)
(* requests modelled are the fetches that find nothing; the appends come   *)
(* from AppendQueue.  A waiter id stands for the waiter, its callback, its *)
(* timer and their shared completion flag; ids are used again when nothing *)
(* refers to them any more.                                                *)
(***************************************************************************)
EXTENDS Integers, FiniteSets

CONSTANTS
    Session,     \* client connections
    Partition,   \* partitions of the topic
    MaxWaiters,  \* max_long_poll_waiters
    MaxRecords,  \* bound: records of a partition
    Id           \* bound: waiter ids in use at a time

None == 0

ASSUME PollAssumption ==
    /\ {MaxWaiters, MaxRecords} \subseteq Nat
    /\ Id \subseteq Nat \ {None}
    /\ IsFiniteSet(Id) /\ IsFiniteSet(Session)

VARIABLES
    end,       \* the high watermark of each partition
    notices,   \* appends whose notify_fetch_waiters call is still to come
    deleted,   \* the topic is being deleted
    at,        \* "idle", "found" (before register_long_poll), "poll"
    asked,     \* partition and offset of the session's fetch
    waiterId,  \* active_waiter_id_
    waiter,    \* the waiters, by id
    active,    \* active_long_poll_waiters_
    \* history
    owed,      \* answers each client is waiting for
    late       \* sessions that no notice of some append since their fetch can reach:
               \* it came before they had registered, or was reported as failed

logVars  == <<end, notices, deleted>>
histVars == <<owed, late>>
vars == <<logVars, at, asked, waiterId, waiter, active, histVars>>

-----------------------------------------------------------------------------
Free == [session |-> None, part |-> None, call |-> "none", timer |-> "off",
         listed |-> FALSE, completed |-> TRUE]

Init ==
    /\ end = [p \in Partition |-> 0]
    /\ notices = [p \in Partition |-> 0]
    /\ deleted = FALSE
    /\ at = [s \in Session |-> "idle"]
    /\ asked = [s \in Session |-> <<>>]
    /\ waiterId = [s \in Session |-> None]
    /\ waiter = [i \in Id |-> Free]
    /\ active = 0
    /\ owed = [s \in Session |-> 0]
    /\ late = {}

\* Handlers of session s that are queued on its strand.
Queued(s) ==
    {i \in Id : waiter[i].session = s /\ (waiter[i].call = "queued" \/ waiter[i].timer = "expired")}

Answered(s) ==
    /\ at' = [at EXCEPT ![s] = "idle"]
    /\ asked' = [asked EXCEPT ![s] = <<>>]
    /\ owed' = [owed EXCEPT ![s] = @ - 1]
    /\ late' = late \ {s}

\* active_long_poll_waiters_ less n, never below zero.
Fewer(n) == IF n < active THEN active - n ELSE 0

-----------------------------------------------------------------------------
(* The fetch                                                               *)

FreeIds == {i \in Id : waiter[i] = Free}

\* fetch_or_wait: the fetch resolves to the high watermark, with max_wait_ms > 0.
\* All others are answered at once, as is one for a deleted topic.
Fetch(s, p) ==
    /\ at[s] = "idle" /\ Queued(s) = {}
    /\ ~deleted
    /\ Cardinality(FreeIds) > Cardinality({t \in Session : at[t] = "found"})
    /\ at' = [at EXCEPT ![s] = "found"]
    /\ asked' = [asked EXCEPT ![s] = <<p, end[p]>>]
    /\ owed' = [owed EXCEPT ![s] = @ + 1]
    /\ UNCHANGED <<logVars, waiterId, waiter, active, late>>

\* register_long_poll answers with an error: the session has a waiter already, or
\* every waiter slot is taken.
Refuse(s) ==
    /\ at[s] = "found"
    /\ waiterId[s] = None => active >= MaxWaiters
    /\ Answered(s)
    /\ UNCHANGED <<logVars, waiterId, waiter, active>>

\* Mutant: the timer is not started.
RegisterUntimed(s) ==
    LET i == CHOOSE i \in FreeIds : \A j \in FreeIds : i <= j IN
    /\ at[s] = "found" /\ active < MaxWaiters
    /\ waiterId[s] = None
    /\ waiter' = [waiter EXCEPT ![i] =
           [session |-> s, part |-> asked[s][1], call |-> "none", timer |-> "off",
            listed |-> TRUE, completed |-> FALSE]]
    /\ active' = active + 1
    /\ waiterId' = [waiterId EXCEPT ![s] = i]
    /\ at' = [at EXCEPT ![s] = "poll"]
    /\ UNCHANGED <<logVars, asked, histVars>>

\* register_long_poll lists the waiter and starts its timer.
Register(s) ==
    LET i == CHOOSE i \in FreeIds : \A j \in FreeIds : i <= j IN
    /\ at[s] = "found" /\ active < MaxWaiters
    /\ waiterId[s] = None
    /\ waiter' = [waiter EXCEPT ![i] =
           [session |-> s, part |-> asked[s][1], call |-> "none", timer |-> "armed",
            listed |-> TRUE, completed |-> FALSE]]
    /\ active' = active + 1
    /\ waiterId' = [waiterId EXCEPT ![s] = i]
    /\ at' = [at EXCEPT ![s] = "poll"]
    /\ UNCHANGED <<logVars, asked, histVars>>

-----------------------------------------------------------------------------
(* Waking the waiters                                                      *)

\* A worker or a produce_batch appends; unless retention then fails, it will call
\* notify_fetch_waiters.  Appends that were queued before the topic was deleted
\* run after its waiters were woken: delete_topic waits for them.
AppendRecord(p, notify) ==
    /\ end[p] < MaxRecords
    /\ end' = [end EXCEPT ![p] = @ + 1]
    /\ notices' = [notices EXCEPT ![p] = IF notify THEN @ + 1 ELSE @]
    /\ late' = late \cup {s \in Session : /\ at[s] # "idle" /\ asked[s][1] = p
                                          /\ notify => at[s] = "found"}
    /\ UNCHANGED <<deleted, at, asked, waiterId, waiter, active, owed>>

Listed(ps) == {i \in Id : waiter[i].listed /\ waiter[i].part \in ps}

\* notify_fetch_waiters takes the waiters of the partitions off the list.
Unlist(ps) ==
    /\ waiter' = [i \in Id |-> IF i \in Listed(ps)
                               THEN [waiter[i] EXCEPT !.listed = FALSE, !.call = "called"]
                               ELSE waiter[i]]
    /\ active' = Fewer(Cardinality(Listed(ps)))

\* Mutant: one waiter is woken.
NotifyOne(p) ==
    /\ notices[p] > 0
    /\ notices' = [notices EXCEPT ![p] = @ - 1]
    /\ \E i \in Listed({p}) :
          /\ waiter' = [waiter EXCEPT ![i].listed = FALSE, ![i].call = "called"]
          /\ active' = Fewer(1)
    /\ UNCHANGED <<end, deleted, at, asked, waiterId, histVars>>

Notify(p) ==
    /\ notices[p] > 0
    /\ notices' = [notices EXCEPT ![p] = @ - 1]
    /\ Unlist({p})
    /\ UNCHANGED <<end, deleted, at, asked, waiterId, histVars>>

\* delete_topic wakes the waiters of all partitions.
Delete ==
    /\ ~deleted
    /\ deleted' = TRUE
    /\ Unlist(Partition)
    /\ UNCHANGED <<end, notices, at, asked, waiterId, histVars>>

\* ... and calls their callbacks, which post to the strands of their sessions.
Call(i) ==
    /\ waiter[i].call = "called"
    /\ waiter' = [waiter EXCEPT ![i].call = "queued"]
    /\ UNCHANGED <<logVars, at, asked, waiterId, active, histVars>>

\* The timer expires: its handler is queued and can no longer be cancelled.
Expire(i) ==
    /\ waiter[i].timer = "armed"
    /\ waiter' = [waiter EXCEPT ![i].timer = "expired"]
    /\ UNCHANGED <<logVars, at, asked, waiterId, active, histVars>>

-----------------------------------------------------------------------------
(* The two handlers                                                        *)

\* What is left of a waiter that is answered, while something refers to it.
Rest(r) ==
    IF r.call = "none" /\ r.timer = "off" THEN Free
    ELSE [r EXCEPT !.part = None, !.listed = FALSE, !.completed = TRUE]

\* Mutant: the completion flag is not looked at.
RunCallbackAlways(i) ==
    LET s == waiter[i].session
        r == [waiter[i] EXCEPT !.call = "none"]
    IN
    /\ waiter[i].call = "queued" /\ at[s] # "found"
    /\ waiter' = [waiter EXCEPT ![i] =
            Rest([r EXCEPT !.timer = IF @ = "armed" THEN "off" ELSE @])]
    /\ waiterId' = [waiterId EXCEPT ![s] = None]
    /\ Answered(s)
    /\ UNCHANGED <<logVars, active>>

\* The callback: unless the timer was first, it stops the timer, fetches again and
\* answers with the records, or with an error.
RunCallback(i) ==
    LET s == waiter[i].session
        r == [waiter[i] EXCEPT !.call = "none"]
    IN
    /\ waiter[i].call = "queued" /\ at[s] # "found"
    /\ IF r.completed
       THEN /\ waiter' = [waiter EXCEPT ![i] = Rest(r)]
            /\ UNCHANGED <<at, asked, waiterId, histVars>>
       ELSE /\ waiter' = [waiter EXCEPT ![i] =
                    Rest([r EXCEPT !.timer = IF @ = "armed" THEN "off" ELSE @])]
            /\ waiterId' = [waiterId EXCEPT ![s] = None]
            /\ Answered(s)
    /\ UNCHANGED <<logVars, active>>

\* Mutant: the waiter stays listed.
RunTimerListed(i) ==
    LET s == waiter[i].session
        r == [waiter[i] EXCEPT !.timer = "off"]
    IN
    /\ waiter[i].timer = "expired" /\ at[s] # "found"
    /\ IF r.completed
       THEN /\ waiter' = [waiter EXCEPT ![i] = Rest(r)]
            /\ UNCHANGED <<at, asked, waiterId, active, histVars>>
       ELSE /\ waiter' = [waiter EXCEPT ![i] = [r EXCEPT !.completed = TRUE]]
            /\ waiterId' = [waiterId EXCEPT ![s] = None]
            /\ Answered(s)
            /\ UNCHANGED active
    /\ UNCHANGED logVars

\* The timer's handler: unless the callback was first, it takes the waiter off the
\* list, fetches again and answers.
RunTimer(i) ==
    LET s == waiter[i].session
        r == [waiter[i] EXCEPT !.timer = "off"]
    IN
    /\ waiter[i].timer = "expired" /\ at[s] # "found"
    /\ waiter' = [waiter EXCEPT ![i] = Rest(r)]
    /\ IF r.completed
       THEN UNCHANGED <<at, asked, waiterId, active, histVars>>
       ELSE /\ active' = IF r.listed THEN Fewer(1) ELSE active
            /\ waiterId' = [waiterId EXCEPT ![s] = None]
            /\ Answered(s)
    /\ UNCHANGED logVars

-----------------------------------------------------------------------------
HandlerStep(s) == Refuse(s) \/ Register(s)

WaiterStep(i) == Call(i) \/ Expire(i) \/ RunCallback(i) \/ RunTimer(i)

Next ==
    \/ \E s \in Session, p \in Partition : Fetch(s, p)
    \/ \E s \in Session : HandlerStep(s)
    \/ \E p \in Partition, notify \in BOOLEAN : AppendRecord(p, notify)
    \/ \E p \in Partition : Notify(p)
    \/ Delete
    \/ \E i \in Id : WaiterStep(i)

\* Handlers run on, time passes, and the strands get to what is queued on them.
\* Nothing forces records to be appended or waiters to be notified.
Fairness ==
    /\ \A s \in Session : WF_vars(HandlerStep(s))
    /\ \A i \in Id : WF_vars(WaiterStep(i))

Spec == Init /\ [][Next]_vars /\ Fairness

-----------------------------------------------------------------------------
(* Properties                                                              *)

\* The counter behind the limit is the number of waiters that are listed, and these
\* belong to sessions that still wait for them: no slot is lost when callback and
\* timer race, and none is kept by a fetch that was answered.
WaitersCounted ==
    /\ active = Cardinality(Listed(Partition)) /\ active <= MaxWaiters
    /\ \A i \in Listed(Partition) :
          at[waiter[i].session] = "poll" /\ waiterId[waiter[i].session] = i

\* A listed waiter with records behind its offset is about to be notified.  The
\* only appends it can miss, and then wait out its timer, are those between its
\* fetch and its registration, which hold no common lock, and those whose
\* retention pass failed.
MissesOnlyLate ==
    \A i \in Listed(Partition) :
       LET s == waiter[i].session
       IN  asked[s][2] < end[waiter[i].part] => notices[waiter[i].part] > 0 \/ s \in late

\* A client gets one answer per fetch, and a long poll is answered by its own
\* waiter, not by what an earlier fetch of the session has left behind.
AnsweredOnce ==
    [][\A s \in Session :
         /\ owed'[s] = IF at'[s] = "idle" THEN 0 ELSE 1
         /\ at[s] = "poll" /\ at'[s] = "idle" =>
               ~waiter[waiterId[s]].completed /\ waiter'[waiterId[s]].completed]_vars

\* Every fetch is answered, at the latest when its timer has run.
FetchesAnswered == \A s \in Session : at[s] # "idle" ~> at[s] = "idle"

=============================================================================
