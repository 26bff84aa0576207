--------------------------- MODULE TopicLifecycle ---------------------------
(***************************************************************************)
(* The life of a topic in BrokerRuntime: create_topic, delete_topic, the   *)
(* operations that look a topic up and use it later, and                   *)
(* load_existing_topics after a crash.  A topic lives in five places: the  *)
(* map topics_, its manifest, its partition directories, its committed     *)
(* offsets and its groups; create and delete change them one at a time.    *)
(*                                                                         *)
(* Each creation of a name is an incarnation, an id that tags what was     *)
(* written under it; the code has no such id, it is how the properties     *)
(* tell an old topic's data from a new one's.                              *)
(***************************************************************************)
EXTENDS Integers, FiniteSets

CONSTANTS
    Name,          \* topic names
    Client,        \* requests that can be in progress at once
    MaxPartitions, \* partition counts are 1 .. MaxPartitions
    MaxLives,      \* bound: incarnations
    MaxCrashes,    \* bound: crashes
    MaxFaults      \* bound: failing file-system calls

ASSUME LifecycleAssumption ==
    /\ MaxPartitions \in Nat \ {0}
    /\ MaxLives \in Nat \ {0}
    /\ MaxCrashes \in Nat
    /\ MaxFaults \in Nat

Partition == 0 .. MaxPartitions - 1
Life == 1 .. MaxLives
Nobody == 0         \* no incarnation
Absent == 0         \* a manifest that does not exist
Torn == -1          \* a manifest that was truncated and not yet written

VARIABLES
    broker,    \* "down", "starting", "up", or "refused" by a manifest it cannot parse
    loading,   \* the names load_existing_topics has still to visit
    migrating, \* the name whose missing manifest it is writing, a set of at most one
    mutex,     \* the client that holds topics_mutex_, a set of at most one
    topics,    \* topics_: the incarnation each name stands for
    deleting,  \* TopicState::deleting, as the set of incarnations that have it
    manifest,  \* manifest.json of each name: a partition count, Absent or Torn
    dirs,      \* the partition directories of each name
    records,   \* the records in them: <<partition, incarnation>>
    offsets,   \* OffsetStore: the incarnations with a committed offset
    members,   \* GroupCoordinator: the incarnations with an active member
    job,       \* the request of each client
    life,      \* history: name and partition count of each incarnation
    owner,     \* history: the incarnation whose directory it is, by name
    acked,     \* history: answered "created", produced, committed
    marked,    \* history: incarnations whose deletion has begun
    deleted,   \* history: incarnations whose deletion was answered
    disturbed, \* history: names whose deletion met a creation, a crash or a fault,
               \*   or whose missing manifest was being written when a crash came
    crashes, faults

disk == <<manifest, dirs, records, offsets>>
boot == <<broker, loading, migrating>>
memory == <<boot, mutex, topics, deleting, members, job>>
history == <<life, owner, acked, marked, deleted, disturbed, crashes, faults>>
vars == <<disk, memory, history>>

Idle == [op |-> "idle", step |-> "none", name |-> {}, id |-> Nobody]

Request(op, step, n, i) == [op |-> op, step |-> step, name |-> n, id |-> i]

At(c, op, step) == broker = "up" /\ job[c].op = op /\ job[c].step = step

Goto(c, step) == job' = [job EXCEPT ![c].step = step]

Done(c) == job' = [job EXCEPT ![c] = Idle]

\* A deletion of n is between topics_.erase and its response.
Deleting(n) == \E c \in Client : job[c].op = "delete" /\ job[c].name = n

\* topics_mutex_ is free, and client c asks for it.
Free(c) == broker = "up" /\ job[c] = Idle /\ mutex = {}

-----------------------------------------------------------------------------
(* create_topic: all of it under topics_mutex_ *)

\* The name is unknown; write_topic_manifest truncates the file.
CreateBegins(c, n, k) ==
    LET i == Cardinality(DOMAIN life) + 1
    IN  /\ Free(c)
        /\ topics[n] = Nobody
        /\ i \in Life
        /\ mutex' = {c}
        /\ job' = [job EXCEPT ![c] = Request("create", "write", n, i)]
        /\ manifest' = [manifest EXCEPT ![n] = Torn]
        /\ life' = [j \in 1 .. i |-> IF j = i THEN [name |-> n, count |-> k] ELSE life[j]]
        /\ owner' = [owner EXCEPT ![n] = i]
        /\ disturbed' = IF Deleting(n) THEN disturbed \cup {n} ELSE disturbed
        /\ UNCHANGED <<dirs, records, offsets, boot, topics, deleting, members,
                       acked, marked, deleted, crashes, faults>>

\* The manifest is written and flushed.
CreateWrites(c) ==
    /\ At(c, "create", "write")
    /\ manifest' = [manifest EXCEPT ![job[c].name] = life[job[c].id].count]
    /\ Goto(c, "open")
    /\ UNCHANGED <<dirs, records, offsets, boot, mutex, topics, deleting, members, history>>

\* open_topic_state opens every partition log, creating what is missing and
\* recovering what is there; the topic is inserted and the client answered.
CreateReturns(c) ==
    LET n == job[c].name
        i == job[c].id
    IN  /\ At(c, "create", "open")
        /\ dirs' = [dirs EXCEPT ![n] = @ \cup 0 .. life[i].count - 1]
        /\ topics' = [topics EXCEPT ![n] = i]
        /\ mutex' = {}
        /\ acked' = acked \cup {<<"created", i>>}
        /\ Done(c)
        /\ UNCHANGED <<manifest, records, offsets, boot, deleting, members,
                       life, owner, marked, deleted, disturbed, crashes, faults>>

\* Writing the manifest or opening a log throws: nothing is undone.
CreateThrows(c) ==
    /\ At(c, "create", "write") \/ At(c, "create", "open")
    /\ faults < MaxFaults
    /\ faults' = faults + 1
    /\ mutex' = {}
    /\ Done(c)
    /\ UNCHANGED <<disk, boot, topics, deleting, members,
                   life, owner, acked, marked, deleted, disturbed, crashes>>

-----------------------------------------------------------------------------
(* The operations that use a topic: find_topic_or_throw, then, under the    *)
(* mutex of the TopicState they found, the check of deleting and the rest   *)

Find(c, op, n) ==
    /\ Free(c)
    /\ topics[n] # Nobody
    /\ job' = [job EXCEPT ![c] = Request(op, "found", n, topics[n])]
    /\ UNCHANGED <<disk, boot, mutex, topics, deleting, members, history>>

\* "topic is being deleted"
Rejected(c) ==
    /\ \E op \in {"produce", "commit", "join"} : At(c, op, "found")
    /\ job[c].id \in deleting
    /\ Done(c)
    /\ UNCHANGED <<disk, boot, mutex, topics, deleting, members, history>>

\* async_produce queues the record; an append worker writes it later.
ProduceQueues(c) ==
    /\ At(c, "produce", "found")
    /\ job[c].id \notin deleting
    /\ Goto(c, "queued")
    /\ UNCHANGED <<disk, boot, mutex, topics, deleting, members, history>>

ProduceWrites(c) ==
    LET n == job[c].name
        i == job[c].id
    IN  /\ At(c, "produce", "queued")
        /\ \E p \in 0 .. life[i].count - 1 :
               \/ /\ p \in dirs[n]
                  /\ records' = [records EXCEPT ![n] = @ \cup {<<p, i>>}]
                  /\ acked' = acked \cup {<<"record", i, p>>}
               \/ /\ p \notin dirs[n]     \* the segment cannot be opened
                  /\ UNCHANGED <<records, acked>>
        /\ Done(c)
        /\ UNCHANGED <<manifest, dirs, offsets, boot, mutex, topics, deleting, members,
                       life, owner, marked, deleted, disturbed, crashes, faults>>

\* Mutant: deleting is not looked at after the topic was found.
CommitUnchecked(c) ==
    LET n == job[c].name
        i == job[c].id
    IN  /\ At(c, "commit", "found")
        /\ offsets' = [offsets EXCEPT ![n] = @ \cup {i}]
        /\ acked' = acked \cup {<<"commit", i>>}
        /\ Done(c)
        /\ UNCHANGED <<manifest, dirs, records, boot, mutex, topics, deleting, members,
                       life, owner, marked, deleted, disturbed, crashes, faults>>

\* commit_offset, commit_group_offset and reset_group_offset.
Commit(c) ==
    LET n == job[c].name
        i == job[c].id
    IN  /\ At(c, "commit", "found")
        /\ i \notin deleting
        /\ offsets' = [offsets EXCEPT ![n] = @ \cup {i}]
        /\ acked' = acked \cup {<<"commit", i>>}
        /\ Done(c)
        /\ UNCHANGED <<manifest, dirs, records, boot, mutex, topics, deleting, members,
                       life, owner, marked, deleted, disturbed, crashes, faults>>

\* Mutant: likewise.
JoinUnchecked(c) ==
    /\ At(c, "join", "found")
    /\ members' = [members EXCEPT ![job[c].name] = @ \cup {job[c].id}]
    /\ Done(c)
    /\ UNCHANGED <<disk, boot, mutex, topics, deleting, history>>

Join(c) ==
    LET n == job[c].name
        i == job[c].id
    IN  /\ At(c, "join", "found")
        /\ i \notin deleting
        /\ members' = [members EXCEPT ![n] = @ \cup {i}]
        /\ Done(c)
        /\ UNCHANGED <<disk, boot, mutex, topics, deleting, history>>

\* The members of a topic leave or expire.
MembersLeave(n) ==
    /\ broker = "up"
    /\ members[n] # {}
    /\ members' = [members EXCEPT ![n] = {}]
    /\ UNCHANGED <<disk, boot, mutex, topics, deleting, job, history>>

-----------------------------------------------------------------------------
(* delete_topic *)

\* Under topics_mutex_ and the topic's mutex: no active member, deleting is
\* set, the name is free again.
DeleteMarks(c, n) ==
    LET i == topics[n]
    IN  /\ Free(c)
        /\ i # Nobody
        /\ members[n] = {}
        /\ deleting' = deleting \cup {i}
        /\ topics' = [topics EXCEPT ![n] = Nobody]
        /\ job' = [job EXCEPT ![c] = Request("delete", "drain", n, i)]
        /\ marked' = marked \cup {i}
        /\ disturbed' = IF Deleting(n) THEN disturbed \cup {n} ELSE disturbed
        /\ UNCHANGED <<disk, boot, mutex, members,
                       life, owner, acked, deleted, crashes, faults>>

\* wait_for_topic_appends_to_drain
DeleteDrains(c) ==
    /\ At(c, "delete", "drain")
    /\ \A d \in Client : ~(At(d, "produce", "queued") /\ job[d].id = job[c].id)
    /\ Goto(c, "unlink")
    /\ UNCHANGED <<disk, boot, mutex, topics, deleting, members, history>>

\* remove_all takes the entries of the directory one by one, in any order.
DeleteUnlinks(c) ==
    LET n == job[c].name
    IN  /\ At(c, "delete", "unlink")
        /\ \/ /\ manifest[n] # Absent
              /\ manifest' = [manifest EXCEPT ![n] = Absent]
              /\ UNCHANGED <<dirs, records>>
           \/ \E p \in dirs[n] :
              /\ dirs' = [dirs EXCEPT ![n] = @ \ {p}]
              /\ records' = [records EXCEPT ![n] = {r \in @ : r[1] # p}]
              /\ UNCHANGED manifest
        /\ UNCHANGED <<offsets, memory, history>>

DeleteUnlinked(c) ==
    LET n == job[c].name
    IN  /\ At(c, "delete", "unlink")
        /\ manifest[n] = Absent /\ dirs[n] = {}
        /\ Goto(c, "offsets")
        /\ UNCHANGED <<disk, boot, mutex, topics, deleting, members, history>>

\* remove_all fails, or finds the directory not empty after emptying it
\* because the name is being created again: InternalError, and the rest of
\* the deletion is not done.
DeleteThrows(c) ==
    LET n == job[c].name
    IN  /\ At(c, "delete", "unlink")
        /\ \/ /\ faults < MaxFaults
              /\ faults' = faults + 1
           \/ /\ owner[n] # job[c].id /\ (manifest[n] # Absent \/ dirs[n] # {})
              /\ UNCHANGED faults
        /\ disturbed' = disturbed \cup {n}
        /\ Done(c)
        /\ UNCHANGED <<disk, boot, mutex, topics, deleting, members,
                       life, owner, acked, marked, deleted, crashes>>

\* OffsetStore::remove_topic, under offsets_mutex_.  What it does to the files
\* of the groups, step by step, is OffsetStore's.
DeleteOffsets(c) ==
    /\ At(c, "delete", "offsets")
    /\ offsets' = [offsets EXCEPT ![job[c].name] = {}]
    /\ Goto(c, "groups")
    /\ UNCHANGED <<manifest, dirs, records, boot, mutex, topics, deleting, members, history>>

\* remove_topic throws when it cannot rewrite a group's file, which may have
\* the topic's offsets or not: the groups stay, and the directory is gone.
DeleteOffsetsThrows(c) ==
    LET n == job[c].name
    IN  /\ At(c, "delete", "offsets")
        /\ faults < MaxFaults
        /\ faults' = faults + 1
        /\ offsets' \in {offsets, [offsets EXCEPT ![n] = {}]}
        /\ disturbed' = disturbed \cup {n}
        /\ Done(c)
        /\ UNCHANGED <<manifest, dirs, records, boot, mutex, topics, deleting, members,
                       life, owner, acked, marked, deleted, crashes>>

\* GroupCoordinator::remove_topic, and the response.
DeleteReturns(c) ==
    /\ At(c, "delete", "groups")
    /\ members' = [members EXCEPT ![job[c].name] = {}]
    /\ deleted' = deleted \cup {job[c].id}
    /\ Done(c)
    /\ UNCHANGED <<disk, boot, mutex, topics, deleting,
                   life, owner, acked, marked, disturbed, crashes, faults>>

-----------------------------------------------------------------------------
(* Crash and start *)

\* The process dies, serving or in load_existing_topics.
Crash ==
    /\ broker \in {"up", "starting"}
    /\ crashes < MaxCrashes
    /\ crashes' = crashes + 1
    /\ broker' = "down"
    /\ loading' = {}
    /\ migrating' = {}
    /\ mutex' = {}
    /\ topics' = [n \in Name |-> Nobody]
    /\ deleting' = {}
    /\ members' = [n \in Name |-> {}]
    /\ job' = [c \in Client |-> Idle]
    /\ disturbed' = disturbed \cup migrating \cup {n \in Name : Deleting(n)}
    /\ UNCHANGED <<disk, life, owner, acked, marked, deleted, faults>>

\* Mutant: a directory without a manifest is not a topic.
PartitionCountStrict(n) == manifest[n]

\* parse_partition_count_or_migrate: a directory without a manifest but with
\* partition 0 is a topic of one partition; without it, no topic (0).
PartitionCount(n) ==
    IF manifest[n] # Absent THEN manifest[n] ELSE IF 0 \in dirs[n] THEN 1 ELSE 0

\* load_existing_topics visits the topic directories one by one, in any order.
StartBegins ==
    /\ broker = "down"
    /\ broker' = "starting"
    /\ loading' = Name
    /\ UNCHANGED <<disk, migrating, mutex, topics, deleting, members, job, history>>

Visits(n) == broker = "starting" /\ n \in loading /\ migrating = {}

\* The manifest cannot be parsed: the exception ends the process, and will end
\* the next one.
LoadRefuses(n) ==
    /\ Visits(n)
    /\ PartitionCount(n) = Torn
    /\ broker' = "refused"
    /\ loading' = {}
    /\ topics' = [m \in Name |-> Nobody]
    /\ UNCHANGED <<disk, migrating, mutex, deleting, members, job, history>>

LoadSkips(n) ==
    /\ Visits(n)
    /\ PartitionCount(n) = 0
    /\ loading' = loading \ {n}
    /\ UNCHANGED <<disk, broker, migrating, mutex, topics, deleting, members, job, history>>

\* The missing manifest is created empty, then written and flushed.
LoadMigrates(n) ==
    /\ Visits(n)
    /\ manifest[n] = Absent /\ PartitionCount(n) # 0
    /\ manifest' = [manifest EXCEPT ![n] = Torn]
    /\ migrating' = {n}
    /\ UNCHANGED <<dirs, records, offsets, broker, loading, mutex, topics, deleting,
                   members, job, history>>

LoadWrites(n) ==
    /\ n \in migrating
    /\ manifest' = [manifest EXCEPT ![n] = 1]
    /\ migrating' = {}
    /\ UNCHANGED <<dirs, records, offsets, broker, loading, mutex, topics, deleting,
                   members, job, history>>

\* open_topic_state opens the partitions and the topic is inserted.
LoadOpens(n) ==
    /\ Visits(n)
    /\ manifest[n] > 0
    /\ dirs' = [dirs EXCEPT ![n] = @ \cup 0 .. PartitionCount(n) - 1]
    /\ topics' = [topics EXCEPT ![n] = owner[n]]
    /\ loading' = loading \ {n}
    /\ UNCHANGED <<manifest, records, offsets, broker, migrating, mutex, deleting, members,
                   job, history>>

StartReturns ==
    /\ broker = "starting" /\ loading = {}
    /\ broker' = "up"
    /\ UNCHANGED <<disk, loading, migrating, mutex, topics, deleting, members, job, history>>

\* An empty data directory, or one with topics of the single-partition kind
\* that had no manifest.
Init ==
    /\ broker = "down" /\ loading = {} /\ migrating = {}
    /\ mutex = {} /\ deleting = {} /\ marked = {} /\ deleted = {} /\ disturbed = {}
    /\ crashes = 0 /\ faults = 0
    /\ topics = [n \in Name |-> Nobody]
    /\ members = [n \in Name |-> {}]
    /\ offsets = [n \in Name |-> {}]
    /\ manifest = [n \in Name |-> Absent]
    /\ job = [c \in Client |-> Idle]
    /\ \/ /\ life = <<>> /\ acked = {}
          /\ owner = [n \in Name |-> Nobody]
          /\ dirs = [n \in Name |-> {}]
          /\ records = [n \in Name |-> {}]
       \/ \E legacy \in Name :
          /\ life = <<[name |-> legacy, count |-> 1]>>
          /\ acked = {<<"created", 1>>, <<"record", 1, 0>>}
          /\ owner = [n \in Name |-> IF n = legacy THEN 1 ELSE Nobody]
          /\ dirs = [n \in Name |-> IF n = legacy THEN {0} ELSE {}]
          /\ records = [n \in Name |-> IF n = legacy THEN {<<0, 1>>} ELSE {}]

Create(c) ==
    \/ \E n \in Name, k \in 1 .. MaxPartitions : CreateBegins(c, n, k)
    \/ CreateWrites(c) \/ CreateReturns(c) \/ CreateThrows(c)

Use(c) ==
    \/ \E op \in {"produce", "commit", "join"}, n \in Name : Find(c, op, n)
    \/ Rejected(c) \/ ProduceQueues(c) \/ ProduceWrites(c) \/ Commit(c) \/ Join(c)

Delete(c) ==
    \/ \E n \in Name : DeleteMarks(c, n)
    \/ DeleteDrains(c) \/ DeleteUnlinks(c) \/ DeleteUnlinked(c) \/ DeleteThrows(c)
    \/ DeleteOffsets(c) \/ DeleteOffsetsThrows(c) \/ DeleteReturns(c)

Load(n) ==
    LoadRefuses(n) \/ LoadSkips(n) \/ LoadMigrates(n) \/ LoadWrites(n) \/ LoadOpens(n)

Next ==
    \/ \E c \in Client : Create(c) \/ Use(c) \/ Delete(c)
    \/ \E n \in Name : MembersLeave(n)
    \/ Crash
    \/ StartBegins
    \/ \E n \in Name : Load(n)
    \/ StartReturns

Spec == Init /\ [][Next]_vars

-----------------------------------------------------------------------------
(* Properties *)

\* Incarnations whose creation was answered and whose deletion nobody began.
Living == {i \in DOMAIN life : <<"created", i>> \in acked /\ i \notin marked}

\* A topic that is on the disk with all it was given.
OnDisk(i) ==
    LET n == life[i].name
    IN  /\ owner[n] = i
        /\ \/ manifest[n] = life[i].count
           \/ /\ life[i].count = 1 /\ broker # "up"
              /\ manifest[n] = Absent \/ n \in migrating
        /\ 0 .. life[i].count - 1 \subseteq dirs[n]
        /\ \A p \in Partition : <<"record", i, p>> \in acked => <<p, i>> \in records[n]
        /\ <<"commit", i>> \in acked => i \in offsets[n]

\* A topic the broker said it created, and that nobody asked to delete, stays:
\* its manifest, partitions, records and commits are on the disk, and a broker
\* that is up serves it, through crashes, also those of a start-up, and the
\* start-ups after them.  Excepted are the names that a deletion of an earlier
\* topic disturbed, and a topic of the old kind whose missing manifest was being
\* written when a crash came: that manifest stays empty and no broker starts.
CreatedStays ==
    \A i \in Living : LET n == life[i].name IN
        n \notin disturbed => OnDisk(i) /\ (broker = "up" => topics[n] = i)

\* When delete_topic has answered, nothing of the topic is left and nothing of
\* it comes back, from requests that had found it before, from appends that
\* were queued, or from a restart; and a topic created later under the same
\* name begins without the old one's records, offsets and members.
DeletedGone ==
    \A i \in deleted : LET n == life[i].name IN
        /\ topics[n] # i
        /\ n \notin disturbed =>
               /\ i \notin offsets[n] /\ i \notin members[n]
               /\ \A r \in records[n] : r[2] # i
               /\ owner[n] = i => manifest[n] = Absent /\ dirs[n] = {}

\* While a topic is being deleted nobody is a member of it: delete_topic
\* refuses a topic with members, and no join gets in after its check.
NoMemberOfDeleted ==
    \A c \in Client : job[c].op = "delete" => job[c].id \notin members[job[c].name]

\* What docs say of deletion, "removes manifests, partition logs, and related
\* metadata safely": it takes nothing of a topic created under the same name.
CreatedServed ==
    \A i \in Living : LET n == life[i].name IN
        broker = "up" => topics[n] = i /\ manifest[n] = life[i].count

=============================================================================
