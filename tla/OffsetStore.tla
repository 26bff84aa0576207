---------------------------- MODULE OffsetStore ----------------------------
(***************************************************************************)
(* The consumer offsets on disk (src/src/storage/offset_store.cpp): one    *)
(* append-only offsets.log per group, a map in memory, commits that append *)
(* a line, the rewrite of a group's file when a topic is deleted, and      *)
(* recovery, which replays the lines up to the first one that is not whole *)
(* or fails its CRC, and cuts the rest off.                                *)
(*                                                                         *)
(* Every operation holds the broker's offsets mutex, so at most one is in  *)
(* progress; a crash may come between any two of its file-system steps.    *)
(* A line is its key, its offset and whether its CRC holds.  The .tmp file *)
(* of a rewrite is left out: nothing reads it unless it is renamed.        *)
(***************************************************************************)
EXTENDS Integers, Sequences, FiniteSets, Functions

CONSTANTS
    Group,      \* consumer groups
    Topic,      \* topics
    Partition,  \* partitions of each topic
    MaxOffset,  \* bound: offsets are 0 .. MaxOffset
    MaxLines,   \* bound: lines in a file
    MaxHurt     \* bound: groups whose file is in disorder at a time

ASSUME StoreAssumption ==
    /\ {MaxOffset, MaxLines, MaxHurt} \subseteq Nat
    /\ IsFiniteSet(Topic) /\ IsFiniteSet(Partition)

Key == Topic \X Partition

Offset == 0 .. MaxOffset

None == -1

Line == [key : Key, next : Offset, ok : BOOLEAN]

VARIABLES
    \* consumer_offsets/<group>/offsets.log
    present,   \* groups whose file exists
    file,      \* the terminated lines of each file
    torn,      \* groups whose file ends in an unterminated line
    \* the OffsetStore object
    up,        \* the process is running
    offsets,   \* offsets_, by group and key
    \* the operation that holds the mutex
    op,        \* "idle", "commit", "remove"
    request,   \* group, key and offset of the commit
    touched,   \* touched_groups that are still to be rewritten
    unlinked,  \* groups whose old file is removed, the new one not renamed yet
    \* history
    acked,     \* what the last successful call left for each key
    maybe,     \* what later calls that did not return may have left
    hurt       \* groups whose file a failed call, or a crash between the two steps
               \* of a rewrite, has left in disorder

diskVars == <<present, file, torn>>
opVars   == <<op, request, touched, unlinked>>
histVars == <<acked, maybe, hurt>>
vars == <<diskVars, up, offsets, opVars, histVars>>

-----------------------------------------------------------------------------
\* Mutant: a bad line is skipped, not the end of the replay.
SoundAll(s) == {i \in DOMAIN s : s[i].ok}

\* The lines before the first bad one.
Sound(s) == {i \in DOMAIN s : \A j \in 1 .. i : s[j].ok}

\* recover_group: the last sound line of a key counts.
Replay(s) ==
    [k \in Key |->
        LET I == {i \in Sound(s) : s[i].key = k}
        IN  IF I = {} THEN None ELSE s[CHOOSE i \in I : \A j \in I : j <= i].next]

\* A line that is appended to an unterminated one becomes part of it.
Appended(g, k, n) == Append(file[g], [key |-> k, next |-> n, ok |-> g \notin torn])

NoOffsets == [k \in Key |-> None]

Idle == op' = "idle" /\ request' = <<>> /\ touched' = {} /\ unlinked' = {}

Init ==
    /\ present = {}
    /\ file = [g \in Group |-> <<>>]
    /\ torn = {}
    /\ up = TRUE
    /\ offsets = [g \in Group |-> NoOffsets]
    /\ op = "idle" /\ request = <<>> /\ touched = {} /\ unlinked = {}
    /\ acked = [g \in Group |-> NoOffsets]
    /\ maybe = [g \in Group |-> [k \in Key |-> {}]]
    /\ hurt = {}

-----------------------------------------------------------------------------
(* commit                                                                  *)

\* Opens the file, which creates it, writes the line and flushes it.
CommitWrite(g, k, n) ==
    /\ up /\ op = "idle"
    /\ Len(file[g]) < MaxLines
    /\ present' = present \cup {g}
    /\ file' = [file EXCEPT ![g] = Appended(g, k, n)]
    /\ torn' = torn \ {g}
    /\ op' = "commit"
    /\ request' = <<g, k, n>>
    /\ maybe' = [maybe EXCEPT ![g][k] = @ \cup {n}]
    /\ UNCHANGED <<up, offsets, touched, unlinked, acked, hurt>>

CommitDone ==
    /\ op = "commit"
    /\ offsets' = [offsets EXCEPT ![request[1]][request[2]] = request[3]]
    /\ acked' = [acked EXCEPT ![request[1]][request[2]] = request[3]]
    /\ maybe' = [maybe EXCEPT ![request[1]][request[2]] = {}]
    /\ Idle
    /\ UNCHANGED <<diskVars, up, hurt>>

\* The write or the flush fails after part of the line: commit throws, and the
\* part stays in the file.
CommitFails(g) ==
    /\ up /\ op = "idle"
    /\ present' = present \cup {g}
    /\ torn' = torn \cup {g}
    /\ hurt' = hurt \cup {g} /\ Cardinality(hurt') <= MaxHurt
    /\ UNCHANGED <<file, up, offsets, opVars, acked, maybe>>

-----------------------------------------------------------------------------
(* remove_topic                                                            *)

Holds(g, t) == \E p \in Partition : offsets[g][<<t, p>>] # None

Without(f, t) == [k \in Key |-> IF k[1] = t THEN None ELSE f[k]]

\* Erases the topic from the map of every group, before any file is rewritten.
RemoveTopic(t) ==
    /\ up /\ op = "idle"
    /\ offsets' = [g \in Group |-> Without(offsets[g], t)]
    /\ op' = "remove"
    /\ touched' = {g \in Group : Holds(g, t)}
    /\ acked' = [g \in Group |-> IF Holds(g, t) THEN acked[g] ELSE Without(acked[g], t)]
    /\ maybe' = [g \in Group |-> [k \in Key |->
                    IF k[1] # t THEN maybe[g][k] ELSE IF Holds(g, t) THEN {None} ELSE {}]]
    /\ UNCHANGED <<diskVars, up, request, unlinked, hurt>>

\* The elements of S, each once, in the order of an iteration over them.
Iterated(S) == CHOOSE s \in [1 .. Cardinality(S) -> S] : IsInjective(s)

\* The lines a rewrite puts into the new file.
Entries(f) ==
    Iterated({[key |-> k, next |-> f[k], ok |-> TRUE] : k \in {j \in Key : f[j] # None}})

\* What the group's file says is now final.
Settle(g) ==
    /\ acked' = [acked EXCEPT ![g] = offsets[g]]
    /\ maybe' = [maybe EXCEPT ![g] = [k \in Key |-> {}]]
    /\ hurt' = hurt \ {g}

\* A group without offsets loses its directory.
DropGroup(g) ==
    /\ op = "remove" /\ g \in touched /\ unlinked = {}
    /\ offsets[g] = NoOffsets
    /\ present' = present \ {g}
    /\ file' = [file EXCEPT ![g] = <<>>]
    /\ torn' = torn \ {g}
    /\ touched' = touched \ {g}
    /\ Settle(g)
    /\ UNCHANGED <<up, offsets, op, request, unlinked>>

\* The new file is written under its temporary name; the old one is removed.
Unlink(g) ==
    /\ op = "remove" /\ g \in touched /\ unlinked = {}
    /\ offsets[g] # NoOffsets
    /\ present' = present \ {g}
    /\ file' = [file EXCEPT ![g] = <<>>]
    /\ torn' = torn \ {g}
    /\ unlinked' = {g}
    /\ UNCHANGED <<up, offsets, op, request, touched, histVars>>

\* Mutant: the file is rewritten from nothing.
InstallEmpty(g) ==
    /\ op = "remove" /\ g \in unlinked
    /\ present' = present \cup {g}
    /\ file' = [file EXCEPT ![g] = <<>>]
    /\ unlinked' = {}
    /\ touched' = touched \ {g}
    /\ Settle(g)
    /\ UNCHANGED <<torn, up, offsets, op, request>>

Install(g) ==
    /\ op = "remove" /\ g \in unlinked
    /\ present' = present \cup {g}
    /\ file' = [file EXCEPT ![g] = Entries(offsets[g])]
    /\ unlinked' = {}
    /\ touched' = touched \ {g}
    /\ Settle(g)
    /\ UNCHANGED <<torn, up, offsets, op, request>>

RemoveDone ==
    /\ op = "remove" /\ touched = {}
    /\ Idle
    /\ UNCHANGED <<diskVars, up, offsets, histVars>>

\* A file-system call of the rewrite fails: remove_topic throws, the groups that
\* follow are not rewritten, and the map in memory keeps what it lost.
RemoveFails ==
    /\ op = "remove" /\ touched # {}
    /\ hurt' = hurt \cup touched /\ Cardinality(hurt') <= MaxHurt
    /\ Idle
    /\ UNCHANGED <<diskVars, up, offsets, acked, maybe>>

-----------------------------------------------------------------------------
(* A crash and the next open()                                             *)

\* The crash may come inside the write of a line.
Crash(part) ==
    /\ up
    /\ part \subseteq Group
    /\ part # {} => op = "idle" /\ \E g \in Group : part = {g}
    /\ up' = FALSE
    /\ present' = present \cup part
    /\ torn' = torn \cup part
    /\ offsets' = [g \in Group |-> NoOffsets]
    /\ hurt' = hurt \cup unlinked
    /\ Idle
    /\ UNCHANGED <<file, acked, maybe>>

\* Replays each group's file and cuts it behind its last sound line.
Recover ==
    /\ ~up
    /\ up' = TRUE
    /\ offsets' = [g \in Group |-> Replay(file[g])]
    /\ file' = [g \in Group |-> SubSeq(file[g], 1, Cardinality(Sound(file[g])))]
    /\ torn' = {}
    /\ acked' = offsets'
    /\ maybe' = [g \in Group |-> [k \in Key |-> {}]]
    /\ hurt' = {}
    /\ UNCHANGED <<present, opVars>>

-----------------------------------------------------------------------------
Next ==
    \/ \E g \in Group, k \in Key, n \in Offset : CommitWrite(g, k, n)
    \/ CommitDone
    \/ \E g \in Group : CommitFails(g)
    \/ \E t \in Topic : RemoveTopic(t)
    \/ \E g \in Group : DropGroup(g)
    \/ \E g \in Group : Unlink(g)
    \/ \E g \in Group : Install(g)
    \/ RemoveDone
    \/ RemoveFails
    \/ \E part \in SUBSET Group : Crash(part)
    \/ Recover

Spec == Init /\ [][Next]_vars

-----------------------------------------------------------------------------
(* Properties                                                              *)

\* Between operations the map in memory is what a restart would read from disk,
\* but for the groups whose file is in disorder.
MemoryOnDisk ==
    up /\ op = "idle" => \A g \in Group \ hurt : offsets[g] = Replay(file[g])

\* What a restart should find for key k of group g: the offset of the last commit
\* that was answered, or of a later one that was not; and nothing for a topic
\* whose removal was answered.
Expected(g, k) == {acked[g][k]} \cup maybe[g][k]

\* A restart finds what it should, whatever crashes and failures there were in
\* the files of other groups, unless this group's own file is in disorder.
HealthyResumes ==
    [][~up /\ up' => \A g \in Group \ hurt, k \in Key :
          offsets'[g][k] \in Expected(g, k)]_vars

=============================================================================
