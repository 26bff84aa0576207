---------------------------- MODULE PartitionLog ----------------------------
(***************************************************************************)
(* One partition's log (src/src/storage/partition_log.cpp): segment files  *)
(* named by base offset, the in-memory index_ and next_offset_, appends    *)
(* that roll segments, the roll-back of a failed append segment by         *)
(* segment, retention with unlinks that may fail, and a process crash      *)
(* between any two file-system steps followed by recover().                *)
(*                                                                         *)
(* Every operation holds the partition's log mutex (server.cpp), so at     *)
(* most one operation is in progress: op says which, and only a crash or   *)
(* the clock interleaves with its steps.                                   *)
(*                                                                         *)
(* Data kept: offsets, values, segment bases, file positions, byte counts, *)
(* file modification times.  A complete record on disk is a cell; a        *)
(* physical batch is a set of cells with one position.  A record that was  *)
(* only partly written is a torn tail of its file.  The .index files are   *)
(* left out: they are rewritten from the log by every recover() and no     *)
(* broker code reads them.  The catch blocks and recover() ignore the      *)
(* result of the removals and cuts they make; the model assumes of the     *)
(* environment that those succeed.                                         *)
(***************************************************************************)
EXTENDS Integers, Sequences, FiniteSets, Functions

CONSTANTS
    Value,              \* record contents
    RecordBytes,        \* encoded size of a version-1 record, by value
    BatchBytes,         \* possible sizes of an encoded version-2 batch
    MaxSegmentBytes,    \* options_.max_segment_bytes
    SegmentMaxAge,      \* options_.segment_max_age_seconds, 0 = off
    RetentionMaxAge,    \* policy.max_age_seconds, 0 = off
    RetentionMaxBytes,  \* policy.max_bytes, 0 = off
    FetchBytes,         \* the max_bytes a fetch may ask for, 0 = no limit
    MaxOffset,          \* bound: offsets are 0 .. MaxOffset - 1
    MaxBatch,           \* bound: records in one append
    MaxTime             \* bound: the clock stops here

ASSUME ConstantsAssumption ==
    /\ RecordBytes \in [Value -> Nat \ {0}]
    /\ BatchBytes \subseteq Nat \ {0}
    /\ MaxSegmentBytes \in Nat \ {0}
    /\ SegmentMaxAge \in Nat
    /\ RetentionMaxAge \in Nat
    /\ RetentionMaxBytes \in Nat
    /\ FetchBytes \subseteq Nat
    /\ MaxOffset \in Nat
    /\ MaxBatch \in Nat
    /\ MaxTime \in Nat

Offset == 0 .. MaxOffset

Cell == [offset : Offset, seg : Offset, pos : Nat, len : Nat, ri : Nat, val : Value]

IndexEntry == [offset : Offset, seg : Offset, pos : Nat, len : Nat, ri : Nat]

Batches == UNION {[1 .. n -> Value] : n \in 1 .. MaxBatch}

VARIABLES
    \* the partition directory
    files,    \* base offsets of the existing .log files
    size,     \* bytes of complete records in each file, 0 if there is none
    mtime,    \* last_write_time of each file
    stored,   \* the complete records on disk
    torn,     \* files that end in an incomplete record
    \* the PartitionLog object
    up,       \* the process is running and the log is open
    index,    \* index_
    next,     \* next_offset_
    \* the operation that holds the log mutex
    op,       \* "idle", "append", "undo", "batch" or "retain"
    vals,     \* records still to be written
    bytes,    \* encoded.size() of a version-2 batch
    off,      \* offset of the next record to be written
    base,     \* base_offset / segment_base
    cur,      \* current_size
    staged,   \* cells written by this append
    orig,     \* the files and sizes found when the append began
    todo,     \* segments the roll-back or retention has still to visit
    deleted,  \* deleted_logs
    total,    \* total_bytes
    \* the environment and the history
    now,      \* the file clock
    acked,    \* <<offset, value>> of every append that returned
    trimmed,  \* offsets whose segment retention deleted
    lost,     \* offsets left out by an append whose roll-back a crash cut short
    orphans,  \* segments deleted by a pass that threw: index_ still names them
    began     \* when the retention pass under way began

diskVars   == <<files, size, mtime, stored, torn>>
memVars    == <<up, index, next>>
appendVars == <<vals, bytes, off, base, cur, staged, orig>>
retainVars == <<todo, deleted, total>>
histVars   == <<acked, trimmed, lost, orphans, began>>
vars == <<diskVars, memVars, op, appendVars, retainVars, now, histVars>>

-----------------------------------------------------------------------------
\* The index entry of a cell: where the record is, not what it says.
Loc(c) == [offset |-> c.offset, seg |-> c.seg, pos |-> c.pos, len |-> c.len,
           ri |-> c.ri]

LocSet(cells) == {Loc(c) : c \in cells}

\* index_ is sorted by offset, so back() is the entry with the largest one.
IsBack(e, entries) == e \in entries /\ \A d \in entries : d.offset <= e.offset

ActiveBase(entries) ==
    IF entries = {} THEN 0 ELSE (CHOOSE e \in entries : IsBack(e, entries)).seg

\* Mutant: next_offset_ taken from index_.size().
EndOffsetCounted(cells) == Cardinality(cells)

\* One past the last recovered offset, 0 for an empty log.
EndOffset(cells) ==
    IF cells = {} THEN 0
    ELSE CHOOSE n \in 1 .. MaxOffset : /\ \E c \in cells : n = c.offset + 1
                                       /\ \A c \in cells : c.offset < n

Age(f) == IF f \in files THEN now - mtime[f] ELSE 0

\* The file times after writes to the files of S.
Touch(S) == [f \in Offset |-> IF f \in S THEN now ELSE mtime[f]]

\* Mutant: the segments are not sorted.
IsAny(b, S) == b \in S

\* Segment lists are sorted by base offset.
IsFirst(b, S) == b \in S /\ \A s \in S : b <= s

NoFiles == [files |-> {}, size |-> [f \in Offset |-> 0]]

NoAppend ==
    /\ vals' = <<>> /\ bytes' = 0 /\ off' = 0 /\ base' = 0 /\ cur' = 0
    /\ staged' = {} /\ orig' = NoFiles

\* A new partition: open() on an empty directory creates the segment at 0.
Init ==
    /\ files = {0}
    /\ size = [f \in Offset |-> 0]
    /\ mtime = [f \in Offset |-> 0]
    /\ stored = {}
    /\ torn = {}
    /\ up = TRUE
    /\ index = {}
    /\ next = 0
    /\ op = "idle"
    /\ vals = <<>> /\ bytes = 0 /\ off = 0 /\ base = 0 /\ cur = 0
    /\ staged = {} /\ orig = NoFiles
    /\ todo = {} /\ deleted = {} /\ total = 0
    /\ now = 0
    /\ acked = {} /\ trimmed = {} /\ lost = {} /\ orphans = {} /\ began = 0

-----------------------------------------------------------------------------
(* append_batch: version-1 records, one cell and one position each.        *)

BeginAppend(vs) ==
    /\ up /\ op = "idle"
    /\ next + Len(vs) <= MaxOffset
    /\ op' = "append"
    /\ vals' = vs
    /\ off' = next
    /\ base' = ActiveBase(index)
    /\ cur' = size[ActiveBase(index)]
    /\ orig' = [files |-> files, size |-> size]
    /\ UNCHANGED <<diskVars, memVars, bytes, staged, retainVars, now, histVars>>

RollDue(n) ==
    /\ cur > 0
    /\ \/ cur + n > MaxSegmentBytes
       \/ SegmentMaxAge > 0 /\ Age(base) >= SegmentMaxAge

\* Where the next record of an append_batch goes.
WriteBase == IF RollDue(RecordBytes[Head(vals)]) THEN off ELSE base

WritePos == IF RollDue(RecordBytes[Head(vals)]) THEN 0 ELSE cur

\* The base of the open chunk, once the stream holds records for it.
OpenChunk == {b \in {base} : op # "undo" /\ \E c \in staged : c.seg = b}

\* A roll flushes the chunk it leaves; opening a missing file creates it.  The
\* record itself is in the stream's buffer, or spilled to the file at once.
WriteRecord(spill) ==
    /\ op = "append" /\ vals # <<>>
    /\ LET n == RecordBytes[Head(vals)]
           c == [offset |-> off, seg |-> WriteBase, pos |-> WritePos, len |-> n,
                 ri |-> 0, val |-> Head(vals)]
       IN  /\ files' = files \cup {WriteBase}
           /\ mtime' = Touch((OpenChunk \ {WriteBase})
                               \cup ({WriteBase} \ (IF spill THEN {} ELSE files)))
           /\ stored' = stored \cup {c}
           /\ size' = [size EXCEPT ![WriteBase] = WritePos + n]
           /\ staged' = staged \cup {c}
           /\ base' = WriteBase
           /\ cur' = WritePos + n
    /\ vals' = Tail(vals)
    /\ off' = off + 1
    /\ UNCHANGED <<torn, memVars, op, bytes, orig, retainVars, now, histVars>>

\* The append can fail or the process can die inside the write of a record.
Writing == op \in {"append", "batch"} /\ vals # <<>>

WriteTarget == IF op = "append" THEN WriteBase ELSE base

\* The file a failing or dying write leaves behind, if it got that far: the
\* write may have created it, or put part of a record in it.
LeftBehind(how) == IF how = "clean" THEN {} ELSE {WriteTarget}

MayLeave(how) ==
    /\ how # "clean" => Writing
    /\ how = "created" => WriteTarget \notin files

\* A failed open, write or flush: the streams are closed, and the segments that
\* are new or longer than before the append are to be undone.
FailAppend(how) ==
    /\ op = "append"
    /\ MayLeave(how)
    /\ files' = files \cup LeftBehind(how)
    /\ torn' = IF how = "torn" THEN {WriteTarget} ELSE {}
    /\ mtime' = Touch(OpenChunk \cup LeftBehind(how))
    /\ todo' = (files' \ orig.files) \cup torn' \cup {c.seg : c \in staged}
    /\ op' = "undo"
    /\ vals' = <<>> /\ base' = 0 /\ cur' = 0
    /\ UNCHANGED <<size, stored, memVars, bytes, off, staged, orig, deleted, total,
                   now, histVars>>

\* Mutant: the new segments are removed, those the append found are not cut.
UndoSegmentUncut(b) ==
    /\ op = "undo" /\ IsFirst(b, todo)
    /\ stored' = {c \in stored : c.seg = b => b \in orig.files}
    /\ staged' = {c \in staged : c.seg # b}
    /\ files' = files \ ({b} \ orig.files)
    /\ size' = [size EXCEPT ![b] = IF b \in orig.files THEN size[b] ELSE 0]
    /\ torn' = torn \ {b}
    /\ todo' = todo \ {b}
    /\ UNCHANGED <<mtime, memVars, op, vals, bytes, off, base, cur, orig, deleted,
                   total, now, histVars>>

\* The next listed segment is removed, or cut back to its length before the
\* append; a file whose length does not change keeps its time.
UndoSegment(b) ==
    /\ op = "undo" /\ IsFirst(b, todo)
    /\ stored' = {c \in stored : c.seg = b => b \in orig.files /\ c.pos < orig.size[b]}
    /\ staged' = {c \in staged : c.seg # b}
    /\ files' = files \ ({b} \ orig.files)
    /\ size' = [size EXCEPT ![b] = IF b \in orig.files THEN orig.size[b] ELSE 0]
    /\ mtime' = Touch({b} \cap orig.files)
    /\ torn' = torn \ {b}
    /\ todo' = todo \ {b}
    /\ UNCHANGED <<memVars, op, vals, bytes, off, base, cur, orig, deleted, total,
                   now, histVars>>

\* index_ and next_offset_ were never moved; the exception goes to the caller.
EndUndo ==
    /\ op = "undo" /\ todo = {}
    /\ op' = "idle"
    /\ NoAppend
    /\ UNCHANGED <<diskVars, memVars, retainVars, now, histVars>>

-----------------------------------------------------------------------------
(* append_encoded_batch: one physical entry that holds all the records.    *)

BeginBatch(vs, n) ==
    /\ up /\ op = "idle"
    /\ next + Len(vs) <= MaxOffset
    /\ LET a == ActiveBase(index)
           roll == size[a] > 0 /\ size[a] + n > MaxSegmentBytes
       IN  /\ base' = IF roll THEN next ELSE a
           /\ cur' = IF roll THEN 0 ELSE size[a]
    /\ op' = "batch"
    /\ vals' = vs
    /\ bytes' = n
    /\ off' = next
    /\ orig' = [files |-> files, size |-> size]
    /\ UNCHANGED <<diskVars, memVars, staged, retainVars, now, histVars>>

BatchCells ==
    {[offset |-> off + k, seg |-> base, pos |-> cur, len |-> bytes,
      ri |-> k, val |-> vals[k + 1]] :
        k \in 0 .. Len(vals) - 1}

WriteBatch ==
    /\ op = "batch" /\ vals # <<>>
    /\ files' = files \cup {base}
    /\ mtime' = Touch({base} \ files)
    /\ stored' = stored \cup BatchCells
    /\ size' = [size EXCEPT ![base] = cur + bytes]
    /\ staged' = BatchCells
    /\ cur' = cur + bytes
    /\ vals' = <<>>
    /\ off' = off + Len(vals)
    /\ UNCHANGED <<torn, memVars, op, bytes, base, orig, retainVars, now, histVars>>

\* Mutant: the file is not cut back.
FailBatchUncut(partial) ==
    /\ op = "batch"
    /\ partial => Writing
    /\ mtime' = Touch(OpenChunk)
    /\ op' = "idle"
    /\ NoAppend
    /\ UNCHANGED <<files, size, stored, torn, memVars, retainVars, now, histVars>>

\* The catch block: a file that was empty is removed, another is cut back.
FailBatch(partial) ==
    /\ op = "batch"
    /\ partial => Writing
    /\ files' = IF orig.size[base] = 0 THEN files \ {base} ELSE files
    /\ size' = [size EXCEPT ![base] = orig.size[base]]
    /\ stored' = {c \in stored : c.seg = base => c.pos < orig.size[base]}
    /\ mtime' = Touch(OpenChunk \cup (IF partial THEN {base} ELSE {}))
    /\ op' = "idle"
    /\ NoAppend
    /\ UNCHANGED <<torn, memVars, retainVars, now, histVars>>

\* Both appends end alike: flush, publish the index entries, move next_offset_.
CommitAppend ==
    /\ op \in {"append", "batch"} /\ vals = <<>>
    /\ index' = index \cup LocSet(staged)
    /\ next' = off
    /\ mtime' = Touch({base})
    /\ acked' = acked \cup {<<c.offset, c.val>> : c \in staged}
    /\ op' = "idle"
    /\ NoAppend
    /\ UNCHANGED <<files, size, stored, torn, up, retainVars, now, trimmed, lost, orphans,
                   began>>

-----------------------------------------------------------------------------
(* apply_retention                                                         *)

\* Bytes of all the segments; a missing file counts as 0.
DiskBytes == SumFunction(size)

BeginRetention ==
    /\ up /\ op = "idle"
    /\ total' = DiskBytes /\ total' \in Nat
    /\ op' = "retain"
    /\ todo' = files \cup {e.seg : e \in index}
    /\ deleted' = {}
    /\ began' = now
    /\ UNCHANGED <<diskVars, memVars, appendVars, now, acked, trimmed, lost, orphans>>

AgeDue(b) == RetentionMaxAge > 0 /\ Age(b) >= RetentionMaxAge

\* Mutant: the active segment is not exempt.
DeleteDueAny(b) ==
    \/ AgeDue(b)
    \/ RetentionMaxBytes > 0 /\ total > RetentionMaxBytes

\* Mutant: the active segment's bytes are not counted.
DeleteDueInactive(b) ==
    /\ b # ActiveBase(index)
    /\ \/ AgeDue(b)
       \/ RetentionMaxBytes > 0 /\ total - size[ActiveBase(index)] > RetentionMaxBytes

DeleteDue(b) ==
    /\ b # ActiveBase(index)
    /\ \/ AgeDue(b)
       \/ RetentionMaxBytes > 0 /\ total > RetentionMaxBytes

\* The .log file of a due segment is unlinked.
Unlink(b) ==
    /\ files' = files \ {b}
    /\ size' = [size EXCEPT ![b] = 0]
    /\ stored' = {c \in stored : c.seg # b}
    /\ trimmed' = trimmed \cup {c.offset : c \in {d \in stored : d.seg = b}}

DeleteSegment(b) ==
    /\ op = "retain" /\ IsFirst(b, todo)
    /\ DeleteDue(b)
    /\ Unlink(b)
    /\ deleted' = deleted \cup {b}
    /\ total' = IF size[b] > total THEN 0 ELSE total - size[b]
    /\ todo' = todo \ {b}
    /\ UNCHANGED <<mtime, torn, memVars, op, appendVars, now, acked, lost, orphans, began>>

KeepSegment(b) ==
    /\ op = "retain" /\ IsFirst(b, todo)
    /\ ~DeleteDue(b)
    /\ todo' = todo \ {b}
    /\ UNCHANGED <<diskVars, memVars, op, appendVars, deleted, total, now, histVars>>

\* The segments of S that index_ names.
Orphaned(S) == {b \in S : \E e \in index : e.seg = b}

\* The unlink of the .log file fails, or that of the .index file after it: the
\* pass throws before it prunes index_ of the segments already deleted.
FailRetention(b) ==
    /\ op = "retain" /\ IsFirst(b, todo)
    /\ DeleteDue(b)
    /\ \/ /\ orphans' = orphans \cup Orphaned(deleted)
          /\ UNCHANGED <<files, size, stored, trimmed>>
       \/ /\ orphans' = orphans \cup Orphaned(deleted \cup {b})
          /\ Unlink(b)
    /\ todo' = {} /\ deleted' = {} /\ total' = 0 /\ began' = 0
    /\ op' = "idle"
    /\ UNCHANGED <<mtime, torn, memVars, appendVars, now, acked, lost>>

\* Mutant: index_ is not pruned.
EndRetentionUnpruned ==
    /\ op = "retain" /\ todo = {}
    /\ deleted' = {} /\ total' = 0 /\ began' = 0
    /\ op' = "idle"
    /\ UNCHANGED <<diskVars, memVars, appendVars, todo, now, acked, trimmed, lost, orphans>>

EndRetention ==
    /\ op = "retain" /\ todo = {}
    /\ index' = {e \in index : e.seg \notin deleted}
    /\ orphans' = orphans \ deleted
    /\ deleted' = {} /\ total' = 0 /\ began' = 0
    /\ op' = "idle"
    /\ UNCHANGED <<diskVars, up, next, appendVars, todo, now, acked, trimmed, lost>>

-----------------------------------------------------------------------------
(* A process crash and the next open().                                    *)

\* Offsets below a record that is on disk, of an append that was being undone.
Holes ==
    {o \in next .. off - 1 : /\ \A c \in staged : c.offset # o
                             /\ \E c \in staged : o < c.offset}

\* The process dies: in a write, between two steps of a roll-back or of a
\* retention pass, or at rest.
Crash(how) ==
    /\ up
    /\ MayLeave(how)
    /\ files' = files \cup LeftBehind(how)
    /\ torn' = IF how = "torn" THEN {WriteTarget} ELSE torn
    /\ mtime' = Touch(OpenChunk \cup LeftBehind(how))
    /\ lost' = lost \cup Holes
    /\ up' = FALSE
    /\ index' = {}
    /\ next' = 0
    /\ op' = "idle"
    /\ NoAppend
    /\ todo' = {} /\ deleted' = {} /\ total' = 0
    /\ orphans' = {} /\ began' = 0
    /\ UNCHANGED <<size, stored, now, acked, trimmed>>

\* Mutant: the torn segment is removed instead of cut.
ScannedBelow(f) == \A t \in torn : f < t

\* The scan stops at the first incomplete record; what follows it is removed.
Scanned(f) == \A t \in torn : f <= t

Recover ==
    /\ ~up
    /\ LET kept == {c \in stored : Scanned(c.seg)}
           active == ActiveBase(LocSet(kept))
       IN  /\ stored' = kept
           /\ index' = LocSet(kept)
           /\ next' = EndOffset(kept)
           /\ files' = {f \in files : Scanned(f)} \cup {active}
           /\ size' = [f \in Offset |-> IF Scanned(f) THEN size[f] ELSE 0]
           /\ mtime' = Touch(torn \cup ({active} \ files))
    /\ torn' = {}
    /\ up' = TRUE
    /\ UNCHANGED <<op, appendVars, retainVars, now, histVars>>

\* A crash inside recover(): the torn tail is cut, some of the later segments
\* are not removed yet.
RecoverInterrupted(gone) ==
    /\ ~up /\ torn # {}
    /\ gone \subseteq {f \in files : ~Scanned(f)}
    /\ files' = files \ gone
    /\ stored' = {c \in stored : c.seg \notin gone}
    /\ size' = [f \in Offset |-> IF f \in gone THEN 0 ELSE size[f]]
    /\ mtime' = Touch(torn)
    /\ torn' = {}
    /\ UNCHANGED <<memVars, op, appendVars, retainVars, now, histVars>>

Tick ==
    /\ now < MaxTime
    /\ now' = now + 1
    /\ UNCHANGED <<diskVars, memVars, op, appendVars, retainVars, histVars>>

-----------------------------------------------------------------------------
Next ==
    \/ \E vs \in Batches : BeginAppend(vs)
    \/ \E spill \in BOOLEAN : WriteRecord(spill)
    \/ \E how \in {"clean", "created", "torn"} : FailAppend(how)
    \/ \E b \in todo : UndoSegment(b)
    \/ EndUndo
    \/ \E vs \in Batches, n \in BatchBytes : BeginBatch(vs, n)
    \/ WriteBatch
    \/ \E partial \in BOOLEAN : FailBatch(partial)
    \/ CommitAppend
    \/ BeginRetention
    \/ \E b \in todo : DeleteSegment(b)
    \/ \E b \in todo : KeepSegment(b)
    \/ \E b \in todo : FailRetention(b)
    \/ EndRetention
    \/ \E how \in {"clean", "created", "torn"} : Crash(how)
    \/ Recover
    \/ \E gone \in SUBSET files : RecoverInterrupted(gone)
    \/ Tick

Spec == Init /\ [][Next]_vars

-----------------------------------------------------------------------------
(* Reads: what a fetch gets from the index, without a change of state.     *)

EarliestOffset ==
    IF index = {} THEN next
    ELSE (CHOOSE e \in index : \A d \in index : e.offset <= d.offset).offset

\* Mutant: a record over the byte limit is never taken.
ReadFromStrict(o, maxRecords, maxBytes) ==
    LET before(e) == {d \in index : o <= d.offset /\ d.offset < e.offset}
        emitted(e) == SumFunction([d \in before(e) |-> d.len])
    IN  {e \in index :
            /\ o <= e.offset
            /\ Cardinality(before(e)) < maxRecords
            /\ maxBytes = 0 \/ emitted(e) + e.len <= maxBytes}

\* The entries read_from returns: it stops at the first entry over a limit, but
\* always takes one; record_bytes only grow the sum, so no later entry fits.
ReadFrom(o, maxRecords, maxBytes) ==
    LET before(e) == {d \in index : o <= d.offset /\ d.offset < e.offset}
        emitted(e) == SumFunction([d \in before(e) |-> d.len])
    IN  {e \in index :
            /\ o <= e.offset
            /\ Cardinality(before(e)) < maxRecords
            /\ \/ maxBytes = 0
               \/ before(e) = {}
               \/ emitted(e) + e.len <= maxBytes}

-----------------------------------------------------------------------------
(* Properties                                                              *)

TypeOK ==
    /\ files \subseteq Offset
    /\ size \in [Offset -> Nat]
    /\ mtime \in [Offset -> 0 .. MaxTime]
    /\ stored \subseteq Cell
    /\ torn \subseteq Offset
    /\ up \in BOOLEAN
    /\ index \subseteq IndexEntry
    /\ next \in Offset
    /\ op \in {"idle", "append", "undo", "batch", "retain"}
    /\ vals \in Seq(Value)
    /\ bytes \in Nat
    /\ off \in Offset
    /\ base \in Offset
    /\ cur \in Nat
    /\ staged \subseteq Cell
    /\ orig \in [files : SUBSET Offset, size : [Offset -> Nat]]
    /\ todo \subseteq Offset
    /\ deleted \subseteq Offset
    /\ total \in Nat
    /\ now \in 0 .. MaxTime
    /\ acked \subseteq Offset \X Value
    /\ trimmed \subseteq Offset
    /\ lost \subseteq Offset
    /\ orphans \subseteq Offset
    /\ began \in 0 .. MaxTime

\* Outside a retention pass index_ is what a reader finds: an append leaves it
\* alone until it publishes.
Readable == up /\ op # "retain"

\* The offsets of index_ are unique, and every offset below next_offset_ is in
\* it, unless retention deleted its segment, or a crash cut short the roll-back
\* of the failed append it belonged to.
IndexDense ==
    up =>
        /\ \A d, e \in index : d.offset = e.offset => d = e
        /\ \A e \in index : e.offset < next
        /\ \A o \in (0 .. next - 1) \ (trimmed \cup lost) :
               \E e \in index : e.offset = o

\* Whenever a fetch can run, each index_ entry points at a complete record with
\* that offset in an existing file, unless a pass that threw deleted the file.
IndexReadable ==
    Readable => \A e \in index :
        \/ e.seg \in files /\ \E c \in stored : Loc(c) = e
        \/ e.seg \in orphans

\* Within a file two physical entries never overlap, and none passes the end.
RecordsDisjoint ==
    \A c, d \in stored :
        /\ c.pos + c.len <= size[c.seg]
        /\ c.seg = d.seg => \/ c.pos = d.pos /\ c.len = d.len
                            \/ c.pos + c.len <= d.pos
                            \/ d.pos + d.len <= c.pos

\* A record whose append returned stays readable at its offset, with its value,
\* through every crash and recovery, until retention deletes its segment.
AckedSurvives ==
    Readable => \A a \in acked :
        a[1] \in trimmed \/ \E c \in stored : /\ c.offset = a[1] /\ c.val = a[2]
                                              /\ Loc(c) \in index

\* next_offset_ never falls back to or below an acknowledged offset, even when
\* retention has deleted the record: recovery reads it off the active segment.
HighWatermarkKept == up => \A a \in acked : a[1] < next

\* A new acknowledgement is above all earlier ones: no offset is given twice.
AcksAdvance == [][\A a \in acked' \ acked : \A b \in acked : b[1] < a[1]]_vars

\* A fetch below next_offset_ gets the first record at or after its offset,
\* however small its byte limit, and skips none up to the last it gets: a
\* consumer is never stuck.  Each comes from an existing file, unless a pass
\* that threw deleted it.
FetchServed ==
    Readable =>
        \A o \in 0 .. next - 1, n \in 1 .. MaxBatch, m \in FetchBytes :
            LET ahead == {e \in index : o <= e.offset}
                got == ReadFrom(o, n, m)
            IN  /\ \E e \in got : \A d \in ahead : e.offset <= d.offset
                /\ \A e \in got, d \in ahead : d.offset <= e.offset => d \in got
                /\ \A e \in got : e.seg \in files \cup orphans

\* Retention deletes oldest first: a record older than one it deleted is gone
\* too, or due by age (the clock moved on between the two segments) and so
\* deleted by the next pass.  Excepted: index_ entries a pass that threw left
\* behind, and a log in which a roll-back was cut short (the segment it cut is
\* older but has the later file time).
TrimsPrefix ==
    Readable /\ lost = {} =>
        \A t \in trimmed : \A e \in index :
            \/ t < e.offset
            \/ e.seg # ActiveBase(index) /\ AgeDue(e.seg)
            \/ e.seg \in orphans

\* After its last segment a pass is within the size budget, or nothing but the
\* active segment holds data; no other segment left was over the age limit when
\* the pass began.
RetentionDone ==
    op = "retain" /\ todo = {} =>
        \A c \in stored : c.seg # ActiveBase(index) =>
            /\ RetentionMaxBytes > 0 => DiskBytes <= RetentionMaxBytes
            /\ RetentionMaxAge > 0 => began - mtime[c.seg] < RetentionMaxAge

-----------------------------------------------------------------------------
(* Refinement: the log implements CommitLog.  The records it stands for    *)
(* are those on disk but for the ones of an append under way, which takes  *)
(* effect when it is published, or when the process dies before all of its *)
(* records are undone.                                                     *)

Durable == stored \ staged

DurableEnd == IF up THEN next ELSE EndOffset(stored)

DurableLog == {<<c.offset, c.val>> : c \in Durable}

Abstract == INSTANCE CommitLog WITH log <- DurableLog, hi <- DurableEnd

\* The partition log, with its segments, roll-backs, crashes and recovery, is a
\* log that never changes a record and that retention never empties.
ImplementsCommitLog == Abstract!Spec

=============================================================================
