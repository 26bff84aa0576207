-------------------------- MODULE PartitionLogInv --------------------------
(***************************************************************************)
(* The inductive invariant of PartitionLog: what every step relies on.     *)
(***************************************************************************)
EXTENDS PartitionLog

Appending == op \in {"append", "batch"}

\* Sets of cells or of index entries: offsets are unique, and a later segment
\* holds later offsets.
Ordered(S) ==
    \A c, d \in S : /\ c.offset = d.offset => c = d
                    /\ c.seg < d.seg => c.offset < d.offset

\* Files: every record lies inside an existing file whose name is not above its
\* offset; bytes belong to records.
Layout ==
    /\ \A c \in stored : /\ c.seg \in files /\ c.seg <= c.offset
                         /\ c.offset < MaxOffset
                         /\ c.len > 0 /\ c.pos + c.len <= size[c.seg]
    /\ \A f \in Offset : size[f] > 0 => \E c \in stored : c.seg = f
    /\ RecordsDisjoint
    /\ Ordered(stored)

\* No offset is passed over: below next_offset_, or below the last record of a
\* closed log, each is on disk, trimmed or lost.
Accounted ==
    /\ up => \A o \in 0 .. next - 1 :
           o \in trimmed \/ o \in lost \/ \E c \in Durable : c.offset = o
    /\ ~up => \A d \in Durable : \A o \in 0 .. d.offset :
           o \in trimmed \/ o \in lost \/ \E c \in Durable : c.offset = o

\* The segments that are gone while index_ still names them.
Gone == deleted \cup orphans

\* index_ and next_offset_: index_ has the records on disk and stale entries of
\* segments that are gone; the newest entry is never stale.
Indexed ==
    /\ Ordered(index)
    /\ \A e \in index : e.seg <= e.offset /\ e.offset < next
    /\ \A b \in orphans : \E e \in index : e.seg = b
    /\ up => /\ \A c \in Durable : Loc(c) \in index
             /\ \A e \in index : e \in LocSet(Durable) \/ e.seg \in Gone
             /\ \A c \in stored : c.seg \notin Gone
             /\ index = {} => next = 0
             /\ index # {} => \E c \in Durable : c.offset = next - 1

\* A closed log has no operation, and a torn record is in the last segment.
Closed ==
    /\ up /\ op # "undo" => torn = {}
    /\ \A t \in torn : t \in files /\ \A c \in stored : c.seg <= t
    /\ ~up => op = "idle" /\ index = {} /\ next = 0

\* An append's own records: next .. off - 1, in the last segments.
Staging ==
    /\ ~Appending => vals = <<>>
    /\ ~Appending /\ op # "undo" => staged = {}
    /\ staged \subseteq stored
    /\ \A c \in staged : next <= c.offset /\ c.offset < off
    /\ Appending => /\ next <= off /\ off + Len(vals) <= MaxOffset
                    /\ off + Len(vals) <= next + MaxBatch
                    /\ \A o \in Offset : next <= o /\ o < off =>
                           \E c \in staged : c.offset = o
                    /\ base <= off
                    /\ base \notin Gone
                    /\ \A c \in stored : c.seg <= base
                    /\ \A c \in stored : c.seg = base => c.pos + c.len <= cur
    /\ op = "batch" => /\ bytes > 0
                       /\ vals # <<>> => staged = {}
                       /\ \A c \in staged : c.seg = base

\* The snapshot tells the append's records from the ones it found; a roll-back
\* has still to visit the new files, the torn one and those with its records.
Snapshot ==
    /\ Appending => orig.size[base] <= cur
    /\ Appending \/ op = "undo" =>
        /\ orig.files \subseteq files
        /\ \A f \in Offset : orig.size[f] > 0 =>
               \E c \in Durable : c.seg = f
        /\ \A c \in Durable :
               c.seg \in orig.files /\ c.pos + c.len <= orig.size[c.seg]
        /\ \A c \in staged : orig.size[c.seg] <= c.pos
    /\ op = "undo" =>
        /\ todo = (files \ orig.files) \cup torn \cup {c.seg : c \in staged}
        /\ off <= next + MaxBatch

\* With the file times m, a later segment of S was written later.
Aged(S, m) == \A c, d \in S : c.seg <= d.seg => m[c.seg] <= m[d.seg]

\* File times follow the segments, but for the one being written, and unless a
\* roll-back has cut an older one last.
Times ==
    /\ \A f \in Offset : mtime[f] <= now
    /\ began <= now
    /\ lost = {} =>
           /\ Aged(Durable, mtime)
           /\ Holes = {} => Aged({c \in stored : c.seg \notin OpenChunk}, mtime)

\* A segment retention may keep: within the size limit, and not over the age
\* limit when the pass began.
Kept(b) ==
    \/ b = ActiveBase(index)
    \/ /\ RetentionMaxBytes > 0 => total <= RetentionMaxBytes
       /\ RetentionMaxAge > 0 => began - mtime[b] < RetentionMaxAge

\* A retention pass: visited segments that remain were not due.
Retaining ==
    /\ op \notin {"retain", "undo"} => todo = {}
    /\ op # "retain" => deleted = {}
    /\ op = "retain" => \A c \in stored : c.seg \notin todo =>
           Kept(c.seg) /\ \A b \in todo : c.seg < b

\* Acknowledged and deleted records.
History ==
    /\ \A a \in acked : a[1] \in trimmed \/ \E c \in Durable :
                            c.offset = a[1] /\ c.val = a[2]
    /\ up => \A a \in acked : a[1] < next
    /\ ~up => \A a \in acked : \E c \in Durable : a[1] <= c.offset
    /\ up => \A t \in trimmed : t < next
    /\ ~up => \A t \in trimmed : \E c \in Durable : t <= c.offset
    /\ lost = {} => \A t \in trimmed : \A c \in Durable :
           \/ t < c.offset
           \/ AgeDue(c.seg) /\ \E d \in Durable : c.seg < d.seg

\* Every step of the partition log keeps all of this together.
IInv ==
    /\ TypeOK /\ Layout /\ Accounted /\ Indexed /\ Closed /\ Staging
    /\ Snapshot /\ Times /\ Retaining /\ History

=============================================================================
