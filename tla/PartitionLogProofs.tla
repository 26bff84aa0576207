------------------------- MODULE PartitionLogProofs -------------------------
(***************************************************************************)
(* IInv is an invariant of PartitionLog for every value of its constants,  *)
(* what follows from it, and that PartitionLog implements CommitLog.       *)
(***************************************************************************)
EXTENDS PartitionLogAppendProofs, NaturalsInduction, WellFoundedInduction

-----------------------------------------------------------------------------
(* The steps of apply_retention keep IInv.                                 *)

\* During a retention pass nothing is staged and no file is torn.
LEMMA RetainingFacts ==
    ASSUME IInv, op = "retain"
    PROVE  /\ up /\ torn = {} /\ staged = {} /\ vals = <<>> /\ Durable = stored
           /\ ~Appending /\ op # "undo" /\ op # "batch"
<1>1. op # "idle" /\ op # "append" /\ op # "undo" /\ op # "batch"
  BY Zenon
<1>2. ~Appending
  BY Zenon, <1>1 DEF Appending
<1> QED
  BY Zenon, <1>1, <1>2, AtRest DEF IInv, Closed, Staging

\* A step of a retention pass that touches neither the disk nor next_offset_.
LEMMA DiskKept ==
    ASSUME IInv, files' = files, size' = size, mtime' = mtime, stored' = stored, up' = up,
           next' = next, staged = {}, staged' = {}, now' = now, acked' = acked,
           trimmed' = trimmed, lost' = lost, began' <= now
    PROVE  Layout' /\ Accounted' /\ History' /\ Times' /\ Durable' = Durable
<1>1. Durable' = Durable
  BY Zenon DEF Durable
<1>2. Layout'
  BY Zenon, LayoutKept DEF IInv
<1>3. Accounted'
  BY Zenon, <1>1 DEF IInv, Accounted
<1>4. \A f \in Offset : AgeDue(f)' <=> AgeDue(f)
  BY Zenon DEF AgeDue, Age
<1>5. History'
  <2>1. \A c \in Durable : AgeDue(c.seg) => AgeDue(c.seg)'
    BY Zenon DEF AgeDue, Age
  <2> QED
    BY Zenon, <1>1, <2>1 DEF IInv, History
<1>6. DurableTimes'
  BY Zenon, <1>1 DEF DurableTimes, IInv, Times
<1>7. Times'
  BY Zenon, <1>6, RestTimes
<1> QED
  BY Zenon, <1>1, <1>2, <1>3, <1>5, <1>7

\* Outside an append the variables of the append are at rest.
LEMMA AppendAtRest ==
    ASSUME staged' = {}, vals' = <<>>, op' \notin {"append", "undo", "batch"}
    PROVE  Staging' /\ Snapshot'
<1>1. ~Appending' /\ op' # "undo" /\ op' # "batch"
  BY Zenon DEF Appending
<1> QED
  BY Zenon, <1>1 DEF Staging, Snapshot

\* apply_retention lists the segments.
LEMMA BeginRetentionStep ==
    ASSUME IInv, BeginRetention
    PROVE  IInv'
<1>ty. NatTypes
  BY Zenon, Types DEF IInv
<1>1. /\ up /\ op = "idle" /\ op' = "retain" /\ op' # "idle" /\ deleted' = {} /\ began' = now
      /\ todo' = files \cup {e.seg : e \in index} /\ total' \in Nat
      /\ op' \notin {"append", "undo", "batch"} /\ op' # "undo"
  BY Zenon DEF BeginRetention
<1>2. /\ files' = files /\ size' = size /\ mtime' = mtime /\ stored' = stored /\ torn' = torn
      /\ up' = up /\ index' = index /\ next' = next /\ vals' = vals /\ bytes' = bytes /\ off' = off
      /\ base' = base /\ cur' = cur /\ staged' = staged /\ orig' = orig /\ now' = now
      /\ acked' = acked /\ trimmed' = trimmed /\ lost' = lost /\ orphans' = orphans
  BY Zenon DEF BeginRetention, diskVars, memVars, appendVars
<1>3. staged = {} /\ vals = <<>> /\ torn = {} /\ deleted = {}
  BY Zenon, <1>1, AtRest DEF IInv, Staging, Appending, Closed, Retaining
<1>4. began' <= now
  BY <1>1, <1>ty DEF NatTypes
<1>t. TypeOK'
  <2>1. todo' \subseteq Offset
    BY Zenon, <1>1, <1>ty DEF NatTypes
  <2> QED
    BY ZenonT(60), <1>1, <1>2, <2>1 DEF IInv, TypeOK
<1>d. Layout' /\ Accounted' /\ History' /\ Times' /\ Durable' = Durable
  BY Zenon, <1>2, <1>3, <1>4, DiskKept
<1>i. Indexed'
  <2>1. \A c \in stored' : c.seg \notin Gone
    BY Zenon, <1>1, <1>2 DEF IInv, Indexed
  <2> QED
    BY Zenon, <1>1, <1>2, <1>3, <1>d, <2>1, IndexedKept DEF IInv
<1>c. Closed'
  BY Zenon, <1>1, <1>2, <1>3 DEF IInv, Closed
<1>s. Staging' /\ Snapshot'
  BY Zenon, <1>1, <1>2, <1>3, AppendAtRest
<1>r. Retaining'
  <2>1. \A c \in stored' : c.seg \in todo'
    BY Zenon, <1>1, <1>2 DEF IInv, Layout
  <2> QED
    BY Zenon, <1>1, <2>1 DEF Retaining
<1> QED
  BY <1>t, <1>d, <1>i, <1>c, <1>s, <1>r, Zenon DEF IInv

\* index_ while the files of some of its entries go.
LEMMA IndexedTrimmed ==
    ASSUME IInv, up, staged = {}, staged' = {}, index' = index, next' = next, up' = up,
           stored' \subseteq stored,
           \A c \in stored : c \in stored' \/ c.seg \in Gone',
           \A c \in stored' : c.seg \notin Gone',
           \A e \in index : e.seg \in Gone => e.seg \in Gone',
           \A b \in orphans' : \E e \in index : e.seg = b,
           index # {} => \E c \in stored' : c.offset = next - 1
    PROVE  Indexed'
<1>1. Durable' = stored' /\ Durable = stored
  BY Zenon DEF Durable
<1>2. \A c \in stored' : Loc(c) \in index
  BY Zenon, <1>1 DEF IInv, Indexed
<1>l. \A c \in stored' : Loc(c) \in LocSet(stored')
  BY Zenon DEF LocSet
<1>3. ASSUME NEW e \in index PROVE e \in LocSet(stored') \/ e.seg \in Gone'
  <2>1. CASE e.seg \in Gone
    BY Zenon, <2>1
  <2>2. CASE e \in LocSet(stored)
    <3>1. PICK c \in stored : e = Loc(c)
      BY ONLY <2>2, Zenon DEF LocSet
    <3>2. e.seg = c.seg
      BY Zenon, <3>1, LocFields
    <3> QED
      BY Zenon, <3>1, <3>2, <1>l
  <2> QED
    BY Zenon, <1>1, <2>1, <2>2 DEF IInv, Indexed
<1> QED
  BY Zenon, <1>1, <1>2, <1>3 DEF IInv, Indexed, Ordered

\* An older segment than the due one b, which the pass has kept, is due by age:
\* it was within the size limit, and it was written no later than b.
LEMMA OlderIsDue ==
    ASSUME IInv, op = "retain", lost = {}, NEW b \in todo, IsFirst(b, todo), DeleteDue(b),
           NEW x \in stored, x.seg = b, NEW c \in stored, c.seg < b
    PROVE  AgeDue(c.seg)
<1>ty. NatTypes
  BY Zenon, Types DEF IInv
<1>f. up /\ Durable = stored
  BY Zenon, RetainingFacts
<1>1. /\ c.seg \in Offset /\ b \in Offset /\ c.seg \in Nat /\ b \in Nat
      /\ mtime[b] \in Nat /\ mtime[c.seg] \in Nat /\ now \in Nat /\ total \in Nat
  BY Zenon, <1>ty DEF NatTypes
<1>2. \A s \in todo : b <= s
  BY Zenon DEF IsFirst
<1>3. c.seg \notin todo
  BY <1>1, <1>2
<1>4. b <= ActiveBase(index) /\ ActiveBase(index) \in Nat
  BY Zenon, <1>f, <1>ty, ActiveIsLast DEF NatTypes
<1>5. c.seg # ActiveBase(index)
  BY <1>1, <1>4
<1>6. RetentionMaxBytes > 0 => total <= RetentionMaxBytes
  BY Zenon, <1>3, <1>5 DEF IInv, Retaining, Kept
<1>7. AgeDue(b)
  <2>1. \/ AgeDue(b)
        \/ RetentionMaxBytes > 0 /\ total > RetentionMaxBytes
    BY Zenon DEF DeleteDue
  <2>2. ~(RetentionMaxBytes > 0 /\ total > RetentionMaxBytes)
    BY <1>1, <1>6, ConstantsAssumption
  <2> QED
    BY Zenon, <2>1, <2>2
<1>8. b \in files /\ c.seg \in files
  BY Zenon DEF IInv, Layout
<1>9. mtime[c.seg] <= mtime[b]
  <2>1. c.seg <= x.seg
    BY <1>1
  <2>2. mtime[c.seg] <= mtime[x.seg]
    BY Zenon, <1>f, <2>1 DEF IInv, Times, Aged
  <2> QED
    BY Zenon, <2>2
<1>10. RetentionMaxAge > 0 /\ now - mtime[b] >= RetentionMaxAge /\ RetentionMaxAge \in Nat
  BY Zenon, <1>7, <1>8, ConstantsAssumption DEF AgeDue, Age
<1>11. now - mtime[c.seg] >= RetentionMaxAge
  BY <1>1, <1>9, <1>10
<1> QED
  BY Zenon, <1>8, <1>10, <1>11 DEF AgeDue, Age

\* The .log file of a due segment goes: its offsets become trimmed ones, and the
\* active segment stays.
LEMMA SegmentTrimmed ==
    ASSUME IInv, op = "retain", NEW b \in todo, IsFirst(b, todo), DeleteDue(b), Unlink(b),
           mtime' = mtime, staged' = {}, up' = up, next' = next, now' = now,
           acked' = acked, lost' = lost, began' <= now
    PROVE  /\ Layout' /\ Accounted' /\ History' /\ Times'
           /\ stored' \subseteq stored /\ \A c \in stored : c \in stored' <=> c.seg # b
           /\ index # {} => \E c \in stored' : c.offset = next - 1
           /\ size' \in [Offset -> Nat] /\ files' \subseteq Offset /\ trimmed' \subseteq Offset
<1>ty. NatTypes
  BY Zenon, Types DEF IInv
<1>1. /\ files' = files \ {b} /\ size' = [size EXCEPT ![b] = 0]
      /\ stored' = {c \in stored : c.seg # b}
      /\ trimmed' = trimmed \cup {c.offset : c \in {d \in stored : d.seg = b}}
  BY Zenon DEF Unlink
<1>f. up /\ Durable = stored /\ staged = {}
  BY Zenon, RetainingFacts
<1>2. Durable' = stored' /\ stored' \subseteq stored /\ \A c \in stored : c \in stored' <=> c.seg # b
  BY Zenon, <1>1 DEF Durable
<1>3. /\ \A t \in trimmed' : t \in trimmed \/ \E x \in stored : x.seg = b /\ t = x.offset
      /\ trimmed \subseteq trimmed'
      /\ \A x \in stored : x.seg = b => x.offset \in trimmed'
  BY ONLY <1>1, Zenon
<1>4. /\ \A f \in Offset : f # b => size'[f] = size[f]
      /\ size'[b] = 0 /\ b \in Offset
  BY Zenon, <1>1, <1>ty DEF NatTypes, IInv, TypeOK
<1>5. b # ActiveBase(index)
  BY Zenon DEF DeleteDue
<1>6. index # {} => \E c \in stored' : c.offset = next - 1 /\ c.seg = ActiveBase(index)
  BY Zenon, <1>2, <1>5, <1>f, ActiveIsLast
<1>7. Layout'
  <2>1. \A c \in stored' : /\ c.seg \in files' /\ c.seg <= c.offset /\ c.offset < MaxOffset
                           /\ c.len > 0 /\ c.pos + c.len <= size'[c.seg]
    <3> SUFFICES ASSUME NEW c \in stored'
                 PROVE  c.seg \in files' /\ c.pos + c.len <= size'[c.seg]
      BY Zenon, <1>2 DEF IInv, Layout
    <3>1. c.seg \in files /\ c.seg \in Offset /\ c.seg # b /\ c.pos + c.len <= size[c.seg]
      BY Zenon, <1>2, <1>ty DEF NatTypes, IInv, Layout
    <3>2. size'[c.seg] = size[c.seg]
      BY Zenon, <1>4, <3>1
    <3> QED
      BY Zenon, <1>1, <3>1, <3>2
  <2>2. ASSUME NEW f \in Offset, size'[f] > 0 PROVE \E c \in stored' : c.seg = f
    <3>1. f # b
      <4>1. ~(0 > 0)
        OBVIOUS
      <4> QED
        BY Zenon, <2>2, <1>4, <4>1
    <3>2. size[f] > 0
      BY Zenon, <1>4, <2>2, <3>1
    <3>3. PICK c \in stored : c.seg = f
      BY Zenon, <3>2 DEF IInv, Layout
    <3> QED
      BY Zenon, <1>2, <3>1, <3>3
  <2>3. RecordsDisjoint'
    BY Zenon, <1>2, <2>1 DEF IInv, Layout, RecordsDisjoint
  <2>4. Ordered(stored')
    BY Zenon, <1>2, OrderedSubset DEF IInv, Layout
  <2> QED
    BY Zenon, <2>1, <2>2, <2>3, <2>4 DEF Layout
<1>8. Accounted'
  <2>1. \A o \in 0 .. next - 1 :
           o \in trimmed' \/ o \in lost \/ \E c \in stored' : c.offset = o
    BY Zenon, <1>2, <1>3, <1>f DEF IInv, Accounted
  <2> QED
    BY Zenon, <1>2, <1>f, <2>1 DEF Accounted
<1>9. \A t \in trimmed' : t < next
  BY Zenon, <1>3, <1>f, DurableFirst DEF IInv, History
<1>10. ASSUME lost = {}, NEW t \in trimmed', NEW c \in stored'
       PROVE  \/ t < c.offset
              \/ AgeDue(c.seg)' /\ \E d \in stored' : c.seg < d.seg
  <2>0. c \in stored /\ c.seg # b /\ c.seg \in files /\ c.seg \in files' /\ c.seg \in Offset
    BY Zenon, <1>1, <1>2, <1>ty DEF NatTypes, IInv, Layout
  <2>1. PICK a \in stored' : a.seg = ActiveBase(index)
    BY Zenon, <1>6, <1>f, <2>0 DEF IInv, Indexed
  <2>2. \A d \in stored : d.seg <= a.seg
    BY Zenon, <1>f, <2>1, ActiveIsLast
  <2>3. AgeDue(c.seg) => AgeDue(c.seg)'
    BY Zenon, <2>0 DEF AgeDue, Age
  <2>4. \A d \in stored : c.seg < d.seg => c.seg < a.seg
    BY <2>2, <2>1, <2>0, <1>2, <1>ty DEF NatTypes
  <2>5. CASE t \in trimmed
    <3>1. \/ t < c.offset
          \/ AgeDue(c.seg) /\ \E d \in stored : c.seg < d.seg
      BY Zenon, <1>10, <1>f, <2>0, <2>5 DEF IInv, History
    <3> QED
      BY Zenon, <2>1, <2>3, <2>4, <3>1
  <2>6. CASE \E x \in stored : x.seg = b /\ t = x.offset
    <3>1. PICK x \in stored : x.seg = b /\ t = x.offset
      BY Zenon, <2>6
    <3>2. c.seg < b \/ b < c.seg
      BY <2>0, <1>4, <1>ty DEF NatTypes
    <3>3. CASE b < c.seg
      BY Zenon, <2>0, <3>1, <3>3 DEF IInv, Layout, Ordered
    <3>4. CASE c.seg < b
      <4>1. AgeDue(c.seg)
        BY Zenon, <1>10, <2>0, <3>1, <3>4, OlderIsDue
      <4> QED
        BY Zenon, <2>1, <2>3, <2>4, <3>1, <3>4, <4>1
    <3> QED
      BY Zenon, <3>2, <3>3, <3>4
  <2> QED
    BY Zenon, <1>3, <2>5, <2>6
<1>11. History'
  <2>1. \A a \in acked : a[1] \in trimmed' \/ \E c \in stored' : c.offset = a[1] /\ c.val = a[2]
    BY Zenon, <1>2, <1>3, <1>f DEF IInv, History
  <2> QED
    BY Zenon, <1>2, <1>9, <1>10, <1>f, <2>1 DEF IInv, History
<1>12. Times'
  <2>1. lost = {} => Aged(stored', mtime)
    BY Zenon, <1>2, <1>f, AgedSubset DEF IInv, Times
  <2>2. DurableTimes'
    BY Zenon, <1>2, <2>1 DEF DurableTimes, IInv, Times
  <2> QED
    BY Zenon, <2>2, RestTimes
<1>13. size' \in [Offset -> Nat] /\ files' \subseteq Offset /\ trimmed' \subseteq Offset
  <2>1. size' \in [Offset -> Nat]
    BY <1>1, <1>4 DEF IInv, TypeOK
  <2>2. trimmed' \subseteq Offset
    <3>1. trimmed \subseteq Offset
      BY Zenon DEF IInv, TypeOK
    <3>2. \A x \in stored : x.offset \in Offset
      BY Zenon, <1>ty DEF NatTypes
    <3> QED
      BY Zenon, <1>3, <3>1, <3>2
  <2> QED
    BY Zenon, <1>1, <1>ty, <2>1, <2>2 DEF NatTypes
<1> QED
  BY Zenon, <1>2, <1>6, <1>7, <1>8, <1>11, <1>12, <1>13

\* apply_retention deletes a segment.
LEMMA DeleteSegmentStep ==
    ASSUME IInv, NEW b \in todo, DeleteSegment(b)
    PROVE  IInv'
<1>ty. NatTypes
  BY Zenon, Types DEF IInv
<1>1. /\ op = "retain" /\ op' = "retain" /\ op' # "idle" /\ op' # "undo" /\ IsFirst(b, todo)
      /\ op' \notin {"append", "undo", "batch"} /\ DeleteDue(b) /\ Unlink(b)
      /\ deleted' = deleted \cup {b} /\ todo' = todo \ {b}
      /\ total' = (IF size[b] > total THEN 0 ELSE total - size[b])
  BY Zenon DEF DeleteSegment
<1>2. /\ mtime' = mtime /\ torn' = torn /\ up' = up /\ index' = index /\ next' = next
      /\ vals' = vals /\ bytes' = bytes /\ off' = off /\ base' = base /\ cur' = cur
      /\ staged' = staged /\ orig' = orig /\ now' = now /\ acked' = acked /\ lost' = lost
      /\ orphans' = orphans /\ began' = began
  BY Zenon DEF DeleteSegment, memVars, appendVars
<1>f. up /\ torn = {} /\ staged = {} /\ vals = <<>> /\ Durable = stored
  BY Zenon, <1>1, RetainingFacts
<1>3. began' <= now
  BY Zenon, <1>2 DEF IInv, Times
<1>4. /\ Layout' /\ Accounted' /\ History' /\ Times'
      /\ stored' \subseteq stored /\ \A c \in stored : c \in stored' <=> c.seg # b
      /\ index # {} => \E c \in stored' : c.offset = next - 1
      /\ size' \in [Offset -> Nat] /\ files' \subseteq Offset /\ trimmed' \subseteq Offset
  BY Zenon, <1>1, <1>2, <1>3, <1>f, SegmentTrimmed
<1>5. total' \in Nat /\ total' <= total
  <2>1. size[b] \in Nat /\ total \in Nat
    BY Zenon, <1>ty DEF NatTypes
  <2> QED
    BY <1>1, <2>1
<1>6. Gone' = Gone \cup {b}
  BY Zenon, <1>1, <1>2 DEF Gone
<1>t. TypeOK'
  <2>1. todo' \subseteq Offset /\ deleted' \subseteq Offset /\ stored' \subseteq Cell
    BY Zenon, <1>1, <1>4, <1>ty DEF NatTypes, IInv, TypeOK
  <2> QED
    BY ZenonT(60), <1>1, <1>2, <1>4, <1>5, <2>1 DEF IInv, TypeOK
<1>i. Indexed'
  <2>1. \A c \in stored : c.seg \notin Gone
    BY Zenon, <1>f DEF IInv, Indexed
  <2>2. \A x \in orphans' : \E e \in index : e.seg = x
    BY Zenon, <1>2 DEF IInv, Indexed
  <2>3. \A c \in stored : c \in stored' \/ c.seg \in Gone'
    BY Zenon, <1>4, <1>6
  <2>4. \A c \in stored' : c.seg \notin Gone'
    BY Zenon, <1>4, <1>6, <2>1
  <2> QED
    BY Zenon, <1>2, <1>4, <1>6, <1>f, <2>2, <2>3, <2>4, IndexedTrimmed
<1>c. Closed'
  BY Zenon, <1>1, <1>2, <1>f DEF Closed
<1>s. Staging' /\ Snapshot'
  BY Zenon, <1>1, <1>2, <1>f, AppendAtRest
<1>r. Retaining'
  <2>1. ASSUME NEW c \in stored', c.seg \notin todo'
        PROVE  Kept(c.seg)' /\ \A x \in todo' : c.seg < x
    <3>1. c \in stored /\ c.seg \notin todo
      BY Zenon, <1>1, <1>4, <2>1
    <3>2. Kept(c.seg) /\ \A x \in todo : c.seg < x
      BY Zenon, <1>1, <3>1 DEF IInv, Retaining
    <3>3. total <= RetentionMaxBytes => total' <= RetentionMaxBytes
      BY <1>5, <1>ty, ConstantsAssumption DEF NatTypes
    <3> QED
      BY Zenon, <1>1, <1>2, <3>2, <3>3 DEF Kept
  <2> QED
    BY Zenon, <1>1, <2>1 DEF Retaining
<1> QED
  BY <1>t, <1>4, <1>i, <1>c, <1>s, <1>r, Zenon DEF IInv

\* apply_retention keeps a segment: it was not due, so not when the pass began.
LEMMA KeepSegmentStep ==
    ASSUME IInv, NEW b \in todo, KeepSegment(b)
    PROVE  IInv'
<1>ty. NatTypes
  BY Zenon, Types DEF IInv
<1>1. /\ op = "retain" /\ op' = "retain" /\ op' # "idle" /\ op' # "undo" /\ IsFirst(b, todo)
      /\ op' \notin {"append", "undo", "batch"} /\ ~DeleteDue(b) /\ todo' = todo \ {b}
  BY Zenon DEF KeepSegment
<1>2. /\ files' = files /\ size' = size /\ mtime' = mtime /\ stored' = stored /\ torn' = torn
      /\ up' = up /\ index' = index /\ next' = next /\ vals' = vals /\ bytes' = bytes /\ off' = off
      /\ base' = base /\ cur' = cur /\ staged' = staged /\ orig' = orig /\ now' = now
      /\ acked' = acked /\ trimmed' = trimmed /\ lost' = lost /\ orphans' = orphans
      /\ deleted' = deleted /\ total' = total /\ began' = began
  BY Zenon DEF KeepSegment, diskVars, memVars, appendVars, histVars
<1>f. up /\ torn = {} /\ staged = {} /\ vals = <<>> /\ Durable = stored
  BY Zenon, <1>1, RetainingFacts
<1>3. began' <= now
  BY Zenon, <1>2 DEF IInv, Times
<1>t. TypeOK'
  <2>1. todo' \subseteq Offset
    BY Zenon, <1>1, <1>ty DEF NatTypes
  <2> QED
    BY ZenonT(60), <1>1, <1>2, <2>1 DEF IInv, TypeOK
<1>d. Layout' /\ Accounted' /\ History' /\ Times' /\ Durable' = Durable
  BY Zenon, <1>2, <1>f, <1>3, DiskKept
<1>i. Indexed'
  <2>1. \A c \in stored' : c.seg \notin Gone
    BY Zenon, <1>2, <1>f DEF IInv, Indexed
  <2> QED
    BY Zenon, <1>2, <1>d, <2>1, IndexedKept DEF IInv
<1>c. Closed'
  BY Zenon, <1>1, <1>2, <1>f DEF Closed
<1>s. Staging' /\ Snapshot'
  BY Zenon, <1>1, <1>2, <1>f, AppendAtRest
<1>4. ASSUME NEW c \in stored, c.seg = b PROVE Kept(b)
  <2>1. CASE b = ActiveBase(index)
    BY Zenon, <2>1 DEF Kept
  <2>2. CASE b # ActiveBase(index)
    <3>1. ~AgeDue(b) /\ ~(RetentionMaxBytes > 0 /\ total > RetentionMaxBytes)
      BY Zenon, <1>1, <2>2 DEF DeleteDue
    <3>2. RetentionMaxBytes > 0 => total <= RetentionMaxBytes
      BY <3>1, <1>ty, ConstantsAssumption DEF NatTypes
    <3>3. b \in files
      BY Zenon, <1>4 DEF IInv, Layout
    <3>4. RetentionMaxAge > 0 => ~(now - mtime[b] >= RetentionMaxAge)
      BY Zenon, <3>1, <3>3 DEF AgeDue, Age
    <3>5. now \in Nat /\ mtime[b] \in Nat /\ began \in Nat /\ began <= now /\ RetentionMaxAge \in Nat
      BY Zenon, <1>ty, ConstantsAssumption DEF NatTypes, IInv, Times
    <3>6. RetentionMaxAge > 0 => began - mtime[b] < RetentionMaxAge
      BY <3>4, <3>5
    <3> QED
      BY Zenon, <3>2, <3>6 DEF Kept
  <2> QED
    BY Zenon, <2>1, <2>2
<1>r. Retaining'
  <2>1. ASSUME NEW c \in stored, c.seg \notin todo'
        PROVE  Kept(c.seg) /\ \A x \in todo' : c.seg < x
    <3>1. CASE c.seg = b
      <4>1. \A x \in todo : b <= x
        BY Zenon, <1>1 DEF IsFirst
      <4>2. ASSUME NEW x \in todo'
            PROVE  b < x
        <5>1. x \in todo /\ x # b
          BY Zenon, <1>1
        <5>2. b \in Nat /\ x \in Nat /\ b <= x
          BY Zenon, <4>1, <5>1, <1>ty DEF NatTypes
        <5> QED
          BY ONLY <5>1, <5>2
      <4> QED
        BY Zenon, <1>4, <3>1, <4>2
    <3>2. CASE c.seg # b
      BY Zenon, <1>1, <2>1, <3>2 DEF IInv, Retaining
    <3> QED
      BY Zenon, <3>1, <3>2
  <2> QED
    BY Zenon, <1>1, <1>2, <2>1 DEF Retaining, Kept
<1> QED
  BY <1>t, <1>d, <1>i, <1>c, <1>s, <1>r, Zenon DEF IInv

\* An unlink fails: index_ keeps the entries of the segments deleted so far, and
\* remembers nothing else of the pass.
LEMMA FailRetentionStep ==
    ASSUME IInv, NEW b \in todo, FailRetention(b)
    PROVE  IInv'
<1>ty. NatTypes
  BY Zenon, Types DEF IInv
<1>1. /\ op = "retain" /\ op' = "idle" /\ op' # "retain" /\ op' # "undo" /\ IsFirst(b, todo)
      /\ op' \notin {"append", "undo", "batch"} /\ DeleteDue(b)
      /\ todo' = {} /\ deleted' = {} /\ total' = 0 /\ began' = 0
  BY Zenon DEF FailRetention
<1>2. /\ mtime' = mtime /\ torn' = torn /\ up' = up /\ index' = index /\ next' = next
      /\ vals' = vals /\ bytes' = bytes /\ off' = off /\ base' = base /\ cur' = cur
      /\ staged' = staged /\ orig' = orig /\ now' = now /\ acked' = acked /\ lost' = lost
  BY Zenon DEF FailRetention, memVars, appendVars
<1>f. up /\ torn = {} /\ staged = {} /\ vals = <<>> /\ Durable = stored
  BY Zenon, <1>1, RetainingFacts
<1>3. began' <= now /\ 0 \in Nat /\ 0 \in 0 .. MaxTime
  BY <1>1, <1>ty, ConstantsAssumption DEF NatTypes
<1>4. PICK D : \/ /\ D = {} /\ orphans' = orphans \cup Orphaned(deleted)
                  /\ files' = files /\ size' = size /\ stored' = stored /\ trimmed' = trimmed
               \/ /\ D = {b} /\ orphans' = orphans \cup Orphaned(deleted \cup {b})
                  /\ Unlink(b)
  BY Zenon DEF FailRetention
<1>5. /\ Layout' /\ Accounted' /\ History' /\ Times'
      /\ stored' \subseteq stored /\ \A c \in stored : c \in stored' <=> c.seg \notin D
      /\ index # {} => \E c \in stored' : c.offset = next - 1
      /\ size' \in [Offset -> Nat] /\ files' \subseteq Offset /\ trimmed' \subseteq Offset
      /\ orphans' = orphans \cup Orphaned(deleted \cup D) /\ D \subseteq Offset
  <2>1. CASE /\ D = {} /\ orphans' = orphans \cup Orphaned(deleted)
             /\ files' = files /\ size' = size /\ stored' = stored /\ trimmed' = trimmed
    <3>1. Layout' /\ Accounted' /\ History' /\ Times'
      BY Zenon, <1>2, <1>3, <1>f, <2>1, DiskKept
    <3>2. index # {} => \E c \in stored' : c.offset = next - 1
      BY Zenon, <1>f, <2>1 DEF IInv, Indexed
    <3>3. deleted \cup D = deleted
      BY Zenon, <2>1
    <3>4. size' \in [Offset -> Nat] /\ files' \subseteq Offset /\ trimmed' \subseteq Offset
      BY Zenon, <2>1 DEF IInv, TypeOK
    <3> QED
      BY Zenon, <2>1, <3>1, <3>2, <3>3, <3>4
  <2>2. CASE D = {b} /\ orphans' = orphans \cup Orphaned(deleted \cup {b}) /\ Unlink(b)
    <3>1. /\ Layout' /\ Accounted' /\ History' /\ Times'
          /\ stored' \subseteq stored /\ \A c \in stored : c \in stored' <=> c.seg # b
          /\ index # {} => \E c \in stored' : c.offset = next - 1
          /\ size' \in [Offset -> Nat] /\ files' \subseteq Offset /\ trimmed' \subseteq Offset
      BY Zenon, <1>1, <1>2, <1>3, <1>f, <2>2, SegmentTrimmed
    <3>2. D \subseteq Offset
      BY Zenon, <2>2, <1>ty DEF NatTypes
    <3> QED
      BY Zenon, <2>2, <3>1, <3>2
  <2> QED
    BY Zenon, <1>4, <2>1, <2>2
<1>6. /\ \A x \in orphans' : x \in orphans \/ (x \in deleted \cup D /\ \E e \in index : e.seg = x)
      /\ \A e \in index : e.seg \in Gone \cup D => e.seg \in orphans'
      /\ Gone' = orphans'
  BY Zenon, <1>1, <1>5 DEF Orphaned, Gone
<1>t. TypeOK'
  <2>1. stored' \subseteq Cell /\ todo' \subseteq Offset /\ deleted' \subseteq Offset
    BY Zenon, <1>1, <1>5 DEF IInv, TypeOK
  <2>2. orphans' \subseteq Offset
    <3>1. orphans \subseteq Offset /\ deleted \subseteq Offset
      BY Zenon DEF IInv, TypeOK
    <3> QED
      BY Zenon, <1>5, <1>6, <3>1
  <2>3. total' \in Nat /\ began' \in 0 .. MaxTime
    BY Zenon, <1>1, <1>3
  <2> QED
    BY ZenonT(60), <1>1, <1>2, <1>5, <2>1, <2>2, <2>3 DEF IInv, TypeOK
<1>i. Indexed'
  <2>1. \A c \in stored : c.seg \notin Gone
    BY Zenon, <1>f DEF IInv, Indexed
  <2>2. \A x \in orphans' : \E e \in index : e.seg = x
    BY Zenon, <1>6 DEF IInv, Indexed
  <2>3. \A c \in stored : c \in stored' \/ c.seg \in Gone'
    <3>1. \A c \in stored : \E e \in index : e.seg = c.seg
      BY Zenon, <1>f, LocFields DEF IInv, Indexed
    <3> QED
      BY Zenon, <1>5, <1>6, <3>1
  <2>4. \A c \in stored' : c.seg \notin Gone'
    BY Zenon, <1>5, <1>6, <2>1 DEF Gone
  <2>5. \A e \in index : e.seg \in Gone => e.seg \in Gone'
    BY Zenon, <1>6
  <2> QED
    BY Zenon, <1>2, <1>5, <1>f, <2>2, <2>3, <2>4, <2>5, IndexedTrimmed
<1>c. Closed'
  BY Zenon, <1>1, <1>2, <1>f DEF Closed
<1>s. Staging' /\ Snapshot'
  BY Zenon, <1>1, <1>2, <1>f, AppendAtRest
<1>r. Retaining'
  BY Zenon, <1>1 DEF Retaining
<1> QED
  BY <1>t, <1>5, <1>i, <1>c, <1>s, <1>r, Zenon DEF IInv

\* apply_retention prunes index_.
LEMMA EndRetentionStep ==
    ASSUME IInv, EndRetention
    PROVE  IInv'
<1>ty. NatTypes
  BY Zenon, Types DEF IInv
<1>1. /\ op = "retain" /\ op' = "idle" /\ op' # "retain" /\ op' # "undo" /\ todo = {}
      /\ op' \notin {"append", "undo", "batch"}
      /\ index' = {e \in index : e.seg \notin deleted} /\ orphans' = orphans \ deleted
      /\ deleted' = {} /\ total' = 0 /\ began' = 0
  BY Zenon DEF EndRetention
<1>2. /\ files' = files /\ size' = size /\ mtime' = mtime /\ stored' = stored /\ torn' = torn
      /\ up' = up /\ next' = next /\ vals' = vals /\ bytes' = bytes /\ off' = off
      /\ base' = base /\ cur' = cur /\ staged' = staged /\ orig' = orig /\ now' = now
      /\ acked' = acked /\ trimmed' = trimmed /\ lost' = lost /\ todo' = todo
  BY Zenon DEF EndRetention, diskVars, appendVars
<1>f. up /\ torn = {} /\ staged = {} /\ vals = <<>> /\ Durable = stored
  BY Zenon, <1>1, RetainingFacts
<1>3. began' <= now /\ 0 \in Nat /\ 0 \in 0 .. MaxTime
  BY <1>1, <1>ty, ConstantsAssumption DEF NatTypes
<1>t. TypeOK'
  <2>1. index' \subseteq IndexEntry /\ orphans' \subseteq Offset /\ deleted' \subseteq Offset
    BY Zenon, <1>1 DEF IInv, TypeOK
  <2>2. total' \in Nat /\ began' \in 0 .. MaxTime
    BY Zenon, <1>1, <1>3
  <2> QED
    BY ZenonT(60), <1>1, <1>2, <2>1, <2>2 DEF IInv, TypeOK
<1>d. Layout' /\ Accounted' /\ History' /\ Times' /\ Durable' = Durable
  BY Zenon, <1>2, <1>f, <1>3, DiskKept
<1>i. Indexed'
  <2>1. index' \subseteq index /\ Gone' = orphans \ deleted
    BY Zenon, <1>1 DEF Gone
  <2>2. Ordered(index')
    BY Zenon, <2>1, OrderedSubset DEF IInv, Indexed
  <2>3. \A e \in index' : e.seg <= e.offset /\ e.offset < next
    BY Zenon, <2>1 DEF IInv, Indexed
  <2>4. \A x \in orphans' : \E e \in index' : e.seg = x
    BY Zenon, <1>1 DEF IInv, Indexed
  <2>5. \A c \in stored : Loc(c) \in index' /\ c.seg \notin Gone'
    <3>1. \A c \in stored : c.seg \notin Gone /\ Loc(c) \in index /\ Loc(c).seg = c.seg
      BY Zenon, <1>f, LocFields DEF IInv, Indexed
    <3> QED
      BY Zenon, <1>1, <2>1, <3>1 DEF Gone
  <2>6. \A e \in index' : e \in LocSet(stored) \/ e.seg \in Gone'
    <3>1. \A e \in index : e \in LocSet(stored) \/ e.seg \in Gone
      BY Zenon, <1>f DEF IInv, Indexed
    <3> QED
      BY Zenon, <1>1, <2>1, <3>1 DEF Gone
  <2>7. index # {} => index' # {} /\ \E c \in stored : c.offset = next - 1
    BY Zenon, <1>f, <2>5 DEF IInv, Indexed
  <2>8. (index' = {} => next = 0) /\ (index' # {} => \E c \in stored : c.offset = next - 1)
    BY Zenon, <1>f, <2>1, <2>7 DEF IInv, Indexed
  <2> QED
    BY Zenon, <1>2, <1>d, <1>f, <2>2, <2>3, <2>4, <2>5, <2>6, <2>8 DEF Indexed
<1>c. Closed'
  BY Zenon, <1>1, <1>2, <1>f DEF Closed
<1>s. Staging' /\ Snapshot'
  BY Zenon, <1>1, <1>2, <1>f, AppendAtRest
<1>r. Retaining'
  BY Zenon, <1>1, <1>2 DEF Retaining
<1> QED
  BY <1>t, <1>d, <1>i, <1>c, <1>s, <1>r, Zenon DEF IInv

-----------------------------------------------------------------------------
(* A crash, recovery and the clock keep IInv.                              *)

\* What the writes of an interrupted operation touch: nothing when no append is
\* writing, or else files at or after every record.
LEMMA CrashWrites ==
    ASSUME IInv, up, NEW how, MayLeave(how)
    PROVE  /\ OpenChunk \cup LeftBehind(how) \subseteq Offset
           /\ \A c \in stored, f \in OpenChunk \cup LeftBehind(how) : c.seg <= f
           /\ LeftBehind(how) \subseteq Offset
           /\ how = "torn" => WriteTarget \in Offset /\ \A c \in stored : c.seg <= WriteTarget
           /\ ~Appending => OpenChunk \cup LeftBehind(how) = {} /\ how # "torn"
<1>1. CASE Appending
  <2>1. /\ OpenChunk \cup LeftBehind(how) \subseteq Offset
        /\ \A c \in stored, f \in OpenChunk \cup LeftBehind(how) : c.seg <= f
        /\ WriteTarget \in Offset /\ \A c \in stored : c.seg <= WriteTarget
    BY Zenon, <1>1, LeftBehindLast
  <2> QED
    BY Zenon, <1>1, <2>1
<1>2. CASE ~Appending
  <2>1. OpenChunk = {}
    BY Zenon, <1>2 DEF OpenChunk, IInv, Staging
  <2>2. how = "clean"
    BY Zenon, <1>2 DEF MayLeave, Writing, Appending
  <2>3. LeftBehind(how) = {} /\ how # "torn"
    BY Zenon, <2>2 DEF LeftBehind
  <2> QED
    BY Zenon, <1>2, <2>1, <2>3
<1> QED
  BY Zenon, <1>1, <1>2

\* Unless the crash leaves holes, file times follow the segments after it.
LEMMA CrashAged ==
    ASSUME IInv, up, NEW how, MayLeave(how), NEW T, T = OpenChunk \cup LeftBehind(how),
           mtime' = Touch(T), lost = {}, Holes = {}
    PROVE  Aged(stored, mtime')
<1>1. /\ T \subseteq Offset /\ OpenChunk \subseteq T
      /\ \A c \in stored, f \in T : c.seg <= f
  BY Zenon, CrashWrites
<1>2. CASE Appending
  BY Zenon, <1>1, <1>2, ChunkAged
<1>3. CASE ~Appending
  <2>1. T = {} /\ OpenChunk = {}
    BY Zenon, <1>3, CrashWrites
  <2>2. mtime' = mtime
    BY Zenon, <2>1, TouchNone DEF IInv
  <2>3. Aged({c \in stored : c.seg \notin OpenChunk}, mtime)
    BY Zenon DEF IInv, Times
  <2> QED
    BY Zenon, <2>1, <2>2, <2>3 DEF Aged
<1> QED
  BY Zenon, <1>2, <1>3

\* The process dies: what is on disk is the log now.
LEMMA CrashStep ==
    ASSUME IInv, NEW how, Crash(how)
    PROVE  IInv'
<1>ty. NatTypes
  BY Zenon, Types DEF IInv
<1>1. /\ up /\ MayLeave(how) /\ up' = FALSE /\ ~up' /\ index' = {} /\ next' = 0 /\ op' = "idle"
      /\ op' # "retain" /\ NoAppend /\ todo' = {} /\ deleted' = {} /\ total' = 0
      /\ orphans' = {} /\ began' = 0 /\ lost' = lost \cup Holes
  BY Zenon DEF Crash
<1>2. PICK T : T = OpenChunk \cup LeftBehind(how)
  BY Zenon
<1>3. /\ files' = files \cup LeftBehind(how) /\ mtime' = Touch(T)
      /\ torn' = (IF how = "torn" THEN {WriteTarget} ELSE torn)
      /\ size' = size /\ stored' = stored /\ now' = now /\ acked' = acked /\ trimmed' = trimmed
  BY Zenon, <1>2 DEF Crash
<1>4. /\ T \subseteq Offset /\ \A c \in stored, f \in T : c.seg <= f
      /\ LeftBehind(how) \subseteq Offset
      /\ how = "torn" => WriteTarget \in Offset /\ \A c \in stored : c.seg <= WriteTarget
  BY Zenon, <1>1, <1>2, CrashWrites
<1>5. \A t \in torn' : t \in Offset /\ t \in files' /\ \A c \in stored : c.seg <= t
  <2>1. CASE how = "torn"
    BY Zenon, <1>3, <1>4, <2>1 DEF LeftBehind
  <2>2. CASE how # "torn"
    BY Zenon, <1>3, <1>ty, <2>2 DEF NatTypes, IInv, Closed
  <2> QED
    BY Zenon, <2>1, <2>2
<1>6. staged' = {} /\ Durable' = stored /\ staged \subseteq stored /\ Durable \subseteq stored
  BY Zenon, <1>1, <1>3 DEF NoAppend, Durable, IInv, Staging
<1>7. /\ \A c \in stored : c \in staged \/ c \in Durable
      /\ \A c \in Durable : c.offset < next
      /\ \A c \in staged : next <= c.offset /\ c.offset < off
  BY Zenon, <1>1, DurableFirst DEF Durable, IInv, Staging
<1>n. /\ vals' \in Seq(Value) /\ bytes' \in Nat /\ off' \in Offset
      /\ base' \in Offset /\ cur' \in Nat /\ staged' \subseteq Cell
      /\ orig' \in [files : SUBSET Offset, size : [Offset -> Nat]]
      /\ op' \in {"idle", "append", "undo", "batch", "retain"}
      /\ Staging' /\ Snapshot'
  BY Zenon, <1>1, NoAppendTypes
<1>0. 0 \in Offset /\ 0 \in Nat /\ 0 \in 0 .. MaxTime /\ 0 <= now
  BY <1>ty, ConstantsAssumption DEF NatTypes, Offset
<1>t. TypeOK'
  <2>1. mtime' \in [Offset -> 0 .. MaxTime]
    BY Zenon, <1>3, TouchType DEF IInv
  <2>2. files' \subseteq Offset /\ torn' \subseteq Offset
    BY Zenon, <1>3, <1>4, <1>5, <1>ty DEF NatTypes
  <2>3. lost' \subseteq Offset
    <3>1. next .. off - 1 \subseteq Offset
      BY <1>ty DEF NatTypes, Offset
    <3> QED
      BY Zenon, <1>1, <3>1 DEF Holes, IInv, TypeOK
  <2>4. /\ up' \in BOOLEAN /\ index' \subseteq IndexEntry /\ next' \in Offset /\ todo' \subseteq Offset
        /\ deleted' \subseteq Offset /\ total' \in Nat /\ orphans' \subseteq Offset
        /\ began' \in 0 .. MaxTime
    BY Zenon, <1>0, <1>1
  <2>5. /\ size' \in [Offset -> Nat] /\ stored' \subseteq Cell /\ now' \in 0 .. MaxTime
        /\ acked' \subseteq Offset \X Value /\ trimmed' \subseteq Offset
    BY Zenon, <1>3 DEF IInv, TypeOK
  <2> QED
    BY Zenon, <1>n, <2>1, <2>2, <2>3, <2>4, <2>5 DEF TypeOK
<1>l. Layout'
  BY Zenon, <1>3, LayoutGrown DEF IInv
<1>a. Accounted'
  <2> SUFFICES ASSUME NEW d \in stored, NEW o \in 0 .. d.offset,
                      o \notin trimmed, o \notin lost, \A c \in stored : c.offset # o
               PROVE  o \in Holes
    BY Zenon, <1>1, <1>3, <1>6 DEF Accounted
  <2>1. o \in Nat /\ o <= d.offset /\ d.offset \in Nat
    BY <1>ty DEF NatTypes
  <2>2. o \notin 0 .. next - 1
    BY Zenon, <1>1, <1>6 DEF IInv, Accounted
  <2>3. next <= o /\ o < d.offset
    <3>1. d.offset # o
      BY Zenon
    <3> QED
      BY <2>1, <2>2, <3>1, <1>ty DEF NatTypes
  <2>4. d \in staged
    <3>1. ~(d.offset < next)
      BY <2>1, <2>3, <1>ty DEF NatTypes
    <3> QED
      BY Zenon, <1>7, <3>1
  <2>5. o \in next .. off - 1
    <3>1. d.offset < off
      BY Zenon, <1>7, <2>4
    <3> QED
      BY <2>1, <2>3, <3>1, <1>ty DEF NatTypes
  <2> QED
    BY Zenon, <1>6, <2>3, <2>4, <2>5 DEF Holes
<1>i. Indexed'
  BY Zenon, <1>1 DEF Indexed, Ordered
<1>c. Closed'
  BY Zenon, <1>1, <1>3, <1>5 DEF Closed
<1>g. Times'
  <2>1. \A f \in Offset : mtime'[f] <= now
    <3>1. \A f \in Offset : mtime'[f] = IF f \in T THEN now ELSE mtime[f]
      BY Zenon, <1>3 DEF Touch
    <3> QED
      BY <3>1, <1>ty DEF NatTypes, IInv, Times
  <2>2. lost' = {} => Aged(stored, mtime')
    BY Zenon, <1>1, <1>2, <1>3, CrashAged
  <2>3. DurableTimes'
    BY Zenon, <1>0, <1>1, <1>3, <1>6, <2>1, <2>2 DEF DurableTimes
  <2> QED
    BY Zenon, <1>6, <2>3, RestTimes
<1>r. Retaining'
  BY Zenon, <1>1 DEF Retaining
<1>h. History'
  <2>1. \A a \in acked : a[1] \in trimmed \/ \E c \in stored : c.offset = a[1] /\ c.val = a[2]
    BY Zenon, <1>6 DEF IInv, History
  <2>2. ASSUME NEW o \in Nat, o < next PROVE \E c \in stored : o <= c.offset
    <3>1. next # 0
      BY <2>2, <1>ty DEF NatTypes
    <3>2. PICK c \in stored : c.offset = next - 1
      BY Zenon, <1>1, <1>6, <3>1 DEF IInv, Indexed
    <3>3. o <= c.offset
      BY <2>2, <3>2, <1>ty DEF NatTypes
    <3> QED
      BY Zenon, <3>3
  <2>3. (\A a \in acked : a[1] \in Nat /\ a[1] < next) /\ \A t \in trimmed : t \in Nat /\ t < next
    BY Zenon, <1>1, <1>ty DEF NatTypes, IInv, History
  <2>4. ASSUME lost' = {}, NEW t \in trimmed, NEW c \in stored
        PROVE  \/ t < c.offset
               \/ AgeDue(c.seg)' /\ \E d \in stored : c.seg < d.seg
    <3>1. CASE c \in staged
      <4>1. next <= c.offset /\ c.offset \in Nat /\ t < next /\ t \in Nat /\ next \in Nat
        BY Zenon, <1>7, <2>3, <3>1, <1>ty DEF NatTypes
      <4> QED
        BY <4>1
    <3>2. CASE c \in Durable
      <4>1. lost = {}
        BY Zenon, <1>1, <2>4
      <4>2. \A d \in Durable : d.seg \in files' /\ \A f \in T : d.seg <= f
        BY Zenon, <1>3, <1>4, <1>6 DEF IInv, Layout
      <4>3. \/ t < c.offset
            \/ AgeDue(c.seg)' /\ \E d \in Durable : c.seg < d.seg
        BY Zenon, <1>3, <1>4, <3>2, <4>1, <4>2, TrimmedKept
      <4> QED
        BY Zenon, <1>6, <4>3
    <3> QED
      BY Zenon, <1>7, <3>1, <3>2
  <2> QED
    BY Zenon, <1>1, <1>3, <1>6, <2>1, <2>2, <2>3, <2>4 DEF History
<1> QED
  BY <1>t, <1>l, <1>a, <1>i, <1>c, <1>n, <1>g, <1>r, <1>h, Zenon DEF IInv

\* A non-empty set of offsets has a least one.
LEMMA LeastOffset ==
    ASSUME NEW T, T \subseteq Nat, T # {}
    PROVE  \E x \in T : \A y \in T : x <= y
<1>1. IsWellFoundedOn(OpToRel(<, Nat), Nat)
  BY NatLessThanWellFounded, Zenon
<1>2. PICK x \in T : \A y \in T : ~(<<y, x>> \in OpToRel(<, Nat))
  BY <1>1, WFMin, Zenon
<1>3. ASSUME NEW y \in T PROVE x <= y
  <2>1. x \in Nat /\ y \in Nat
    BY Zenon
  <2>2. ~(y < x)
    <3>1. <<y, x>> \in Nat \X Nat
      BY Zenon, <2>1
    <3> QED
      BY Zenon, <1>2, <3>1 DEF OpToRel
  <2> QED
    BY <2>1, <2>2
<1> QED
  BY Zenon, <1>3

\* The last record on disk: what recover() computes from it, one past its offset
\* and its segment.
LEMMA EndIsLast ==
    ASSUME IInv, stored # {}
    PROVE  \E c \in stored : /\ EndOffset(stored) = c.offset + 1 /\ c.offset + 1 \in Offset
                             /\ ActiveBase(LocSet(stored)) = c.seg
                             /\ \A d \in stored : d.offset <= c.offset
<1>ty. NatTypes
  BY Zenon, Types DEF IInv
<1>1. \A c \in stored : c.offset \in Nat /\ c.offset < MaxOffset /\ MaxOffset - c.offset \in Nat
  BY <1>ty DEF NatTypes, IInv, Layout
<1>2. PICK T : T = {MaxOffset - c.offset : c \in stored}
  BY Zenon
<1>3. T \subseteq Nat /\ T # {}
  BY Zenon, <1>1, <1>2
<1>4. PICK x \in T : \A y \in T : x <= y
  BY Zenon, <1>3, LeastOffset
<1>5. PICK c \in stored : x = MaxOffset - c.offset
  BY ONLY <1>2, <1>4, Zenon
<1>6. \A d \in stored : x <= MaxOffset - d.offset
  BY Zenon, <1>2, <1>4
<1>7. \A d \in stored : d.offset <= c.offset /\ d.offset \in Nat /\ c.offset \in Nat
  BY <1>1, <1>5, <1>6, <1>ty DEF NatTypes
<1>8. c.offset + 1 \in 1 .. MaxOffset /\ c.offset + 1 \in Offset
  BY <1>1, <1>ty DEF NatTypes, Offset
<1>9. EndOffset(stored) = c.offset + 1
  <2> DEFINE P(n) == /\ \E d \in stored : n = d.offset + 1
                     /\ \A d \in stored : d.offset < n
  <2>1. P(c.offset + 1)
    BY <1>7
  <2>2. ASSUME NEW n \in 1 .. MaxOffset, P(n) PROVE n = c.offset + 1
    BY <2>2, <1>7
  <2>3. EndOffset(stored) = CHOOSE n \in 1 .. MaxOffset : P(n)
    BY ZenonT(60) DEF EndOffset
  <2> HIDE DEF P
  <2> QED
    BY <2>1, <2>2, <2>3, <1>8, Zenon
<1>10. ActiveBase(LocSet(stored)) = c.seg
  <2>1. PICK L, e : L = LocSet(stored) /\ e = Loc(c) /\ e.offset = c.offset /\ e.seg = c.seg
    BY Zenon, LocFields
  <2>2. e \in L /\ Ordered(L)
    BY Zenon, <2>1, LocSetFields, LocSetOrdered DEF IInv, Layout
  <2>3. \A d \in L : d.offset <= e.offset /\ d.offset \in Nat /\ e.offset \in Nat
    BY Zenon, <2>1, <1>7, LocSetFields
  <2>4. IsBack(e, L)
    BY Zenon, <2>2, <2>3 DEF IsBack
  <2>5. ASSUME NEW d \in L, IsBack(d, L) PROVE d = e
    <3>1. d.offset = e.offset
      BY <2>2, <2>3, <2>5 DEF IsBack
    <3> QED
      BY <3>1, <2>2, Zenon DEF Ordered
  <2>6. ActiveBase(L) = e.seg
    BY Zenon, <2>2, <2>4, <2>5 DEF ActiveBase
  <2> QED
    BY <2>1, <2>6, Zenon
<1> QED
  BY Zenon, <1>7, <1>8, <1>9, <1>10

\* A closed log: no operation, no entry, no stale segment.
LEMMA ClosedFacts ==
    ASSUME IInv, ~up
    PROVE  /\ op = "idle" /\ index = {} /\ next = 0 /\ orphans = {} /\ deleted = {} /\ todo = {}
           /\ staged = {} /\ vals = <<>> /\ Durable = stored /\ Gone = {}
           /\ \A c \in stored : Scanned(c.seg)
<1>1. op = "idle" /\ index = {} /\ next = 0
  BY Zenon DEF IInv, Closed
<1>2. op # "retain" /\ op # "undo" /\ op # "append" /\ op # "batch"
  BY Zenon, <1>1
<1>3. deleted = {} /\ todo = {} /\ orphans = {}
  BY Zenon, <1>1, <1>2 DEF IInv, Retaining, Indexed
<1>4. staged = {} /\ vals = <<>> /\ Durable = stored
  BY Zenon, <1>2, AtRest DEF IInv, Staging, Appending
<1>5. \A c \in stored : Scanned(c.seg)
  BY Zenon DEF IInv, Closed, Scanned
<1> QED
  BY Zenon, <1>1, <1>3, <1>4, <1>5 DEF Gone

\* Files that a scan does not reach can go: every record stays.
LEMMA LayoutScanned ==
    ASSUME IInv, ~up, stored' = stored,
           \A f \in files : Scanned(f) => f \in files',
           \A f \in Offset : Scanned(f) => size'[f] = size[f],
           \A f \in Offset : size'[f] = size[f] \/ size'[f] = 0
    PROVE  Layout'
<1>ty. NatTypes
  BY Zenon, Types DEF IInv
<1>1. \A c \in stored : c.seg \in files' /\ size'[c.seg] = size[c.seg]
  BY Zenon, <1>ty, ClosedFacts DEF NatTypes, IInv, Layout
<1>2. \A f \in Offset : size'[f] > 0 => size[f] > 0
  <2>1. ~(0 > 0)
    OBVIOUS
  <2> QED
    BY Zenon, <2>1
<1>3. \A c \in stored : c.pos + c.len <= size'[c.seg]
  BY Zenon, <1>1 DEF IInv, Layout
<1> QED
  BY Zenon, <1>1, <1>2, <1>3 DEF IInv, Layout, RecordsDisjoint

\* recover() rebuilds index_ and next_offset_ from the files.
LEMMA RecoverStep ==
    ASSUME IInv, Recover
    PROVE  IInv'
<1>ty. NatTypes
  BY Zenon, Types DEF IInv
<1>0. ~up /\ up' = TRUE /\ up' /\ torn' = {}
  BY Zenon DEF Recover
<1>f. /\ op = "idle" /\ index = {} /\ next = 0 /\ orphans = {} /\ deleted = {} /\ todo = {}
      /\ staged = {} /\ vals = <<>> /\ Durable = stored /\ Gone = {}
      /\ \A c \in stored : Scanned(c.seg)
  BY Zenon, <1>0, ClosedFacts
<1>1. {c \in stored : Scanned(c.seg)} = stored
  BY Zenon, <1>f
<1>2. PICK active, T : active = ActiveBase(LocSet(stored)) /\ T = torn \cup ({active} \ files)
  BY Zenon
<1>3. /\ stored' = stored /\ index' = LocSet(stored) /\ next' = EndOffset(stored)
      /\ files' = {f \in files : Scanned(f)} \cup {active}
      /\ size' = [f \in Offset |-> IF Scanned(f) THEN size[f] ELSE 0]
      /\ mtime' = Touch(T)
  BY Zenon, <1>1, <1>2 DEF Recover
<1>4. /\ op' = op /\ vals' = vals /\ bytes' = bytes /\ off' = off /\ base' = base /\ cur' = cur
      /\ staged' = staged /\ orig' = orig /\ todo' = todo /\ deleted' = deleted /\ total' = total
      /\ now' = now /\ acked' = acked /\ trimmed' = trimmed /\ lost' = lost
      /\ orphans' = orphans /\ began' = began
  BY Zenon DEF Recover, appendVars, retainVars, histVars
<1>5. Durable' = stored /\ Gone' = {} /\ op' # "undo" /\ op' # "retain"
  BY Zenon, <1>3, <1>4, <1>f DEF Durable, Gone
<1>6. /\ active \in Offset /\ next' \in Offset /\ next' \in Nat
      /\ stored = {} => next' = 0
      /\ \A c \in stored : c.offset < next' /\ active \in files
      /\ stored # {} => \E c \in stored : c.offset = next' - 1 /\ next' = c.offset + 1
  <2>1. CASE stored = {}
    <3>1. LocSet(stored) = {}
      BY Zenon, <2>1 DEF LocSet
    <3>2. active = 0 /\ next' = 0
      BY Zenon, <1>2, <1>3, <2>1, <3>1 DEF ActiveBase, EndOffset
    <3>3. 0 \in Offset /\ 0 \in Nat
      BY <1>ty DEF NatTypes, Offset
    <3> QED
      BY Zenon, <2>1, <3>2, <3>3
  <2>2. CASE stored # {}
    <3>1. PICK c \in stored : /\ next' = c.offset + 1 /\ c.offset + 1 \in Offset /\ active = c.seg
                              /\ \A d \in stored : d.offset <= c.offset
      BY Zenon, <1>2, <1>3, <2>2, EndIsLast
    <3>2. active \in files /\ active \in Offset
      BY Zenon, <3>1, <1>ty DEF NatTypes, IInv, Layout
    <3>3. c.offset \in Nat /\ \A d \in stored : d.offset \in Nat /\ d.offset <= c.offset
      BY Zenon, <3>1, <1>ty DEF NatTypes
    <3>4. c.offset = next' - 1 /\ next' \in Nat /\ \A d \in stored : d.offset < next'
      BY <3>1, <3>3
    <3>5. next' \in Offset
      BY Zenon, <3>1
    <3> QED
      BY Zenon, <2>2, <3>1, <3>2, <3>4, <3>5
  <2> QED
    BY Zenon, <2>1, <2>2
<1>7. T \subseteq Offset /\ \A c \in stored : \A f \in T : c.seg <= f
  <2>1. T \subseteq Offset
    BY Zenon, <1>2, <1>6, <1>ty DEF NatTypes
  <2>2. \A c \in stored : T = torn
    BY Zenon, <1>2, <1>6
  <2> QED
    BY Zenon, <2>1, <2>2 DEF IInv, Closed
<1>l. Layout'
  <2>1. \A f \in files : Scanned(f) => f \in files'
    BY Zenon, <1>3
  <2>2. /\ \A f \in Offset : Scanned(f) => size'[f] = size[f]
        /\ \A f \in Offset : size'[f] = size[f] \/ size'[f] = 0
    BY Zenon, <1>3
  <2> QED
    BY Zenon, <1>0, <1>3, <2>1, <2>2, LayoutScanned
<1>t. TypeOK'
  <2>1. mtime' \in [Offset -> 0 .. MaxTime]
    BY Zenon, <1>3, TouchType DEF IInv
  <2>2. size' \in [Offset -> Nat]
    <3>1. 0 \in Nat
      OBVIOUS
    <3> QED
      BY Zenon, <1>3, <3>1, <1>ty DEF NatTypes
  <2>3. index' \subseteq IndexEntry
    BY Zenon, <1>3, <1>ty, LocFields DEF NatTypes, LocSet
  <2>4. files' \subseteq Offset /\ torn' \subseteq Offset /\ up' \in BOOLEAN
    BY Zenon, <1>0, <1>3, <1>6, <1>ty DEF NatTypes
  <2> QED
    BY ZenonT(60), <1>3, <1>4, <1>6, <2>1, <2>2, <2>3, <2>4 DEF IInv, TypeOK
<1>a. Accounted'
  <2> SUFFICES ASSUME NEW o \in 0 .. next' - 1
               PROVE  o \in trimmed \/ o \in lost \/ \E c \in stored : c.offset = o
    BY Zenon, <1>0, <1>4, <1>5 DEF Accounted
  <2>1. stored # {}
    <3>1. next' # 0
      OBVIOUS
    <3> QED
      BY Zenon, <1>6, <3>1
  <2>2. PICK c \in stored : c.offset = next' - 1
    BY Zenon, <1>6, <2>1
  <2> QED
    BY Zenon, <1>0, <1>f, <2>2 DEF IInv, Accounted
<1>i. Indexed'
  <2>1. Ordered(index')
    BY Zenon, <1>3, LocSetOrdered DEF IInv, Layout
  <2>2. \A c \in stored : c.seg <= c.offset /\ c.offset < next'
    BY Zenon, <1>6 DEF IInv, Layout
  <2>3. \A e \in index' : e.seg <= e.offset /\ e.offset < next'
    BY Zenon, <1>3, <2>2, LocSetFields
  <2>4. \A c \in stored : Loc(c) \in index'
    BY Zenon, <1>3, LocSetFields
  <2>5. index' = {} => stored = {}
    BY Zenon, <2>4
  <2>6. index' # {} => stored # {}
    BY Zenon, <1>3 DEF LocSet
  <2> QED
    BY Zenon, <1>3, <1>4, <1>5, <1>6, <1>f, <2>1, <2>3, <2>4, <2>5, <2>6 DEF Indexed
<1>c. Closed'
  BY Zenon, <1>0 DEF Closed
<1>s. Staging' /\ Snapshot'
  <2>1. op' \notin {"append", "undo", "batch"}
    BY Zenon, <1>4, <1>f
  <2> QED
    BY Zenon, <1>4, <1>f, <2>1, AppendAtRest
<1>g. Times'
  <2>1. \A f \in Offset : mtime'[f] <= now
    <3>1. \A f \in Offset : mtime'[f] = IF f \in T THEN now ELSE mtime[f]
      BY Zenon, <1>3 DEF Touch
    <3> QED
      BY <3>1, <1>ty DEF NatTypes, IInv, Times
  <2>2. ASSUME lost = {} PROVE Aged(stored, mtime')
    <3>1. Aged({c \in stored : c.seg \notin T}, mtime)
      BY Zenon, <1>f, <2>2 DEF IInv, Times, Aged
    <3>2. \A c \in stored : c.seg \in Offset
      BY Zenon, <1>ty DEF NatTypes
    <3>3. \A f \in Offset : mtime[f] <= now
      BY Zenon DEF IInv, Times
    <3> QED
      BY Zenon, <1>3, <1>7, <3>1, <3>2, <3>3, TouchAged DEF IInv
  <2>3. DurableTimes'
    BY Zenon, <1>4, <1>5, <2>1, <2>2 DEF DurableTimes, IInv, Times
  <2> QED
    BY Zenon, <1>4, <1>f, <2>3, RestTimes
<1>r. Retaining'
  BY Zenon, <1>4, <1>5, <1>f DEF Retaining
<1>h. History'
  <2>1. ASSUME NEW o \in Nat, NEW c \in stored, o <= c.offset PROVE o < next'
    <3>1. c.offset < next' /\ c.offset \in Nat /\ next' \in Nat
      BY Zenon, <1>6, <1>ty DEF NatTypes
    <3> QED
      BY <2>1, <3>1
  <2>2. (\A a \in acked : a[1] < next') /\ \A t \in trimmed : t < next'
    BY Zenon, <1>0, <1>f, <1>ty, <2>1 DEF NatTypes, IInv, History
  <2>3. lost = {} => \A t \in trimmed : \A c \in stored :
            \/ t < c.offset
            \/ AgeDue(c.seg)' /\ \E d \in stored : c.seg < d.seg
    <3>1. \A d \in Durable : d.seg \in files' /\ \A f \in T : d.seg <= f
      BY Zenon, <1>3, <1>7, <1>f, <1>l DEF Layout
    <3> QED
      BY Zenon, <1>3, <1>4, <1>7, <1>f, <3>1, TrimmedKept
  <2> QED
    BY Zenon, <1>0, <1>4, <1>5, <1>f, <2>2, <2>3 DEF IInv, History
<1> QED
  BY <1>t, <1>l, <1>a, <1>i, <1>c, <1>s, <1>g, <1>r, <1>h, Zenon DEF IInv

\* recover() itself dies: no record is lost with the segments it removed.
LEMMA RecoverInterruptedStep ==
    ASSUME IInv, NEW gone, RecoverInterrupted(gone)
    PROVE  IInv'
<1>ty. NatTypes
  BY Zenon, Types DEF IInv
<1>0. ~up /\ torn' = {} /\ gone \subseteq {f \in files : ~Scanned(f)}
  BY Zenon DEF RecoverInterrupted
<1>f. /\ op = "idle" /\ index = {} /\ next = 0 /\ orphans = {} /\ deleted = {} /\ todo = {}
      /\ staged = {} /\ vals = <<>> /\ Durable = stored /\ Gone = {}
      /\ \A c \in stored : Scanned(c.seg)
  BY Zenon, <1>0, ClosedFacts
<1>1. PICK T : T = torn
  BY Zenon
<1>2. /\ files' = files \ gone /\ stored' = {c \in stored : c.seg \notin gone}
      /\ size' = [f \in Offset |-> IF f \in gone THEN 0 ELSE size[f]]
      /\ mtime' = Touch(T)
  BY Zenon, <1>1 DEF RecoverInterrupted
<1>3. /\ up' = up /\ index' = index /\ next' = next /\ op' = op /\ vals' = vals /\ bytes' = bytes
      /\ off' = off /\ base' = base /\ cur' = cur /\ staged' = staged /\ orig' = orig
      /\ todo' = todo /\ deleted' = deleted /\ total' = total /\ now' = now /\ acked' = acked
      /\ trimmed' = trimmed /\ lost' = lost /\ orphans' = orphans /\ began' = began
  BY Zenon DEF RecoverInterrupted, memVars, appendVars, retainVars, histVars
<1>4. stored' = stored
  BY Zenon, <1>0, <1>2, <1>f
<1>5. Durable' = Durable
  BY Zenon, <1>3, <1>4 DEF Durable
<1>l. Layout'
  <2>1. \A f \in files : Scanned(f) => f \in files'
    BY Zenon, <1>0, <1>2
  <2>2. /\ \A f \in Offset : Scanned(f) => size'[f] = size[f]
        /\ \A f \in Offset : size'[f] = size[f] \/ size'[f] = 0
    BY Zenon, <1>0, <1>2
  <2> QED
    BY Zenon, <1>0, <1>4, <2>1, <2>2, LayoutScanned
<1>t. TypeOK'
  <2>1. mtime' \in [Offset -> 0 .. MaxTime]
    BY Zenon, <1>2, TouchType DEF IInv
  <2>2. size' \in [Offset -> Nat]
    <3>1. 0 \in Nat
      OBVIOUS
    <3> QED
      BY Zenon, <1>2, <3>1, <1>ty DEF NatTypes
  <2>3. files' \subseteq Offset /\ torn' \subseteq Offset
    BY Zenon, <1>0, <1>2, <1>ty DEF NatTypes
  <2> QED
    BY ZenonT(60), <1>3, <1>4, <2>1, <2>2, <2>3 DEF IInv, TypeOK
<1>i. Indexed'
  BY Zenon, <1>0, <1>3, <1>5, IndexedKept DEF IInv
<1>c. Closed'
  BY Zenon, <1>0, <1>3 DEF IInv, Closed
<1>s. Staging' /\ Snapshot'
  <2>1. op' \notin {"append", "undo", "batch"}
    BY Zenon, <1>3, <1>f
  <2> QED
    BY Zenon, <1>3, <1>f, <2>1, AppendAtRest
<1>h. Accounted' /\ History' /\ DurableTimes'
  <2>1. T \subseteq Offset
    BY Zenon, <1>1, <1>ty DEF NatTypes
  <2>2. \A c \in Durable : c.seg \in files'
    BY Zenon, <1>4, <1>f, <1>l DEF Layout
  <2>3. \A c \in Durable : \A f \in T : c.seg <= f
    BY Zenon, <1>1, <1>f DEF IInv, Closed
  <2> QED
    BY Zenon, <1>2, <1>3, <1>5, <2>1, <2>2, <2>3, DurableKept
<1>g. Times'
  BY Zenon, <1>3, <1>f, <1>h, RestTimes
<1>r. Retaining'
  <2>1. op' # "retain"
    BY Zenon, <1>3, <1>f
  <2> QED
    BY Zenon, <1>3, <1>f, <2>1 DEF Retaining
<1> QED
  BY <1>t, <1>l, <1>i, <1>c, <1>s, <1>h, <1>g, <1>r, Zenon DEF IInv

\* The clock moves: segments only get older.
LEMMA TickStep ==
    ASSUME IInv, Tick
    PROVE  IInv'
<1>ty. NatTypes
  BY Zenon, Types DEF IInv
<1>1. /\ files' = files /\ size' = size /\ mtime' = mtime /\ stored' = stored /\ torn' = torn
      /\ up' = up /\ index' = index /\ next' = next /\ op' = op /\ vals' = vals /\ bytes' = bytes
      /\ off' = off /\ base' = base /\ cur' = cur /\ staged' = staged /\ orig' = orig
      /\ todo' = todo /\ deleted' = deleted /\ total' = total /\ acked' = acked
      /\ trimmed' = trimmed /\ lost' = lost /\ orphans' = orphans /\ began' = began
  BY Zenon DEF Tick, diskVars, memVars, appendVars, retainVars, histVars
<1>2. now' = now + 1 /\ now' \in 0 .. MaxTime /\ now <= now'
  BY <1>ty, ConstantsAssumption DEF Tick, NatTypes
<1>d. Durable' = Durable /\ Holes' = Holes /\ OpenChunk' = OpenChunk /\ (Appending' <=> Appending)
  BY Zenon, <1>1 DEF Durable, Holes, OpenChunk, Appending
<1>3. TypeOK'
  BY ZenonT(60), <1>1, <1>2 DEF IInv, TypeOK
<1>4. Layout'
  BY Zenon, <1>1, LayoutKept DEF IInv
<1>5. Accounted' /\ Indexed' /\ Closed'
  BY Zenon, <1>1, <1>d DEF IInv, Accounted, Indexed, Closed, Ordered, Gone
<1>6. Staging' /\ Snapshot'
  BY Zenon, <1>1, <1>d DEF IInv, Staging, Snapshot, Gone
<1>7. Times'
  <2>1. \A f \in Offset : mtime[f] <= now'
    BY <1>2, <1>ty DEF NatTypes, IInv, Times
  <2>2. began <= now'
    BY <1>2, <1>ty DEF NatTypes, IInv, Times
  <2> QED
    BY Zenon, <1>1, <1>d, <2>1, <2>2 DEF IInv, Times
<1>8. Retaining'
  BY Zenon, <1>1 DEF IInv, Retaining, Kept
<1>9. History'
  <2>1. ASSUME NEW c \in Durable, AgeDue(c.seg) PROVE AgeDue(c.seg)'
    <3>1. c.seg \in files /\ c.seg \in Offset
      BY Zenon, <1>ty DEF Durable, NatTypes, IInv, Layout
    <3>2. RetentionMaxAge > 0 /\ now - mtime[c.seg] >= RetentionMaxAge
      BY Zenon, <2>1, <3>1 DEF AgeDue, Age
    <3>3. now' - mtime'[c.seg] >= RetentionMaxAge
      <4>1. mtime'[c.seg] = mtime[c.seg] /\ mtime[c.seg] \in Nat /\ now \in Nat /\ RetentionMaxAge \in Nat
        BY Zenon, <1>1, <1>ty, <3>1, ConstantsAssumption DEF NatTypes
      <4> QED
        BY <1>2, <3>2, <4>1
    <3> QED
      BY Zenon, <1>1, <3>1, <3>2, <3>3 DEF AgeDue, Age
  <2> QED
    BY Zenon, <1>1, <1>d, <2>1 DEF IInv, History
<1> QED
  BY <1>3, <1>4, <1>5, <1>6, <1>7, <1>8, <1>9, Zenon DEF IInv

\* A stuttering step changes nothing.
LEMMA StutterStep ==
    ASSUME IInv, UNCHANGED vars
    PROVE  IInv'
<1>1. /\ files' = files /\ size' = size /\ mtime' = mtime /\ stored' = stored /\ torn' = torn
      /\ up' = up /\ index' = index /\ next' = next /\ op' = op /\ vals' = vals /\ bytes' = bytes
      /\ off' = off /\ base' = base /\ cur' = cur /\ staged' = staged /\ orig' = orig
      /\ todo' = todo /\ deleted' = deleted /\ total' = total /\ now' = now /\ acked' = acked
      /\ trimmed' = trimmed /\ lost' = lost /\ orphans' = orphans /\ began' = began
  BY Zenon DEF vars, diskVars, memVars, appendVars, retainVars, histVars
<1>d. Durable' = Durable /\ Holes' = Holes /\ OpenChunk' = OpenChunk /\ (Appending' <=> Appending)
  BY Zenon, <1>1 DEF Durable, Holes, OpenChunk, Appending
<1>3. TypeOK'
  BY ZenonT(60), <1>1 DEF IInv, TypeOK
<1>4. Layout'
  BY Zenon, <1>1, LayoutKept DEF IInv
<1>5. Accounted' /\ Indexed' /\ Closed'
  BY Zenon, <1>1, <1>d DEF IInv, Accounted, Indexed, Closed, Ordered, Gone
<1>6. Staging' /\ Snapshot'
  BY Zenon, <1>1, <1>d DEF IInv, Staging, Snapshot, Gone
<1>7. Times' /\ Retaining'
  BY Zenon, <1>1, <1>d DEF IInv, Times, Retaining, Kept
<1>8. History'
  BY Zenon, <1>1, <1>d DEF IInv, History, AgeDue, Age
<1> QED
  BY <1>3, <1>4, <1>5, <1>6, <1>7, <1>8, Zenon DEF IInv

\* Every step of the log keeps the invariant.
LEMMA NextIInv == IInv /\ [Next]_vars => IInv'
<1> SUFFICES ASSUME IInv, [Next]_vars PROVE IInv'
  BY Zenon
<1>1. CASE \E vs \in Batches : BeginAppend(vs)
  BY <1>1, BeginAppendStep, Zenon
<1>2. CASE \E spill \in BOOLEAN : WriteRecord(spill)
  BY Zenon, <1>2, WriteRecordStep
<1>3. CASE \E how \in {"clean", "created", "torn"} : FailAppend(how)
  BY <1>3, FailAppendStep, Zenon
<1>4. CASE \E b \in todo : UndoSegment(b)
  BY Zenon, <1>4, UndoSegmentStep
<1>5. CASE EndUndo
  BY Zenon, <1>5, EndUndoStep
<1>6. CASE \E vs \in Batches, n \in BatchBytes : BeginBatch(vs, n)
  BY <1>6, BeginBatchStep, Zenon
<1>7. CASE WriteBatch
  BY <1>7, WriteBatchStep, Zenon
<1>8. CASE \E partial \in BOOLEAN : FailBatch(partial)
  BY <1>8, FailBatchStep, Zenon
<1>9. CASE CommitAppend
  BY Zenon, <1>9, CommitAppendStep
<1>10. CASE BeginRetention
  BY Zenon, <1>10, BeginRetentionStep
<1>11. CASE \E b \in todo : DeleteSegment(b)
  BY Zenon, <1>11, DeleteSegmentStep
<1>12. CASE \E b \in todo : KeepSegment(b)
  BY Zenon, <1>12, KeepSegmentStep
<1>13. CASE \E b \in todo : FailRetention(b)
  BY Zenon, <1>13, FailRetentionStep
<1>14. CASE EndRetention
  BY Zenon, <1>14, EndRetentionStep
<1>15. CASE \E how \in {"clean", "created", "torn"} : Crash(how)
  BY Zenon, <1>15, CrashStep
<1>16. CASE Recover
  BY Zenon, <1>16, RecoverStep
<1>17. CASE \E gone \in SUBSET files : RecoverInterrupted(gone)
  BY Zenon, <1>17, RecoverInterruptedStep
<1>18. CASE Tick
  BY Zenon, <1>18, TickStep
<1>19. CASE UNCHANGED vars
  BY Zenon, <1>19, StutterStep
<1> QED
  BY Zenon, <1>1, <1>2, <1>3, <1>4, <1>5, <1>6, <1>7, <1>8, <1>9, <1>10, <1>11, <1>12, <1>13, <1>14,
     <1>15, <1>16, <1>17, <1>18, <1>19 DEF Next

-----------------------------------------------------------------------------
(* The theorems.                                                           *)

\* The inductive invariant holds of every behaviour of the partition log, for
\* every set of values, record sizes, segment size and retention policy.
THEOREM LogInvariant == Spec => []IInv
<1>1. Init => IInv
  BY Zenon, InitIInv
<1>2. IInv /\ [Next]_vars => IInv'
  BY Zenon, NextIInv
<1> QED
  BY <1>1, <1>2, PTL DEF Spec

\* Every variable of the log keeps its type.
THEOREM LogTypes == Spec => []TypeOK
<1>1. IInv => TypeOK
  BY Zenon DEF IInv
<1> QED
  BY <1>1, LogInvariant, PTL

\* Below next_offset_ index_ has every offset once, but for those that retention
\* deleted and those that a crash inside a roll-back left out.
THEOREM LogIndexDense == Spec => []IndexDense
<1>1. IInv => IndexDense
  <2> SUFFICES ASSUME IInv, up PROVE IndexDense
    BY Zenon DEF IndexDense
  <2>1. (\A d, e \in index : d.offset = e.offset => d = e) /\ \A e \in index : e.offset < next
    BY Zenon DEF IInv, Indexed, Ordered
  <2>2. ASSUME NEW o \in 0 .. next - 1, o \notin trimmed \cup lost
        PROVE  \E e \in index : e.offset = o
    <3>1. PICK c \in Durable : c.offset = o
      BY Zenon, <2>2 DEF IInv, Accounted
    <3> QED
      BY Zenon, <3>1, LocFields DEF IInv, Indexed
  <2> QED
    BY Zenon, <2>1, <2>2 DEF IndexDense
<1> QED
  BY <1>1, LogInvariant, PTL

\* Every entry a fetch can follow leads to a complete record in an existing file,
\* or into a segment that a pass that threw had deleted.
THEOREM LogIndexReadable == Spec => []IndexReadable
<1>1. IInv => IndexReadable
  <2> SUFFICES ASSUME IInv, up, op # "retain", NEW e \in index, e.seg \notin orphans
               PROVE  e.seg \in files /\ \E c \in stored : Loc(c) = e
    BY Zenon DEF IndexReadable, Readable
  <2>1. e \in LocSet(Durable)
    BY Zenon DEF IInv, Indexed, Gone, Retaining
  <2>2. PICK c \in Durable : e = Loc(c)
    BY ONLY <2>1, Zenon DEF LocSet
  <2>3. e.seg = c.seg /\ c \in stored
    BY Zenon, <2>2, LocFields DEF Durable
  <2> QED
    BY Zenon, <2>2, <2>3 DEF IInv, Layout
<1> QED
  BY <1>1, LogInvariant, PTL

\* No record on disk overlaps another one or passes the end of its file.
THEOREM LogRecordsDisjoint == Spec => []RecordsDisjoint
<1>1. IInv => RecordsDisjoint
  BY Zenon DEF IInv, Layout
<1> QED
  BY <1>1, LogInvariant, PTL

\* An acknowledged record is readable until retention deletes its segment.
THEOREM LogAckedSurvives == Spec => []AckedSurvives
<1>1. IInv => AckedSurvives
  BY Zenon DEF IInv, AckedSurvives, Readable, History, Indexed, Durable
<1> QED
  BY <1>1, LogInvariant, PTL

\* next_offset_ stays above every acknowledged offset, through restarts too.
THEOREM LogHighWatermarkKept == Spec => []HighWatermarkKept
<1>1. IInv => HighWatermarkKept
  BY Zenon DEF IInv, HighWatermarkKept, History
<1> QED
  BY <1>1, LogInvariant, PTL

\* Retention removes oldest first: what is older than a deleted record is gone
\* or due, whatever the clock does during a pass.
THEOREM LogTrimsPrefix == Spec => []TrimsPrefix
<1>1. IInv => TrimsPrefix
  <2> SUFFICES ASSUME IInv, up, op # "retain", lost = {}, NEW t \in trimmed, NEW e \in index,
                      e.seg \notin orphans, ~(t < e.offset)
               PROVE  e.seg # ActiveBase(index) /\ AgeDue(e.seg)
    BY Zenon DEF TrimsPrefix, Readable
  <2>ty. NatTypes
    BY Zenon, Types DEF IInv
  <2>1. e \in LocSet(Durable)
    BY Zenon DEF IInv, Indexed, Gone, Retaining
  <2>2. PICK c \in Durable : e = Loc(c)
    BY ONLY <2>1, Zenon DEF LocSet
  <2>3. e.seg = c.seg /\ e.offset = c.offset /\ c \in stored
    BY Zenon, <2>2, LocFields DEF Durable
  <2>4. PICK d \in Durable : AgeDue(c.seg) /\ c.seg < d.seg
    BY Zenon, <2>3 DEF IInv, History
  <2>5. d.seg <= ActiveBase(index) /\ ActiveBase(index) \in Nat /\ d.seg \in Nat /\ c.seg \in Nat
    BY Zenon, <2>3, <2>ty, ActiveIsLast DEF Durable, NatTypes
  <2>6. c.seg # ActiveBase(index)
    BY <2>4, <2>5
  <2> QED
    BY Zenon, <2>3, <2>4, <2>6
<1> QED
  BY <1>1, LogInvariant, PTL

\* No offset is acknowledged twice, and acknowledgements only go up.
THEOREM LogAcksAdvance == Spec => AcksAdvance
<1>1. IInv /\ [Next]_vars => [\A a \in acked' \ acked : \A b \in acked : b[1] < a[1]]_vars
  <2> SUFFICES ASSUME IInv, Next, NEW a \in acked' \ acked, NEW b \in acked
               PROVE  b[1] < a[1]
    BY Zenon
  <2>1. CASE CommitAppend
    <3>ty. NatTypes
      BY Zenon, Types DEF IInv
    <3>1. PICK c \in staged : a = <<c.offset, c.val>>
      BY Zenon, <2>1 DEF CommitAppend
    <3>2. Appending
      BY Zenon, <2>1 DEF CommitAppend, Appending
    <3>3. up
      BY Zenon, <3>2, AppendingFacts
    <3>4. next <= c.offset /\ b[1] < next
      BY <3>2, <3>3, Zenon DEF IInv, Staging, History
    <3> QED
      BY <3>1, <3>4, <3>ty DEF NatTypes
  <2>2. CASE ~CommitAppend
    <3>1. acked' = acked
      BY ZenonT(60), <2>2 DEF Next, BeginAppend, WriteRecord, FailAppend, UndoSegment, EndUndo,
                  BeginBatch, WriteBatch, FailBatch, BeginRetention, DeleteSegment, KeepSegment,
                  FailRetention, EndRetention, Crash, Recover, RecoverInterrupted, Tick, histVars
    <3> QED
      BY Zenon, <3>1
  <2> QED
    BY Zenon, <2>1, <2>2
<1> QED
  BY <1>1, LogInvariant, PTL DEF Spec, AcksAdvance

-----------------------------------------------------------------------------
(* PartitionLog implements CommitLog: a commit and a crash add the records *)
(* of the append under way, retention removes records, and no other step   *)
(* changes what is durable.                                                *)

\* A step of the abstract log, or a stutter.
Refines == [Abstract!Next]_(Abstract!vars)

\* A step that keeps the durable records and their end shows nothing.
LEMMA KeepsLog ==
    ASSUME Durable' = Durable, DurableEnd' = DurableEnd, acked' = acked
    PROVE  Refines
<1>1. DurableLog' = DurableLog
  BY Zenon DEF DurableLog
<1> QED
  BY Zenon, <1>1 DEF Refines, Abstract!vars

\* So does one of an open log that does not move next_offset_.
LEMMA KeepsOpenLog ==
    ASSUME Durable' = Durable, up, up' = up, next' = next, acked' = acked
    PROVE  Refines
<1>1. DurableEnd' = DurableEnd
  BY Zenon DEF DurableEnd
<1> QED
  BY Zenon, <1>1, KeepsLog

\* The records of the append under way become durable below the new end.
LEMMA StagedGrows ==
    ASSUME IInv, up, Durable' = stored, DurableEnd' \in Nat,
           next < DurableEnd', DurableEnd' <= next + MaxBatch, DurableEnd' <= MaxOffset,
           \A c \in staged : c.offset < DurableEnd'
    PROVE  /\ Abstract!Grows
           /\ Abstract!Added = {<<c.offset, c.val>> : c \in staged}
<1>ty. NatTypes
  BY Zenon, Types DEF IInv
<1>1. PICK A : A = {<<c.offset, c.val>> : c \in staged}
  BY Zenon
<1>2. DurableEnd = next /\ staged \subseteq stored /\ Durable = stored \ staged
  BY Zenon DEF DurableEnd, Durable, IInv, Staging
<1>3. \A c \in staged : next <= c.offset
  BY Zenon DEF IInv, Staging
<1>4. DurableLog' = {<<c.offset, c.val>> : c \in stored}
  BY Zenon DEF DurableLog
<1>5. DurableLog \subseteq DurableLog'
  BY Zenon, <1>2, <1>4 DEF DurableLog
<1>6. \A c \in Durable, d \in staged : c.offset # d.offset
  <2> SUFFICES ASSUME NEW c \in Durable, NEW d \in staged PROVE c.offset # d.offset
    BY Zenon
  <2>1. c.offset < next /\ next <= d.offset
    BY Zenon, <1>3, DurableFirst
  <2>2. c.offset \in Nat /\ d.offset \in Nat /\ next \in Nat
    BY Zenon, <1>2, <1>ty DEF NatTypes
  <2> QED
    BY <2>1, <2>2
<1>7. DurableLog' \ DurableLog = A
  <2>1. ASSUME NEW c \in staged PROVE <<c.offset, c.val>> \notin DurableLog
    <3> SUFFICES ASSUME NEW d \in Durable, <<c.offset, c.val>> = <<d.offset, d.val>> PROVE FALSE
      BY Zenon DEF DurableLog
    <3>1. c.offset = d.offset
      OBVIOUS
    <3> QED
      BY Zenon, <3>1, <1>6
  <2>2. \A a \in A : a \in DurableLog' /\ a \notin DurableLog
    BY Zenon, <1>1, <1>2, <1>4, <2>1
  <2>3. ASSUME NEW a \in DurableLog', a \notin DurableLog PROVE a \in A
    <3>1. PICK c \in stored : a = <<c.offset, c.val>>
      BY Zenon, <1>4
    <3>2. c \notin Durable
      BY Zenon, <2>3, <3>1 DEF DurableLog
    <3> QED
      BY Zenon, <1>1, <1>2, <3>1, <3>2
  <2> QED
    BY Zenon, <2>2, <2>3
<1>8. A \subseteq (next .. DurableEnd' - 1) \X Value
  <2> SUFFICES ASSUME NEW c \in staged PROVE <<c.offset, c.val>> \in (next .. DurableEnd' - 1) \X Value
    BY Zenon, <1>1
  <2>1. c.val \in Value
    BY Zenon, <1>ty DEF NatTypes, Cell
  <2>2. c.offset \in Nat /\ next <= c.offset /\ c.offset < DurableEnd' /\ next \in Nat
    BY Zenon, <1>3, <1>ty DEF NatTypes
  <2>3. c.offset \in next .. DurableEnd' - 1
    BY <2>2
  <2> QED
    BY Zenon, <2>1, <2>3
<1>9. \A a, b \in A : a[1] = b[1] => a = b
  <2> SUFFICES ASSUME NEW a \in A, NEW b \in A, a[1] = b[1] PROVE a = b
    BY Zenon
  <2>1. PICK c \in staged : a = <<c.offset, c.val>>
    BY ONLY <1>1, a \in A, Zenon
  <2>2. PICK d \in staged : b = <<d.offset, d.val>>
    BY ONLY <1>1, b \in A, Zenon
  <2>3. c.offset = d.offset
    BY <2>1, <2>2
  <2>4. c = d
    BY Zenon, <1>2, <2>3 DEF IInv, Layout, Ordered
  <2> QED
    BY Zenon, <2>1, <2>2, <2>4
<1> QED
  BY Zenon, <1>1, <1>2, <1>5, <1>7, <1>8, <1>9 DEF Abstract!Grows, Abstract!Added

\* Publishing an append acknowledges its records.
LEMMA CommitRefines ==
    ASSUME IInv, IInv', CommitAppend
    PROVE  Refines
<1>ty. NatTypes /\ MaxBatch \in Nat
  BY Zenon, Types, ConstantsAssumption DEF IInv
<1>1. /\ Appending /\ vals = <<>> /\ next' = off
      /\ acked' = acked \cup {<<c.offset, c.val>> : c \in staged}
      /\ staged' = {} /\ stored' = stored /\ up' = up
  BY Zenon DEF CommitAppend, NoAppend, Appending
<1>2. up
  BY Zenon, <1>1, AppendingFacts
<1>3. Durable' = stored /\ DurableEnd = next /\ DurableEnd' = off
  BY Zenon, <1>1, <1>2 DEF Durable, DurableEnd
<1>4. /\ next <= off /\ off + Len(vals) <= MaxOffset /\ off + Len(vals) <= next + MaxBatch
      /\ \A c \in staged : c.offset < off
      /\ \A o \in Offset : next <= o /\ o < off => \E c \in staged : c.offset = o
  BY Zenon, <1>1 DEF IInv, Staging
<1>5. off \in Nat /\ next \in Nat /\ off <= MaxOffset /\ off <= next + MaxBatch
  <2>1. Len(vals) = 0
    BY <1>1
  <2> QED
    BY <1>4, <1>ty, <2>1 DEF NatTypes
<1>6. CASE next = off
  <2>1. staged = {}
    <3> SUFFICES ASSUME NEW c \in staged PROVE FALSE
      BY Zenon
    <3>1. next <= c.offset /\ c.offset < off /\ c.offset \in Nat
      BY Zenon, <1>4, <1>ty DEF IInv, Staging, NatTypes
    <3> QED
      BY <3>1, <1>5, <1>6
  <2>2. acked' = acked
    BY Zenon, <1>1, <2>1
  <2>3. Durable' = Durable
    BY Zenon, <1>3, <2>1 DEF Durable
  <2> QED
    BY Zenon, <1>3, <1>6, <2>2, <2>3, KeepsLog
<1>7. CASE next # off
  <2>1. next < off
    BY <1>4, <1>5, <1>7
  <2>2. Abstract!Grows /\ Abstract!Added = {<<c.offset, c.val>> : c \in staged}
    BY Zenon, <1>2, <1>3, <1>4, <1>5, <2>1, StagedGrows
  <2>3. ASSUME NEW o \in next .. off - 1 PROVE \E a \in Abstract!Added : a[1] = o
    <3>1. o \in Offset /\ next <= o /\ o < off
      BY <1>5, <1>ty DEF Offset, NatTypes
    <3>2. PICK c \in staged : c.offset = o
      BY Zenon, <1>4, <3>1
    <3>3. <<c.offset, c.val>> \in Abstract!Added
      BY Zenon, <2>2
    <3>4. <<c.offset, c.val>>[1] = o
      BY <3>2
    <3> QED
      BY Zenon, <3>3, <3>4
  <2>4. acked' = acked \cup Abstract!Added
    BY Zenon, <1>1, <2>2
  <2>5. Abstract!Acknowledge
    BY Zenon, <1>3, <2>2, <2>3, <2>4 DEF Abstract!Acknowledge
  <2> QED
    BY Zenon, <2>5 DEF Refines, Abstract!Next
<1> QED
  BY Zenon, <1>6, <1>7

\* One past the last record a crash leaves: what the next recover() will find.
LEMMA CrashedEnd ==
    ASSUME IInv, up
    PROVE  /\ staged = {} => EndOffset(stored) = next
           /\ staged # {} => \E c \in staged : /\ EndOffset(stored) = c.offset + 1
                                               /\ c.offset + 1 \in Offset
                                               /\ \A d \in staged : d.offset <= c.offset
<1>ty. NatTypes
  BY Zenon, Types DEF IInv
<1>1. staged \subseteq stored /\ Durable = stored \ staged
  BY Zenon DEF Durable, IInv, Staging
<1>2. ASSUME stored # {}
      PROVE  \E c \in stored : /\ EndOffset(stored) = c.offset + 1 /\ c.offset + 1 \in Offset
                               /\ \A d \in stored : d.offset <= c.offset
  BY Zenon, <1>2, EndIsLast
<1>3. CASE staged = {}
  <2>1. Durable = stored
    BY Zenon, <1>1, <1>3
  <2>2. CASE stored = {}
    <3>1. EndOffset(stored) = 0
      BY Zenon, <2>2 DEF EndOffset
    <3>2. next = 0
      BY Zenon, <2>1, <2>2 DEF IInv, Indexed
    <3> QED
      BY Zenon, <1>3, <3>1, <3>2
  <2>3. CASE stored # {}
    <3>1. PICK c \in stored : EndOffset(stored) = c.offset + 1 /\ \A d \in stored : d.offset <= c.offset
      BY Zenon, <1>2, <2>3
    <3>2. index # {}
      BY Zenon, <2>1, <3>1 DEF IInv, Indexed
    <3>3. PICK d \in stored : d.offset = next - 1
      BY Zenon, <2>1, <3>2 DEF IInv, Indexed
    <3>4. c.offset < next /\ d.offset <= c.offset
      BY Zenon, <2>1, <3>1, DurableFirst
    <3>5. c.offset + 1 = next
      <4>1. c.offset \in Nat /\ d.offset \in Nat /\ next \in Nat
        BY Zenon, <1>ty DEF NatTypes
      <4> QED
        BY <3>3, <3>4, <4>1
    <3> QED
      BY Zenon, <1>3, <3>1, <3>5
  <2> QED
    BY Zenon, <2>2, <2>3
<1>4. CASE staged # {}
  <2>1. PICK c \in stored : /\ EndOffset(stored) = c.offset + 1 /\ c.offset + 1 \in Offset
                            /\ \A d \in stored : d.offset <= c.offset
    BY Zenon, <1>1, <1>2, <1>4
  <2>2. PICK s \in staged : next <= s.offset /\ s.offset <= c.offset
    BY Zenon, <1>1, <1>4, <2>1 DEF IInv, Staging
  <2>3. c \notin Durable
    <3> SUFFICES ASSUME c \in Durable PROVE FALSE
      BY Zenon
    <3>1. c.offset < next
      BY Zenon, DurableFirst
    <3>2. c.offset \in Nat /\ s.offset \in Nat /\ next \in Nat
      BY Zenon, <1>ty DEF NatTypes
    <3> QED
      BY <2>2, <3>1, <3>2
  <2> QED
    BY Zenon, <1>1, <1>4, <2>1, <2>3
<1> QED
  BY Zenon, <1>3, <1>4

\* A crash leaves the records an append had on disk; nobody was told of them.
LEMMA CrashRefines ==
    ASSUME IInv, NEW how, Crash(how)
    PROVE  Refines
<1>ty. NatTypes /\ MaxBatch \in Nat
  BY Zenon, Types, ConstantsAssumption DEF IInv
<1>1. up /\ ~up' /\ stored' = stored /\ staged' = {} /\ acked' = acked
  BY Zenon DEF Crash, NoAppend
<1>2. Durable' = stored /\ DurableEnd = next
  BY Zenon, <1>1 DEF Durable, DurableEnd
<1>e. DurableEnd' = EndOffset(stored)
  <2>1. EndOffset(stored') = EndOffset(stored)
    BY Zenon, <1>1
  <2>2. DurableEnd' = EndOffset(stored')
    BY Zenon, <1>1 DEF DurableEnd, EndOffset
  <2> QED
    BY Zenon, <2>1, <2>2
<1>3. CASE staged = {}
  <2>1. EndOffset(stored) = next
    BY Zenon, <1>1, <1>3, CrashedEnd
  <2>2. Durable' = Durable
    BY Zenon, <1>2, <1>3 DEF Durable
  <2> QED
    BY Zenon, <1>1, <1>2, <1>e, <2>1, <2>2, KeepsLog
<1>4. CASE staged # {}
  <2>1. PICK c \in staged : /\ EndOffset(stored) = c.offset + 1 /\ c.offset + 1 \in Offset
                            /\ \A d \in staged : d.offset <= c.offset
    BY Zenon, <1>1, <1>4, CrashedEnd
  <2>2. next <= c.offset /\ c.offset < off
    BY Zenon DEF IInv, Staging
  <2>3. off <= next + MaxBatch
    <3>1. CASE Appending
      <4>1. off + Len(vals) <= next + MaxBatch /\ vals \in Seq(Value)
        BY Zenon, <3>1 DEF IInv, Staging, TypeOK
      <4>2. Len(vals) \in Nat /\ off \in Nat /\ next \in Nat
        BY <4>1, <1>ty DEF NatTypes
      <4> QED
        BY <4>1, <4>2, <1>ty
    <3>2. CASE ~Appending
      BY Zenon, <1>4, <3>2 DEF IInv, Staging, Snapshot
    <3> QED
      BY Zenon, <3>1, <3>2
  <2>4. c.offset \in Nat /\ next \in Nat /\ off \in Nat /\ MaxOffset \in Nat
    BY Zenon, <1>ty DEF NatTypes
  <2>5. PICK e : e = c.offset + 1
    BY Zenon
  <2>6. e \in Nat /\ next < e /\ e <= next + MaxBatch /\ e <= MaxOffset /\ c.offset = e - 1
    BY <2>1, <2>2, <2>3, <2>4, <2>5, <1>ty DEF Offset
  <2>7. \A d \in staged : d.offset < e
    <3> SUFFICES ASSUME NEW d \in staged PROVE d.offset < e
      BY Zenon
    <3>1. d.offset <= c.offset /\ d.offset \in Nat
      BY Zenon, <2>1, <1>ty DEF NatTypes
    <3> QED
      BY <3>1, <2>4, <2>5
  <2>8. DurableEnd' = e
    BY Zenon, <1>e, <2>1, <2>5
  <2>9. Abstract!Grows /\ Abstract!Added = {<<d.offset, d.val>> : d \in staged}
    BY Zenon, <1>1, <1>2, <2>6, <2>7, <2>8, StagedGrows
  <2>10. <<c.offset, c.val>> \in Abstract!Added /\ <<c.offset, c.val>>[1] = e - 1
    <3>1. <<c.offset, c.val>>[1] = e - 1
      BY <2>6
    <3> QED
      BY Zenon, <2>9, <3>1
  <2>11. Abstract!Leave
    BY Zenon, <1>1, <2>8, <2>9, <2>10 DEF Abstract!Leave
  <2> QED
    BY Zenon, <2>11 DEF Refines, Abstract!Next
<1> QED
  BY Zenon, <1>3, <1>4

\* Retention removes records; the newest one stays.
LEMMA TrimRefines ==
    ASSUME IInv, IInv', op = "retain", Durable' \subseteq Durable,
           up' = up, next' = next, index' = index, acked' = acked
    PROVE  Refines
<1>1. up
  BY Zenon, RetainingFacts
<1>2. DurableEnd' = DurableEnd /\ DurableEnd = next
  BY Zenon, <1>1 DEF DurableEnd
<1>3. DurableLog' \subseteq DurableLog
  BY Zenon DEF DurableLog
<1>4. CASE DurableLog' = DurableLog
  BY Zenon, <1>2, <1>4 DEF Refines, Abstract!vars
<1>5. CASE DurableLog' # DurableLog
  <2>1. PICK d \in Durable : TRUE
    BY Zenon, <1>3, <1>5 DEF DurableLog
  <2>2. index' # {}
    BY Zenon, <1>1, <2>1 DEF IInv, Indexed
  <2>3. PICK c \in Durable' : c.offset = next' - 1
    BY Zenon, <1>1, <2>2 DEF IInv, Indexed
  <2>4. <<c.offset, c.val>> \in DurableLog'
    BY Zenon DEF DurableLog
  <2>5. <<c.offset, c.val>>[1] = DurableEnd - 1
    BY <1>2, <2>3
  <2>6. Abstract!Trim
    BY Zenon, <1>2, <1>3, <1>5, <2>4, <2>5 DEF Abstract!Trim
  <2> QED
    BY Zenon, <2>6 DEF Refines, Abstract!Next
<1> QED
  BY Zenon, <1>4, <1>5

\* A pass, with the unlinks that fail.
LEMMA RetentionRefines ==
    ASSUME IInv, IInv', NEW b, DeleteSegment(b) \/ FailRetention(b)
    PROVE  Refines
<1>1. /\ op = "retain" /\ up' = up /\ next' = next /\ index' = index /\ acked' = acked
      /\ staged' = staged /\ stored' \subseteq stored
  BY Zenon DEF DeleteSegment, FailRetention, Unlink, memVars, appendVars
<1>2. Durable' \subseteq Durable
  BY Zenon, <1>1 DEF Durable
<1> QED
  BY Zenon, <1>1, <1>2, TrimRefines

\* Opening a log, or dying while opening it, changes nothing it stands for.
LEMMA RecoverRefines ==
    ASSUME IInv, Recover \/ \E gone \in SUBSET files : RecoverInterrupted(gone)
    PROVE  Refines
<1>1. ~up
  BY Zenon DEF Recover, RecoverInterrupted
<1>2. staged = {} /\ \A c \in stored : Scanned(c.seg)
  BY Zenon, <1>1, ClosedFacts
<1>3. staged' = staged /\ acked' = acked
  BY Zenon DEF Recover, RecoverInterrupted, appendVars, histVars
<1>4. stored' = stored /\ DurableEnd' = EndOffset(stored)
  <2>1. CASE Recover
    <3>1. {c \in stored : Scanned(c.seg)} = stored
      BY Zenon, <1>2
    <3>2. stored' = stored /\ next' = EndOffset(stored) /\ up'
      BY Zenon, <2>1, <3>1 DEF Recover
    <3> QED
      BY Zenon, <3>2 DEF DurableEnd
  <2>2. CASE \E gone \in SUBSET files : RecoverInterrupted(gone)
    <3>1. PICK gone : RecoverInterrupted(gone)
      BY Zenon, <2>2
    <3>2. gone \subseteq {f \in files : ~Scanned(f)} /\ stored' = {c \in stored : c.seg \notin gone}
          /\ up' = up
      BY Zenon, <3>1 DEF RecoverInterrupted, memVars
    <3>3. stored' = stored
      BY Zenon, <1>2, <3>2
    <3>4. EndOffset(stored') = EndOffset(stored)
      BY Zenon, <3>3
    <3>5. DurableEnd' = EndOffset(stored')
      BY Zenon, <1>1, <3>2 DEF DurableEnd, EndOffset
    <3> QED
      BY Zenon, <3>3, <3>4, <3>5
  <2> QED
    BY Zenon, <2>1, <2>2
<1>5. Durable' = Durable /\ DurableEnd = EndOffset(stored)
  BY Zenon, <1>1, <1>3, <1>4 DEF Durable, DurableEnd
<1> QED
  BY Zenon, <1>3, <1>4, <1>5, KeepsLog

\* Writing a record or a batch adds to what is staged, not to what is durable.
LEMMA WriteRefines ==
    ASSUME IInv, (\E spill \in BOOLEAN : WriteRecord(spill)) \/ WriteBatch
    PROVE  Refines
<1>ty. NatTypes
  BY Zenon, Types DEF IInv
<1>1. /\ Appending /\ up' = up /\ next' = next /\ acked' = acked
  BY Zenon DEF WriteRecord, WriteBatch, Appending, memVars, histVars
<1>2. up /\ \A c \in stored : c.offset < off
  BY Zenon, <1>1, AppendingFacts
<1>3. PICK S : /\ stored' = stored \cup S
               /\ staged' = staged \cup S \/ (staged' = S /\ staged = {})
               /\ \A c \in S : c.offset \in Nat /\ off <= c.offset
  <2>1. CASE \E spill \in BOOLEAN : WriteRecord(spill)
    <3>1. PICK c : /\ c = [offset |-> off, seg |-> WriteBase, pos |-> WritePos,
                           len |-> RecordBytes[Head(vals)], ri |-> 0, val |-> Head(vals)]
                   /\ stored' = stored \cup {c} /\ staged' = staged \cup {c}
      BY Zenon, <2>1 DEF WriteRecord
    <3>2. c.offset = off
      BY Zenon, <3>1
    <3>3. off \in Nat /\ off <= off
      BY <1>ty DEF NatTypes
    <3>4. PICK S : S = {c}
      BY Zenon
    <3>5. /\ stored' = stored \cup S /\ staged' = staged \cup S
          /\ \A d \in S : d.offset \in Nat /\ off <= d.offset
      BY Zenon, <3>1, <3>2, <3>3, <3>4
    <3> QED
      BY ONLY <3>5, Zenon
  <2>2. CASE WriteBatch
    <3>1. stored' = stored \cup BatchCells /\ staged' = BatchCells /\ staged = {}
      BY Zenon, <2>2 DEF WriteBatch, IInv, Staging
    <3>2. ASSUME NEW c \in BatchCells PROVE c.offset \in Nat /\ off <= c.offset
      <4>1. PICK k \in 0 .. Len(vals) - 1 :
                c = [offset |-> off + k, seg |-> base, pos |-> cur, len |-> bytes,
                     ri |-> k, val |-> vals[k + 1]]
        BY Zenon DEF BatchCells
      <4>2. c.offset = off + k
        BY Zenon, <4>1
      <4>3. k \in Nat /\ off \in Nat
        BY <1>ty DEF NatTypes
      <4> QED
        BY <4>2, <4>3
    <3> QED
      BY Zenon, <3>1, <3>2
  <2> QED
    BY Zenon, <2>1, <2>2
<1>4. ASSUME NEW c \in stored PROVE c \notin S
  <2> SUFFICES ASSUME c \in S PROVE FALSE
    BY Zenon
  <2>1. c.offset < off /\ off <= c.offset /\ c.offset \in Nat /\ off \in Nat
    BY Zenon, <1>2, <1>3, <1>ty DEF NatTypes
  <2> QED
    BY <2>1
<1>5. Durable' = Durable
  BY Zenon, <1>3, <1>4 DEF Durable
<1> QED
  BY Zenon, <1>1, <1>2, <1>5, KeepsOpenLog

\* A failed append, its roll-back and a failed batch take back what was staged.
LEMMA UndoRefines ==
    ASSUME IInv,
           \/ \E how \in {"clean", "created", "torn"} : FailAppend(how)
           \/ \E b \in todo : UndoSegment(b)
           \/ EndUndo
           \/ \E partial \in BOOLEAN : FailBatch(partial)
    PROVE  Refines
<1>ty. NatTypes
  BY Zenon, Types DEF IInv
<1>1. /\ op \in {"append", "undo", "batch"} /\ up' = up /\ next' = next /\ acked' = acked
  BY Zenon DEF FailAppend, UndoSegment, EndUndo, FailBatch, memVars, histVars
<1>2. up
  BY Zenon, <1>1 DEF IInv, Closed
<1>3. ASSUME NEW c \in Durable, NEW f, c.seg = f, op \in {"undo", "batch"}
      PROVE  f \in orig.files /\ c.pos < orig.size[f]
  <2>1. c \in stored /\ c.seg \in orig.files /\ c.pos + c.len <= orig.size[c.seg] /\ c.len > 0
    BY Zenon, <1>3 DEF IInv, Snapshot, Layout, Appending, Durable
  <2>2. c.pos \in Nat /\ c.len \in Nat /\ orig.size[c.seg] \in Nat
    BY Zenon, <2>1, <1>ty DEF NatTypes
  <2>3. c.pos < orig.size[c.seg]
    BY <2>1, <2>2
  <2> QED
    BY Zenon, <1>3, <2>1, <2>3
<1>4. ASSUME NEW c \in staged, op \in {"undo", "batch"}
      PROVE  ~(c.pos < orig.size[c.seg])
  <2>1. orig.size[c.seg] <= c.pos /\ c \in stored
    BY Zenon, <1>4 DEF IInv, Snapshot, Staging, Appending
  <2>2. c.pos \in Nat /\ orig.size[c.seg] \in Nat
    BY Zenon, <2>1, <1>ty DEF NatTypes
  <2> QED
    BY <2>1, <2>2
<1>5. Durable' = Durable
  <2>1. CASE \E how \in {"clean", "created", "torn"} : FailAppend(how)
    BY Zenon, <2>1 DEF FailAppend, Durable
  <2>2. CASE \E b \in todo : UndoSegment(b)
    <3>1. PICK b : /\ op = "undo" /\ staged' = {c \in staged : c.seg # b}
                   /\ stored' = {c \in stored : c.seg = b => b \in orig.files /\ c.pos < orig.size[b]}
      BY Zenon, <2>2 DEF UndoSegment
    <3>2. \A c \in Durable : c \in stored' /\ c \notin staged'
      BY Zenon, <1>3, <3>1 DEF Durable
    <3>3. \A c \in stored' : c \notin staged' => c \in stored /\ c \notin staged
      BY Zenon, <1>4, <3>1
    <3> QED
      BY Zenon, <3>2, <3>3 DEF Durable
  <2>3. CASE EndUndo
    <3>1. op = "undo" /\ todo = {} /\ staged' = {} /\ stored' = stored
      BY Zenon, <2>3 DEF EndUndo, NoAppend, diskVars
    <3>2. staged = {}
      BY Zenon, <3>1, UndoTodo
    <3> QED
      BY Zenon, <3>1, <3>2 DEF Durable
  <2>4. CASE \E partial \in BOOLEAN : FailBatch(partial)
    <3>1. /\ op = "batch" /\ staged' = {}
          /\ stored' = {c \in stored : c.seg = base => c.pos < orig.size[base]}
      BY Zenon, <2>4 DEF FailBatch, NoAppend
    <3>2. \A c \in staged : c.seg = base
      BY Zenon, <3>1 DEF IInv, Staging
    <3>3. \A c \in Durable : c \in stored'
      BY Zenon, <1>3, <3>1 DEF Durable
    <3>4. \A c \in stored' : c \in stored /\ c \notin staged
      BY Zenon, <1>4, <3>1, <3>2
    <3> QED
      BY Zenon, <3>1, <3>3, <3>4 DEF Durable
  <2> QED
    BY Zenon, <2>1, <2>2, <2>3, <2>4
<1> QED
  BY Zenon, <1>1, <1>2, <1>5, KeepsOpenLog

\* Every step of the partition log is a step of the abstract log or a stutter.
LEMMA StepRefines == IInv /\ IInv' /\ [Next]_vars => Refines
<1> SUFFICES ASSUME IInv, IInv', [Next]_vars PROVE Refines
  BY Zenon
<1>1. ASSUME stored' = stored, staged' = staged, up' = up, next' = next, acked' = acked PROVE Refines
  <2>1. Durable' = Durable
    BY Zenon, <1>1 DEF Durable
  <2>2. EndOffset(stored') = EndOffset(stored)
    BY Zenon, <1>1
  <2>3. DurableEnd' = IF up' THEN next' ELSE EndOffset(stored')
    BY Zenon DEF DurableEnd, EndOffset
  <2>4. DurableEnd' = DurableEnd
    BY Zenon, <1>1, <2>2, <2>3 DEF DurableEnd
  <2> QED
    BY Zenon, <1>1, <2>1, <2>4, KeepsLog
<1>2. CASE \/ \E vs \in Batches : BeginAppend(vs)
           \/ \E vs \in Batches, n \in BatchBytes : BeginBatch(vs, n)
  BY <1>1, <1>2, Zenon DEF BeginAppend, BeginBatch, diskVars, memVars, histVars
<1>3. CASE BeginRetention \/ EndRetention \/ \E b \in todo : KeepSegment(b)
  BY <1>1, <1>3, Zenon DEF BeginRetention, EndRetention, KeepSegment, diskVars, memVars, appendVars,
                           histVars
<1>4. CASE Tick \/ UNCHANGED vars
  BY <1>1, <1>4, Zenon DEF Tick, vars, diskVars, memVars, appendVars, histVars
<1> QED
  BY Zenon, <1>2, <1>3, <1>4, WriteRefines, UndoRefines, CommitRefines, RetentionRefines, CrashRefines,
     RecoverRefines DEF Next

\* The empty log.
LEMMA InitRefines == Init => Abstract!Init
<1> SUFFICES ASSUME Init PROVE Abstract!Init
  BY Zenon
<1>1. up /\ stored = {} /\ staged = {} /\ next = 0 /\ acked = {}
  BY Zenon DEF Init
<1>2. Durable = {} /\ DurableEnd = 0
  BY Zenon, <1>1 DEF Durable, DurableEnd
<1>3. DurableLog = {}
  BY Zenon, <1>2 DEF DurableLog
<1> QED
  BY Zenon, <1>1, <1>2, <1>3 DEF Abstract!Init

\* The partition log, with its segments, roll-backs, crashes and recovery, is a
\* log whose records never change and whose newest record retention never takes.
THEOREM LogImplementsCommitLog == Spec => ImplementsCommitLog
<1>1. Init => Abstract!Init
  BY Zenon, InitRefines
<1>2. IInv /\ IInv' /\ [Next]_vars => [Abstract!Next]_(Abstract!vars)
  BY Zenon, StepRefines DEF Refines
<1> QED
  BY <1>1, <1>2, LogInvariant, PTL DEF Spec, ImplementsCommitLog, Abstract!Spec

=============================================================================
