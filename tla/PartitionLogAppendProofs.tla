---------------------- MODULE PartitionLogAppendProofs ----------------------
(***************************************************************************)
(* Towards the invariant of PartitionLog: facts about its operators, the   *)
(* initial state, and the steps of append_batch and append_encoded_batch.  *)
(***************************************************************************)
EXTENDS PartitionLogInv, TLAPS

-----------------------------------------------------------------------------
(* Facts about the operators of the model.                                 *)

\* What TypeOK says of the numbers of a state.
NatTypes ==
    /\ MaxOffset \in Nat /\ Offset \subseteq Nat
    /\ \A c \in stored : /\ c \in Cell /\ c.offset \in Offset /\ c.seg \in Offset
                         /\ c.offset \in Nat /\ c.seg \in Nat
                         /\ c.pos \in Nat /\ c.len \in Nat
    /\ \A c \in staged : c \in Cell /\ c.offset \in Nat /\ c.seg \in Offset
    /\ \A e \in index : /\ e \in IndexEntry /\ e.offset \in Nat /\ e.seg \in Nat
                        /\ e.offset \in Offset /\ e.seg \in Offset
    /\ next \in Nat /\ off \in Nat /\ base \in Nat /\ cur \in Nat /\ now \in Nat
    /\ base \in Offset /\ off \in Offset /\ next \in Offset
    /\ \A f \in Offset : /\ f \in Nat /\ size[f] \in Nat /\ orig.size[f] \in Nat
                         /\ mtime[f] \in Nat
    /\ files \subseteq Offset /\ torn \subseteq Offset /\ todo \subseteq Offset
    /\ trimmed \subseteq Nat /\ began \in Nat /\ total \in Nat
    /\ \A a \in acked : a[1] \in Nat

\* Every number of a well-typed state is a natural.
LEMMA Types ==
    ASSUME TypeOK
    PROVE  NatTypes
<1>1. \A c \in stored \cup staged : c \in Cell
  BY Zenon DEF TypeOK
<1>2. \A e \in index : e \in IndexEntry
  BY Zenon DEF TypeOK
<1>3. \A c \in stored \cup staged : /\ c.offset \in Offset /\ c.seg \in Offset
                                    /\ c.pos \in Nat /\ c.len \in Nat
  BY Zenon, <1>1 DEF Cell
<1>4. \A e \in index : e.offset \in Offset /\ e.seg \in Offset
  BY Zenon, <1>2 DEF IndexEntry
<1>5. MaxOffset \in Nat /\ Offset \subseteq Nat
  BY ConstantsAssumption DEF Offset
<1>6. next \in Nat /\ off \in Nat /\ base \in Nat /\ cur \in Nat
  BY <1>5, Zenon DEF TypeOK
<1>7. \A f \in Offset : f \in Nat /\ size[f] \in Nat /\ orig.size[f] \in Nat
  BY <1>5, Zenon DEF TypeOK
<1>8. /\ \A f \in Offset : mtime[f] \in Nat
      /\ now \in Nat /\ began \in Nat
  BY ConstantsAssumption DEF TypeOK
<1>9. /\ trimmed \subseteq Nat /\ total \in Nat
      /\ files \subseteq Offset /\ torn \subseteq Offset /\ todo \subseteq Offset
  BY Zenon, <1>5 DEF TypeOK
<1>10. \A a \in acked : a[1] \in Nat
  BY <1>5, ZenonT(60) DEF TypeOK
<1>11. base \in Offset /\ off \in Offset /\ next \in Offset
  BY Zenon DEF TypeOK
<1> QED
  BY <1>1, <1>2, <1>3, <1>4, <1>5, <1>6, <1>7, <1>8, <1>9, <1>10, <1>11, ZenonT(60) DEF NatTypes

\* The index entry of a cell says where the cell is.
LEMMA LocFields ==
    ASSUME NEW c
    PROVE  /\ Loc(c).offset = c.offset /\ Loc(c).seg = c.seg
           /\ c \in Cell => Loc(c) \in IndexEntry
<1>1. Loc(c).offset = c.offset /\ Loc(c).seg = c.seg
  BY Zenon DEF Loc
<1>2. ASSUME c \in Cell PROVE Loc(c) \in IndexEntry
  BY Zenon, <1>2 DEF Cell, IndexEntry, Loc
<1> QED
  BY Zenon, <1>1, <1>2

\* The entries of a set of cells, and the cells they come from.
LEMMA LocSetFields ==
    ASSUME NEW S
    PROVE  /\ \A e \in LocSet(S) : \E c \in S : e = Loc(c) /\ e.offset = c.offset /\ e.seg = c.seg
           /\ \A c \in S : Loc(c) \in LocSet(S)
BY Zenon, LocFields DEF LocSet

\* The entries of ordered cells are ordered.
LEMMA LocSetOrdered ==
    ASSUME NEW S, Ordered(S)
    PROVE  Ordered(LocSet(S))
<1> SUFFICES ASSUME NEW d \in LocSet(S), NEW e \in LocSet(S)
             PROVE  /\ d.offset = e.offset => d = e
                    /\ d.seg < e.seg => d.offset < e.offset
  BY Zenon DEF Ordered
<1>1. PICK c \in S, b \in S : /\ d = Loc(c) /\ d.offset = c.offset /\ d.seg = c.seg
                              /\ e = Loc(b) /\ e.offset = b.offset /\ e.seg = b.seg
  BY Zenon, LocSetFields
<1> QED
  BY Zenon, <1>1 DEF Ordered

\* A subset of an ordered set is ordered.
LEMMA OrderedSubset ==
    ASSUME NEW S, NEW T, T \subseteq S, Ordered(S)
    PROVE  Ordered(T)
BY Zenon DEF Ordered

\* The published records lie below next_offset_, the staged ones after them.
LEMMA DurableFirst ==
    ASSUME IInv, up
    PROVE  /\ Durable \subseteq stored
           /\ \A c \in Durable : c.offset < next
           /\ \A c \in Durable, d \in staged : c.seg <= d.seg
<1>ty. NatTypes
  BY Zenon, Types DEF IInv
<1>1. Durable \subseteq stored
  BY Zenon DEF Durable
<1>2. \A c \in Durable : c.offset < next
  BY Zenon, LocFields DEF IInv, Indexed
<1>3. ASSUME NEW c \in Durable, NEW d \in staged PROVE c.seg <= d.seg
  <2>1. c \in stored /\ d \in stored /\ next <= d.offset
    BY Zenon, <1>1 DEF IInv, Staging
  <2>2. d.seg < c.seg => d.offset < c.offset
    BY Zenon, <2>1 DEF IInv, Layout, Ordered
  <2> QED
    BY <1>2, <1>ty, <2>1, <2>2 DEF NatTypes
<1> QED
  BY Zenon, <1>1, <1>2, <1>3

\* index_.back(): the active segment holds next_offset_ - 1, and no published
\* record lies in a later one.
LEMMA ActiveIsLast ==
    ASSUME IInv, up
    PROVE  /\ ActiveBase(index) \in Offset
           /\ ActiveBase(index) <= next
           /\ \A c \in Durable : c.seg <= ActiveBase(index)
           /\ ActiveBase(index) \notin orphans
           /\ index # {} => \E c \in Durable : c.offset = next - 1 /\ c.seg = ActiveBase(index)
<1>ty. NatTypes
  BY Zenon, Types DEF IInv
<1>d. Durable \subseteq stored
  BY Zenon, DurableFirst
<1>1. CASE index = {}
  <2>1. ActiveBase(index) = 0
    BY Zenon, <1>1 DEF ActiveBase
  <2>2. Durable = {} /\ orphans = {}
    BY Zenon, <1>1 DEF IInv, Indexed
  <2>3. 0 \in Offset /\ 0 <= next
    BY <1>ty DEF NatTypes, Offset
  <2> QED
    BY Zenon, <1>1, <2>1, <2>2, <2>3
<1>2. CASE index # {}
  <2>1. PICK c \in Durable : c.offset = next - 1
    BY Zenon, <1>2 DEF IInv, Indexed
  <2>2. PICK e \in index : e = Loc(c) /\ e.offset = c.offset /\ e.seg = c.seg
    BY Zenon, LocFields DEF IInv, Indexed
  <2>3. \A d \in index : d.offset <= e.offset
    BY <1>ty, <2>1, <2>2 DEF NatTypes, IInv, Indexed
  <2>4. \A d \in index : IsBack(d, index) => d = e
    <3>1. \A d \in index : e.offset <= d.offset => d.offset = e.offset
      BY <1>ty, <2>3 DEF NatTypes
    <3> QED
      BY Zenon, <3>1 DEF IsBack, IInv, Indexed, Ordered
  <2>5. ActiveBase(index) = c.seg
    <3>1. IsBack(e, index)
      BY Zenon, <2>3 DEF IsBack
    <3> QED
      BY Zenon, <2>2, <2>4, <3>1 DEF ActiveBase
  <2>6. \A d \in Durable : d.seg <= c.seg
    <3>1. \A d \in Durable : d.offset <= c.offset
      BY Zenon, LocFields, <2>2, <2>3 DEF IInv, Indexed
    <3>2. \A d \in Durable : c.seg < d.seg => c.offset < d.offset
      BY Zenon, <1>d DEF IInv, Layout, Ordered
    <3> QED
      BY <1>ty, <1>d, <3>1, <3>2 DEF NatTypes
  <2>7. c.seg \in Offset /\ c.seg <= next
    BY <1>ty, <1>d, <2>1 DEF NatTypes, IInv, Layout
  <2>8. c.seg \notin orphans
    BY Zenon, <1>d DEF IInv, Indexed, Gone
  <2> QED
    BY Zenon, <2>1, <2>5, <2>6, <2>7, <2>8
<1> QED
  BY Zenon, <1>1, <1>2

\* After writes to the files of T, all of them at or after the segments of S,
\* later segments have later times.
LEMMA TouchAged ==
    ASSUME TypeOK, NEW S, NEW T, T \subseteq Offset, \A c \in S : c.seg \in Offset,
           \A c \in S, f \in T : c.seg <= f,
           \A f \in Offset : mtime[f] <= now,
           Aged({c \in S : c.seg \notin T}, mtime), mtime' = Touch(T)
    PROVE  Aged(S, mtime')
<1>ty. NatTypes
  BY Zenon, Types
<1>1. \A f \in Offset : mtime'[f] = IF f \in T THEN now ELSE mtime[f]
  BY Zenon DEF Touch
<1> SUFFICES ASSUME NEW c \in S, NEW d \in S, c.seg <= d.seg
             PROVE  mtime'[c.seg] <= mtime'[d.seg]
  BY Zenon DEF Aged
<1>0. c.seg \in Offset /\ d.seg \in Offset /\ c.seg \in Nat /\ d.seg \in Nat /\ now <= now
  <2>1. now \in Nat => now <= now
    OBVIOUS
  <2> QED
    BY Zenon, <2>1, <1>ty DEF NatTypes
<1>2. CASE d.seg \in T
  BY Zenon, <1>0, <1>1, <1>2
<1>3. CASE d.seg \notin T
  <2>1. c.seg \notin T
    <3> SUFFICES ASSUME c.seg \in T PROVE d.seg = c.seg
      BY Zenon, <1>3
    <3>1. d.seg <= c.seg
      BY Zenon
    <3>2. \A a, b \in Nat : a <= b /\ b <= a => b = a
      OBVIOUS
    <3> QED
      BY Zenon, <3>1, <3>2, <1>0
  <2>2. mtime[c.seg] <= mtime[d.seg]
    BY Zenon, <1>3, <2>1 DEF Aged
  <2> QED
    BY Zenon, <1>0, <1>1, <1>3, <2>1, <2>2
<1> QED
  BY Zenon, <1>2, <1>3

\* A subset of aged records is aged.
LEMMA AgedSubset ==
    ASSUME NEW S, NEW R, NEW m, R \subseteq S, Aged(S, m)
    PROVE  Aged(R, m)
BY Zenon DEF Aged

\* Writing no file leaves the times as they are.
LEMMA TouchNone ==
    ASSUME TypeOK
    PROVE  Touch({}) = mtime
<1>1. mtime = [f \in Offset |-> mtime[f]]
  BY Zenon DEF TypeOK
<1> QED
  BY Zenon, <1>1 DEF Touch

\* File times stay in range.
LEMMA TouchType ==
    ASSUME TypeOK, NEW T
    PROVE  Touch(T) \in [Offset -> 0 .. MaxTime]
BY Zenon DEF TypeOK, Touch

\* What Times says of the published records.
DurableTimes ==
    /\ \A f \in Offset : mtime[f] <= now
    /\ began <= now
    /\ lost = {} => Aged(Durable, mtime)

\* Writes at or after the last published segment leave the older ones as due as
\* they were.
LEMMA TrimmedKept ==
    ASSUME IInv, NEW T, T \subseteq Offset, lost = {},
           \A c \in Durable : c.seg \in files' /\ \A f \in T : c.seg <= f,
           mtime' = Touch(T), now' = now
    PROVE  \A t \in trimmed : \A c \in Durable :
               \/ t < c.offset
               \/ AgeDue(c.seg)' /\ \E d \in Durable : c.seg < d.seg
<1>ty. NatTypes
  BY Zenon, Types DEF IInv
<1>d. \A c \in Durable : c \in stored
  BY Zenon DEF Durable
<1>1. \A f \in Offset : mtime'[f] = IF f \in T THEN now ELSE mtime[f]
  BY Zenon DEF Touch
<1>2. ASSUME NEW c \in Durable, NEW d \in Durable, c.seg < d.seg, AgeDue(c.seg)
      PROVE  AgeDue(c.seg)'
  <2>1. c.seg \notin T
    BY <1>2, <1>d, <1>ty DEF NatTypes
  <2>2. mtime'[c.seg] = mtime[c.seg] /\ c.seg \in files /\ c.seg \in files'
    BY Zenon, <1>1, <1>d, <1>ty, <2>1 DEF NatTypes, IInv, Layout
  <2> QED
    BY Zenon, <1>2, <2>2 DEF AgeDue, Age
<1> QED
  BY Zenon, <1>2 DEF IInv, History

\* A step that leaves the published records alone, and writes only files at or
\* after theirs, keeps what the invariant says of them.
LEMMA DurableKept ==
    ASSUME IInv, NEW T, T \subseteq Offset,
           \A c \in Durable : c.seg \in files' /\ \A f \in T : c.seg <= f,
           mtime' = Touch(T), now' = now, began' = began, Durable' = Durable, up' = up,
           next' = next, acked' = acked, trimmed' = trimmed, lost' = lost
    PROVE  Accounted' /\ History' /\ DurableTimes'
<1>ty. NatTypes
  BY Zenon, Types DEF IInv
<1>d. \A c \in Durable : c \in stored
  BY Zenon DEF Durable
<1>1. \A f \in Offset : mtime'[f] = IF f \in T THEN now ELSE mtime[f]
  BY Zenon DEF Touch
<1>2. Accounted'
  BY Zenon DEF IInv, Accounted
<1>3. \A f \in Offset : mtime'[f] <= now'
  BY <1>1, <1>ty DEF NatTypes, IInv, Times
<1>4. ASSUME lost = {} PROVE Aged(Durable, mtime')
  <2>1. \A c \in Durable : c.seg \in Offset
    BY Zenon, <1>ty, <1>d DEF NatTypes
  <2>2. Aged({c \in Durable : c.seg \notin T}, mtime)
    BY Zenon, <1>4 DEF IInv, Times, Aged
  <2> QED
    BY Zenon, <2>1, <2>2, TouchAged DEF IInv, Times
<1>5. History'
  <2>1. lost = {} => \A t \in trimmed : \A c \in Durable :
            \/ t < c.offset
            \/ AgeDue(c.seg)' /\ \E d \in Durable : c.seg < d.seg
    BY Zenon, TrimmedKept
  <2> QED
    BY Zenon, <2>1 DEF IInv, History
<1> QED
  BY Zenon, <1>2, <1>3, <1>4, <1>5 DEF DurableTimes, IInv, Times

\* The same when the step writes no file.
LEMMA DurableKeptQuiet ==
    ASSUME IInv, \A c \in Durable : c.seg \in files',
           mtime' = mtime, now' = now, began' = began, Durable' = Durable, up' = up,
           next' = next, acked' = acked, trimmed' = trimmed, lost' = lost
    PROVE  Accounted' /\ History' /\ DurableTimes'
<1>1. PICK T : T = {}
  BY Zenon
<1>2. mtime' = Touch(T)
  BY Zenon, <1>1, TouchNone DEF IInv
<1>3. T \subseteq Offset /\ \A c \in Durable : c.seg \in files' /\ \A f \in T : c.seg <= f
  BY Zenon, <1>1
<1> QED
  BY <1>2, <1>3, DurableKept, Zenon

\* A step that leaves index_ and the published records alone keeps Indexed.
LEMMA IndexedKept ==
    ASSUME Indexed, Durable' = Durable, index' = index, next' = next, up' = up,
           orphans' = orphans, deleted' = deleted,
           up => \A c \in stored' : c.seg \notin Gone
    PROVE  Indexed'
BY Zenon DEF Indexed, Gone, Ordered

\* A step that writes no file keeps Layout.
LEMMA LayoutKept ==
    ASSUME Layout, files' = files, size' = size, stored' = stored
    PROVE  Layout'
BY Zenon DEF Layout, RecordsDisjoint, Ordered

\* With no append under way nothing is staged and there are no holes.
LEMMA AtRest ==
    ASSUME IInv, op \notin {"append", "batch", "undo"}
    PROVE  /\ staged = {} /\ Durable = stored /\ Holes = {} /\ OpenChunk = {}
           /\ {c \in stored : c.seg \notin OpenChunk} = stored
<1>1. staged = {}
  BY Zenon DEF IInv, Staging, Appending
<1> QED
  BY Zenon, <1>1 DEF Durable, Holes, OpenChunk

\* What Times says of a log at rest.
LEMMA RestTimes ==
    ASSUME staged' = {}, DurableTimes'
    PROVE  Times'
<1>1. Durable' = {c \in stored' : c.seg \notin OpenChunk'}
  BY Zenon DEF Durable, OpenChunk
<1> QED
  BY Zenon, <1>1 DEF DurableTimes, Times

\* A batch is a non-empty sequence of at most MaxBatch values.
LEMMA BatchIsSeq ==
    ASSUME NEW vs \in Batches
    PROVE  /\ vs \in Seq(Value) /\ Len(vs) \in Nat /\ Len(vs) > 0 /\ vs # <<>>
           /\ Len(vs) <= MaxBatch
<1>1. PICK n \in 1 .. MaxBatch : vs \in [1 .. n -> Value]
  BY Zenon DEF Batches
<1>2. vs \in Seq(Value) /\ Len(vs) = n
  BY <1>1, ConstantsAssumption
<1> QED
  BY <1>1, <1>2, ConstantsAssumption

\* While an append is under way the log is open and its records have no hole.
LEMMA AppendingFacts ==
    ASSUME IInv, Appending
    PROVE  /\ up /\ torn = {} /\ todo = {} /\ deleted = {} /\ Holes = {}
           /\ op # "undo" /\ op # "retain" /\ op # "idle"
           /\ \A c \in stored : c.offset < off
           /\ off \notin Gone
<1>ty. NatTypes
  BY Zenon, Types DEF IInv
<1>1. op # "undo" /\ op # "retain" /\ op # "idle"
  BY Zenon DEF Appending
<1>2. up /\ torn = {} /\ todo = {} /\ deleted = {}
  BY Zenon, <1>1 DEF IInv, Closed, Retaining
<1>3. \A c \in stored : c.offset < off
  <2>1. \A c \in stored : c \in staged \/ c.offset < next
    BY Zenon, <1>2, DurableFirst DEF Durable
  <2> QED
    BY <2>1, <1>ty DEF NatTypes, IInv, Staging
<1>4. Holes = {}
  <2>1. \A o \in next .. off - 1 : o \in Offset /\ next <= o /\ o < off
    BY <1>ty DEF NatTypes, Offset
  <2> QED
    BY Zenon, <2>1 DEF Holes, IInv, Staging
<1>5. off \notin Gone
  <2>1. \A b \in orphans : \E e \in index : e.seg = b /\ e.seg <= e.offset /\ e.offset < next
    BY Zenon DEF IInv, Indexed
  <2>2. next <= off
    BY Zenon DEF IInv, Staging
  <2>3. off \notin orphans
    BY <2>1, <2>2, <1>ty DEF NatTypes
  <2> QED
    BY Zenon, <1>2, <2>3 DEF Gone
<1> QED
  BY Zenon, <1>1, <1>2, <1>3, <1>4, <1>5

-----------------------------------------------------------------------------
(* Every step keeps IInv.                                                  *)

\* A new partition satisfies the invariant.
LEMMA InitIInv == Init => IInv
<1> SUFFICES ASSUME Init PROVE IInv
  BY Zenon
<1> USE DEF Init
<1>0. Durable = {} /\ OpenChunk = {}
  BY Zenon DEF Durable, OpenChunk
<1>1. TypeOK
  BY ConstantsAssumption DEF TypeOK, NoFiles, Offset
<1>2. Layout
  BY ConstantsAssumption DEF Layout, RecordsDisjoint, Ordered
<1>3. Accounted
  <2>1. 0 .. next - 1 = {}
    OBVIOUS
  <2> QED
    BY Zenon, <2>1 DEF Accounted
<1>4. Indexed /\ Closed
  BY Zenon, <1>0 DEF Indexed, Ordered, Gone, Closed
<1>5. Staging /\ Snapshot
  BY Zenon DEF Staging, Snapshot, Appending
<1>6. Times
  BY <1>0, ConstantsAssumption DEF Times, Aged
<1>7. Retaining /\ History
  BY Zenon DEF Retaining, History
<1> QED
  BY <1>1, <1>2, <1>3, <1>4, <1>5, <1>6, <1>7, Zenon DEF IInv

\* append_batch and append_encoded_batch take their snapshot and choose a
\* segment: the active one, or a new one at next_offset_.
LEMMA AppendBegun ==
    ASSUME IInv, up, op = "idle", op' \in {"append", "batch"},
           NEW vs \in Batches, next + Len(vs) <= MaxOffset, vals' = vs, off' = next,
           \/ base' = ActiveBase(index) /\ cur' = size[ActiveBase(index)]
           \/ base' = next /\ cur' = 0 /\ next \in Offset,
           bytes' \in Nat, op' = "batch" => bytes' > 0,
           orig' = [files |-> files, size |-> size],
           files' = files, size' = size, mtime' = mtime, stored' = stored, torn' = torn,
           up' = up, index' = index, next' = next, staged' = staged, todo' = todo,
           deleted' = deleted, total' = total, now' = now, acked' = acked,
           trimmed' = trimmed, lost' = lost, orphans' = orphans, began' = began
    PROVE  IInv'
<1>ty. NatTypes
  BY Zenon, Types DEF IInv
<1>0. /\ staged = {} /\ Durable = stored /\ Durable' = stored
      /\ op' # "idle" /\ op' # "retain" /\ op' # "undo" /\ todo = {} /\ deleted = {} /\ torn = {}
  <2>1. staged = {} /\ Durable = stored
    BY Zenon, AtRest
  <2>2. todo = {} /\ deleted = {} /\ torn = {}
    BY Zenon DEF IInv, Retaining, Closed
  <2> QED
    BY Zenon, <2>1, <2>2 DEF Durable
<1>a. /\ ActiveBase(index) \in Offset /\ ActiveBase(index) <= next
      /\ \A c \in stored : c.seg <= ActiveBase(index)
      /\ ActiveBase(index) \notin orphans
      /\ \A c \in stored : c.offset < next
  BY Zenon, <1>0, ActiveIsLast, DurableFirst
<1>vs. /\ vs \in Seq(Value) /\ Len(vs) \in Nat /\ Len(vs) > 0 /\ vs # <<>>
       /\ Len(vs) <= MaxBatch
  BY Zenon, BatchIsSeq
<1>b. /\ base' \in Offset /\ cur' \in Nat /\ base' <= next /\ base' \notin Gone
      /\ \A c \in stored : c.seg <= base' /\ (c.seg = base' => c.pos + c.len <= cur')
      /\ orig'.size[base'] <= cur'
  <2>1. next \notin orphans
    <3>1. \A b \in orphans : \E e \in index : e.seg = b /\ e.seg <= e.offset /\ e.offset < next
      BY Zenon DEF IInv, Indexed
    <3> QED
      BY <3>1, <1>ty DEF NatTypes
  <2>2. CASE base' = ActiveBase(index) /\ cur' = size[ActiveBase(index)]
    <3>1. \A c \in stored : c.pos + c.len <= size[c.seg]
      BY Zenon DEF IInv, Layout
    <3>2. size[ActiveBase(index)] \in Nat
      BY Zenon, <1>a, <1>ty DEF NatTypes
    <3>3. size[ActiveBase(index)] <= size[ActiveBase(index)]
      BY <3>2
    <3> QED
      BY Zenon, <1>0, <1>a, <2>2, <3>1, <3>2, <3>3 DEF Gone
  <2>3. CASE base' = next /\ cur' = 0 /\ next \in Offset
    <3>1. \A c \in stored : c.seg < next
      BY <1>a, <1>ty DEF NatTypes, IInv, Layout
    <3>2. \A c \in stored : c.seg <= next /\ c.seg # next
      BY <3>1, <1>ty DEF NatTypes
    <3>3. size[next] = 0 /\ 0 <= 0 /\ next <= next
      <4>1. ~(size[next] > 0)
        BY Zenon, <3>2, <1>ty DEF NatTypes, IInv, Layout
      <4> QED
        BY <4>1, <1>ty DEF NatTypes
    <3> QED
      BY Zenon, <1>0, <2>1, <2>3, <3>2, <3>3 DEF Gone
  <2> QED
    BY Zenon, <2>2, <2>3
<1>1. TypeOK'
  <2>1. orig' \in [files : SUBSET Offset, size : [Offset -> Nat]]
    BY Zenon DEF IInv, TypeOK
  <2>2. off' \in Offset /\ vals' \in Seq(Value) /\ base' \in Offset /\ cur' \in Nat
    BY Zenon, <1>b, <1>vs, <1>ty DEF NatTypes
  <2> QED
    BY ZenonT(60), <2>1, <2>2 DEF IInv, TypeOK
<1>2. Layout'
  BY Zenon, LayoutKept DEF IInv
<1>3. Indexed'
  BY Zenon, <1>0, IndexedKept DEF IInv, Indexed
<1>4. Closed'
  BY Zenon, <1>0 DEF IInv, Closed
<1>5. Staging'
  <2>1. /\ next <= off' /\ off' + Len(vs) <= MaxOffset /\ off' + Len(vs) <= next + MaxBatch
        /\ \A o \in Offset : ~(next <= o /\ o < off')
    BY <1>ty, <1>vs, ConstantsAssumption DEF NatTypes
  <2> QED
    BY Zenon, <1>0, <1>b, <1>vs, <2>1 DEF Staging, Appending, Gone
<1>6. Snapshot'
  <2>1. \A c \in stored : c.seg \in files /\ c.pos + c.len <= size[c.seg]
    BY Zenon DEF IInv, Layout
  <2>2. \A f \in Offset : size[f] > 0 => \E c \in stored : c.seg = f
    BY Zenon DEF IInv, Layout
  <2> QED
    BY Zenon, <1>0, <1>b, <2>1, <2>2 DEF Snapshot, Appending
<1>7. Accounted' /\ History' /\ DurableTimes'
  <2>1. \A c \in Durable : c.seg \in files'
    BY Zenon, <1>0 DEF IInv, Layout
  <2> QED
    BY Zenon, <1>0, <2>1, DurableKeptQuiet
<1>8. Times'
  BY Zenon, <1>0, <1>7, RestTimes
<1>9. Retaining'
  BY Zenon, <1>0 DEF Retaining
<1> QED
  BY <1>1, <1>2, <1>3, <1>4, <1>5, <1>6, <1>7, <1>8, <1>9, Zenon DEF IInv

\* append_batch begins.
LEMMA BeginAppendStep ==
    ASSUME IInv, NEW vs \in Batches, BeginAppend(vs)
    PROVE  IInv'
<1>1. bytes' \in Nat
  BY Zenon DEF IInv, TypeOK, BeginAppend
<1>2. op' # "batch" /\ op' \in {"append", "batch"}
  BY Zenon DEF BeginAppend
<1>3. /\ up /\ op = "idle" /\ next + Len(vs) <= MaxOffset /\ vals' = vs /\ off' = next
      /\ base' = ActiveBase(index) /\ cur' = size[ActiveBase(index)]
      /\ orig' = [files |-> files, size |-> size]
      /\ files' = files /\ size' = size /\ mtime' = mtime /\ stored' = stored /\ torn' = torn
      /\ up' = up /\ index' = index /\ next' = next /\ staged' = staged /\ todo' = todo
      /\ deleted' = deleted /\ total' = total /\ now' = now /\ acked' = acked
      /\ trimmed' = trimmed /\ lost' = lost /\ orphans' = orphans /\ began' = began
  BY Zenon DEF BeginAppend, diskVars, memVars, retainVars, histVars
<1> QED
  BY Zenon, <1>1, <1>2, <1>3, AppendBegun

\* append_encoded_batch begins.
LEMMA BeginBatchStep ==
    ASSUME IInv, NEW vs \in Batches, NEW n \in BatchBytes, BeginBatch(vs, n)
    PROVE  IInv'
<1>1. bytes' \in Nat /\ bytes' > 0
  BY ConstantsAssumption DEF BeginBatch
<1>2. op' \in {"append", "batch"} /\ next \in Offset
  BY Zenon DEF BeginBatch, IInv, TypeOK
<1>3. \/ base' = ActiveBase(index) /\ cur' = size[ActiveBase(index)]
      \/ base' = next /\ cur' = 0 /\ next \in Offset
  BY Zenon, <1>2 DEF BeginBatch
<1>4. /\ up /\ op = "idle" /\ next + Len(vs) <= MaxOffset /\ vals' = vs /\ off' = next
      /\ orig' = [files |-> files, size |-> size]
      /\ files' = files /\ size' = size /\ mtime' = mtime /\ stored' = stored /\ torn' = torn
      /\ up' = up /\ index' = index /\ next' = next /\ staged' = staged /\ todo' = todo
      /\ deleted' = deleted /\ total' = total /\ now' = now /\ acked' = acked
      /\ trimmed' = trimmed /\ lost' = lost /\ orphans' = orphans /\ began' = began
  BY Zenon DEF BeginBatch, diskVars, memVars, retainVars, histVars
<1> QED
  BY Zenon, <1>1, <1>2, <1>3, <1>4, AppendBegun

\* The physical entry N of an append: consecutive offsets from off on, at the
\* end p of segment w, the last one or a new one.
Entry(N, w, p, n) ==
    /\ N \subseteq Cell /\ N # {}
    /\ w \in Offset /\ base <= w /\ w <= off /\ (w = base \/ w = off)
    /\ p \in Nat /\ n \in Nat /\ n > 0
    /\ \A c \in N : c.seg = w /\ c.pos = p /\ c.len = n /\ off <= c.offset
    /\ \A c, d \in N : c.offset = d.offset => c = d
    /\ \A c \in stored : c.seg <= w /\ (c.seg = w => c.pos + c.len <= p)
    /\ orig.size[w] <= p

\* The disk after an entry has been written.
LEMMA EntryLayout ==
    ASSUME IInv, Appending, NEW N, NEW w, NEW p, NEW n, Entry(N, w, p, n),
           \A c \in N : c.offset < MaxOffset,
           files' = files \cup {w}, stored' = stored \cup N,
           size' = [size EXCEPT ![w] = p + n]
    PROVE  Layout'
<1>ty. NatTypes
  BY Zenon, Types DEF IInv
<1>n. /\ w \in Offset /\ w \in Nat /\ w <= off /\ p \in Nat /\ n \in Nat /\ n > 0 /\ N # {}
      /\ \A c \in N : /\ c.seg = w /\ c.pos = p /\ c.len = n /\ off <= c.offset
                      /\ c.offset \in Nat /\ c.offset < MaxOffset
      /\ \A c, d \in N : c.offset = d.offset => c = d
      /\ \A c \in stored : c.seg <= w /\ (c.seg = w => c.pos + c.len <= p)
  <2>1. \A c \in N : c.offset \in Nat
    BY Zenon, <1>ty DEF NatTypes, Entry, Cell
  <2> QED
    BY Zenon, <1>ty, <2>1 DEF NatTypes, Entry
<1>s. /\ \A f \in Offset : size'[f] = IF f = w THEN p + n ELSE size[f]
      /\ size'[w] = p + n
      /\ p + n \in Nat /\ p <= p + n /\ p + n <= p + n /\ p + n > 0
  <2>1. \A f \in Offset : size'[f] = IF f = w THEN p + n ELSE size[f]
    BY Zenon, <1>n DEF IInv, TypeOK
  <2> QED
    BY <1>n, <2>1
<1>o. \A c \in stored : c.offset < off
  BY Zenon, AppendingFacts
<1>1. \A c \in stored' : /\ c.seg \in files' /\ c.seg <= c.offset /\ c.offset < MaxOffset
                         /\ c.len > 0 /\ c.pos + c.len <= size'[c.seg]
  <2>1. ASSUME NEW c \in stored
        PROVE  /\ c.seg \in files' /\ c.seg <= c.offset /\ c.offset < MaxOffset
               /\ c.len > 0 /\ c.pos + c.len <= size'[c.seg]
    <3>1. /\ c.seg \in files /\ c.seg <= c.offset /\ c.offset < MaxOffset /\ c.seg \in Offset
          /\ c.len > 0 /\ c.pos + c.len <= size[c.seg] /\ c.pos + c.len \in Nat
      BY <1>ty DEF IInv, Layout, NatTypes
    <3>2. c.seg = w => c.pos + c.len <= p + n
      BY <3>1, <1>n
    <3>3. c.pos + c.len <= size'[c.seg]
      <4>1. CASE c.seg = w
        <5>1. size'[c.seg] = p + n
          BY Zenon, <4>1, <1>s
        <5> QED
          BY Zenon, <3>2, <4>1, <5>1
      <4>2. CASE c.seg # w
        <5>1. size'[c.seg] = size[c.seg]
          BY Zenon, <3>1, <4>2, <1>s
        <5> QED
          BY Zenon, <3>1, <5>1
      <4> QED
        BY Zenon, <4>1, <4>2
    <3> QED
      BY Zenon, <3>1, <3>3
  <2>2. ASSUME NEW c \in N
        PROVE  /\ c.seg \in files' /\ c.seg <= c.offset /\ c.offset < MaxOffset
               /\ c.len > 0 /\ c.pos + c.len <= size'[c.seg]
    <3>1. c.seg <= c.offset
      BY <1>n, <1>ty DEF NatTypes
    <3> QED
      BY Zenon, <3>1, <1>n, <1>s
  <2> QED
    BY Zenon, <2>1, <2>2
<1>2. \A f \in Offset : size'[f] > 0 => \E c \in stored' : c.seg = f
  BY Zenon, <1>n, <1>s DEF IInv, Layout
<1>3. \A c, d \in stored' : c.seg = d.seg => \/ c.pos = d.pos /\ c.len = d.len
                                             \/ c.pos + c.len <= d.pos
                                             \/ d.pos + d.len <= c.pos
  <2>1. \A c, d \in stored : c.seg = d.seg => \/ c.pos = d.pos /\ c.len = d.len
                                             \/ c.pos + c.len <= d.pos
                                             \/ d.pos + d.len <= c.pos
    BY Zenon DEF IInv, Layout, RecordsDisjoint
  <2>2. \A c \in stored, d \in N : c.seg = d.seg => c.pos + c.len <= d.pos
    BY Zenon, <1>n
  <2>3. \A c, d \in N : c.pos = d.pos /\ c.len = d.len
    BY Zenon, <1>n
  <2> QED
    BY ZenonT(30), <2>1, <2>2, <2>3
<1>4. Ordered(stored')
  <2> SUFFICES ASSUME NEW c \in stored', NEW d \in stored'
               PROVE  /\ c.offset = d.offset => c = d
                      /\ c.seg < d.seg => c.offset < d.offset
    BY Zenon DEF Ordered
  <2>1. CASE c \in stored /\ d \in stored
    BY Zenon, <2>1 DEF IInv, Layout, Ordered
  <2>2. CASE c \in stored /\ d \in N
    BY <2>2, <1>o, <1>n, <1>ty DEF NatTypes
  <2>3. CASE c \in N /\ d \in stored
    BY <2>3, <1>o, <1>n, <1>ty DEF NatTypes
  <2>4. CASE c \in N /\ d \in N
    <3>1. ~(w < w)
      BY <1>n
    <3> QED
      BY Zenon, <2>4, <3>1, <1>n
  <2> QED
    BY Zenon, <2>1, <2>2, <2>3, <2>4
<1> QED
  BY Zenon, <1>1, <1>2, <1>3, <1>4 DEF Layout, RecordsDisjoint

\* Writing an entry keeps the invariant.
LEMMA EntryWritten ==
    ASSUME IInv, Appending, NEW N, NEW w, NEW p, NEW n, NEW T, Entry(N, w, p, n),
           off' \in Offset, off <= off',
           \A c \in N : c.offset < off',
           \A o \in Offset : off <= o /\ o < off' => \E c \in N : c.offset = o,
           vals' \in Seq(Value), off' + Len(vals') = off + Len(vals),
           op = "batch" => w = base /\ vals' = <<>>,
           OpenChunk \ {w} \subseteq T, T \subseteq OpenChunk \cup {w}, mtime' = Touch(T),
           files' = files \cup {w}, stored' = stored \cup N, staged' = staged \cup N,
           size' = [size EXCEPT ![w] = p + n], base' = w, cur' = p + n,
           torn' = torn, up' = up, index' = index, next' = next, op' = op, bytes' = bytes,
           orig' = orig, todo' = todo, deleted' = deleted, total' = total, now' = now,
           acked' = acked, trimmed' = trimmed, lost' = lost, orphans' = orphans,
           began' = began
    PROVE  IInv'
<1>ty. NatTypes
  BY Zenon, Types DEF IInv
<1>f. /\ up /\ torn = {} /\ todo = {} /\ deleted = {} /\ Holes = {}
      /\ op # "undo" /\ op # "retain" /\ op # "idle"
      /\ \A c \in stored : c.offset < off
      /\ off \notin Gone
  BY Zenon, AppendingFacts
<1>n. /\ w \in Offset /\ w \in Nat /\ w <= off /\ base <= w /\ (w = base \/ w = off)
      /\ p \in Nat /\ n \in Nat /\ n > 0 /\ N # {} /\ N \subseteq Cell
      /\ \A c \in N : c.seg = w /\ c.pos = p /\ c.len = n /\ off <= c.offset /\ c.offset \in Nat
      /\ \A c \in stored : c.seg <= w /\ (c.seg = w => c.pos + c.len <= p)
      /\ orig.size[w] <= p
  <2>1. \A c \in N : c.offset \in Nat
    BY Zenon, <1>ty DEF NatTypes, Entry, Cell
  <2> QED
    BY Zenon, <1>ty, <2>1 DEF NatTypes, Entry
<1>s. p + n \in Nat /\ p <= p + n
  BY <1>n
<1>0. Appending' /\ \A c \in N : c \notin stored
  <2>1. \A x \in Nat : off <= x => ~(x < off)
    BY <1>ty DEF NatTypes
  <2>2. \A c \in N : c \notin stored
    BY Zenon, <1>f, <1>n, <2>1
  <2> QED
    BY Zenon, <2>2 DEF Appending
<1>d. Durable' = Durable /\ Durable \subseteq stored
  BY Zenon, <1>0 DEF Durable
<1>b. \A c \in stored : c.seg <= base
  BY Zenon DEF IInv, Staging
<1>c. OpenChunk \subseteq {base} /\ T \subseteq Offset
  BY Zenon, <1>n, <1>ty DEF OpenChunk, NatTypes
<1>e. OpenChunk' = {w}
  <2>1. \E c \in staged' : c.seg = w
    BY Zenon, <1>n
  <2>2. OpenChunk' = {b \in {w} : op # "undo" /\ \E c \in staged' : c.seg = b}
    BY Zenon DEF OpenChunk
  <2> QED
    BY Zenon, <1>f, <2>1, <2>2
<1>g. \A c \in stored : \A f \in T : c.seg <= f
  <2>1. \A f \in T : f = base \/ f = w
    BY Zenon, <1>c
  <2> QED
    BY Zenon, <1>b, <1>n, <2>1
<1>1. TypeOK'
  <2>1. mtime' \in [Offset -> 0 .. MaxTime]
    BY Zenon, TouchType DEF IInv
  <2>2. size' \in [Offset -> Nat]
    BY Zenon, <1>n, <1>s DEF IInv, TypeOK
  <2> QED
    BY <1>n, <1>s, <2>1, <2>2, ZenonT(60) DEF IInv, TypeOK
<1>2. Layout'
  <2>1. \A c \in N : c.offset < MaxOffset
    BY <1>n, <1>ty DEF NatTypes, Offset
  <2> QED
    BY Zenon, <2>1, EntryLayout
<1>w. w \notin Gone
  BY Zenon, <1>n, <1>f DEF IInv, Staging
<1>3. Indexed'
  <2>1. \A c \in stored' : c.seg \notin Gone
    BY Zenon, <1>w, <1>f, <1>n DEF IInv, Indexed
  <2> QED
    BY Zenon, <1>d, <2>1, IndexedKept DEF IInv
<1>4. Closed'
  BY Zenon, <1>f DEF Closed
<1>5. Staging'
  <2>1. \A c \in staged' : next <= c.offset /\ c.offset < off'
    <3>1. \A c \in staged : next <= c.offset /\ c.offset < off /\ c.offset \in Nat
      BY Zenon, <1>ty DEF IInv, Staging, NatTypes
    <3>2. next <= off /\ off' \in Nat
      BY Zenon, <1>ty DEF IInv, Staging, NatTypes
    <3>3. \A c \in staged : c.offset < off'
      BY <3>1, <3>2, <1>ty DEF NatTypes
    <3>4. \A c \in N : next <= c.offset
      BY <3>2, <1>n, <1>ty DEF NatTypes
    <3> QED
      BY Zenon, <3>1, <3>3, <3>4
  <2>2. /\ next <= off' /\ off' + Len(vals') <= MaxOffset
        /\ off' + Len(vals') <= next + MaxBatch /\ w <= off'
    <3>1. /\ next <= off /\ off + Len(vals) <= MaxOffset /\ off + Len(vals) <= next + MaxBatch
          /\ off' \in Nat
      BY Zenon, <1>ty DEF IInv, Staging, NatTypes
    <3> QED
      BY <3>1, <1>n, <1>ty DEF NatTypes
  <2>3. \A o \in Offset : next <= o /\ o < off' => \E c \in staged' : c.offset = o
    <3>1. \A o \in Offset : o < off \/ off <= o
      BY <1>ty DEF NatTypes
    <3> QED
      BY Zenon, <3>1 DEF IInv, Staging
  <2>4. \A c \in stored' : c.seg <= w /\ (c.seg = w => c.pos + c.len <= p + n)
    <3>1. \A c \in stored : c.seg = w => c.pos + c.len <= p + n
      BY <1>n, <1>ty DEF NatTypes
    <3>2. w <= w /\ p + n <= p + n
      BY <1>n
    <3> QED
      BY Zenon, <3>1, <3>2, <1>n
  <2> QED
    BY Zenon, <1>0, <1>f, <1>n, <1>w, <2>1, <2>2, <2>3, <2>4 DEF IInv, Staging, Appending, Gone
<1>6. Snapshot'
  <2>1. orig.size[w] <= p + n
    BY <1>n, <1>ty DEF NatTypes
  <2> QED
    BY Zenon, <1>0, <1>d, <1>f, <1>n, <2>1 DEF IInv, Snapshot
<1>7. Accounted' /\ History' /\ DurableTimes'
  <2>1. \A c \in Durable : c.seg \in files' /\ \A f \in T : c.seg <= f
    BY Zenon, <1>d, <1>g DEF IInv, Layout
  <2> QED
    BY Zenon, <1>c, <1>d, <2>1, DurableKept
<1>8. Times'
  <2>1. PICK R : R = {c \in stored' : c.seg \notin OpenChunk'}
    BY Zenon
  <2>2. \A c \in R : c \in stored /\ c.seg # w /\ c.seg \in Offset /\ \A f \in T : c.seg <= f
    <3>1. \A c \in R : c \in stored /\ c.seg # w
      BY Zenon, <1>e, <1>n, <2>1
    <3> QED
      BY Zenon, <1>g, <3>1, <1>ty DEF NatTypes
  <2>3. ASSUME lost = {} PROVE Aged({c \in R : c.seg \notin T}, mtime)
    BY Zenon, <1>f, <2>2, <2>3 DEF IInv, Times, Aged
  <2>4. \A f \in Offset : mtime[f] <= now
    BY Zenon DEF IInv, Times
  <2>5. lost = {} => Aged(R, mtime')
    BY Zenon, <1>c, <2>2, <2>3, <2>4, TouchAged DEF IInv
  <2> QED
    BY Zenon, <1>7, <2>1, <2>5 DEF DurableTimes, Times
<1>9. Retaining'
  BY Zenon, <1>f DEF Retaining
<1> QED
  BY <1>1, <1>2, <1>3, <1>4, <1>5, <1>6, <1>7, <1>8, <1>9, Zenon DEF IInv

\* Where append_batch puts its next record: at the end of the last segment, or
\* at the start of a new one.
LEMMA RecordTarget ==
    ASSUME IInv, op = "append"
    PROVE  /\ WriteBase \in Offset /\ WritePos \in Nat
           /\ base <= WriteBase /\ WriteBase <= off /\ (WriteBase = base \/ WriteBase = off)
           /\ \A c \in stored : c.seg <= WriteBase /\ (c.seg = WriteBase => c.pos + c.len <= WritePos)
           /\ orig.size[WriteBase] <= WritePos
<1>ty. NatTypes
  BY Zenon, Types DEF IInv
<1>0. Appending
  BY Zenon DEF Appending
<1>1. CASE RollDue(RecordBytes[Head(vals)])
  <2>1. WriteBase = off /\ WritePos = 0
    BY Zenon, <1>1 DEF WriteBase, WritePos
  <2>2. base <= off
    BY Zenon, <1>0 DEF IInv, Staging
  <2>3. \A c \in stored : c.seg <= off /\ c.seg # off
    <3>1. \A c \in stored : c.seg <= c.offset /\ c.offset < off
      BY Zenon, <1>0, AppendingFacts DEF IInv, Layout
    <3> QED
      BY <3>1, <1>ty DEF NatTypes
  <2>4. orig.size[off] <= 0 /\ 0 \in Nat /\ off <= off
    <3>1. ~(orig.size[off] > 0)
      BY Zenon, <1>0, <1>ty, <2>3 DEF NatTypes, IInv, Snapshot, Durable
    <3> QED
      BY <3>1, <1>ty DEF NatTypes
  <2> QED
    BY Zenon, <1>ty, <2>1, <2>2, <2>3, <2>4 DEF NatTypes
<1>2. CASE ~RollDue(RecordBytes[Head(vals)])
  <2>1. WriteBase = base /\ WritePos = cur
    BY Zenon, <1>2 DEF WriteBase, WritePos
  <2>2. base <= base
    BY <1>ty DEF NatTypes
  <2> QED
    BY Zenon, <1>ty, <1>0, <2>1, <2>2 DEF NatTypes, IInv, Staging, Snapshot
<1> QED
  BY Zenon, <1>1, <1>2

\* append_batch writes one record, into the open segment or a new one.
LEMMA WriteRecordStep ==
    ASSUME IInv, NEW spill \in BOOLEAN, WriteRecord(spill)
    PROVE  IInv'
<1>ty. NatTypes
  BY Zenon, Types DEF IInv
<1>0. Appending /\ op = "append" /\ op # "batch" /\ vals # <<>>
  BY Zenon DEF WriteRecord, Appending
<1>1. PICK w, p, n, v : /\ w = WriteBase /\ p = WritePos /\ n = RecordBytes[Head(vals)]
                        /\ v = Head(vals)
  BY Zenon
<1>2. PICK new, T :
         /\ new = [offset |-> off, seg |-> w, pos |-> p, len |-> n, ri |-> 0, val |-> v]
         /\ T = (OpenChunk \ {w}) \cup ({w} \ (IF spill THEN {} ELSE files))
  BY Zenon
<1>3. /\ files' = files \cup {w} /\ mtime' = Touch(T) /\ stored' = stored \cup {new}
      /\ size' = [size EXCEPT ![w] = p + n] /\ staged' = staged \cup {new}
      /\ base' = w /\ cur' = p + n /\ vals' = Tail(vals) /\ off' = off + 1
  BY Zenon, <1>1, <1>2 DEF WriteRecord
<1>4. /\ torn' = torn /\ up' = up /\ index' = index /\ next' = next /\ op' = op /\ bytes' = bytes
      /\ orig' = orig /\ todo' = todo /\ deleted' = deleted /\ total' = total /\ now' = now
      /\ acked' = acked /\ trimmed' = trimmed /\ lost' = lost /\ orphans' = orphans
      /\ began' = began
  BY Zenon DEF WriteRecord, memVars, retainVars, histVars
<1>5. /\ v \in Value /\ n \in Nat /\ n > 0
      /\ Tail(vals) \in Seq(Value) /\ Len(Tail(vals)) = Len(vals) - 1
      /\ Len(vals) \in Nat /\ Len(vals) > 0 /\ off < MaxOffset
  <2>1. vals \in Seq(Value) /\ vals # <<>>
    BY Zenon, <1>0 DEF IInv, TypeOK
  <2>2. /\ Head(vals) \in Value /\ Tail(vals) \in Seq(Value) /\ Len(vals) \in Nat
        /\ Len(vals) > 0 /\ Len(Tail(vals)) = Len(vals) - 1
    BY <2>1
  <2>3. n \in Nat /\ n > 0
    BY <1>1, <2>2, ConstantsAssumption
  <2>4. off + Len(vals) <= MaxOffset
    BY Zenon, <1>0 DEF IInv, Staging
  <2>5. off < MaxOffset
    BY <1>ty, <2>2, <2>4 DEF NatTypes
  <2> QED
    BY Zenon, <1>1, <2>2, <2>3, <2>5
<1>6. /\ w \in Offset /\ p \in Nat
      /\ base <= w /\ w <= off /\ (w = base \/ w = off)
      /\ \A c \in stored : c.seg <= w /\ (c.seg = w => c.pos + c.len <= p)
      /\ orig.size[w] <= p
  BY Zenon, <1>0, <1>1, RecordTarget
<1>7. /\ off' \in Offset /\ off <= off' /\ off < off' /\ off <= off /\ 0 \in Nat
      /\ \A o \in Offset : off <= o /\ o < off' => o = off
      /\ off' + Len(vals') = off + Len(vals)
  <2>1. off' = off + 1 /\ Len(vals') = Len(vals) - 1
    BY Zenon, <1>3, <1>5
  <2>2. off \in Nat /\ MaxOffset \in Nat
    BY Zenon, <1>ty DEF NatTypes
  <2> QED
    BY <1>5, <2>1, <2>2 DEF Offset
<1>8. Entry({new}, w, p, n)
  <2>1. new \in Cell
    BY Zenon, <1>2, <1>5, <1>6, <1>7, <1>ty DEF NatTypes, Cell
  <2>2. new.seg = w /\ new.pos = p /\ new.len = n /\ new.offset = off
    BY Zenon, <1>2
  <2> QED
    BY Zenon, <1>5, <1>6, <1>7, <2>1, <2>2 DEF Entry
<1>9. /\ \A c \in {new} : c.offset < off'
      /\ \A o \in Offset : off <= o /\ o < off' => \E c \in {new} : c.offset = o
      /\ OpenChunk \ {w} \subseteq T /\ T \subseteq OpenChunk \cup {w}
      /\ vals' \in Seq(Value)
  <2>1. new.offset = off
    BY Zenon, <1>2
  <2>2. OpenChunk \ {w} \subseteq T /\ T \subseteq OpenChunk \cup {w}
    BY Zenon, <1>2
  <2>3. vals' \in Seq(Value)
    BY Zenon, <1>3, <1>5
  <2> QED
    BY Zenon, <1>7, <2>1, <2>2, <2>3
<1> QED
  BY Zenon, <1>0, <1>3, <1>4, <1>7, <1>8, <1>9, EntryWritten

\* append_encoded_batch writes its physical batch.
LEMMA WriteBatchStep ==
    ASSUME IInv, WriteBatch
    PROVE  IInv'
<1>ty. NatTypes
  BY Zenon, Types DEF IInv
<1>0. Appending /\ op = "batch" /\ vals # <<>> /\ staged = {} /\ bytes \in Nat /\ bytes > 0
  BY Zenon DEF WriteBatch, Appending, IInv, Staging, TypeOK
<1>1. PICK T, N : T = {base} \ files /\ N = BatchCells
  BY Zenon
<1>2. /\ Len(vals) \in Nat /\ Len(vals) > 0 /\ off + Len(vals) <= MaxOffset
      /\ \A k \in 0 .. Len(vals) - 1 : vals[k + 1] \in Value
  <2>1. vals \in Seq(Value)
    BY Zenon DEF IInv, TypeOK
  <2>2. Len(vals) \in Nat /\ Len(vals) > 0 /\ \A k \in 1 .. Len(vals) : vals[k] \in Value
    BY <1>0, <2>1, SMTT(60)
  <2>3. \A k \in 0 .. Len(vals) - 1 : k + 1 \in 1 .. Len(vals)
    BY <2>2, SMTT(60)
  <2> QED
    BY <1>0, <2>2, <2>3, Zenon DEF IInv, Staging
<1>3. /\ files' = files \cup {base} /\ stored' = stored \cup N
      /\ staged' = staged \cup N /\ size' = [size EXCEPT ![base] = cur + bytes]
      /\ mtime' = Touch(T) /\ cur' = cur + bytes /\ base' = base
      /\ vals' = <<>> /\ off' = off + Len(vals)
  BY Zenon, <1>0, <1>1 DEF WriteBatch
<1>4. /\ torn' = torn /\ up' = up /\ index' = index /\ next' = next /\ op' = op /\ bytes' = bytes
      /\ orig' = orig /\ todo' = todo /\ deleted' = deleted /\ total' = total /\ now' = now
      /\ acked' = acked /\ trimmed' = trimmed /\ lost' = lost /\ orphans' = orphans
      /\ began' = began
  BY Zenon DEF WriteBatch, memVars, retainVars, histVars
<1>5. /\ base \in Offset /\ cur \in Nat /\ base <= base /\ base <= off /\ 0 \in Nat
      /\ \A c \in stored : c.seg <= base /\ (c.seg = base => c.pos + c.len <= cur)
      /\ orig.size[base] <= cur
  <2>1. base <= base
    BY <1>ty DEF NatTypes
  <2> QED
    BY Zenon, <2>1, <1>0, <1>ty DEF NatTypes, IInv, Staging, Snapshot
<1>6. \A c \in N : /\ c \in Cell /\ off <= c.offset /\ c.offset < off + Len(vals)
                   /\ c.seg = base /\ c.pos = cur /\ c.len = bytes
  <2> SUFFICES ASSUME NEW k \in 0 .. Len(vals) - 1,
                      NEW c, c = [offset |-> off + k, seg |-> base, pos |-> cur, len |-> bytes,
                                  ri |-> k, val |-> vals[k + 1]]
               PROVE  /\ c \in Cell /\ off <= c.offset /\ c.offset < off + Len(vals)
                      /\ c.seg = base /\ c.pos = cur /\ c.len = bytes
    BY Zenon, <1>1 DEF BatchCells
  <2>1. off + k \in Offset /\ off <= off + k /\ off + k < off + Len(vals) /\ k \in Nat
    BY <1>2, <1>ty DEF NatTypes, Offset
  <2>2. c.offset = off + k /\ c.seg = base /\ c.pos = cur /\ c.len = bytes
    BY Zenon
  <2>3. c \in Cell
    BY <2>1, <1>0, <1>2, <1>5, Zenon DEF Cell
  <2> QED
    BY <2>1, <2>2, <2>3, Zenon
<1>7. \A c, d \in N : c.offset = d.offset => c = d
  BY <1>1, <1>2, <1>ty, SMTT(60) DEF BatchCells, NatTypes
<1>8. ASSUME NEW o \in Nat, off <= o, o < off + Len(vals)
      PROVE  \E c \in N : c.offset = o
  <2>1. PICK k \in 0 .. Len(vals) - 1 : off + k = o
    <3>1. o - off \in 0 .. Len(vals) - 1 /\ off + (o - off) = o
      BY <1>8, <1>2, <1>ty DEF NatTypes
    <3> QED
      BY Zenon, <3>1
  <2>2. PICK x : x = [offset |-> off + k, seg |-> base, pos |-> cur, len |-> bytes,
                      ri |-> k, val |-> vals[k + 1]]
    BY Zenon
  <2>3. x \in N
    BY Zenon, <1>1, <2>2 DEF BatchCells
  <2> QED
    BY Zenon, <2>1, <2>2, <2>3
<1>9. Entry(N, base, cur, bytes)
  <2>1. off \in Nat /\ off <= off /\ off < off + Len(vals)
    BY <1>2, <1>ty DEF NatTypes
  <2>2. N # {}
    BY Zenon, <1>8, <2>1
  <2> QED
    BY Zenon, <1>0, <1>5, <1>6, <1>7, <2>2 DEF Entry
<1>10. /\ off' \in Offset /\ off <= off'
       /\ vals' \in Seq(Value) /\ off' + Len(vals') = off + Len(vals)
  BY <1>2, <1>3, <1>ty DEF NatTypes, Offset
<1>11. /\ \A c \in N : c.offset < off'
       /\ \A o \in Offset : off <= o /\ o < off' => \E c \in N : c.offset = o
       /\ OpenChunk \ {base} \subseteq T /\ T \subseteq OpenChunk \cup {base}
  BY Zenon, <1>0, <1>1, <1>3, <1>6, <1>8, <1>ty DEF NatTypes, OpenChunk
<1> QED
  BY Zenon, <1>0, <1>3, <1>4, <1>9, <1>10, <1>11, EntryWritten

\* A step that only creates files keeps Layout.
LEMMA LayoutGrown ==
    ASSUME Layout, files \subseteq files', size' = size, stored' = stored
    PROVE  Layout'
BY Zenon DEF Layout, RecordsDisjoint, Ordered

\* What a write in progress may leave behind lies at or after every record.
LEMMA LeftBehindLast ==
    ASSUME IInv, Appending, NEW how
    PROVE  /\ WriteTarget \in Offset
           /\ \A c \in stored : c.seg <= WriteTarget
           /\ OpenChunk \cup LeftBehind(how) \subseteq Offset
           /\ \A c \in stored, f \in OpenChunk \cup LeftBehind(how) : c.seg <= f
<1>ty. NatTypes
  BY Zenon, Types DEF IInv
<1>1. base \in Offset /\ \A c \in stored : c.seg <= base
  BY Zenon, <1>ty DEF NatTypes, IInv, Staging
<1>2. WriteTarget \in Offset /\ \A c \in stored : c.seg <= WriteTarget
  <2>1. CASE op = "append"
    BY Zenon, <2>1, RecordTarget DEF WriteTarget
  <2>2. CASE op # "append"
    BY Zenon, <1>1, <2>2 DEF WriteTarget
  <2> QED
    BY Zenon, <2>1, <2>2
<1>3. \A f \in OpenChunk \cup LeftBehind(how) : f = base \/ f = WriteTarget
  BY Zenon DEF OpenChunk, LeftBehind
<1> QED
  BY Zenon, <1>1, <1>2, <1>3

\* After the writes of a failed or interrupted append, file times follow the
\* segments.
LEMMA ChunkAged ==
    ASSUME IInv, Appending, NEW T, OpenChunk \subseteq T, T \subseteq Offset,
           \A c \in stored, f \in T : c.seg <= f,
           mtime' = Touch(T), lost = {}
    PROVE  Aged(stored, mtime')
<1>ty. NatTypes
  BY Zenon, Types DEF IInv
<1>1. \A c \in stored : c.seg \in Offset
  BY Zenon, <1>ty DEF NatTypes
<1>2. Aged({c \in stored : c.seg \notin OpenChunk}, mtime)
  BY Zenon, AppendingFacts DEF IInv, Times
<1>3. Aged({c \in stored : c.seg \notin T}, mtime)
  BY Zenon, <1>2 DEF Aged
<1>4. \A f \in Offset : mtime[f] <= now
  BY Zenon DEF IInv, Times
<1> QED
  BY Zenon, <1>1, <1>3, <1>4, TouchAged DEF IInv

\* append_batch fails: its records are still on disk, the segments to undo are
\* those the invariant asks for.
LEMMA FailAppendStep ==
    ASSUME IInv, NEW how, FailAppend(how)
    PROVE  IInv'
<1>ty. NatTypes
  BY Zenon, Types DEF IInv
<1>1. /\ op = "append" /\ Appending /\ op' = "undo" /\ ~Appending' /\ op' # "retain" /\ op' # "idle"
      /\ op' # "append" /\ op' # "batch"
  BY Zenon DEF FailAppend, Appending
<1>2. PICK T, L : T = OpenChunk \cup LeftBehind(how) /\ L = LeftBehind(how)
  BY Zenon
<1>3. /\ files' = files \cup L /\ mtime' = Touch(T)
      /\ todo' = (files' \ orig.files) \cup torn' \cup {c.seg : c \in staged}
      /\ vals' = <<>> /\ base' = 0 /\ cur' = 0
  BY Zenon, <1>2 DEF FailAppend
<1>4. /\ size' = size /\ stored' = stored /\ up' = up /\ index' = index /\ next' = next
      /\ bytes' = bytes /\ off' = off /\ staged' = staged /\ orig' = orig /\ deleted' = deleted
      /\ total' = total /\ now' = now /\ acked' = acked /\ trimmed' = trimmed /\ lost' = lost
      /\ orphans' = orphans /\ began' = began
  BY Zenon DEF FailAppend, memVars, histVars
<1>5. torn' \subseteq L /\ L \subseteq {WriteTarget}
  <2>1. CASE how = "torn"
    BY Zenon, <1>2, <2>1 DEF FailAppend, LeftBehind
  <2>2. CASE how # "torn"
    BY Zenon, <1>2, <2>2 DEF FailAppend, LeftBehind
  <2> QED
    BY Zenon, <2>1, <2>2
<1>6. /\ WriteTarget \in Offset /\ T \subseteq Offset /\ OpenChunk \subseteq T
      /\ \A c \in stored : c.seg <= WriteTarget
      /\ \A c \in stored, f \in T : c.seg <= f
  BY Zenon, <1>1, <1>2, LeftBehindLast
<1>7. up /\ deleted = {}
  BY Zenon, <1>1, AppendingFacts
<1>d. Durable' = Durable /\ Durable \subseteq stored
  BY Zenon, <1>4 DEF Durable
<1>t. TypeOK'
  <2>1. mtime' \in [Offset -> 0 .. MaxTime]
    BY Zenon, <1>3, TouchType DEF IInv
  <2>2. files' \subseteq Offset /\ torn' \subseteq Offset
    BY Zenon, <1>3, <1>5, <1>6, <1>ty DEF NatTypes
  <2>3. todo' \subseteq Offset
    BY Zenon, <1>3, <2>2, <1>ty DEF NatTypes
  <2>4. 0 \in Offset /\ 0 \in Nat /\ <<>> \in Seq(Value)
    BY ConstantsAssumption DEF Offset
  <2>5. op' \in {"idle", "append", "undo", "batch", "retain"}
    BY Zenon, <1>1
  <2> QED
    BY ZenonT(60), <1>3, <1>4, <2>1, <2>2, <2>3, <2>4, <2>5 DEF IInv, TypeOK
<1>l. Layout'
  BY Zenon, <1>3, <1>4, LayoutGrown DEF IInv
<1>i. Indexed'
  BY Zenon, <1>d, <1>4, IndexedKept DEF IInv, Indexed
<1>c. Closed'
  BY Zenon, <1>1, <1>3, <1>4, <1>5, <1>6, <1>7 DEF Closed
<1>s. Staging'
  BY Zenon, <1>1, <1>3, <1>4 DEF IInv, Staging
<1>m. Snapshot'
  <2>1. off <= next + MaxBatch
    <3>1. off + Len(vals) <= next + MaxBatch /\ vals \in Seq(Value)
      BY Zenon, <1>1 DEF IInv, Staging, TypeOK
    <3>2. Len(vals) \in Nat
      BY <3>1
    <3> QED
      BY <3>1, <3>2, <1>ty, ConstantsAssumption DEF NatTypes
  <2> QED
    BY Zenon, <1>1, <1>3, <1>4, <1>d, <2>1 DEF IInv, Snapshot
<1>h. Accounted' /\ History' /\ DurableTimes'
  <2>1. \A c \in Durable : c.seg \in files' /\ \A f \in T : c.seg <= f
    BY Zenon, <1>3, <1>6, <1>d DEF IInv, Layout
  <2> QED
    BY Zenon, <1>3, <1>4, <1>6, <1>d, <2>1, DurableKept
<1>g. Times'
  <2>1. OpenChunk' = {}
    BY Zenon, <1>1 DEF OpenChunk
  <2>2. {c \in stored' : c.seg \notin OpenChunk'} = stored
    BY Zenon, <2>1, <1>4
  <2>3. lost = {} => Aged(stored, mtime')
    BY Zenon, <1>1, <1>3, <1>6, ChunkAged
  <2> QED
    BY Zenon, <1>4, <1>h, <2>2, <2>3 DEF DurableTimes, Times
<1>r. Retaining'
  BY Zenon, <1>1, <1>4, <1>7 DEF Retaining
<1> QED
  BY <1>t, <1>l, <1>i, <1>c, <1>s, <1>m, <1>h, <1>g, <1>r, Zenon DEF IInv

\* Segment b goes back to its length before the append: its new records leave
\* the disk, the published ones stay.
LEMMA SegmentCut ==
    ASSUME IInv, Appending \/ op = "undo", NEW b \in Offset,
           stored' = {c \in stored : c.seg = b => c.pos < orig.size[b]},
           size' = [size EXCEPT ![b] = orig.size[b]],
           staged' = {c \in staged : c.seg # b},
           files' \subseteq files, files \ {b} \subseteq files',
           b \notin files' => orig.size[b] = 0
    PROVE  /\ Layout' /\ Durable' = Durable /\ staged' \subseteq stored'
           /\ stored' \subseteq stored /\ Durable \subseteq stored'
<1>ty. NatTypes
  BY Zenon, Types DEF IInv
<1>d. \A c \in Durable : c \in stored /\ c \notin staged
  BY Zenon DEF Durable
<1>1. \A c \in Durable : c.pos + c.len <= orig.size[c.seg] /\ c.pos < orig.size[c.seg]
  <2>1. \A c \in Durable : c.pos + c.len <= orig.size[c.seg] /\ c.len > 0
    BY Zenon, <1>d DEF IInv, Snapshot, Layout
  <2>2. \A c \in Durable : c.pos \in Nat /\ c.len \in Nat /\ orig.size[c.seg] \in Nat
    BY Zenon, <1>d, <1>ty DEF NatTypes
  <2>3. \A p, l, s \in Nat : p + l <= s /\ l > 0 => p < s
    OBVIOUS
  <2> QED
    BY Zenon, <2>1, <2>2, <2>3
<1>2. \A c \in staged : c \in stored /\ (c.seg = b => ~(c.pos < orig.size[b]))
  <2>1. \A c \in staged : c \in stored /\ orig.size[c.seg] <= c.pos
    BY Zenon DEF IInv, Snapshot, Staging
  <2>2. \A x, y \in Nat : x <= y => ~(y < x)
    OBVIOUS
  <2> QED
    BY Zenon, <2>1, <2>2, <1>ty DEF NatTypes
<1>3. Durable \subseteq stored' /\ stored' \subseteq stored /\ staged' \subseteq stored'
  BY Zenon, <1>1, <1>2, <1>d
<1>4. Durable' = Durable
  <2>1. Durable' \subseteq Durable
    BY Zenon, <1>2, <1>3 DEF Durable
  <2>2. Durable \subseteq Durable'
    BY Zenon, <1>3, <1>d DEF Durable
  <2> QED
    BY Zenon, <2>1, <2>2
<1>5. \A c \in stored' : c \in stored /\ (c.seg = b => c \in Durable)
  BY Zenon, <1>2, <1>3 DEF Durable
<1>s. /\ \A f \in Offset : f # b => size'[f] = size[f]
      /\ size'[b] = orig.size[b]
  BY Zenon DEF IInv, TypeOK
<1>6. \A c \in stored' : /\ c.seg \in files' /\ c.seg <= c.offset /\ c.offset < MaxOffset
                         /\ c.len > 0 /\ c.pos + c.len <= size'[c.seg]
  <2> SUFFICES ASSUME NEW c \in stored'
               PROVE  c.seg \in files' /\ c.pos + c.len <= size'[c.seg]
    BY Zenon, <1>3 DEF IInv, Layout
  <2>1. c \in stored /\ c.seg \in Offset /\ c.seg \in files /\ c.pos + c.len <= size[c.seg]
    BY Zenon, <1>3, <1>ty DEF NatTypes, IInv, Layout
  <2>2. CASE c.seg # b
    <3>1. size'[c.seg] = size[c.seg]
      BY Zenon, <1>s, <2>1, <2>2
    <3> QED
      BY Zenon, <2>1, <2>2, <3>1
  <2>3. CASE c.seg = b
    <3>1. c.pos + c.len <= orig.size[c.seg] /\ c.pos < orig.size[c.seg]
      BY Zenon, <1>1, <1>5, <2>3
    <3>2. size'[c.seg] = orig.size[c.seg]
      BY Zenon, <1>s, <2>3
    <3>3. orig.size[c.seg] # 0
      BY <3>1, <2>1, <1>ty DEF NatTypes
    <3> QED
      BY Zenon, <2>3, <3>1, <3>2, <3>3
  <2> QED
    BY Zenon, <2>2, <2>3
<1>7. \A f \in Offset : size'[f] > 0 => \E c \in stored' : c.seg = f
  <2> SUFFICES ASSUME NEW f \in Offset, size'[f] > 0
               PROVE  \E c \in stored' : c.seg = f
    BY Zenon
  <2>1. CASE f = b
    <3>1. orig.size[b] > 0
      BY Zenon, <1>s, <2>1
    <3>2. \E c \in Durable : c.seg = b
      BY Zenon, <3>1 DEF IInv, Snapshot
    <3> QED
      BY Zenon, <1>3, <2>1, <3>2
  <2>2. CASE f # b
    <3>1. size[f] > 0
      BY Zenon, <1>s, <2>2
    <3>2. PICK c \in stored : c.seg = f
      BY Zenon, <3>1 DEF IInv, Layout
    <3> QED
      BY Zenon, <2>2, <3>2
  <2> QED
    BY Zenon, <2>1, <2>2
<1>8. RecordsDisjoint'
  BY Zenon, <1>3, <1>6 DEF IInv, Layout, RecordsDisjoint
<1>9. Ordered(stored')
  BY Zenon, <1>3, OrderedSubset DEF IInv, Layout
<1> QED
  BY Zenon, <1>3, <1>4, <1>6, <1>7, <1>8, <1>9 DEF Layout

\* What a roll-back has still to visit.
LEMMA UndoTodo ==
    ASSUME IInv, op = "undo"
    PROVE  /\ \A b \in todo : \/ b \in files /\ b \notin orig.files
                            \/ b \in torn
                            \/ \E c \in staged : c.seg = b
           /\ torn \subseteq todo
           /\ \A c \in staged : c.seg \in todo
<1>1. todo = (files \ orig.files) \cup torn \cup {c.seg : c \in staged}
  BY Zenon DEF IInv, Snapshot
<1> QED
  BY ONLY <1>1, Zenon

\* The roll-back takes the oldest segment first: when it removes a record of the
\* append and a later one stays, that leaves a hole.
LEMMA UndoHoles ==
    ASSUME IInv, op = "undo", NEW b \in todo, IsFirst(b, todo),
           staged' = {c \in staged : c.seg # b}, staged' # {}, Holes' = {},
           next' = next, off' = off
    PROVE  Holes = {} /\ b \notin torn /\ \A c \in staged : c.seg # b
<1>ty. NatTypes
  BY Zenon, Types DEF IInv
<1>1. PICK d \in staged : d.seg # b
  BY Zenon
<1>2. \A c \in staged : c \in stored /\ next <= c.offset /\ c.offset < off
  BY Zenon DEF IInv, Staging
<1>3. b < d.seg /\ d.seg \in Nat /\ b \in Nat
  <2>1. d.seg \in todo
    BY Zenon DEF IInv, Snapshot
  <2>2. b <= d.seg
    BY Zenon, <2>1 DEF IsFirst
  <2>3. d.seg \in Nat /\ b \in Nat
    BY Zenon, <2>1, <1>ty DEF NatTypes
  <2> QED
    BY <1>1, <2>2, <2>3
<1>4. \A c \in staged : c.seg = b => c.offset < d.offset
  BY Zenon, <1>2, <1>3 DEF IInv, Layout, Ordered
<1>5. b \notin torn
  <2>1. b \in torn => d.seg <= b
    BY Zenon, <1>2 DEF IInv, Closed
  <2> QED
    BY <2>1, <1>3
<1>6. \A c \in staged : c.offset \in next .. off - 1
  BY <1>2, <1>ty DEF NatTypes
<1>7. Holes' = {o \in next .. off - 1 : /\ \A c \in staged' : c.offset # o
                                        /\ \E c \in staged' : o < c.offset}
  BY Zenon DEF Holes
<1>8. \A c \in staged : c.seg # b
  <2> SUFFICES ASSUME NEW c \in staged, c.seg = b PROVE FALSE
    BY Zenon
  <2>1. \A a \in staged : a.offset = c.offset => a = c
    BY Zenon, <1>2 DEF IInv, Layout, Ordered
  <2>2. \A a \in staged' : a.offset # c.offset
    BY Zenon, <2>1
  <2>3. c.offset < d.offset /\ d \in staged'
    BY Zenon, <1>1, <1>4
  <2> QED
    BY Zenon, <1>6, <1>7, <2>2, <2>3
<1>9. staged' = staged
  BY Zenon, <1>8
<1> QED
  BY Zenon, <1>5, <1>7, <1>8, <1>9 DEF Holes

\* The roll-back removes or cuts one segment.
LEMMA UndoSegmentStep ==
    ASSUME IInv, NEW b \in todo, UndoSegment(b)
    PROVE  IInv'
<1>ty. NatTypes
  BY Zenon, Types DEF IInv
<1>1. /\ op = "undo" /\ op' = "undo" /\ ~Appending /\ ~Appending' /\ op' # "retain" /\ op' # "idle"
      /\ op' # "append" /\ op' # "batch" /\ IsFirst(b, todo) /\ b \in Offset
  BY Zenon, <1>ty DEF UndoSegment, Appending, NatTypes
<1>2. PICK T : T = {b} \cap orig.files
  BY Zenon
<1>3. /\ staged' = {c \in staged : c.seg # b} /\ files' = files \ ({b} \ orig.files)
      /\ mtime' = Touch(T) /\ torn' = torn \ {b} /\ todo' = todo \ {b}
  BY Zenon, <1>2 DEF UndoSegment
<1>4. /\ up' = up /\ index' = index /\ next' = next /\ vals' = vals /\ base' = base /\ cur' = cur
      /\ bytes' = bytes /\ off' = off /\ orig' = orig /\ deleted' = deleted
      /\ total' = total /\ now' = now /\ acked' = acked /\ trimmed' = trimmed /\ lost' = lost
      /\ orphans' = orphans /\ began' = began
  BY Zenon DEF UndoSegment, memVars, histVars
<1>5. b \notin orig.files => orig.size[b] = 0
  <2>1. orig.size[b] > 0 => b \in orig.files
    BY Zenon, <1>1 DEF IInv, Snapshot
  <2> QED
    BY <1>1, <1>ty, <2>1 DEF NatTypes
<1>6. /\ stored' = {c \in stored : c.seg = b => c.pos < orig.size[b]}
      /\ size' = [size EXCEPT ![b] = orig.size[b]]
  <2>1. \A x \in Nat : ~(x < 0)
    OBVIOUS
  <2>2. \A c \in stored : c.pos < orig.size[b] => b \in orig.files
    BY Zenon, <1>5, <2>1, <1>ty DEF NatTypes
  <2>3. stored' = {c \in stored : c.seg = b => b \in orig.files /\ c.pos < orig.size[b]}
    BY Zenon DEF UndoSegment
  <2>4. size' = [size EXCEPT ![b] = IF b \in orig.files THEN orig.size[b] ELSE 0]
    BY Zenon DEF UndoSegment
  <2>5. (IF b \in orig.files THEN orig.size[b] ELSE 0) = orig.size[b]
    BY Zenon, <1>5
  <2> QED
    BY Zenon, <2>2, <2>3, <2>4, <2>5
<1>7. /\ Layout' /\ Durable' = Durable /\ staged' \subseteq stored'
      /\ stored' \subseteq stored /\ Durable \subseteq stored'
  <2>1. files' \subseteq files /\ files \ {b} \subseteq files'
    BY Zenon, <1>3
  <2>2. b \notin files' => orig.size[b] = 0
    <3>1. orig.files \subseteq files
      BY Zenon, <1>1 DEF IInv, Snapshot
    <3> QED
      BY Zenon, <1>3, <1>5, <3>1
  <2> QED
    BY Zenon, <1>1, <1>3, <1>6, <2>1, <2>2, SegmentCut
<1>8. up /\ deleted = {}
  BY Zenon, <1>1 DEF IInv, Closed, Retaining
<1>9. \A c \in Durable : c.seg <= b \/ b \notin T
  <2>1. b \in T => b \in torn \/ \E d \in staged : d.seg = b
    BY Zenon, <1>1, <1>2, UndoTodo
  <2>2. Durable \subseteq stored /\ \A c \in Durable, d \in staged : c.seg <= d.seg
    BY Zenon, <1>8, DurableFirst
  <2> QED
    BY Zenon, <2>1, <2>2 DEF IInv, Closed
<1>t. TypeOK'
  <2>1. mtime' \in [Offset -> 0 .. MaxTime]
    BY Zenon, <1>3, TouchType DEF IInv
  <2>2. size' \in [Offset -> Nat]
    BY Zenon, <1>1, <1>6, <1>ty DEF NatTypes, IInv, TypeOK
  <2>3. /\ files' \subseteq Offset /\ torn' \subseteq Offset /\ todo' \subseteq Offset
        /\ stored' \subseteq Cell /\ staged' \subseteq Cell
    BY Zenon, <1>3, <1>7 DEF IInv, TypeOK
  <2> QED
    BY ZenonT(60), <1>1, <1>4, <2>1, <2>2, <2>3 DEF IInv, TypeOK
<1>i. Indexed'
  BY Zenon, <1>4, <1>7, IndexedKept DEF IInv, Indexed
<1>c. Closed'
  BY Zenon, <1>1, <1>3, <1>4, <1>7, <1>8 DEF IInv, Closed
<1>s. Staging'
  BY Zenon, <1>1, <1>3, <1>4, <1>7 DEF IInv, Staging
<1>m. Snapshot'
  <2>1. todo = (files \ orig.files) \cup torn \cup {c.seg : c \in staged}
    BY Zenon, <1>1 DEF IInv, Snapshot
  <2>2. todo' = (files' \ orig'.files) \cup torn' \cup {c.seg : c \in staged'}
    BY Zenon, <1>3, <1>4, <2>1
  <2>3. orig.files \subseteq files'
    BY Zenon, <1>1, <1>3 DEF IInv, Snapshot
  <2> QED
    BY Zenon, <1>1, <1>3, <1>4, <1>7, <2>2, <2>3 DEF IInv, Snapshot
<1>h. Accounted' /\ History' /\ DurableTimes'
  <2>1. T \subseteq Offset
    BY Zenon, <1>1, <1>2
  <2>2. \A c \in Durable : c.seg \in files' /\ \A f \in T : c.seg <= f
    BY Zenon, <1>2, <1>7, <1>9 DEF Layout
  <2> QED
    BY Zenon, <1>3, <1>4, <1>7, <2>1, <2>2, DurableKept
<1>g. Times'
  <2>1. {c \in stored' : c.seg \notin OpenChunk'} = stored'
    BY Zenon, <1>1 DEF OpenChunk
  <2>2. ASSUME lost = {}, Holes' = {} PROVE Aged(stored', mtime')
    <3>1. CASE staged' = {}
      <4>1. Durable' = stored'
        BY Zenon, <3>1 DEF Durable
      <4> QED
        BY Zenon, <2>2, <1>4, <1>h, <4>1 DEF DurableTimes
    <3>2. CASE staged' # {}
      <4>1. Holes = {} /\ b \notin torn /\ \A c \in staged : c.seg # b
        BY Zenon, <1>1, <1>3, <1>4, <2>2, <3>2, UndoHoles
      <4>2. T = {}
        BY Zenon, <1>1, <1>2, <4>1, UndoTodo
      <4>3. mtime' = mtime
        BY Zenon, <1>3, <4>2, TouchNone DEF IInv
      <4>4. Aged({c \in stored : c.seg \notin OpenChunk}, mtime)
        BY Zenon, <2>2, <4>1 DEF IInv, Times
      <4>5. stored' \subseteq {c \in stored : c.seg \notin OpenChunk}
        BY Zenon, <1>1, <1>7 DEF OpenChunk
      <4> QED
        BY Zenon, <4>3, <4>4, <4>5 DEF Aged
    <3> QED
      BY Zenon, <3>1, <3>2
  <2> QED
    BY Zenon, <1>4, <1>h, <2>1, <2>2 DEF DurableTimes, Times
<1>r. Retaining'
  BY Zenon, <1>1, <1>4, <1>8 DEF Retaining
<1> QED
  BY <1>t, <1>7, <1>i, <1>c, <1>s, <1>m, <1>h, <1>g, <1>r, Zenon DEF IInv

\* The variables of an append that has ended.
LEMMA NoAppendTypes ==
    ASSUME NoAppend, op' = "idle"
    PROVE  /\ vals' \in Seq(Value) /\ bytes' \in Nat /\ off' \in Offset
           /\ base' \in Offset /\ cur' \in Nat /\ staged' \subseteq Cell
           /\ orig' \in [files : SUBSET Offset, size : [Offset -> Nat]]
           /\ op' \in {"idle", "append", "undo", "batch", "retain"}
           /\ Staging' /\ Snapshot'
<1>1. 0 \in Offset /\ 0 \in Nat /\ <<>> \in Seq(Value)
  BY ConstantsAssumption DEF Offset
<1>2. NoFiles \in [files : SUBSET Offset, size : [Offset -> Nat]]
  BY Zenon, <1>1 DEF NoFiles
<1>3. ~Appending' /\ op' # "undo" /\ op' # "batch"
  BY Zenon DEF Appending
<1>4. Staging' /\ Snapshot'
  BY Zenon, <1>3 DEF NoAppend, Staging, Snapshot
<1> QED
  BY Zenon, <1>1, <1>2, <1>4 DEF NoAppend

\* The roll-back is over: nothing of the append is left on disk.
LEMMA EndUndoStep ==
    ASSUME IInv, EndUndo
    PROVE  IInv'
<1>1. op = "undo" /\ op' = "idle" /\ op' # "retain" /\ todo = {} /\ NoAppend
  BY Zenon DEF EndUndo
<1>2. /\ files' = files /\ size' = size /\ mtime' = mtime /\ stored' = stored /\ torn' = torn
      /\ up' = up /\ index' = index /\ next' = next /\ todo' = todo /\ deleted' = deleted
      /\ total' = total /\ now' = now /\ acked' = acked /\ trimmed' = trimmed /\ lost' = lost
      /\ orphans' = orphans /\ began' = began
  BY Zenon DEF EndUndo, diskVars, memVars, retainVars, histVars
<1>3. staged = {} /\ torn = {} /\ staged' = {} /\ deleted = {} /\ up
  <2>1. staged = {} /\ torn = {}
    BY Zenon, <1>1, UndoTodo
  <2> QED
    BY Zenon, <1>1, <2>1 DEF IInv, Closed, Retaining, NoAppend
<1>d. Durable' = Durable /\ Durable = stored
  BY Zenon, <1>2, <1>3 DEF Durable
<1>n. /\ vals' \in Seq(Value) /\ bytes' \in Nat /\ off' \in Offset
      /\ base' \in Offset /\ cur' \in Nat /\ staged' \subseteq Cell
      /\ orig' \in [files : SUBSET Offset, size : [Offset -> Nat]]
      /\ op' \in {"idle", "append", "undo", "batch", "retain"}
      /\ Staging' /\ Snapshot'
  BY Zenon, <1>1, NoAppendTypes
<1>t. TypeOK'
  BY ZenonT(60), <1>2, <1>n DEF IInv, TypeOK
<1>l. Layout'
  BY Zenon, <1>2, LayoutKept DEF IInv
<1>i. Indexed'
  BY Zenon, <1>2, <1>d, IndexedKept DEF IInv, Indexed
<1>c. Closed'
  BY Zenon, <1>1, <1>2, <1>3 DEF IInv, Closed
<1>h. Accounted' /\ History' /\ DurableTimes'
  <2>1. \A c \in Durable : c.seg \in files'
    BY Zenon, <1>2, <1>d DEF IInv, Layout
  <2> QED
    BY Zenon, <1>2, <1>d, <2>1, DurableKeptQuiet
<1>g. Times'
  BY Zenon, <1>3, <1>h, RestTimes
<1>r. Retaining'
  BY Zenon, <1>1, <1>2, <1>3 DEF Retaining
<1> QED
  BY <1>t, <1>l, <1>i, <1>c, <1>n, <1>h, <1>g, <1>r, Zenon DEF IInv

\* append_encoded_batch fails: the segment goes back to its former length.
LEMMA FailBatchStep ==
    ASSUME IInv, NEW partial, FailBatch(partial)
    PROVE  IInv'
<1>ty. NatTypes
  BY Zenon, Types DEF IInv
<1>1. /\ op = "batch" /\ Appending /\ op' = "idle" /\ op' # "retain" /\ NoAppend /\ staged' = {}
      /\ base \in Offset
  BY Zenon, <1>ty DEF FailBatch, NoAppend, Appending, NatTypes
<1>2. PICK T : T = OpenChunk \cup (IF partial THEN {base} ELSE {})
  BY Zenon
<1>3. /\ files' = (IF orig.size[base] = 0 THEN files \ {base} ELSE files)
      /\ size' = [size EXCEPT ![base] = orig.size[base]]
      /\ stored' = {c \in stored : c.seg = base => c.pos < orig.size[base]}
      /\ mtime' = Touch(T)
  BY Zenon, <1>2 DEF FailBatch
<1>4. /\ torn' = torn /\ up' = up /\ index' = index /\ next' = next /\ todo' = todo
      /\ deleted' = deleted /\ total' = total /\ now' = now /\ acked' = acked
      /\ trimmed' = trimmed /\ lost' = lost /\ orphans' = orphans /\ began' = began
  BY Zenon DEF FailBatch, memVars, retainVars, histVars
<1>5. /\ up /\ torn = {} /\ todo = {} /\ deleted = {}
  BY Zenon, <1>1, AppendingFacts
<1>6. T \subseteq {base} /\ T \subseteq Offset /\ \A c \in stored, f \in T : c.seg <= f
  <2>1. T \subseteq {base}
    BY Zenon, <1>2 DEF OpenChunk
  <2> QED
    BY Zenon, <2>1, <1>1 DEF IInv, Staging
<1>7. /\ Layout' /\ Durable' = Durable /\ stored' \subseteq stored /\ Durable \subseteq stored'
  <2>1. staged' = {c \in staged : c.seg # base}
    BY Zenon, <1>1 DEF IInv, Staging
  <2>2. files' \subseteq files /\ files \ {base} \subseteq files'
    BY Zenon, <1>3
  <2>3. base \notin files' => orig.size[base] = 0
    <3>1. orig.size[base] > 0 => base \in orig.files /\ base \in files
      BY Zenon, <1>1 DEF IInv, Snapshot
    <3>2. orig.size[base] > 0 \/ orig.size[base] = 0
      BY <1>1, <1>ty DEF NatTypes
    <3> QED
      BY Zenon, <1>3, <3>1, <3>2
  <2> QED
    BY Zenon, <1>1, <1>3, <2>1, <2>2, <2>3, SegmentCut
<1>n. /\ vals' \in Seq(Value) /\ bytes' \in Nat /\ off' \in Offset
      /\ base' \in Offset /\ cur' \in Nat /\ staged' \subseteq Cell
      /\ orig' \in [files : SUBSET Offset, size : [Offset -> Nat]]
      /\ op' \in {"idle", "append", "undo", "batch", "retain"}
      /\ Staging' /\ Snapshot'
  BY Zenon, <1>1, NoAppendTypes
<1>t. TypeOK'
  <2>1. mtime' \in [Offset -> 0 .. MaxTime]
    BY Zenon, <1>3, TouchType DEF IInv
  <2>2. size' \in [Offset -> Nat]
    BY Zenon, <1>1, <1>3, <1>ty DEF NatTypes, IInv, TypeOK
  <2>3. files' \subseteq Offset /\ stored' \subseteq Cell
    BY Zenon, <1>3, <1>7 DEF IInv, TypeOK
  <2> QED
    BY ZenonT(60), <1>4, <1>n, <2>1, <2>2, <2>3 DEF IInv, TypeOK
<1>i. Indexed'
  BY Zenon, <1>4, <1>7, IndexedKept DEF IInv, Indexed
<1>c. Closed'
  BY Zenon, <1>1, <1>4, <1>5 DEF Closed
<1>h. Accounted' /\ History' /\ DurableTimes'
  <2>1. \A c \in Durable : c.seg \in files' /\ \A f \in T : c.seg <= f
    BY Zenon, <1>6, <1>7 DEF Layout
  <2> QED
    BY Zenon, <1>3, <1>4, <1>6, <1>7, <2>1, DurableKept
<1>g. Times'
  BY Zenon, <1>1, <1>h, RestTimes
<1>r. Retaining'
  BY Zenon, <1>1, <1>4, <1>5 DEF Retaining
<1> QED
  BY <1>t, <1>7, <1>i, <1>c, <1>n, <1>h, <1>g, <1>r, Zenon DEF IInv

\* The entries an append publishes come after those of index_.
LEMMA PublishedOrdered ==
    ASSUME IInv, Appending
    PROVE  Ordered(index \cup LocSet(staged))
<1>ty. NatTypes
  BY Zenon, Types DEF IInv
<1>f. up
  BY Zenon, AppendingFacts
<1>1. Ordered(index) /\ \A e \in index : e.offset < next
  BY Zenon DEF IInv, Indexed
<1>2. staged \subseteq stored /\ \A c \in staged : next <= c.offset
  BY Zenon DEF IInv, Staging
<1>3. Ordered(LocSet(staged))
  BY Zenon, <1>2, OrderedSubset, LocSetOrdered DEF IInv, Layout
<1>4. ASSUME NEW d \in index, NEW c \in staged
      PROVE  d.offset < c.offset /\ d.seg <= c.seg
  <2>1. d.offset < c.offset
    BY <1>1, <1>2, <1>ty DEF NatTypes
  <2>2. PICK a \in Durable : a.offset = next - 1 /\ a.seg = ActiveBase(index)
    BY Zenon, <1>f, <1>4, ActiveIsLast
  <2>3. PICK e \in index : e.offset = next - 1 /\ e.seg = a.seg
    BY Zenon, <1>f, <2>2, LocFields DEF IInv, Indexed
  <2>4. d.seg <= e.seg
    <3>1. e.seg < d.seg => e.offset < d.offset
      BY Zenon, <1>1 DEF Ordered
    <3> QED
      BY <1>1, <1>ty, <2>3, <3>1 DEF NatTypes
  <2>5. a.seg <= c.seg
    BY Zenon, <1>f, DurableFirst
  <2>6. d.seg \in Nat /\ e.seg \in Nat /\ c.seg \in Nat
    BY Zenon, <1>2, <1>ty DEF NatTypes
  <2>7. d.seg <= c.seg
    BY <2>3, <2>4, <2>5, <2>6
  <2> QED
    BY Zenon, <2>1, <2>7
<1>5. ASSUME NEW d \in index, NEW e \in LocSet(staged)
      PROVE  d.offset < e.offset /\ ~(e.offset < d.offset) /\ d.offset # e.offset /\ ~(e.seg < d.seg)
  <2>1. PICK c \in staged : e.offset = c.offset /\ e.seg = c.seg
    BY Zenon, LocSetFields
  <2>2. /\ d.offset \in Nat /\ e.offset \in Nat /\ d.seg \in Nat /\ e.seg \in Nat
    BY Zenon, <1>2, <2>1, <1>ty DEF NatTypes
  <2>3. d.offset < e.offset /\ d.seg <= e.seg
    BY Zenon, <1>4, <2>1
  <2> QED
    BY <2>2, <2>3
<1> SUFFICES ASSUME NEW d \in index \cup LocSet(staged), NEW e \in index \cup LocSet(staged)
             PROVE  /\ d.offset = e.offset => d = e
                    /\ d.seg < e.seg => d.offset < e.offset
  BY Zenon DEF Ordered
<1>6. CASE d \in index /\ e \in index
  BY Zenon, <1>1, <1>6 DEF Ordered
<1>7. CASE d \in index /\ e \in LocSet(staged)
  BY Zenon, <1>5, <1>7
<1>8. CASE d \in LocSet(staged) /\ e \in index
  BY Zenon, <1>5, <1>8
<1>9. CASE d \in LocSet(staged) /\ e \in LocSet(staged)
  BY Zenon, <1>3, <1>9 DEF Ordered
<1> QED
  BY Zenon, <1>6, <1>7, <1>8, <1>9

\* Both appends publish their records.
LEMMA CommitAppendStep ==
    ASSUME IInv, CommitAppend
    PROVE  IInv'
<1>ty. NatTypes
  BY Zenon, Types DEF IInv
<1>1. /\ Appending /\ op' = "idle" /\ op' # "retain" /\ NoAppend /\ staged' = {}
      /\ base \in Offset
  BY Zenon, <1>ty DEF CommitAppend, NoAppend, Appending, NatTypes
<1>2. PICK T : T = {base}
  BY Zenon
<1>3. /\ index' = index \cup LocSet(staged) /\ next' = off /\ mtime' = Touch(T)
      /\ acked' = acked \cup {<<c.offset, c.val>> : c \in staged}
  BY Zenon, <1>2 DEF CommitAppend
<1>4. /\ files' = files /\ size' = size /\ stored' = stored /\ torn' = torn /\ up' = up
      /\ todo' = todo /\ deleted' = deleted /\ total' = total /\ now' = now
      /\ trimmed' = trimmed /\ lost' = lost /\ orphans' = orphans /\ began' = began
  BY Zenon DEF CommitAppend, retainVars
<1>5. /\ up /\ torn = {} /\ todo = {} /\ deleted = {} /\ \A c \in stored : c.offset < off
      /\ Gone' = Gone
  BY Zenon, <1>1, <1>4, AppendingFacts DEF Gone
<1>6. Durable' = stored /\ Durable \subseteq stored /\ staged \subseteq stored
  BY Zenon, <1>1, <1>4 DEF Durable, IInv, Staging
<1>7. T \subseteq Offset /\ OpenChunk \subseteq T /\ \A c \in stored, f \in T : c.seg <= f
  BY Zenon, <1>1, <1>2 DEF OpenChunk, IInv, Staging
<1>8. /\ next <= off /\ \A c \in staged : next <= c.offset /\ c.offset < off
      /\ \A o \in Offset : next <= o /\ o < off => \E c \in staged : c.offset = o
  BY Zenon, <1>1 DEF IInv, Staging
<1>n. /\ vals' \in Seq(Value) /\ bytes' \in Nat /\ off' \in Offset
      /\ base' \in Offset /\ cur' \in Nat /\ staged' \subseteq Cell
      /\ orig' \in [files : SUBSET Offset, size : [Offset -> Nat]]
      /\ op' \in {"idle", "append", "undo", "batch", "retain"}
      /\ Staging' /\ Snapshot'
  BY Zenon, <1>1, NoAppendTypes
<1>t. TypeOK'
  <2>1. mtime' \in [Offset -> 0 .. MaxTime]
    BY Zenon, <1>3, TouchType DEF IInv
  <2>2. index' \subseteq IndexEntry
    BY Zenon, <1>3, <1>ty, LocFields DEF NatTypes, LocSet, IInv, TypeOK
  <2>3. acked' \subseteq Offset \X Value
    <3>1. \A c \in staged : c.offset \in Offset /\ c.val \in Value
      BY Zenon, <1>ty DEF NatTypes, Cell
    <3>2. \A c \in staged : <<c.offset, c.val>> \in Offset \X Value
      BY <3>1
    <3>3. acked \subseteq Offset \X Value
      BY Zenon DEF IInv, TypeOK
    <3> QED
      BY Zenon, <1>3, <3>2, <3>3
  <2>4. next' \in Offset
    BY Zenon, <1>3, <1>ty DEF NatTypes
  <2> QED
    BY ZenonT(60), <1>4, <1>n, <2>1, <2>2, <2>3, <2>4 DEF IInv, TypeOK
<1>l. Layout'
  BY Zenon, <1>4, LayoutKept DEF IInv
<1>a. Accounted'
  <2> SUFFICES ASSUME NEW o \in 0 .. off - 1
               PROVE  o \in trimmed \/ o \in lost \/ \E c \in stored : c.offset = o
    BY Zenon, <1>3, <1>4, <1>5, <1>6 DEF Accounted
  <2>1. o \in 0 .. next - 1 \/ (next <= o /\ o < off /\ o \in Offset)
    BY <1>ty DEF NatTypes, Offset
  <2> QED
    BY Zenon, <2>1, <1>5, <1>6, <1>8 DEF IInv, Accounted
<1>i. Indexed'
  <2>1. Ordered(index')
    BY Zenon, <1>1, <1>3, PublishedOrdered
  <2>2. \A e \in index' : e.seg <= e.offset /\ e.offset < off
    <3>1. \A e \in index : e.seg <= e.offset /\ e.offset < off
      BY <1>8, <1>ty DEF NatTypes, IInv, Indexed
    <3>2. \A e \in LocSet(staged) : e.seg <= e.offset /\ e.offset < off
      <4>1. \A c \in staged : c.seg <= c.offset /\ c.offset < off
        BY Zenon, <1>5, <1>6 DEF IInv, Layout
      <4> QED
        BY Zenon, <4>1, LocSetFields
    <3> QED
      BY Zenon, <1>3, <3>1, <3>2
  <2>3. \A b \in orphans : \E e \in index' : e.seg = b
    BY Zenon, <1>3 DEF IInv, Indexed
  <2>4. \A c \in stored : Loc(c) \in index'
    BY Zenon, <1>3, <1>5, LocSetFields DEF IInv, Indexed, Durable
  <2>5. \A e \in index' : e \in LocSet(stored) \/ e.seg \in Gone
    BY Zenon, <1>3, <1>5, <1>6 DEF IInv, Indexed, LocSet
  <2>6. index' # {} => \E c \in stored : c.offset = off - 1
    <3>1. CASE next < off
      <4>1. off - 1 \in Offset /\ next <= off - 1 /\ off - 1 < off
        BY <3>1, <1>ty DEF NatTypes, Offset
      <4> QED
        BY Zenon, <4>1, <1>6, <1>8
    <3>2. CASE next = off
      <4>1. staged = {}
        BY <3>2, <1>8, <1>ty DEF NatTypes
      <4>2. index' = index
        BY Zenon, <4>1, <1>3 DEF LocSet
      <4> QED
        BY Zenon, <4>2, <3>2, <1>5, <1>6 DEF IInv, Indexed
    <3> QED
      BY <3>1, <3>2, <1>8, <1>ty DEF NatTypes
  <2>7. index' = {} => off = 0
    <3> SUFFICES ASSUME index' = {} PROVE off = 0
      BY Zenon
    <3>1. index = {} /\ staged = {}
      <4>1. \A c \in staged : Loc(c) \in LocSet(staged)
        BY Zenon, LocSetFields
      <4> QED
        BY Zenon, <1>3, <4>1
    <3>2. next = 0
      BY Zenon, <3>1, <1>5 DEF IInv, Indexed
    <3>3. 0 \in Offset /\ 0 <= 0 /\ (0 < off \/ off = 0)
      BY <1>ty DEF NatTypes, Offset
    <3> QED
      BY Zenon, <3>1, <3>2, <3>3, <1>8
  <2>8. \A c \in stored : c.seg \notin Gone
    BY Zenon, <1>5 DEF IInv, Indexed
  <2> QED
    BY Zenon, <1>3, <1>4, <1>5, <1>6, <2>1, <2>2, <2>3, <2>4, <2>5, <2>6, <2>7, <2>8 DEF Indexed
<1>c. Closed'
  BY Zenon, <1>1, <1>4, <1>5 DEF Closed
<1>m. \A f \in Offset : mtime'[f] = IF f \in T THEN now ELSE mtime[f]
  BY Zenon, <1>3 DEF Touch
<1>h. History'
  <2>1. \A a \in acked' : a[1] \in trimmed \/ \E c \in stored : c.offset = a[1] /\ c.val = a[2]
    <3>1. \A a \in acked : a[1] \in trimmed \/ \E c \in stored : c.offset = a[1] /\ c.val = a[2]
      BY Zenon, <1>6 DEF IInv, History
    <3>2. \A c \in staged : <<c.offset, c.val>>[1] = c.offset /\ <<c.offset, c.val>>[2] = c.val
      OBVIOUS
    <3> QED
      BY Zenon, <3>1, <3>2, <1>3, <1>6
  <2>2. \A a \in acked' : a[1] < off
    <3>1. \A a \in acked : a[1] < off
      <4>1. \A a \in acked : a[1] < next
        BY Zenon, <1>5 DEF IInv, History
      <4> QED
        BY <4>1, <1>8, <1>ty DEF NatTypes
    <3>2. \A c \in staged : <<c.offset, c.val>>[1] = c.offset
      OBVIOUS
    <3> QED
      BY Zenon, <3>1, <3>2, <1>3, <1>8
  <2>3. \A t \in trimmed : t < next /\ t < off
    <3>1. \A t \in trimmed : t < next
      BY Zenon, <1>5 DEF IInv, History
    <3> QED
      BY <3>1, <1>8, <1>ty DEF NatTypes
  <2>4. ASSUME lost = {}, NEW t \in trimmed, NEW c \in stored
        PROVE  \/ t < c.offset
               \/ AgeDue(c.seg)' /\ \E d \in stored : c.seg < d.seg
    <3>1. CASE c \in staged
      BY <3>1, <2>3, <1>8, <1>ty DEF NatTypes
    <3>2. CASE c \notin staged
      <4>1. CASE t < c.offset
        BY Zenon, <4>1
      <4>2. CASE ~(t < c.offset)
        <5>1. c \in Durable
          BY Zenon, <3>2 DEF Durable
        <5>2. PICK d \in Durable : AgeDue(c.seg) /\ c.seg < d.seg
          BY Zenon, <2>4, <4>2, <5>1 DEF IInv, History
        <5>3. c.seg # base
          <6>1. d.seg <= base /\ d.seg \in Nat /\ c.seg \in Nat /\ base \in Nat
            BY Zenon, <1>2, <1>6, <1>7, <1>ty DEF NatTypes
          <6> QED
            BY <5>2, <6>1
        <5>4. mtime'[c.seg] = mtime[c.seg]
          BY Zenon, <1>2, <1>m, <1>ty, <5>3 DEF NatTypes
        <5>5. AgeDue(c.seg)'
          BY Zenon, <1>4, <5>2, <5>4 DEF AgeDue, Age
        <5> QED
          BY Zenon, <1>6, <5>2, <5>5
      <4> QED
        BY Zenon, <4>1, <4>2
    <3> QED
      BY Zenon, <3>1, <3>2
  <2> QED
    BY Zenon, <1>3, <1>4, <1>5, <1>6, <2>1, <2>2, <2>3, <2>4 DEF History
<1>g. Times'
  <2>1. \A f \in Offset : mtime'[f] <= now
    BY <1>m, <1>ty DEF NatTypes, IInv, Times
  <2>2. lost = {} => Aged(stored, mtime')
    BY Zenon, <1>1, <1>3, <1>7, ChunkAged
  <2>3. DurableTimes'
    BY Zenon, <1>4, <1>6, <2>1, <2>2 DEF DurableTimes, IInv, Times
  <2> QED
    BY Zenon, <1>1, <2>3, RestTimes
<1>r. Retaining'
  BY Zenon, <1>1, <1>4, <1>5 DEF Retaining
<1> QED
  BY <1>t, <1>l, <1>a, <1>i, <1>c, <1>n, <1>h, <1>g, <1>r, Zenon DEF IInv

=============================================================================
