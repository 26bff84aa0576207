------------------------- MODULE ReplicationProofs -------------------------
(***************************************************************************)
(* The follower of ReplicationSimulation is a copy of its leader, and an   *)
(* answered replication=all produce is on it, for every set of values and  *)
(* of initial directories and every bound.                                 *)
(***************************************************************************)
EXTENDS Replication, TLAPS

\* The inductive invariant: the leader is a log of whole batches as well,
\* which is what lets a batch be copied in one append; and the target of the
\* produce that is waiting lies within the leader.
RInv ==
    /\ IsLog(leader) /\ WholeBatches(leader)
    /\ FollowerCopies
    /\ call \in {None, CatchUp} \cup {All(n) : n \in 0 .. leader.hi}
    /\ answered \subseteq Nat
    /\ AllReplicated

\* The position of a record in its batch lies between the ends of the log.
LEMMA Between ==
    ASSUME NEW o \in Int, NEW i \in Nat, NEW k \in Nat, NEW a \in Nat, NEW b \in Nat,
           o - i >= a, o - i + k < b
    PROVE  o - i + k \in a .. b - 1
OBVIOUS

\* An append of n entries leaves a log of lo .. hi + n - 1 whose old entries
\* are the ones it had.
LEMMA ExtendedLog ==
    ASSUME NEW l, IsLog(l), NEW n \in Nat, NEW es \in [0 .. n - 1 -> Entry]
    PROVE  LET m == Extended(l, n, es)
           IN  /\ IsLog(m) /\ m.lo = l.lo /\ m.hi = l.hi + n
               /\ \A o \in l.lo .. l.hi - 1 : m.index[o] = l.index[o]
               /\ \A k \in 0 .. n - 1 : m.index[l.hi + k] = es[k]
<1> DEFINE m == Extended(l, n, es)
<1>1. l.lo \in Nat /\ l.hi \in Nat /\ l.lo <= l.hi /\ l.index \in [l.lo .. l.hi - 1 -> Entry]
  BY DEF IsLog
<1>2. m.lo = l.lo /\ m.hi = l.hi + n
  BY DEF Extended
<1>3. m.index = [o \in l.lo .. l.hi + n - 1 |->
                    IF o < l.hi THEN l.index[o] ELSE es[o - l.hi]]
  BY DEF Extended
<1>4. m = [lo |-> m.lo, hi |-> m.hi, index |-> m.index]
  BY DEF Extended
<1> HIDE DEF m
<1>5. ASSUME NEW o \in l.lo .. l.hi - 1
      PROVE  m.index[o] = l.index[o]
  BY <1>1, <1>3
<1>6. ASSUME NEW k \in 0 .. n - 1
      PROVE  m.index[l.hi + k] = es[k]
  <2>1. l.hi + k \in l.lo .. l.hi + n - 1 /\ ~(l.hi + k < l.hi) /\ (l.hi + k) - l.hi = k
    BY <1>1
  <2> QED
    BY <2>1, <1>3
<1>7. ASSUME NEW o \in l.lo .. l.hi + n - 1
      PROVE  (IF o < l.hi THEN l.index[o] ELSE es[o - l.hi]) \in Entry
  <2>1. CASE o < l.hi
    BY <2>1, <1>1, SMTT(60)
  <2>2. CASE ~(o < l.hi)
    <3>1. o - l.hi \in 0 .. n - 1
      BY <2>2, <1>1
    <3> QED
      BY <3>1, <2>2
  <2> QED
    BY <2>1, <2>2
<1>8. m.index \in [m.lo .. m.hi - 1 -> Entry]
  <2>1. m.index \in [l.lo .. l.hi + n - 1 -> Entry]
    BY <1>3, <1>7
  <2>2. l.hi \in Nat /\ m.hi = l.hi + n
    BY <1>1, <1>2
  <2>3. m.hi - 1 = l.hi + n - 1
    BY <2>2
  <2> QED
    BY <2>1, <2>3, <1>2, Zenon
<1>9. m.lo \in Nat /\ m.hi \in Nat /\ m.lo <= m.hi
  BY <1>1, <1>2
<1>10. IsLog(m)
  BY <1>4, <1>8, <1>9 DEF IsLog
<1> QED
  BY <1>2, <1>5, <1>6, <1>10 DEF m

\* append_encoded_batch adds one whole batch with the given values and leaves
\* the records the log had.
LEMMA BatchAppended ==
    ASSUME NEW l, IsLog(l), WholeBatches(l), NEW n \in Nat \ {0},
           NEW values \in [0 .. n - 1 -> Value]
    PROVE  LET m == append_encoded_batch(l, n, values)
           IN  /\ IsLog(m) /\ WholeBatches(m) /\ m.lo = l.lo /\ m.hi = l.hi + n
               /\ \A o \in l.lo .. l.hi - 1 : m.index[o] = l.index[o]
               /\ \A k \in 0 .. n - 1 : m.index[l.hi + k].value = values[k]
<1> DEFINE es == [k \in 0 .. n - 1 |->
                     [value |-> values[k], record_index |-> k, record_count |-> n]]
           m == Extended(l, n, es)
<1>1. es \in [0 .. n - 1 -> Entry]
  BY DEF Entry
<1>2. /\ IsLog(m) /\ m.lo = l.lo /\ m.hi = l.hi + n
      /\ \A o \in l.lo .. l.hi - 1 : m.index[o] = l.index[o]
      /\ \A k \in 0 .. n - 1 : m.index[l.hi + k] = es[k]
  BY <1>1, ExtendedLog, ZenonT(60)
<1>3. l.lo \in Nat /\ l.hi \in Nat /\ l.lo <= l.hi /\ l.index \in [l.lo .. l.hi - 1 -> Entry]
  BY DEF IsLog
<1> HIDE DEF m
<1>4. WholeBatches(m)
  <2> SUFFICES ASSUME NEW o \in m.lo .. m.hi - 1, m.index[o].record_count > 0
               PROVE  /\ o - m.index[o].record_index >= m.lo
                      /\ \A k \in 0 .. m.index[o].record_count - 1 :
                             LET p == o - m.index[o].record_index + k
                             IN  /\ p < m.hi
                                 /\ m.index[p].record_index = k
                                 /\ m.index[p].record_count = m.index[o].record_count
    BY Zenon DEF WholeBatches
  <2>1. CASE o < l.hi
    <3>1. o \in l.lo .. l.hi - 1 /\ m.index[o] = l.index[o]
      BY <1>2, <1>3, <2>1
    <3>2. l.index[o].record_index \in Nat /\ l.index[o].record_count \in Nat
      BY <1>3, <3>1, SMTT(60) DEF Entry
    <3>3. o - l.index[o].record_index >= l.lo
      BY <3>1, Zenon DEF WholeBatches
    <3> SUFFICES ASSUME NEW k \in 0 .. l.index[o].record_count - 1
                 PROVE  LET p == o - l.index[o].record_index + k
                        IN  /\ p < m.hi
                            /\ m.index[p].record_index = k
                            /\ m.index[p].record_count = l.index[o].record_count
      BY <3>1, <3>3, <1>2, Zenon
    <3> DEFINE p == o - l.index[o].record_index + k
    <3>4. p < l.hi /\ l.index[p].record_index = k
          /\ l.index[p].record_count = l.index[o].record_count
      BY <3>1, Zenon DEF WholeBatches
    <3>5. p \in l.lo .. l.hi - 1
      <4>1. PICK i, c : i \in Nat /\ c \in Nat /\ i = l.index[o].record_index /\ c = l.index[o].record_count
        BY <3>2, SMTT(60)
      <4>2. k \in Nat /\ o \in Int /\ o - i >= l.lo /\ o - i + k < l.hi
        BY <4>1, <3>1, <3>3, <3>4, <1>3
      <4>3. o - i + k \in l.lo .. l.hi - 1
        BY <4>1, <4>2, <1>3, Between, ZenonT(60)
      <4> QED
        BY <4>1, <4>3, Zenon
    <3>6. m.index[p] = l.index[p]
      BY <3>5, <1>2, Zenon
    <3>7. p < m.hi
      BY <3>5, <1>2, <1>3, SMTT(60)
    <3> QED
      BY <3>4, <3>6, <3>7, Zenon
  <2>2. CASE o >= l.hi
    <3> DEFINE k0 == o - l.hi
    <3>1. k0 \in 0 .. n - 1 /\ o = l.hi + k0
      BY <2>2, <1>2, <1>3, SMTT(60)
    <3>2. m.index[o] = es[k0]
      BY <3>1, <1>2, Zenon
    <3>3. m.index[o].record_index = k0 /\ m.index[o].record_count = n
      BY <3>1, <3>2
    <3>4. o - k0 = l.hi
      BY <3>1, <1>3
    <3>5. ASSUME NEW k \in 0 .. n - 1
          PROVE  /\ l.hi + k < m.hi
                 /\ m.index[l.hi + k].record_index = k
                 /\ m.index[l.hi + k].record_count = n
      <4>1. m.index[l.hi + k] = es[k]
        BY <1>2
      <4>2. es[k].record_index = k /\ es[k].record_count = n
        OBVIOUS
      <4>3. l.hi + k < m.hi
        BY <1>2, <1>3
      <4> QED
        BY <4>1, <4>2, <4>3
    <3>6. o - k0 >= m.lo
      BY <3>4, <1>2, <1>3
    <3> QED
      BY <3>3, <3>4, <3>5, <3>6
  <2> QED
    BY <2>1, <2>2, <1>2, <1>3
<1>5. ASSUME NEW k \in 0 .. n - 1
      PROVE  m.index[l.hi + k].value = values[k]
  <2>1. m.index[l.hi + k] = es[k]
    BY <1>2
  <2>2. es[k].value = values[k]
    OBVIOUS
  <2> QED
    BY <2>1, <2>2
<1>6. m = append_encoded_batch(l, n, values)
  BY DEF m, append_encoded_batch
<1> HIDE DEF es
<1> QED
  BY <1>2, <1>4, <1>5, <1>6

\* append_batch with one record adds that record in a frame of its own.
LEMMA RecordAppended ==
    ASSUME NEW l, IsLog(l), WholeBatches(l), NEW v \in Value
    PROVE  LET m == append_batch(l, v)
           IN  /\ IsLog(m) /\ WholeBatches(m) /\ m.lo = l.lo /\ m.hi = l.hi + 1
               /\ \A o \in l.lo .. l.hi - 1 : m.index[o] = l.index[o]
               /\ m.index[l.hi].value = v
<1> DEFINE es == [k \in 0 .. 0 |-> [value |-> v, record_index |-> 0, record_count |-> 0]]
           m == Extended(l, 1, es)
<1>1. es \in [0 .. 1 - 1 -> Entry]
  BY DEF Entry
<1>2. /\ IsLog(m) /\ m.lo = l.lo /\ m.hi = l.hi + 1
      /\ \A o \in l.lo .. l.hi - 1 : m.index[o] = l.index[o]
      /\ \A k \in 0 .. 1 - 1 : m.index[l.hi + k] = es[k]
  <2> HIDE DEF es
  <2>1. 1 \in Nat
    OBVIOUS
  <2> QED
    BY <1>1, <2>1, ExtendedLog, Zenon
<1>3. l.lo \in Nat /\ l.hi \in Nat /\ l.lo <= l.hi /\ l.index \in [l.lo .. l.hi - 1 -> Entry]
  BY DEF IsLog
<1>4. m.index[l.hi] = [value |-> v, record_index |-> 0, record_count |-> 0]
  <2>1. m.index[l.hi + 0] = es[0]
    BY <1>2
  <2>2. l.hi + 0 = l.hi
    BY <1>3
  <2>3. es[0] = [value |-> v, record_index |-> 0, record_count |-> 0]
    OBVIOUS
  <2> QED
    BY <2>1, <2>2, <2>3
<1> HIDE DEF m
<1>5. WholeBatches(m)
  <2> SUFFICES ASSUME NEW o \in m.lo .. m.hi - 1, m.index[o].record_count > 0
               PROVE  /\ o - m.index[o].record_index >= m.lo
                      /\ \A k \in 0 .. m.index[o].record_count - 1 :
                             LET p == o - m.index[o].record_index + k
                             IN  /\ p < m.hi
                                 /\ m.index[p].record_index = k
                                 /\ m.index[p].record_count = m.index[o].record_count
    BY Zenon DEF WholeBatches
  <2>1. o # l.hi
    BY <1>4
  <2>2. o \in l.lo .. l.hi - 1 /\ m.index[o] = l.index[o]
    BY <1>2, <1>3, <2>1
  <2>3. l.index[o].record_index \in Nat /\ l.index[o].record_count \in Nat
    BY <1>3, <2>2, Zenon DEF Entry
  <2>4. o - l.index[o].record_index >= l.lo
    BY <2>2, Zenon DEF WholeBatches
  <2> SUFFICES ASSUME NEW k \in 0 .. l.index[o].record_count - 1
               PROVE  LET p == o - l.index[o].record_index + k
                      IN  /\ p < m.hi
                          /\ m.index[p].record_index = k
                          /\ m.index[p].record_count = l.index[o].record_count
    BY <2>2, <2>4, <1>2, Zenon
  <2> DEFINE p == o - l.index[o].record_index + k
  <2>5. p < l.hi /\ l.index[p].record_index = k
        /\ l.index[p].record_count = l.index[o].record_count
    BY <2>2, Zenon DEF WholeBatches
  <2>6. p \in l.lo .. l.hi - 1
    <3>1. PICK i, c : i \in Nat /\ c \in Nat /\ i = l.index[o].record_index /\ c = l.index[o].record_count
      BY <2>3
    <3>2. k \in Nat /\ o \in Int /\ o - i >= l.lo /\ o - i + k < l.hi
      BY <3>1, <2>2, <2>4, <2>5, <1>3
    <3>3. o - i + k \in l.lo .. l.hi - 1
      BY <3>1, <3>2, <1>3, Between, ZenonT(60)
    <3> QED
      BY <3>1, <3>3
  <2>7. m.index[p] = l.index[p]
    BY <2>6, <1>2, Zenon
  <2>8. p < m.hi
    BY <2>6, <1>2, <1>3
  <2> QED
    BY <2>5, <2>7, <2>8, Zenon
<1>6. m = append_batch(l, v)
  BY DEF m, append_batch
<1> QED
  BY <1>2, <1>4, <1>5, <1>6

-----------------------------------------------------------------------------

\* What replicate_once leaves: the copied records are the leader's, so a
\* follower that was a copy of it still is, and is no shorter than before.
FollowerExtended ==
    /\ IsLog(follower') /\ WholeBatches(follower') /\ Copies(follower', leader)
    /\ follower.hi <= follower'.hi

\* Copying the batch that starts at the follower's next offset keeps the copy.
LEMMA CopyBatchCopies ==
    ASSUME RInv, CopyBatch
    PROVE  FollowerExtended
<1> DEFINE next == follower.hi
           n == leader.index[next].record_count
           values == [k \in 0 .. n - 1 |-> leader.index[next + k].value]
<1>1. /\ next \in leader.lo .. leader.hi - 1
      /\ leader.index[next].record_index = 0 /\ n > 0
      /\ follower' = append_encoded_batch(follower, n, values)
  BY Zenon DEF CopyBatch, HasEncodedBatch
<1>2. /\ leader.lo \in Nat /\ leader.hi \in Nat
      /\ leader.index \in [leader.lo .. leader.hi - 1 -> Entry]
      /\ follower.lo \in Nat /\ follower.hi \in Nat /\ follower.lo <= follower.hi
  BY DEF RInv, FollowerCopies, IsLog
<1>3. leader.index[next] \in Entry
  BY <1>1, <1>2, Zenon
<1>4. n \in Nat \ {0}
  BY <1>1, <1>3 DEF Entry
<1>5. ASSUME NEW k \in 0 .. n - 1
      PROVE  next + k \in leader.lo .. leader.hi - 1
  <2>1. WholeBatches(leader)
    BY DEF RInv
  <2>2. next - 0 + k < leader.hi
    BY <1>1, <2>1, Zenon DEF WholeBatches
  <2> QED
    BY <2>2, <1>1, <1>2, SMTT(60)
<1>6. values \in [0 .. n - 1 -> Value]
  <2> SUFFICES ASSUME NEW k \in 0 .. n - 1
               PROVE  leader.index[next + k].value \in Value
    BY Zenon
  <2>1. leader.index[next + k] \in Entry
    BY <1>2, <1>5, SMTT(60)
  <2> QED
    BY <2>1, Zenon DEF Entry
<1>7. IsLog(follower) /\ WholeBatches(follower) /\ Copies(follower, leader)
  BY DEF RInv, FollowerCopies
<1> HIDE DEF values, n
<1>8. /\ IsLog(follower') /\ WholeBatches(follower')
      /\ follower'.lo = follower.lo /\ follower'.hi = follower.hi + n
      /\ \A o \in follower.lo .. follower.hi - 1 : follower'.index[o] = follower.index[o]
      /\ \A k \in 0 .. n - 1 : follower'.index[follower.hi + k].value = values[k]
  <2>1. PICK f, c, vs : f = follower /\ c = n /\ vs = values
    OBVIOUS
  <2>2. c \in Nat \ {0} /\ vs \in [0 .. c - 1 -> Value] /\ IsLog(f) /\ WholeBatches(f)
    BY <2>1, <1>4, <1>6, <1>7
  <2>3. LET m == append_encoded_batch(f, c, vs)
        IN  /\ IsLog(m) /\ WholeBatches(m) /\ m.lo = f.lo /\ m.hi = f.hi + c
            /\ \A o \in f.lo .. f.hi - 1 : m.index[o] = f.index[o]
            /\ \A k \in 0 .. c - 1 : m.index[f.hi + k].value = vs[k]
    BY <2>2, BatchAppended, ZenonT(60)
  <2>4. follower' = append_encoded_batch(f, c, vs)
    BY <2>1, <1>1
  <2> QED
    BY <2>1, <2>3, <2>4, Zenon
<1>9. follower'.hi <= leader.hi
  <2>1. n - 1 \in 0 .. n - 1
    BY <1>4
  <2>2. next + (n - 1) \in leader.lo .. leader.hi - 1
    BY <2>1, <1>5
  <2> QED
    BY <2>2, <1>2, <1>4, <1>8
<1>10. ASSUME NEW o \in follower'.lo .. follower'.hi - 1
       PROVE  /\ o \in leader.lo .. leader.hi - 1
              /\ follower'.index[o].value = leader.index[o].value
  <2>1. CASE o < follower.hi
    <3>1. o \in follower.lo .. follower.hi - 1
      BY <2>1, <1>2, <1>8
    <3>2. follower'.index[o] = follower.index[o]
      BY <3>1, <1>8, Zenon
    <3> QED
      BY <3>1, <3>2, <1>7 DEF Copies
  <2>2. CASE ~(o < follower.hi)
    <3>1. PICK k \in 0 .. n - 1 : o = follower.hi + k
      <4>1. o - follower.hi \in 0 .. n - 1 /\ o = follower.hi + (o - follower.hi)
        BY <2>2, <1>2, <1>4, <1>8, SMTT(60)
      <4> QED
        BY <4>1
    <3>2. follower'.index[o].value = values[k]
      BY <3>1, <1>8, Zenon
    <3>3. values[k] = leader.index[next + k].value
      BY DEF values
    <3> QED
      BY <3>1, <3>2, <3>3, <1>5, Zenon
  <2> QED
    BY <2>1, <2>2, Zenon
<1>11. follower.hi <= follower'.hi
  BY <1>2, <1>4, <1>8
<1> QED
  BY <1>8, <1>9, <1>10, <1>11, Zenon DEF FollowerExtended, Copies

\* Copying one record, from a frame of its own or from inside a batch, keeps
\* the copy.
LEMMA CopyRecordCopies ==
    ASSUME RInv, CopyRecord
    PROVE  FollowerExtended
<1> DEFINE next == follower.hi
           v == leader.index[next].value
<1>1. next \in leader.lo .. leader.hi - 1 /\ follower' = append_batch(follower, v)
  BY DEF CopyRecord
<1>2. /\ leader.lo \in Nat /\ leader.hi \in Nat
      /\ leader.index \in [leader.lo .. leader.hi - 1 -> Entry]
      /\ follower.lo \in Nat /\ follower.hi \in Nat /\ follower.lo <= follower.hi
  BY DEF RInv, FollowerCopies, IsLog
<1>3. leader.index[next] \in Entry
  BY <1>1, <1>2, Zenon
<1>4. v \in Value
  BY <1>3, Zenon DEF Entry
<1>5. IsLog(follower) /\ WholeBatches(follower) /\ Copies(follower, leader)
  BY DEF RInv, FollowerCopies
<1>6. /\ IsLog(follower') /\ WholeBatches(follower')
      /\ follower'.lo = follower.lo /\ follower'.hi = follower.hi + 1
      /\ \A o \in follower.lo .. follower.hi - 1 : follower'.index[o] = follower.index[o]
      /\ follower'.index[follower.hi].value = v
  BY <1>1, <1>4, <1>5, RecordAppended, Zenon
<1>7. follower'.hi <= leader.hi /\ follower.hi <= follower'.hi
  <2>1. /\ leader.lo \in Nat /\ leader.hi \in Nat /\ follower.hi \in Nat
        /\ follower.hi \in leader.lo .. leader.hi - 1
        /\ follower'.hi = follower.hi + 1
    BY <1>1, <1>2, <1>6, Zenon
  <2> QED
    BY <2>1
<1>8. ASSUME NEW o \in follower'.lo .. follower'.hi - 1
      PROVE  /\ o \in leader.lo .. leader.hi - 1
             /\ follower'.index[o].value = leader.index[o].value
  <2>1. CASE o < follower.hi
    <3>1. o \in follower.lo .. follower.hi - 1
      BY <2>1, <1>2, <1>6
    <3>2. follower'.index[o] = follower.index[o]
      BY <3>1, <1>6
    <3> QED
      BY <3>1, <3>2, <1>5 DEF Copies
  <2>2. CASE ~(o < follower.hi)
    <3>1. o = follower.hi
      BY <2>2, <1>2, <1>6
    <3> QED
      BY <3>1, <1>1, <1>6, Zenon
  <2> QED
    BY <2>1, <2>2
<1> QED
  BY <1>6, <1>7, <1>8 DEF FollowerExtended, Copies

\* A produce appends one whole batch to the leader, which stays a log the
\* follower is a copy of.
LEMMA LeaderExtended ==
    ASSUME RInv, NEW n \in Nat \ {0}, NEW values \in [0 .. n - 1 -> Value],
           leader' = append_encoded_batch(leader, n, values)
    PROVE  /\ IsLog(leader') /\ WholeBatches(leader')
           /\ Copies(follower, leader') /\ leader'.hi = leader.hi + n
<1>1. IsLog(leader) /\ WholeBatches(leader) /\ IsLog(follower) /\ Copies(follower, leader)
  BY DEF RInv, FollowerCopies
<1>2. /\ leader.lo \in Nat /\ leader.hi \in Nat /\ follower.lo \in Nat /\ follower.hi \in Nat
  BY <1>1 DEF IsLog
<1>3. /\ IsLog(leader') /\ WholeBatches(leader')
      /\ leader'.lo = leader.lo /\ leader'.hi = leader.hi + n
      /\ \A o \in leader.lo .. leader.hi - 1 : leader'.index[o] = leader.index[o]
  BY <1>1, BatchAppended
<1>4. follower.hi <= leader'.hi
  BY <1>1, <1>2, <1>3 DEF Copies
<1>5. ASSUME NEW o \in follower.lo .. follower.hi - 1
      PROVE  /\ o \in leader'.lo .. leader'.hi - 1
             /\ follower.index[o].value = leader'.index[o].value
  <2>1. o \in leader.lo .. leader.hi - 1 /\ follower.index[o].value = leader.index[o].value
    BY <1>1 DEF Copies
  <2>2. leader'.index[o] = leader.index[o]
    BY <2>1, <1>3
  <2>3. o \in leader'.lo .. leader'.hi - 1
    BY <2>1, <1>2, <1>3
  <2> QED
    BY <2>1, <2>2, <2>3
<1> QED
  BY <1>3, <1>4, <1>5 DEF Copies

-----------------------------------------------------------------------------

\* A step that leaves the leader alone and copies to the follower, or leaves
\* it, keeps the invariant as long as the call and the answers stay in range.
LEMMA FollowerStep ==
    ASSUME RInv, UNCHANGED <<leader, answered>>,
           ReplicateStep \/ ReplicateFails \/ UNCHANGED <<follower, thrown>>,
           call' \in {call, None}
    PROVE  RInv'
<1>1. /\ IsLog(follower') /\ WholeBatches(follower') /\ Copies(follower', leader')
      /\ "follower_ahead" \notin thrown'
      /\ follower.hi <= follower'.hi
  <2>1. IsLog(follower) /\ follower.hi \in Nat /\ follower.hi <= leader.hi /\ leader.hi \in Nat
    BY DEF RInv, FollowerCopies, IsLog, Copies
  <2>2. CASE CopyBatch
    BY <2>2, CopyBatchCopies, Zenon DEF FollowerExtended, RInv, FollowerCopies, CopyBatch
  <2>3. CASE CopyRecord
    BY <2>3, CopyRecordCopies, Zenon DEF FollowerExtended, RInv, FollowerCopies, CopyRecord
  <2>4. CASE ReplicateThrows
    <3>1. ~(follower.hi > leader.hi)
      BY <2>1
    <3>2. thrown' = thrown \cup {"cannot_supply"} /\ follower' = follower
      BY <3>1, <2>4 DEF ReplicateThrows
    <3> QED
      BY <3>2, <2>1 DEF RInv, FollowerCopies
  <2>5. CASE UNCHANGED <<follower, thrown>>
    BY <2>5, <2>1 DEF RInv, FollowerCopies
  <2> QED
    BY <2>2, <2>3, <2>4, <2>5 DEF ReplicateStep, ReplicateFails
<1>2. IsLog(leader') /\ WholeBatches(leader')
  BY DEF RInv
<1>3. call' \in {None, CatchUp} \cup {All(n) : n \in 0 .. leader'.hi}
  BY DEF RInv
<1>4. answered' \subseteq Nat /\ AllReplicated'
  <2>1. follower.hi \in Nat /\ follower'.hi \in Nat
    BY <1>1 DEF RInv, FollowerCopies, IsLog
  <2>2. ASSUME NEW n \in answered'
        PROVE  n <= follower'.hi /\ n <= leader'.hi
    <3>1. n \in Nat /\ n <= follower.hi /\ n <= leader.hi
      BY DEF RInv, AllReplicated
    <3> QED
      BY <3>1, <2>1, <1>1
  <2> QED
    BY <2>2 DEF RInv, AllReplicated
<1> QED
  BY <1>1, <1>2, <1>3, <1>4 DEF RInv, FollowerCopies

\* A produce keeps the invariant: its target is the leader's new next offset.
LEMMA ProduceStep ==
    ASSUME RInv, NEW n \in Nat \ {0}, NEW values \in [0 .. n - 1 -> Value],
           leader' = append_encoded_batch(leader, n, values),
           UNCHANGED <<follower, answered, thrown>>,
           call' \in {call, All(leader.hi + n)}
    PROVE  RInv'
<1>1. /\ IsLog(leader') /\ WholeBatches(leader')
      /\ Copies(follower, leader') /\ leader'.hi = leader.hi + n
  BY LeaderExtended
<1>2. leader.hi \in Nat
  BY DEF RInv, IsLog
<1>3. call' \in {None, CatchUp} \cup {All(k) : k \in 0 .. leader'.hi}
  <2>1. leader.hi + n \in 0 .. leader'.hi /\ 0 .. leader.hi \subseteq 0 .. leader'.hi
    BY <1>1, <1>2
  <2> QED
    BY <2>1 DEF RInv
<1>4. AllReplicated'
  <2> SUFFICES ASSUME NEW k \in answered
               PROVE  k <= follower.hi /\ k <= leader'.hi
    BY DEF AllReplicated
  <2>1. k \in Nat /\ k <= follower.hi /\ k <= leader.hi
    BY DEF RInv, AllReplicated
  <2> QED
    BY <2>1, <1>1, <1>2
<1> QED
  BY <1>1, <1>3, <1>4 DEF RInv, FollowerCopies

\* The initial directories satisfy the invariant.
LEMMA ReplicationStarts == Init => RInv
<1> SUFFICES ASSUME Init PROVE RInv
  OBVIOUS
<1>1. /\ IsLog(leader) /\ WholeBatches(leader) /\ IsLog(follower) /\ WholeBatches(follower)
      /\ Copies(follower, leader)
  BY ReplicationAssumption DEF Init
<1> QED
  BY <1>1 DEF Init, RInv, FollowerCopies, AllReplicated

\* Every method of ReplicationSimulation, and a restart, keeps it.
LEMMA ReplicationSteps == RInv /\ [Next]_vars => RInv'
<1> SUFFICES ASSUME RInv, [Next]_vars PROVE RInv'
  OBVIOUS
<1>1. ASSUME NEW n \in 1 .. MaxBatch, NEW values \in [0 .. n - 1 -> Value],
             ProduceLeader(n, values) \/ ProduceAll(n, values)
      PROVE  RInv'
  <2>1. n \in Nat \ {0}
    BY ReplicationAssumption
  <2> QED
    BY <2>1, <1>1, ProduceStep DEF ProduceLeader, ProduceAll
<1>2. CASE ProduceWaits
  BY <1>2, FollowerStep DEF ProduceWaits
<1>3. CASE ProduceReturns
  <2>1. PICK n : n \in 0 .. leader.hi /\ call = All(n)
    BY <1>3 DEF ProduceReturns, RInv, None, CatchUp
  <2>2. n \in Nat /\ n <= leader.hi /\ n <= follower.hi /\ answered' = answered \cup {n}
    <3>1. leader.hi \in Nat /\ follower.hi \in Nat
      BY DEF RInv, FollowerCopies, IsLog
    <3>2. call.target = n /\ follower.hi >= call.target
          /\ answered' = answered \cup {call.target}
      BY <2>1, <1>3 DEF ProduceReturns, All
    <3> QED
      BY <2>1, <3>1, <3>2
  <2>3. answered' \subseteq Nat /\ AllReplicated'
    BY <2>2, <1>3 DEF RInv, AllReplicated, ProduceReturns
  <2> QED
    BY <2>3, <1>3 DEF RInv, FollowerCopies, ProduceReturns
<1>4. CASE ProduceTimesOut
  BY <1>4 DEF ProduceTimesOut, RInv, FollowerCopies, AllReplicated
<1>5. CASE ProduceThrows
  BY <1>5, FollowerStep DEF ProduceThrows
<1>6. CASE ReplicateOnce
  BY <1>6, FollowerStep DEF ReplicateOnce
<1>7. CASE CatchUpStarts
  BY <1>7 DEF CatchUpStarts, RInv, FollowerCopies, AllReplicated
<1>8. CASE CatchUpStep
  BY <1>8, FollowerStep DEF CatchUpStep
<1>9. CASE CatchUpEnds
  BY <1>9, FollowerStep DEF CatchUpEnds
<1>10. CASE SetFollowerAvailable
  BY <1>10 DEF SetFollowerAvailable, RInv, FollowerCopies, AllReplicated
<1>11. CASE Restart
  <2>1. ~(follower.hi > leader.hi)
    BY DEF RInv, FollowerCopies, IsLog, Copies
  <2>2. thrown' = thrown
    BY <2>1, <1>11 DEF Restart
  <2> QED
    BY <2>2, <1>11 DEF Restart, RInv, FollowerCopies, AllReplicated
<1>12. CASE UNCHANGED vars
  BY <1>12 DEF vars, RInv, FollowerCopies, AllReplicated
<1> QED
  BY <1>1, <1>2, <1>3, <1>4, <1>5, <1>6, <1>7, <1>8, <1>9, <1>10, <1>11, <1>12 DEF Next

\* The invariant holds of every behaviour of the simulation.
THEOREM ReplicationInvariant == Spec => []RInv
BY ReplicationStarts, ReplicationSteps, PTL DEF Spec

\* The follower is always a copy of the leader's log up to its next offset, in
\* whole batches, and is never found ahead.
THEOREM FollowerIsCopy == Spec => []FollowerCopies
<1>1. RInv => FollowerCopies
  BY DEF RInv
<1> QED
  BY <1>1, ReplicationInvariant, PTL

\* Every produce with replication=all that was answered is on the follower.
THEOREM AnsweredIsReplicated == Spec => []AllReplicated
<1>1. RInv => AllReplicated
  BY DEF RInv
<1> QED
  BY <1>1, ReplicationInvariant, PTL

=============================================================================
