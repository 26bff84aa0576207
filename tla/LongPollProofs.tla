--------------------------- MODULE LongPollProofs ---------------------------
(***************************************************************************)
(* LongPoll's safety properties, for every number of sessions, partitions, *)
(* waiter slots, waiter ids and records.                                   *)
(***************************************************************************)
EXTENDS LongPoll, FiniteSetTheorems, NaturalsInduction, WellFoundedInduction, TLAPS

Waiter == [session : Session \cup {None}, part : Partition \cup {None},
           call : {"none", "called", "queued"}, timer : {"off", "armed", "expired"},
           listed : BOOLEAN, completed : BOOLEAN]

PollTypeOK ==
    /\ end \in [Partition -> Nat]
    /\ notices \in [Partition -> Nat]
    /\ deleted \in BOOLEAN
    /\ at \in [Session -> {"idle", "found", "poll"}]
    /\ DOMAIN asked = Session
    /\ waiterId \in [Session -> Id \cup {None}]
    /\ waiter \in [Id -> Waiter]
    /\ active \in Nat
    /\ owed \in [Session -> Nat]
    /\ late \subseteq Session

\* What refers to a waiter knows its session; a listed waiter was neither called
\* nor completed; and one that is not completed is the one its session waits for.
Waiters ==
    \A i \in Id :
       /\ waiter[i].call # "none" \/ waiter[i].timer # "off" \/ ~waiter[i].completed
             => waiter[i].session \in Session
       /\ waiter[i].listed => ~waiter[i].completed /\ waiter[i].call = "none"
       /\ ~waiter[i].completed =>
             /\ waiter[i].part \in Partition
             /\ at[waiter[i].session] = "poll"
             /\ waiterId[waiter[i].session] = i
             /\ asked[waiter[i].session][1] = waiter[i].part

\* A session that polls has a waiter which is not completed, the others have none;
\* and no append between a fetch and its registration goes unrecorded.
Sessions ==
    \A s \in Session :
       /\ owed[s] = IF at[s] = "idle" THEN 0 ELSE 1
       /\ at[s] # "idle" => asked[s][1] \in Partition /\ asked[s][2] \in Nat
       /\ at[s] = "found" /\ asked[s][2] < end[asked[s][1]] => s \in late
       /\ at[s] # "poll" => waiterId[s] = None
       /\ at[s] = "poll" => /\ waiterId[s] \in Id
                            /\ waiter[waiterId[s]].session = s
                            /\ ~waiter[waiterId[s]].completed

Found == {t \in Session : at[t] = "found"}

\* There is an id for every session that is about to register.
IdsLeft == Cardinality(Found) <= Cardinality(FreeIds)

Counted == active = Cardinality(Listed(Partition)) /\ active <= MaxWaiters

PollIInv == PollTypeOK /\ Waiters /\ Sessions /\ IdsLeft /\ Counted /\ MissesOnlyLate

-----------------------------------------------------------------------------
(* Facts about the operators of the model                                  *)

\* The waiters that are listed, for whatever partition.
OnList == {i \in Id : waiter[i].listed}

ListedIsOnList == Listed(Partition) = OnList

LEMMA ListedAll == Waiters => ListedIsOnList
BY Zenon DEF Waiters, ListedIsOnList, Listed, OnList

\* A set of natural numbers has a least element.
LEMMA LeastId ==
    ASSUME NEW T, T \subseteq Nat, T # {}
    PROVE  \E x \in T : \A y \in T : x <= y
  <1>1. IsWellFoundedOn(OpToRel(<, Nat), Nat)  BY NatLessThanWellFounded, Zenon
  <1>2. PICK x \in T : \A y \in T : ~(<<y, x>> \in OpToRel(<, Nat))
    BY <1>1, WFMin, Zenon
  <1>3. ASSUME NEW y \in T PROVE x <= y
    <2>1. x \in Nat /\ y \in Nat  OBVIOUS
    <2>2. ~(y < x)
      <3>1. <<y, x>> \in Nat \X Nat  BY <2>1
      <3> QED  BY <1>2, <3>1 DEF OpToRel
    <2> QED  BY <2>1, <2>2
  <1> QED  BY <1>3

\* Sets of sessions and of waiter ids are finite.
LEMMA Finite ==
    /\ \A S \in SUBSET Id : IsFiniteSet(S) /\ Cardinality(S) \in Nat
    /\ \A S \in SUBSET Session : IsFiniteSet(S) /\ Cardinality(S) \in Nat
BY PollAssumption, FS_Subset, FS_CardinalityType, Zenon

\* The record of an id nothing refers to.
LEMMA FreeFields ==
    /\ Free \in Waiter
    /\ Free.call = "none" /\ Free.timer = "off" /\ Free.listed = FALSE
    /\ Free.completed = TRUE
BY DEF Free, Waiter

\* What is left of a waiter that is answered is completed and not listed, and
\* still knows its session if something refers to it.
LEMMA RestFields ==
    ASSUME NEW r \in Waiter
    PROVE  /\ Rest(r) \in Waiter /\ Rest(r).completed = TRUE /\ Rest(r).listed = FALSE
           /\ Rest(r).call # "none" \/ Rest(r).timer # "off" => Rest(r).session = r.session
  <1>1. CASE r.call = "none" /\ r.timer = "off"
    <2>1. Rest(r) = Free  BY <1>1 DEF Rest
    <2> QED  BY <2>1, FreeFields
  <1>2. CASE ~(r.call = "none" /\ r.timer = "off")
    <2>1. Rest(r) = [r EXCEPT !.part = None, !.listed = FALSE, !.completed = TRUE]
      BY <1>2 DEF Rest
    <2> QED  BY <2>1 DEF Waiter
  <1> QED  BY <1>1, <1>2

\* A step that frees ids and gives up registrations leaves an id for each that is left.
LEMMA IdsStay ==
    ASSUME IdsLeft, FreeIds \subseteq FreeIds', Found' \subseteq Found
    PROVE  IdsLeft'
  <1>1. FreeIds \in SUBSET Id /\ FreeIds' \in SUBSET Id /\ Found \in SUBSET Session
    BY DEF FreeIds, Found
  <1>2. Cardinality(FreeIds) <= Cardinality(FreeIds')
    BY <1>1, Finite, FS_Subset, Zenon
  <1>3. Cardinality(Found') <= Cardinality(Found)
    BY <1>1, Finite, FS_Subset, Zenon
  <1>4. Found' \in SUBSET Session  BY <1>1
  <1>5. /\ Cardinality(FreeIds) \in Nat /\ Cardinality(FreeIds') \in Nat
        /\ Cardinality(Found) \in Nat /\ Cardinality(Found') \in Nat
    BY <1>1, <1>4, Finite, Zenon
  <1> QED  BY <1>2, <1>3, <1>5 DEF IdsLeft

\* active_long_poll_waiters_ counts the list, when no waiter leaves or enters it.
LEMMA CountStays ==
    ASSUME Waiters, Waiters', Counted, UNCHANGED active,
           \A i \in Id : waiter'[i].listed = waiter[i].listed
    PROVE  Counted'
  <1>1. OnList' = OnList  BY Zenon DEF OnList
  <1>2. Listed(Partition) = OnList  BY ListedAll, Zenon DEF ListedIsOnList
  <1>3. ListedIsOnList'  BY ListedAll, PTL
  <1> QED  BY <1>1, <1>2, <1>3, Zenon DEF Counted, ListedIsOnList

\* ... and when some are taken off it.
LEMMA CountFewer ==
    ASSUME PollTypeOK, Waiters, Waiters', Counted, NEW D, D \subseteq OnList,
           OnList' = OnList \ D, active' = Fewer(Cardinality(D))
    PROVE  Counted' /\ active' \in Nat
  <1>1. Listed(Partition) = OnList  BY ListedAll, Zenon DEF ListedIsOnList
  <1>2. ListedIsOnList'  BY ListedAll, PTL
  <1>3. OnList \in SUBSET Id /\ D \in SUBSET Id  BY Zenon DEF OnList
  <1>4. IsFiniteSet(OnList) /\ Cardinality(OnList) \in Nat /\ Cardinality(D) \in Nat
    BY <1>3, Finite, Zenon
  <1>5. Cardinality(OnList \ D) = Cardinality(OnList) - Cardinality(OnList \cap D)
    BY <1>4, FS_Difference, Zenon
  <1>6. Cardinality(OnList \ D) = Cardinality(OnList) - Cardinality(D)
    <2>1. OnList \cap D = D  BY Zenon
    <2> QED  BY <1>5, <2>1, Zenon
  <1>7. Cardinality(D) <= Cardinality(OnList)
    BY <1>4, FS_Subset, Zenon
  <1>8. active = Cardinality(OnList) /\ active <= MaxWaiters /\ MaxWaiters \in Nat
    BY <1>1, PollAssumption, Zenon DEF Counted
  <1>9. active' = Cardinality(OnList \ D) /\ active' <= MaxWaiters /\ active' \in Nat
    <2>1. active' = IF Cardinality(D) < active THEN active - Cardinality(D) ELSE 0
      BY Zenon DEF Fewer
    <2> QED  BY <2>1, <1>4, <1>6, <1>7, <1>8
  <1> QED  BY <1>2, <1>9, Zenon DEF Counted, ListedIsOnList

-----------------------------------------------------------------------------
(* The steps                                                               *)

\* Initially nothing is listed, and every id is free.
LEMMA PollInit == Init => PollIInv
  <1> SUFFICES ASSUME Init PROVE PollIInv  OBVIOUS
  <1>1. \A i \in Id : waiter[i] = Free /\ waiter[i].listed = FALSE /\ waiter[i].call = "none"
                      /\ waiter[i].timer = "off" /\ waiter[i].completed = TRUE
    BY FreeFields, Zenon DEF Init
  <1>2. PollTypeOK
    <2>1. Free \in Waiter /\ 0 \in Nat /\ FALSE \in BOOLEAN  BY FreeFields
    <2> QED  BY <2>1, Zenon DEF Init, PollTypeOK
  <1>3. Waiters  BY <1>1, Zenon DEF Waiters
  <1>4. \A s \in Session : at[s] = "idle" /\ owed[s] = 0 /\ waiterId[s] = None
    BY Zenon DEF Init
  <1>5. Sessions  BY <1>4 DEF Sessions
  <1>6. OnList = {}  BY <1>1, Zenon DEF OnList
  <1>7. Listed(Partition) = {}  BY <1>3, <1>6, ListedAll, Zenon DEF ListedIsOnList
  <1>8. Counted  BY <1>7, FS_EmptySet, PollAssumption DEF Counted, Init
  <1>9. MissesOnlyLate  BY <1>7, Zenon DEF MissesOnlyLate
  <1>10. IdsLeft
    <2>1. Found = {}  BY <1>4 DEF Found
    <2>2. FreeIds \in SUBSET Id  BY DEF FreeIds
    <2>3. Cardinality(FreeIds) \in Nat  BY <2>2, Finite, Zenon
    <2> QED  BY <2>1, <2>3, FS_EmptySet DEF IdsLeft
  <1> QED  BY <1>2, <1>3, <1>5, <1>8, <1>9, <1>10, Zenon DEF PollIInv

\* A fetch finds nothing.
LEMMA FetchStep ==
    ASSUME PollIInv, NEW s \in Session, NEW p \in Partition, Fetch(s, p)
    PROVE  PollIInv'
  <1>1. /\ at[s] = "idle" /\ at' = [at EXCEPT ![s] = "found"]
        /\ asked' = [asked EXCEPT ![s] = <<p, end[p]>>]
        /\ owed' = [owed EXCEPT ![s] = @ + 1]
        /\ end' = end /\ notices' = notices /\ deleted' = deleted /\ waiterId' = waiterId
        /\ waiter' = waiter /\ active' = active /\ late' = late
    BY Zenon DEF Fetch, logVars
  <1>2. PollTypeOK /\ Waiters /\ Sessions /\ IdsLeft /\ Counted /\ MissesOnlyLate
    BY Zenon DEF PollIInv
  <1>3. /\ at'[s] = "found" /\ asked'[s][1] = p /\ asked'[s][2] = end[p]
        /\ end[p] \in Nat /\ owed'[s] = owed[s] + 1
    BY <1>1, <1>2 DEF PollTypeOK
  <1>4. \A t \in Session \ {s} : at'[t] = at[t] /\ asked'[t] = asked[t] /\ owed'[t] = owed[t]
    BY <1>1, <1>2 DEF PollTypeOK
  <1>5. PollTypeOK'
    BY <1>1, <1>2, SMTT(30) DEF PollTypeOK
  <1>6. Waiters'
    <2>1. \A i \in Id : ~waiter[i].completed => waiter[i].session \in Session \ {s}
      BY <1>1, <1>2, SMTT(30) DEF Waiters
    <2>2. \A i \in Id : ~waiter[i].completed =>
                /\ at'[waiter[i].session] = at[waiter[i].session]
                /\ asked'[waiter[i].session] = asked[waiter[i].session]
      BY <2>1, <1>4, Zenon
    <2> QED  BY <2>2, <1>1, <1>2, SMTT(30) DEF Waiters
  <1>7. Sessions'
    <2>1. /\ owed'[s] = 1 /\ waiterId[s] = None /\ ~(end[p] < end[p])
      BY <1>1, <1>2, <1>3 DEF Sessions
    <2> QED  BY <2>1, <1>1, <1>2, <1>3, <1>4, SMTT(30) DEF Sessions
  <1>8. IdsLeft'
    <2>1. Cardinality(FreeIds) > Cardinality(Found)  BY DEF Fetch, Found
    <2>2. Found' = Found \cup {s}  BY <1>3, <1>4 DEF Found
    <2>3. FreeIds' = FreeIds  BY <1>1, Zenon DEF FreeIds
    <2>4. Found \in SUBSET Session /\ FreeIds \in SUBSET Id /\ s \notin Found
      BY <1>1 DEF Found, FreeIds
    <2>5. /\ IsFiniteSet(Found) /\ Cardinality(Found) \in Nat
          /\ Cardinality(FreeIds) \in Nat
      BY <2>4, Finite, Zenon
    <2>6. Cardinality(Found \cup {s}) = Cardinality(Found) + 1
      BY <2>4, <2>5, FS_AddElement, Zenon
    <2> QED  BY <2>1, <2>2, <2>3, <2>5, <2>6 DEF IdsLeft
  <1>9. Counted'
    BY <1>1, <1>2, <1>6, CountStays, Zenon
  <1>10. MissesOnlyLate'
    <2>1. Listed(Partition)' = Listed(Partition)  BY <1>1, Zenon DEF Listed
    <2>2. \A i \in Listed(Partition) : waiter[i].session \in Session \ {s}
      BY <1>1, <1>2, SMTT(30) DEF Waiters, Listed
    <2>3. end' = end /\ notices' = notices /\ late' = late /\ waiter' = waiter
      BY <1>1, Zenon
    <2>4. ASSUME NEW i \in Listed(Partition), asked'[waiter[i].session][2] < end[waiter[i].part]
          PROVE  notices[waiter[i].part] > 0 \/ waiter[i].session \in late
      <3>1. asked'[waiter[i].session] = asked[waiter[i].session]  BY <2>2, <1>4, Zenon
      <3>2. asked[waiter[i].session][2] < end[waiter[i].part]  BY <2>4, <3>1, Zenon
      <3>3. MissesOnlyLate  BY <1>2, Zenon
      <3> QED  BY <3>2, <3>3, Zenon DEF MissesOnlyLate
    <2> QED  BY <2>1, <2>3, <2>4, Zenon DEF MissesOnlyLate
  <1> QED  BY <1>5, <1>6, <1>7, <1>8, <1>9, <1>10, Zenon DEF PollIInv

\* Something refers to waiter i, or its fetch is not answered.
InUse(i) == waiter[i].call # "none" \/ waiter[i].timer # "off" \/ ~waiter[i].completed

\* A step that answers no fetch and lists no waiter: it moves callbacks and timers
\* along, or takes waiters off the list.
Moves ==
    /\ waiter' \in [Id -> Waiter]
    /\ at' = at /\ asked' = asked /\ waiterId' = waiterId /\ end' = end
    /\ owed' = owed /\ late' = late
    /\ FreeIds \subseteq FreeIds'
    /\ \A i \in Id :
          /\ waiter'[i].completed = waiter[i].completed
          /\ InUse(i)' => waiter'[i].session \in Session
          /\ ~waiter[i].completed => /\ waiter'[i].session = waiter[i].session
                                     /\ waiter'[i].part = waiter[i].part
          /\ waiter'[i].listed =>
                /\ waiter[i].listed /\ waiter'[i].call = "none"
                /\ notices'[waiter[i].part] = notices[waiter[i].part]

LEMMA MovesStep ==
    ASSUME PollIInv, Moves, active' \in Nat, notices' \in [Partition -> Nat],
           deleted' \in BOOLEAN
    PROVE  PollTypeOK' /\ Waiters' /\ Sessions' /\ IdsLeft' /\ MissesOnlyLate'
  <1>1. PollTypeOK /\ Waiters /\ Sessions /\ IdsLeft /\ MissesOnlyLate
    BY Zenon DEF PollIInv
  <1>2. /\ waiter' \in [Id -> Waiter]
        /\ at' = at /\ asked' = asked /\ waiterId' = waiterId /\ end' = end
        /\ owed' = owed /\ late' = late /\ FreeIds \subseteq FreeIds'
    BY Zenon DEF Moves
  <1>3. ASSUME NEW i \in Id
        PROVE  /\ waiter'[i].completed = waiter[i].completed
               /\ InUse(i)' => waiter'[i].session \in Session
               /\ ~waiter[i].completed => /\ waiter'[i].session = waiter[i].session
                                          /\ waiter'[i].part = waiter[i].part
               /\ waiter'[i].listed =>
                     /\ waiter[i].listed /\ waiter'[i].call = "none"
                     /\ notices'[waiter[i].part] = notices[waiter[i].part]
    BY Zenon DEF Moves
  <1>4. PollTypeOK'  BY <1>1, <1>2, Zenon DEF PollTypeOK
  <1>5. Waiters'
    <2> SUFFICES ASSUME NEW i \in Id
                 PROVE  /\ InUse(i)' => waiter'[i].session \in Session
                        /\ waiter'[i].listed => ~waiter'[i].completed /\ waiter'[i].call = "none"
                        /\ ~waiter'[i].completed =>
                              /\ waiter'[i].part \in Partition
                              /\ at'[waiter'[i].session] = "poll"
                              /\ waiterId'[waiter'[i].session] = i
                              /\ asked'[waiter'[i].session][1] = waiter'[i].part
      BY Zenon DEF Waiters, InUse
    <2>1. /\ waiter[i].listed => ~waiter[i].completed
          /\ ~waiter[i].completed =>
                /\ waiter[i].part \in Partition
                /\ at[waiter[i].session] = "poll"
                /\ waiterId[waiter[i].session] = i
                /\ asked[waiter[i].session][1] = waiter[i].part
      BY <1>1, Zenon DEF Waiters
    <2> QED  BY <2>1, <1>2, <1>3, Zenon
  <1>6. Sessions'
    <2>1. ASSUME NEW s \in Session, at[s] = "poll"
          PROVE  /\ waiterId[s] \in Id /\ waiter'[waiterId[s]].session = s
                 /\ ~waiter'[waiterId[s]].completed
      BY <2>1, <1>1, <1>3, Zenon DEF Sessions
    <2> QED  BY <2>1, <1>1, <1>2, Zenon DEF Sessions
  <1>7. IdsLeft'
    <2>1. Found' \subseteq Found  BY <1>2, Zenon DEF Found
    <2> QED  BY <2>1, <1>1, <1>2, IdsStay, Zenon
  <1>8. MissesOnlyLate'
    <2> SUFFICES ASSUME NEW i \in Listed(Partition)',
                        asked'[waiter'[i].session][2] < end'[waiter'[i].part]
                 PROVE  notices'[waiter'[i].part] > 0 \/ waiter'[i].session \in late'
      BY Zenon DEF MissesOnlyLate
    <2>1. i \in Id /\ waiter'[i].listed /\ waiter[i].listed /\ ~waiter[i].completed
          /\ waiter[i].part \in Partition
      BY <1>1, <1>3, Zenon DEF Listed, Waiters
    <2>2. i \in Listed(Partition)  BY <2>1, Zenon DEF Listed
    <2>3. waiter'[i].session = waiter[i].session /\ waiter'[i].part = waiter[i].part
          /\ notices'[waiter[i].part] = notices[waiter[i].part]
      BY <2>1, <1>3, Zenon
    <2> QED  BY <2>2, <2>3, <1>1, <1>2, Zenon DEF MissesOnlyLate
  <1> QED  BY <1>4, <1>5, <1>6, <1>7, <1>8, Zenon

\* A step that answers session s: the waiter it had, if any, is completed.
Answers(s) ==
    /\ Answered(s) /\ at[s] # "idle"
    /\ waiter' \in [Id -> Waiter]
    /\ waiterId' = [waiterId EXCEPT ![s] = None]
    /\ end' = end /\ notices' = notices /\ deleted' = deleted
    /\ FreeIds \subseteq FreeIds'
    /\ \A i \in Id :
          \/ waiter'[i] = waiter[i] /\ (~waiter[i].completed => waiter[i].session # s)
          \/ /\ waiter'[i].completed /\ ~waiter'[i].listed
             /\ InUse(i)' => waiter'[i].session \in Session
             /\ waiter[i].session = s

LEMMA AnswersStep ==
    ASSUME PollIInv, NEW s \in Session, Answers(s), active' \in Nat
    PROVE  PollTypeOK' /\ Waiters' /\ Sessions' /\ IdsLeft' /\ MissesOnlyLate'
  <1>1. PollTypeOK /\ Waiters /\ Sessions /\ IdsLeft /\ MissesOnlyLate
    BY Zenon DEF PollIInv
  <1>2. /\ waiter' \in [Id -> Waiter] /\ end' = end /\ notices' = notices /\ at[s] # "idle"
        /\ deleted' = deleted /\ FreeIds \subseteq FreeIds' /\ late' = late \ {s}
        /\ at' = [at EXCEPT ![s] = "idle"] /\ waiterId' = [waiterId EXCEPT ![s] = None]
        /\ asked' = [asked EXCEPT ![s] = <<>>] /\ owed' = [owed EXCEPT ![s] = @ - 1]
    BY Zenon DEF Answers, Answered
  <1>3. owed[s] = 1  BY <1>1, <1>2, Zenon DEF Sessions
  <1>4. at'[s] = "idle" /\ waiterId'[s] = None /\ owed'[s] = 0
    BY <1>1, <1>2, <1>3, SMTT(30) DEF PollTypeOK
  <1>5. \A t \in Session : t # s => /\ at'[t] = at[t] /\ waiterId'[t] = waiterId[t]
                                    /\ asked'[t] = asked[t] /\ owed'[t] = owed[t]
    BY <1>1, <1>2, Zenon DEF PollTypeOK
  <1>6. ASSUME NEW i \in Id
        PROVE  \/ waiter'[i] = waiter[i] /\ (~waiter[i].completed => waiter[i].session # s)
               \/ /\ waiter'[i].completed /\ ~waiter'[i].listed
                  /\ InUse(i)' => waiter'[i].session \in Session
                  /\ waiter[i].session = s
    BY Zenon DEF Answers
  <1>7. PollTypeOK'
    <2>1. owed' \in [Session -> Nat]  BY <1>1, <1>2, <1>3, SMTT(30) DEF PollTypeOK
    <2>2. /\ at' \in [Session -> {"idle", "found", "poll"}] /\ DOMAIN asked' = Session
          /\ waiterId' \in [Session -> Id \cup {None}] /\ late' \subseteq Session
      BY <1>1, <1>2, SMTT(30) DEF PollTypeOK
    <2> QED  BY <2>1, <2>2, <1>1, <1>2, Zenon DEF PollTypeOK
  <1>8. Waiters'
    <2> SUFFICES ASSUME NEW i \in Id
                 PROVE  /\ InUse(i)' => waiter'[i].session \in Session
                        /\ waiter'[i].listed => ~waiter'[i].completed /\ waiter'[i].call = "none"
                        /\ ~waiter'[i].completed =>
                              /\ waiter'[i].part \in Partition
                              /\ at'[waiter'[i].session] = "poll"
                              /\ waiterId'[waiter'[i].session] = i
                              /\ asked'[waiter'[i].session][1] = waiter'[i].part
      BY Zenon DEF Waiters, InUse
    <2>1. CASE waiter'[i] = waiter[i] /\ (~waiter[i].completed => waiter[i].session # s)
      <3>1. /\ InUse(i) => waiter[i].session \in Session
            /\ waiter[i].listed => ~waiter[i].completed /\ waiter[i].call = "none"
            /\ ~waiter[i].completed =>
                  /\ waiter[i].part \in Partition
                  /\ at[waiter[i].session] = "poll"
                  /\ waiterId[waiter[i].session] = i
                  /\ asked[waiter[i].session][1] = waiter[i].part
                  /\ waiter[i].session \in Session
        BY <1>1, Zenon DEF Waiters, InUse
      <3>2. InUse(i)' = InUse(i)  BY <2>1, Zenon DEF InUse
      <3> QED  BY <2>1, <3>1, <3>2, <1>5, Zenon
    <2>2. CASE /\ waiter'[i].completed /\ ~waiter'[i].listed
               /\ InUse(i)' => waiter'[i].session \in Session
      BY <2>2, Zenon
    <2> QED  BY <2>1, <2>2, <1>6, Zenon
  <1>9. Sessions'
    <2>1. ASSUME NEW t \in Session, at'[t] = "poll"
          PROVE  /\ waiterId'[t] \in Id /\ waiter'[waiterId'[t]].session = t
                 /\ ~waiter'[waiterId'[t]].completed
      <3>1. t # s  BY <2>1, <1>4
      <3>2. /\ waiterId'[t] = waiterId[t] /\ waiterId[t] \in Id
            /\ waiter[waiterId[t]].session = t /\ ~waiter[waiterId[t]].completed
        BY <2>1, <3>1, <1>1, <1>5, Zenon DEF Sessions
      <3>3. waiter'[waiterId[t]] = waiter[waiterId[t]]
        BY <3>1, <3>2, <1>6, Zenon
      <3> QED  BY <3>2, <3>3, Zenon
    <2>2. \A t \in Session : late' = late \ {s} /\ (t # s /\ t \in late => t \in late')
      BY <1>2, Zenon
    <2>3. ASSUME NEW t \in Session, t # s
          PROVE  /\ owed'[t] = IF at'[t] = "idle" THEN 0 ELSE 1
                 /\ at'[t] # "idle" => asked'[t][1] \in Partition /\ asked'[t][2] \in Nat
                 /\ at'[t] = "found" /\ asked'[t][2] < end'[asked'[t][1]] => t \in late'
                 /\ at'[t] # "poll" => waiterId'[t] = None
      <3>1. /\ owed[t] = IF at[t] = "idle" THEN 0 ELSE 1
            /\ at[t] # "idle" => asked[t][1] \in Partition /\ asked[t][2] \in Nat
            /\ at[t] = "found" /\ asked[t][2] < end[asked[t][1]] => t \in late
            /\ at[t] # "poll" => waiterId[t] = None
        BY <1>1, Zenon DEF Sessions
      <3>2. /\ at'[t] = at[t] /\ waiterId'[t] = waiterId[t] /\ asked'[t] = asked[t]
            /\ owed'[t] = owed[t] /\ end' = end
        BY <2>3, <1>2, <1>5, Zenon
      <3> QED  BY <3>1, <3>2, <2>2, <2>3, SMTT(30)
    <2>4. /\ owed'[s] = IF at'[s] = "idle" THEN 0 ELSE 1
          /\ at'[s] # "idle" => asked'[s][1] \in Partition /\ asked'[s][2] \in Nat
          /\ at'[s] = "found" /\ asked'[s][2] < end'[asked'[s][1]] => s \in late'
          /\ at'[s] # "poll" => waiterId'[s] = None
      BY <1>4, Zenon
    <2> QED  BY <2>1, <2>3, <2>4, Zenon DEF Sessions
  <1>10. IdsLeft'
    <2>1. Found' \subseteq Found  BY <1>4, <1>5, Zenon DEF Found
    <2> QED  BY <2>1, <1>1, <1>2, IdsStay, Zenon
  <1>11. MissesOnlyLate'
    <2> SUFFICES ASSUME NEW i \in Listed(Partition)',
                        asked'[waiter'[i].session][2] < end'[waiter'[i].part]
                 PROVE  notices'[waiter'[i].part] > 0 \/ waiter'[i].session \in late'
      BY Zenon DEF MissesOnlyLate
    <2>1. i \in Id /\ waiter'[i].listed  BY Zenon DEF Listed
    <2>2. waiter'[i] = waiter[i] /\ (~waiter[i].completed => waiter[i].session # s)
      BY <2>1, <1>6, Zenon
    <2>3. /\ waiter[i].session # s /\ waiter[i].session \in Session
          /\ waiter[i].part \in Partition /\ i \in Listed(Partition)
      BY <2>1, <2>2, <1>1, Zenon DEF Waiters, Listed
    <2>4. notices[waiter[i].part] > 0 \/ waiter[i].session \in late
      BY <2>2, <2>3, <1>1, <1>2, <1>5, Zenon DEF MissesOnlyLate
    <2> QED  BY <2>2, <2>3, <2>4, <1>2, Zenon
  <1> QED  BY <1>7, <1>8, <1>9, <1>10, <1>11, Zenon

\* register_long_poll refuses the fetch.
LEMMA RefuseStep ==
    ASSUME PollIInv, NEW s \in Session, Refuse(s)
    PROVE  PollIInv'
  <1>1. PollTypeOK /\ Waiters /\ Sessions /\ Counted  BY Zenon DEF PollIInv
  <1>2. /\ at[s] = "found" /\ Answered(s) /\ waiter' = waiter /\ waiterId' = waiterId
        /\ end' = end /\ notices' = notices /\ deleted' = deleted /\ active' = active
    BY Zenon DEF Refuse, logVars
  <1>3. Answers(s)
    <2>1. waiterId[s] = None  BY <1>1, <1>2 DEF Sessions
    <2>2. waiterId' = [waiterId EXCEPT ![s] = None]
      BY <2>1, <1>1, <1>2, SMTT(30) DEF PollTypeOK
    <2>3. FreeIds' = FreeIds  BY <1>2, Zenon DEF FreeIds
    <2>4. \A i \in Id : ~waiter[i].completed => waiter[i].session # s
      BY <1>1, <1>2, SMTT(30) DEF Waiters
    <2>5. at[s] # "idle"  BY <1>2
    <2> QED  BY <2>2, <2>3, <2>4, <2>5, <1>1, <1>2, Zenon DEF Answers, PollTypeOK
  <1>4. active' \in Nat  BY <1>1, <1>2, Zenon DEF PollTypeOK
  <1>5. PollTypeOK' /\ Waiters' /\ Sessions' /\ IdsLeft' /\ MissesOnlyLate'
    BY <1>3, <1>4, AnswersStep, Zenon
  <1>6. Counted'
    BY <1>1, <1>2, <1>5, CountStays, Zenon
  <1> QED  BY <1>5, <1>6, Zenon DEF PollIInv

\* Waiters are taken off the list, and are about to be called.
LEMMA UnlistStep ==
    ASSUME PollIInv, NEW ps, ps \subseteq Partition, Unlist(ps),
           at' = at, asked' = asked, waiterId' = waiterId, end' = end, owed' = owed,
           late' = late, notices' \in [Partition -> Nat], deleted' \in BOOLEAN,
           \A p \in Partition \ ps : notices'[p] = notices[p]
    PROVE  PollIInv'
  <1>1. PollTypeOK /\ Waiters /\ Sessions /\ Counted  BY Zenon DEF PollIInv
  <1>2. waiter \in [Id -> Waiter]  BY <1>1, Zenon DEF PollTypeOK
  <1>3. \A i \in Id : /\ i \in Listed(ps) <=> waiter[i].listed /\ waiter[i].part \in ps
                      /\ waiter[i].listed => waiter[i].part \in Partition
    BY <1>1, Zenon DEF Listed, Waiters
  <1>4. ASSUME NEW i \in Id, i \in Listed(ps)
        PROVE  /\ waiter'[i] \in Waiter /\ ~waiter'[i].listed /\ waiter'[i].call = "called"
               /\ waiter'[i].completed = waiter[i].completed
               /\ waiter'[i].session = waiter[i].session /\ waiter'[i].part = waiter[i].part
    <2>1. waiter'[i] = [waiter[i] EXCEPT !.listed = FALSE, !.call = "called"]
      BY <1>4, Zenon DEF Unlist
    <2>2. waiter[i] \in Waiter  BY <1>2
    <2> QED  BY <2>1, <2>2 DEF Waiter
  <1>5. ASSUME NEW i \in Id, i \notin Listed(ps)
        PROVE  waiter'[i] = waiter[i]
    BY <1>5, Zenon DEF Unlist
  <1>6. waiter' \in [Id -> Waiter]
    <2>1. \A i \in Id : waiter'[i] \in Waiter  BY <1>2, <1>4, <1>5, Zenon
    <2>2. waiter' = [i \in Id |-> IF i \in Listed(ps)
                               THEN [waiter[i] EXCEPT !.listed = FALSE, !.call = "called"]
                               ELSE waiter[i]]
      BY Zenon DEF Unlist
    <2> HIDE DEF Waiter
    <2> QED  BY <2>1, <2>2, Zenon
  <1>7. Moves
    <2>1. FreeIds \subseteq FreeIds'
      <3>1. \A i \in FreeIds : i \in Id /\ waiter[i] = Free /\ waiter[i].listed = FALSE
        BY FreeFields, Zenon DEF FreeIds
      <3>2. \A i \in FreeIds : waiter'[i] = Free  BY <3>1, <1>3, <1>5, Zenon
      <3> QED  BY <3>1, <3>2, Zenon DEF FreeIds
    <2>2. ASSUME NEW i \in Id
          PROVE  /\ waiter'[i].completed = waiter[i].completed
                 /\ InUse(i)' => waiter'[i].session \in Session
                 /\ ~waiter[i].completed => /\ waiter'[i].session = waiter[i].session
                                            /\ waiter'[i].part = waiter[i].part
                 /\ waiter'[i].listed =>
                       /\ waiter[i].listed /\ waiter'[i].call = "none"
                       /\ notices'[waiter[i].part] = notices[waiter[i].part]
      <3>1. /\ InUse(i) => waiter[i].session \in Session
            /\ waiter[i].listed => ~waiter[i].completed /\ waiter[i].call = "none"
        BY <1>1, Zenon DEF Waiters, InUse
      <3>2. CASE i \in Listed(ps)
        <4>1. InUse(i)  BY <3>1, <3>2, <1>3, Zenon DEF InUse
        <4> QED  BY <4>1, <3>1, <3>2, <1>4, Zenon
      <3>3. CASE i \notin Listed(ps)
        <4>1. waiter'[i] = waiter[i]  BY <3>3, <1>5, Zenon
        <4>2. InUse(i)' = InUse(i)  BY <4>1, Zenon DEF InUse
        <4>3. waiter[i].listed => waiter[i].part \in Partition \ ps  BY <3>3, <1>3, Zenon
        <4> QED  BY <4>1, <4>2, <4>3, <3>1, Zenon
      <3> QED  BY <3>2, <3>3, Zenon
    <2> QED  BY <2>1, <2>2, <1>6, Zenon DEF Moves
  <1>8. PICK D : D = Listed(ps)  BY Zenon
  <1>9. D \subseteq OnList  BY <1>8, Zenon DEF Listed, OnList
  <1>10. OnList' = OnList \ D
    <2>1. \A i \in Id : waiter'[i].listed <=> waiter[i].listed /\ i \notin D
      BY <1>4, <1>5, <1>8, Zenon
    <2> QED  BY <2>1, Zenon DEF OnList
  <1>11. active' = Fewer(Cardinality(D))  BY <1>8, Zenon DEF Unlist
  <1>12. active' \in Nat
    <2>1. D \in SUBSET Id /\ active \in Nat  BY <1>1, <1>8, Zenon DEF Listed, PollTypeOK
    <2>2. Cardinality(D) \in Nat  BY <2>1, Finite, Zenon
    <2>3. active' = IF Cardinality(D) < active THEN active - Cardinality(D) ELSE 0
      BY <1>11, Zenon DEF Fewer
    <2> QED  BY <2>1, <2>2, <2>3
  <1>13. PollTypeOK' /\ Waiters' /\ Sessions' /\ IdsLeft' /\ MissesOnlyLate'
    BY <1>7, <1>12, MovesStep, Zenon
  <1>14. Counted'  BY <1>1, <1>9, <1>10, <1>11, <1>13, CountFewer, Zenon
  <1> QED  BY <1>13, <1>14, Zenon DEF PollIInv

\* notify_fetch_waiters, after an append.
LEMMA NotifyStep ==
    ASSUME PollIInv, NEW p \in Partition, Notify(p)
    PROVE  PollIInv'
  <1>1. PollTypeOK  BY Zenon DEF PollIInv
  <1>2. /\ notices[p] > 0 /\ notices' = [notices EXCEPT ![p] = @ - 1] /\ Unlist({p})
        /\ at' = at /\ asked' = asked /\ waiterId' = waiterId /\ end' = end /\ owed' = owed
        /\ late' = late /\ deleted' = deleted
    BY Zenon DEF Notify, histVars
  <1>3. notices' \in [Partition -> Nat] /\ \A q \in Partition \ {p} : notices'[q] = notices[q]
    BY <1>1, <1>2 DEF PollTypeOK
  <1>4. deleted' \in BOOLEAN /\ {p} \subseteq Partition  BY <1>1, <1>2, Zenon DEF PollTypeOK
  <1> QED  BY <1>2, <1>3, <1>4, UnlistStep, Zenon

\* ... and from delete_topic.
LEMMA DeleteStep ==
    ASSUME PollIInv, Delete
    PROVE  PollIInv'
  <1>1. PollTypeOK  BY Zenon DEF PollIInv
  <1>2. /\ deleted' = TRUE /\ notices' = notices /\ Unlist(Partition)
        /\ at' = at /\ asked' = asked /\ waiterId' = waiterId /\ end' = end /\ owed' = owed
        /\ late' = late
    BY Zenon DEF Delete, histVars
  <1>3. /\ notices' \in [Partition -> Nat] /\ deleted' \in BOOLEAN
        /\ \A q \in Partition \ Partition : notices'[q] = notices[q]
    BY <1>1, <1>2, Zenon DEF PollTypeOK
  <1> QED  BY <1>2, <1>3, UnlistStep, Zenon

\* register_long_poll lists a waiter under an id that was free.
LEMMA RegisterStep ==
    ASSUME PollIInv, NEW s \in Session, Register(s)
    PROVE  PollIInv'
  <1>1. PollTypeOK /\ Waiters /\ Sessions /\ IdsLeft /\ Counted /\ MissesOnlyLate
    BY Zenon DEF PollIInv
  <1>2. PICK i \in FreeIds : i = CHOOSE j \in FreeIds : \A k \in FreeIds : j <= k
    <2>1. s \in Found /\ Found \in SUBSET Session /\ FreeIds \in SUBSET Id
      BY Zenon DEF Register, Found, FreeIds
    <2>2. /\ IsFiniteSet(Found) /\ Cardinality(Found) \in Nat
          /\ IsFiniteSet(FreeIds) /\ Cardinality(FreeIds) \in Nat
      BY <2>1, Finite, Zenon
    <2>3. Cardinality(Found) # 0  BY <2>1, <2>2, FS_EmptySet, Zenon
    <2>4. Cardinality(FreeIds) # 0  BY <2>2, <2>3, <1>1 DEF IdsLeft
    <2>5. FreeIds # {}  BY <2>4, FS_EmptySet, Zenon
    <2>6. FreeIds \subseteq Nat  BY <2>1, PollAssumption
    <2>7. \E j \in FreeIds : \A k \in FreeIds : j <= k  BY <2>5, <2>6, LeastId, Zenon
    <2> QED  BY <2>7, Zenon
  <1>3. PICK x : x = [session |-> s, part |-> asked[s][1], call |-> "none", timer |-> "armed",
                      listed |-> TRUE, completed |-> FALSE]
    BY Zenon
  <1>4. /\ at[s] = "found" /\ active < MaxWaiters /\ waiterId[s] = None
        /\ waiter' = [waiter EXCEPT ![i] = x] /\ active' = active + 1
        /\ waiterId' = [waiterId EXCEPT ![s] = i] /\ at' = [at EXCEPT ![s] = "poll"]
        /\ end' = end /\ notices' = notices /\ deleted' = deleted /\ asked' = asked
        /\ owed' = owed /\ late' = late
    BY <1>2, <1>3, Zenon DEF Register, logVars, histVars
  <1>5. /\ i \in Id /\ waiter[i] = Free /\ ~waiter[i].listed /\ waiter[i].completed
    BY FreeFields, Zenon DEF FreeIds
  <1>6. /\ x \in Waiter /\ x.session = s /\ x.part = asked[s][1] /\ x.call = "none"
        /\ x.listed = TRUE /\ x.completed = FALSE /\ x.part \in Partition
        /\ asked[s][2] \in Nat
    <2>1. asked[s][1] \in Partition /\ asked[s][2] \in Nat
      BY <1>1, <1>4 DEF Sessions
    <2> QED  BY <1>3, <2>1 DEF Waiter
  <1>7. /\ waiter'[i] = x /\ at'[s] = "poll" /\ waiterId'[s] = i
        /\ \A j \in Id : j # i => waiter'[j] = waiter[j]
        /\ \A t \in Session : t # s => at'[t] = at[t] /\ waiterId'[t] = waiterId[t]
    BY <1>1, <1>4, <1>5, Zenon DEF PollTypeOK
  <1>8. PollTypeOK'
    <2>1. active' \in Nat  BY <1>1, <1>4, SMTT(30) DEF PollTypeOK
    <2>2. /\ at' \in [Session -> {"idle", "found", "poll"}]
          /\ waiterId' \in [Session -> Id \cup {None}]
      BY <1>1, <1>4, <1>5, SMTT(30) DEF PollTypeOK
    <2>3. waiter' \in [Id -> Waiter]
      BY <1>1, <1>4, <1>5, <1>6, Zenon DEF PollTypeOK
    <2> QED  BY <2>1, <2>2, <2>3, <1>1, <1>4, Zenon DEF PollTypeOK
  <1>9. \A j \in Id : ~waiter[j].completed => waiter[j].session # s /\ waiter[j].session \in Session
    BY <1>1, <1>4, SMTT(30) DEF Waiters
  <1>10. Waiters'
    <2> SUFFICES ASSUME NEW j \in Id
                 PROVE  /\ InUse(j)' => waiter'[j].session \in Session
                        /\ waiter'[j].listed => ~waiter'[j].completed /\ waiter'[j].call = "none"
                        /\ ~waiter'[j].completed =>
                              /\ waiter'[j].part \in Partition
                              /\ at'[waiter'[j].session] = "poll"
                              /\ waiterId'[waiter'[j].session] = j
                              /\ asked'[waiter'[j].session][1] = waiter'[j].part
      BY Zenon DEF Waiters, InUse
    <2>1. CASE j = i
      <3>1. waiter'[j] = x  BY <2>1, <1>7, Zenon
      <3>2. at'[s] = "poll" /\ waiterId'[s] = j /\ asked'[s][1] = x.part
        BY <2>1, <1>4, <1>6, <1>7, Zenon
      <3>3. /\ x.session = s /\ x.part \in Partition /\ ~x.completed /\ x.call = "none"
        BY <1>6, Zenon
      <3> QED  BY <3>1, <3>2, <3>3, Zenon
    <2>2. CASE j # i
      <3>1. /\ InUse(j) => waiter[j].session \in Session
            /\ waiter[j].listed => ~waiter[j].completed /\ waiter[j].call = "none"
            /\ ~waiter[j].completed =>
                  /\ waiter[j].part \in Partition
                  /\ at[waiter[j].session] = "poll"
                  /\ waiterId[waiter[j].session] = j
                  /\ asked[waiter[j].session][1] = waiter[j].part
        BY <1>1, Zenon DEF Waiters, InUse
      <3>2. waiter'[j] = waiter[j]  BY <2>2, <1>7, Zenon
      <3>3. InUse(j)' = InUse(j)  BY <3>2, Zenon DEF InUse
      <3> QED  BY <3>1, <3>2, <3>3, <1>4, <1>7, <1>9, Zenon
    <2> QED  BY <2>1, <2>2, Zenon
  <1>11. Sessions'
    <2>1. ASSUME NEW t \in Session, t # s
          PROVE  /\ owed'[t] = IF at'[t] = "idle" THEN 0 ELSE 1
                 /\ at'[t] # "idle" => asked'[t][1] \in Partition /\ asked'[t][2] \in Nat
                 /\ at'[t] = "found" /\ asked'[t][2] < end'[asked'[t][1]] => t \in late'
                 /\ at'[t] # "poll" => waiterId'[t] = None
                 /\ at'[t] = "poll" => /\ waiterId'[t] \in Id
                                       /\ waiter'[waiterId'[t]].session = t
                                       /\ ~waiter'[waiterId'[t]].completed
      <3>1. /\ owed[t] = IF at[t] = "idle" THEN 0 ELSE 1
            /\ at[t] # "idle" => asked[t][1] \in Partition /\ asked[t][2] \in Nat
            /\ at[t] = "found" /\ asked[t][2] < end[asked[t][1]] => t \in late
            /\ at[t] # "poll" => waiterId[t] = None
            /\ at[t] = "poll" => /\ waiterId[t] \in Id
                                 /\ waiter[waiterId[t]].session = t
                                 /\ ~waiter[waiterId[t]].completed
        BY <1>1, Zenon DEF Sessions
      <3>2. at'[t] = at[t] /\ waiterId'[t] = waiterId[t]  BY <2>1, <1>7, Zenon
      <3>3. at[t] = "poll" => waiter'[waiterId[t]] = waiter[waiterId[t]]
        BY <3>1, <1>5, <1>7, Zenon
      <3> QED  BY <3>1, <3>2, <3>3, <1>4, Zenon
    <2>2. /\ owed'[s] = IF at'[s] = "idle" THEN 0 ELSE 1
          /\ at'[s] # "idle" => asked'[s][1] \in Partition /\ asked'[s][2] \in Nat
          /\ at'[s] # "found" /\ at'[s] = "poll"
          /\ waiterId'[s] \in Id
          /\ waiter'[waiterId'[s]].session = s
          /\ ~waiter'[waiterId'[s]].completed
      <3>1. owed[s] = 1  BY <1>1, <1>4 DEF Sessions
      <3>2. at'[s] # "idle" /\ at'[s] # "found"  BY <1>7
      <3> QED  BY <3>1, <3>2, <1>4, <1>5, <1>6, <1>7, Zenon
    <2> QED  BY <2>1, <2>2, Zenon DEF Sessions
  <1>12. IdsLeft'
    <2>1. Found' = Found \ {s} /\ s \in Found /\ Found \in SUBSET Session
      BY <1>4, <1>7 DEF Found
    <2>2. FreeIds \ {i} \subseteq FreeIds' /\ FreeIds' \in SUBSET Id /\ FreeIds \in SUBSET Id
      BY <1>7, Zenon DEF FreeIds
    <2>3. /\ IsFiniteSet(Found) /\ Cardinality(Found) \in Nat
          /\ IsFiniteSet(FreeIds) /\ Cardinality(FreeIds) \in Nat
          /\ IsFiniteSet(FreeIds') /\ Cardinality(FreeIds') \in Nat
      BY <2>1, <2>2, Finite, Zenon
    <2>4. Cardinality(Found') = Cardinality(Found) - 1
      BY <2>1, <2>3, FS_RemoveElement, Zenon
    <2>5. Cardinality(FreeIds \ {i}) = Cardinality(FreeIds) - 1
      BY <2>3, FS_RemoveElement, Zenon
    <2>6. Cardinality(FreeIds \ {i}) <= Cardinality(FreeIds')
      BY <2>2, <2>3, FS_Subset, Zenon
    <2> QED  BY <2>3, <2>4, <2>5, <2>6, <1>1 DEF IdsLeft
  <1>13. Counted'
    <2>1. OnList' = OnList \cup {i} /\ i \notin OnList /\ OnList \in SUBSET Id
      BY <1>5, <1>6, <1>7, Zenon DEF OnList
    <2>2. Listed(Partition) = OnList  BY <1>1, ListedAll, Zenon DEF ListedIsOnList
    <2>3. ListedIsOnList'  BY <1>10, ListedAll, PTL
    <2>4. IsFiniteSet(OnList) /\ Cardinality(OnList) \in Nat  BY <2>1, Finite, Zenon
    <2>5. Cardinality(OnList') = Cardinality(OnList) + 1
      BY <2>1, <2>4, FS_AddElement, Zenon
    <2>6. active = Cardinality(OnList) /\ active < MaxWaiters /\ MaxWaiters \in Nat
      BY <2>2, <1>1, <1>4, PollAssumption, Zenon DEF Counted
    <2>7. active' = Cardinality(OnList') /\ active' <= MaxWaiters
      BY <2>4, <2>5, <2>6, <1>4
    <2> QED  BY <2>3, <2>7, Zenon DEF Counted, ListedIsOnList
  <1>14. MissesOnlyLate'
    <2> SUFFICES ASSUME NEW j \in Listed(Partition)',
                        asked'[waiter'[j].session][2] < end'[waiter'[j].part]
                 PROVE  notices'[waiter'[j].part] > 0 \/ waiter'[j].session \in late'
      BY Zenon DEF MissesOnlyLate
    <2>1. j \in Id /\ waiter'[j].listed /\ waiter'[j].part \in Partition  BY Zenon DEF Listed
    <2>2. CASE j = i
      <3>1. waiter'[j].session = s /\ waiter'[j].part = asked[s][1]
        BY <2>2, <1>6, <1>7, Zenon
      <3>2. asked[s][2] < end[asked[s][1]]  BY <3>1, <1>4, Zenon
      <3>3. s \in late  BY <3>2, <1>1, <1>4, Zenon DEF Sessions
      <3> QED  BY <3>1, <3>3, <1>4, Zenon
    <2>3. CASE j # i
      <3>1. waiter'[j] = waiter[j]  BY <2>1, <2>3, <1>7, Zenon
      <3>2. j \in Listed(Partition)  BY <2>1, <3>1, Zenon DEF Listed
      <3>3. asked[waiter[j].session][2] < end[waiter[j].part]  BY <3>1, <1>4, Zenon
      <3>4. notices[waiter[j].part] > 0 \/ waiter[j].session \in late
        BY <3>2, <3>3, <1>1, Zenon DEF MissesOnlyLate
      <3>5. notices' = notices /\ late' = late  BY <1>4, Zenon
      <3> QED  BY <3>1, <3>4, <3>5, Zenon
    <2> QED  BY <2>2, <2>3, Zenon
  <1> QED  BY <1>8, <1>10, <1>11, <1>12, <1>13, <1>14, Zenon DEF PollIInv

\* An append, whose notice is still to come or will not come.
LEMMA AppendStep ==
    ASSUME PollIInv, NEW p \in Partition, NEW notify \in BOOLEAN, AppendRecord(p, notify)
    PROVE  PollIInv'
  <1>1. PollTypeOK /\ Waiters /\ Sessions /\ IdsLeft /\ Counted /\ MissesOnlyLate
    BY Zenon DEF PollIInv
  <1>2. /\ end' = [end EXCEPT ![p] = @ + 1]
        /\ notices' = [notices EXCEPT ![p] = IF notify THEN @ + 1 ELSE @]
        /\ late' = late \cup {s \in Session : /\ at[s] # "idle" /\ asked[s][1] = p
                                              /\ notify => at[s] = "found"}
        /\ deleted' = deleted /\ at' = at /\ asked' = asked /\ waiterId' = waiterId
        /\ waiter' = waiter /\ active' = active /\ owed' = owed
    BY DEF AppendRecord
  <1>3. /\ end' \in [Partition -> Nat] /\ notices' \in [Partition -> Nat]
        /\ \A q \in Partition : q # p => end'[q] = end[q] /\ notices'[q] = notices[q]
        /\ notify => notices'[p] > 0
    BY <1>1, <1>2, SMTT(30) DEF PollTypeOK
  <1>4. late \subseteq late' /\ late' \subseteq Session
    BY <1>1, <1>2, Zenon DEF PollTypeOK
  <1>5. PollTypeOK'
    BY <1>1, <1>2, <1>3, <1>4, Zenon DEF PollTypeOK
  <1>6. Waiters'
    BY <1>1, <1>2, SMTT(30) DEF Waiters
  <1>7. ASSUME NEW s \in Session, at[s] = "found", asked[s][2] < end'[asked[s][1]]
        PROVE  s \in late'
    <2>1. asked[s][1] \in Partition  BY <1>1, <1>7 DEF Sessions
    <2>2. CASE asked[s][1] = p
      <3>1. at[s] # "idle"  BY <1>7
      <3> QED  BY <2>2, <3>1, <1>2, <1>7, Zenon
    <2>3. CASE asked[s][1] # p
      <3>1. asked[s][2] < end[asked[s][1]]  BY <2>1, <2>3, <1>3, <1>7, Zenon
      <3> QED  BY <3>1, <1>1, <1>4, <1>7, Zenon DEF Sessions
    <2> QED  BY <2>2, <2>3, Zenon
  <1>8. Sessions'
    BY <1>1, <1>2, <1>7, Zenon DEF Sessions
  <1>9. IdsLeft'
    <2>1. Found' = Found /\ FreeIds' = FreeIds  BY <1>2, Zenon DEF Found, FreeIds
    <2> QED  BY <2>1, <1>1, Zenon DEF IdsLeft
  <1>10. Counted'
    BY <1>1, <1>2, <1>6, CountStays, Zenon
  <1>11. MissesOnlyLate'
    <2> SUFFICES ASSUME NEW i \in Listed(Partition)',
                        asked'[waiter'[i].session][2] < end'[waiter'[i].part]
                 PROVE  notices'[waiter'[i].part] > 0 \/ waiter'[i].session \in late'
      BY Zenon DEF MissesOnlyLate
    <2>1. /\ i \in Listed(Partition) /\ i \in Id /\ waiter[i].listed
          /\ waiter[i].part \in Partition
      BY <1>2, Zenon DEF Listed
    <2>2. /\ at[waiter[i].session] = "poll" /\ asked[waiter[i].session][1] = waiter[i].part
          /\ waiter[i].session \in Session
      BY <2>1, <1>1, Zenon DEF Waiters
    <2>3. CASE waiter[i].part # p
      <3>1. asked[waiter[i].session][2] < end[waiter[i].part]  BY <2>1, <2>3, <1>2, <1>3, Zenon
      <3>2. notices[waiter[i].part] > 0 \/ waiter[i].session \in late
        BY <3>1, <2>1, <1>1, Zenon DEF MissesOnlyLate
      <3> QED  BY <3>2, <2>1, <2>3, <1>2, <1>3, <1>4, Zenon
    <2>4. CASE waiter[i].part = p /\ notify
      BY <2>4, <1>2, <1>3, Zenon
    <2>5. CASE waiter[i].part = p /\ ~notify
      <3>1. at[waiter[i].session] # "idle"  BY <2>2
      <3> QED  BY <3>1, <2>2, <2>5, <1>2, Zenon
    <2> QED  BY <2>3, <2>4, <2>5, Zenon
  <1> QED  BY <1>5, <1>6, <1>8, <1>9, <1>10, <1>11, Zenon DEF PollIInv

\* A callback is queued, or a timer expires: one field of one waiter changes.
LEMMA QueueStep ==
    ASSUME PollIInv, NEW i \in Id, Call(i) \/ Expire(i)
    PROVE  PollIInv'
  <1>1. PollTypeOK /\ Waiters /\ Counted  BY Zenon DEF PollIInv
  <1>2. /\ at' = at /\ asked' = asked /\ waiterId' = waiterId /\ end' = end
        /\ owed' = owed /\ late' = late /\ notices' = notices /\ deleted' = deleted
        /\ active' = active
    BY Zenon DEF Call, Expire, logVars, histVars
  <1>3. /\ waiter[i].call = "called" \/ waiter[i].timer = "armed"
        /\ \/ waiter' = [waiter EXCEPT ![i].call = "queued"] /\ waiter[i].call = "called"
           \/ waiter' = [waiter EXCEPT ![i].timer = "expired"]
    BY Zenon DEF Call, Expire
  <1>4. waiter \in [Id -> Waiter] /\ waiter[i] \in Waiter  BY <1>1, Zenon DEF PollTypeOK
  <1>5. PICK x : x = waiter'[i]  BY Zenon
  <1>6. /\ x = [waiter[i] EXCEPT !.call = "queued"] /\ waiter[i].call = "called"
        \/ x = [waiter[i] EXCEPT !.timer = "expired"]
    BY <1>3, <1>4, <1>5, Zenon
  <1>7. /\ x \in Waiter /\ x.session = waiter[i].session /\ x.part = waiter[i].part
        /\ x.completed = waiter[i].completed /\ x.listed = waiter[i].listed
        /\ x.call = waiter[i].call \/ waiter[i].call = "called"
    BY <1>4, <1>6 DEF Waiter
  <1>8. \A j \in Id : j # i => waiter'[j] = waiter[j]
    BY <1>3, <1>4, Zenon
  <1>9. waiter' \in [Id -> Waiter]
    <2>1. \A j \in Id : waiter'[j] \in Waiter  BY <1>4, <1>5, <1>7, <1>8, Zenon
    <2>2. waiter' = [j \in Id |-> waiter'[j]]  BY <1>3, <1>4, Zenon
    <2> QED  BY <2>1, <2>2, Zenon
  <1>10. /\ waiter[i].session \in Session
         /\ waiter[i].listed => waiter[i].call = "none"
    <2>1. InUse(i)  BY <1>3, SMTT(30) DEF InUse
    <2> QED  BY <2>1, <1>1, Zenon DEF Waiters, InUse
  <1>11. Moves
    <2>1. FreeIds \subseteq FreeIds'
      <3>1. waiter[i] # Free
        <4>1. waiter[i].call # "none" \/ waiter[i].timer # "off"  BY <1>3
        <4> QED  BY <4>1, FreeFields, Zenon
      <3> QED  BY <3>1, <1>8, Zenon DEF FreeIds
    <2>2. ASSUME NEW j \in Id
          PROVE  /\ waiter'[j].completed = waiter[j].completed
                 /\ InUse(j)' => waiter'[j].session \in Session
                 /\ ~waiter[j].completed => /\ waiter'[j].session = waiter[j].session
                                            /\ waiter'[j].part = waiter[j].part
                 /\ waiter'[j].listed =>
                       /\ waiter[j].listed /\ waiter'[j].call = "none"
                       /\ notices'[waiter[j].part] = notices[waiter[j].part]
      <3>1. CASE j = i
        <4>1. x.listed => x.call = "none"  BY <1>7, <1>10
        <4> QED  BY <3>1, <4>1, <1>2, <1>5, <1>7, <1>10, Zenon
      <3>2. CASE j # i
        <4>1. waiter'[j] = waiter[j]  BY <3>2, <1>8, Zenon
        <4>2. InUse(j)' = InUse(j)  BY <4>1, Zenon DEF InUse
        <4>3. /\ InUse(j) => waiter[j].session \in Session
              /\ waiter[j].listed => waiter[j].call = "none"
          BY <1>1, Zenon DEF Waiters, InUse
        <4> QED  BY <4>1, <4>2, <4>3, <1>2, Zenon
      <3> QED  BY <3>1, <3>2, Zenon
    <2> QED  BY <2>1, <2>2, <1>2, <1>9, Zenon DEF Moves
  <1>12. PollTypeOK' /\ Waiters' /\ Sessions' /\ IdsLeft' /\ MissesOnlyLate'
    <2>1. active' \in Nat /\ notices' \in [Partition -> Nat] /\ deleted' \in BOOLEAN
      BY <1>1, <1>2, Zenon DEF PollTypeOK
    <2> QED  BY <2>1, <1>11, MovesStep, Zenon
  <1>13. \A j \in Id : waiter'[j].listed = waiter[j].listed
    BY <1>5, <1>7, <1>8, Zenon
  <1>14. Counted'  BY <1>1, <1>2, <1>12, <1>13, CountStays, Zenon
  <1> QED  BY <1>12, <1>14, Zenon DEF PollIInv

\* What the two handlers have in common: the waiter is put to rest as x and, unless
\* it was completed before, the fetch of its session is answered.
Finishes(i, x) ==
    /\ waiter' = [waiter EXCEPT ![i] = x]
    /\ x \in Waiter /\ x.completed = TRUE /\ x.listed = FALSE
    /\ x.call # "none" \/ x.timer # "off" => x.session \in Session
    /\ waiter[i].session \in Session /\ waiter[i] # Free
    /\ end' = end /\ notices' = notices /\ deleted' = deleted
    /\ \/ /\ waiter[i].completed
          /\ at' = at /\ asked' = asked /\ waiterId' = waiterId /\ active' = active
          /\ owed' = owed /\ late' = late
       \/ /\ ~waiter[i].completed
          /\ Answered(waiter[i].session)
          /\ waiterId' = [waiterId EXCEPT ![waiter[i].session] = None]
          /\ active' = IF waiter[i].listed THEN Fewer(1) ELSE active

\* The callback, first or second.
LEMMA CallbackFinishes ==
    ASSUME PollIInv, NEW i \in Id, RunCallback(i)
    PROVE  \E x : Finishes(i, x)
  <1>1. waiter[i] \in Waiter /\ waiter[i].call = "queued"
    BY Zenon DEF PollIInv, PollTypeOK, RunCallback
  <1>2. waiter[i].call # "none"  BY <1>1
  <1>3. waiter[i].session \in Session /\ ~waiter[i].listed /\ waiter[i] # Free
    BY <1>2, FreeFields, Zenon DEF PollIInv, Waiters
  <1>4. PICK r : r = [waiter[i] EXCEPT !.call = "none"]  BY Zenon
  <1>5. PICK q : q = [r EXCEPT !.timer = IF @ = "armed" THEN "off" ELSE @]  BY Zenon
  <1>6. /\ r \in Waiter /\ r.session = waiter[i].session /\ r.completed = waiter[i].completed
    BY <1>1, <1>4 DEF Waiter
  <1>7. q \in Waiter /\ q.session = waiter[i].session
    BY <1>5, <1>6 DEF Waiter
  <1>8. end' = end /\ notices' = notices /\ deleted' = deleted /\ active' = active
    BY Zenon DEF RunCallback, logVars
  <1>9. CASE waiter[i].completed
    <2>1. /\ waiter' = [waiter EXCEPT ![i] = Rest(r)]
          /\ at' = at /\ asked' = asked /\ waiterId' = waiterId
          /\ owed' = owed /\ late' = late
      BY <1>4, <1>6, <1>9, Zenon DEF RunCallback, histVars
    <2>2. Finishes(i, Rest(r))
      BY <2>1, <1>3, <1>6, <1>8, <1>9, RestFields, Zenon DEF Finishes
    <2> QED  BY <2>2, Zenon
  <1>10. CASE ~waiter[i].completed
    <2>1. /\ waiter' = [waiter EXCEPT ![i] = Rest(q)]
          /\ Answered(waiter[i].session)
          /\ waiterId' = [waiterId EXCEPT ![waiter[i].session] = None]
      BY <1>4, <1>5, <1>6, <1>10, Zenon DEF RunCallback
    <2>2. Finishes(i, Rest(q))
      BY <2>1, <1>3, <1>7, <1>8, <1>10, RestFields, Zenon DEF Finishes
    <2> QED  BY <2>2, Zenon
  <1> QED  BY <1>9, <1>10, Zenon

\* The timer's handler, first or second.
LEMMA TimerFinishes ==
    ASSUME PollIInv, NEW i \in Id, RunTimer(i)
    PROVE  \E x : Finishes(i, x)
  <1>1. waiter[i] \in Waiter /\ waiter[i].timer = "expired"
    BY Zenon DEF PollIInv, PollTypeOK, RunTimer
  <1>2. waiter[i].timer # "off"  BY <1>1
  <1>3. waiter[i].session \in Session /\ waiter[i] # Free
    BY <1>2, FreeFields, Zenon DEF PollIInv, Waiters
  <1>4. PICK r : r = [waiter[i] EXCEPT !.timer = "off"]  BY Zenon
  <1>5. /\ r \in Waiter /\ r.session = waiter[i].session /\ r.completed = waiter[i].completed
        /\ r.listed = waiter[i].listed
    BY <1>1, <1>4 DEF Waiter
  <1>6. /\ end' = end /\ notices' = notices /\ deleted' = deleted
        /\ waiter' = [waiter EXCEPT ![i] = Rest(r)]
    BY <1>4, Zenon DEF RunTimer, logVars
  <1>7. CASE waiter[i].completed
    <2>1. /\ at' = at /\ asked' = asked /\ waiterId' = waiterId /\ active' = active
          /\ owed' = owed /\ late' = late
      BY <1>4, <1>5, <1>7, Zenon DEF RunTimer, histVars
    <2>2. Finishes(i, Rest(r))
      BY <2>1, <1>3, <1>5, <1>6, <1>7, RestFields, Zenon DEF Finishes
    <2> QED  BY <2>2, Zenon
  <1>8. CASE ~waiter[i].completed
    <2>1. /\ active' = IF waiter[i].listed THEN Fewer(1) ELSE active
          /\ Answered(waiter[i].session)
          /\ waiterId' = [waiterId EXCEPT ![waiter[i].session] = None]
      BY <1>4, <1>5, <1>8, Zenon DEF RunTimer
    <2>2. Finishes(i, Rest(r))
      BY <2>1, <1>3, <1>5, <1>6, <1>8, RestFields, Zenon DEF Finishes
    <2> QED  BY <2>2, Zenon
  <1> QED  BY <1>7, <1>8, Zenon

\* Whichever handler runs, and whether it is the first or the second.
LEMMA FinishStep ==
    ASSUME PollIInv, NEW i \in Id, NEW x, Finishes(i, x)
    PROVE  PollIInv'
  <1>1. PollTypeOK /\ Waiters /\ Sessions /\ Counted  BY Zenon DEF PollIInv
  <1>2. /\ waiter' = [waiter EXCEPT ![i] = x]
        /\ x \in Waiter /\ x.completed = TRUE /\ x.listed = FALSE
        /\ x.call # "none" \/ x.timer # "off" => x.session \in Session
        /\ waiter[i].session \in Session /\ waiter[i] # Free
        /\ end' = end /\ notices' = notices /\ deleted' = deleted
    BY Zenon DEF Finishes
  <1>3. /\ waiter'[i] = x /\ \A j \in Id : j # i => waiter'[j] = waiter[j]
        /\ waiter' \in [Id -> Waiter]
    BY <1>1, <1>2, Zenon DEF PollTypeOK
  <1>4. FreeIds \subseteq FreeIds'  BY <1>2, <1>3, Zenon DEF FreeIds
  <1>5. InUse(i)' => x.session \in Session  BY <1>2, <1>3, Zenon DEF InUse
  <1>6. CASE waiter[i].completed
    <2>1. /\ at' = at /\ asked' = asked /\ waiterId' = waiterId /\ active' = active
          /\ owed' = owed /\ late' = late
      BY <1>6, Zenon DEF Finishes
    <2>2. waiter[i].completed = TRUE /\ waiter[i].listed = FALSE
      <3>1. ~waiter[i].listed /\ waiter[i] \in Waiter
        BY <1>1, <1>6, Zenon DEF Waiters, PollTypeOK
      <3> QED  BY <3>1, <1>6 DEF Waiter
    <2>3. Moves
      <3>1. ASSUME NEW j \in Id
            PROVE  /\ waiter'[j].completed = waiter[j].completed
                   /\ InUse(j)' => waiter'[j].session \in Session
                   /\ ~waiter[j].completed => /\ waiter'[j].session = waiter[j].session
                                              /\ waiter'[j].part = waiter[j].part
                   /\ waiter'[j].listed =>
                         /\ waiter[j].listed /\ waiter'[j].call = "none"
                         /\ notices'[waiter[j].part] = notices[waiter[j].part]
        <4>1. CASE j = i
          BY <4>1, <2>2, <1>2, <1>3, <1>5, Zenon
        <4>2. CASE j # i
          <5>1. waiter'[j] = waiter[j]  BY <4>2, <1>3, Zenon
          <5>2. InUse(j)' = InUse(j)  BY <5>1, Zenon DEF InUse
          <5>3. /\ InUse(j) => waiter[j].session \in Session
                /\ waiter[j].listed => waiter[j].call = "none"
            BY <1>1, Zenon DEF Waiters, InUse
          <5> QED  BY <5>1, <5>2, <5>3, <1>2, Zenon
        <4> QED  BY <4>1, <4>2, Zenon
      <3> QED  BY <3>1, <2>1, <1>2, <1>3, <1>4, Zenon DEF Moves
    <2>4. active' \in Nat /\ notices' \in [Partition -> Nat] /\ deleted' \in BOOLEAN
      BY <2>1, <1>1, <1>2, Zenon DEF PollTypeOK
    <2>5. PollTypeOK' /\ Waiters' /\ Sessions' /\ IdsLeft' /\ MissesOnlyLate'
      BY <2>3, <2>4, MovesStep, Zenon
    <2>6. \A j \in Id : waiter'[j].listed = waiter[j].listed
      BY <2>2, <1>2, <1>3, Zenon
    <2>7. Counted'  BY <2>1, <2>5, <2>6, <1>1, CountStays, Zenon
    <2> QED  BY <2>5, <2>7, Zenon DEF PollIInv
  <1>7. CASE ~waiter[i].completed
    <2>1. PICK s \in Session : s = waiter[i].session  BY <1>2, Zenon
    <2>2. /\ Answered(s) /\ waiterId' = [waiterId EXCEPT ![s] = None]
          /\ active' = IF waiter[i].listed THEN Fewer(1) ELSE active
      BY <1>7, <2>1, Zenon DEF Finishes
    <2>3. at[s] = "poll" /\ waiterId[s] = i  BY <1>1, <1>7, <2>1, Zenon DEF Waiters
    <2>4. Answers(s)
      <3>1. at[s] # "idle"  BY <2>3
      <3>2. ASSUME NEW j \in Id
            PROVE  \/ waiter'[j] = waiter[j] /\ (~waiter[j].completed => waiter[j].session # s)
                   \/ /\ waiter'[j].completed /\ ~waiter'[j].listed
                      /\ InUse(j)' => waiter'[j].session \in Session
                      /\ waiter[j].session = s
        <4>1. CASE j = i
          BY <4>1, <2>1, <1>2, <1>3, <1>5, Zenon
        <4>2. CASE j # i
          <5>1. ~waiter[j].completed => waiterId[waiter[j].session] = j
            BY <1>1, Zenon DEF Waiters
          <5> QED  BY <4>2, <5>1, <2>3, <1>3, Zenon
        <4> QED  BY <4>1, <4>2, Zenon
      <3> QED  BY <3>1, <3>2, <2>2, <1>2, <1>3, <1>4, Zenon DEF Answers
    <2>5. active' \in Nat
      <3>1. active \in Nat  BY <1>1, Zenon DEF PollTypeOK
      <3> QED  BY <3>1, <2>2 DEF Fewer
    <2>6. PollTypeOK' /\ Waiters' /\ Sessions' /\ IdsLeft' /\ MissesOnlyLate'
      BY <2>4, <2>5, AnswersStep, Zenon
    <2>7. Counted'
      <3>1. CASE waiter[i].listed
        <4>1. PICK D : D = {i}  BY Zenon
        <4>2. D \subseteq OnList  BY <3>1, <4>1, Zenon DEF OnList
        <4>3. OnList' = OnList \ D
          <5>1. \A j \in Id : waiter'[j].listed <=> waiter[j].listed /\ j \notin D
            BY <4>1, <1>2, <1>3, Zenon
          <5> QED  BY <5>1, Zenon DEF OnList
        <4>4. Cardinality(D) = 1  BY <4>1, FS_Singleton, Zenon
        <4>5. active' = Fewer(Cardinality(D))  BY <3>1, <4>4, <2>2, Zenon
        <4> QED  BY <4>2, <4>3, <4>5, <2>6, <1>1, CountFewer, Zenon
      <3>2. CASE ~waiter[i].listed
        <4>1. waiter[i].listed = FALSE
          <5>1. waiter[i] \in Waiter  BY <1>1, Zenon DEF PollTypeOK
          <5> QED  BY <5>1, <3>2 DEF Waiter
        <4>2. \A j \in Id : waiter'[j].listed = waiter[j].listed
          BY <4>1, <1>2, <1>3, Zenon
        <4>3. active' = active  BY <3>2, <2>2, Zenon
        <4> QED  BY <4>2, <4>3, <2>6, <1>1, CountStays, Zenon
      <3> QED  BY <3>1, <3>2, Zenon
    <2> QED  BY <2>6, <2>7, Zenon DEF PollIInv
  <1> QED  BY <1>6, <1>7, Zenon

-----------------------------------------------------------------------------
(* The theorems                                                            *)

\* Every step keeps the invariant.
LEMMA PollNext == PollIInv /\ [Next]_vars => PollIInv'
  <1> SUFFICES ASSUME PollIInv, [Next]_vars PROVE PollIInv'  OBVIOUS
  <1>1. CASE Next
    <2>1. ASSUME NEW s \in Session, NEW p \in Partition, Fetch(s, p) PROVE PollIInv'
      BY <2>1, FetchStep, Zenon
    <2>2. ASSUME NEW s \in Session, HandlerStep(s) PROVE PollIInv'
      BY <2>2, RefuseStep, RegisterStep, Zenon DEF HandlerStep
    <2>3. ASSUME NEW p \in Partition, NEW notify \in BOOLEAN, AppendRecord(p, notify)
          PROVE  PollIInv'
      BY <2>3, AppendStep, Zenon
    <2>4. ASSUME NEW p \in Partition, Notify(p) PROVE PollIInv'
      BY <2>4, NotifyStep, Zenon
    <2>5. CASE Delete
      BY <2>5, DeleteStep, Zenon
    <2>6. ASSUME NEW i \in Id, WaiterStep(i) PROVE PollIInv'
      <3>1. CASE Call(i) \/ Expire(i)
        BY <3>1, QueueStep, Zenon
      <3>2. CASE RunCallback(i) \/ RunTimer(i)
        <4>1. PICK x : Finishes(i, x)  BY <3>2, CallbackFinishes, TimerFinishes, Zenon
        <4> QED  BY <4>1, FinishStep, Zenon
      <3> QED  BY <2>6, <3>1, <3>2, Zenon DEF WaiterStep
    <2> QED  BY <1>1, <2>1, <2>2, <2>3, <2>4, <2>5, <2>6, Zenon DEF Next
  <1>2. CASE UNCHANGED vars
    <2>1. /\ end' = end /\ notices' = notices /\ deleted' = deleted /\ at' = at
          /\ asked' = asked /\ waiterId' = waiterId /\ waiter' = waiter /\ active' = active
          /\ owed' = owed /\ late' = late
      BY <1>2, Zenon DEF vars, logVars, histVars
    <2>2. PollTypeOK' /\ Waiters' /\ Sessions'
      BY <2>1, Zenon DEF PollIInv, PollTypeOK, Waiters, Sessions
    <2>3. IdsLeft' /\ Counted' /\ MissesOnlyLate'
      BY <2>1, Zenon DEF PollIInv, IdsLeft, Found, FreeIds, Counted, Listed, MissesOnlyLate
    <2> QED  BY <2>2, <2>3, Zenon DEF PollIInv
  <1> QED  BY <1>1, <1>2, Zenon

\* The invariant of the long polls, in all behaviours.
THEOREM PollInvariant == Spec => []PollIInv
  <1> QED  BY PollInit, PollNext, PTL DEF Spec

\* The counter behind max_long_poll_waiters is the number of listed waiters, and
\* each of these is the one its session waits for.
THEOREM PollWaitersCounted == Spec => []WaitersCounted
  <1>1. PollIInv => WaitersCounted
    <2> SUFFICES ASSUME PollIInv PROVE WaitersCounted  OBVIOUS
    <2>1. \A i \in Listed(Partition) : i \in Id /\ ~waiter[i].completed
      BY Zenon DEF PollIInv, Waiters, Listed
    <2> QED  BY <2>1, Zenon DEF WaitersCounted, PollIInv, Counted, Waiters
  <1> QED  BY <1>1, PollInvariant, PTL

\* A listed waiter misses no append but one between its fetch and its registration,
\* or one whose retention pass failed.
THEOREM PollMissesOnlyLate == Spec => []MissesOnlyLate
  <1>1. PollIInv => MissesOnlyLate  BY Zenon DEF PollIInv
  <1> QED  BY <1>1, PollInvariant, PTL

\* What AnsweredOnce says of one step.
OneAnswer ==
    \A s \in Session :
       /\ owed'[s] = IF at'[s] = "idle" THEN 0 ELSE 1
       /\ at[s] = "poll" /\ at'[s] = "idle" =>
             ~waiter[waiterId[s]].completed /\ waiter'[waiterId[s]].completed

\* Only the handlers of its own waiter end a long poll.
LEMMA EndsByOwnWaiter ==
    ASSUME PollIInv, Next, NEW s \in Session, at[s] = "poll", at'[s] = "idle"
    PROVE  ~waiter[waiterId[s]].completed /\ waiter'[waiterId[s]].completed
  <1>1. at \in [Session -> {"idle", "found", "poll"}] /\ waiter \in [Id -> Waiter]
    BY Zenon DEF PollIInv, PollTypeOK
  <1>2. at'[s] # at[s] /\ at'[s] # "found" /\ at'[s] # "poll" /\ at[s] # "found"
    OBVIOUS
  <1>3. ASSUME NEW t \in Session, NEW p \in Partition, Fetch(t, p) PROVE FALSE
    BY <1>1, <1>2, <1>3, Zenon DEF Fetch
  <1>4. ASSUME NEW t \in Session, HandlerStep(t) PROVE FALSE
    <2>1. CASE Refuse(t)
      BY <1>1, <1>2, <2>1, Zenon DEF Refuse, Answered
    <2>2. CASE Register(t)
      BY <1>1, <1>2, <2>2, Zenon DEF Register
    <2> QED  BY <1>4, <2>1, <2>2, Zenon DEF HandlerStep
  <1>5. ASSUME NEW p \in Partition, NEW notify \in BOOLEAN, AppendRecord(p, notify) PROVE FALSE
    BY <1>2, <1>5, Zenon DEF AppendRecord
  <1>6. ASSUME NEW p \in Partition, Notify(p) PROVE FALSE
    BY <1>2, <1>6, Zenon DEF Notify
  <1>7. CASE Delete
    BY <1>2, <1>7, Zenon DEF Delete
  <1>8. ASSUME NEW i \in Id, WaiterStep(i)
        PROVE  ~waiter[waiterId[s]].completed /\ waiter'[waiterId[s]].completed
    <2>1. CASE Call(i) \/ Expire(i)
      BY <1>2, <2>1, Zenon DEF Call, Expire
    <2>2. CASE RunCallback(i) \/ RunTimer(i)
      <3>1. PICK x : Finishes(i, x)  BY <2>2, CallbackFinishes, TimerFinishes, Zenon
      <3>2. ~waiter[i].completed /\ waiter[i].session = s
        BY <3>1, <1>1, <1>2, Zenon DEF Finishes, Answered
      <3>3. waiterId[s] = i  BY <3>2, Zenon DEF PollIInv, Waiters
      <3>4. waiter'[i] = x /\ x.completed = TRUE  BY <3>1, <1>1, Zenon DEF Finishes
      <3> QED  BY <3>2, <3>3, <3>4, Zenon
    <2> QED  BY <1>8, <2>1, <2>2, Zenon DEF WaiterStep
  <1> QED  BY <1>3, <1>4, <1>5, <1>6, <1>7, <1>8, Zenon DEF Next

\* A client gets one answer per fetch, and a long poll is answered by its own waiter.
THEOREM PollAnsweredOnce == Spec => AnsweredOnce
  <1>1. PollIInv /\ PollIInv' /\ [Next]_vars => [OneAnswer]_vars
    <2> SUFFICES ASSUME PollIInv, PollIInv', Next PROVE OneAnswer
      BY Zenon
    <2>1. \A s \in Session : owed'[s] = IF at'[s] = "idle" THEN 0 ELSE 1
      BY Zenon DEF PollIInv, Sessions
    <2> QED  BY <2>1, EndsByOwnWaiter, Zenon DEF OneAnswer
  <1>2. Spec => [][OneAnswer]_vars
    BY <1>1, PollInvariant, PTL DEF Spec
  <1> QED  BY <1>2 DEF AnsweredOnce, OneAnswer

=============================================================================
