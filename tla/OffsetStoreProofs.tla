------------------------- MODULE OffsetStoreProofs -------------------------
(***************************************************************************)
(* OffsetStore's properties, for every set of groups and any finite sets   *)
(* of topics and partitions, and any bounds.                               *)
(***************************************************************************)
EXTENDS OffsetStore, FiniteSetTheorems, NaturalsInduction, WellFoundedInduction, TLAPS

Offsets == [Key -> Offset \cup {None}]

StoreTypeOK ==
    /\ file \in [Group -> Seq(Line)]
    /\ torn \subseteq Group
    /\ up \in BOOLEAN
    /\ offsets \in [Group -> Offsets]
    /\ op \in {"idle", "commit", "remove"}
    /\ op = "commit" => request \in Group \X Key \X Offset
    /\ touched \subseteq Group
    /\ acked \in [Group -> Offsets]
    /\ maybe \in [Group -> [Key -> SUBSET (Offset \cup {None})]]
    /\ hurt \subseteq Group

\* The operation in progress.
OpOK ==
    /\ ~up => op = "idle"
    /\ op # "remove" => touched = {} /\ unlinked = {}
    /\ unlinked \subseteq touched
    /\ \A g, h \in unlinked : g = h
    /\ \A g \in unlinked : g \notin torn

AllOk(s) == \A i \in DOMAIN s : s[i].ok

\* Nothing that was asked of group g is open: memory, disk and the answers agree.
Settled(g) ==
    /\ offsets[g] = Replay(file[g])
    /\ acked[g] = offsets[g]
    /\ \A k \in Key : maybe[g][k] = {}

\* The line of the commit in progress is written, its map entry is not.
HalfDone(g) ==
    /\ Replay(file[g]) = [offsets[g] EXCEPT ![request[2]] = request[3]]
    /\ acked[g] = offsets[g]
    /\ \A k \in Key : k # request[2] => maybe[g][k] = {}

\* A file that is not in disorder has only sound lines, and a restart finds in it
\* what it should.
Healthy(g) ==
    /\ AllOk(file[g])
    /\ up => g \notin torn
    /\ g \notin unlinked => \A k \in Key : Replay(file[g])[k] \in Expected(g, k)
    /\ up /\ op = "idle" => Settled(g)
    /\ op = "commit" => IF g = request[1] THEN HalfDone(g) ELSE Settled(g)
    /\ op = "remove" /\ g \notin touched => Settled(g)

StoreIInv == StoreTypeOK /\ OpOK /\ \A g \in Group \ hurt : Healthy(g)

-----------------------------------------------------------------------------
(* What a replay finds                                                     *)

\* A set of natural numbers has a least element.
LEMMA LeastLine ==
    ASSUME NEW T, T \subseteq Nat, T # {}
    PROVE  \E x \in T : \A y \in T : x <= y
  <1>1. IsWellFoundedOn(OpToRel(<, Nat), Nat)  BY NatLessThanWellFounded, Zenon
  <1>2. PICK x \in T : \A y \in T : ~(<<y, x>> \in OpToRel(<, Nat))
    BY <1>1, WFMin, Zenon
  <1>3. ASSUME NEW y \in T PROVE x <= y
    <2>1. x \in Nat /\ y \in Nat  OBVIOUS
    <2>2. ~(y < x)
      <3>1. <<y, x>> \in Nat \X Nat  BY <2>1
      <3> QED  BY <1>2, <3>1 DEF OpToRel
    <2> QED  BY <2>1, <2>2
  <1> QED  BY <1>3

\* A set of line numbers of a file has a last one.
LEMMA LastLine ==
    ASSUME NEW n \in Nat, NEW I, I \subseteq 1 .. n, I # {}
    PROVE  \E x \in I : \A y \in I : y <= x
  <1> DEFINE T == {k \in Nat : \A y \in I : y <= k}
  <1>1. n \in T
    <2>1. \A y \in I : y <= n  OBVIOUS
    <2> QED  BY <2>1, Zenon
  <1>2. PICK x \in T : \A k \in T : x <= k
    <2>1. T \subseteq Nat /\ T # {}  BY <1>1, Zenon
    <2> HIDE DEF T
    <2> QED  BY <2>1, LeastLine, Zenon
  <1>3. x \in I
    <2> SUFFICES ASSUME x \notin I PROVE FALSE  OBVIOUS
    <2>1. \A y \in I : y \in Nat /\ y >= 1 /\ y <= x /\ y # x  BY <1>2
    <2>2. x \in Nat  BY <1>2
    <2>3. x >= 1
      <3>1. PICK y \in I : TRUE  BY Zenon
      <3>2. y \in Nat /\ y >= 1 /\ y <= x  BY <2>1, <3>1, Zenon
      <3> QED  BY <2>2, <3>2
    <2>4. x - 1 \in Nat /\ \A y \in I : y <= x - 1  BY <2>1, <2>2, <2>3
    <2>5. x - 1 \in T  BY <2>4
    <2> HIDE DEF T
    <2> QED  BY <1>2, <2>2, <2>5
  <1> QED  BY <1>2, <1>3

\* Line i is the last sound one of key k in s.
IsLast(s, k, i) ==
    /\ i \in Sound(s) /\ s[i].key = k
    /\ \A j \in Sound(s) : s[j].key = k => j <= i

NoLine(s, k) == \A i \in Sound(s) : s[i].key # k

\* The replay finds the last sound line of a key, or nothing.
LEMMA ReplayFinds ==
    ASSUME NEW s \in Seq(Line), NEW k \in Key
    PROVE  /\ NoLine(s, k) => Replay(s)[k] = None
           /\ \A i : IsLast(s, k, i) => Replay(s)[k] = s[i].next
           /\ NoLine(s, k) \/ \E i : IsLast(s, k, i)
           /\ \A i : IsLast(s, k, i) => i \in Nat /\ i \in DOMAIN s
  <1> DEFINE I == {i \in Sound(s) : s[i].key = k}
  <1>1. Replay(s)[k] = IF I = {} THEN None ELSE s[CHOOSE i \in I : \A j \in I : j <= i].next
    BY Zenon DEF Replay
  <1>2. Len(s) \in Nat /\ DOMAIN s = 1 .. Len(s)  OBVIOUS
  <1>3. I \subseteq 1 .. Len(s) /\ \A i \in Sound(s) : i \in Nat /\ i \in DOMAIN s
    BY <1>2 DEF Sound
  <1>4. NoLine(s, k) <=> I = {}  BY Zenon DEF NoLine
  <1>5. \A i : IsLast(s, k, i) <=> i \in I /\ \A j \in I : j <= i  BY Zenon DEF IsLast
  <1>6. ASSUME NEW i, IsLast(s, k, i)
        PROVE  Replay(s)[k] = s[i].next
    <2>1. i \in I /\ \A j \in I : j <= i  BY <1>5, <1>6, Zenon
    <2>2. PICK c : c = CHOOSE j \in I : \A l \in I : l <= j  BY Zenon
    <2>3. c \in I /\ \A j \in I : j <= c  BY <2>1, <2>2, Zenon
    <2>4. c <= i /\ i <= c /\ c \in Nat /\ i \in Nat  BY <2>1, <2>3, <1>3
    <2>5. c = i  BY <2>4
    <2>6. I # {}  BY <2>1, Zenon
    <2> HIDE DEF I
    <2> QED  BY <2>2, <2>5, <2>6, <1>1, Zenon
  <1>7. I = {} \/ \E i : IsLast(s, k, i)
    <2> HIDE DEF I
    <2> QED  BY <1>2, <1>3, <1>5, LastLine, Zenon
  <1>8. \A i : IsLast(s, k, i) => i \in Nat /\ i \in DOMAIN s
    BY <1>3, Zenon DEF IsLast
  <1>9. I = {} => Replay(s)[k] = None  BY <1>1, Zenon
  <1> HIDE DEF I
  <1> QED  BY <1>4, <1>6, <1>7, <1>8, <1>9, Zenon

\* A replay gives every key an offset or nothing.
LEMMA ReplayTyped ==
    ASSUME NEW s \in Seq(Line)
    PROVE  Replay(s) \in Offsets
  <1>1. ASSUME NEW k \in Key PROVE Replay(s)[k] \in Offset \cup {None}
    <2>1. CASE NoLine(s, k)  BY <2>1, ReplayFinds, Zenon
    <2>2. ASSUME NEW i, IsLast(s, k, i) PROVE Replay(s)[k] \in Offset \cup {None}
      <3>1. i \in DOMAIN s /\ Replay(s)[k] = s[i].next  BY <2>2, ReplayFinds, Zenon
      <3>2. s[i] \in Line  BY <3>1
      <3> QED  BY <3>1, <3>2 DEF Line
    <2> QED  BY <2>1, <2>2, ReplayFinds, Zenon
  <1>2. Replay(s) = [k \in Key |-> Replay(s)[k]]
    <2> DEFINE Found(k) == LET I == {i \in Sound(s) : s[i].key = k}
                           IN  IF I = {} THEN None ELSE s[CHOOSE i \in I : \A j \in I : j <= i].next
    <2>1. Replay(s) = [k \in Key |-> Found(k)]  BY Zenon DEF Replay
    <2> HIDE DEF Found
    <2> QED  BY <2>1, Zenon
  <1> QED  BY <1>1, <1>2, Zenon DEF Offsets

\* Replays are compared key by key.
LEMMA ReplayEqual ==
    ASSUME NEW s \in Seq(Line), NEW f \in Offsets, \A k \in Key : Replay(s)[k] = f[k]
    PROVE  Replay(s) = f
  <1>1. Replay(s) \in Offsets  BY ReplayTyped, Zenon
  <1> QED  BY <1>1 DEF Offsets

\* All lines of a file that has no bad one are sound.
LEMMA SoundAllOk ==
    ASSUME NEW s \in Seq(Line), AllOk(s)
    PROVE  Sound(s) = DOMAIN s
  <1>1. \A i \in DOMAIN s : 1 .. i \subseteq DOMAIN s  OBVIOUS
  <1> QED  BY <1>1, Zenon DEF AllOk, Sound

\* An empty file has no offsets.
LEMMA ReplayEmpty == << >> \in Seq(Line) /\ AllOk(<< >>) /\ Replay(<< >>) = NoOffsets
  <1>1. << >> \in Seq(Line) /\ DOMAIN << >> = {}  OBVIOUS
  <1>2. AllOk(<< >>) /\ Sound(<< >>) = {}  BY <1>1, Zenon DEF AllOk, Sound
  <1>3. \A k \in Key : Replay(<< >>)[k] = NoOffsets[k]
    BY <1>1, <1>2, ReplayFinds, Zenon DEF NoLine, NoOffsets
  <1>4. NoOffsets \in Offsets  BY Zenon DEF NoOffsets, Offsets
  <1> QED  BY <1>1, <1>2, <1>3, <1>4, ReplayEqual, Zenon

\* A sound line at the end of a sound file replaces what was found for its key.
LEMMA ReplayAppend ==
    ASSUME NEW s \in Seq(Line), AllOk(s), NEW k \in Key, NEW n \in Offset,
           NEW t, t = Append(s, [key |-> k, next |-> n, ok |-> TRUE])
    PROVE  t \in Seq(Line) /\ AllOk(t) /\ Replay(t) = [Replay(s) EXCEPT ![k] = n]
  <1>1. PICK x \in Line : /\ x = [key |-> k, next |-> n, ok |-> TRUE]
                          /\ x.key = k /\ x.next = n /\ x.ok = TRUE
    <2>1. [key |-> k, next |-> n, ok |-> TRUE] \in Line  BY Zenon DEF Line
    <2> QED  BY <2>1, Zenon
  <1>2. PICK m \in Nat : /\ m = Len(s) /\ DOMAIN s = 1 .. m /\ t \in Seq(Line)
                         /\ DOMAIN t = 1 .. m + 1 /\ t[m + 1] = x
                         /\ \A i \in 1 .. m : t[i] = s[i]
    <2>1. Len(s) \in Nat /\ DOMAIN s = 1 .. Len(s)  OBVIOUS
    <2>2. /\ Append(s, x) \in Seq(Line) /\ DOMAIN Append(s, x) = 1 .. Len(s) + 1
          /\ Append(s, x)[Len(s) + 1] = x /\ \A i \in 1 .. Len(s) : Append(s, x)[i] = s[i]
      OBVIOUS
    <2>3. t = Append(s, x)  BY <1>1, Zenon
    <2> QED  BY <2>1, <2>2, <2>3, Zenon
  <1>3. \A i \in DOMAIN t : i \in DOMAIN s \/ i = m + 1  BY <1>2
  <1>4. AllOk(t)  BY <1>1, <1>2, <1>3, Zenon DEF AllOk
  <1>5. Sound(t) = 1 .. m + 1 /\ Sound(s) = 1 .. m  BY <1>2, <1>4, SoundAllOk, Zenon
  <1>6. IsLast(t, k, m + 1)
    <2>1. m + 1 \in 1 .. m + 1 /\ \A j \in 1 .. m + 1 : j <= m + 1  OBVIOUS
    <2> QED  BY <2>1, <1>1, <1>2, <1>5, Zenon DEF IsLast
  <1>7. Replay(t)[k] = n
    <2>1. t \in Seq(Line) /\ t[m + 1].next = n  BY <1>1, <1>2, Zenon
    <2>2. Replay(t)[k] = t[m + 1].next  BY <2>1, <1>6, ReplayFinds, Zenon
    <2> QED  BY <2>1, <2>2, Zenon
  <1>8. ASSUME NEW j \in Key, j # k PROVE Replay(t)[j] = Replay(s)[j]
    <2>1. CASE NoLine(s, j)
      <3>1. NoLine(t, j)  BY <2>1, <1>1, <1>2, <1>3, <1>5, <1>8, Zenon DEF NoLine
      <3> QED  BY <2>1, <3>1, <1>2, ReplayFinds, Zenon
    <2>2. ASSUME NEW i, IsLast(s, j, i) PROVE Replay(t)[j] = Replay(s)[j]
      <3>1. i \in 1 .. m /\ i \in 1 .. m + 1  BY <2>2, <1>5 DEF IsLast
      <3>2. \A l \in 1 .. m + 1 : t[l].key = j => l \in 1 .. m /\ s[l].key = j
        BY <1>1, <1>2, <1>3, <1>8, Zenon
      <3>3. IsLast(t, j, i)  BY <2>2, <3>1, <3>2, <1>2, <1>5, Zenon DEF IsLast
      <3>4. t[i] = s[i]  BY <3>1, <1>2, Zenon
      <3>5. t \in Seq(Line)  BY <1>2, Zenon
      <3>6. Replay(t)[j] = t[i].next  BY <3>3, <3>5, ReplayFinds, Zenon
      <3>7. Replay(s)[j] = s[i].next  BY <2>2, ReplayFinds, Zenon
      <3> QED  BY <3>4, <3>6, <3>7, Zenon
    <2> QED  BY <2>1, <2>2, ReplayFinds, Zenon
  <1>9. PICK f : f = [Replay(s) EXCEPT ![k] = n]  BY Zenon
  <1>10. /\ f \in Offsets /\ f[k] = n /\ \A j \in Key : j # k => f[j] = Replay(s)[j]
    <2>1. Replay(s) \in Offsets  BY ReplayTyped, Zenon
    <2> QED  BY <2>1, <1>9 DEF Offsets
  <1>11. Replay(t) = f
    <2>1. t \in Seq(Line)  BY <1>2, Zenon
    <2>2. \A j \in Key : Replay(t)[j] = f[j]  BY <1>7, <1>8, <1>10, Zenon
    <2> QED  BY <2>1, <2>2, <1>10, ReplayEqual, Zenon
  <1> QED  BY <1>2, <1>4, <1>9, <1>11, Zenon

\* The sound lines are the first so many lines of the file.
LEMMA SoundPrefix ==
    ASSUME NEW s \in Seq(Line)
    PROVE  \E m \in 0 .. Len(s) :
              Sound(s) = 1 .. m /\ Cardinality(Sound(s)) = m /\ \A i \in 1 .. m : s[i].ok
  <1> DEFINE Bad == {i \in DOMAIN s : ~s[i].ok}
  <1>1. Len(s) \in Nat /\ DOMAIN s = 1 .. Len(s)  OBVIOUS
  <1>2. PICK m \in 0 .. Len(s) : Sound(s) = 1 .. m /\ \A i \in 1 .. m : s[i].ok
    <2>1. CASE Bad = {}
      <3>1. AllOk(s)  BY <2>1, Zenon DEF AllOk
      <3>2. Sound(s) = 1 .. Len(s)  BY <3>1, <1>1, SoundAllOk, Zenon
      <3>3. Len(s) \in 0 .. Len(s)  BY <1>1
      <3> QED  BY <3>1, <3>2, <3>3, <1>1, Zenon DEF AllOk
    <2>2. CASE Bad # {}
      <3>1. Bad \subseteq Nat  BY <1>1
      <3>2. PICK b \in Bad : \A j \in Bad : b <= j
        <4> HIDE DEF Bad
        <4> QED  BY <2>2, <3>1, LeastLine, Zenon
      <3>3. b \in 1 .. Len(s) /\ ~s[b].ok  BY <1>1, Zenon
      <3>4. ASSUME NEW j \in 1 .. Len(s), j < b PROVE s[j].ok
        <4>1. ~(b <= j)  BY <3>3, <3>4
        <4> QED  BY <4>1, <3>2, <1>1, Zenon
      <3>5. \A i \in 1 .. b - 1 : i \in DOMAIN s /\ \A j \in 1 .. i : s[j].ok
        <4> SUFFICES ASSUME NEW i \in 1 .. b - 1, NEW j \in 1 .. i
                     PROVE  i \in DOMAIN s /\ j \in 1 .. Len(s) /\ j < b
          BY <3>3, <3>4, <1>1, SMTT(30)
        <4> QED  BY <3>3, <1>1
      <3>6. \A i \in DOMAIN s : i \notin 1 .. b - 1 => b \in 1 .. i
        BY <3>3, <1>1
      <3>7. Sound(s) = 1 .. b - 1  BY <3>3, <3>5, <3>6, Zenon DEF Sound
      <3>8. b - 1 \in 0 .. Len(s) /\ \A i \in 1 .. b - 1 : i \in 1 .. i  BY <3>3, <1>1
      <3> QED  BY <3>5, <3>7, <3>8, Zenon
    <2> QED  BY <2>1, <2>2, Zenon
  <1>3. m \in Nat /\ Cardinality(1 .. m) = m
    <2>1. m \in Nat /\ m \in Int /\ 1 \in Int  BY <1>1, <1>2
    <2>2. Cardinality(1 .. m) = IF 1 > m THEN 0 ELSE m - 1 + 1
      BY <2>1, FS_Interval, Zenon
    <2> QED  BY <2>1, <2>2
  <1> QED  BY <1>2, <1>3, Zenon

\* Cutting a file behind its sound lines changes nothing for a replay.
LEMMA ReplayCut ==
    ASSUME NEW s \in Seq(Line), NEW t, t = SubSeq(s, 1, Cardinality(Sound(s)))
    PROVE  t \in Seq(Line) /\ AllOk(t) /\ Replay(t) = Replay(s)
  <1>1. PICK m \in 0 .. Len(s) :
           Sound(s) = 1 .. m /\ Cardinality(Sound(s)) = m /\ \A i \in 1 .. m : s[i].ok
    BY SoundPrefix, Zenon
  <1>2. t \in Seq(Line) /\ DOMAIN t = 1 .. m /\ \A i \in 1 .. m : t[i] = s[i]
    <2>1. t = SubSeq(s, 1, m)  BY <1>1, Zenon
    <2>2. m \in Nat /\ m <= Len(s) /\ Len(s) \in Nat  BY <1>1
    <2>3. SubSeq(s, 1, m) \in Seq(Line) /\ Len(SubSeq(s, 1, m)) = m
          /\ \A i \in 1 .. m : SubSeq(s, 1, m)[i] = s[i]
      BY <2>2
    <2>4. DOMAIN SubSeq(s, 1, m) = 1 .. m  BY <2>3
    <2> QED  BY <2>1, <2>3, <2>4, Zenon
  <1>3. AllOk(t)  BY <1>1, <1>2, Zenon DEF AllOk
  <1>4. Sound(t) = Sound(s)  BY <1>1, <1>2, <1>3, SoundAllOk, Zenon
  <1>5. ASSUME NEW k \in Key PROVE Replay(t)[k] = Replay(s)[k]
    <2>1. CASE NoLine(s, k)
      <3>1. NoLine(t, k)  BY <2>1, <1>1, <1>2, <1>4, Zenon DEF NoLine
      <3> QED  BY <2>1, <3>1, <1>2, ReplayFinds, Zenon
    <2>2. ASSUME NEW i, IsLast(s, k, i) PROVE Replay(t)[k] = Replay(s)[k]
      <3>1. i \in 1 .. m /\ t[i] = s[i]  BY <2>2, <1>1, <1>2, Zenon DEF IsLast
      <3>2. IsLast(t, k, i)  BY <2>2, <3>1, <1>1, <1>2, <1>4, Zenon DEF IsLast
      <3>3. Replay(t)[k] = t[i].next  BY <3>2, <1>2, ReplayFinds, Zenon
      <3>4. Replay(s)[k] = s[i].next  BY <2>2, ReplayFinds, Zenon
      <3> QED  BY <3>1, <3>3, <3>4, Zenon
    <2> QED  BY <2>1, <2>2, ReplayFinds, Zenon
  <1>6. Replay(s) \in Offsets  BY ReplayTyped, Zenon
  <1> QED  BY <1>2, <1>3, <1>5, <1>6, ReplayEqual, Zenon

\* The sequence a finite set is put in has its elements, each once.
LEMMA SetInSequence ==
    ASSUME NEW S, IsFiniteSet(S)
    PROVE  /\ Iterated(S) \in [1 .. Cardinality(S) -> S]
           /\ \A i, j \in 1 .. Cardinality(S) : Iterated(S)[i] = Iterated(S)[j] => i = j
           /\ \A x \in S : \E i \in 1 .. Cardinality(S) : Iterated(S)[i] = x
           /\ Cardinality(S) \in Nat
  <1> DEFINE n == Cardinality(S)
  <1>1. n \in Nat /\ ExistsBijection(1 .. n, S)  BY FS_CardinalityType, Zenon
  <1>2. \E f \in [1 .. n -> S] : IsInjective(f)
    BY <1>1, Zenon DEF ExistsBijection, Bijection, Injection
  <1>3. PICK f : f = Iterated(S)  BY Zenon
  <1>4. f \in [1 .. n -> S] /\ IsInjective(f)  BY <1>2, <1>3, Zenon DEF Iterated
  <1>5. f \in Injection(1 .. n, S)  BY <1>4, Zenon DEF Injection
  <1>6. Cardinality(1 .. n) = n
    <2>1. n \in Int /\ 1 \in Int  BY <1>1
    <2>2. Cardinality(1 .. n) = IF 1 > n THEN 0 ELSE n - 1 + 1
      BY <2>1, FS_Interval, Zenon
    <2> QED  BY <1>1, <2>2
  <1>7. f \in Surjection(1 .. n, S)  BY <1>5, <1>6, FS_Injection, Zenon
  <1>8. \A x \in S : \E i \in 1 .. n : f[i] = x  BY <1>4, <1>7, Zenon DEF Surjection
  <1>9. \A i, j \in 1 .. n : f[i] = f[j] => i = j  BY <1>4, Zenon DEF IsInjective
  <1> QED  BY <1>1, <1>3, <1>4, <1>8, <1>9, Zenon

\* A rewritten file gives back the map it was written from.
LEMMA ReplayEntries ==
    ASSUME NEW f \in Offsets
    PROVE  Entries(f) \in Seq(Line) /\ AllOk(Entries(f)) /\ Replay(Entries(f)) = f
  <1> DEFINE J == {j \in Key : f[j] # None}
             S == {[key |-> k, next |-> f[k], ok |-> TRUE] : k \in J}
  <1>1. IsFiniteSet(S)
    <2>1. IsFiniteSet(Key)  BY StoreAssumption, FS_Product, Zenon DEF Key
    <2>2. J \in SUBSET Key  BY Zenon
    <2>3. IsFiniteSet(J)  BY <2>1, <2>2, FS_Subset, Zenon
    <2>4. [k \in J |-> [key |-> k, next |-> f[k], ok |-> TRUE]] \in Surjection(J, S)
      BY Zenon DEF Surjection
    <2> HIDE DEF J, S
    <2> QED  BY <2>3, <2>4, FS_Surjection, Zenon
  <1>2. PICK s : s = Iterated(S)  BY Zenon
  <1>3. PICK n \in Nat : n = Cardinality(S)
    <2> HIDE DEF S
    <2> QED  BY <1>1, SetInSequence, Zenon
  <1>4. /\ s \in [1 .. n -> S]
        /\ \A i, j \in 1 .. n : s[i] = s[j] => i = j
        /\ \A x \in S : \E i \in 1 .. n : s[i] = x
    <2> HIDE DEF S
    <2> QED  BY <1>1, <1>2, <1>3, SetInSequence, Zenon
  <1>5. Entries(f) = s  BY <1>2, Zenon DEF Entries
  <1>6. ASSUME NEW k \in Key, f[k] # None, NEW x, x = [key |-> k, next |-> f[k], ok |-> TRUE]
        PROVE  x \in Line /\ x.key = k /\ x.next = f[k] /\ x.ok = TRUE
    <2>1. f[k] \in Offset  BY <1>6, Zenon DEF Offsets
    <2> QED  BY <2>1, <1>6, Zenon DEF Line
  <1>7. ASSUME NEW i \in 1 .. n
        PROVE  \E k \in Key : /\ s[i] = [key |-> k, next |-> f[k], ok |-> TRUE]
                              /\ f[k] # None /\ s[i] \in Line /\ s[i].key = k
                              /\ s[i].next = f[k] /\ s[i].ok = TRUE
    <2>1. s[i] \in S  BY <1>4, Zenon
    <2>2. PICK k \in J : s[i] = [key |-> k, next |-> f[k], ok |-> TRUE]  BY <2>1, Zenon
    <2>3. k \in Key /\ f[k] # None  BY <2>2, Zenon
    <2> HIDE DEF J, S
    <2> QED  BY <2>2, <2>3, <1>6, Zenon
  <1>8. s \in Seq(Line) /\ DOMAIN s = 1 .. n
    <2>1. s \in [1 .. n -> Line]
      <3>1. \A i \in 1 .. n : s[i] \in Line  BY <1>7, Zenon
      <3>2. s = [i \in 1 .. n |-> s[i]]
        <4> HIDE DEF S
        <4> QED  BY <1>4, Zenon
      <3> QED  BY <3>1, <3>2, Zenon
    <2> QED  BY <2>1
  <1>9. AllOk(s)  BY <1>7, <1>8, Zenon DEF AllOk
  <1>10. Sound(s) = 1 .. n  BY <1>8, <1>9, SoundAllOk, Zenon
  <1>11. ASSUME NEW k \in Key PROVE Replay(s)[k] = f[k]
    <2>1. CASE f[k] = None
      <3>1. \A i \in 1 .. n : s[i].key # k  BY <2>1, <1>7, Zenon
      <3>2. NoLine(s, k)  BY <3>1, <1>10, Zenon DEF NoLine
      <3> QED  BY <2>1, <3>2, <1>8, ReplayFinds, Zenon
    <2>2. CASE f[k] # None
      <3>1. PICK x \in S : x = [key |-> k, next |-> f[k], ok |-> TRUE]  BY <2>2, Zenon
      <3>2. x.key = k /\ x.next = f[k]  BY <2>2, <3>1, <1>6, Zenon
      <3>3. PICK i \in 1 .. n : s[i] = x
        <4> HIDE DEF S
        <4> QED  BY <1>4, <3>1, Zenon
      <3>4. ASSUME NEW j \in 1 .. n, s[j].key = k PROVE j <= i
        <4>1. s[j] = x  BY <3>1, <3>4, <1>7, Zenon
        <4>2. j = i
          <5> HIDE DEF S
          <5> QED  BY <4>1, <3>3, <1>4, Zenon
        <4> QED  BY <4>2
      <3>5. IsLast(s, k, i)  BY <3>2, <3>3, <3>4, <1>10, Zenon DEF IsLast
      <3>6. Replay(s)[k] = s[i].next  BY <3>5, <1>8, ReplayFinds, Zenon
      <3> QED  BY <3>2, <3>3, <3>6, Zenon
    <2> QED  BY <2>1, <2>2, Zenon
  <1>12. Replay(s) = f  BY <1>8, <1>11, ReplayEqual, Zenon
  <1> QED  BY <1>5, <1>8, <1>9, <1>12, Zenon

-----------------------------------------------------------------------------
(* One group through one step                                              *)

\* A settled group with a whole file is healthy, unless a commit is open for it.
LEMMA SettledHealthy ==
    ASSUME NEW g \in Group, AllOk(file'[g]), g \notin torn', Settled(g)',
           op' = "commit" => g # request'[1]
    PROVE  Healthy(g)'
  <1>1. ASSUME NEW k \in Key PROVE Replay(file'[g])[k] \in {acked'[g][k]} \cup maybe'[g][k]
    BY Zenon DEF Settled
  <1> QED  BY <1>1, Zenon DEF Healthy, Expected

\* A step that leaves a group alone leaves it settled.
LEMMA SettledFrame ==
    ASSUME NEW g \in Group, Settled(g),
           file'[g] = file[g], offsets'[g] = offsets[g], acked'[g] = acked[g], maybe'[g] = maybe[g]
    PROVE  Settled(g)'
  BY Zenon DEF Settled

\* A step of another group's rewrite leaves a group healthy.
LEMMA HealthyFrame ==
    ASSUME NEW g \in Group, Healthy(g), up, op = "remove",
           file'[g] = file[g], offsets'[g] = offsets[g], acked'[g] = acked[g], maybe'[g] = maybe[g],
           up' = up, op' = op, torn' \subseteq torn,
           g \in touched' <=> g \in touched, g \in unlinked => g \in unlinked'
    PROVE  Healthy(g)'
  <1>1. AllOk(file'[g]) /\ g \notin torn'  BY Zenon DEF Healthy
  <1>2. g \notin unlinked' => \A k \in Key : Replay(file'[g])[k] \in {acked'[g][k]} \cup maybe'[g][k]
    BY Zenon DEF Healthy, Expected
  <1>3. g \notin touched' => Settled(g)'
    <2>1. g \notin touched' => Settled(g)  BY Zenon DEF Healthy
    <2> QED  BY <2>1, SettledFrame, Zenon
  <1>4. op' # "idle" /\ op' # "commit"  OBVIOUS
  <1> QED  BY <1>1, <1>2, <1>3, <1>4, Zenon DEF Healthy, Expected

\* The parts of the map of a typed function that a step replaces.
LEMMA MapTypes ==
    ASSUME NEW R, NEW f \in [Group -> R], NEW g \in Group, NEW r \in R
    PROVE  /\ [f EXCEPT ![g] = r] \in [Group -> R]
           /\ [f EXCEPT ![g] = r][g] = r
           /\ \A h \in Group : h # g => [f EXCEPT ![g] = r][h] = f[h]
  OBVIOUS

LEMMA StoreInit == Init => StoreIInv
  <1> SUFFICES ASSUME Init PROVE StoreIInv  OBVIOUS
  <1>1. NoOffsets \in Offsets  BY Zenon DEF NoOffsets, Offsets
  <1>2. StoreTypeOK
    <2>1. file \in [Group -> Seq(Line)]  BY ReplayEmpty, Zenon DEF Init
    <2>2. offsets \in [Group -> Offsets] /\ acked \in [Group -> Offsets]  BY <1>1, Zenon DEF Init
    <2>3. maybe \in [Group -> [Key -> SUBSET (Offset \cup {None})]]  BY Zenon DEF Init
    <2> QED  BY <2>1, <2>2, <2>3, Zenon DEF Init, StoreTypeOK
  <1>3. OpOK  BY Zenon DEF Init, OpOK
  <1>4. ASSUME NEW g \in Group PROVE Healthy(g)
    <2>1. /\ file[g] = << >> /\ offsets[g] = NoOffsets /\ acked[g] = NoOffsets
          /\ \A k \in Key : maybe[g][k] = {}
      BY Zenon DEF Init
    <2>2. AllOk(file[g]) /\ Settled(g)  BY <2>1, ReplayEmpty, Zenon DEF Settled
    <2>3. \A k \in Key : Replay(file[g])[k] \in {acked[g][k]} \cup maybe[g][k]
      BY <2>2, Zenon DEF Settled
    <2> QED  BY <2>2, <2>3, Zenon DEF Init, Healthy, Expected
  <1> QED  BY <1>2, <1>3, <1>4, Zenon DEF StoreIInv

-----------------------------------------------------------------------------
(* The steps                                                               *)

LEMMA CommitWriteStep ==
    ASSUME StoreIInv, NEW g \in Group, NEW k \in Key, NEW n \in Offset, CommitWrite(g, k, n)
    PROVE  StoreIInv'
  <1>1. StoreTypeOK /\ OpOK /\ \A h \in Group \ hurt : Healthy(h)  BY Zenon DEF StoreIInv
  <1>2. /\ up /\ op = "idle" /\ torn' = torn \ {g} /\ op' = "commit" /\ request' = <<g, k, n>>
        /\ up' = up /\ offsets' = offsets /\ touched' = touched /\ unlinked' = unlinked
        /\ acked' = acked /\ hurt' = hurt
        /\ file' = [file EXCEPT ![g] = Append(file[g], [key |-> k, next |-> n, ok |-> g \notin torn])]
        /\ maybe' = [maybe EXCEPT ![g] = [maybe[g] EXCEPT ![k] = maybe[g][k] \cup {n}]]
    BY Zenon DEF CommitWrite, Appended
  <1>3. request'[1] = g /\ request'[2] = k /\ request'[3] = n /\ request' \in Group \X Key \X Offset
    BY <1>2
  <1>4. PICK t : t = Append(file[g], [key |-> k, next |-> n, ok |-> g \notin torn])  BY Zenon
  <1>5. PICK m : m = [maybe[g] EXCEPT ![k] = maybe[g][k] \cup {n}]  BY Zenon
  <1>6. t \in Seq(Line)
    <2>1. file[g] \in Seq(Line)  BY <1>1, Zenon DEF StoreTypeOK
    <2>2. (g \notin torn) \in BOOLEAN  BY Zenon
    <2>3. [key |-> k, next |-> n, ok |-> g \notin torn] \in Line  BY <2>2, Zenon DEF Line
    <2>4. \A x \in Line : Append(file[g], x) \in Seq(Line)  BY <2>1
    <2> QED  BY <1>4, <2>3, <2>4, Zenon
  <1>7. /\ m \in [Key -> SUBSET (Offset \cup {None})] /\ n \in m[k]
        /\ \A j \in Key : j # k => m[j] = maybe[g][j]
    <2>1. maybe[g] \in [Key -> SUBSET (Offset \cup {None})]  BY <1>1, Zenon DEF StoreTypeOK
    <2> QED  BY <2>1, <1>5
  <1>8. /\ file' \in [Group -> Seq(Line)] /\ file'[g] = t
        /\ \A h \in Group : h # g => file'[h] = file[h]
    <2>1. file \in [Group -> Seq(Line)]  BY <1>1, Zenon DEF StoreTypeOK
    <2>2. file' = [file EXCEPT ![g] = t]  BY <1>2, <1>4, Zenon
    <2> QED  BY <2>1, <2>2, <1>6, MapTypes, Zenon
  <1>9. /\ maybe' \in [Group -> [Key -> SUBSET (Offset \cup {None})]] /\ maybe'[g] = m
        /\ \A h \in Group : h # g => maybe'[h] = maybe[h]
    <2>1. maybe \in [Group -> [Key -> SUBSET (Offset \cup {None})]]  BY <1>1, Zenon DEF StoreTypeOK
    <2>2. maybe' = [maybe EXCEPT ![g] = m]  BY <1>2, <1>5, Zenon
    <2> QED  BY <2>1, <2>2, <1>7, MapTypes, Zenon
  <1>10. StoreTypeOK'  BY <1>1, <1>2, <1>3, <1>8, <1>9, Zenon DEF StoreTypeOK
  <1>11. OpOK'  BY <1>1, <1>2, Zenon DEF OpOK
  <1>12. ASSUME NEW h \in Group \ hurt PROVE Healthy(h)'
    <2>1. AllOk(file[h]) /\ h \notin torn /\ Settled(h)  BY <1>1, <1>2, Zenon DEF Healthy
    <2>2. CASE h # g
      <3>1. Settled(h)'  BY <2>1, <2>2, <1>2, <1>8, <1>9, SettledFrame, Zenon
      <3> QED  BY <2>1, <2>2, <3>1, <1>2, <1>3, <1>8, SettledHealthy, Zenon
    <2>3. CASE h = g
      <3>1. (g \notin torn) = TRUE /\ file[g] \in Seq(Line)
        BY <2>1, <2>3, <1>1, Zenon DEF StoreTypeOK
      <3>2. t = Append(file[g], [key |-> k, next |-> n, ok |-> TRUE])  BY <3>1, <1>4, Zenon
      <3>3. AllOk(t) /\ Replay(t) = [Replay(file[g]) EXCEPT ![k] = n]
        BY <3>1, <3>2, <2>1, <2>3, ReplayAppend, Zenon
      <3>4. Replay(t) = [offsets[g] EXCEPT ![k] = n]  BY <3>3, <2>1, <2>3, Zenon DEF Settled
      <3>5. HalfDone(g)'
        <4>1. Replay(file'[g]) = [offsets'[g] EXCEPT ![request'[2]] = request'[3]]
          BY <3>4, <1>2, <1>3, <1>8, Zenon
        <4>2. acked'[g] = offsets'[g]  BY <2>1, <2>3, <1>2, Zenon DEF Settled
        <4>3. \A j \in Key : j # request'[2] => maybe'[g][j] = {}
          BY <2>1, <2>3, <1>3, <1>7, <1>9, Zenon DEF Settled
        <4> QED  BY <4>1, <4>2, <4>3, Zenon DEF HalfDone
      <3>6. ASSUME NEW j \in Key PROVE Replay(file'[g])[j] \in {acked'[g][j]} \cup maybe'[g][j]
        <4>1. offsets[g] \in [Key -> Offset \cup {None}] /\ offsets[g] = acked[g]
          BY <2>1, <2>3, <1>1, Zenon DEF StoreTypeOK, Offsets, Settled
        <4>2. CASE j = k
          <5>1. Replay(t)[j] = n  BY <3>4, <4>1, <4>2, Zenon
          <5> QED  BY <5>1, <4>2, <1>7, <1>8, <1>9, Zenon
        <4>3. CASE j # k
          <5>1. Replay(t)[j] = acked[g][j]  BY <3>4, <4>1, <4>3, Zenon
          <5> QED  BY <5>1, <1>2, <1>8, Zenon
        <4> QED  BY <4>2, <4>3, Zenon
      <3>7. AllOk(file'[g]) /\ g \notin torn' /\ op' # "idle" /\ op' # "remove"
        BY <3>3, <1>2, <1>8, Zenon
      <3> QED  BY <3>5, <3>6, <3>7, <2>3, <1>3, Zenon DEF Healthy, Expected
    <2> QED  BY <2>2, <2>3, Zenon
  <1>13. \A h \in Group \ hurt' : Healthy(h)'  BY <1>2, <1>12, Zenon
  <1> QED  BY <1>10, <1>11, <1>13, Zenon DEF StoreIInv

LEMMA CommitDoneStep ==
    ASSUME StoreIInv, CommitDone
    PROVE  StoreIInv'
  <1>1. StoreTypeOK /\ OpOK /\ \A h \in Group \ hurt : Healthy(h)  BY Zenon DEF StoreIInv
  <1>2. PICK g \in Group, k \in Key, n \in Offset : g = request[1] /\ k = request[2] /\ n = request[3]
    <2>1. request \in Group \X Key \X Offset  BY <1>1, Zenon DEF CommitDone, StoreTypeOK
    <2>2. request[1] \in Group /\ request[2] \in Key /\ request[3] \in Offset  BY <2>1
    <2> QED  BY <2>2, Zenon
  <1>3. /\ op = "commit" /\ op' = "idle" /\ touched' = {} /\ unlinked' = {}
        /\ file' = file /\ torn' = torn /\ up' = up /\ hurt' = hurt
        /\ offsets' = [offsets EXCEPT ![g] = [offsets[g] EXCEPT ![k] = n]]
        /\ acked' = [acked EXCEPT ![g] = [acked[g] EXCEPT ![k] = n]]
        /\ maybe' = [maybe EXCEPT ![g] = [maybe[g] EXCEPT ![k] = {}]]
    BY <1>2, Zenon DEF CommitDone, Idle, diskVars
  <1>4. PICK f, a, m : /\ f = [offsets[g] EXCEPT ![k] = n] /\ a = [acked[g] EXCEPT ![k] = n]
                       /\ m = [maybe[g] EXCEPT ![k] = {}]
    BY Zenon
  <1>5. /\ f \in Offsets /\ a \in Offsets /\ m \in [Key -> SUBSET (Offset \cup {None})]
        /\ m[k] = {} /\ \A j \in Key : j # k => m[j] = maybe[g][j]
    <2>1. /\ offsets[g] \in [Key -> Offset \cup {None}] /\ acked[g] \in [Key -> Offset \cup {None}]
          /\ maybe[g] \in [Key -> SUBSET (Offset \cup {None})]
      BY <1>1, Zenon DEF StoreTypeOK, Offsets
    <2>2. f \in Offsets /\ a \in Offsets  BY <2>1, <1>4 DEF Offsets
    <2>3. /\ m \in [Key -> SUBSET (Offset \cup {None})]
          /\ m[k] = {} /\ \A j \in Key : j # k => m[j] = maybe[g][j]
      BY <2>1, <1>4
    <2> QED  BY <2>2, <2>3, Zenon
  <1>6. /\ offsets' \in [Group -> Offsets] /\ offsets'[g] = f
        /\ \A h \in Group : h # g => offsets'[h] = offsets[h]
    <2>1. offsets \in [Group -> Offsets]  BY <1>1, Zenon DEF StoreTypeOK
    <2>2. offsets' = [offsets EXCEPT ![g] = f]  BY <1>3, <1>4, Zenon
    <2> QED  BY <2>1, <2>2, <1>5, MapTypes, Zenon
  <1>7. /\ acked' \in [Group -> Offsets] /\ acked'[g] = a
        /\ \A h \in Group : h # g => acked'[h] = acked[h]
    <2>1. acked \in [Group -> Offsets]  BY <1>1, Zenon DEF StoreTypeOK
    <2>2. acked' = [acked EXCEPT ![g] = a]  BY <1>3, <1>4, Zenon
    <2> QED  BY <2>1, <2>2, <1>5, MapTypes, Zenon
  <1>8. /\ maybe' \in [Group -> [Key -> SUBSET (Offset \cup {None})]] /\ maybe'[g] = m
        /\ \A h \in Group : h # g => maybe'[h] = maybe[h]
    <2>1. maybe \in [Group -> [Key -> SUBSET (Offset \cup {None})]]  BY <1>1, Zenon DEF StoreTypeOK
    <2>2. maybe' = [maybe EXCEPT ![g] = m]  BY <1>3, <1>4, Zenon
    <2> QED  BY <2>1, <2>2, <1>5, MapTypes, Zenon
  <1>9. op' # "commit"  BY <1>3
  <1>10. StoreTypeOK'
    <2>1. touched' \subseteq Group  BY <1>3, Zenon
    <2> QED  BY <2>1, <1>1, <1>3, <1>6, <1>7, <1>8, <1>9, Zenon DEF StoreTypeOK
  <1>11. OpOK'  BY <1>3, Zenon DEF OpOK
  <1>12. up  BY <1>1, <1>3 DEF OpOK
  <1>13. ASSUME NEW h \in Group \ hurt PROVE Healthy(h)'
    <2>1. AllOk(file'[h]) /\ h \notin torn'  BY <1>1, <1>3, <1>12, Zenon DEF Healthy
    <2>2. CASE h # g
      <3>1. Settled(h)  BY <2>2, <1>1, <1>2, <1>3, Zenon DEF Healthy
      <3>2. Settled(h)'  BY <2>2, <3>1, <1>3, <1>6, <1>7, <1>8, SettledFrame, Zenon
      <3> QED  BY <2>1, <3>2, <1>9, SettledHealthy, Zenon
    <2>3. CASE h = g
      <3>1. HalfDone(g)  BY <2>3, <1>1, <1>2, <1>3, Zenon DEF Healthy
      <3>2. Replay(file[g]) = f /\ a = f  BY <3>1, <1>2, <1>4, Zenon DEF HalfDone
      <3>3. \A j \in Key : m[j] = {}  BY <3>1, <1>2, <1>5, Zenon DEF HalfDone
      <3>4. Settled(g)'  BY <3>2, <3>3, <1>3, <1>6, <1>7, <1>8, Zenon DEF Settled
      <3> QED  BY <2>1, <2>3, <3>4, <1>9, SettledHealthy, Zenon
    <2> QED  BY <2>2, <2>3, Zenon
  <1>14. \A h \in Group \ hurt' : Healthy(h)'  BY <1>3, <1>13, Zenon
  <1> QED  BY <1>10, <1>11, <1>14, Zenon DEF StoreIInv

LEMMA CommitFailsStep ==
    ASSUME StoreIInv, NEW g \in Group, CommitFails(g)
    PROVE  StoreIInv'
  <1>1. StoreTypeOK /\ OpOK /\ \A h \in Group \ hurt : Healthy(h)  BY Zenon DEF StoreIInv
  <1>2. /\ up /\ op = "idle" /\ torn' = torn \cup {g} /\ hurt' = hurt \cup {g}
        /\ file' = file /\ up' = up /\ offsets' = offsets /\ op' = op /\ request' = request
        /\ touched' = touched /\ unlinked' = unlinked /\ acked' = acked /\ maybe' = maybe
    BY Zenon DEF CommitFails, opVars
  <1>3. StoreTypeOK'
    <2>1. torn' \subseteq Group /\ hurt' \subseteq Group  BY <1>1, <1>2, Zenon DEF StoreTypeOK
    <2> QED  BY <2>1, <1>1, <1>2, Zenon DEF StoreTypeOK
  <1>4. unlinked = {} /\ touched = {} /\ op # "commit"  BY <1>1, <1>2 DEF OpOK
  <1>5. OpOK'  BY <1>1, <1>2, <1>4, Zenon DEF OpOK
  <1>6. ASSUME NEW h \in Group \ hurt' PROVE Healthy(h)'
    <2>1. h \in Group \ hurt /\ h # g  BY <1>2, Zenon
    <2>2. AllOk(file'[h]) /\ h \notin torn' /\ Settled(h)  BY <2>1, <1>1, <1>2, Zenon DEF Healthy
    <2>3. Settled(h)'  BY <2>2, <1>2, SettledFrame, Zenon
    <2> QED  BY <2>2, <2>3, <1>2, <1>4, SettledHealthy, Zenon
  <1> QED  BY <1>3, <1>5, <1>6, Zenon DEF StoreIInv

\* A map without a topic is a map, and the same one if it had nothing of it.
LEMMA WithoutTopic ==
    ASSUME NEW f \in Offsets, NEW t \in Topic
    PROVE  /\ Without(f, t) \in Offsets
           /\ (\A p \in Partition : f[<<t, p>>] = None) => Without(f, t) = f
  <1>1. f = [k \in Key |-> f[k]] /\ \A k \in Key : f[k] \in Offset \cup {None}  BY Zenon DEF Offsets
  <1>2. Without(f, t) \in Offsets
    <2>1. \A k \in Key : (IF k[1] = t THEN None ELSE f[k]) \in Offset \cup {None}  BY <1>1, Zenon
    <2> QED  BY <2>1, Zenon DEF Without, Offsets
  <1>3. ASSUME \A p \in Partition : f[<<t, p>>] = None PROVE Without(f, t) = f
    <2>1. ASSUME NEW k \in Key, k[1] = t PROVE f[k] = None
      <3>1. PICK p \in Partition : k = <<t, p>>  BY <2>1 DEF Key
      <3> QED  BY <3>1, <1>3, Zenon
    <2>2. \A k \in Key : (IF k[1] = t THEN None ELSE f[k]) = f[k]  BY <2>1, Zenon
    <2>3. Without(f, t) = [k \in Key |-> f[k]]  BY <2>2, Zenon DEF Without
    <2> QED  BY <2>3, <1>1, Zenon
  <1> QED  BY <1>2, <1>3, Zenon

LEMMA RemoveTopicStep ==
    ASSUME StoreIInv, NEW t \in Topic, RemoveTopic(t)
    PROVE  StoreIInv'
  <1>1. StoreTypeOK /\ OpOK /\ \A h \in Group \ hurt : Healthy(h)  BY Zenon DEF StoreIInv
  <1>2. /\ up /\ op = "idle" /\ op' = "remove" /\ touched' = {g \in Group : Holds(g, t)}
        /\ file' = file /\ torn' = torn /\ up' = up /\ unlinked' = unlinked /\ hurt' = hurt
    BY Zenon DEF RemoveTopic, diskVars
  <1>3. ASSUME NEW g \in Group
        PROVE  /\ offsets'[g] = Without(offsets[g], t)
               /\ acked'[g] = IF Holds(g, t) THEN acked[g] ELSE Without(acked[g], t)
               /\ \A k \in Key : maybe'[g][k] = IF k[1] # t THEN maybe[g][k]
                                               ELSE IF Holds(g, t) THEN {None} ELSE {}
    BY Zenon DEF RemoveTopic
  <1>4. \A g \in Group : offsets[g] \in Offsets /\ acked[g] \in Offsets
    BY <1>1, Zenon DEF StoreTypeOK
  <1>5. unlinked = {} /\ op' # "idle" /\ op' # "commit"  BY <1>1, <1>2 DEF OpOK
  <1>6. StoreTypeOK'
    <2>1. offsets' \in [Group -> Offsets]  BY <1>4, WithoutTopic, Zenon DEF RemoveTopic
    <2>2. acked' \in [Group -> Offsets]
      <3>1. \A g \in Group : (IF Holds(g, t) THEN acked[g] ELSE Without(acked[g], t)) \in Offsets
        BY <1>4, WithoutTopic, Zenon
      <3> QED  BY <3>1, Zenon DEF RemoveTopic
    <2>3. maybe' \in [Group -> [Key -> SUBSET (Offset \cup {None})]]
      <3>1. \A g \in Group, k \in Key : (IF k[1] # t THEN maybe[g][k] ELSE IF Holds(g, t) THEN {None} ELSE {})
                \in SUBSET (Offset \cup {None})
        <4>1. maybe \in [Group -> [Key -> SUBSET (Offset \cup {None})]]
          BY <1>1, Zenon DEF StoreTypeOK
        <4> QED  BY <4>1, Zenon
      <3> QED  BY <3>1, Zenon DEF RemoveTopic
    <2>4. touched' \subseteq Group  BY <1>2, Zenon
    <2> QED  BY <2>1, <2>2, <2>3, <2>4, <1>1, <1>2, <1>5, Zenon DEF StoreTypeOK
  <1>7. OpOK'  BY <1>2, <1>5, Zenon DEF OpOK
  <1>8. ASSUME NEW g \in Group \ hurt PROVE Healthy(g)'
    <2>1. AllOk(file'[g]) /\ g \notin torn' /\ Settled(g)  BY <1>1, <1>2, Zenon DEF Healthy
    <2>2. CASE Holds(g, t)
      <3>1. g \in touched'  BY <2>2, <1>2, Zenon
      <3>2. acked'[g] = acked[g]  BY <2>2, <1>3, Zenon
      <3>3. Replay(file'[g]) = acked'[g]  BY <2>1, <3>2, <1>2, Zenon DEF Settled
      <3> QED  BY <2>1, <3>1, <3>3, <1>2, <1>5, Zenon DEF Healthy, Expected
    <2>3. CASE ~Holds(g, t)
      <3>1. Without(offsets[g], t) = offsets[g]  BY <2>3, <1>4, WithoutTopic, Zenon DEF Holds
      <3>2. acked[g] = offsets[g]  BY <2>1, Zenon DEF Settled
      <3>3. offsets'[g] = offsets[g] /\ acked'[g] = offsets[g]
        BY <2>3, <3>1, <3>2, <1>3, Zenon
      <3>4. \A k \in Key : maybe'[g][k] = {}  BY <2>1, <2>3, <1>3, Zenon DEF Settled
      <3>5. Settled(g)'  BY <2>1, <3>3, <3>4, <1>2, Zenon DEF Settled
      <3> QED  BY <2>1, <3>5, <1>5, SettledHealthy, Zenon
    <2> QED  BY <2>2, <2>3, Zenon
  <1>9. \A h \in Group \ hurt' : Healthy(h)'  BY <1>2, <1>8, Zenon
  <1> QED  BY <1>6, <1>7, <1>9, Zenon DEF StoreIInv

\* The end of a group's rewrite: the new file says what the map says.
LEMMA RewriteStep ==
    ASSUME StoreIInv, NEW g \in touched, Settle(g), op = "remove",
           NEW s \in Seq(Line), AllOk(s), Replay(s) = offsets[g],
           file' = [file EXCEPT ![g] = s], touched' = touched \ {g}, unlinked' = {},
           \A h \in unlinked : h = g, torn' \subseteq torn, g \notin torn',
           up' = up, offsets' = offsets, op' = op, request' = request
    PROVE  StoreIInv'
  <1>1. StoreTypeOK /\ OpOK /\ \A h \in Group \ hurt : Healthy(h)  BY Zenon DEF StoreIInv
  <1>2. g \in Group  BY <1>1, Zenon DEF StoreTypeOK
  <1>3. up /\ op' # "commit"  BY <1>1 DEF OpOK
  <1>4. PICK e : e = [k \in Key |-> {}]  BY Zenon
  <1>5. e \in [Key -> SUBSET (Offset \cup {None})] /\ \A k \in Key : e[k] = {}  BY <1>4, Zenon
  <1>6. /\ file' \in [Group -> Seq(Line)] /\ file'[g] = s
        /\ \A h \in Group : h # g => file'[h] = file[h]
    <2>1. file \in [Group -> Seq(Line)]  BY <1>1, Zenon DEF StoreTypeOK
    <2> QED  BY <2>1, <1>2, MapTypes, Zenon
  <1>7. /\ acked' \in [Group -> Offsets] /\ acked'[g] = offsets[g]
        /\ \A h \in Group : h # g => acked'[h] = acked[h]
    <2>1. acked \in [Group -> Offsets] /\ offsets[g] \in Offsets
      BY <1>1, <1>2, Zenon DEF StoreTypeOK
    <2>2. acked' = [acked EXCEPT ![g] = offsets[g]]  BY Zenon DEF Settle
    <2> QED  BY <2>1, <2>2, <1>2, MapTypes, Zenon
  <1>8. /\ maybe' \in [Group -> [Key -> SUBSET (Offset \cup {None})]] /\ maybe'[g] = e
        /\ \A h \in Group : h # g => maybe'[h] = maybe[h]
    <2>1. maybe \in [Group -> [Key -> SUBSET (Offset \cup {None})]]  BY <1>1, Zenon DEF StoreTypeOK
    <2>2. maybe' = [maybe EXCEPT ![g] = e]  BY <1>4, Zenon DEF Settle
    <2> QED  BY <2>1, <2>2, <1>2, <1>5, MapTypes, Zenon
  <1>9. hurt' = hurt \ {g}  BY Zenon DEF Settle
  <1>10. StoreTypeOK'
    <2>1. torn' \subseteq Group /\ touched' \subseteq Group /\ hurt' \subseteq Group
      BY <1>1, <1>9, Zenon DEF StoreTypeOK
    <2> QED  BY <2>1, <1>1, <1>6, <1>7, <1>8, Zenon DEF StoreTypeOK
  <1>11. OpOK'
    <2>1. op' = "remove" /\ up'  BY <1>3
    <2> QED  BY <2>1, Zenon DEF OpOK
  <1>12. ASSUME NEW h \in Group \ hurt' PROVE Healthy(h)'
    <2>1. CASE h = g
      <3>1. Settled(g)'  BY <1>5, <1>6, <1>7, <1>8, Zenon DEF Settled
      <3> QED  BY <2>1, <3>1, <1>2, <1>3, <1>6, SettledHealthy, Zenon
    <2>2. CASE h # g
      <3>1. h \in Group \ hurt /\ h \notin unlinked  BY <2>2, <1>9, Zenon
      <3>2. Healthy(h)  BY <3>1, <1>1, Zenon
      <3>3. h \in touched' <=> h \in touched  BY <2>2, Zenon
      <3> QED  BY <2>2, <3>1, <3>2, <3>3, <1>3, <1>6, <1>7, <1>8, HealthyFrame, Zenon
    <2> QED  BY <2>1, <2>2, Zenon
  <1> QED  BY <1>10, <1>11, <1>12, Zenon DEF StoreIInv

LEMMA DropGroupStep ==
    ASSUME StoreIInv, NEW g \in Group, DropGroup(g)
    PROVE  StoreIInv'
  <1>1. /\ op = "remove" /\ g \in touched /\ unlinked = {} /\ offsets[g] = NoOffsets
        /\ file' = [file EXCEPT ![g] = << >>] /\ torn' = torn \ {g} /\ touched' = touched \ {g}
        /\ Settle(g) /\ up' = up /\ offsets' = offsets /\ op' = op /\ request' = request
        /\ unlinked' = unlinked
    BY Zenon DEF DropGroup
  <1>2. torn' \subseteq torn /\ g \notin torn' /\ unlinked' = {} /\ \A h \in unlinked : h = g
    BY <1>1, Zenon
  <1>3. << >> \in Seq(Line) /\ AllOk(<< >>) /\ Replay(<< >>) = offsets[g]  BY <1>1, ReplayEmpty, Zenon
  <1> QED  BY <1>1, <1>2, <1>3, RewriteStep, Zenon

LEMMA UnlinkStep ==
    ASSUME StoreIInv, NEW g \in Group, Unlink(g)
    PROVE  StoreIInv'
  <1>1. StoreTypeOK /\ OpOK /\ \A h \in Group \ hurt : Healthy(h)  BY Zenon DEF StoreIInv
  <1>2. /\ op = "remove" /\ g \in touched /\ unlinked = {}
        /\ file' = [file EXCEPT ![g] = << >>] /\ torn' = torn \ {g} /\ unlinked' = {g}
        /\ up' = up /\ offsets' = offsets /\ op' = op /\ request' = request /\ touched' = touched
        /\ acked' = acked /\ maybe' = maybe /\ hurt' = hurt
    BY Zenon DEF Unlink, histVars
  <1>3. up /\ op' # "commit" /\ op' # "idle"  BY <1>1, <1>2 DEF OpOK
  <1>4. /\ file' \in [Group -> Seq(Line)] /\ file'[g] = << >>
        /\ \A h \in Group : h # g => file'[h] = file[h]
    <2>1. file \in [Group -> Seq(Line)]  BY <1>1, Zenon DEF StoreTypeOK
    <2> QED  BY <2>1, <1>2, ReplayEmpty, MapTypes, Zenon
  <1>5. torn' \subseteq torn /\ torn' \subseteq Group /\ g \notin torn'
    BY <1>1, <1>2, Zenon DEF StoreTypeOK
  <1>6. StoreTypeOK'  BY <1>1, <1>2, <1>4, <1>5, Zenon DEF StoreTypeOK
  <1>7. OpOK'  BY <1>2, <1>3, <1>5, Zenon DEF OpOK
  <1>8. ASSUME NEW h \in Group \ hurt PROVE Healthy(h)'
    <2>1. CASE h = g
      <3>1. AllOk(file'[g]) /\ g \in touched' /\ g \in unlinked'  BY <1>2, <1>4, ReplayEmpty, Zenon
      <3> QED  BY <2>1, <3>1, <1>3, <1>5, Zenon DEF Healthy
    <2>2. CASE h # g
      <3>1. Healthy(h) /\ h \notin unlinked  BY <1>1, <1>2, Zenon
      <3> QED  BY <2>2, <3>1, <1>2, <1>3, <1>4, <1>5, HealthyFrame, Zenon
    <2> QED  BY <2>1, <2>2, Zenon
  <1>9. \A h \in Group \ hurt' : Healthy(h)'  BY <1>2, <1>8, Zenon
  <1> QED  BY <1>6, <1>7, <1>9, Zenon DEF StoreIInv

LEMMA InstallStep ==
    ASSUME StoreIInv, NEW g \in Group, Install(g)
    PROVE  StoreIInv'
  <1>1. StoreTypeOK /\ OpOK  BY Zenon DEF StoreIInv
  <1>2. /\ op = "remove" /\ g \in unlinked /\ unlinked' = {}
        /\ file' = [file EXCEPT ![g] = Entries(offsets[g])] /\ touched' = touched \ {g}
        /\ Settle(g) /\ torn' = torn /\ up' = up /\ offsets' = offsets /\ op' = op
        /\ request' = request
    BY Zenon DEF Install
  <1>3. g \in touched /\ torn' \subseteq torn /\ g \notin torn' /\ \A h \in unlinked : h = g
    BY <1>1, <1>2, Zenon DEF OpOK
  <1>4. offsets[g] \in Offsets  BY <1>1, Zenon DEF StoreTypeOK
  <1>5. /\ Entries(offsets[g]) \in Seq(Line) /\ AllOk(Entries(offsets[g]))
        /\ Replay(Entries(offsets[g])) = offsets[g]
    BY <1>4, ReplayEntries, Zenon
  <1> QED  BY <1>2, <1>3, <1>5, RewriteStep, Zenon

\* The end of a removal, with or without an error: the groups it has not rewritten
\* are in disorder.
LEMMA RemoveEndStep ==
    ASSUME StoreIInv, op = "remove", Idle, hurt' = hurt \cup touched,
           file' = file, torn' = torn, up' = up, offsets' = offsets, acked' = acked, maybe' = maybe
    PROVE  StoreIInv'
  <1>1. StoreTypeOK /\ OpOK /\ \A h \in Group \ hurt : Healthy(h)  BY Zenon DEF StoreIInv
  <1>2. op' = "idle" /\ touched' = {} /\ unlinked' = {}  BY Zenon DEF Idle
  <1>3. up /\ op' # "commit" /\ op' # "remove"  BY <1>1, <1>2 DEF OpOK
  <1>4. StoreTypeOK'
    <2>1. touched' \subseteq Group /\ hurt' \subseteq Group  BY <1>1, <1>2, Zenon DEF StoreTypeOK
    <2> QED  BY <2>1, <1>1, <1>2, <1>3, Zenon DEF StoreTypeOK
  <1>5. OpOK'  BY <1>2, Zenon DEF OpOK
  <1>6. ASSUME NEW h \in Group \ hurt' PROVE Healthy(h)'
    <2>1. h \in Group \ hurt /\ h \notin touched  BY Zenon
    <2>2. AllOk(file'[h]) /\ h \notin torn' /\ Settled(h)  BY <2>1, <1>1, <1>3, Zenon DEF Healthy
    <2>3. Settled(h)'  BY <2>2, SettledFrame, Zenon
    <2> QED  BY <2>2, <2>3, <1>3, SettledHealthy, Zenon
  <1> QED  BY <1>4, <1>5, <1>6, Zenon DEF StoreIInv

LEMMA CrashStep ==
    ASSUME StoreIInv, NEW part \in SUBSET Group, Crash(part)
    PROVE  StoreIInv'
  <1>1. StoreTypeOK /\ OpOK /\ \A h \in Group \ hurt : Healthy(h)  BY Zenon DEF StoreIInv
  <1>2. /\ up' = FALSE /\ torn' = torn \cup part /\ offsets' = [g \in Group |-> NoOffsets]
        /\ hurt' = hurt \cup unlinked /\ op' = "idle" /\ touched' = {} /\ unlinked' = {}
        /\ file' = file /\ acked' = acked /\ maybe' = maybe
    BY Zenon DEF Crash, Idle
  <1>3. op' # "commit" /\ op' # "remove" /\ ~up'  BY <1>2
  <1>4. StoreTypeOK'
    <2>1. NoOffsets \in Offsets  BY Zenon DEF NoOffsets, Offsets
    <2>2. offsets' \in [Group -> Offsets]  BY <2>1, <1>2, Zenon
    <2>3. unlinked \subseteq Group  BY <1>1, Zenon DEF StoreTypeOK, OpOK
    <2>4. torn' \subseteq Group /\ hurt' \subseteq Group /\ touched' \subseteq Group
      BY <2>3, <1>1, <1>2, Zenon DEF StoreTypeOK
    <2> QED  BY <2>2, <2>4, <1>1, <1>2, <1>3, Zenon DEF StoreTypeOK
  <1>5. OpOK'  BY <1>2, Zenon DEF OpOK
  <1>6. ASSUME NEW h \in Group \ hurt' PROVE Healthy(h)'
    <2>1. h \in Group \ hurt /\ h \notin unlinked  BY <1>2, Zenon
    <2>2. AllOk(file'[h])  BY <2>1, <1>1, <1>2, Zenon DEF Healthy
    <2>3. \A k \in Key : Replay(file'[h])[k] \in {acked'[h][k]} \cup maybe'[h][k]
      BY <2>1, <1>1, <1>2, Zenon DEF Healthy, Expected
    <2> QED  BY <2>2, <2>3, <1>3, Zenon DEF Healthy, Expected
  <1> QED  BY <1>4, <1>5, <1>6, Zenon DEF StoreIInv

LEMMA RecoverStep ==
    ASSUME StoreIInv, Recover
    PROVE  StoreIInv'
  <1>1. StoreTypeOK /\ OpOK  BY Zenon DEF StoreIInv
  <1>2. /\ ~up /\ offsets' = [g \in Group |-> Replay(file[g])] /\ torn' = {} /\ acked' = offsets'
        /\ file' = [g \in Group |-> SubSeq(file[g], 1, Cardinality(Sound(file[g])))]
        /\ maybe' = [g \in Group |-> [k \in Key |-> {}]] /\ hurt' = {} /\ up' = TRUE
        /\ op' = op /\ request' = request /\ touched' = touched /\ unlinked' = unlinked
    BY Zenon DEF Recover, opVars
  <1>3. op' = "idle" /\ op' # "commit" /\ op' # "remove" /\ touched' = {} /\ unlinked' = {}
    BY <1>1, <1>2 DEF OpOK
  <1>4. ASSUME NEW g \in Group
        PROVE  /\ file'[g] \in Seq(Line) /\ AllOk(file'[g]) /\ Replay(file'[g]) = Replay(file[g])
               /\ Replay(file[g]) \in Offsets
    <2>1. file[g] \in Seq(Line)  BY <1>1, Zenon DEF StoreTypeOK
    <2>2. file'[g] = SubSeq(file[g], 1, Cardinality(Sound(file[g])))  BY <1>2, Zenon
    <2> QED  BY <2>1, <2>2, ReplayCut, ReplayTyped, Zenon
  <1>5. StoreTypeOK'
    <2>1. file' \in [Group -> Seq(Line)]
      <3>1. file' = [g \in Group |-> file'[g]]  BY <1>2, Zenon
      <3>2. \A g \in Group : file'[g] \in Seq(Line)  BY <1>4, Zenon
      <3> QED  BY <3>1, <3>2, Zenon
    <2>2. offsets' \in [Group -> Offsets] /\ acked' \in [Group -> Offsets]  BY <1>2, <1>4, Zenon
    <2>3. maybe' \in [Group -> [Key -> SUBSET (Offset \cup {None})]]  BY <1>2, Zenon
    <2>4. torn' \subseteq Group /\ hurt' \subseteq Group /\ touched' \subseteq Group /\ up' \in BOOLEAN
      BY <1>2, <1>3, Zenon
    <2> QED  BY <2>1, <2>2, <2>3, <2>4, <1>3, Zenon DEF StoreTypeOK
  <1>6. OpOK'  BY <1>3, Zenon DEF OpOK
  <1>7. ASSUME NEW h \in Group PROVE Healthy(h)'
    <2>1. AllOk(file'[h]) /\ Replay(file'[h]) = Replay(file[h])  BY <1>4, Zenon
    <2>2. offsets'[h] = Replay(file[h]) /\ \A k \in Key : maybe'[h][k] = {}  BY <1>2, Zenon
    <2>3. Settled(h)'  BY <2>1, <2>2, <1>2, Zenon DEF Settled
    <2>4. h \notin torn'  BY <1>2, Zenon
    <2> QED  BY <2>1, <2>3, <2>4, <1>3, SettledHealthy, Zenon
  <1> QED  BY <1>5, <1>6, <1>7, Zenon DEF StoreIInv

-----------------------------------------------------------------------------
(* The theorems                                                            *)

LEMMA StoreStep == StoreIInv /\ [Next]_vars => StoreIInv'
  <1> SUFFICES ASSUME StoreIInv, [Next]_vars PROVE StoreIInv'  OBVIOUS
  <1>1. ASSUME NEW g \in Group, NEW k \in Key, NEW n \in Offset, CommitWrite(g, k, n)
        PROVE  StoreIInv'
    BY <1>1, CommitWriteStep, Zenon
  <1>2. CASE CommitDone  BY <1>2, CommitDoneStep, Zenon
  <1>3. ASSUME NEW g \in Group, CommitFails(g) PROVE StoreIInv'  BY <1>3, CommitFailsStep, Zenon
  <1>4. ASSUME NEW t \in Topic, RemoveTopic(t) PROVE StoreIInv'  BY <1>4, RemoveTopicStep, Zenon
  <1>5. ASSUME NEW g \in Group, DropGroup(g) PROVE StoreIInv'  BY <1>5, DropGroupStep, Zenon
  <1>6. ASSUME NEW g \in Group, Unlink(g) PROVE StoreIInv'  BY <1>6, UnlinkStep, Zenon
  <1>7. ASSUME NEW g \in Group, Install(g) PROVE StoreIInv'  BY <1>7, InstallStep, Zenon
  <1>8. CASE RemoveDone
    <2>1. /\ op = "remove" /\ touched = {} /\ Idle /\ file' = file /\ torn' = torn /\ up' = up
          /\ offsets' = offsets /\ acked' = acked /\ maybe' = maybe /\ hurt' = hurt
      BY <1>8, Zenon DEF RemoveDone, diskVars, histVars
    <2>2. hurt' = hurt \cup touched  BY <2>1, Zenon
    <2> QED  BY <2>1, <2>2, RemoveEndStep, Zenon
  <1>9. CASE RemoveFails
    <2>1. /\ op = "remove" /\ Idle /\ file' = file /\ torn' = torn /\ up' = up
          /\ offsets' = offsets /\ acked' = acked /\ maybe' = maybe /\ hurt' = hurt \cup touched
      BY <1>9, Zenon DEF RemoveFails, diskVars
    <2> QED  BY <2>1, RemoveEndStep, Zenon
  <1>10. ASSUME NEW part \in SUBSET Group, Crash(part) PROVE StoreIInv'  BY <1>10, CrashStep, Zenon
  <1>11. CASE Recover  BY <1>11, RecoverStep, Zenon
  <1>12. CASE UNCHANGED vars
    <2>1. /\ file' = file /\ torn' = torn /\ up' = up /\ offsets' = offsets /\ op' = op
          /\ request' = request /\ touched' = touched /\ unlinked' = unlinked
          /\ acked' = acked /\ maybe' = maybe /\ hurt' = hurt
      BY <1>12, Zenon DEF vars, diskVars, opVars, histVars
    <2>2. StoreTypeOK' /\ OpOK'  BY <2>1, Zenon DEF StoreIInv, StoreTypeOK, OpOK
    <2>3. \A g \in Group \ hurt' : Healthy(g)'
      BY <2>1, Zenon DEF StoreIInv, Healthy, Settled, HalfDone, Expected
    <2> QED  BY <2>2, <2>3, Zenon DEF StoreIInv
  <1> QED
    BY <1>1, <1>2, <1>3, <1>4, <1>5, <1>6, <1>7, <1>8, <1>9, <1>10, <1>11, <1>12, Zenon DEF Next

\* Memory, disk and the answers given agree for every group whose file is not in
\* disorder, but for what the operation in progress has done so far.
THEOREM StoreInvariant == Spec => []StoreIInv
  BY StoreInit, StoreStep, PTL DEF Spec

\* Between operations the map in memory is what the replay of the files gives,
\* but for groups whose file a failed write or a half-done rewrite left in
\* disorder (commit, remove_topic and recover_group).
THEOREM StoreMemoryOnDisk == Spec => []MemoryOnDisk
  <1>1. StoreIInv => MemoryOnDisk
    <2> SUFFICES ASSUME StoreIInv, up, op = "idle", NEW g \in Group \ hurt
                 PROVE  offsets[g] = Replay(file[g])
      BY Zenon DEF MemoryOnDisk
    <2>1. Healthy(g)  BY Zenon DEF StoreIInv
    <2> QED  BY <2>1, Zenon DEF Healthy, Settled
  <1> QED  BY <1>1, StoreInvariant, PTL

\* A restart finds, for every key of a group whose file is not in disorder, the
\* last answered commit or removal, or one that was never answered.
THEOREM StoreHealthyResumes == Spec => HealthyResumes
  <1>1. StoreIInv /\ [Next]_vars =>
          [~up /\ up' => \A g \in Group \ hurt, k \in Key : offsets'[g][k] \in Expected(g, k)]_vars
    <2> SUFFICES ASSUME StoreIInv, Next, ~up, up', NEW g \in Group \ hurt, NEW k \in Key
                 PROVE  offsets'[g][k] \in Expected(g, k)
      BY Zenon
    <2>1. Recover
      <3>1. op # "commit" /\ op # "remove"  BY DEF StoreIInv, OpOK
      <3> QED
        BY <3>1, Zenon DEF Next, CommitWrite, CommitDone, CommitFails, RemoveTopic, DropGroup, Unlink,
                           Install, RemoveDone, RemoveFails, Crash
    <2>2. offsets'[g] = Replay(file[g])  BY <2>1, Zenon DEF Recover
    <2>3. g \notin unlinked
      <3>1. unlinked = {}  BY DEF StoreIInv, OpOK
      <3> QED  BY <3>1, Zenon
    <2>4. Healthy(g)  BY Zenon DEF StoreIInv
    <2> QED  BY <2>2, <2>3, <2>4, Zenon DEF Healthy
  <1> QED  BY <1>1, StoreInvariant, PTL DEF Spec, HealthyResumes

=============================================================================
