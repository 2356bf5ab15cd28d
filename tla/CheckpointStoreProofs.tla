----------------------- MODULE CheckpointStoreProofs -----------------------
(***************************************************************************)
(* For any number of clients and checkpoints, both savers and every limit: *)
(* the store keeps what CheckpointStore promises, and implements           *)
(* NewestCheckpoint.                                                       *)
(*                                                                         *)
(* The argument: a checkpoint that has been stamped is known to nobody     *)
(* else until it is stored (StampsAreFresh), so that storing it late       *)
(* changes nothing that others rely on.  A running call holds at least the *)
(* updates of the checkpoint that will be the parent of its next one       *)
(* (CallsBuildOnParents); a write goes to the checkpoint that it is about  *)
(* (WritesInPlace); and calls one after the other hold what the latest     *)
(* checkpoint holds (FreshCallsAreUpToDate).                               *)
(***************************************************************************)
EXTENDS CheckpointStore, FiniteSetTheorems, SequenceTheorems, TLAPS

\* A checkpoint between its stamp and its put: newer than nothing that is named anywhere.
StampsAreFresh ==
  /\ \A i \in stored : i <= clock /\ parent[i] <= clock
  /\ \A c \in Clients : config[c] <= clock
  /\ \A c \in Clients : at[c] = "stamped" =>
       /\ stamp[c] \in Stamp /\ stamp[c] <= clock
       /\ stamp[c] \notin stored
       /\ \A i \in stored : parent[i] # stamp[c]
       /\ \A d \in Clients : config[d] # stamp[c]
       /\ \A d \in Clients : at[d] = "stamped" /\ stamp[d] = stamp[c] => d = c

\* The updates of a stored parent are in its children, and in the state of a call that is
\* going to make one.
CallsBuildOnParents ==
  /\ \A i \in stored : parent[i] \in stored => trail[parent[i]] \subseteq trail[i]
  /\ \A c \in Clients :
       at[c] # "idle" /\ config[c] \in stored => trail[config[c]] \subseteq state[c]

WritesInPlace ==
  \A i \in Stamp : writes[i] \subseteq {i} /\ (i \in answered_writes => writes[i] = {i})

\* Calls one after the other: the one that runs holds all updates, and stamped last.
FreshCallsAreUpToDate ==
  plain =>
    /\ \A c, d \in Active : c = d
    /\ \A c \in Active : state[c] = put_ever
    /\ \A c \in Active : at[c] = "stamped" => \A i \in stored : i < stamp[c]
    /\ IF stored = {} THEN put_ever = {} ELSE trail[Latest] = put_ever

StoreInv ==
  StoreTypeOK /\ StampsAreFresh /\ CallsBuildOnParents /\ WritesInPlace /\ FreshCallsAreUpToDate

-----------------------------------------------------------------------------
(* Newest, oldest and descending order.                                    *)

\* Ids can be compared and counted.
LEMMA StampsAreNumbers == \A ids \in SUBSET Stamp : \A i \in ids : i \in Nat
  BY StoreAssumption DEF Stamp

\* Sets of ids are finite.
LEMMA StampsFinite == \A ids \in SUBSET Stamp : IsFiniteSet(ids) /\ Cardinality(ids) \in Nat
<1>1. IsFiniteSet(Stamp)
  BY StoreAssumption, FS_Interval DEF Stamp
<1> QED  BY <1>1, FS_Subset, FS_CardinalityType

\* The sets of the ids newer than one of `ids` are ordered by inclusion: the least is empty.
LEMMA NewestExists ==
  ASSUME NEW ids \in SUBSET Stamp, ids # {}
  PROVE  NewestOf(ids) \in ids /\ \A j \in ids : j <= NewestOf(ids)
<1> DEFINE newer(i) == {j \in ids : j > i}
           family   == {newer(i) : i \in ids}
<1>1. family \subseteq FiniteSubsetsOf(ids) /\ family # {}
  <2>1. FiniteSubsetsOf(ids) = SUBSET ids
    BY StampsFinite, FS_FiniteSubsetsOfFinite
  <2>2. \A i \in ids : newer(i) \in SUBSET ids
    OBVIOUS
  <2>3. family # {}
    OBVIOUS
  <2> HIDE DEF newer
  <2> QED  BY <2>1, <2>2, <2>3
<1>2. PICK least \in family :
        \A other \in family : <<other, least>> \notin StrictSubsetOrdering(ids)
  <2>1. IsWellFoundedOn(StrictSubsetOrdering(ids), FiniteSubsetsOf(ids))
    BY FS_StrictSubsetOrderingWellFounded
  <2> HIDE DEF family
  <2> QED  BY <1>1, <2>1, WFMin
<1>3. PICK i \in ids : least = newer(i)
  OBVIOUS
<1>4. \A j \in ids : j <= i
  <2> SUFFICES ASSUME NEW j \in ids, j > i
               PROVE  FALSE
    BY StampsAreNumbers
  <2>1. newer(j) \subseteq newer(i)
    BY StampsAreNumbers
  <2>2. j \in newer(i) /\ j \notin newer(j)
    BY StampsAreNumbers
  <2>3. <<newer(j), newer(i)>> \in StrictSubsetOrdering(ids)
    BY <2>1, <2>2 DEF StrictSubsetOrdering
  <2> QED  BY <1>2, <1>3, <2>3
<1> QED  BY <1>4 DEF NewestOf

\* The same for the oldest, with the order turned around.
LEMMA OldestExists ==
  ASSUME NEW ids \in SUBSET Stamp, ids # {}
  PROVE  OldestOf(ids) \in ids /\ \A j \in ids : OldestOf(ids) <= j
<1> DEFINE flip(i)  == MaxStamps + 1 - i
           flipped  == {flip(i) : i \in ids}
<1>1. flipped \in SUBSET Stamp /\ flipped # {}
  BY StoreAssumption DEF Stamp
<1>2. PICK i \in ids : NewestOf(flipped) = flip(i)
  <2> HIDE DEF flipped
  <2>1. NewestOf(flipped) \in flipped
    BY <1>1, NewestExists
  <2> QED  BY <2>1 DEF flipped
<1>3. \A j \in ids : flip(j) <= flip(i)
  <2>1. \A k \in flipped : k <= NewestOf(flipped)
    <3> HIDE DEF flipped
    <3> QED  BY <1>1, NewestExists
  <2> QED  BY <1>2, <2>1
<1>4. \A j \in ids : i <= j
  BY <1>3, StoreAssumption DEF Stamp
<1> QED  BY <1>4 DEF OldestOf

\* The id that no other exceeds is the newest.
LEMMA NewestIs ==
  ASSUME NEW ids \in SUBSET Stamp, NEW i \in ids, \A j \in ids : j <= i
  PROVE  NewestOf(ids) = i
<1>1. NewestOf(ids) \in ids /\ \A j \in ids : j <= NewestOf(ids)
  BY NewestExists
<1> QED  BY <1>1, StampsAreNumbers

\* The newest of several checkpoints is not the oldest: it is not evicted.
LEMMA NewestStays ==
  ASSUME NEW ids \in SUBSET Stamp, ids # {}
  PROVE  NewestOf(ids) \in ids \ Evicted(ids)
<1>1. NewestOf(ids) \in ids /\ \A j \in ids : j <= NewestOf(ids)
  BY NewestExists
<1>2. CASE Cardinality(ids) > MaxPerThread
  <2>1. Cardinality(ids) # 1
    BY <1>2, StampsFinite, StoreAssumption
  <2>2. PICK j \in ids : j # NewestOf(ids)
    BY <1>1, <2>1, FS_Singleton
  <2>3. OldestOf(ids) <= j /\ OldestOf(ids) \in ids
    BY OldestExists
  <2>4. OldestOf(ids) # NewestOf(ids)
    BY <1>1, <2>2, <2>3, StampsAreNumbers
  <2> QED  BY <1>1, <2>4 DEF Evicted
<1>3. CASE ~(Cardinality(ids) > MaxPerThread)
  BY <1>1, <1>3 DEF Evicted
<1> QED  BY <1>2, <1>3

-----------------------------------------------------------------------------
(* Listings: all ids of a set, in descending order.  There is one listing  *)
(* of a set, for the place of an id in it is the number of newer ids.      *)

Lists(seq, ids) ==
  /\ seq \in Seq(ids)
  /\ \A j, k \in 1..Len(seq) : j < k => seq[j] > seq[k]
  /\ \A i \in ids : \E k \in 1..Len(seq) : seq[k] = i

Newer(ids, i) == {j \in ids : j > i}

\* What is before the k-th place of a listing is newer, and nothing else is.
LEMMA PlaceInListing ==
  ASSUME NEW ids \in SUBSET Stamp, NEW seq, Lists(seq, ids), NEW k \in 1..Len(seq)
  PROVE  Cardinality(Newer(ids, seq[k])) = k - 1
<1> DEFINE f == [m \in 1..k-1 |-> seq[m]]
           T == Newer(ids, seq[k])
<1>1. /\ Len(seq) \in Nat /\ \A m \in 1..Len(seq) : seq[m] \in ids /\ seq[m] \in Nat
      /\ k - 1 \in Nat /\ 1..k-1 \subseteq 1..Len(seq)
  <2>1. Len(seq) \in Nat /\ seq \in [1..Len(seq) -> ids]
    BY LenProperties DEF Lists
  <2>2. \A m \in 1..Len(seq) : seq[m] \in ids /\ seq[m] \in Nat
    BY <2>1, StampsAreNumbers
  <2> QED  BY <2>1, <2>2
<1>2. f \in [1..k-1 -> T]
  <2>1. \A m \in 1..k-1 : m \in 1..Len(seq) /\ m < k
    BY <1>1
  <2>2. \A m \in 1..k-1 : seq[m] > seq[k]
    BY <2>1 DEF Lists
  <2> QED  BY <1>1, <2>2 DEF Newer
<1>3. \A m, n \in 1..k-1 : f[m] = f[n] => m = n
  <2> SUFFICES ASSUME NEW m \in 1..k-1, NEW n \in 1..k-1, f[m] = f[n], m # n
               PROVE  FALSE
    OBVIOUS
  <2>1. m \in 1..Len(seq) /\ n \in 1..Len(seq) /\ (m < n \/ n < m) /\ seq[m] = seq[n]
    BY <1>1
  <2>2. seq[m] \in Nat /\ (seq[m] > seq[n] \/ seq[n] > seq[m])
    BY <1>1, <2>1 DEF Lists
  <2> QED  BY <2>1, <2>2
<1>4. \A j \in T : \E m \in 1..k-1 : f[m] = j
  <2> SUFFICES ASSUME NEW j \in ids, j > seq[k]
               PROVE  \E m \in 1..k-1 : f[m] = j
    BY DEF Newer
  <2>1. PICK m \in 1..Len(seq) : seq[m] = j
    BY DEF Lists
  <2>2. ~(k < m) /\ k # m
    <3>1. seq[m] \in Nat /\ seq[k] \in Nat /\ seq[m] > seq[k]
      BY <1>1, <2>1
    <3>2. k < m => seq[k] > seq[m]
      BY DEF Lists
    <3> QED  BY <3>1, <3>2
  <2>3. m \in 1..k-1
    BY <1>1, <2>2
  <2> QED  BY <2>1, <2>3
<1>5. f \in Bijection(1..k-1, T)
  <2> HIDE DEF f, T
  <2> QED  BY <1>2, <1>3, <1>4 DEF Bijection, Injection, Surjection, IsInjective
<1> QED  BY <1>1, <1>5, FS_CountingElements DEF ExistsBijection

\* A listing has each id once.
LEMMA LengthOfListing ==
  ASSUME NEW ids \in SUBSET Stamp, NEW seq, Lists(seq, ids)
  PROVE  Len(seq) = Cardinality(ids)
<1>1. Len(seq) \in Nat /\ seq \in [1..Len(seq) -> ids]
  BY LenProperties DEF Lists
<1>2. \A m, n \in 1..Len(seq) : seq[m] = seq[n] => m = n
  <2> SUFFICES ASSUME NEW m \in 1..Len(seq), NEW n \in 1..Len(seq), seq[m] = seq[n], m # n
               PROVE  FALSE
    OBVIOUS
  <2>1. (m < n \/ n < m) /\ seq[m] \in Nat
    BY <1>1, StampsAreNumbers
  <2>2. \A i, j \in 1..Len(seq) : i < j => seq[i] > seq[j]
    BY DEF Lists
  <2>3. seq[m] > seq[n] \/ seq[n] > seq[m]
    BY <2>1, <2>2
  <2>4. seq[m] = seq[n] /\ seq[n] \in Nat
    BY <2>1
  <2> QED  BY <2>1, <2>3, <2>4
<1>3. seq \in Bijection(1..Len(seq), ids)
  BY <1>1, <1>2 DEF Lists, Bijection, Injection, Surjection, IsInjective
<1> QED  BY <1>1, <1>3, FS_CountingElements DEF ExistsBijection

\* Listings of one set agree: the same id has the same number of newer ones.
LEMMA OneListing ==
  ASSUME NEW ids \in SUBSET Stamp, NEW seq, Lists(seq, ids), NEW other, Lists(other, ids)
  PROVE  seq = other
<1>1. Len(seq) = Len(other) /\ Len(seq) \in Nat
  BY LengthOfListing, LenProperties DEF Lists
<1>2. ASSUME NEW k \in 1..Len(seq)
      PROVE  seq[k] = other[k]
  <2>1. seq[k] \in ids
    BY ElementOfSeq DEF Lists
  <2>2. PICK m \in 1..Len(other) : other[m] = seq[k]
    BY <2>1 DEF Lists
  <2>3. k - 1 = m - 1
    BY <2>2, PlaceInListing
  <2> QED  BY <1>1, <2>2, <2>3
<1> QED  BY <1>1, <1>2, SeqEqual DEF Lists

\* The place of an id is one more than the number of newer ones.
LEMMA ListingExists ==
  ASSUME NEW ids \in SUBSET Stamp
  PROVE  Lists(NewestFirst(ids), ids)
<1> DEFINE n        == Cardinality(ids)
           since(i) == {j \in ids : j >= i}
           place    == [i \in ids |-> Cardinality(since(i))]
           at_place == [k \in 1..n |-> CHOOSE i \in ids : place[i] = k]
<1>1. n \in Nat /\ IsFiniteSet(ids) /\ \A i \in ids : i \in Nat
  BY StampsFinite, StampsAreNumbers
<1>2. \A i \in ids : IsFiniteSet(since(i)) /\ since(i) \in SUBSET ids /\ i \in since(i)
  BY <1>1, FS_Subset
<1>3. ASSUME NEW i \in ids, NEW j \in ids, i > j
      PROVE  place[i] < place[j]
  <2>1. since(i) \in SUBSET since(j) /\ since(i) # since(j)
    BY <1>1, <1>3
  <2>2. Cardinality(since(i)) <= Cardinality(since(j)) /\ Cardinality(since(i)) # Cardinality(since(j))
    BY <1>2, <2>1, FS_Subset
  <2>3. Cardinality(since(i)) \in Nat /\ Cardinality(since(j)) \in Nat
    BY <1>2, FS_CardinalityType
  <2> HIDE DEF since
  <2> QED  BY <2>2, <2>3
<1>4. place \in [ids -> 1..n]
  <2> SUFFICES ASSUME NEW i \in ids
               PROVE  Cardinality(since(i)) \in 1..n
    OBVIOUS
  <2>1. Cardinality(since(i)) \in Nat /\ Cardinality(since(i)) <= n
    BY <1>1, <1>2, FS_Subset, FS_CardinalityType
  <2>2. Cardinality(since(i)) # 0
    BY <1>2, FS_EmptySet
  <2> HIDE DEF since
  <2> QED  BY <1>1, <2>1, <2>2
<1>5. \A i, j \in ids : place[i] = place[j] => i = j
  <2> SUFFICES ASSUME NEW i \in ids, NEW j \in ids, place[i] = place[j], i # j
               PROVE  FALSE
    OBVIOUS
  <2> HIDE DEF place
  <2>1. place[i] \in Nat /\ place[j] \in Nat
    BY <1>1, <1>4
  <2>2. i > j \/ j > i
    BY <1>1
  <2> QED  BY <1>3, <2>1, <2>2
<1>6. \A k \in 1..n : \E i \in ids : place[i] = k
  <2> HIDE DEF place, n
  <2>1. place \in Injection(ids, 1..n)
    BY <1>4, <1>5 DEF Injection, IsInjective
  <2>2. IsFiniteSet(1..n) /\ Cardinality(1..n) = n
    BY <1>1, FS_Interval
  <2>3. place \in Surjection(ids, 1..n)
    BY <2>1, <2>2, FS_Injection DEF n
  <2> QED  BY <2>3 DEF Surjection
<1>7. /\ at_place \in [1..n -> ids]
      /\ \A k \in 1..n : place[at_place[k]] = k
  <2> HIDE DEF place, n
  <2> QED  BY <1>6
<1>8. \A j, k \in 1..n : j < k => at_place[j] > at_place[k]
  <2> SUFFICES ASSUME NEW j \in 1..n, NEW k \in 1..n, j < k, ~(at_place[j] > at_place[k])
               PROVE  FALSE
    OBVIOUS
  <2> HIDE DEF place, n, at_place
  <2>1. at_place[j] \in ids /\ at_place[k] \in ids /\ at_place[j] \in Nat /\ at_place[k] \in Nat
    BY <1>1, <1>7
  <2>2. at_place[k] > at_place[j] \/ at_place[k] = at_place[j]
    BY <2>1
  <2>3. k < j \/ k = j
    BY <1>3, <1>7, <2>1, <2>2
  <2> QED  BY <1>1, <2>3
<1>9. /\ NewestFirst(ids) \in [1..n -> ids]
      /\ \A j, k \in 1..n : j < k => NewestFirst(ids)[j] > NewestFirst(ids)[k]
  <2> HIDE DEF at_place, place
  <2> QED  BY <1>7, <1>8 DEF NewestFirst
<1>10. NewestFirst(ids) \in Seq(ids) /\ Len(NewestFirst(ids)) = n
  <2> HIDE DEF n
  <2> QED  BY <1>1, <1>9
<1>11. \A i \in ids : \E k \in 1..n : NewestFirst(ids)[k] = i
  <2> DEFINE seq == NewestFirst(ids)
  <2> HIDE DEF n, seq
  <2>1. \A j, k \in 1..n : seq[j] = seq[k] => j = k
    <3> SUFFICES ASSUME NEW j \in 1..n, NEW k \in 1..n, seq[j] = seq[k], j # k
                 PROVE  FALSE
      OBVIOUS
    <3>1. (j < k \/ k < j) /\ seq[j] \in Nat
      BY <1>1, <1>9 DEF seq
    <3> QED  BY <1>9, <3>1 DEF seq
  <2>2. seq \in Injection(1..n, ids)
    BY <1>9, <2>1 DEF Injection, IsInjective, seq
  <2>3. IsFiniteSet(1..n) /\ Cardinality(1..n) = n
    BY <1>1, FS_Interval
  <2>4. seq \in Surjection(1..n, ids)
    BY <1>1, <2>2, <2>3, FS_Injection DEF n
  <2> QED  BY <2>4 DEF Surjection, seq
<1> QED  BY <1>9, <1>10, <1>11 DEF Lists

-----------------------------------------------------------------------------
(* The invariant.                                                          *)

\* The initial states satisfy the invariant.
LEMMA StoreInit == Init => StoreInv
<1> SUFFICES ASSUME Init
             PROVE  StoreInv
  OBVIOUS
<1>1. StoreTypeOK
  BY StoreAssumption, FS_EmptySet DEF Init, StoreTypeOK, Stamp, NoTx
<1>2. StampsAreFresh
  BY <1>1, StoreAssumption DEF Init, StampsAreFresh
<1>3. CallsBuildOnParents /\ WritesInPlace /\ FreshCallsAreUpToDate
  BY DEF Init, CallsBuildOnParents, WritesInPlace, FreshCallsAreUpToDate, Active
<1> QED  BY <1>1, <1>2, <1>3 DEF StoreInv

\* What an id in a config leads to is stored, or nothing.
LEMMA LoadedIsStored ==
  ASSUME StoreTypeOK, NEW id \in 0..MaxStamps
  PROVE  /\ Loaded(id) # 0 => Loaded(id) \in stored
         /\ stored = {} => Loaded(id) = 0
         /\ id \in stored => Loaded(id) = id
         /\ Loaded(0) = Latest /\ (stored # {} => Latest # 0)
<1>1. stored # {} => Latest \in stored
  BY NewestExists DEF StoreTypeOK, Latest
<1>2. 0 \notin stored
  BY DEF StoreTypeOK, Stamp
<1> QED  BY <1>1, <1>2 DEF Loaded, Latest

\* A call that starts holds what its config leads to.
LEMMA CallKeeps ==
  ASSUME StoreInv, NEW c \in Clients, Call(c)
  PROVE  StoreInv'
<1> USE DEF StoreInv
<1>1. PICK id \in ConfigIds(c) :
        /\ config' = [config EXCEPT ![c] = id]
        /\ state' = [state EXCEPT ![c] = IF Loaded(id) = 0 THEN {} ELSE trail[Loaded(id)]]
        /\ plain' = (plain /\ id = 0 /\ Active = {})
  BY DEF Call
<1>2. /\ at[c] = "idle" /\ at' = [at EXCEPT ![c] = "running"]
      /\ put_ever' = IF plain' THEN put_ever ELSE {}
      /\ UNCHANGED <<saver, entry, stored, parent, trail, writes, tx, clock, stamp, asks,
                     answered_writes>>
  BY DEF Call, db
<1>3. id \in {0, config[c]} \cup stored /\ id \in 0..MaxStamps
  <2>1. id \in {0, config[c]} \cup stored
    BY DEF ConfigIds
  <2>2. stored \subseteq 1..MaxStamps /\ config[c] \in 0..MaxStamps
    BY DEF StoreTypeOK, Stamp
  <2>3. 0 \in 0..MaxStamps /\ 1..MaxStamps \subseteq 0..MaxStamps
    BY StoreAssumption
  <2> HIDE DEF StoreInv
  <2> QED  BY <2>1, <2>2, <2>3
<1>4. StoreTypeOK'
  <2>1. (IF Loaded(id) = 0 THEN {} ELSE trail[Loaded(id)]) \in SUBSET Stamp
    BY <1>3, LoadedIsStored DEF StoreTypeOK
  <2> QED  BY <1>1, <1>2, <1>3, <2>1 DEF StoreTypeOK
<1>5. StampsAreFresh'
  <2>1. id <= clock
    BY <1>3, StoreAssumption DEF StampsAreFresh, StoreTypeOK
  <2>2. \A d \in Clients : at[d] = "stamped" => id # stamp[d]
    BY <1>3 DEF StampsAreFresh, Stamp
  <2> QED  BY <1>1, <1>2, <2>1, <2>2 DEF StampsAreFresh, StoreTypeOK
<1>6. CallsBuildOnParents'
  <2>1. id \in stored => state'[c] = trail[id]
    <3>1. id \in stored => id # 0
      BY DEF StoreTypeOK, Stamp
    <3> QED  BY <1>1, <1>3, <3>1, LoadedIsStored DEF StoreTypeOK
  <2> QED  BY <1>1, <1>2, <2>1 DEF CallsBuildOnParents, StoreTypeOK
<1>7. WritesInPlace'
  BY <1>2 DEF WritesInPlace
<1>8. FreshCallsAreUpToDate'
  <2>3a. ~plain' => FreshCallsAreUpToDate'
    <3> HIDE DEF StoreInv
    <3> QED  BY DEF FreshCallsAreUpToDate
  <2> SUFFICES ASSUME plain'
               PROVE  FreshCallsAreUpToDate'
    BY <2>3a
  <2>0. plain /\ id = 0 /\ Active = {} /\ put_ever' = put_ever
    BY <1>1, <1>2
  <2>1. plain /\ id = 0 /\ Active' = {c} /\ put_ever' = put_ever
    <3>1. at \in [Clients -> {"idle", "running", "stamped", "asking"}]
      BY DEF StoreTypeOK
    <3> HIDE DEF StoreInv
    <3> QED  BY <1>2, <2>0, <3>1 DEF Active
  <2>2. state'[c] = put_ever
    BY <1>1, <1>3, <2>1, LoadedIsStored DEF FreshCallsAreUpToDate, StoreTypeOK
  <2>3. Latest' = Latest
    BY <1>2 DEF Latest
  <2> QED  BY <1>2, <2>1, <2>2, <2>3 DEF FreshCallsAreUpToDate, StoreTypeOK
<1> QED  BY <1>4, <1>5, <1>6, <1>7, <1>8

\* A new stamp is newer than everything that is named anywhere.
LEMMA TakeStampKeeps ==
  ASSUME StoreInv, NEW c \in Clients, TakeStamp(c)
  PROVE  StoreInv'
<1> USE DEF StoreInv
<1>1. /\ at[c] = "running" /\ at' = [at EXCEPT ![c] = "stamped"]
      /\ clock < MaxStamps /\ clock' = clock + 1
      /\ stamp' = [stamp EXCEPT ![c] = clock + 1]
      /\ UNCHANGED <<saver, entry, stored, parent, trail, writes, tx, config, state, put_ever,
                     answered_writes, plain>>
  BY DEF TakeStamp, db
<1>2. PICK q \in BOOLEAN : asks' = [asks EXCEPT ![c] = q]
  BY DEF TakeStamp
<1>3. clock + 1 \in Stamp
  BY <1>1, StoreAssumption DEF StoreTypeOK, Stamp
<1>t. StoreTypeOK
  OBVIOUS
<1>4. StoreTypeOK'
  <2> HIDE DEF StoreInv
  <2>1. stamp' \in [Clients -> 0..MaxStamps] /\ clock' \in 0..MaxStamps
    BY <1>1, <1>3, <1>t, StoreAssumption DEF StoreTypeOK, Stamp
  <2>2. /\ at' \in [Clients -> {"idle", "running", "stamped", "asking"}]
        /\ asks' \in [Clients -> BOOLEAN]
    BY <1>1, <1>2, <1>t DEF StoreTypeOK
  <2> QED  BY <1>1, <1>t, <2>1, <2>2 DEF StoreTypeOK
<1>5. /\ clock \in Nat /\ \A i \in stored : i \in Nat /\ parent[i] \in Nat
      /\ \A d \in Clients : config[d] \in Nat /\ stamp[d] \in Nat
  <2> HIDE DEF StoreInv
  <2>1. /\ clock \in 0..MaxStamps /\ stored \subseteq 1..MaxStamps
        /\ \A d \in Clients : config[d] \in 0..MaxStamps /\ stamp[d] \in 0..MaxStamps
        /\ \A i \in 1..MaxStamps : parent[i] \in 0..MaxStamps
    BY <1>t DEF StoreTypeOK, Stamp
  <2> QED  BY <2>1, StoreAssumption
<1>6. StampsAreFresh'
  <2>1. \A i \in stored : i <= clock + 1 /\ parent[i] <= clock + 1
    BY <1>5 DEF StampsAreFresh
  <2>2. \A d \in Clients : config[d] <= clock + 1
    BY <1>5 DEF StampsAreFresh
  <2>3. /\ clock + 1 \notin stored
        /\ \A i \in stored : parent[i] # clock + 1
        /\ \A d \in Clients : config[d] # clock + 1
        /\ \A d \in Clients : at[d] = "stamped" => stamp[d] <= clock /\ stamp[d] # clock + 1
    BY <1>5 DEF StampsAreFresh
  <2> QED  BY <1>1, <1>3, <1>5, <2>1, <2>2, <2>3 DEF StampsAreFresh, StoreTypeOK
<1>7. CallsBuildOnParents' /\ WritesInPlace'
  BY <1>1 DEF CallsBuildOnParents, WritesInPlace, StoreTypeOK
<1>8. FreshCallsAreUpToDate'
  <2>1. Active' = Active /\ Latest' = Latest
    BY <1>1 DEF Active, Latest, StoreTypeOK
  <2>2. \A i \in stored : i < clock + 1
    BY <1>5 DEF StampsAreFresh
  <2>3. \A d \in Active : plain => d = c
    BY <1>1 DEF FreshCallsAreUpToDate, Active
  <2> QED  BY <1>1, <2>1, <2>2, <2>3 DEF FreshCallsAreUpToDate, StoreTypeOK, Active
<1> QED  BY <1>4, <1>6, <1>7, <1>8

\* Storing a checkpoint, with an eviction or without.
LEMMA PutKeeps ==
  ASSUME StoreInv, NEW c \in Clients, at[c] = "stamped",
         NEW gone, Stored(c, gone),
         stored' = (stored \cup {stamp[c]}) \ gone,
         NewestOf(stored \cup {stamp[c]}) \notin gone,
         saver = "memory" => Cardinality(stored') <= MaxPerThread,
         tx'.by \in Clients \cup {Nobody}, tx'.cp \in 0..MaxStamps,
         writes' \in [Stamp -> SUBSET Stamp], answered_writes' \subseteq Stamp,
         WritesInPlace'
  PROVE  StoreInv'
<1> USE DEF StoreInv
<1> DEFINE new  == stamp[c]
           with == stored \cup {new}
<1>1. /\ new \in Stamp /\ new <= clock /\ new \notin stored
      /\ \A i \in stored : parent[i] # new
      /\ \A d \in Clients : config[d] # new
      /\ \A d \in Clients : at[d] = "stamped" /\ stamp[d] = new => d = c
  BY DEF StampsAreFresh
<1>2. /\ parent' = [i \in Stamp |-> IF i \in gone THEN 0
                                    ELSE IF i = new THEN config[c] ELSE parent[i]]
      /\ trail' = [i \in Stamp |-> IF i \in gone THEN {}
                                   ELSE IF i = new THEN state[c] \cup {i} ELSE trail[i]]
      /\ state' = [state EXCEPT ![c] = IF entry THEN {} ELSE @ \cup {new}]
      /\ config' = [config EXCEPT ![c] = IF entry THEN 0 ELSE new]
      /\ at' = [at EXCEPT ![c] = AfterPut(c)]
      /\ put_ever' = IF plain THEN put_ever \cup {new} ELSE {}
      /\ stamp' = [stamp EXCEPT ![c] = 0] /\ asks' = [asks EXCEPT ![c] = FALSE]
      /\ UNCHANGED <<saver, entry, clock, plain>>
  BY DEF Stored
<1>3. AfterPut(c) \in {"idle", "asking", "running"} /\ (entry => AfterPut(c) = "idle")
  BY DEF AfterPut
<1>4. stored' \subseteq with /\ with \subseteq Stamp
  BY <1>1 DEF StoreTypeOK
<1>5. StoreTypeOK'
  <2>1. parent' \in [Stamp -> 0..MaxStamps]
    BY <1>2, StoreAssumption DEF StoreTypeOK
  <2>2. trail' \in [Stamp -> SUBSET Stamp]
    BY <1>2 DEF StoreTypeOK
  <2>3. state' \in [Clients -> SUBSET Stamp] /\ put_ever' \subseteq Stamp
    BY <1>1, <1>2 DEF StoreTypeOK
  <2>5. config' \in [Clients -> 0..MaxStamps] /\ stamp' \in [Clients -> 0..MaxStamps]
    BY <1>1, <1>2, StoreAssumption DEF StoreTypeOK, Stamp
  <2>4. at' \in [Clients -> {"idle", "running", "stamped", "asking"}]
    BY <1>2, <1>3 DEF StoreTypeOK
  <2> QED  BY <1>2, <1>4, <2>1, <2>2, <2>3, <2>4, <2>5 DEF StoreTypeOK
<1>6. StampsAreFresh'
  <2>1. ASSUME NEW i \in stored'
        PROVE  /\ i <= clock /\ parent'[i] <= clock
               /\ parent'[i] \in {config[c]} \cup {parent[j] : j \in stored}
    <3>1. i \in Stamp /\ i \notin gone /\ (i = new \/ i \in stored)
      BY <1>4
    <3>2. parent'[i] = IF i = new THEN config[c] ELSE parent[i]
      BY <1>2, <3>1
    <3> QED  BY <1>1, <3>1, <3>2 DEF StampsAreFresh
  <2>2. ASSUME NEW d \in Clients
        PROVE  config'[d] <= clock /\ config'[d] \in {0, new, config[d]}
    <3>1. 0 <= clock
      BY StoreAssumption DEF StoreTypeOK
    <3> QED  BY <1>1, <1>2, <3>1 DEF StampsAreFresh, StoreTypeOK
  <2>3. ASSUME NEW d \in Clients, at'[d] = "stamped"
        PROVE  d # c /\ at[d] = "stamped" /\ stamp'[d] = stamp[d] /\ stamp[d] # new
    BY <1>1, <1>2, <1>3, <2>3 DEF StoreTypeOK
  <2>4. ASSUME NEW d \in Clients, at'[d] = "stamped"
        PROVE  /\ stamp'[d] \in Stamp /\ stamp'[d] <= clock /\ stamp'[d] \notin stored'
               /\ \A i \in stored' : parent'[i] # stamp'[d]
               /\ \A e \in Clients : config'[e] # stamp'[d]
               /\ \A e \in Clients : at'[e] = "stamped" /\ stamp'[e] = stamp'[d] => e = d
    <3>1. at[d] = "stamped" /\ stamp'[d] = stamp[d] /\ stamp[d] # new /\ stamp[d] # 0
      BY <2>3, <2>4 DEF StampsAreFresh, Stamp
    <3>2. stamp[d] \notin stored'
      BY <1>4, <3>1 DEF StampsAreFresh
    <3>3. \A i \in stored' : parent'[i] # stamp[d]
      BY <2>1, <3>1 DEF StampsAreFresh
    <3>4. \A e \in Clients : config'[e] # stamp[d]
      BY <2>2, <3>1 DEF StampsAreFresh
    <3> QED  BY <2>3, <3>1, <3>2, <3>3, <3>4 DEF StampsAreFresh
  <2> QED  BY <1>2, <2>1, <2>2, <2>4 DEF StampsAreFresh
<1>7. CallsBuildOnParents'
  <2>1. \A i \in stored' : parent'[i] \in stored' => trail'[parent'[i]] \subseteq trail'[i]
    <3> SUFFICES ASSUME NEW i \in stored', parent'[i] \in stored'
                 PROVE  trail'[parent'[i]] \subseteq trail'[i]
      OBVIOUS
    <3>1. i \in Stamp /\ parent'[i] \in Stamp /\ i \notin gone /\ parent'[i] \notin gone
      BY <1>4
    <3>2. CASE i = new
      <4>1. parent'[i] = config[c] /\ config[c] # new /\ config[c] \in stored
        BY <1>1, <1>2, <1>4, <3>1, <3>2
      <4>2. trail[config[c]] \subseteq state[c]
        BY <4>1 DEF CallsBuildOnParents
      <4> QED  BY <1>2, <3>1, <3>2, <4>1, <4>2
    <3>3. CASE i # new
      <4>1. i \in stored /\ parent'[i] = parent[i] /\ parent[i] # new /\ parent[i] \in stored
        BY <1>1, <1>2, <1>4, <3>1, <3>3
      <4> QED  BY <1>2, <3>1, <3>3, <4>1 DEF CallsBuildOnParents
    <3> QED  BY <3>2, <3>3
  <2>2. ASSUME NEW d \in Clients, at'[d] # "idle", config'[d] \in stored'
        PROVE  trail'[config'[d]] \subseteq state'[d]
    <3>1. config'[d] \in Stamp /\ config'[d] \notin gone
      BY <1>4, <2>2
    <3>2. CASE d = c
      <4>1. ~entry
        BY <1>2, <1>3, <2>2, <3>2 DEF StoreTypeOK
      <4> QED  BY <1>2, <3>1, <3>2, <4>1 DEF StoreTypeOK
    <3>3. CASE d # c
      <4>1. /\ at[d] # "idle" /\ config'[d] = config[d] /\ config[d] # new
            /\ config[d] \in stored /\ state'[d] = state[d]
        BY <1>1, <1>2, <1>4, <2>2, <3>3 DEF StoreTypeOK
      <4> QED  BY <1>2, <3>1, <4>1 DEF CallsBuildOnParents
    <3> QED  BY <3>2, <3>3
  <2> QED  BY <2>1, <2>2 DEF CallsBuildOnParents
<1>8. FreshCallsAreUpToDate'
  <2> SUFFICES ASSUME plain
               PROVE  FreshCallsAreUpToDate'
    BY <1>2 DEF FreshCallsAreUpToDate
  <2>1. /\ Active = {c} /\ state[c] = put_ever
        /\ \A i \in stored : i < new
    BY DEF FreshCallsAreUpToDate, Active
  <2>2. Active' \subseteq {c} /\ at'[c] # "stamped" /\ (entry => Active' = {})
    BY <1>2, <1>3, <2>1 DEF Active, StoreTypeOK
  <2>3. ~entry => state'[c] = put_ever'
    BY <1>2, <2>1 DEF StoreTypeOK
  <2>4. NewestOf(with) = new
    BY <1>1, <1>4, <2>1, NewestIs, StampsAreNumbers
  <2>5. new \in stored' /\ \A i \in stored' : i <= new
    BY <1>1, <1>4, <2>1, <2>4, StampsAreNumbers
  <2>6. Latest' = new
    BY <1>4, <2>5, NewestIs DEF Latest
  <2>7. trail'[new] = put_ever'
    BY <1>1, <1>2, <2>1, <2>4
  <2> QED  BY <2>2, <2>3, <2>5, <2>6, <2>7 DEF FreshCallsAreUpToDate
<1> QED  BY <1>5, <1>6, <1>7, <1>8

\* The end of an invocation: only the writes of a question may change with it.
LEMMA LeaveKeeps ==
  ASSUME StoreInv, NEW c \in Clients, at[c] # "idle", Leave(c),
         UNCHANGED <<stored, parent, trail>>,
         tx'.by \in Clients \cup {Nobody}, tx'.cp \in 0..MaxStamps,
         writes' \in [Stamp -> SUBSET Stamp], answered_writes' \subseteq Stamp,
         WritesInPlace'
  PROVE  StoreInv'
<1> USE DEF StoreInv
<1>1. /\ at' = [at EXCEPT ![c] = "idle"] /\ state' = [state EXCEPT ![c] = {}]
      /\ stamp' = [stamp EXCEPT ![c] = 0] /\ asks' = [asks EXCEPT ![c] = FALSE]
      /\ UNCHANGED <<saver, entry, clock, config, put_ever, plain>>
  BY DEF Leave
<1>2. StoreTypeOK'
  BY <1>1, StoreAssumption DEF StoreTypeOK
<1>3. StampsAreFresh'
  BY <1>1 DEF StampsAreFresh, StoreTypeOK
<1>4. CallsBuildOnParents'
  BY <1>1 DEF CallsBuildOnParents, StoreTypeOK
<1>5. FreshCallsAreUpToDate'
  <2>1. Active' = Active \ {c} /\ Latest' = Latest
    BY <1>1 DEF Active, Latest, StoreTypeOK
  <2> QED  BY <1>1, <2>1 DEF FreshCallsAreUpToDate, StoreTypeOK, Active
<1> QED  BY <1>2, <1>3, <1>4, <1>5

\* A deleted thread has no checkpoints, and what the clients hold names none.
LEMMA EmptiedKeeps ==
  ASSUME StoreInv, Emptied, UNCHANGED <<saver, entry, clock, local>>,
         tx'.by \in Clients \cup {Nobody}, tx'.cp \in 0..MaxStamps
  PROVE  StoreInv'
<1> USE DEF StoreInv
<1>1. /\ stored' = {} /\ writes' = [i \in Stamp |-> {}]
      /\ parent' = [i \in Stamp |-> 0] /\ trail' = [i \in Stamp |-> {}]
      /\ answered_writes' = {} /\ put_ever' = {} /\ plain' = FALSE
      /\ UNCHANGED <<saver, entry, clock, at, config, state, stamp, asks>>
  BY DEF Emptied, local
<1>2. StoreTypeOK'
  <2>1. Cardinality({}) <= MaxPerThread
    BY FS_EmptySet, StoreAssumption
  <2>2. parent' \in [Stamp -> 0..MaxStamps]
    BY <1>1, StoreAssumption
  <2>3. trail' \in [Stamp -> SUBSET Stamp] /\ writes' \in [Stamp -> SUBSET Stamp]
    BY <1>1
  <2> QED  BY <1>1, <2>1, <2>2, <2>3 DEF StoreTypeOK
<1>3. StampsAreFresh'
  BY <1>1 DEF StampsAreFresh
<1>4. CallsBuildOnParents' /\ WritesInPlace' /\ FreshCallsAreUpToDate'
  BY <1>1 DEF CallsBuildOnParents, WritesInPlace, FreshCallsAreUpToDate
<1> QED  BY <1>2, <1>3, <1>4

\* Evicting at most one checkpoint of those over the limit brings them back to it.
LEMMA EvictionSuffices ==
  ASSUME StoreTypeOK, saver = "memory", NEW new \in Stamp
  PROVE  Cardinality((stored \cup {new}) \ Evicted(stored \cup {new})) <= MaxPerThread
<1> DEFINE with == stored \cup {new}
<1>1. with \in SUBSET Stamp /\ with # {} /\ IsFiniteSet(with) /\ IsFiniteSet(stored)
  BY StampsFinite DEF StoreTypeOK
<1>2. Cardinality(with) \in Nat /\ Cardinality(with) <= MaxPerThread + 1
  <2>1. Cardinality(stored) \in Nat /\ Cardinality(stored) <= MaxPerThread
    BY StampsFinite DEF StoreTypeOK
  <2>2. Cardinality(with) = IF new \in stored THEN Cardinality(stored) ELSE Cardinality(stored) + 1
    BY <1>1, FS_AddElement
  <2> QED  BY <2>1, <2>2, StoreAssumption
<1>3. CASE Cardinality(with) > MaxPerThread
  <2>1. Evicted(with) = {OldestOf(with)} /\ OldestOf(with) \in with
    BY <1>1, <1>3, OldestExists DEF Evicted
  <2>2. Cardinality(with \ {OldestOf(with)}) = Cardinality(with) - 1
    BY <1>1, <2>1, FS_RemoveElement
  <2>3. Cardinality(with \ Evicted(with)) = Cardinality(with) - 1
    BY <2>1, <2>2
  <2> HIDE DEF with
  <2> QED  BY <1>2, <2>3, StoreAssumption DEF with
<1>4. CASE ~(Cardinality(with) > MaxPerThread)
  BY <1>2, <1>4, StoreAssumption DEF Evicted
<1> QED  BY <1>3, <1>4

\* One more write, of the checkpoint it is about.
LEMMA WriteInPlace ==
  ASSUME NEW ws \in [Stamp -> SUBSET Stamp], NEW k \in 0..MaxStamps,
         \A i \in Stamp : ws[i] \subseteq {i} /\ (i \in answered_writes => ws[i] = {i})
  PROVE  LET with == [ws EXCEPT ![k] = {k}]
         IN /\ with \in [Stamp -> SUBSET Stamp]
            /\ \A i \in Stamp : with[i] \subseteq {i}
                               /\ (i \in answered_writes \cup {k} => with[i] = {i})
<1>1. CASE k \in Stamp
  BY <1>1
<1>2. CASE k \notin Stamp
  <2>1. [ws EXCEPT ![k] = {k}] = ws
    BY <1>2
  <2> QED  BY <1>2, <2>1
<1> QED  BY <1>1, <1>2

\* What is committed of an earlier batch is a write of the checkpoint it was meant for.
LEMMA CommittedInPlace ==
  ASSUME StoreInv
  PROVE  /\ Committed \in [Stamp -> SUBSET Stamp]
         /\ \A i \in Stamp :
              Committed[i] \subseteq {i} /\ (i \in answered_writes => Committed[i] = {i})
<1>1. /\ writes \in [Stamp -> SUBSET Stamp] /\ tx.cp \in 0..MaxStamps
      /\ \A i \in Stamp : writes[i] \subseteq {i} /\ (i \in answered_writes => writes[i] = {i})
  BY DEF StoreInv, StoreTypeOK, WritesInPlace
<1> QED  BY <1>1, WriteInPlace DEF Committed

\* Every step of a client, and deleting the thread, keeps the invariant.
LEMMA StoreNext == StoreInv /\ [Next]_vars => StoreInv'
<1> SUFFICES ASSUME StoreInv, [Next]_vars
             PROVE  StoreInv'
  OBVIOUS
<1>1. /\ StoreTypeOK /\ tx.by \in Clients \cup {Nobody} /\ tx.cp \in 0..MaxStamps
      /\ writes \in [Stamp -> SUBSET Stamp] /\ answered_writes \subseteq Stamp /\ WritesInPlace
  BY DEF StoreInv, StoreTypeOK
<1>2. NoTx.by \in Clients \cup {Nobody} /\ NoTx.cp \in 0..MaxStamps
  BY StoreAssumption DEF NoTx
<1>3. \A c \in Clients :
        config[c] \in 0..MaxStamps /\ (config[c] \in stored => config[c] \in Stamp)
  BY <1>1 DEF StoreTypeOK
<1>4. ASSUME NEW c \in Clients, at[c] = "stamped"
      PROVE  stamp[c] \in Stamp /\ stored \cup {stamp[c]} \in SUBSET Stamp
  BY <1>4 DEF StoreInv, StampsAreFresh, StoreTypeOK
<1>5. ASSUME NEW c \in Clients, Call(c)
      PROVE  StoreInv'
  BY <1>5, CallKeeps
<1>6. ASSUME NEW c \in Clients, TakeStamp(c)
      PROVE  StoreInv'
  BY <1>6, TakeStampKeeps
<1>7. ASSUME NEW c \in Clients, Return(c) \/ Crash(c) \/ SqliteLocked(c)
      PROVE  StoreInv'
  <2>1. at[c] # "idle" /\ Leave(c) /\ UNCHANGED <<stored, parent, trail, writes, tx, answered_writes>>
    BY <1>7 DEF Return, Crash, SqliteLocked, db
  <2>2. WritesInPlace'
    BY <1>1, <2>1 DEF WritesInPlace
  <2> QED  BY <1>1, <2>1, <2>2, LeaveKeeps
<1>8. ASSUME NEW c \in Clients, MemoryPut(c)
      PROVE  StoreInv'
  <2> DEFINE with == stored \cup {stamp[c]}
  <2>1. /\ saver = "memory" /\ at[c] = "stamped" /\ Stored(c, Evicted(with))
        /\ stored' = with \ Evicted(with) /\ writes' = WritesWithout(Evicted(with))
        /\ answered_writes' = answered_writes \ Evicted(with) /\ tx' = tx
    BY <1>8 DEF MemoryPut
  <2>2. NewestOf(with) \notin Evicted(with)
    BY <1>4, <2>1, NewestStays
  <2>3. Cardinality(stored') <= MaxPerThread
    BY <1>1, <1>4, <2>1, EvictionSuffices
  <2>4. writes' \in [Stamp -> SUBSET Stamp] /\ answered_writes' \subseteq Stamp /\ WritesInPlace'
    BY <1>1, <2>1 DEF WritesWithout, WritesInPlace
  <2> QED  BY <1>1, <2>1, <2>2, <2>3, <2>4, PutKeeps
<1>9. ASSUME NEW c \in Clients, MemoryPutWrites(c)
      PROVE  StoreInv'
  <2>1. /\ at[c] # "idle" /\ Leave(c) /\ UNCHANGED <<stored, parent, trail, tx>>
        /\ writes' = [writes EXCEPT ![config[c]] = {config[c]}]
        /\ answered_writes' = answered_writes \cup ({config[c]} \cap stored)
    BY <1>9 DEF MemoryPutWrites, AskedAt
  <2>2. writes' \in [Stamp -> SUBSET Stamp] /\ answered_writes' \subseteq Stamp /\ WritesInPlace'
    BY <1>1, <1>3, <2>1, WriteInPlace DEF WritesInPlace
  <2> QED  BY <1>1, <2>1, <2>2, LeaveKeeps
<1>10. ASSUME NEW c \in Clients, SqlitePut(c)
       PROVE  StoreInv'
  <2>1. /\ saver = "sqlite" /\ at[c] = "stamped" /\ Stored(c, {})
        /\ stored' = (stored \cup {stamp[c]}) \ {} /\ writes' = Committed
        /\ answered_writes' = answered_writes /\ tx' = NoTx
    BY <1>10 DEF SqlitePut
  <2>2. WritesInPlace' /\ writes' \in [Stamp -> SUBSET Stamp]
    BY <2>1, CommittedInPlace DEF WritesInPlace
  <2> QED  BY <1>1, <1>2, <2>1, <2>2, PutKeeps
<1>11. ASSUME NEW c \in Clients, SqlitePutWrites(c)
       PROVE  StoreInv'
  <2>1. /\ at[c] # "idle" /\ Leave(c) /\ UNCHANGED <<stored, parent, trail>>
        /\ writes' = [Committed EXCEPT ![config[c]] = {config[c]}] /\ tx' = NoTx
        /\ answered_writes' = answered_writes \cup ({config[c]} \cap stored)
    BY <1>11 DEF SqlitePutWrites, AskedAt
  <2>2. writes' \in [Stamp -> SUBSET Stamp] /\ answered_writes' \subseteq Stamp /\ WritesInPlace'
    BY <1>1, <1>3, <2>1, CommittedInPlace, WriteInPlace DEF WritesInPlace
  <2> QED  BY <1>2, <2>1, <2>2, LeaveKeeps
<1>12. ASSUME NEW c \in Clients, SqlitePutWritesFails(c)
       PROVE  StoreInv'
  <2>1. /\ at[c] # "idle" /\ Leave(c) /\ UNCHANGED <<stored, parent, trail, answered_writes>>
        /\ writes' = Committed /\ tx' = [by |-> c, cp |-> config[c]]
    BY <1>12 DEF SqlitePutWritesFails
  <2>2. WritesInPlace' /\ writes' \in [Stamp -> SUBSET Stamp]
    BY <2>1, CommittedInPlace DEF WritesInPlace
  <2> QED  BY <1>1, <1>3, <2>1, <2>2, LeaveKeeps
<1>13. ASSUME NEW c \in Clients, SqliteDeleteThread(c)
       PROVE  StoreInv'
  BY <1>2, <1>13, EmptiedKeeps DEF SqliteDeleteThread
<1>14. CASE MemoryDeleteThread
  BY <1>1, <1>14, EmptiedKeeps DEF MemoryDeleteThread
<1>15. CASE UNCHANGED vars
  <2>1. UNCHANGED <<saver, entry, stored, parent, trail, writes, tx, clock, at, config, state,
                   stamp, asks, put_ever, answered_writes, plain>>
    BY <1>15 DEF vars, db, local
  <2>2. Active' = Active /\ Latest' = Latest
    BY <2>1 DEF Active, Latest
  <2> QED  BY <2>1, <2>2 DEF StoreInv, StoreTypeOK, StampsAreFresh, CallsBuildOnParents,
                             WritesInPlace, FreshCallsAreUpToDate
<1> QED
  BY <1>5, <1>6, <1>7, <1>8, <1>9, <1>10, <1>11, <1>12, <1>13, <1>14, <1>15 DEF Next

\* The invariant holds throughout.
LEMMA StoreInvAlways == Spec => []StoreInv
  BY StoreInit, StoreNext, PTL DEF Spec

-----------------------------------------------------------------------------
(* Pages of the history.                                                   *)

\* What a listing is made of.
LEMMA ListingNumbers ==
  ASSUME NEW ids \in SUBSET Stamp, NEW seq, Lists(seq, ids)
  PROVE  /\ Len(seq) \in Nat /\ seq \in [1..Len(seq) -> ids]
         /\ \A k \in 1..Len(seq) : seq[k] \in Nat
<1>1. Len(seq) \in Nat /\ seq \in [1..Len(seq) -> ids]
  BY LenProperties DEF Lists
<1> QED  BY <1>1, StampsAreNumbers

\* Arithmetic for the length of a rest.
LEMMA RestLength ==
  ASSUME NEW n \in Nat, NEW k \in 1..n
  PROVE  (IF k + 1 <= n THEN n - (k + 1) + 1 ELSE 0) = n - k
  OBVIOUS

\* What follows the k-th place of a listing is the listing of the older ids.
LEMMA RestOfListing ==
  ASSUME NEW ids \in SUBSET Stamp, NEW seq, Lists(seq, ids), NEW k \in 1..Len(seq)
  PROVE  NewestFirst({i \in ids : i < seq[k]}) = SubSeq(seq, k + 1, Len(seq))
<1> DEFINE older == {i \in ids : i < seq[k]}
           rest  == SubSeq(seq, k + 1, Len(seq))
<1>1. /\ Len(seq) \in Nat /\ seq \in [1..Len(seq) -> ids]
      /\ \A m \in 1..Len(seq) : seq[m] \in Nat
      /\ k \in Nat /\ k <= Len(seq)
  <2>1. /\ Len(seq) \in Nat /\ seq \in [1..Len(seq) -> ids]
        /\ \A m \in 1..Len(seq) : seq[m] \in Nat
    BY ListingNumbers
  <2> QED  BY <2>1
<1>2. \A m \in k+1..Len(seq) : seq[m] \in older
  <2>1. \A m \in k+1..Len(seq) : m \in 1..Len(seq) /\ k < m
    BY <1>1
  <2>2. \A m \in k+1..Len(seq) : seq[k] > seq[m]
    BY <2>1 DEF Lists
  <2> QED  BY <1>1, <2>1, <2>2
<1>3. /\ rest \in Seq(older) /\ Len(rest) = Len(seq) - k
      /\ \A m \in 1..Len(seq) - k : rest[m] = seq[k + m]
  <2> HIDE DEF older
  <2>1. /\ rest \in Seq(older)
        /\ Len(rest) = IF k + 1 <= Len(seq) THEN Len(seq) - (k + 1) + 1 ELSE 0
        /\ \A m \in 1..Len(seq) - (k + 1) + 1 : rest[m] = seq[k + 1 + m - 1]
    BY <1>1, <1>2, SubSeqProperties
  <2> HIDE DEF rest
  <2>2. Len(rest) = Len(seq) - k
    BY <1>1, <2>1, RestLength
  <2>3. ASSUME NEW m \in 1..Len(seq) - k
        PROVE  rest[m] = seq[k + m]
    <3>1. m \in 1..Len(seq) - (k + 1) + 1 /\ k + 1 + m - 1 = k + m
      BY <1>1
    <3> QED  BY <2>1, <3>1
  <2> QED  BY <2>1, <2>2, <2>3
<1>4. \A m, n \in 1..Len(rest) : m < n => rest[m] > rest[n]
  <2> SUFFICES ASSUME NEW m \in 1..Len(rest), NEW n \in 1..Len(rest), m < n
               PROVE  rest[m] > rest[n]
    OBVIOUS
  <2> HIDE DEF rest
  <2>1. k + m \in 1..Len(seq) /\ k + n \in 1..Len(seq) /\ k + m < k + n
    BY <1>1, <1>3
  <2>2. rest[m] = seq[k + m] /\ rest[n] = seq[k + n]
    BY <1>3
  <2> QED  BY <2>1, <2>2 DEF Lists
<1>5. \A i \in older : \E m \in 1..Len(rest) : rest[m] = i
  <2> SUFFICES ASSUME NEW i \in ids, i < seq[k]
               PROVE  \E m \in 1..Len(rest) : rest[m] = i
    OBVIOUS
  <2> HIDE DEF rest
  <2>1. PICK n \in 1..Len(seq) : seq[n] = i
    BY DEF Lists
  <2>2. ~(n < k) /\ n # k
    <3>1. n < k => seq[n] > seq[k]
      BY DEF Lists
    <3> QED  BY <1>1, <2>1, <3>1
  <2>3. n - k \in 1..Len(rest) /\ k + (n - k) = n
    BY <1>1, <1>3, <2>2
  <2> QED  BY <1>3, <2>1, <2>3
<1>6. Lists(rest, older)
  <2> HIDE DEF rest, older
  <2> QED  BY <1>3, <1>4, <1>5 DEF Lists
<1>7. older \in SUBSET Stamp
  OBVIOUS
<1> HIDE DEF rest, older
<1>8. NewestFirst(older) = rest
  BY <1>6, <1>7, OneListing, ListingExists
<1> QED  BY <1>8 DEF rest, older

\* LIMIT: the ids with fewer than `limit` newer ones are the first `limit` of the listing.
LEMMA FirstOfListing ==
  ASSUME NEW ids \in SUBSET Stamp, NEW limit \in Nat
  PROVE  NewestFirst({i \in ids : Cardinality(Newer(ids, i)) < limit})
           = FirstOf(NewestFirst(ids), limit)
<1> DEFINE seq   == NewestFirst(ids)
           kept  == {i \in ids : Cardinality(Newer(ids, i)) < limit}
           upto  == IF limit < Len(seq) THEN limit ELSE Len(seq)
           first == SubSeq(seq, 1, upto)
<1>1. Lists(seq, ids)
  BY ListingExists
<1> HIDE DEF seq
<1>2. Len(seq) \in Nat /\ seq \in [1..Len(seq) -> ids] /\ \A m \in 1..Len(seq) : seq[m] \in Nat
  BY <1>1, ListingNumbers
<1>3. upto \in Nat /\ upto <= limit /\ upto <= Len(seq)
  BY <1>2
<1>4. \A m \in 1..upto : m \in 1..Len(seq) /\ seq[m] \in kept
  <2> SUFFICES ASSUME NEW m \in 1..upto
               PROVE  m \in 1..Len(seq) /\ seq[m] \in kept
    OBVIOUS
  <2> HIDE DEF upto
  <2>1. m \in 1..Len(seq)
    BY <1>2, <1>3
  <2>2. Cardinality(Newer(ids, seq[m])) = m - 1
    BY <1>1, <2>1, PlaceInListing
  <2> QED  BY <1>2, <1>3, <2>1, <2>2
<1>5. /\ first \in Seq(kept) /\ Len(first) = upto
      /\ \A m \in 1..upto : first[m] = seq[m]
  <2> HIDE DEF kept, upto
  <2>1. /\ first \in Seq(kept)
        /\ Len(first) = IF 1 <= upto THEN upto - 1 + 1 ELSE 0
        /\ \A m \in 1..upto - 1 + 1 : first[m] = seq[1 + m - 1]
    BY <1>3, <1>4, SubSeqProperties
  <2> HIDE DEF first
  <2> QED  BY <1>3, <2>1
<1>6. \A i \in kept : \E m \in 1..upto : seq[m] = i
  <2> SUFFICES ASSUME NEW i \in ids, Cardinality(Newer(ids, i)) < limit
               PROVE  \E m \in 1..upto : seq[m] = i
    OBVIOUS
  <2>1. PICK m \in 1..Len(seq) : seq[m] = i
    BY <1>1 DEF Lists
  <2>2. m - 1 < limit
    BY <1>1, <2>1, PlaceInListing
  <2>3. m \in 1..upto
    BY <1>2, <2>2
  <2> QED  BY <2>1, <2>3
<1>7. Lists(first, kept)
  <2> HIDE DEF first, kept, upto
  <2>1. \A j, k \in 1..upto : j < k => first[j] > first[k]
    BY <1>1, <1>4, <1>5 DEF Lists
  <2> QED  BY <1>5, <1>6, <2>1 DEF Lists
<1>8. kept \in SUBSET Stamp
  OBVIOUS
<1>9. first = FirstOf(seq, limit)
  BY DEF FirstOf
<1> HIDE DEF first, kept
<1>10. NewestFirst(kept) = first
  BY <1>7, <1>8, OneListing, ListingExists
<1> QED  BY <1>9, <1>10 DEF kept, seq

\* Both savers list the same: the first of the newest-first listing of what is before.
LEMMA ListIs ==
  ASSUME StoreTypeOK, NEW before \in 0..MaxStamps, NEW limit \in Nat
  PROVE  List(before, limit) = FirstOf(NewestFirst(MemoryBefore(before)), limit)
<1>1. CASE saver = "memory"
  BY <1>1 DEF List, MemoryList
<1>2. CASE saver # "memory"
  <2> DEFINE rows == {i \in stored : before = 0 \/ (before \in stored /\ i < before)}
             kept == {i \in rows : Cardinality({j \in rows : j > i}) < limit}
  <2>1. rows = MemoryBefore(before)
    BY DEF MemoryBefore
  <2>2. rows \in SUBSET Stamp
    BY DEF StoreTypeOK
  <2>3. List(before, limit) = NewestFirst(kept)
    BY <1>2 DEF List, SqliteList
  <2>4. kept = {i \in rows : Cardinality(Newer(rows, i)) < limit}
    BY DEF Newer
  <2> HIDE DEF rows, kept
  <2>5. NewestFirst({i \in rows : Cardinality(Newer(rows, i)) < limit})
          = FirstOf(NewestFirst(rows), limit)
    BY <2>2, FirstOfListing
  <2> QED  BY <2>1, <2>3, <2>4, <2>5
<1> QED  BY <1>1, <1>2

\* Paging: from a checkpoint of the history to the next `limit` ones after it.
LEMMA NextPage ==
  ASSUME NEW ids \in SUBSET Stamp, NEW k \in 1..Len(NewestFirst(ids)), NEW limit \in Nat
  PROVE  LET all == NewestFirst(ids)
         IN FirstOf(NewestFirst({i \in ids : i < all[k]}), limit)
              = SubSeq(all, k + 1, IF k + limit < Len(all) THEN k + limit ELSE Len(all))
<1> DEFINE all  == NewestFirst(ids)
           rest == SubSeq(all, k + 1, Len(all))
           upto == IF limit < Len(rest) THEN limit ELSE Len(rest)
           last == IF k + limit < Len(all) THEN k + limit ELSE Len(all)
<1>1. Lists(all, ids)
  BY ListingExists
<1>2. NewestFirst({i \in ids : i < all[k]}) = rest
  BY <1>1, RestOfListing
<1> HIDE DEF all
<1>3. Len(all) \in Nat /\ all \in [1..Len(all) -> ids] /\ k \in 1..Len(all)
  BY <1>1, ListingNumbers DEF all
<1>4. /\ rest \in Seq(ids) /\ Len(rest) = Len(all) - k
      /\ \A m \in 1..Len(all) - k : rest[m] = all[k + m]
  <2>1. /\ rest \in Seq(ids)
        /\ Len(rest) = IF k + 1 <= Len(all) THEN Len(all) - (k + 1) + 1 ELSE 0
        /\ \A m \in 1..Len(all) - (k + 1) + 1 : rest[m] = all[k + 1 + m - 1]
    <3>1. \A m \in k+1..Len(all) : all[m] \in ids
      BY <1>3
    <3> QED  BY <1>3, <3>1, SubSeqProperties
  <2> HIDE DEF rest
  <2>2. Len(rest) = Len(all) - k
    BY <1>3, <2>1, RestLength
  <2>3. ASSUME NEW m \in 1..Len(all) - k
        PROVE  rest[m] = all[k + m]
    <3>1. m \in 1..Len(all) - (k + 1) + 1 /\ k + 1 + m - 1 = k + m
      BY <1>3
    <3> QED  BY <2>1, <3>1
  <2> QED  BY <2>1, <2>2, <2>3
<1> DEFINE page  == SubSeq(rest, 1, upto)
           piece == SubSeq(all, k + 1, last)
<1> HIDE DEF rest
<1>5. upto \in Nat /\ upto <= Len(rest) /\ last = k + upto /\ last <= Len(all)
  BY <1>3, <1>4
<1> HIDE DEF upto, last
<1>6. page \in Seq(ids) /\ Len(page) = upto /\ \A m \in 1..upto : page[m] = rest[m]
  <2>1. \A m \in 1..upto : rest[m] \in ids
    BY <1>3, <1>4, <1>5
  <2>2. /\ page \in Seq(ids) /\ Len(page) = IF 1 <= upto THEN upto - 1 + 1 ELSE 0
        /\ \A m \in 1..upto - 1 + 1 : page[m] = rest[1 + m - 1]
    BY <1>5, <2>1, SubSeqProperties
  <2> HIDE DEF page
  <2> QED  BY <1>5, <2>2
<1>7. piece \in Seq(ids) /\ Len(piece) = upto /\ \A m \in 1..upto : piece[m] = all[k + m]
  <2>1. \A m \in k+1..last : all[m] \in ids
    BY <1>3, <1>5
  <2>2. /\ piece \in Seq(ids) /\ Len(piece) = IF k + 1 <= last THEN last - (k + 1) + 1 ELSE 0
        /\ \A m \in 1..last - (k + 1) + 1 : piece[m] = all[k + 1 + m - 1]
    BY <1>3, <1>5, <2>1, SubSeqProperties
  <2> HIDE DEF piece
  <2>3. Len(piece) = upto
    BY <1>3, <1>5, <2>2
  <2>4. ASSUME NEW m \in 1..upto
        PROVE  piece[m] = all[k + m]
    <3>1. m \in 1..last - (k + 1) + 1 /\ k + 1 + m - 1 = k + m
      BY <1>3, <1>5
    <3> QED  BY <2>2, <3>1
  <2> QED  BY <2>2, <2>3, <2>4
<1> HIDE DEF page, piece
<1>8. \A m \in 1..upto : page[m] = piece[m]
  <2>1. \A m \in 1..upto : m \in 1..Len(all) - k
    BY <1>3, <1>4, <1>5
  <2> QED  BY <1>4, <1>6, <1>7, <2>1
<1>9. page = piece
  BY <1>6, <1>7, <1>8, SeqEqual
<1> QED  BY <1>2, <1>9 DEF FirstOf, page, piece, upto, last, all

\* After a checkpoint that is not stored there is nothing.
LEMMA EmptyPage == \A limit \in Nat : FirstOf(NewestFirst({}), limit) = <<>>
<1>1. Len(NewestFirst({})) = 0 /\ NewestFirst({}) \in Seq({})
  BY ListingExists, LengthOfListing, FS_EmptySet DEF Lists
<1> QED  BY <1>1, SubSeqEmpty DEF FirstOf

\* A limit of MaxStamps leaves nothing out.
LEMMA WholePage ==
  ASSUME NEW ids \in SUBSET Stamp
  PROVE  FirstOf(NewestFirst(ids), MaxStamps) = NewestFirst(ids)
<1> DEFINE all == NewestFirst(ids)
<1>1. all \in Seq(ids) /\ Len(all) = Cardinality(ids) /\ Len(all) \in Nat
  BY ListingExists, LengthOfListing, StampsFinite DEF Lists
<1>2. Cardinality(ids) <= MaxStamps
  <2>1. IsFiniteSet(1..MaxStamps) /\ Cardinality(1..MaxStamps) = MaxStamps
    BY FS_Interval, StoreAssumption
  <2> QED  BY <2>1, FS_Subset DEF Stamp
<1> HIDE DEF all
<1>3. ~(MaxStamps < Len(all))
  BY <1>1, <1>2, StoreAssumption
<1>4. SubSeq(all, 1, Len(all)) = all
  BY <1>1
<1> QED  BY <1>3, <1>4 DEF FirstOf, all

\* The history without `before` is the listing of what is stored.
LEMMA WholeHistory ==
  ASSUME StoreTypeOK
  PROVE  List(0, MaxStamps) = NewestFirst(stored)
<1>1. 0 \in 0..MaxStamps /\ MaxStamps \in Nat /\ stored \in SUBSET Stamp
  BY StoreAssumption DEF StoreTypeOK
<1>2. MemoryBefore(0) = stored
  BY DEF MemoryBefore
<1>3. List(0, MaxStamps) = FirstOf(NewestFirst(stored), MaxStamps)
  BY <1>1, <1>2, ListIs
<1> QED  BY <1>1, <1>3, WholePage

-----------------------------------------------------------------------------
(* The results.                                                            *)

\* The store and the invocations keep their types, and the memory saver its limit, for any
\* number of clients and checkpoints and any max_per_thread.
THEOREM StoreTypeCorrect == Spec => []StoreTypeOK
<1>1. StoreInv => StoreTypeOK
  BY DEF StoreInv
<1> QED  BY <1>1, StoreInvAlways, PTL

\* A stored checkpoint has the question that put_writes saved for it and no other, through
\* evictions, calls of others and batches that fail half-way.
THEOREM QuestionsStay == Spec => []QuestionsKept
<1>1. StoreInv => QuestionsKept
  BY DEF StoreInv, WritesInPlace, QuestionsKept, PendingWrites, StoreTypeOK, Stamp
<1> QED  BY <1>1, StoreInvAlways, PTL

\* The parent that get_state_history shows for a checkpoint is one whose updates it holds,
\* also with overlapping calls and calls from an old checkpoint.
THEOREM HistoryIsHonest == Spec => []ParentsAreHonest
<1>1. StoreInv => ParentsAreHonest
  <2> SUFFICES ASSUME StoreInv
               PROVE  ParentsAreHonest
    OBVIOUS
  <2> DEFINE ids == List(0, MaxStamps)
  <2>1. StoreTypeOK /\ stored \in SUBSET Stamp /\ MaxStamps \in Nat
    BY StoreAssumption DEF StoreInv, StoreTypeOK
  <2>2. ids = NewestFirst(stored)
    BY <2>1, WholeHistory
  <2>3. \A k \in DOMAIN ids : ids[k] \in stored
    <3>1. ids \in [1..Len(ids) -> stored]
      BY <2>1, <2>2, ListingExists, ListingNumbers
    <3> QED  BY <3>1
  <2> HIDE DEF ids
  <2>4. \A i \in stored : parent[i] \in stored => trail[parent[i]] \subseteq trail[i]
    BY DEF StoreInv, CallsBuildOnParents
  <2> QED  BY <2>3, <2>4 DEF ParentsAreHonest, StateHistory, ids
<1> QED  BY <1>1, StoreInvAlways, PTL

\* Calls one after the other with fresh configs lose no update: the latest checkpoint has
\* every update ever stored, whatever was evicted.
THEOREM FreshCallsKeepAll == Spec => []FreshCallsLoseNothing
<1>1. StoreInv => FreshCallsLoseNothing
  BY LoadedIsStored, StoreAssumption DEF StoreInv, FreshCallsAreUpToDate, FreshCallsLoseNothing
<1> QED  BY <1>1, StoreInvAlways, PTL

\* list() with `before` and `limit` pages through the history of either saver: no
\* checkpoint is skipped or shown twice, for any number of them and any limit.
THEOREM PagesAreComplete == Spec => []PagesCoverHistory
<1>1. StoreInv => PagesCoverHistory
  <2> SUFFICES ASSUME StoreInv, NEW limit \in Limits
               PROVE  LET all == List(0, MaxStamps)
                      IN /\ \A k \in 1..Len(all) : List(all[k], limit) =
                              SubSeq(all, k + 1, IF k + limit < Len(all) THEN k + limit ELSE Len(all))
                         /\ \A i \in Stamp \ stored : List(i, limit) = <<>>
    BY DEF PagesCoverHistory
  <2> DEFINE all == List(0, MaxStamps)
  <2>1. StoreTypeOK /\ stored \in SUBSET Stamp /\ MaxStamps \in Nat /\ limit \in Nat
    BY StoreAssumption DEF StoreInv, StoreTypeOK
  <2>2. all = NewestFirst(stored)
    BY <2>1, WholeHistory
  <2> HIDE DEF all
  <2>3. ASSUME NEW k \in 1..Len(all)
        PROVE  List(all[k], limit) =
                 SubSeq(all, k + 1, IF k + limit < Len(all) THEN k + limit ELSE Len(all))
    <3>1. all[k] \in stored /\ all[k] \in 0..MaxStamps /\ all[k] # 0
      <4>1. all \in [1..Len(all) -> stored]
        BY <2>1, <2>2, ListingExists, ListingNumbers
      <4>2. all[k] \in stored /\ all[k] \in 1..MaxStamps
        BY <2>1, <4>1 DEF Stamp
      <4> QED  BY <2>1, <4>2
    <3>2. MemoryBefore(all[k]) = {i \in stored : i < all[k]}
      BY <3>1 DEF MemoryBefore
    <3>3. List(all[k], limit) = FirstOf(NewestFirst({i \in stored : i < all[k]}), limit)
      BY <2>1, <3>1, <3>2, ListIs
    <3> QED  BY <2>1, <2>2, <3>3, NextPage
  <2>4. ASSUME NEW i \in Stamp \ stored
        PROVE  List(i, limit) = <<>>
    <3>1. i \in 0..MaxStamps /\ MemoryBefore(i) = {}
      BY <2>1 DEF MemoryBefore, Stamp
    <3>2. List(i, limit) = FirstOf(NewestFirst({}), limit)
      BY <2>1, <3>1, ListIs
    <3> QED  BY <2>1, <3>2, EmptyPage
  <2> QED  BY <2>3, <2>4 DEF all
<1> QED  BY <1>1, StoreInvAlways, PTL

-----------------------------------------------------------------------------
(* The refinement.                                                         *)

\* A put moves the head to the new checkpoint or leaves it: what it evicts is not the newest.
LEMMA PutMovesForward ==
  ASSUME StoreInv, NEW c \in Clients, at[c] = "stamped", NEW gone,
         stored' = (stored \cup {stamp[c]}) \ gone,
         NewestOf(stored \cup {stamp[c]}) \notin gone
  PROVE  ThreadHead!Advance \/ UNCHANGED Latest
<1> DEFINE with == stored \cup {stamp[c]}
<1>1. with \in SUBSET Stamp /\ with # {} /\ stored' \in SUBSET Stamp /\ stored' \subseteq with
  BY DEF StoreInv, StoreTypeOK, StampsAreFresh
<1>2. NewestOf(with) \in with /\ \A i \in with : i <= NewestOf(with)
  BY <1>1, NewestExists
<1> HIDE DEF with
<1>3. NewestOf(with) \in stored' /\ \A i \in stored' : i <= NewestOf(with)
  BY <1>1, <1>2 DEF with
<1>4. NewestOf(stored') = NewestOf(with)
  BY <1>1, <1>3, NewestIs
<1>5. Latest' = NewestOf(with) /\ Latest' \in Nat /\ Latest' # 0
  <2>1. Latest' = NewestOf(with)
    BY <1>3, <1>4 DEF Latest
  <2>2. NewestOf(with) \in 1..MaxStamps
    BY <1>1, <1>2 DEF Stamp
  <2> QED  BY <2>1, <2>2, StoreAssumption
<1>6. Latest \in Nat /\ Latest <= Latest'
  <2>1. CASE stored = {}
    BY <1>5, <2>1 DEF Latest
  <2>2. CASE stored # {}
    <3>1. Latest \in stored /\ stored \in SUBSET Stamp
      BY <2>2, NewestExists DEF Latest, StoreInv, StoreTypeOK
    <3>2. Latest <= NewestOf(with)
      BY <1>2, <3>1 DEF with
    <3> QED  BY <1>5, <3>1, <3>2, StampsAreNumbers
  <2> QED  BY <2>1, <2>2
<1> QED  BY <1>5, <1>6 DEF ThreadHead!Advance

\* Every step of the store is one of NewestCheckpoint, or leaves the head alone.
LEMMA HeadStep ==
  StoreInv /\ [Next]_vars => [ThreadHead!Advance \/ ThreadHead!Forget]_Latest
<1> SUFFICES ASSUME StoreInv, [Next]_vars
             PROVE  ThreadHead!Advance \/ ThreadHead!Forget \/ UNCHANGED Latest
  OBVIOUS
<1>1. ASSUME UNCHANGED stored
      PROVE  UNCHANGED Latest
  BY <1>1 DEF Latest
<1>2. ASSUME NEW c \in Clients, MemoryPut(c)
      PROVE  ThreadHead!Advance \/ UNCHANGED Latest
  <2> DEFINE with == stored \cup {stamp[c]}
  <2>1. at[c] = "stamped" /\ stored' = with \ Evicted(with)
    BY <1>2 DEF MemoryPut
  <2>2. with \in SUBSET Stamp /\ with # {}
    BY <2>1 DEF StoreInv, StoreTypeOK, StampsAreFresh
  <2>3. NewestOf(with) \notin Evicted(with)
    BY <2>2, NewestStays
  <2> QED  BY <2>1, <2>3, PutMovesForward
<1>3. ASSUME NEW c \in Clients, SqlitePut(c)
      PROVE  ThreadHead!Advance \/ UNCHANGED Latest
  <2>1. at[c] = "stamped" /\ stored' = (stored \cup {stamp[c]}) \ {}
    BY <1>3 DEF SqlitePut
  <2> QED  BY <2>1, PutMovesForward
<1>4. ASSUME Emptied
      PROVE  ThreadHead!Forget
  BY <1>4 DEF Emptied, ThreadHead!Forget, Latest
<1>5. ASSUME NEW c \in Clients,
             \/ Call(c) \/ TakeStamp(c) \/ Return(c) \/ Crash(c) \/ MemoryPutWrites(c)
             \/ SqlitePutWrites(c) \/ SqlitePutWritesFails(c) \/ SqliteLocked(c)
      PROVE  UNCHANGED stored
  BY <1>5 DEF Call, TakeStamp, Return, Crash, MemoryPutWrites, SqlitePutWrites,
              SqlitePutWritesFails, SqliteLocked, db
<1>6. CASE UNCHANGED vars
  BY <1>1, <1>6 DEF vars, db
<1>7. CASE \E c \in Clients : SqliteDeleteThread(c)
  BY <1>4, <1>7 DEF SqliteDeleteThread
<1>8. CASE MemoryDeleteThread
  BY <1>4, <1>8 DEF MemoryDeleteThread
<1> QED  BY <1>1, <1>2, <1>3, <1>5, <1>6, <1>7, <1>8 DEF Next

\* The store implements NewestCheckpoint: get_tuple without an id gives ever newer
\* checkpoints, whatever is stored late or evicted, until the thread is deleted.
THEOREM StoreImplementsNewest == Spec => HeadMovesForward
<1>1. Init => ThreadHead!Init
  BY DEF Init, ThreadHead!Init, Latest
<1> QED  BY <1>1, HeadStep, StoreInvAlways, PTL DEF Spec, HeadMovesForward, ThreadHead!Spec

=============================================================================
