--------------------------- MODULE ChannelsProofs ---------------------------
(***************************************************************************)
(* For all values, names, batches and any number of calls:                 *)
(*                                                                         *)
(* - RestoreIsInvisible.  A channel that is copied, or saved and restored, *)
(*   between its calls is in the state of one that is not.  The engine     *)
(*   restores every channel at every invocation (_restore_channels), so a  *)
(*   later call of any class may meet a restored channel.                  *)
(*                                                                         *)
(*   copy and from_checkpoint(checkpoint) rebuild a channel from its class,*)
(*   its option and what they save.  That is all of it only for channels   *)
(*   that the calls can produce (ChannelOK): a MISSING channel is as new,  *)
(*   what is finished has a value, and what is not saved has its first     *)
(*   value.  Every call keeps ChannelOK, and calls do the same to equal    *)
(*   channels.                                                             *)
(*                                                                         *)
(* - PromisesKept.  A channel reads what its class promises for its calls. *)
(*   Held says what a channel of each class holds, told from the log, the  *)
(*   finished mark of those that wait for finish() included; HeldInv adds  *)
(*   ChannelOK and the type of the log.  Each call adds one entry to the   *)
(*   log, so each class has a lemma per call.  The recursions the reducers *)
(*   and topics are defined by, FoldLeft and FlattenSeq, are unrolled one  *)
(*   step at a time (FoldSteps, Flattened), by the least number at which a *)
(*   claim about them would fail (Stays).                                  *)
(***************************************************************************)
EXTENDS Channels, SequenceTheorems, FiniteSetTheorems, WellFoundedInduction,
        NaturalsInduction, TLAPS

AfterFinish  == {"LastValueAfterFinish", "NamedBarrierValueAfterFinish"}
WithoutValue == Barriers \cup {"Topic"}

\* The channels that the calls produce.
ChannelOK(c) ==
  /\ c \in [class : Classes, option : BOOLEAN, has : BOOLEAN, val : {c.val},
            finished : BOOLEAN]
  /\ c.class \in WithoutValue => ~c.has
  /\ c.class \notin WithoutValue /\ ~c.has =>
       c.val = <<>> /\ ~c.finished /\ (c.class = "BinaryOperatorAggregate" => ~c.option)
  /\ c.finished => c.class \in AfterFinish

TwinInv == ch = twin /\ ChannelOK(ch)

\* A new channel is one of those.
LEMMA NewOK ==
  ASSUME NEW class \in Classes, NEW option \in BOOLEAN
  PROVE  ChannelOK(New(class, option))
  BY DEF ChannelOK, New, Classes, Barriers, WithoutValue, AfterFinish

\* A channel is the record of its fields.
LEMMA Fields ==
  ASSUME NEW c, ChannelOK(c)
  PROVE  c = [class |-> c.class, option |-> c.option, has |-> c.has, val |-> c.val,
              finished |-> c.finished]
  BY DEF ChannelOK

\* copy() keeps all that a channel holds.
LEMMA CopyIsSame ==
  ASSUME NEW c, ChannelOK(c)
  PROVE  CopyOf(c) = c
  BY Fields DEF CopyOf

\* from_checkpoint(checkpoint()) is the channel that was saved.
LEMMA RestoredIsSame ==
  ASSUME NEW c, ChannelOK(c)
  PROVE  FromCheckpoint(c.class, c.option, Checkpoint(c)) = c
<1> DEFINE afterFinish == c.class \in AfterFinish
           rebuilt == [class |-> c.class, option |-> c.option, has |-> c.class \notin WithoutValue,
                       val |-> c.val, finished |-> afterFinish /\ c.finished]
           new == New(c.class, c.option)
<1>1. FromCheckpoint(c.class, c.option, Checkpoint(c)) = IF IsMissing(c) THEN new ELSE rebuilt
  BY DEF FromCheckpoint, Checkpoint, WithoutValue, AfterFinish
<1>2. ASSUME ~IsMissing(c)
      PROVE  rebuilt = c
  <2>1. c.has = (c.class \notin WithoutValue)
    BY <1>2 DEF ChannelOK, IsMissing, WithoutValue, Barriers
  <2>2. c.finished = (afterFinish /\ c.finished)
    BY DEF ChannelOK
  <2> QED  BY <2>1, <2>2, Fields DEF ChannelOK
<1>3. ASSUME IsMissing(c)
      PROVE  new = c
  <2>1. c.class # "NamedBarrierValueAfterFinish" /\ ~c.has /\ ~c.finished
    BY <1>3 DEF ChannelOK, IsMissing, WithoutValue, Barriers, AfterFinish
  <2>2. c.val = IF c.class \in Barriers THEN {} ELSE <<>>
    BY <1>3, <2>1 DEF ChannelOK, IsMissing, WithoutValue, Barriers, Classes
  <2>3. ~(c.class = "BinaryOperatorAggregate" /\ c.option)
    BY <2>1 DEF ChannelOK, WithoutValue, Barriers
  <2>4. new = [class |-> c.class, option |-> c.option, has |-> FALSE, val |-> c.val,
               finished |-> FALSE]
    BY <2>2, <2>3 DEF New
  <2> QED  BY <2>1, <2>4, Fields
<1> QED  BY <1>1, <1>2, <1>3

\* A class with one value, given one.
LEMMA SetOK ==
  ASSUME NEW c, ChannelOK(c), c.class \notin WithoutValue, NEW v
  PROVE  ChannelOK([c EXCEPT !.has = TRUE, !.val = v])
  BY DEF ChannelOK, Classes

\* update() makes one of those channels of another, for every batch of values, also when it
\* raises half-way.
LEMMA UpdateOK ==
  ASSUME NEW c, ChannelOK(c), NEW batch
  PROVE  ChannelOK(UpdateOf(c, batch).ch)
<1>1. CASE c.class \in {"LastValue", "LastValueAfterFinish"}
  <2>1. UpdateOf(c, batch) = UpdateLast(c, batch)
    BY <1>1 DEF UpdateOf, Barriers
  <2>2. ASSUME NEW v
        PROVE  ChannelOK([Set(c, v) EXCEPT !.finished = FALSE])
    <3>1. ChannelOK(Set(c, v)) /\ Set(c, v).class = c.class /\ Set(c, v).has
      BY <1>1, SetOK DEF Set, WithoutValue, Barriers, ChannelOK
    <3> QED  BY <1>1, <3>1 DEF ChannelOK, WithoutValue, Barriers
  <2>3. UpdateLast(c, batch).ch =
          IF batch = <<>> \/ Len(batch) > 1 THEN c
          ELSE [Set(c, Last(batch).value) EXCEPT !.finished = FALSE]
    BY DEF UpdateLast, Result, Same
  <2> QED  BY <2>1, <2>2, <2>3
<1>2. CASE c.class = "AnyValue"
  <2>1. UpdateOf(c, batch) = UpdateAny(c, batch)
    BY <1>2 DEF UpdateOf, Barriers
  <2>2. ASSUME NEW v
        PROVE  ChannelOK(Set(c, v))
    BY <1>2, SetOK DEF Set, WithoutValue, Barriers
  <2>3. UpdateAny(c, batch).ch = IF batch = <<>> THEN c ELSE Set(c, Last(batch).value)
    BY DEF UpdateAny, Result, Same
  <2> QED  BY <2>1, <2>2, <2>3
<1>3. CASE c.class = "EphemeralValue"
  <2>1. UpdateOf(c, batch) = UpdateEphemeral(c, batch)
    BY <1>3 DEF UpdateOf, Barriers
  <2>2. ChannelOK(Clear(c))
    BY NewOK DEF ChannelOK, Clear
  <2>3. ASSUME NEW v
        PROVE  ChannelOK(Set(c, v))
    BY <1>3, SetOK DEF Set, WithoutValue, Barriers
  <2>4. UpdateEphemeral(c, batch).ch =
          IF Len(batch) > 1 /\ c.option THEN c
          ELSE IF batch = <<>> THEN Clear(c) ELSE Set(c, Last(batch).value)
    BY DEF UpdateEphemeral, Result
  <2> QED  BY <2>1, <2>2, <2>3, <2>4
<1>4. CASE c.class = "BinaryOperatorAggregate"
  <2>1. UpdateOf(c, batch) = UpdateBinop(c, batch)
    BY <1>4 DEF UpdateOf, Barriers
  <2>2. ASSUME NEW v
        PROVE  ChannelOK([c EXCEPT !.has = TRUE, !.val = v])
    BY <1>4, SetOK DEF WithoutValue, Barriers
  <2>3. UpdateBinop(c, batch).ch =
          IF batch = <<>> THEN c
          ELSE [c EXCEPT !.has = TRUE, !.val = FoldLeft(Reduce, c, Accepted(batch)).val]
    BY DEF UpdateBinop, Result, Same
  <2> QED  BY <2>1, <2>2, <2>3
<1>5. CASE c.class = "Topic"
  <2>1. UpdateOf(c, batch) = UpdateTopic(c, batch)
    BY <1>5 DEF UpdateOf, Barriers
  <2>2. ASSUME NEW v
        PROVE  ChannelOK([c EXCEPT !.val = v])
    BY <1>5 DEF ChannelOK, WithoutValue
  <2>3. UpdateTopic(c, batch).ch =
          [c EXCEPT !.val = (IF c.option THEN c.val ELSE <<>>) \o FlattenSeq(ValuesOf(batch))]
    BY DEF UpdateTopic, Result
  <2> QED  BY <2>1, <2>2, <2>3
<1>6. CASE c.class \in Barriers
  <2>1. UpdateOf(c, batch) = UpdateBarrier(c, batch)
    BY <1>6 DEF UpdateOf, Barriers
  <2>2. ASSUME NEW v
        PROVE  ChannelOK([c EXCEPT !.val = v, !.finished = FALSE])
    BY <1>6 DEF ChannelOK, WithoutValue
  <2> HIDE DEF Barriers, ChannelOK
  <2>3. UpdateBarrier(c, batch).ch =
          IF batch = <<>> THEN c
          ELSE [c EXCEPT !.val = @ \cup KnownNames(batch), !.finished = FALSE]
    BY DEF UpdateBarrier, Result, Same
  <2> QED  BY <2>1, <2>2, <2>3
<1> QED
  BY <1>1, <1>2, <1>3, <1>4, <1>5, <1>6 DEF ChannelOK, Classes, Barriers

\* consume() clears a channel or leaves it.
LEMMA ConsumeOK ==
  ASSUME NEW c, ChannelOK(c)
  PROVE  ChannelOK(ConsumeOf(c).ch)
  BY NewOK DEF ChannelOK, ConsumeOf, Clear, Result, Same

\* finish() marks only a channel that has something to finish.
LEMMA FinishOK ==
  ASSUME NEW c, ChannelOK(c)
  PROVE  ChannelOK(FinishOf(c).ch)
<1>1. CASE Finishable(c)
  <2>1. FinishOf(c).ch = [c EXCEPT !.finished = TRUE]
    BY <1>1 DEF FinishOf, Result
  <2> QED
    BY <1>1, <2>1 DEF ChannelOK, Finishable, Classes, WithoutValue, Barriers, AfterFinish
<1>2. CASE ~Finishable(c)
  BY <1>2 DEF FinishOf, Result, Same
<1> QED  BY <1>1, <1>2

LEMMA TwinInit == Init => TwinInv
<1> SUFFICES ASSUME Init PROVE TwinInv
  OBVIOUS
<1>1. PICK class \in Classes, option \in BOOLEAN : ch = New(class, option) /\ twin = ch
  BY DEF Init
<1> QED  BY <1>1, NewOK DEF TwinInv

LEMMA TwinNext == TwinInv /\ [Next]_vars => TwinInv'
<1> SUFFICES ASSUME TwinInv, [Next]_vars PROVE TwinInv'
  OBVIOUS
<1> USE DEF TwinInv
<1>1. CASE Update
  <2>1. PICK batch \in Batches :
          ch' = UpdateOf(ch, batch).ch /\ twin' = UpdateOf(twin, batch).ch
    BY <1>1 DEF Update, Call
  <2> QED  BY <2>1, UpdateOK
<1>2. CASE Consume
  BY <1>2, ConsumeOK DEF Consume, Call
<1>3. CASE Finish
  BY <1>3, FinishOK DEF Finish, Call
<1>4. CASE Copy
  BY <1>4, CopyIsSame DEF Copy
<1>5. CASE Restore
  BY <1>5, RestoredIsSame DEF Restore
<1>6. CASE UNCHANGED vars
  BY <1>6 DEF vars
<1> QED  BY <1>1, <1>2, <1>3, <1>4, <1>5, <1>6 DEF Next

\* Whatever is written, in whatever order the calls of a channel come, and wherever it is
\* copied or restored in between: nobody can tell by reading it.
THEOREM RestoreIsInvisible == Spec => []RestoreInvisible
<1>1. TwinInv => RestoreInvisible
  BY DEF TwinInv, RestoreInvisible
<1> QED  BY TwinInit, TwinNext, <1>1, PTL DEF Spec

-----------------------------------------------------------------------------
(* What a channel reads, told from its calls.                              *)

LEMMA LeastNumber ==
  ASSUME NEW S \in SUBSET Nat, S # {}
  PROVE  \E i \in S : \A j \in S : i <= j
<1> DEFINE less == {ss \in Nat \X Nat : ss[1] < ss[2]}
<1>1. IsWellFoundedOn(less, Nat)
  BY NatLessThanWellFounded DEF OpToRel
<1>2. PICK i \in S : \A j \in S : <<j, i>> \notin less
  <2> HIDE DEF less
  <2> QED  BY <1>1, WFMin
<1>3. \A j \in S : ~(j < i)
  BY <1>2
<1> QED  BY <1>3

\* LogMax is the greatest number of a bounded set, or 0.
LEMMA LogMaxOf ==
  ASSUME NEW n \in Nat, NEW S \in SUBSET (1 .. n)
  PROVE  /\ LogMax(S) \in S \cup {0} /\ LogMax(S) \in 0 .. n
         /\ \A j \in S : j <= LogMax(S)
<1> DEFINE above == {b \in Nat : \A j \in S : j <= b}
<1>1. above \in SUBSET Nat /\ n \in above
  OBVIOUS
<1>2. PICK b \in above : \A c \in above : b <= c
  <2> HIDE DEF above
  <2> QED  BY <1>1, LeastNumber
<1>3. b \in S \cup {0}
  <2> SUFFICES ASSUME b \notin S, b # 0 PROVE FALSE
    OBVIOUS
  <2>1. b - 1 \in above
    OBVIOUS
  <2> QED  BY <1>2, <2>1
<1>4. \E i \in S \cup {0} : \A j \in S : j <= i
  BY <1>3
<1>5. LogMax(S) \in S \cup {0} /\ \A j \in S : j <= LogMax(S)
  BY <1>4 DEF LogMax
<1>6. S \cup {0} \subseteq 0 .. n
  OBVIOUS
<1> HIDE DEF above
<1> QED  BY <1>5, <1>6

LEMMA LogMaxNew ==
  ASSUME NEW n \in Nat, NEW S \in SUBSET (1 .. n)
  PROVE  LogMax(S \cup {n + 1}) = n + 1
<1>1. S \cup {n + 1} \in SUBSET (1 .. (n + 1))
  OBVIOUS
<1>2. \A j \in S \cup {n + 1} : j <= LogMax(S \cup {n + 1})
  BY <1>1, LogMaxOf
<1>3. LogMax(S \cup {n + 1}) \in 0 .. (n + 1)
  BY <1>1, LogMaxOf
<1> QED  BY <1>2, <1>3

EntryType ==
  [op : {"update", "consume", "finish"}, batch : Seq(Items), ok : BOOLEAN,
   changed : BOOLEAN]

AcceptsOf(l)  == {i \in DOMAIN l : l[i].op = "update" /\ l[i].ok}
WritesOf(l)   == {i \in DOMAIN l : l[i].op = "update" /\ l[i].batch # <<>>}
ConsumedOf(l) == {i \in DOMAIN l : l[i].op = "consume" /\ l[i].changed}
FinishesOf(l) == {i \in DOMAIN l : l[i].op = "finish"}

NamesOf(l, i) ==
  UNION {KnownNames(l[k].batch) : k \in {j \in DOMAIN l : j > i /\ l[j].op = "update"}}

LEMMA BatchesAreSequences == Batches \subseteq Seq(Items)
BY SeqDef, ChannelAssumption DEF Batches

LEMMA AppendSplits ==
  ASSUME NEW l \in Seq(EntryType), NEW e \in EntryType
  PROVE  /\ Append(l, e) \in Seq(EntryType) /\ Len(l) \in Nat
         /\ DOMAIN l = 1 .. Len(l) /\ DOMAIN Append(l, e) = DOMAIN l \cup {Len(l) + 1}
         /\ Append(l, e)[Len(l) + 1] = e
         /\ \A i \in DOMAIN l : i # Len(l) + 1 /\ Append(l, e)[i] = l[i]
OBVIOUS

\* What one more call adds to the sets that the promises are made of.
LEMMA OneMoreCall ==
  ASSUME NEW l \in Seq(EntryType), NEW e \in EntryType, NEW m, m = Append(l, e)
  PROVE  /\ AcceptsOf(m) = IF e.op = "update" /\ e.ok
                           THEN AcceptsOf(l) \cup {Len(l) + 1} ELSE AcceptsOf(l)
         /\ WritesOf(m) = IF e.op = "update" /\ e.batch # <<>>
                          THEN WritesOf(l) \cup {Len(l) + 1} ELSE WritesOf(l)
         /\ ConsumedOf(m) = IF e.op = "consume" /\ e.changed
                            THEN ConsumedOf(l) \cup {Len(l) + 1} ELSE ConsumedOf(l)
         /\ FinishesOf(m) = IF e.op = "finish"
                            THEN FinishesOf(l) \cup {Len(l) + 1} ELSE FinishesOf(l)
<1>1. /\ DOMAIN m = DOMAIN l \cup {Len(l) + 1} /\ m[Len(l) + 1] = e
      /\ \A i \in DOMAIN l : i # Len(l) + 1 /\ m[i] = l[i]
  BY AppendSplits
<1>2. AcceptsOf(m) = IF e.op = "update" /\ e.ok
                     THEN AcceptsOf(l) \cup {Len(l) + 1} ELSE AcceptsOf(l)
  BY <1>1 DEF AcceptsOf
<1>3. WritesOf(m) = IF e.op = "update" /\ e.batch # <<>>
                    THEN WritesOf(l) \cup {Len(l) + 1} ELSE WritesOf(l)
  BY <1>1 DEF WritesOf
<1>4. ConsumedOf(m) = IF e.op = "consume" /\ e.changed
                      THEN ConsumedOf(l) \cup {Len(l) + 1} ELSE ConsumedOf(l)
  BY <1>1 DEF ConsumedOf
<1>5. FinishesOf(m) = IF e.op = "finish"
                      THEN FinishesOf(l) \cup {Len(l) + 1} ELSE FinishesOf(l)
  BY <1>1 DEF FinishesOf
<1> QED  BY <1>2, <1>3, <1>4, <1>5

LEMMA CallsWithin ==
  ASSUME NEW l \in Seq(EntryType)
  PROVE  /\ AcceptsOf(l) \in SUBSET (1 .. Len(l)) /\ WritesOf(l) \in SUBSET (1 .. Len(l))
         /\ ConsumedOf(l) \in SUBSET (1 .. Len(l)) /\ FinishesOf(l) \in SUBSET (1 .. Len(l))
         /\ Len(l) \in Nat
BY DEF AcceptsOf, WritesOf, ConsumedOf, FinishesOf

\* What one more call adds to the names seen, and that none is seen after the last call.
LEMMA OneMoreName ==
  ASSUME NEW l \in Seq(EntryType), NEW e \in EntryType, NEW i \in 0 .. Len(l)
  PROVE  NamesOf(Append(l, e), i) =
           IF e.op = "update" THEN NamesOf(l, i) \cup KnownNames(e.batch) ELSE NamesOf(l, i)
<1> DEFINE m == Append(l, e)
           names(j) == {k \in DOMAIN j : k > i /\ j[k].op = "update"}
<1>1. /\ DOMAIN m = DOMAIN l \cup {Len(l) + 1} /\ m[Len(l) + 1] = e /\ Len(l) \in Nat
      /\ \A k \in DOMAIN l : m[k] = l[k]
      /\ DOMAIN l = 1 .. Len(l)
  BY AppendSplits
<1> HIDE DEF m
<1>2. names(m) = names(l) \cup IF e.op = "update" THEN {Len(l) + 1} ELSE {}
  BY <1>1
<1>3. \A k \in names(l) : m[k] = l[k]
  BY <1>1
<1> HIDE DEF names
<1>4. ASSUME NEW x
      PROVE  (\E k \in names(m) : x \in KnownNames(m[k].batch)) <=>
               \/ \E k \in names(l) : x \in KnownNames(l[k].batch)
               \/ e.op = "update" /\ x \in KnownNames(e.batch)
  BY <1>1, <1>2, <1>3
<1>5. \A x : /\ x \in NamesOf(m, i) <=> \E k \in names(m) : x \in KnownNames(m[k].batch)
             /\ x \in NamesOf(l, i) <=> \E k \in names(l) : x \in KnownNames(l[k].batch)
  BY DEF NamesOf, names
<1>6. NamesOf(m, i) =
        IF e.op = "update" THEN NamesOf(l, i) \cup KnownNames(e.batch) ELSE NamesOf(l, i)
  BY <1>4, <1>5
<1> QED  BY <1>6 DEF m

LEMMA NoNamesYet ==
  ASSUME NEW l \in Seq(EntryType)
  PROVE  NamesOf(l, Len(l)) = {}
<1>1. {k \in DOMAIN l : k > Len(l) /\ l[k].op = "update"} = {}
  OBVIOUS
<1> QED  BY <1>1 DEF NamesOf

-----------------------------------------------------------------------------
(* The classes with one value, the barriers, and finish().  What a class   *)
(* holds is told from the calls l that a channel c has had.                *)

OneValue == {"LastValue", "AnyValue", "EphemeralValue"}

SetsOf(c, l) ==
  IF c.class = "EphemeralValue" THEN AcceptsOf(l) ELSE AcceptsOf(l) \cap WritesOf(l)

KeptLast(c, l) ==
  LET last == LogMax(SetsOf(c, l))
      kept == last # 0 /\ l[last].batch # <<>>
  IN /\ c.has = kept
     /\ kept => c.val = Last(l[last].batch).value

KeptTillRead(c, l) ==
  LET last == LogMax(AcceptsOf(l) \cap WritesOf(l))
  IN /\ c.has = (last > LogMax(ConsumedOf(l)))
     /\ c.has => c.val = Last(l[last].batch).value
     /\ c.finished = (c.has /\ \E j \in FinishesOf(l) : last < j)

Entry(op, batch, r) == [op |-> op, batch |-> batch, ok |-> r.ok, changed |-> r.changed]

\* The values of a class do not depend on the calls that set none.
LEMMA KeptByOthers ==
  ASSUME NEW l \in Seq(EntryType), NEW e \in EntryType, NEW m, m = Append(l, e),
         NEW c, NEW d, KeptLast(c, l), d.has = c.has, d.val = c.val,
         SetsOf(d, m) = SetsOf(c, l)
  PROVE  KeptLast(d, m)
<1> DEFINE last == LogMax(SetsOf(c, l))
<1>1. SetsOf(c, l) \in SUBSET (1 .. Len(l)) /\ Len(l) \in Nat
  BY CallsWithin DEF SetsOf
<1>2. last \in 0 .. Len(l)
  BY <1>1, LogMaxOf
<1>3. last # 0 => m[last] = l[last]
  BY <1>2, AppendSplits
<1> QED  BY <1>3 DEF KeptLast

LEMMA KeptAnew ==
  ASSUME NEW l \in Seq(EntryType), NEW e \in EntryType, NEW m, m = Append(l, e), NEW c, NEW d,
         d.has = (e.batch # <<>>), d.has => d.val = Last(e.batch).value,
         SetsOf(d, m) = SetsOf(c, l) \cup {Len(l) + 1}
  PROVE  KeptLast(d, m)
<1>1. SetsOf(c, l) \in SUBSET (1 .. Len(l)) /\ Len(l) \in Nat
  BY CallsWithin DEF SetsOf
<1>2. LogMax(SetsOf(d, m)) = Len(l) + 1
  BY <1>1, LogMaxNew
<1>3. m[Len(l) + 1] = e /\ Len(l) + 1 # 0
  BY <1>1, AppendSplits
<1> QED  BY <1>2, <1>3 DEF KeptLast

\* A call of update: its entry e in the log, and the log m with it.
Updated(c, batch, l, r, e, m) ==
  /\ r = UpdateOf(c, batch) /\ e = Entry("update", batch, r) /\ e \in EntryType
  /\ m = Append(l, e)

LEMMA SetsGrow ==
  ASSUME NEW c, NEW d, NEW l \in Seq(EntryType), NEW batch, NEW r, NEW e, NEW m,
         Updated(c, batch, l, r, e, m), d.class = c.class
  PROVE  /\ r.ok /\ (batch # <<>> \/ c.class = "EphemeralValue") =>
              SetsOf(d, m) = SetsOf(c, l) \cup {Len(l) + 1}
         /\ ~r.ok \/ (batch = <<>> /\ c.class # "EphemeralValue") => SetsOf(d, m) = SetsOf(c, l)
<1>1. e \in EntryType /\ m = Append(l, e) /\ e.op = "update" /\ e.batch = batch /\ e.ok = r.ok
  BY DEF Updated, Entry
<1>2. /\ AcceptsOf(m) = IF e.op = "update" /\ e.ok
         THEN AcceptsOf(l) \cup {Len(l) + 1} ELSE AcceptsOf(l)
      /\ WritesOf(m) = IF e.op = "update" /\ e.batch # <<>>
         THEN WritesOf(l) \cup {Len(l) + 1} ELSE WritesOf(l)
  BY <1>1, OneMoreCall
<1>3. /\ AcceptsOf(l) \subseteq 1 .. Len(l) /\ WritesOf(l) \subseteq 1 .. Len(l)
      /\ Len(l) + 1 \notin 1 .. Len(l)
  BY CallsWithin
<1> QED  BY <1>1, <1>2, <1>3 DEF SetsOf

LEMMA UpdateKeepsLast ==
  ASSUME NEW c, ChannelOK(c), c.class \in OneValue, NEW l \in Seq(EntryType), KeptLast(c, l),
         NEW batch \in Seq(Items), NEW r, NEW e, NEW m, Updated(c, batch, l, r, e, m)
  PROVE  KeptLast(r.ch, m)
<1>1. /\ e \in EntryType /\ m = Append(l, e) /\ e.batch = batch
      /\ r = UpdateOf(c, batch)
  BY DEF Updated, Entry
<1>2. ASSUME NEW v PROVE Set(c, v).class = c.class /\ Set(c, v).has = TRUE /\ Set(c, v).val = v
  BY DEF Set, ChannelOK
<1>3. ASSUME r.ch = c, ~r.ok \/ (batch = <<>> /\ c.class # "EphemeralValue")
      PROVE  KeptLast(r.ch, m)
  <2>1. SetsOf(c, m) = SetsOf(c, l)
    BY <1>3, SetsGrow
  <2> QED  BY <1>1, <1>3, <2>1, KeptByOthers
<1>4. ASSUME r.ok, r.ch.class = c.class, batch # <<>> \/ c.class = "EphemeralValue",
             r.ch.has = (batch # <<>>), batch # <<>> => r.ch.val = Last(batch).value
      PROVE  KeptLast(r.ch, m)
  <2>1. PICK d : d = r.ch
    OBVIOUS
  <2>2. SetsOf(d, m) = SetsOf(c, l) \cup {Len(l) + 1}
    BY <1>4, <2>1, SetsGrow
  <2> QED  BY <1>1, <1>4, <2>1, <2>2, KeptAnew
<1>7. CASE c.class = "LastValue"
  <2>1. r = UpdateLast(c, batch)
    BY <1>1, <1>7 DEF UpdateOf, Barriers
  <2>2. CASE batch = <<>> \/ Len(batch) > 1
    <3>1. r.ch = c /\ (~r.ok \/ batch = <<>>)
      BY <2>1, <2>2 DEF UpdateLast, Same, Result
    <3> QED  BY <1>3, <1>7, <3>1
  <2>3. CASE ~(batch = <<>> \/ Len(batch) > 1)
    <3>1. /\ r.ok /\ batch # <<>> /\ r.ch.class = c.class /\ r.ch.has = TRUE
          /\ r.ch.val = Last(batch).value
      BY <2>1, <2>3 DEF UpdateLast, Result, Set, ChannelOK
    <3> QED  BY <1>4, <3>1
  <2> QED  BY <2>2, <2>3
<1>8. CASE c.class = "AnyValue"
  <2>1. r = UpdateAny(c, batch)
    BY <1>1, <1>8 DEF UpdateOf, Barriers
  <2>2. CASE batch = <<>>
    <3>1. r.ch = c
      BY <2>1, <2>2 DEF UpdateAny, Same, Result
    <3> QED  BY <1>3, <1>8, <2>2, <3>1
  <2>3. CASE batch # <<>>
    <3>1. /\ r.ok /\ r.ch.class = c.class /\ r.ch.has = TRUE /\ r.ch.val = Last(batch).value
      BY <1>2, <2>1, <2>3 DEF UpdateAny, Result
    <3> QED  BY <1>4, <2>3, <3>1
  <2> QED  BY <2>2, <2>3
<1>9. CASE c.class = "EphemeralValue"
  <2>1. r = UpdateEphemeral(c, batch)
    BY <1>1, <1>9 DEF UpdateOf, Barriers
  <2>2. CASE Len(batch) > 1 /\ c.option
    <3>1. r.ch = c /\ ~r.ok
      BY <2>1, <2>2 DEF UpdateEphemeral, Result
    <3> QED  BY <1>3, <3>1
  <2>3. CASE ~(Len(batch) > 1 /\ c.option) /\ batch = <<>>
    <3>1. r.ok /\ r.ch = Clear(c)
      BY <2>1, <2>3 DEF UpdateEphemeral, Result
    <3>2. Clear(c).class = c.class /\ Clear(c).has = FALSE
      BY <1>9 DEF Clear, New
    <3> QED  BY <1>4, <1>9, <2>3, <3>1, <3>2
  <2>4. CASE ~(Len(batch) > 1 /\ c.option) /\ batch # <<>>
    <3>1. /\ r.ok /\ r.ch.class = c.class /\ r.ch.has = TRUE /\ r.ch.val = Last(batch).value
      BY <1>2, <2>1, <2>4 DEF UpdateEphemeral, Result
    <3> QED  BY <1>4, <2>4, <3>1
  <2> QED  BY <2>2, <2>3, <2>4
<1> QED  BY <1>7, <1>8, <1>9 DEF OneValue
\* The log with an entry e of another call than update.
LEMMA OtherCall ==
  ASSUME NEW c, NEW d, NEW l \in Seq(EntryType), NEW e \in EntryType, NEW m, m = Append(l, e),
         e.op # "update"
  PROVE  /\ AcceptsOf(m) = AcceptsOf(l) /\ WritesOf(m) = WritesOf(l)
         /\ d.class = c.class => SetsOf(d, m) = SetsOf(c, l)
         /\ \A i \in 0 .. Len(l) : NamesOf(m, i) = NamesOf(l, i)
<1>1. AcceptsOf(m) = AcceptsOf(l) /\ WritesOf(m) = WritesOf(l)
  BY OneMoreCall
<1>2. ASSUME NEW i \in 0 .. Len(l) PROVE NamesOf(m, i) = NamesOf(l, i)
  <2>1. NamesOf(m, i) =
          IF e.op = "update" THEN NamesOf(l, i) \cup KnownNames(e.batch) ELSE NamesOf(l, i)
    BY OneMoreName
  <2> QED  BY <2>1
<1> QED  BY <1>1, <1>2 DEF SetsOf

\* A class with one value does not know consume and finish.
LEMMA OthersKeepLast ==
  ASSUME NEW c, c.class \in OneValue, NEW l \in Seq(EntryType), KeptLast(c, l),
         NEW e \in EntryType, NEW m, m = Append(l, e), e.op # "update"
  PROVE  ConsumeOf(c).ch = c /\ FinishOf(c).ch = c /\ KeptLast(c, m)
<1>1. ConsumeOf(c).ch = c /\ FinishOf(c).ch = c
  BY DEF ConsumeOf, FinishOf, Consumable, Finishable, Same, Result, OneValue, Barriers
<1>2. SetsOf(c, m) = SetsOf(c, l)
  BY OtherCall
<1> QED  BY <1>1, <1>2, KeptByOthers

-----------------------------------------------------------------------------
(* LastValueAfterFinish.                                                   *)

\* Where the latest value, the latest consume and the calls of finish are.
LEMMA Places ==
  ASSUME NEW l \in Seq(EntryType)
  PROVE  /\ LogMax(AcceptsOf(l) \cap WritesOf(l)) \in 0 .. Len(l)
         /\ LogMax(ConsumedOf(l)) \in 0 .. Len(l)
         /\ FinishesOf(l) \subseteq 1 .. Len(l) /\ WritesOf(l) \subseteq 1 .. Len(l)
         /\ Len(l) \in Nat
<1>1. AcceptsOf(l) \cap WritesOf(l) \in SUBSET (1 .. Len(l)) /\ Len(l) \in Nat
  BY CallsWithin
<1> QED  BY <1>1, CallsWithin, LogMaxOf

\* A call that is no update leaves the names seen since the last consume alone.
LEMMA SameNames ==
  ASSUME NEW l \in Seq(EntryType), NEW e \in EntryType, e.op # "update"
  PROVE  NamesOf(Append(l, e), LogMax(ConsumedOf(l))) = NamesOf(l, LogMax(ConsumedOf(l)))
<1>1. LogMax(ConsumedOf(l)) \in 0 .. Len(l)
  BY Places
<1> HIDE DEF LogMax, ConsumedOf
<1> QED  BY <1>1, OneMoreName

LEMMA HasIsInLog ==
  ASSUME NEW c, NEW l \in Seq(EntryType), KeptTillRead(c, l), c.has, NEW e \in EntryType
  PROVE  LET last == LogMax(AcceptsOf(l) \cap WritesOf(l))
         IN last \in DOMAIN l /\ Append(l, e)[last] = l[last]
<1> DEFINE last == LogMax(AcceptsOf(l) \cap WritesOf(l))
           read == LogMax(ConsumedOf(l))
<1>1. last \in 0 .. Len(l) /\ read \in 0 .. Len(l) /\ Len(l) \in Nat
  BY Places
<1>2. last > read
  BY DEF KeptTillRead
<1>3. DOMAIN l = 1 .. Len(l) /\ \A i \in DOMAIN l : Append(l, e)[i] = l[i]
  BY AppendSplits
<1> HIDE DEF last, read
<1>4. last \in DOMAIN l
  BY <1>1, <1>2, <1>3
<1> QED  BY <1>3, <1>4 DEF last

\* A value that was written and not consumed stays, until a call changes one of the two.
LEMMA TillReadByOthers ==
  ASSUME NEW c, NEW l \in Seq(EntryType), KeptTillRead(c, l), NEW e \in EntryType,
         NEW m, m = Append(l, e), ConsumedOf(m) = ConsumedOf(l), FinishesOf(m) = FinishesOf(l),
         AcceptsOf(m) \cap WritesOf(m) = AcceptsOf(l) \cap WritesOf(l)
  PROVE  KeptTillRead(c, m)
<1> DEFINE last == LogMax(AcceptsOf(l) \cap WritesOf(l))
<1>1. c.has => m[last] = l[last]
  BY HasIsInLog
<1> QED  BY <1>1 DEF KeptTillRead

LEMMA UpdateTillRead ==
  ASSUME NEW c, ChannelOK(c), c.class = "LastValueAfterFinish", NEW l \in Seq(EntryType),
         KeptTillRead(c, l), NEW batch \in Seq(Items), NEW r, NEW e, NEW m,
         Updated(c, batch, l, r, e, m)
  PROVE  KeptTillRead(r.ch, m)
<1>1. /\ e \in EntryType /\ m = Append(l, e) /\ e.op = "update" /\ e.batch = batch /\ e.ok = r.ok
      /\ r = UpdateLast(c, batch)
  BY DEF Updated, Entry, UpdateOf, Barriers
<1>2. ConsumedOf(m) = ConsumedOf(l) /\ FinishesOf(m) = FinishesOf(l)
  BY <1>1, OneMoreCall
<1>3. CASE batch = <<>> \/ Len(batch) > 1
  <2>1. r.ch = c /\ (~r.ok \/ batch = <<>>)
    BY <1>1, <1>3 DEF UpdateLast, Same, Result
  <2>2. SetsOf(c, m) = SetsOf(c, l)
    BY <2>1, SetsGrow
  <2> QED  BY <1>1, <1>2, <2>1, <2>2, TillReadByOthers DEF SetsOf
<1>4. CASE ~(batch = <<>> \/ Len(batch) > 1)
  <2>1. /\ r.ok /\ r.ch.class = c.class /\ r.ch.has = TRUE /\ r.ch.finished = FALSE
        /\ r.ch.val = Last(batch).value
    BY <1>1, <1>4 DEF UpdateLast, Result, Set, ChannelOK
  <2>2. SetsOf(c, m) = SetsOf(c, l) \cup {Len(l) + 1}
    BY <1>4, <2>1, SetsGrow
  <2>3. LogMax(AcceptsOf(m) \cap WritesOf(m)) = Len(l) + 1
    <3>1. AcceptsOf(l) \cap WritesOf(l) \in SUBSET (1 .. Len(l)) /\ Len(l) \in Nat
      BY CallsWithin
    <3> QED  BY <2>2, <3>1, LogMaxNew DEF SetsOf
  <2>4. m[Len(l) + 1] = e
    BY <1>1, AppendSplits
  <2>5. LogMax(ConsumedOf(m)) < Len(l) + 1 /\ ~ \E j \in FinishesOf(m) : Len(l) + 1 < j
    <3>1. /\ LogMax(ConsumedOf(l)) \in 0 .. Len(l) /\ FinishesOf(l) \subseteq 1 .. Len(l)
          /\ Len(l) \in Nat
      BY Places
    <3> QED  BY <1>2, <3>1
  <2> QED  BY <1>1, <2>1, <2>3, <2>4, <2>5 DEF KeptTillRead
<1> QED  BY <1>3, <1>4

LEMMA ConsumeTillRead ==
  ASSUME NEW c, c.class = "LastValueAfterFinish", NEW l \in Seq(EntryType),
         KeptTillRead(c, l), NEW r, r = ConsumeOf(c), NEW e \in EntryType, e.op = "consume",
         e.changed = r.changed, NEW m, m = Append(l, e)
  PROVE  KeptTillRead(r.ch, m)
<1>1. AcceptsOf(m) = AcceptsOf(l) /\ WritesOf(m) = WritesOf(l) /\ FinishesOf(m) = FinishesOf(l)
  BY OneMoreCall
<1>2. CASE Consumable(c)
  <2>1. r.changed /\ r.ch = Clear(c)
    BY <1>2 DEF ConsumeOf, Result
  <2>2. Clear(c).has = FALSE /\ Clear(c).finished = FALSE
    BY DEF Clear, New
  <2>3. ConsumedOf(m) = ConsumedOf(l) \cup {Len(l) + 1}
    BY <2>1, OneMoreCall
  <2>4. LogMax(ConsumedOf(m)) = Len(l) + 1
    BY <2>3, CallsWithin, LogMaxNew
  <2>5. (LogMax(AcceptsOf(m) \cap WritesOf(m)) > LogMax(ConsumedOf(m))) = FALSE
    <3>1. LogMax(AcceptsOf(l) \cap WritesOf(l)) \in 0 .. Len(l) /\ Len(l) \in Nat
      BY Places
    <3> QED  BY <1>1, <2>4, <3>1
  <2>6. r.ch.has = FALSE /\ r.ch.finished = FALSE
    BY <2>1, <2>2
  <2> QED  BY <2>5, <2>6 DEF KeptTillRead
<1>3. CASE ~Consumable(c)
  <2>1. ~r.changed /\ r.ch = c
    BY <1>3 DEF ConsumeOf, Same, Result
  <2>2. ConsumedOf(m) = ConsumedOf(l)
    BY <2>1, OneMoreCall
  <2> QED  BY <1>1, <2>1, <2>2, TillReadByOthers
<1> QED  BY <1>2, <1>3

LEMMA FinishTillRead ==
  ASSUME NEW c, ChannelOK(c), c.class = "LastValueAfterFinish", NEW l \in Seq(EntryType),
         KeptTillRead(c, l), NEW e \in EntryType, e.op = "finish", NEW m, m = Append(l, e)
  PROVE  KeptTillRead(FinishOf(c).ch, m)
<1>1. /\ AcceptsOf(m) = AcceptsOf(l) /\ WritesOf(m) = WritesOf(l) /\ ConsumedOf(m) = ConsumedOf(l)
      /\ FinishesOf(m) = FinishesOf(l) \cup {Len(l) + 1}
  BY OneMoreCall
<1> DEFINE last == LogMax(AcceptsOf(l) \cap WritesOf(l))
           d == FinishOf(c).ch
<1>2. d.has = c.has /\ d.val = c.val /\ d.finished = c.has
  BY DEF FinishOf, Finishable, Same, Result, ChannelOK, KeptTillRead, WithoutValue, Barriers
<1>3. last < Len(l) + 1
  BY Places
<1>4. c.has => m[last] = l[last]
  BY HasIsInLog
<1>5. d.finished = (d.has /\ \E j \in FinishesOf(m) : last < j)
  BY <1>1, <1>2, <1>3 DEF ChannelOK
<1> QED  BY <1>1, <1>2, <1>4, <1>5 DEF KeptTillRead
-----------------------------------------------------------------------------
(* The barriers.                                                           *)

NamesKept(c, l) ==
  /\ c.val = NamesOf(l, LogMax(ConsumedOf(l)))
  /\ c.val \subseteq Names

FinishedLate(c, l) ==
  c.finished = (c.val = Names /\ \E j \in FinishesOf(l) : \A i \in WritesOf(l) : i < j)

BarrierKept(c, l) ==
  /\ NamesKept(c, l)
  /\ c.class = "NamedBarrierValueAfterFinish" => FinishedLate(c, l)

LEMMA NoNamesInNothing == KnownNames(<<>>) = {}
  BY DEF KnownNames

LEMMA KnownAreNames ==
  ASSUME NEW batch \in Seq(Items)
  PROVE  KnownNames(batch) \subseteq Names
<1> SUFFICES ASSUME NEW i \in DOMAIN batch, \A k \in 1 .. i : batch[k].value \in Names
             PROVE  batch[i].value \in Names
  BY DEF KnownNames
<1>1. i \in 1 .. i
  OBVIOUS
<1> QED  BY <1>1

LEMMA UpdateBarrierKept ==
  ASSUME NEW c, ChannelOK(c), c.class \in Barriers, NEW l \in Seq(EntryType),
         BarrierKept(c, l), NEW batch \in Seq(Items), NEW r, NEW e, NEW m,
         Updated(c, batch, l, r, e, m)
  PROVE  BarrierKept(r.ch, m)
<1>1. /\ e \in EntryType /\ m = Append(l, e) /\ e.op = "update" /\ e.batch = batch
      /\ r = UpdateBarrier(c, batch)
  BY DEF Updated, Entry, UpdateOf, Barriers
<1>2. /\ ConsumedOf(m) = ConsumedOf(l) /\ FinishesOf(m) = FinishesOf(l)
      /\ batch # <<>> => WritesOf(m) = WritesOf(l) \cup {Len(l) + 1}
      /\ batch = <<>> => WritesOf(m) = WritesOf(l)
  BY <1>1, OneMoreCall
<1>3. NamesOf(m, LogMax(ConsumedOf(m))) = NamesOf(l, LogMax(ConsumedOf(l))) \cup KnownNames(batch)
  <2>1. LogMax(ConsumedOf(l)) \in 0 .. Len(l)
    BY Places
  <2> QED  BY <1>1, <1>2, <2>1, OneMoreName
<1>4. CASE batch = <<>>
  <2>1. r.ch = c
    BY <1>1, <1>4 DEF UpdateBarrier, Same, Result
  <2>2. NamesOf(m, LogMax(ConsumedOf(m))) = NamesOf(l, LogMax(ConsumedOf(l)))
    BY <1>3, <1>4, NoNamesInNothing
  <2> QED  BY <1>2, <1>4, <2>1, <2>2 DEF BarrierKept, NamesKept, FinishedLate
<1>5. CASE batch # <<>>
  <2>1. r.ch = [c EXCEPT !.val = @ \cup KnownNames(batch), !.finished = FALSE]
    BY <1>1, <1>5 DEF UpdateBarrier, Result
  <2>2. r.ch.val = c.val \cup KnownNames(batch) /\ r.ch.finished = FALSE
    BY <2>1 DEF ChannelOK
  <2>3. ASSUME NEW j \in FinishesOf(m), \A i \in WritesOf(m) : i < j
        PROVE  FALSE
    <3>1. j \in 1 .. Len(l) /\ Len(l) \in Nat
      BY <1>2, Places
    <3>2. Len(l) + 1 < j
      BY <1>2, <1>5, <2>3
    <3> QED  BY <3>1, <3>2
  <2>4. NamesKept(r.ch, m)
    BY <1>3, <2>2, KnownAreNames DEF BarrierKept, NamesKept
  <2> QED  BY <2>2, <2>3, <2>4 DEF BarrierKept, FinishedLate
<1> QED  BY <1>4, <1>5

LEMMA ConsumeBarrierKept ==
  ASSUME NEW c, c.class \in Barriers, NEW l \in Seq(EntryType),
         BarrierKept(c, l), NEW r, r = ConsumeOf(c), NEW e \in EntryType, e.op = "consume",
         e.changed = r.changed, NEW m, m = Append(l, e)
  PROVE  BarrierKept(r.ch, m)
<1>1. WritesOf(m) = WritesOf(l) /\ FinishesOf(m) = FinishesOf(l)
  BY OneMoreCall
<1>2. CASE Consumable(c)
  <2>1. r.changed /\ r.ch = Clear(c)
    BY <1>2 DEF ConsumeOf, Result
  <2>2. Clear(c).val = {} /\ Clear(c).finished = FALSE /\ Clear(c).class = c.class
    BY DEF Clear, New
  <2>3. ConsumedOf(m) = ConsumedOf(l) \cup {Len(l) + 1}
    BY <2>1, OneMoreCall
  <2>4. LogMax(ConsumedOf(m)) = Len(l) + 1
    BY <2>3, CallsWithin, LogMaxNew
  <2>5. m \in Seq(EntryType) /\ Len(m) = Len(l) + 1
    OBVIOUS
  <2>6. NamesOf(m, Len(l) + 1) = {}
    BY <2>5, NoNamesYet
  <2>7. r.ch.val = {} /\ r.ch.finished = FALSE /\ Names # {}
    BY <2>1, <2>2, ChannelAssumption
  <2> QED  BY <2>4, <2>6, <2>7 DEF BarrierKept, NamesKept, FinishedLate
<1>3. CASE ~Consumable(c)
  <2>1. ~r.changed /\ r.ch = c
    BY <1>3 DEF ConsumeOf, Same, Result
  <2>2. ConsumedOf(m) = ConsumedOf(l)
    BY <2>1, OneMoreCall
  <2>3. NamesOf(m, LogMax(ConsumedOf(m))) = NamesOf(l, LogMax(ConsumedOf(l)))
    BY <2>2, SameNames
  <2> QED  BY <1>1, <2>1, <2>3 DEF BarrierKept, NamesKept, FinishedLate
<1> QED  BY <1>2, <1>3

LEMMA FinishBarrierKept ==
  ASSUME NEW c, ChannelOK(c), c.class \in Barriers, NEW l \in Seq(EntryType),
         BarrierKept(c, l), NEW e \in EntryType, e.op = "finish", NEW m, m = Append(l, e)
  PROVE  BarrierKept(FinishOf(c).ch, m)
<1>1. /\ WritesOf(m) = WritesOf(l) /\ ConsumedOf(m) = ConsumedOf(l)
      /\ FinishesOf(m) = FinishesOf(l) \cup {Len(l) + 1}
  BY OneMoreCall
<1> DEFINE d == FinishOf(c).ch
<1>2. d.class = c.class /\ d.val = c.val
  BY DEF FinishOf, Same, Result, ChannelOK
<1>3. NamesOf(m, LogMax(ConsumedOf(m))) = NamesOf(l, LogMax(ConsumedOf(l)))
  BY <1>1, SameNames
<1>4. NamesKept(d, m)
  BY <1>2, <1>3 DEF BarrierKept, NamesKept
<1>5. \A i \in WritesOf(m) : i < Len(l) + 1
  <2>1. WritesOf(l) \subseteq 1 .. Len(l) /\ Len(l) \in Nat
    BY Places
  <2> QED  BY <1>1, <2>1
<1>6. ASSUME c.class = "NamedBarrierValueAfterFinish"
      PROVE  d.finished = (d.val = Names)
  BY <1>6 DEF FinishOf, Finishable, Same, Result, ChannelOK, BarrierKept, FinishedLate
<1>7. \E j \in FinishesOf(m) : \A i \in WritesOf(m) : i < j
  BY <1>1, <1>5
<1> QED  BY <1>2, <1>4, <1>6, <1>7 DEF BarrierKept, FinishedLate
-----------------------------------------------------------------------------
(* Joining sequences: FlattenSeq(s) is the last of the sequences f[i] that *)
(* join the first i members of s.                                          *)

Joins(f, s) == f[0] = <<>> /\ \A i \in 1 .. Len(s) : f[i] = f[i - 1] \o s[i]

LEMMA JoinsOne ==
  ASSUME NEW s, NEW f, Joins(f, s), NEW i \in 1 .. Len(s)
  PROVE  f[0] = <<>> /\ f[i] = f[i - 1] \o s[i]
  BY DEF Joins

\* What holds first and is kept by every step holds last.
LEMMA Stays ==
  ASSUME NEW N \in Nat, NEW T, 0 \in T, \A i \in 1 .. N : i - 1 \in T => i \in T
  PROVE  N \in T
<1> DEFINE Bad == (0 .. N) \ T
<1> SUFFICES ASSUME Bad # {} PROVE FALSE
  OBVIOUS
<1>1. PICK i \in Bad : \A j \in Bad : i <= j
  <2>1. Bad \in SUBSET Nat
    OBVIOUS
  <2> HIDE DEF Bad
  <2> QED  BY <2>1, LeastNumber
<1>2. i # 0 /\ i \in 1 .. N /\ i - 1 \in 0 .. N /\ i - 1 \notin Bad
  BY <1>1
<1> QED  BY <1>2

\* A recursion whose steps are the functions next[i] has a solution.
Solves(f, n, a, next) == f[0] = a /\ \A i \in 1 .. n : f[i] = next[i][f[i - 1]]

LEMMA RecursionSolved ==
  ASSUME NEW N \in Nat, NEW T, NEW a \in T, NEW next \in [1 .. N -> [T -> T]]
  PROVE  \E f \in [0 .. N -> T] : Solves(f, N, a, next)
<1> DEFINE Good == {n \in 0 .. N : \E f \in [0 .. n -> T] : Solves(f, n, a, next)}
<1>1. 0 \in Good
  <2>1. [i \in 0 .. 0 |-> a] \in [0 .. 0 -> T] /\ Solves([i \in 0 .. 0 |-> a], 0, a, next)
    BY DEF Solves
  <2> QED  BY <2>1
<1>2. ASSUME NEW n \in 1 .. N, n - 1 \in Good
      PROVE  n \in Good
  <2>1. PICK f \in [0 .. (n - 1) -> T] : Solves(f, n - 1, a, next)
    BY <1>2
  <2> DEFINE g == [i \in 0 .. n |-> IF i = n THEN next[n][f[n - 1]] ELSE f[i]]
  <2>2. g \in [0 .. n -> T]
    OBVIOUS
  <2>3. g[0] = a
    BY <2>1 DEF Solves
  <2>4. \A i \in 1 .. n : g[i] = next[i][g[i - 1]]
    BY <2>1 DEF Solves
  <2>5. Solves(g, n, a, next)
    BY <2>3, <2>4 DEF Solves
  <2> HIDE DEF g
  <2> QED  BY <2>2, <2>5
<1> HIDE DEF Good
<1>3. N \in Good
  BY <1>1, <1>2, Stays
<1> QED  BY <1>3 DEF Good

LEMMA Joined ==
  ASSUME NEW V, NEW s \in Seq(Seq(V))
  PROVE  \E f \in [0 .. Len(s) -> Seq(V)] : Joins(f, s)
<1> DEFINE N == Len(s)
           next == [i \in 1 .. N |-> [x \in Seq(V) |-> x \o s[i]]]
<1>1. \A i \in 1 .. N : s[i] \in Seq(V)
  OBVIOUS
<1>2. next \in [1 .. N -> [Seq(V) -> Seq(V)]] /\ <<>> \in Seq(V) /\ N \in Nat
  BY <1>1
<1>3. PICK f \in [0 .. N -> Seq(V)] : Solves(f, N, <<>>, next)
  <2> HIDE DEF next, N
  <2> QED  BY <1>2, RecursionSolved
<1>4. ASSUME NEW i \in 1 .. N PROVE f[i] = f[i - 1] \o s[i]
  <2>1. f[i] = next[i][f[i - 1]]
    <3> HIDE DEF next, N
    <3> QED  BY <1>3 DEF Solves
  <2> i - 1 \in 0 .. N
    OBVIOUS
  <2>2. f[i - 1] \in Seq(V)
    BY <1>3, <2>1
  <2> QED  BY <2>1, <2>2
<1> QED  BY <1>3, <1>4 DEF Joins, Solves

\* FlattenSeq is what its recursion says.
LEMMA Flattened ==
  ASSUME NEW V, NEW s \in Seq(Seq(V))
  PROVE  \E f \in [0 .. Len(s) -> Seq(V)] : Joins(f, s) /\ FlattenSeq(s) = f[Len(s)]
<1>1. PICK f \in [0 .. Len(s) -> Seq(V)] : Joins(f, s)
  BY Joined
<1>2. CASE Len(s) = 0
  BY <1>1, <1>2 DEF Joins, FlattenSeq
<1>3. CASE Len(s) # 0
  <2> DEFINE N == Len(s)
             h == CHOOSE h : h = [i \in 1 .. N |-> IF i = 1 THEN s[i] ELSE h[i - 1] \o s[i]]
             g == [i \in 1 .. N |-> f[i]]
  <2>1. N \in Nat /\ N # 0 /\ f[1] = s[1]
    <3>1. N \in Nat /\ 1 \in 1 .. N /\ s[1] \in Seq(V)
      BY <1>3
    <3>2. f[1] = f[1 - 1] \o s[1] /\ f[0] = <<>>
      BY <1>1, <3>1, JoinsOne
    <3> QED  BY <1>3, <3>1, <3>2, ConcatEmptySeq
  <2>2. g = [i \in 1 .. N |-> IF i = 1 THEN s[i] ELSE g[i - 1] \o s[i]]
    <3>1. \A i \in 1 .. N : i # 1 => g[i] = g[i - 1] \o s[i]
      <4> SUFFICES ASSUME NEW i \in 1 .. N, i # 1 PROVE f[i] = f[i - 1] \o s[i] /\ i - 1 \in 1 .. N
        OBVIOUS
      <4>1. f[i] = f[i - 1] \o s[i]
        BY <1>1, JoinsOne
      <4> QED  BY <2>1, <4>1
    <3> QED  BY <2>1, <3>1
  <2>3. h = [i \in 1 .. N |-> IF i = 1 THEN s[i] ELSE h[i - 1] \o s[i]]
    BY <2>2
  <2>4. FlattenSeq(s) = h[N]
    BY <1>3 DEF FlattenSeq
  <2> HIDE DEF h, g
  <2> DEFINE T == {i \in 0 .. N : i = 0 \/ h[i] = f[i]}
  <2>5. \A i \in 1 .. N : i - 1 \in T => i \in T
    <3> SUFFICES ASSUME NEW i \in 1 .. N, i - 1 \in T PROVE h[i] = f[i]
      BY <2>1
    <3>1. CASE i = 1
      BY <2>1, <2>3, <3>1
    <3>2. CASE i # 1
      <4>1. i - 1 \in 1 .. N /\ h[i - 1] = f[i - 1]
        BY <2>1, <3>2
      <4>2. f[i] = f[i - 1] \o s[i]
        BY <1>1, JoinsOne
      <4> QED  BY <2>3, <3>2, <4>1, <4>2
    <3> QED  BY <3>1, <3>2
  <2>6. N \in T
    <3>1. 0 \in T
      BY <2>1
    <3> HIDE DEF T
    <3> QED  BY <2>1, <2>5, <3>1, Stays
  <2> QED  BY <1>1, <2>1, <2>4, <2>6
<1> QED  BY <1>2, <1>3

\* Sequences that agree on their first n members join them alike.
LEMMA JoinedAlike ==
  ASSUME NEW V, NEW s \in Seq(Seq(V)), NEW t \in Seq(Seq(V)), NEW f, NEW g,
         Joins(f, s), Joins(g, t), NEW n \in Nat, n <= Len(s), n <= Len(t),
         \A i \in 1 .. n : s[i] = t[i]
  PROVE  f[n] = g[n]
<1> DEFINE T == {i \in 0 .. n : f[i] = g[i]}
<1>1. 0 \in T
  BY DEF Joins
<1>2. ASSUME NEW i \in 1 .. n, i - 1 \in T
      PROVE  i \in T
  <2>1. i \in 1 .. Len(s) /\ i \in 1 .. Len(t) /\ f[i - 1] = g[i - 1] /\ s[i] = t[i]
    BY <1>2
  <2>2. f[i] = f[i - 1] \o s[i] /\ g[i] = g[i - 1] \o t[i]
    BY <2>1, JoinsOne
  <2>3. f[i] = g[i]
    BY <2>1, <2>2
  <2>4. i \in 0 .. n
    OBVIOUS
  <2> QED  BY <2>3, <2>4
<1> HIDE DEF T
<1>3. n \in T
  BY <1>1, <1>2, Stays
<1> QED  BY <1>3 DEF T

LEMMA FlattenType ==
  ASSUME NEW V, NEW s \in Seq(Seq(V))
  PROVE  FlattenSeq(s) \in Seq(V)
<1>1. PICK f \in [0 .. Len(s) -> Seq(V)] : FlattenSeq(s) = f[Len(s)]
  BY Flattened
<1>2. Len(s) \in 0 .. Len(s)
  OBVIOUS
<1>3. f[Len(s)] \in Seq(V)
  BY <1>2
<1> QED  BY <1>1, <1>3

LEMMA JoinThree ==
  ASSUME NEW V, NEW a \in Seq(V), NEW b \in Seq(V), NEW d \in Seq(V)
  PROVE  (a \o b) \o d = a \o (b \o d)
  OBVIOUS

LEMMA AppendLater ==
  ASSUME NEW V, NEW a \in Seq(V), NEW b \in Seq(V), NEW v \in V
  PROVE  a \o b \in Seq(V) /\ a \o Append(b, v) = Append(a \o b, v)
  OBVIOUS

LEMMA FlattenNothing == FlattenSeq(<<>>) = <<>>
  BY DEF FlattenSeq

LEMMA FlattenAppend ==
  ASSUME NEW V, NEW s \in Seq(Seq(V)), NEW v \in Seq(V)
  PROVE  FlattenSeq(Append(s, v)) = FlattenSeq(s) \o v
<1> DEFINE t == Append(s, v)
           n == Len(s)
<1>1. /\ t \in Seq(Seq(V)) /\ n \in Nat /\ Len(t) = n + 1 /\ t[n + 1] = v
      /\ \A i \in 1 .. n : s[i] = t[i]
  OBVIOUS
<1>2. PICK f : Joins(f, s) /\ FlattenSeq(s) = f[n]
  BY Flattened
<1> HIDE DEF t
<1>3. PICK g : Joins(g, t) /\ FlattenSeq(t) = g[n + 1]
  BY <1>1, Flattened
<1>4. f[n] = g[n]
  <2>1. n <= Len(s) /\ n <= Len(t)
    BY <1>1
  <2> HIDE DEF n
  <2> QED  BY <1>1, <1>2, <1>3, <2>1, JoinedAlike
<1>5. g[n + 1] = g[n] \o v
  <2>1. n + 1 \in 1 .. Len(t) /\ (n + 1) - 1 = n
    BY <1>1
  <2>2. g[n + 1] = g[(n + 1) - 1] \o t[n + 1]
    BY <1>3, <2>1, JoinsOne
  <2> QED  BY <1>1, <2>1, <2>2
<1> QED  BY <1>2, <1>3, <1>4, <1>5 DEF t

LEMMA FlattenOneMore ==
  ASSUME NEW V, NEW s \in Seq(Seq(V)), NEW u \in Seq(Seq(V)), NEW v \in Seq(V),
         FlattenSeq(s \o u) = FlattenSeq(s) \o FlattenSeq(u)
  PROVE  FlattenSeq(s \o Append(u, v)) = FlattenSeq(s) \o FlattenSeq(Append(u, v))
<1>1. s \o u \in Seq(Seq(V)) /\ s \o Append(u, v) = Append(s \o u, v)
  BY AppendLater
<1>2. FlattenSeq(s \o Append(u, v)) = FlattenSeq(s \o u) \o v
  BY <1>1, FlattenAppend
<1>3. FlattenSeq(Append(u, v)) = FlattenSeq(u) \o v
  BY FlattenAppend
<1>4. FlattenSeq(s) \in Seq(V) /\ FlattenSeq(u) \in Seq(V)
  BY FlattenType
<1>5. (FlattenSeq(s) \o FlattenSeq(u)) \o v = FlattenSeq(s) \o (FlattenSeq(u) \o v)
  BY <1>4, JoinThree
<1> QED  BY <1>2, <1>3, <1>5

LEMMA FlattenConcat ==
  ASSUME NEW V, NEW s \in Seq(Seq(V)), NEW t \in Seq(Seq(V))
  PROVE  FlattenSeq(s \o t) = FlattenSeq(s) \o FlattenSeq(t)
<1> DEFINE first(i) == SubSeq(t, 1, i)
           T == {i \in 0 .. Len(t) :
                   FlattenSeq(s \o first(i)) = FlattenSeq(s) \o FlattenSeq(first(i))}
<1>1. 0 \in T
  <2>1. first(0) = <<>> /\ s \o <<>> = s /\ 0 \in 0 .. Len(t)
    BY ConcatEmptySeq, SubSeqEmpty
  <2>2. FlattenSeq(s) \o <<>> = FlattenSeq(s)
    BY FlattenType, ConcatEmptySeq
  <2> QED  BY <2>1, <2>2, FlattenNothing
<1>2. ASSUME NEW i \in 1 .. Len(t), i - 1 \in T
      PROVE  i \in T
  <2> DEFINE u == first(i - 1)
  <2>1. u \in Seq(Seq(V)) /\ t[i] \in Seq(V) /\ Len(t) \in Nat
    OBVIOUS
  <2>2. first(i) = Append(u, t[i])
    OBVIOUS
  <2> HIDE DEF first
  <2>3. FlattenSeq(s \o u) = FlattenSeq(s) \o FlattenSeq(u)
    BY <1>2
  <2> HIDE DEF u
  <2>4. FlattenSeq(s \o Append(u, t[i])) = FlattenSeq(s) \o FlattenSeq(Append(u, t[i]))
    BY <2>1, <2>3, FlattenOneMore
  <2>5. i \in 0 .. Len(t)
    OBVIOUS
  <2> QED  BY <2>2, <2>4, <2>5
<1>3. Len(t) \in T
  <2>1. Len(t) \in Nat
    OBVIOUS
  <2> HIDE DEF T
  <2> QED  BY <1>1, <1>2, <2>1, Stays
<1>4. first(Len(t)) = t
  BY SubSeqFull
<1> HIDE DEF first
<1> QED  BY <1>3, <1>4
-----------------------------------------------------------------------------
(* What the calls have written.                                            *)

Parts(l, i) ==
  [k \in 1 .. Len(l) |->
     IF k < i \/ l[k].op # "update" THEN <<>> ELSE Accepted(l[k].batch)]

WrittenOf(l, i) == FlattenSeq(Parts(l, i))

LEMMA FewElements ==
  /\ Cardinality({}) = 0
  /\ \A a : Cardinality({a}) = 1
  /\ \A a, b : a # b => Cardinality({a} \cup {b}) = 2
<1>1. Cardinality({}) = 0
  BY FS_EmptySet
<1>2. \A a : IsFiniteSet({a}) /\ Cardinality({a}) = 1
  BY FS_Singleton
<1>3. ASSUME NEW a, NEW b, a # b
      PROVE  Cardinality({a} \cup {b}) = 2
  <2>1. PICK S : S = {a}
    OBVIOUS
  <2>2. IsFiniteSet(S) /\ Cardinality(S) = 1 /\ b \notin S
    BY <1>2, <1>3, <2>1
  <2>3. Cardinality(S \cup {b}) = IF b \in S THEN Cardinality(S) ELSE Cardinality(S) + 1
    BY <2>2, FS_AddElement
  <2> QED  BY <2>1, <2>2, <2>3
<1> QED  BY <1>1, <1>2, <1>3

\* There is a second Overwrite where there are two, and it is not the first value.
LEMMA SecondOverwrite ==
  ASSUME NEW batch \in Seq(Items), ~(Cardinality(Overwrites(batch)) < 2)
  PROVE  \E i \in Overwrites(batch) : Cardinality(Overwrites(SubSeq(batch, 1, i))) = 2
<1> DEFINE O == Overwrites(batch)
<1>1. O \subseteq 1 .. Len(batch) /\ Len(batch) \in Nat /\ O \in SUBSET Nat
  BY DEF Overwrites
<1>2. O # {} /\ \A a \in O : O # {a}
  <2>1. \A n \in {0, 1} : n < 2
    OBVIOUS
  <2>2. Cardinality(O) \notin {0, 1}
    BY <2>1
  <2> HIDE DEF O
  <2> QED  BY <2>2, FewElements
<1> HIDE DEF O
<1>3. PICK a \in O : \A j \in O : a <= j
  BY <1>1, <1>2, LeastNumber
<1>4. O \ {a} # {} /\ O \ {a} \in SUBSET Nat
  BY <1>1, <1>2, <1>3
<1>5. PICK b \in O \ {a} : \A j \in O \ {a} : b <= j
  BY <1>4, LeastNumber
<1>6. a \in 1 .. Len(batch) /\ b \in 1 .. Len(batch) /\ a < b
  BY <1>1, <1>3, <1>5
<1>7. Overwrites(SubSeq(batch, 1, b)) = {a} \cup {b}
  <2>1. DOMAIN SubSeq(batch, 1, b) = 1 .. b /\ \A j \in 1 .. b : SubSeq(batch, 1, b)[j] = batch[j]
    BY <1>6
  <2>2. Overwrites(SubSeq(batch, 1, b)) = {j \in 1 .. b : j \in O}
    BY <1>1, <1>6, <2>1 DEF Overwrites, O
  <2>3. \A j \in O : j <= b <=> j = a \/ j = b
    BY <1>1, <1>3, <1>5, <1>6
  <2> QED  BY <1>1, <1>3, <1>5, <1>6, <2>2, <2>3
<1>8. Cardinality({a} \cup {b}) = 2
  <2>1. a # b
    BY <1>6
  <2> QED  BY <2>1, FewElements
<1> QED  BY <1>5, <1>7, <1>8 DEF O

LEMMA AcceptedPart ==
  ASSUME NEW batch \in Seq(Items)
  PROVE  /\ Accepted(batch) \in Seq(Items)
         /\ batch # <<>> => Accepted(batch) # <<>>
         /\ Overwrites(batch) = {} => Accepted(batch) = batch
<1>1. CASE Cardinality(Overwrites(batch)) < 2
  BY <1>1 DEF Accepted
<1>2. CASE ~(Cardinality(Overwrites(batch)) < 2)
  <2> DEFINE second == CHOOSE i \in Overwrites(batch) :
                         Cardinality(Overwrites(SubSeq(batch, 1, i))) = 2
  <2>1. second \in Overwrites(batch) /\ Cardinality(Overwrites(SubSeq(batch, 1, second))) = 2
    BY <1>2, SecondOverwrite
  <2> HIDE DEF second
  <2>2. second \in 1 .. Len(batch)
    BY <2>1 DEF Overwrites
  <2>3. second # 1
    <3> SUFFICES ASSUME second = 1 PROVE FALSE
      OBVIOUS
    <3>1. DOMAIN SubSeq(batch, 1, 1) = 1 .. 1
      BY <2>2
    <3> DEFINE S == Overwrites(SubSeq(batch, 1, 1))
    <3>2. S \subseteq {1}
      BY <3>1 DEF Overwrites
    <3>3. Cardinality(S) = 2
      BY <2>1
    <3> HIDE DEF S
    <3>4. S = {} \/ S = {1}
      BY <3>2
    <3>5. Cardinality(S) \in {0, 1}
      BY <3>4, FewElements
    <3> QED  BY <3>3, <3>5
  <2>4. Accepted(batch) = SubSeq(batch, 1, second - 1)
    BY <1>2 DEF Accepted, second
  <2>5. SubSeq(batch, 1, second - 1) \in Seq(Items) /\ Len(SubSeq(batch, 1, second - 1)) > 0
    BY <2>2, <2>3
  <2>6. Overwrites(batch) # {}
    BY <2>1
  <2> QED  BY <2>4, <2>5, <2>6
<1> QED  BY <1>1, <1>2

LEMMA PartsType ==
  ASSUME NEW l \in Seq(EntryType), NEW i
  PROVE  Parts(l, i) \in Seq(Seq(Items)) /\ Len(Parts(l, i)) = Len(l)
<1>1. \A k \in 1 .. Len(l) : Accepted(l[k].batch) \in Seq(Items)
  <2> TAKE k \in 1 .. Len(l)
  <2>1. l[k] \in EntryType
    BY ElementOfSeq
  <2>2. l[k].batch \in Seq(Items)
    BY <2>1 DEF EntryType
  <2> QED  BY <2>2, AcceptedPart
<1>2. \A k \in 1 .. Len(l) : Parts(l, i)[k] \in Seq(Items)
  BY <1>1 DEF Parts
<1> QED  BY <1>2 DEF Parts

LEMMA WrittenType ==
  ASSUME NEW l \in Seq(EntryType), NEW i
  PROVE  WrittenOf(l, i) \in Seq(Items)
  BY PartsType, FlattenType DEF WrittenOf

\* One more call adds what it writes.
LEMMA WrittenMore ==
  ASSUME NEW l \in Seq(EntryType), NEW e \in EntryType, NEW i \in 0 .. Len(l) + 1
  PROVE  WrittenOf(Append(l, e), i) =
           IF e.op = "update" THEN WrittenOf(l, i) \o Accepted(e.batch) ELSE WrittenOf(l, i)
<1> DEFINE m == Append(l, e)
           n == Len(l) + 1
           v == IF e.op = "update" THEN Accepted(e.batch) ELSE <<>>
<1>1. m \in Seq(EntryType) /\ Len(m) = n /\ m[n] = e /\ \A k \in 1 .. Len(l) : m[k] = l[k]
  OBVIOUS
<1>2. Accepted(e.batch) \in Seq(Items) /\ v \in Seq(Items)
  BY AcceptedPart DEF EntryType
<1>3. Parts(m, i) = Append(Parts(l, i), v)
  <2>1. Parts(l, i) \in Seq(Seq(Items)) /\ Len(Parts(l, i)) = Len(l) /\ Len(l) \in Nat
    BY PartsType
  <2>2. Parts(m, i) \in Seq(Seq(Items)) /\ Len(Parts(m, i)) = n
    BY <1>1, PartsType
  <2>3. Append(Parts(l, i), v) \in Seq(Seq(Items)) /\ Len(Append(Parts(l, i), v)) = n
    BY <1>2, <2>1
  <2>4. ASSUME NEW k \in 1 .. n
        PROVE  Parts(m, i)[k] = Append(Parts(l, i), v)[k]
    <3>1. CASE k = n
      <4>1. Parts(m, i)[n] = v
        <5>1. n \in 1 .. Len(m) /\ ~(n < i)
          BY <1>1, <2>1
        <5> HIDE DEF n, m
        <5> QED  BY <1>1, <5>1 DEF Parts
      <4>2. Append(Parts(l, i), v)[n] = v
        BY <1>2, <2>1
      <4> QED  BY <3>1, <4>1, <4>2
    <3>2. CASE k # n
      <4>1. k \in 1 .. Len(l) /\ k \in 1 .. Len(m)
        BY <1>1, <2>1, <3>2
      <4>2. Append(Parts(l, i), v)[k] = Parts(l, i)[k]
        BY <1>2, <2>1, <4>1
      <4> HIDE DEF m
      <4>3. Parts(m, i)[k] = Parts(l, i)[k]
        BY <1>1, <4>1 DEF Parts
      <4> QED  BY <4>2, <4>3
    <3> QED  BY <3>1, <3>2
  <2> HIDE DEF m, n, v
  <2> QED  BY <2>2, <2>3, <2>4, SeqEqual
<1>4. WrittenOf(m, i) = WrittenOf(l, i) \o v
  BY <1>2, <1>3, PartsType, FlattenAppend DEF WrittenOf
<1>5. WrittenOf(l, i) \o <<>> = WrittenOf(l, i)
  BY WrittenType, ConcatEmptySeq
<1> QED  BY <1>4, <1>5

\* Nothing is written after the last call.
LEMMA WrittenNone ==
  ASSUME NEW l \in Seq(EntryType)
  PROVE  WrittenOf(l, Len(l) + 1) = <<>>
<1> DEFINE s == Parts(l, Len(l) + 1)
<1>1. s \in Seq(Seq(Items)) /\ Len(s) = Len(l) /\ Len(l) \in Nat
  BY PartsType
<1>2. \A k \in 1 .. Len(l) : s[k] = <<>>
  BY DEF Parts
<1> HIDE DEF s
<1>3. PICK f : Joins(f, s) /\ FlattenSeq(s) = f[Len(s)]
  BY <1>1, Flattened
<1> DEFINE T == {i \in 0 .. Len(s) : f[i] = <<>>}
<1>4. 0 \in T
  BY <1>1, <1>3 DEF Joins
<1>5. ASSUME NEW i \in 1 .. Len(s), i - 1 \in T
      PROVE  i \in T
  <2>1. f[i] = f[i - 1] \o s[i]
    BY <1>3, JoinsOne
  <2>2. f[i - 1] = <<>> /\ s[i] = <<>> /\ i \in 0 .. Len(s)
    BY <1>1, <1>2, <1>5
  <2>3. <<>> \o <<>> = <<>>
    OBVIOUS
  <2>4. f[i] = <<>>
    BY <2>1, <2>2, <2>3
  <2> QED  BY <2>2, <2>4
<1> HIDE DEF T
<1>6. Len(s) \in T
  BY <1>1, <1>4, <1>5, Stays
<1> QED  BY <1>3, <1>6 DEF T, WrittenOf, s

\* The values of items.
LEMMA ValuesType ==
  ASSUME NEW s \in Seq(Items)
  PROVE  ValuesOf(s) \in Seq(Seq(Int)) /\ Len(ValuesOf(s)) = Len(s)
<1>1. \A i \in 1 .. Len(s) : s[i].value \in Seq(Int)
  <2> TAKE i \in 1 .. Len(s)
  <2>1. s[i] \in Items
    BY ElementOfSeq
  <2>2. s[i].value \in Values
    BY <2>1 DEF Items
  <2> QED  BY <2>2, ChannelAssumption
<1> QED  BY <1>1 DEF ValuesOf

LEMMA ValuesConcat ==
  ASSUME NEW s \in Seq(Items), NEW t \in Seq(Items)
  PROVE  ValuesOf(s \o t) = ValuesOf(s) \o ValuesOf(t)
<1>1. s \o t \in Seq(Items) /\ Len(s \o t) = Len(s) + Len(t) /\ Len(s) \in Nat /\ Len(t) \in Nat
  OBVIOUS
<1>2. /\ ValuesOf(s) \in Seq(Seq(Int)) /\ Len(ValuesOf(s)) = Len(s)
      /\ ValuesOf(t) \in Seq(Seq(Int)) /\ Len(ValuesOf(t)) = Len(t)
  BY ValuesType
<1>3. ValuesOf(s \o t) \in Seq(Seq(Int)) /\ Len(ValuesOf(s \o t)) = Len(s) + Len(t)
  BY <1>1, ValuesType
<1>4. /\ ValuesOf(s) \o ValuesOf(t) \in Seq(Seq(Int))
      /\ Len(ValuesOf(s) \o ValuesOf(t)) = Len(s) + Len(t)
  <2>1. PICK a \in Seq(Seq(Int)), b \in Seq(Seq(Int)) : a = ValuesOf(s) /\ b = ValuesOf(t)
    BY <1>2
  <2>2. a \o b \in Seq(Seq(Int)) /\ Len(a \o b) = Len(a) + Len(b)
    OBVIOUS
  <2> QED  BY <1>2, <2>1, <2>2
<1>5. ASSUME NEW i \in 1 .. Len(s) + Len(t)
      PROVE  ValuesOf(s \o t)[i] = (ValuesOf(s) \o ValuesOf(t))[i]
  <2>1. ValuesOf(s \o t)[i] = (s \o t)[i].value
    BY <1>1 DEF ValuesOf
  <2>2. CASE i <= Len(s)
    <3>1. (s \o t)[i] = s[i] /\ (ValuesOf(s) \o ValuesOf(t))[i] = ValuesOf(s)[i]
      BY <1>1, <1>2, <2>2
    <3>2. ValuesOf(s)[i] = s[i].value
      BY <1>1, <2>2 DEF ValuesOf
    <3> QED  BY <2>1, <3>1, <3>2
  <2>3. CASE ~(i <= Len(s))
    <3>1. /\ (s \o t)[i] = t[i - Len(s)]
          /\ (ValuesOf(s) \o ValuesOf(t))[i] = ValuesOf(t)[i - Len(s)]
      BY <1>1, <1>2, <2>3
    <3>2. ValuesOf(t)[i - Len(s)] = t[i - Len(s)].value
      BY <1>1, <2>3 DEF ValuesOf
    <3> QED  BY <2>1, <3>1, <3>2
  <2> QED  BY <2>2, <2>3
<1> QED  BY <1>3, <1>4, <1>5, SeqEqual

\* All the values of items, joined.
JoinedValues(s) == FlattenSeq(ValuesOf(s))

LEMMA JoinedNothing == JoinedValues(<<>>) = <<>>
<1>1. ValuesOf(<<>>) = <<>>
  <2>1. <<>> \in Seq(Items) /\ Len(<<>>) = 0
    OBVIOUS
  <2>2. ValuesOf(<<>>) \in Seq(Seq(Int)) /\ Len(ValuesOf(<<>>)) = 0
    BY <2>1, ValuesType
  <2> QED  BY <2>2, EmptySeq
<1> QED  BY <1>1, FlattenNothing DEF JoinedValues

LEMMA JoinedConcat ==
  ASSUME NEW s \in Seq(Items), NEW t \in Seq(Items)
  PROVE  JoinedValues(s \o t) = JoinedValues(s) \o JoinedValues(t)
  BY ValuesConcat, ValuesType, FlattenConcat DEF JoinedValues
-----------------------------------------------------------------------------
(* Topic.                                                                  *)

TopicFrom(c, l) == IF c.option THEN 1 ELSE LogMax(AcceptsOf(l) \cup ConsumedOf(l))

TopicKept(c, l) == c.val = JoinedValues(WrittenOf(l, TopicFrom(c, l)))

LEMMA TopicPlaces ==
  ASSUME NEW c, NEW l \in Seq(EntryType)
  PROVE  /\ AcceptsOf(l) \cup ConsumedOf(l) \in SUBSET (1 .. Len(l)) /\ Len(l) \in Nat
         /\ TopicFrom(c, l) \in 0 .. Len(l) + 1
<1>1. AcceptsOf(l) \cup ConsumedOf(l) \in SUBSET (1 .. Len(l)) /\ Len(l) \in Nat
  BY CallsWithin
<1>2. LogMax(AcceptsOf(l) \cup ConsumedOf(l)) \in 0 .. Len(l)
  BY <1>1, LogMaxOf
<1> QED  BY <1>1, <1>2 DEF TopicFrom

\* A call that writes nothing and is not among those that a topic is told from.
LEMMA TopicByOthers ==
  ASSUME NEW c, NEW l \in Seq(EntryType), TopicKept(c, l), NEW e \in EntryType,
         e.op = "finish" \/ (e.op = "consume" /\ ~e.changed)
  PROVE  TopicKept(c, Append(l, e))
<1> DEFINE m == Append(l, e)
<1>1. AcceptsOf(m) = AcceptsOf(l) /\ ConsumedOf(m) = ConsumedOf(l)
  BY OneMoreCall
<1>2. WrittenOf(m, TopicFrom(c, l)) = WrittenOf(l, TopicFrom(c, l))
  BY TopicPlaces, WrittenMore
<1> QED  BY <1>1, <1>2 DEF TopicKept, TopicFrom

LEMMA UpdateTopicKept ==
  ASSUME NEW c, ChannelOK(c), c.class = "Topic", NEW l \in Seq(EntryType),
         TopicKept(c, l), NEW batch \in Seq(Items), Overwrites(batch) = {}, NEW r, NEW e, NEW m,
         Updated(c, batch, l, r, e, m)
  PROVE  TopicKept(r.ch, m)
<1>1. /\ e \in EntryType /\ m = Append(l, e) /\ e.op = "update" /\ e.batch = batch /\ e.ok = r.ok
      /\ r = UpdateTopic(c, batch)
  BY DEF Updated, Entry, UpdateOf, Barriers
<1>2. r.ch = [c EXCEPT !.val = (IF c.option THEN c.val ELSE <<>>) \o JoinedValues(batch)] /\ r.ok
  BY <1>1 DEF UpdateTopic, Result, JoinedValues
<1>3. r.ch.val = (IF c.option THEN c.val ELSE <<>>) \o JoinedValues(batch) /\ r.ch.option = c.option
  BY <1>2 DEF ChannelOK
<1>4. Accepted(batch) = batch
  BY AcceptedPart
<1>5. AcceptsOf(m) \cup ConsumedOf(m) = (AcceptsOf(l) \cup ConsumedOf(l)) \cup {Len(l) + 1}
  <2>1. e.ok
    BY <1>1, <1>2
  <2>2. AcceptsOf(m) = AcceptsOf(l) \cup {Len(l) + 1} /\ ConsumedOf(m) = ConsumedOf(l)
    BY <1>1, <2>1, OneMoreCall
  <2> QED  BY <2>2
<1>6. ASSUME NEW i \in 0 .. Len(l) + 1
      PROVE  JoinedValues(WrittenOf(m, i)) = JoinedValues(WrittenOf(l, i)) \o JoinedValues(batch)
  <2>1. WrittenOf(m, i) = WrittenOf(l, i) \o batch
    BY <1>1, <1>4, WrittenMore
  <2> QED  BY <2>1, WrittenType, JoinedConcat
<1>7. CASE c.option
  <2>1. TopicFrom(c, l) = 1 /\ TopicFrom(r.ch, m) = 1 /\ 1 \in 0 .. Len(l) + 1
    BY <1>3, <1>7, TopicPlaces DEF TopicFrom
  <2> QED  BY <1>3, <1>6, <1>7, <2>1 DEF TopicKept
<1>8. CASE ~c.option
  <2>1. TopicFrom(r.ch, m) = Len(l) + 1
    BY <1>3, <1>5, <1>8, TopicPlaces, LogMaxNew DEF TopicFrom
  <2>2. JoinedValues(WrittenOf(l, Len(l) + 1)) = <<>> /\ Len(l) + 1 \in 0 .. Len(l) + 1
    BY WrittenNone, JoinedNothing, TopicPlaces
  <2>3. r.ch.val = <<>> \o JoinedValues(batch)
    BY <1>3, <1>8
  <2> QED  BY <1>6, <2>1, <2>2, <2>3 DEF TopicKept
<1> QED  BY <1>7, <1>8

LEMMA ConsumeTopicKept ==
  ASSUME NEW c, c.class = "Topic", NEW l \in Seq(EntryType), TopicKept(c, l),
         NEW r, r = ConsumeOf(c), NEW e \in EntryType, e.op = "consume",
         e.changed = r.changed, NEW m, m = Append(l, e)
  PROVE  TopicKept(r.ch, m)
<1>1. CASE Consumable(c)
  <2>1. r.changed /\ r.ch = Clear(c) /\ ~c.option
    BY <1>1 DEF ConsumeOf, Result, Consumable
  <2>2. Clear(c).val = <<>> /\ Clear(c).option = c.option
    BY DEF Clear, New, Barriers
  <2>3. AcceptsOf(m) \cup ConsumedOf(m) = (AcceptsOf(l) \cup ConsumedOf(l)) \cup {Len(l) + 1}
    BY <2>1, OneMoreCall
  <2>4. TopicFrom(r.ch, m) = Len(l) + 1
    BY <2>1, <2>2, <2>3, TopicPlaces, LogMaxNew DEF TopicFrom
  <2>5. WrittenOf(m, Len(l) + 1) = WrittenOf(l, Len(l) + 1)
    <3>1. Len(l) + 1 \in 0 .. Len(l) + 1
      BY TopicPlaces
    <3> QED  BY <3>1, WrittenMore
  <2> QED  BY <2>1, <2>2, <2>4, <2>5, WrittenNone, JoinedNothing DEF TopicKept
<1>2. CASE ~Consumable(c)
  <2>1. ~r.changed /\ r.ch = c
    BY <1>2 DEF ConsumeOf, Same, Result
  <2> QED  BY <2>1, TopicByOthers
<1> QED  BY <1>1, <1>2
-----------------------------------------------------------------------------
(* BinaryOperatorAggregate.                                                *)

IsFold(iter, c, items) ==
  iter = [s \in SUBSET DOMAIN items |->
            IF s = {} THEN c ELSE Reduce(iter[s \ {Max(s)}], items[Max(s)])]

ReduceAll(c, items) == FoldLeft(Reduce, c, items)

LEMMA FoldUnfolded ==
  ASSUME NEW c, NEW items
  PROVE  ReduceAll(c, items) = (CHOOSE iter : IsFold(iter, c, items))[DOMAIN items]
BY DEF ReduceAll, FoldLeft, MapThenFoldSet, IsFold

LEMMA MaxOfLast ==
  ASSUME NEW n \in Nat, NEW s \in SUBSET (1 .. n), n \in s
  PROVE  Max(s) = n
<1>1. \A y \in s : n >= y
  OBVIOUS
<1>2. \A x \in s : (\A y \in s : x >= y) => x = n
  OBVIOUS
<1> QED  BY <1>1, <1>2 DEF Max

\* The recursion of a fold over the subsets of 1 .. n has a solution.
FoldOver(g, n, c, items) ==
  g = [s \in SUBSET (1 .. n) |->
         IF s = {} THEN c ELSE Reduce(g[s \ {Max(s)}], items[Max(s)])]

LEMMA FoldExists ==
  ASSUME NEW N \in Nat, NEW c, NEW items
  PROVE  \E g : FoldOver(g, N, c, items)
<1> DEFINE Good == {n \in 0 .. N : \E g : FoldOver(g, n, c, items)}
<1>1. 0 \in Good
  <2> DEFINE g == [s \in SUBSET (1 .. 0) |-> c]
  <2>1. \A s \in SUBSET (1 .. 0) : s = {}
    OBVIOUS
  <2>2. g = [s \in SUBSET (1 .. 0) |->
               IF s = {} THEN c ELSE Reduce(g[s \ {Max(s)}], items[Max(s)])]
    BY <2>1
  <2>3. FoldOver(g, 0, c, items)
    BY <2>2 DEF FoldOver
  <2> HIDE DEF g
  <2> QED  BY <2>3
<1>2. ASSUME NEW n \in 1 .. N, n - 1 \in Good
      PROVE  n \in Good
  <2>1. PICK g : FoldOver(g, n - 1, c, items)
    BY <1>2
  <2> DEFINE h == [s \in SUBSET (1 .. n) |->
                     IF n \in s THEN Reduce(g[s \ {n}], items[n]) ELSE g[s]]
  <2>2. ASSUME NEW s \in SUBSET (1 .. n)
        PROVE  h[s] = IF s = {} THEN c ELSE Reduce(h[s \ {Max(s)}], items[Max(s)])
    <3>1. CASE n \in s
      <4>1. Max(s) = n
        BY <3>1, MaxOfLast
      <4>2. s \ {n} \in SUBSET (1 .. n) /\ n \notin s \ {n}
        OBVIOUS
      <4>3. h[s \ {n}] = g[s \ {n}]
        BY <4>2
      <4>4. h[s] = Reduce(g[s \ {n}], items[n])
        BY <3>1
      <4> HIDE DEF h
      <4> QED  BY <3>1, <4>1, <4>3, <4>4
    <3>2. CASE n \notin s
      <4> DEFINE rest == s \ {Max(s)}
      <4>1. s \in SUBSET (1 .. (n - 1)) /\ rest \in SUBSET (1 .. n) /\ n \notin rest
        <5>1. \A j \in s : j \in 1 .. (n - 1)
          BY <3>2
        <5>2. rest \subseteq s
          OBVIOUS
        <5> QED  BY <3>2, <5>1, <5>2
      <4>2. h[rest] = g[rest] /\ h[s] = g[s]
        BY <3>2, <4>1
      <4>3. g[s] = IF s = {} THEN c ELSE Reduce(g[rest], items[Max(s)])
        BY <2>1, <4>1 DEF FoldOver
      <4> HIDE DEF h
      <4> QED  BY <4>2, <4>3
    <3> QED  BY <3>1, <3>2
  <2>3. h = [s \in SUBSET (1 .. n) |->
               IF s = {} THEN c ELSE Reduce(h[s \ {Max(s)}], items[Max(s)])]
    BY <2>2
  <2>4. FoldOver(h, n, c, items)
    BY <2>3 DEF FoldOver
  <2> HIDE DEF h
  <2> QED  BY <2>4
<1> HIDE DEF Good
<1>3. N \in Good
  BY <1>1, <1>2, Stays
<1> QED  BY <1>3 DEF Good

\* FoldLeft applies the operator to the items from the first to the last.
LEMMA FoldSteps ==
  ASSUME NEW c, NEW items \in Seq(Items)
  PROVE  \E f : /\ f[0] = c /\ f[Len(items)] = ReduceAll(c, items)
                /\ \A i \in 1 .. Len(items) : f[i] = Reduce(f[i - 1], items[i])
<1> DEFINE N == Len(items)
           iter == CHOOSE g : FoldOver(g, N, c, items)
           f == [i \in 0 .. N |-> iter[1 .. i]]
<1>1. N \in Nat /\ DOMAIN items = 1 .. N
  OBVIOUS
<1>2. FoldOver(iter, N, c, items)
  <2> HIDE DEF N
  <2> QED  BY <1>1, FoldExists
<1>3. ReduceAll(c, items) = iter[1 .. N]
  BY <1>1, FoldUnfolded DEF IsFold, FoldOver
<1> HIDE DEF iter
<1>4. \A s \in SUBSET (1 .. N) :
        iter[s] = IF s = {} THEN c ELSE Reduce(iter[s \ {Max(s)}], items[Max(s)])
  BY <1>2 DEF FoldOver
<1>5. f[0] = c /\ f[N] = iter[1 .. N]
  <2>1. 1 .. 0 = {} /\ {} \in SUBSET (1 .. N) /\ 0 \in 0 .. N /\ N \in 0 .. N
    BY <1>1
  <2> QED  BY <1>4, <2>1
<1>6. ASSUME NEW i \in 1 .. N PROVE f[i] = Reduce(f[i - 1], items[i])
  <2>1. 1 .. i \in SUBSET (1 .. N) /\ 1 .. i # {} /\ (1 .. i) \ {i} = 1 .. (i - 1)
    <3>1. \A j \in 1 .. i : j \in 1 .. N
      BY <1>1
    <3>2. i \in 1 .. i
      BY <1>1
    <3>3. \A j : j \in (1 .. i) \ {i} <=> j \in 1 .. (i - 1)
      BY <1>1
    <3> QED  BY <3>1, <3>2, <3>3
  <2>2. Max(1 .. i) = i
    BY MaxOfLast
  <2>3. iter[1 .. i] = Reduce(iter[1 .. (i - 1)], items[i])
    BY <1>4, <2>1, <2>2
  <2>4. i \in 0 .. N /\ i - 1 \in 0 .. N
    BY <1>1
  <2>5. f[i] = iter[1 .. i] /\ f[i - 1] = iter[1 .. (i - 1)]
    BY <2>4
  <2> HIDE DEF f
  <2> QED  BY <2>3, <2>5
<1> HIDE DEF f
<1> QED  BY <1>3, <1>5, <1>6

LEMMA OneItem ==
  ASSUME NEW V, NEW t \in Seq(V), NEW k \in 1 .. Len(t)
  PROVE  SubSeq(t, k, k) = <<t[k]>>
<1>1. k \in Int /\ Len(t) \in Nat /\ t[k] \in V /\ k - k + 1 = 1 /\ k + 1 - 1 = k
  OBVIOUS
<1>2. \A i \in k .. k : t[i] \in V
  BY <1>1
<1>3. /\ SubSeq(t, k, k) \in Seq(V) /\ Len(SubSeq(t, k, k)) = 1
      /\ \A i \in 1 .. 1 : SubSeq(t, k, k)[i] = t[k + i - 1]
  BY <1>1, <1>2, SubSeqProperties
<1>4. SubSeq(t, k, k)[1] = t[k]
  BY <1>1, <1>3
<1>5. PICK a \in Seq(V), b \in Seq(V) : a = SubSeq(t, k, k) /\ b = <<t[k]>>
  <2>1. \A x \in V : <<x>> \in Seq(V)
    OBVIOUS
  <2>2. <<t[k]>> \in Seq(V)
    BY <1>1, <2>1
  <2>3. SubSeq(t, k, k) \in Seq(V)
    BY <1>3
  <2> QED  BY <2>2, <2>3, Zenon
<1>6. Len(b) = 1 /\ b[1] = t[k] /\ Len(a) = 1 /\ a[1] = t[k]
  BY <1>1, <1>3, <1>4, <1>5
<1>7. \A i \in 1 .. Len(a) : a[i] = b[i]
  BY <1>6
<1>8. a = b
  BY <1>6, <1>7, SeqEqual
<1> QED  BY <1>5, <1>8

LEMMA FromOverwriteNothing == FromOverwrite(<<>>) = <<>>
<1>1. Overwrites(<<>>) = {}
  BY DEF Overwrites
<1> QED  BY <1>1 DEF FromOverwrite

\* One more item follows those since the latest Overwrite, or is a new one.
LEMMA FromOverwriteMore ==
  ASSUME NEW s \in Seq(Items), NEW x \in Items
  PROVE  /\ FromOverwrite(s) \in Seq(Items)
         /\ FromOverwrite(Append(s, x)) =
              IF x.overwrite THEN <<x>> ELSE Append(FromOverwrite(s), x)
<1> DEFINE O == Overwrites(s)
           n == Len(s)
           t == Append(s, x)
<1>1. /\ n \in Nat /\ O \in SUBSET (1 .. n) /\ t \in Seq(Items) /\ Len(t) = n + 1
      /\ t[n + 1] = x /\ DOMAIN t = 1 .. (n + 1) /\ \A i \in 1 .. n : t[i] = s[i]
  BY DEF Overwrites
<1>2. Overwrites(t) = IF x.overwrite THEN O \cup {n + 1} ELSE O
  <2>1. \A i : i \in 1 .. (n + 1) <=> i \in 1 .. n \/ i = n + 1
    BY <1>1
  <2>2. DOMAIN s = 1 .. n
    OBVIOUS
  <2> HIDE DEF t, n
  <2> QED  BY <1>1, <2>1, <2>2 DEF Overwrites
<1>3. FromOverwrite(s) \in Seq(Items)
  <2>1. CASE O = {}
    BY <2>1 DEF FromOverwrite
  <2>2. CASE O # {}
    <3>1. LogMax(O) \in 1 .. n
      BY <1>1, <2>2, LogMaxOf
    <3>2. SubSeq(s, LogMax(O), n) \in Seq(Items)
      BY <1>1, <3>1
    <3> QED  BY <2>2, <3>2 DEF FromOverwrite
  <2> QED  BY <2>1, <2>2
<1>4. CASE x.overwrite
  <2>1. LogMax(Overwrites(t)) = n + 1 /\ Overwrites(t) # {}
    BY <1>1, <1>2, <1>4, LogMaxNew
  <2>2. FromOverwrite(t) = SubSeq(t, n + 1, n + 1)
    BY <1>1, <2>1 DEF FromOverwrite
  <2>3. SubSeq(t, n + 1, n + 1) = <<x>>
    <3> HIDE DEF t
    <3>1. PICK k \in 1 .. Len(t) : k = n + 1
      BY <1>1
    <3>2. SubSeq(t, k, k) = <<t[k]>>
      BY <1>1, OneItem
    <3> QED  BY <1>1, <3>1, <3>2
  <2> QED  BY <1>3, <1>4, <2>2, <2>3
<1>5. CASE ~x.overwrite /\ O = {}
  <2>1. Overwrites(t) = {}
    BY <1>2, <1>5
  <2> QED  BY <1>3, <1>5, <2>1 DEF FromOverwrite
<1>6. CASE ~x.overwrite /\ O # {}
  <2> DEFINE k == LogMax(O)
  <2>1. k \in 1 .. n
    BY <1>1, <1>6, LogMaxOf
  <2>2. FromOverwrite(t) = SubSeq(t, k, n + 1) /\ FromOverwrite(s) = SubSeq(s, k, n)
    BY <1>1, <1>2, <1>6 DEF FromOverwrite
  <2> HIDE DEF k
  <2>3. SubSeq(t, k, n + 1) = SubSeq(t, k, n) \o <<t[n + 1]>>
    <3>1. k \in 1 .. Len(t) /\ n + 1 \in k .. Len(t) /\ (n + 1) - 1 = n
      BY <1>1, <2>1
    <3>2. SubSeq(t, k, n + 1) = SubSeq(t, k, (n + 1) - 1) \o <<t[n + 1]>>
      <4> HIDE DEF t, n
      <4> QED  BY <1>1, <3>1, SubSeqRecursiveSecond
    <3> QED  BY <3>1, <3>2
  <2>4. SubSeq(t, k, n) = SubSeq(s, k, n)
    BY <1>1, <2>1
  <2>5. SubSeq(s, k, n) \in Seq(Items)
    BY <1>1, <2>1
  <2>6. SubSeq(s, k, n) \o <<x>> = Append(SubSeq(s, k, n), x)
    BY <2>5
  <2>7. FromOverwrite(t) = Append(FromOverwrite(s), x)
    <3> HIDE DEF t, n
    <3> QED  BY <1>1, <2>2, <2>3, <2>4, <2>6
  <2> QED  BY <1>3, <1>6, <2>7
<1> QED  BY <1>4, <1>5, <1>6 DEF Items

LEMMA ValuesAppend ==
  ASSUME NEW s \in Seq(Items), NEW x \in Items
  PROVE  JoinedValues(Append(s, x)) = JoinedValues(s) \o x.value /\ x.value \in Seq(Int)
<1>1. x.value \in Seq(Int)
  <2>1. x.value \in Values
    BY DEF Items
  <2> QED  BY <2>1, ChannelAssumption
<1> DEFINE t == Append(s, x)
<1>2. t \in Seq(Items) /\ Len(t) = Len(s) + 1 /\ Len(s) \in Nat
      /\ t[Len(s) + 1] = x /\ \A i \in 1 .. Len(s) : t[i] = s[i]
  OBVIOUS
<1> HIDE DEF t
<1>3. ValuesOf(t) = Append(ValuesOf(s), x.value)
  <2>1. PICK a \in Seq(Seq(Int)), b \in Seq(Seq(Int)) :
          a = ValuesOf(t) /\ b = ValuesOf(s) /\ Len(a) = Len(s) + 1 /\ Len(b) = Len(s)
    BY <1>2, ValuesType
  <2>2. a[Len(s) + 1] = x.value /\ \A i \in 1 .. Len(s) : a[i] = b[i]
    BY <1>2, <2>1 DEF ValuesOf
  <2>3. PICK d \in Seq(Seq(Int)) : d = Append(b, x.value)
    <3>1. Append(b, x.value) \in Seq(Seq(Int))
      BY <1>1
    <3> QED  BY <3>1, Zenon
  <2>4. Len(d) = Len(s) + 1 /\ d[Len(s) + 1] = x.value /\ \A i \in 1 .. Len(s) : d[i] = b[i]
    BY <1>1, <1>2, <2>1, <2>3
  <2>5. \A i \in 1 .. Len(d) : d[i] = a[i]
    <3>1. \A i \in 1 .. Len(d) : i = Len(s) + 1 \/ i \in 1 .. Len(s)
      BY <1>2, <2>4
    <3> QED  BY <2>2, <2>4, <3>1
  <2>6. d = a
    BY <2>1, <2>4, <2>5, SeqEqual
  <2> QED  BY <2>1, <2>3, <2>6
<1>4. FlattenSeq(Append(ValuesOf(s), x.value)) = FlattenSeq(ValuesOf(s)) \o x.value
  BY <1>1, ValuesType, FlattenAppend
<1> QED  BY <1>1, <1>3, <1>4 DEF JoinedValues, t

LEMMA OneValueJoined ==
  ASSUME NEW x \in Items
  PROVE  JoinedValues(<<x>>) = x.value
<1>1. <<x>> = Append(<<>>, x) /\ <<>> \in Seq(Items)
  OBVIOUS
<1>2. JoinedValues(<<x>>) = JoinedValues(<<>>) \o x.value /\ x.value \in Seq(Int)
  BY <1>1, ValuesAppend
<1> QED  BY <1>2, JoinedNothing, ConcatEmptySeq

\* What a reducer holds for the items w.
Folded(w) == JoinedValues(FromOverwrite(w))

\* One item more.
LEMMA ReduceOne ==
  ASSUME NEW c, ChannelOK(c), c.class = "BinaryOperatorAggregate", NEW w \in Seq(Items),
         c.val = Folded(w), NEW x \in Items
  PROVE  LET d == Reduce(c, x)
         IN ChannelOK(d) /\ d.class = c.class /\ d.val = Folded(Append(w, x))
<1> DEFINE v == IF x.overwrite \/ ~c.has THEN x.value ELSE c.val \o x.value
           d == Reduce(c, x)
<1>1. d = [c EXCEPT !.has = TRUE, !.val = v]
  BY DEF Reduce, Set
<1>2. ChannelOK(d)
  <2> HIDE DEF v, d
  <2> QED  BY <1>1, SetOK DEF WithoutValue, Barriers
<1>3. d.val = v /\ d.class = c.class
  BY <1>1 DEF ChannelOK
<1>4. v = Folded(Append(w, x))
  <2>1. CASE x.overwrite
    BY <2>1, FromOverwriteMore, OneValueJoined DEF Folded
  <2>2. CASE ~x.overwrite
    <3>1. Folded(Append(w, x)) = Folded(w) \o x.value /\ x.value \in Seq(Int)
      BY <2>2, FromOverwriteMore, ValuesAppend DEF Folded
    <3>2. ~c.has => c.val = <<>>
      BY DEF ChannelOK, WithoutValue, Barriers
    <3>3. v = c.val \o x.value
      <4>1. CASE c.has
        BY <2>2, <4>1
      <4>2. CASE ~c.has
        <5>1. <<>> \o x.value = x.value
          BY <3>1, ConcatEmptySeq
        <5> QED  BY <3>2, <4>2, <5>1
      <4> QED  BY <4>1, <4>2
    <3> QED  BY <3>1, <3>3
  <2> QED  BY <2>1, <2>2
<1> QED  BY <1>2, <1>3, <1>4

LEMMA FoldedAll ==
  ASSUME NEW c, ChannelOK(c), c.class = "BinaryOperatorAggregate", NEW w \in Seq(Items),
         c.val = Folded(w), NEW items \in Seq(Items)
  PROVE  ReduceAll(c, items).val = Folded(w \o items)
<1>1. PICK f : /\ f[0] = c /\ f[Len(items)] = ReduceAll(c, items)
               /\ \A i \in 1 .. Len(items) : f[i] = Reduce(f[i - 1], items[i])
  BY FoldSteps
<1> DEFINE first(i) == SubSeq(items, 1, i)
           Is(d, u) == ChannelOK(d) /\ d.class = c.class /\ d.val = Folded(u)
           T == {i \in 0 .. Len(items) : Is(f[i], w \o first(i))}
<1>2. 0 \in T
  <2>1. first(0) = <<>> /\ w \o <<>> = w /\ 0 \in 0 .. Len(items)
    BY ConcatEmptySeq, SubSeqEmpty
  <2> QED  BY <1>1, <2>1
<1>3. ASSUME NEW i \in 1 .. Len(items), i - 1 \in T
      PROVE  i \in T
  <2> DEFINE u == first(i - 1)
  <2>1. u \in Seq(Items) /\ items[i] \in Items /\ Len(items) \in Nat
    OBVIOUS
  <2>2. first(i) = Append(u, items[i])
    OBVIOUS
  <2>3. w \o Append(u, items[i]) = Append(w \o u, items[i]) /\ w \o u \in Seq(Items)
    <3> HIDE DEF u
    <3> QED  BY <2>1
  <2>4. Is(f[i - 1], w \o u)
    BY <1>3
  <2>5. f[i] = Reduce(f[i - 1], items[i]) /\ i \in 0 .. Len(items)
    BY <1>1
  <2> HIDE DEF u, first
  <2>6. Is(Reduce(f[i - 1], items[i]), Append(w \o u, items[i]))
    BY <2>1, <2>3, <2>4, ReduceOne
  <2> HIDE DEF Is
  <2> QED  BY <2>2, <2>3, <2>5, <2>6
<1>4. Len(items) \in T
  <2>1. Len(items) \in Nat
    OBVIOUS
  <2> HIDE DEF T
  <2> QED  BY <1>2, <1>3, <2>1, Stays
<1>5. first(Len(items)) = items
  BY SubSeqFull
<1> HIDE DEF first
<1> QED  BY <1>1, <1>4, <1>5

Reduced(c, l) ==
  /\ c.has = (c.option \/ WrittenOf(l, 1) # <<>>)
  /\ c.val = Folded(WrittenOf(l, 1))

LEMMA UpdateReduced ==
  ASSUME NEW c, ChannelOK(c), c.class = "BinaryOperatorAggregate", NEW l \in Seq(EntryType),
         Reduced(c, l), NEW batch \in Seq(Items), NEW r, NEW e, NEW m,
         Updated(c, batch, l, r, e, m)
  PROVE  Reduced(r.ch, m)
<1>1. /\ e \in EntryType /\ m = Append(l, e) /\ e.op = "update" /\ e.batch = batch
      /\ r = UpdateBinop(c, batch)
  BY DEF Updated, Entry, UpdateOf, Barriers
<1>2. WrittenOf(m, 1) = WrittenOf(l, 1) \o Accepted(batch)
  <2>1. 1 \in 0 .. Len(l) + 1
    BY CallsWithin
  <2> QED  BY <1>1, <2>1, WrittenMore
<1>3. WrittenOf(l, 1) \in Seq(Items) /\ Accepted(batch) \in Seq(Items)
  BY WrittenType, AcceptedPart
<1>4. CASE batch = <<>>
  <2>1. r.ch = c
    BY <1>1, <1>4 DEF UpdateBinop, Same, Result
  <2>2. Overwrites(batch) = {}
    BY <1>4 DEF Overwrites
  <2>3. Accepted(batch) = <<>>
    BY <1>4, <2>2, AcceptedPart
  <2>4. WrittenOf(m, 1) = WrittenOf(l, 1)
    BY <1>2, <1>3, <2>3, ConcatEmptySeq
  <2> QED  BY <2>1, <2>4 DEF Reduced
<1>5. CASE batch # <<>>
  <2>1. r.ch = [c EXCEPT !.has = TRUE, !.val = ReduceAll(c, Accepted(batch)).val]
    BY <1>1, <1>5 DEF UpdateBinop, Result, ReduceAll
  <2>2. ReduceAll(c, Accepted(batch)).val = Folded(WrittenOf(m, 1))
    BY <1>2, <1>3, FoldedAll DEF Reduced
  <2>3. WrittenOf(m, 1) # <<>>
    BY <1>2, <1>3, <1>5, AcceptedPart, ConcatEqualIffEmpty
  <2>4. r.ch.has = TRUE /\ r.ch.val = Folded(WrittenOf(m, 1))
    BY <2>1, <2>2 DEF ChannelOK
  <2> QED  BY <2>3, <2>4 DEF Reduced
<1> QED  BY <1>4, <1>5

LEMMA OthersReduced ==
  ASSUME NEW c, c.class = "BinaryOperatorAggregate", NEW l \in Seq(EntryType), Reduced(c, l),
         NEW e \in EntryType, NEW m, m = Append(l, e), e.op # "update"
  PROVE  ConsumeOf(c).ch = c /\ FinishOf(c).ch = c /\ Reduced(c, m)
<1>1. ConsumeOf(c).ch = c /\ FinishOf(c).ch = c
  BY DEF ConsumeOf, FinishOf, Consumable, Finishable, Same, Result, Barriers
<1>2. WrittenOf(m, 1) = WrittenOf(l, 1)
  <2>1. 1 \in 0 .. Len(l) + 1
    BY CallsWithin
  <2> QED  BY <2>1, WrittenMore
<1> QED  BY <1>1, <1>2 DEF Reduced
-----------------------------------------------------------------------------
(* All classes.                                                            *)

\* What a channel holds, told from its calls.
Held(c, l) ==
  /\ c.class \in OneValue => KeptLast(c, l)
  /\ c.class = "LastValueAfterFinish" => KeptTillRead(c, l)
  /\ c.class \in Barriers => BarrierKept(c, l)
  /\ c.class = "Topic" => TopicKept(c, l)
  /\ c.class = "BinaryOperatorAggregate" => Reduced(c, l)

HeldInv == ChannelOK(ch) /\ log \in Seq(EntryType) /\ Held(ch, log)

LEMMA ResultParts ==
  ASSUME NEW d, NEW ok \in BOOLEAN, NEW changed \in BOOLEAN
  PROVE  LET r == Result(d, ok, changed)
         IN r.ch = d /\ r.ok \in BOOLEAN /\ r.changed \in BOOLEAN
  BY DEF Result

\* A call of update leaves the class, and tells whether it raised and changed anything.
LEMMA UpdateResult ==
  ASSUME NEW c, ChannelOK(c), NEW batch \in Seq(Items)
  PROVE  LET r == UpdateOf(c, batch)
         IN r.ch.class = c.class /\ r.ok \in BOOLEAN /\ r.changed \in BOOLEAN
<1>1. CASE c.class \in {"LastValue", "LastValueAfterFinish"}
  BY <1>1 DEF UpdateOf, UpdateLast, Same, Result, Set, ChannelOK, Barriers
<1>2. CASE c.class = "AnyValue"
  BY <1>2 DEF UpdateOf, UpdateAny, Same, Result, Set, ChannelOK, Barriers
<1>3. CASE c.class = "EphemeralValue"
  BY <1>3 DEF UpdateOf, UpdateEphemeral, Result, Set, ChannelOK, Barriers, Clear, New
<1>4. CASE c.class = "BinaryOperatorAggregate"
  <2>1. UpdateOf(c, batch) = UpdateBinop(c, batch)
    BY <1>4 DEF UpdateOf, Barriers
  <2>2. CASE batch = <<>>
    BY <2>1, <2>2 DEF UpdateBinop, Same, Result
  <2>3. CASE batch # <<>>
    <3> DEFINE d == [c EXCEPT !.has = TRUE, !.val = ReduceAll(c, Accepted(batch)).val]
               ok == Accepted(batch) = batch
               changed == TRUE
    <3>1. UpdateBinop(c, batch) = Result(d, ok, changed)
      BY <2>3 DEF UpdateBinop, ReduceAll
    <3>2. d.class = c.class
      BY DEF ChannelOK
    <3>3. ok \in BOOLEAN /\ changed \in BOOLEAN
      OBVIOUS
    <3> HIDE DEF d, ok, changed
    <3> QED  BY <2>1, <3>1, <3>2, <3>3, ResultParts
  <2> QED  BY <2>2, <2>3
<1>5. CASE c.class = "Topic"
  <2>1. UpdateOf(c, batch) = UpdateTopic(c, batch)
    BY <1>5 DEF UpdateOf, Barriers
  <2> QED  BY <2>1 DEF UpdateTopic, Result, ChannelOK
<1>6. CASE c.class \in Barriers
  <2>1. UpdateOf(c, batch) = UpdateBarrier(c, batch)
    BY <1>6 DEF UpdateOf, Barriers
  <2>2. CASE batch = <<>>
    BY <2>1, <2>2 DEF UpdateBarrier, Same, Result
  <2>3. CASE batch # <<>>
    <3> DEFINE d == [c EXCEPT !.val = @ \cup KnownNames(batch), !.finished = FALSE]
               changed == ~(KnownNames(batch) \subseteq c.val)
    <3>1. UpdateBarrier(c, batch) = Result(d, AllKnown(batch), changed)
      BY <2>3 DEF UpdateBarrier
    <3>2. d.class = c.class
      BY DEF ChannelOK
    <3>3. AllKnown(batch) \in BOOLEAN /\ changed \in BOOLEAN
      BY DEF AllKnown
    <3> HIDE DEF d, changed
    <3> QED  BY <2>1, <3>1, <3>2, <3>3, ResultParts
  <2> QED  BY <2>2, <2>3
<1> QED
  BY <1>1, <1>2, <1>3, <1>4, <1>5, <1>6 DEF ChannelOK, Classes, Barriers

LEMMA ConsumeResult ==
  ASSUME NEW c, ChannelOK(c), NEW r, r = ConsumeOf(c)
  PROVE  r.ch.class = c.class /\ r.ok = TRUE /\ r.changed \in BOOLEAN
  BY DEF ConsumeOf, Clear, New, Same, Result, ChannelOK

LEMMA FinishResult ==
  ASSUME NEW c, ChannelOK(c), NEW r, r = FinishOf(c)
  PROVE  r.ch.class = c.class /\ r.ok = TRUE /\ r.changed \in BOOLEAN
  BY DEF FinishOf, Same, Result, ChannelOK

LEMMA UpdateHeld ==
  ASSUME NEW c, ChannelOK(c), NEW l \in Seq(EntryType), Held(c, l), NEW batch \in Seq(Items),
         c.class # "BinaryOperatorAggregate" => Overwrites(batch) = {},
         NEW r, NEW e, NEW m, Updated(c, batch, l, r, e, m)
  PROVE  Held(r.ch, m)
<1>1. r.ch.class = c.class
  BY UpdateResult DEF Updated
<1>2. c.class \in OneValue => KeptLast(r.ch, m)
  BY UpdateKeepsLast DEF Held
<1>3. c.class = "LastValueAfterFinish" => KeptTillRead(r.ch, m)
  BY UpdateTillRead DEF Held
<1>4. c.class \in Barriers => BarrierKept(r.ch, m)
  BY UpdateBarrierKept DEF Held
<1>5. c.class = "Topic" => TopicKept(r.ch, m)
  BY UpdateTopicKept DEF Held
<1>6. c.class = "BinaryOperatorAggregate" => Reduced(r.ch, m)
  BY UpdateReduced DEF Held
<1> QED  BY <1>1, <1>2, <1>3, <1>4, <1>5, <1>6 DEF Held

LEMMA ConsumeHeld ==
  ASSUME NEW c, ChannelOK(c), NEW l \in Seq(EntryType), Held(c, l), NEW r, r = ConsumeOf(c),
         NEW e \in EntryType, e.op = "consume", e.changed = r.changed, NEW m, m = Append(l, e)
  PROVE  Held(r.ch, m)
<1>1. r.ch.class = c.class
  BY ConsumeResult
<1>2. c.class \in OneValue => KeptLast(r.ch, m)
  BY OthersKeepLast DEF Held
<1>3. c.class = "LastValueAfterFinish" => KeptTillRead(r.ch, m)
  BY ConsumeTillRead DEF Held
<1>4. c.class \in Barriers => BarrierKept(r.ch, m)
  BY ConsumeBarrierKept DEF Held
<1>5. c.class = "Topic" => TopicKept(r.ch, m)
  BY ConsumeTopicKept DEF Held
<1>6. c.class = "BinaryOperatorAggregate" => Reduced(r.ch, m)
  BY OthersReduced DEF Held
<1> QED  BY <1>1, <1>2, <1>3, <1>4, <1>5, <1>6 DEF Held

LEMMA FinishHeld ==
  ASSUME NEW c, ChannelOK(c), NEW l \in Seq(EntryType), Held(c, l), NEW r, r = FinishOf(c),
         NEW e \in EntryType, e.op = "finish", NEW m, m = Append(l, e)
  PROVE  Held(r.ch, m)
<1>1. r.ch.class = c.class
  BY FinishResult
<1>2. c.class \in OneValue => KeptLast(r.ch, m)
  BY OthersKeepLast DEF Held
<1>3. c.class = "LastValueAfterFinish" => KeptTillRead(r.ch, m)
  BY FinishTillRead DEF Held
<1>4. c.class \in Barriers => BarrierKept(r.ch, m)
  BY FinishBarrierKept DEF Held
<1>5. c.class = "Topic" => TopicKept(r.ch, m)
  <2>1. c.class = "Topic" => r.ch = c
    BY DEF FinishOf, Finishable, Same, Result
  <2> QED  BY <2>1, TopicByOthers DEF Held
<1>6. c.class = "BinaryOperatorAggregate" => Reduced(r.ch, m)
  BY OthersReduced DEF Held
<1> QED  BY <1>1, <1>2, <1>3, <1>4, <1>5, <1>6 DEF Held

\* A new channel holds what no calls make it hold.
LEMMA NewHeld ==
  ASSUME NEW class \in Classes, NEW option \in BOOLEAN
  PROVE  Held(New(class, option), <<>>)
<1> DEFINE c == New(class, option)
           l == <<>>
<1>1. l \in Seq(EntryType) /\ Len(l) = 0 /\ l \in Seq(Items)
  OBVIOUS
<1>2. /\ AcceptsOf(l) = {} /\ WritesOf(l) = {} /\ ConsumedOf(l) = {} /\ FinishesOf(l) = {}
      /\ LogMax({}) = 0
  <2>1. \A i \in {} \cup {0} : i = 0
    OBVIOUS
  <2> QED  BY <2>1 DEF AcceptsOf, WritesOf, ConsumedOf, FinishesOf, LogMax
<1>3. NamesOf(l, 0) = {}
  BY <1>1, NoNamesYet
<1>4. \A i : WrittenOf(l, i) = <<>>
  <2> TAKE i
  <2>1. Parts(l, i) \in Seq(Seq(Items)) /\ Len(Parts(l, i)) = 0
    BY <1>1, PartsType
  <2>2. Parts(l, i) = <<>>
    BY <2>1, EmptySeq
  <2> QED  BY <2>2, FlattenNothing DEF WrittenOf
<1>5. Folded(<<>>) = <<>> /\ JoinedValues(<<>>) = <<>>
  BY FromOverwriteNothing, JoinedNothing DEF Folded
<1>6. /\ c.class = class /\ c.finished = FALSE
      /\ c.has = (class = "BinaryOperatorAggregate" /\ option) /\ c.option = option
      /\ class \in Barriers => c.val = {}
      /\ class \notin Barriers => c.val = <<>>
  BY DEF New
<1> HIDE DEF c, l
<1>7. class \in OneValue => KeptLast(c, l)
  BY <1>2, <1>6 DEF KeptLast, SetsOf, OneValue
<1>8. class = "LastValueAfterFinish" => KeptTillRead(c, l)
  <2>1. LogMax(AcceptsOf(l) \cap WritesOf(l)) = 0 /\ LogMax(ConsumedOf(l)) = 0
    <3>1. AcceptsOf(l) \cap WritesOf(l) = {}
      BY <1>2
    <3> QED  BY <1>2, <3>1
  <2>2. (0 > 0) = FALSE
    OBVIOUS
  <2>3. class = "LastValueAfterFinish" => c.has = FALSE
    BY <1>6
  <2> QED  BY <1>6, <2>1, <2>2, <2>3 DEF KeptTillRead
<1>9. class \in Barriers => BarrierKept(c, l)
  BY <1>2, <1>3, <1>6 DEF BarrierKept, NamesKept, FinishedLate
<1>10. class = "Topic" => TopicKept(c, l)
  BY <1>4, <1>5, <1>6 DEF TopicKept, Barriers
<1>11. class = "BinaryOperatorAggregate" => Reduced(c, l)
  BY <1>4, <1>5, <1>6 DEF Reduced, Barriers
<1> QED  BY <1>6, <1>7, <1>8, <1>9, <1>10, <1>11 DEF Held, c, l

LEMMA HeldInit == Init => HeldInv
<1> SUFFICES ASSUME Init PROVE HeldInv
  OBVIOUS
<1>1. PICK class \in Classes, option \in BOOLEAN : ch = New(class, option)
  BY DEF Init
<1>2. log = <<>> /\ log \in Seq(EntryType)
  BY DEF Init
<1> QED  BY <1>1, <1>2, NewOK, NewHeld DEF HeldInv

LEMMA HeldNext == HeldInv /\ [Next]_vars => HeldInv'
<1> SUFFICES ASSUME HeldInv, [Next]_vars PROVE HeldInv'
  OBVIOUS
<1>1. ChannelOK(ch) /\ log \in Seq(EntryType) /\ Held(ch, log)
  BY DEF HeldInv
<1>2. CASE Update
  <2>1. PICK batch \in Batches :
          /\ ch.class # "BinaryOperatorAggregate" => Overwrites(batch) = {}
          /\ Call("update", batch, UpdateOf(ch, batch), UpdateOf(twin, batch))
    BY <1>2 DEF Update
  <2>2. batch \in Seq(Items)
    BY BatchesAreSequences
  <2>3. PICK r, e : r = UpdateOf(ch, batch) /\ e = Entry("update", batch, r)
    OBVIOUS
  <2>4. ch' = r.ch /\ log' = Append(log, e)
    BY <2>1, <2>3 DEF Call, Entry
  <2>5. e \in EntryType
    BY <1>1, <2>2, <2>3, UpdateResult DEF Entry, EntryType
  <2>6. Held(r.ch, log')
    BY <1>1, <2>1, <2>2, <2>3, <2>4, <2>5, UpdateHeld DEF Updated
  <2>7. ChannelOK(r.ch)
    BY <1>1, <2>3, UpdateOK
  <2> QED  BY <1>1, <2>4, <2>5, <2>6, <2>7 DEF HeldInv
<1>3. CASE Consume
  <2>1. PICK r, e : r = ConsumeOf(ch) /\ e = Entry("consume", <<>>, r)
    OBVIOUS
  <2>2. ch' = r.ch /\ log' = Append(log, e)
    BY <1>3, <2>1 DEF Consume, Call, Entry
  <2>3. e \in EntryType /\ e.op = "consume" /\ e.changed = r.changed
    <3>1. r.ok = TRUE /\ r.changed \in BOOLEAN
      BY <1>1, <2>1, ConsumeResult
    <3>2. <<>> \in Seq(Items)
      OBVIOUS
    <3> QED  BY <2>1, <3>1, <3>2 DEF Entry, EntryType
  <2>4. Held(r.ch, log')
    BY <1>1, <2>1, <2>2, <2>3, ConsumeHeld
  <2>5. ChannelOK(r.ch)
    BY <1>1, <2>1, ConsumeOK
  <2> QED  BY <1>1, <2>2, <2>3, <2>4, <2>5 DEF HeldInv
<1>4. CASE Finish
  <2>1. PICK r, e : r = FinishOf(ch) /\ e = Entry("finish", <<>>, r)
    OBVIOUS
  <2>2. ch' = r.ch /\ log' = Append(log, e)
    BY <1>4, <2>1 DEF Finish, Call, Entry
  <2>3. e \in EntryType /\ e.op = "finish"
    <3>1. r.ok = TRUE /\ r.changed \in BOOLEAN
      BY <1>1, <2>1, FinishResult
    <3>2. <<>> \in Seq(Items)
      OBVIOUS
    <3> QED  BY <2>1, <3>1, <3>2 DEF Entry, EntryType
  <2>4. Held(r.ch, log')
    BY <1>1, <2>1, <2>2, <2>3, FinishHeld
  <2>5. ChannelOK(r.ch)
    BY <1>1, <2>1, FinishOK
  <2> QED  BY <1>1, <2>2, <2>3, <2>4, <2>5 DEF HeldInv
<1>5. CASE Copy
  BY <1>1, <1>5, CopyIsSame DEF Copy, HeldInv
<1>6. CASE Restore
  BY <1>1, <1>6, RestoredIsSame DEF Restore, HeldInv
<1>7. CASE UNCHANGED vars
  BY <1>1, <1>7 DEF vars, HeldInv
<1> QED  BY <1>2, <1>3, <1>4, <1>5, <1>6, <1>7 DEF Next

LEMMA HeldReads == HeldInv => ReadsAsPromised
<1> SUFFICES ASSUME HeldInv PROVE ReadsAsPromised
  OBVIOUS
<1>1. ChannelOK(ch) /\ Held(ch, log)
  BY DEF HeldInv
<1>2. /\ Accepts = AcceptsOf(log) /\ Writes = WritesOf(log) /\ Consumed = ConsumedOf(log)
      /\ Finishes = FinishesOf(log)
  BY DEF Accepts, AcceptsOf, Writes, WritesOf, Consumed, ConsumedOf, Finishes, FinishesOf
<1>3. \A i : NamesSince(i) = NamesOf(log, i)
  BY DEF NamesSince, NamesOf
<1>4. \A i : Written(i) = WrittenOf(log, i)
  BY DEF Written, WrittenOf, Parts
<1>5. CASE ch.class \in OneValue
  <2>1. KeepsLast
    BY <1>1, <1>2, <1>5
       DEF Held, KeptLast, KeepsLast, Sets, SetsOf, Available, Get, OneValue, Barriers
  <2> QED  BY <1>5, <2>1 DEF ReadsAsPromised, OneValue
<1>6. CASE ch.class = "BinaryOperatorAggregate"
  <2>1. FoldsAll
    BY <1>1, <1>4, <1>6 DEF Held, Reduced, FoldsAll, Available, Get, Folded, JoinedValues, Barriers
  <2> QED  BY <1>6, <2>1 DEF ReadsAsPromised
<1>7. CASE ch.class = "Topic"
  <2>1. Publishes
    BY <1>1, <1>2, <1>4, <1>7 DEF Held, TopicKept, TopicFrom, Publishes, Get, JoinedValues, Barriers
  <2> QED  BY <1>7, <2>1 DEF ReadsAsPromised
<1>8. CASE ch.class = "NamedBarrierValue"
  <2>1. OpensWhenAllSeen
    BY <1>1, <1>2, <1>3, <1>8
       DEF Held, BarrierKept, NamesKept, OpensWhenAllSeen, Available, Barriers
  <2> QED  BY <1>8, <2>1 DEF ReadsAsPromised
<1>9. CASE ch.class = "LastValueAfterFinish"
  <2>1. OpensAfterFinish
    BY <1>1, <1>2, <1>9 DEF Held, KeptTillRead, OpensAfterFinish, Available, Get, Barriers
  <2> QED  BY <1>9, <2>1 DEF ReadsAsPromised
<1>10. CASE ch.class = "NamedBarrierValueAfterFinish"
  <2>1. /\ ch.val = NamesOf(log, LogMax(ConsumedOf(log))) /\ ch.val \subseteq Names
        /\ FinishedLate(ch, log)
    BY <1>1, <1>10 DEF Held, BarrierKept, NamesKept, Barriers
  <2>2. (ch.val = Names) <=> Names \subseteq NamesSince(LogMax(Consumed))
    BY <1>2, <1>3, <2>1
  <2>3. Available(ch) = (ch.finished /\ ch.val = Names)
    BY <1>10 DEF Available
  <2>4. Available(ch) = (ch.val = Names /\ \E j \in Finishes : \A i \in Writes : i < j)
    BY <1>2, <2>1, <2>3 DEF FinishedLate
  <2>5. OpensAfterFinish
    BY <1>10, <2>2, <2>4 DEF OpensAfterFinish
  <2> QED  BY <1>10, <2>5 DEF ReadsAsPromised
<1> QED
  BY <1>1, <1>5, <1>6, <1>7, <1>8, <1>9, <1>10 DEF ChannelOK, Classes, OneValue

\* A channel of any class reads what its class promises for the calls it has had, however
\* many there were and however often it was copied or restored.
THEOREM PromisesKept == Spec => []ReadsAsPromised
  BY HeldInit, HeldNext, HeldReads, PTL DEF Spec

=============================================================================
