------------------------------ MODULE Channels ------------------------------
(***************************************************************************)
(* The channels of a state: LastValue, AnyValue, EphemeralValue,           *)
(* BinaryOperatorAggregate, Topic, the two barriers and                    *)
(* LastValueAfterFinish, each as the record of what it holds and the calls *)
(* of its interface: update, consume, finish, get, copy, checkpoint and    *)
(* from_checkpoint.                                                        *)
(*                                                                         *)
(* One channel of any class is used in any order of calls.  At any time it *)
(* may be replaced by a copy of itself, or saved and restored in another   *)
(* process; its twin gets the same calls and is never replaced.            *)
(*                                                                         *)
(* Every value is a list: the reducer of a BinaryOperatorAggregate is      *)
(* operator.add, and a Topic takes the elements of a list one by one.  A   *)
(* rejected call may have changed the channel before it raised.            *)
(***************************************************************************)
EXTENDS Integers, Sequences, SequencesExt, FiniteSets

CONSTANTS
  Values,          \* the values written: lists
  Names,           \* the values a barrier waits for
  MaxBatch,        \* bound: values of one call of update
  MaxItems,        \* bound: values of all calls of one channel
  MaxCalls         \* bound: calls of one channel

Classes ==
  {"LastValue", "AnyValue", "EphemeralValue", "BinaryOperatorAggregate", "Topic",
   "NamedBarrierValue", "LastValueAfterFinish", "NamedBarrierValueAfterFinish"}

Barriers == {"NamedBarrierValue", "NamedBarrierValueAfterFinish"}

ASSUME ChannelAssumption ==
  /\ Values \subseteq Seq(Int)
  /\ Names \subseteq Values /\ Names # {}
  /\ MaxBatch \in Nat /\ MaxItems \in Nat /\ MaxCalls \in Nat

\* What is written: a value, or Overwrite(value), which the reducer does not see.
Items   == [overwrite : BOOLEAN, value : Values]
Batches == UNION {[1 .. n -> Items] : n \in 0 .. MaxBatch}

VARIABLES
  ch,              \* the channel
  twin,            \* the same channel, never copied or restored
  origin,          \* how ch came to be: "new", "copied" or "restored"
  log              \* the calls so far, and what each returned

vars == <<ch, twin, origin, log>>

(***************************************************************************)
(* A channel is [class, option, has, val, finished].  The option is guard  *)
(* for an EphemeralValue, accumulate for a Topic, and whether the type can *)
(* be called without arguments for a BinaryOperatorAggregate.  A channel   *)
(* that does not have a value is MISSING; a barrier has a set of names.    *)
(***************************************************************************)

New(class, option) ==
  [class |-> class, option |-> option,
   has |-> class = "BinaryOperatorAggregate" /\ option,
   val |-> IF class \in Barriers THEN {} ELSE <<>>,
   finished |-> FALSE]

\* A call's effect, whether it returned and, if so, what.
Result(c, ok, changed) == [ch |-> c, ok |-> ok, changed |-> ok /\ changed]

Same(c)   == Result(c, TRUE, FALSE)
Set(c, v) == [c EXCEPT !.has = TRUE, !.val = v]
Clear(c)  == New(c.class, c.option)

ValuesOf(batch) == [i \in DOMAIN batch |-> batch[i].value]

(***************************************************************************)
(* update.                                                                 *)
(***************************************************************************)

\* LastValue, LastValueAfterFinish: at most one value per call.
UpdateLast(c, batch) ==
  IF batch = <<>> THEN Same(c)
  ELSE IF Len(batch) > 1 THEN Result(c, FALSE, FALSE)
  ELSE Result([Set(c, Last(batch).value) EXCEPT !.finished = FALSE], TRUE, TRUE)

UpdateAny(c, batch) ==
  IF batch = <<>> THEN Same(c) ELSE Result(Set(c, Last(batch).value), TRUE, TRUE)

\* A call without values clears the channel.
UpdateEphemeral(c, batch) ==
  IF Len(batch) > 1 /\ c.option THEN Result(c, FALSE, FALSE)
  ELSE IF batch = <<>> THEN Result(Clear(c), TRUE, c.has)
  ELSE Result(Set(c, Last(batch).value), TRUE, TRUE)

\* The values up to a second Overwrite, at which the call raises.
Overwrites(batch) == {i \in DOMAIN batch : batch[i].overwrite}

Accepted(batch) ==
  IF Cardinality(Overwrites(batch)) < 2 THEN batch
  ELSE SubSeq(batch, 1, (CHOOSE i \in Overwrites(batch) :
                           Cardinality(Overwrites(SubSeq(batch, 1, i))) = 2) - 1)

\* The first value of a MISSING channel is taken as it is, an Overwrite replaces what is
\* there, and the operator combines any other.
Reduce(c, item) ==
  Set(c, IF item.overwrite \/ ~c.has THEN item.value ELSE c.val \o item.value)

UpdateBinop(c, batch) ==
  LET reduced == FoldLeft(Reduce, c, Accepted(batch))
  IN IF batch = <<>> THEN Same(c)
     ELSE Result([c EXCEPT !.has = TRUE, !.val = reduced.val],
                 Accepted(batch) = batch, TRUE)

UpdateTopic(c, batch) ==
  LET kept == IF c.option THEN c.val ELSE <<>>
  IN Result([c EXCEPT !.val = kept \o FlattenSeq(ValuesOf(batch))],
            TRUE, batch # <<>> \/ kept # c.val)

\* The names up to one that the barrier does not wait for, at which the call raises.
KnownNames(batch) ==
  {batch[i].value : i \in {j \in DOMAIN batch :
                             \A k \in 1 .. j : batch[k].value \in Names}}

AllKnown(batch) == \A i \in DOMAIN batch : batch[i].value \in Names

UpdateBarrier(c, batch) ==
  IF batch = <<>> THEN Same(c)
  ELSE Result([c EXCEPT !.val = @ \cup KnownNames(batch), !.finished = FALSE],
              AllKnown(batch), ~(KnownNames(batch) \subseteq c.val))

UpdateOf(c, batch) ==
  CASE c.class \in {"LastValue", "LastValueAfterFinish"} -> UpdateLast(c, batch)
    [] c.class = "AnyValue"                              -> UpdateAny(c, batch)
    [] c.class = "EphemeralValue"                        -> UpdateEphemeral(c, batch)
    [] c.class = "BinaryOperatorAggregate"               -> UpdateBinop(c, batch)
    [] c.class = "Topic"                                 -> UpdateTopic(c, batch)
    [] c.class \in Barriers                              -> UpdateBarrier(c, batch)

(***************************************************************************)
(* consume, finish and get.                                                *)
(***************************************************************************)

\* is_available: get returns instead of raising EmptyChannelError.
Available(c) ==
  CASE c.class = "Topic"                        -> c.val # <<>>
    [] c.class = "NamedBarrierValue"            -> c.val = Names
    [] c.class = "NamedBarrierValueAfterFinish" -> c.finished /\ c.val = Names
    [] c.class = "LastValueAfterFinish"         -> c.finished /\ c.has
    [] OTHER                                    -> c.has

\* A barrier returns None.
Get(c) == IF c.class \in Barriers THEN <<>> ELSE c.val

Reading(c) == [available |-> Available(c),
               value |-> IF Available(c) THEN Get(c) ELSE <<>>]

\* What has been read is cleared, by the classes that can be consumed.
Consumable(c) ==
  /\ c.class \in Barriers \cup {"Topic", "LastValueAfterFinish"}
  /\ c.class = "Topic" => ~c.option
  /\ Available(c)

\* ConsumeOf, if LastValueAfterFinish only closed and did not drop what has been read.
ConsumeKeepingValue(c) ==
  CASE ~Consumable(c) -> Same(c)
    [] Consumable(c) /\ c.class # "LastValueAfterFinish" -> Result(Clear(c), TRUE, TRUE)
    [] OTHER -> Result([c EXCEPT !.finished = FALSE], TRUE, TRUE)

ConsumeOf(c) == IF Consumable(c) THEN Result(Clear(c), TRUE, TRUE) ELSE Same(c)

Finishable(c) ==
  /\ ~c.finished
  /\ \/ c.class = "LastValueAfterFinish" /\ c.has
     \/ c.class = "NamedBarrierValueAfterFinish" /\ c.val = Names

FinishOf(c) ==
  IF Finishable(c) THEN Result([c EXCEPT !.finished = TRUE], TRUE, TRUE) ELSE Same(c)

(***************************************************************************)
(* copy, checkpoint and from_checkpoint.  A channel whose checkpoint is    *)
(* MISSING is left out of the saved state, and made anew when it is loaded.*)
(***************************************************************************)

CopyOf(c) ==
  [class |-> c.class, option |-> c.option, has |-> c.has, val |-> c.val,
   finished |-> c.finished]

IsMissing(c) ==
  CASE c.class = "Topic"                        -> c.val = <<>>
    [] c.class = "NamedBarrierValue"            -> c.val = {}
    [] c.class = "NamedBarrierValueAfterFinish" -> FALSE
    [] OTHER                                    -> ~c.has

Checkpoint(c) ==
  [missing |-> IsMissing(c), value |-> c.val,
   finished |-> c.class \in {"LastValueAfterFinish", "NamedBarrierValueAfterFinish"}
                  /\ c.finished]

FromCheckpointValue(class, option, saved) ==
  IF saved.missing THEN New(class, option)
  ELSE [New(class, option) EXCEPT !.has = class \notin Barriers \cup {"Topic"},
                                  !.val = saved.value]

FromCheckpoint(class, option, saved) ==
  IF saved.missing THEN New(class, option)
  ELSE [class |-> class, option |-> option,
        has |-> class \notin Barriers \cup {"Topic"},
        val |-> saved.value, finished |-> saved.finished]

(***************************************************************************)
(* The calls.                                                              *)
(***************************************************************************)

Init ==
  \E class \in Classes, option \in BOOLEAN :
    /\ class \notin {"EphemeralValue", "BinaryOperatorAggregate", "Topic"} => ~option
    /\ ch = New(class, option)
    /\ twin = ch
    /\ origin = "new"
    /\ log = <<>>

\* One call of both channels, and what ch returned.
Call(op, batch, result, twinResult) ==
  /\ Len(log) < MaxCalls
  /\ ch' = result.ch
  /\ twin' = twinResult.ch
  /\ log' = Append(log, [op |-> op, batch |-> batch, ok |-> result.ok,
                          changed |-> result.changed])
  /\ UNCHANGED origin

\* How many values the calls so far have brought.
ItemsSoFar ==
  Cardinality({p \in (DOMAIN log) \X (1 .. MaxBatch) : p[2] <= Len(log[p[1]].batch)})

\* Only a BinaryOperatorAggregate knows what an Overwrite is.
Update ==
  \E batch \in Batches :
    /\ ItemsSoFar + Len(batch) <= MaxItems
    /\ ch.class # "BinaryOperatorAggregate" => Overwrites(batch) = {}
    /\ Call("update", batch, UpdateOf(ch, batch), UpdateOf(twin, batch))

Consume == Call("consume", <<>>, ConsumeOf(ch), ConsumeOf(twin))

Finish == Call("finish", <<>>, FinishOf(ch), FinishOf(twin))

Copy ==
  /\ ch' = CopyOf(ch)
  /\ origin' = "copied"
  /\ UNCHANGED <<twin, log>>

\* The engine saves the channel in a checkpoint, and loads it.
Restore ==
  /\ ch' = FromCheckpoint(ch.class, ch.option, Checkpoint(ch))
  /\ origin' = "restored"
  /\ UNCHANGED <<twin, log>>

Next == Update \/ Consume \/ Finish \/ Copy \/ Restore

Spec == Init /\ [][Next]_vars

(***************************************************************************)
(* Properties.                                                             *)
(***************************************************************************)

\* A channel that has been copied, or saved and restored, any number of times and between
\* any calls, reads as one that has lived through all the calls: copy, checkpoint and
\* from_checkpoint of a class keep everything that its later calls depend on.
RestoreInvisible == Reading(ch) = Reading(twin)

(***************************************************************************)
(* What a channel reads, told from its calls.                              *)
(***************************************************************************)

LogMax(S) == CHOOSE i \in S \cup {0} : \A j \in S : j <= i

Accepts == {i \in DOMAIN log : log[i].op = "update" /\ log[i].ok}
Writes  == {i \in DOMAIN log : log[i].op = "update" /\ log[i].batch # <<>>}
Consumed == {i \in DOMAIN log : log[i].op = "consume" /\ log[i].changed}
Finishes == {i \in DOMAIN log : log[i].op = "finish"}

\* All that was written by the calls from the i-th on, up to where a call raised.
Written(i) ==
  FlattenSeq([k \in 1 .. Len(log) |->
                IF k < i \/ log[k].op # "update" THEN <<>> ELSE Accepted(log[k].batch)])

\* The part of a sequence of items from its latest Overwrite on.
FromOverwrite(items) ==
  IF Overwrites(items) = {} THEN items
  ELSE SubSeq(items, LogMax(Overwrites(items)), Len(items))

NamesSince(i) ==
  UNION {KnownNames(log[k].batch) : k \in {j \in DOMAIN log : j > i /\ log[j].op = "update"}}

\* Which calls the classes with one value take it from: an EphemeralValue is cleared by a
\* call of update without values.
Sets == IF ch.class = "EphemeralValue" THEN Accepts ELSE Accepts \cap Writes

\* One value: the last one of the last accepted call.
KeepsLast ==
  LET last == LogMax(Sets)
      kept == last # 0 /\ log[last].batch # <<>>
  IN /\ Available(ch) = kept
     /\ kept => Get(ch) = Last(log[last].batch).value

\* A reducer: everything written since the last Overwrite, in order.
FoldsAll ==
  /\ Available(ch) = (ch.option \/ Written(1) # <<>>)
  /\ Get(ch) = FlattenSeq(ValuesOf(FromOverwrite(Written(1))))

\* A Topic: the values of the last call, unless they have been consumed, or of all calls.
Publishes ==
  LET from == IF ch.option THEN 1 ELSE LogMax(Accepts \cup Consumed)
  IN Get(ch) = FlattenSeq(ValuesOf(Written(from)))

\* A barrier: open if every name was written since it was last consumed.
OpensWhenAllSeen == Available(ch) = (Names \subseteq NamesSince(LogMax(Consumed)))

\* The classes that wait for finish(), after the latest value; consume() takes it away.
OpensAfterFinish ==
  CASE ch.class = "LastValueAfterFinish" ->
         LET last == LogMax(Accepts \cap Writes)
         IN /\ Available(ch) = (last > LogMax(Consumed) /\ \E j \in Finishes : last < j)
            /\ Available(ch) => Get(ch) = Last(log[last].batch).value
    [] ch.class = "NamedBarrierValueAfterFinish" ->
         Available(ch) = (/\ Names \subseteq NamesSince(LogMax(Consumed))
                          /\ \E j \in Finishes : \A i \in Writes : i < j)

\* Whatever has been called before, and however often the channel was copied or restored, it
\* reads what its class promises for the calls it has had: the value, and whether it is there.
ReadsAsPromised ==
  CASE ch.class \in {"LastValue", "AnyValue", "EphemeralValue"} -> KeepsLast
    [] ch.class = "BinaryOperatorAggregate" -> FoldsAll
    [] ch.class = "Topic" -> Publishes
    [] ch.class = "NamedBarrierValue" -> OpensWhenAllSeen
    [] OTHER -> OpensAfterFinish

=============================================================================
