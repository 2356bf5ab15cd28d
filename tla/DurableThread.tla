---------------------------- MODULE DurableThread ----------------------------
(***************************************************************************)
(* What a thread with a checkpointer promises its caller.  The thread is   *)
(* the work that is pending and the record each node has left in the       *)
(* state.  A new input replaces the pending work.  Otherwise the thread    *)
(* advances: some of the pending nodes leave records (one, unless a node   *)
(* is pending with several arguments), all others stay pending, and what   *)
(* becomes pending follows from the nodes that ran.  None need have run: a *)
(* fan-in whose sources have records may become pending at any time.       *)
(* Invocations, pauses, crashes, retries and resumes are not visible here. *)
(***************************************************************************)
EXTENDS Naturals

CONSTANTS
  Nodes,
  StartSets,     \* the sets of nodes a new input may make pending
  Leads,         \* the pairs <<n, m>> such that m may follow n
  MostRecords,   \* how many records a run of a node may leave
  WaitingEdges   \* records [starts, end]: end follows when all starts have a record

VARIABLES pending, records

Ready(j, left) == \E w \in WaitingEdges : w.end = j /\ \A s \in w.starts : left[s] > 0

Init ==
  /\ pending = {}
  /\ records = [n \in Nodes |-> 0]

Begin ==
  /\ pending' \in StartSets
  /\ UNCHANGED records

Advance(ran) ==
  /\ \A n \in ran \ pending : Ready(n, records)
  /\ \A n \in Nodes : records'[n] - records[n] \in IF n \in ran THEN 1..MostRecords[n] ELSE {0}
  /\ pending \ ran \subseteq pending'
  /\ \A m \in pending' \ (pending \ ran) :
       (\E n \in ran : <<n, m>> \in Leads) \/ Ready(m, records')

Next == Begin \/ \E ran \in SUBSET Nodes : Advance(ran)

Spec == Init /\ [][Next]_<<pending, records>>

=============================================================================
