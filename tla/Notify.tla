------------------------------- MODULE Notify -------------------------------
(***************************************************************************)
(* The dispatcher of notifications.service.ts: it reads the journal of     *)
(* deal events from a cursor that the remote service keeps, posts each     *)
(* event to the parties of its deal and moves the cursor on.               *)
(*                                                                         *)
(* Events are numbered in the order of their timestamps, which is the      *)
(* order of the journal; a transaction that takes long commits an event    *)
(* behind others that are already there.  One deal's events stand for the  *)
(* journal, since a batch treats every event by itself.  Each API instance *)
(* runs at most one batch, several instances run theirs over the same      *)
(* cursor.  A post can fail, be lost or be delivered with its answer lost; *)
(* an instance can die.                                                    *)
(*                                                                         *)
(* External: the remote takes an event for a recipient once, whatever is   *)
(* posted again, and moves the cursor only if it stands where the caller   *)
(* says (`from').  Position 0 is the cursor's `since'.                     *)
(***************************************************************************)
EXTENDS Integers, FiniteSets

CONSTANTS
  Instances,  \* API processes
  Parties,    \* who are or will be on the deal
  Events,     \* the journal's positions
  Texted,     \* those whose type has a text in eventTexts
  Take,       \* the size of a batch
  MaxFaults   \* bound: posts that fail and batches that die

ASSUME EventsAssumption == Events \subseteq Nat \ {0} /\ Texted \subseteq Events
ASSUME TakeAssumption == Take \in Nat \ {0} /\ MaxFaults \in Nat

VARIABLES
  journal,   \* the events that have committed
  bound,     \* the parties on the deal
  cursor,    \* the remote's cursor
  told,      \* the remote's: which event was taken for whom
  batch,     \* for each instance, its batch
  late,      \* no data: pairs of event and party too late for a batch that ran
  faults     \* how many posts failed and batches died
vars == <<journal, bound, cursor, told, batch, late, faults>>

Position == Events \cup {0}
Notice == Events \X Parties

(* `from' the cursor as fetched, `rows' what is left of the rows read,     *)
(* `last' the last one processed, `to' the parties as read with the rows.  *)
Batch == [at : {"idle", "fetched", "posting", "moving", "empty"}, from : Position,
          rows : SUBSET Events, last : Position, to : SUBSET Parties]
Idle == [at |-> "idle", from |-> 0, rows |-> {}, last |-> 0, to |-> {}]

Init ==
  /\ journal = {}
  /\ bound = {}
  /\ cursor = 0
  /\ told = {}
  /\ batch = [i \in Instances |-> Idle]
  /\ late = {}
  /\ faults = 0

-----------------------------------------------------------------------------
(* What is not the dispatcher's.                                           *)

\* Positions that a batch has read or the cursor has passed.
Passed(e) ==
  \/ e <= cursor
  \/ \E i \in Instances : e <= batch[i].last \/ \E f \in batch[i].rows : e <= f

\* A transaction commits its event.
Commit(e) ==
  /\ e \notin journal
  /\ journal' = journal \cup {e}
  /\ late' = IF Passed(e) THEN late \cup ({e} \cap Texted) \X Parties ELSE late
  /\ UNCHANGED <<bound, cursor, told, batch, faults>>

\* A party is put on the deal.
Join(p) ==
  /\ p \notin bound
  /\ bound' = bound \cup {p}
  /\ late' = late \cup {e \in journal \cap Texted : Passed(e)} \X {p}
  /\ UNCHANGED <<journal, cursor, told, batch, faults>>

-----------------------------------------------------------------------------
(* The batch.                                                              *)

\* dispatch: unless one is running here.
FetchCursor(i) ==
  /\ batch[i] = Idle
  /\ batch' = [batch EXCEPT ![i] = [Idle EXCEPT !.at = "fetched", !.from = cursor]]
  /\ UNCHANGED <<journal, bound, cursor, told, late, faults>>

\* The first events of a set, at most Take of them.
First(events) == {e \in events : Cardinality({f \in events : f < e}) < Take}

\* findMany: the next rows after the cursor, with the parties of their deal.
ReadRows(i) ==
  /\ batch[i].at = "fetched"
  /\ LET rows == First({e \in journal : e > batch[i].from}) IN
     batch' = [batch EXCEPT ![i].rows = rows, ![i].to = bound,
                            ![i].at = IF rows = {} THEN "empty" ELSE "posting"]
  /\ UNCHANGED <<journal, bound, cursor, told, late, faults>>

\* The row the loop has come to, and the loop's next state.
IsNext(i, e) == e \in batch[i].rows /\ \A f \in batch[i].rows : e <= f
Processed(i, e) ==
  batch' = [batch EXCEPT ![i].rows = @ \ {e}, ![i].last = e,
                         ![i].at = IF batch[i].rows = {e} THEN "moving" ELSE "posting"]

\* Faulty variant: a failed post is logged and the loop goes on.
ProcessAnyway(i) ==
  /\ batch[i].at = "posting"
  /\ \E e \in batch[i].rows :
       /\ IsNext(i, e)
       /\ \E to \in {batch[i].to, {}} :
            told' = IF e \in Texted THEN told \cup {e} \X to ELSE told
       /\ Processed(i, e)
  /\ UNCHANGED <<journal, bound, cursor, late, faults>>

\* An event is posted to every party and all posts are answered; one that has
\* no text is passed over.
Process(i) ==
  /\ batch[i].at = "posting"
  /\ \E e \in batch[i].rows :
       /\ IsNext(i, e)
       /\ told' = IF e \in Texted THEN told \cup {e} \X batch[i].to ELSE told
       /\ Processed(i, e)
  /\ UNCHANGED <<journal, bound, cursor, late, faults>>

\* Promise.all: a post fails, whichever the remote took; the batch is over.
PostFails(i) ==
  /\ faults < MaxFaults
  /\ batch[i].at = "posting"
  /\ \E e \in batch[i].rows \cap Texted, to \in SUBSET batch[i].to :
       IsNext(i, e) /\ told' = told \cup {e} \X to
  /\ batch' = [batch EXCEPT ![i] = Idle]
  /\ faults' = faults + 1
  /\ UNCHANGED <<journal, bound, cursor, late>>

\* The deadline has passed: what was processed will do, if anything was.
Deadline(i) ==
  /\ batch[i].at = "posting"
  /\ batch[i].last # 0
  /\ batch' = [batch EXCEPT ![i].at = "moving", ![i].rows = {}]
  /\ UNCHANGED <<journal, bound, cursor, told, late, faults>>

\* The remote moves its cursor, if it still is where it was fetched.
MoveFrom(i, position) ==
  /\ cursor' = IF cursor = batch[i].from THEN position ELSE cursor
  /\ batch' = [batch EXCEPT ![i] = Idle]
  /\ UNCHANGED <<journal, bound, told, late, faults>>

MoveCursor(i) == batch[i].at = "moving" /\ MoveFrom(i, batch[i].last)

\* Faulty variant: the journal is read once.
StayAtEnd(i) == batch[i].at = "empty" /\ MoveFrom(i, batch[i].from)

\* No rows: the cursor starts again from `since'.
ResetCursor(i) == batch[i].at = "empty" /\ MoveFrom(i, 0)

\* The cursor cannot be fetched or moved, or the instance dies.
Die(i) ==
  /\ faults < MaxFaults
  /\ batch[i] # Idle
  /\ batch' = [batch EXCEPT ![i] = Idle]
  /\ faults' = faults + 1
  /\ UNCHANGED <<journal, bound, cursor, told, late>>

-----------------------------------------------------------------------------
Step(i) ==
  \/ FetchCursor(i)
  \/ ReadRows(i)
  \/ Process(i)
  \/ MoveCursor(i)
  \/ ResetCursor(i)

Next ==
  \/ \E e \in Events : Commit(e)
  \/ \E p \in Parties : Join(p)
  \/ \E i \in Instances : Step(i) \/ PostFails(i) \/ Deadline(i) \/ Die(i)

Spec == Init /\ [][Next]_vars

(***************************************************************************)
(* The scheduler calls the endpoint again and again and the remote answers *)
(* in the end; failures stop by themselves (MaxFaults), deadlines need not *)
(* be met.  Nobody has to commit or to join.                               *)
(***************************************************************************)
FairSpec == Spec /\ \A i \in Instances : WF_vars(Step(i))

-----------------------------------------------------------------------------
(* Properties.                                                             *)

TypeOK ==
  /\ journal \subseteq Events
  /\ bound \subseteq Parties
  /\ cursor \in Position
  /\ told \subseteq Notice
  /\ batch \in [Instances -> Batch]
  /\ late \subseteq Notice
  /\ faults \in Nat

\* The cursor passes no event that was not posted: what lies behind it and is
\* not told had committed, or its party had joined, only when a batch was
\* already past it.  Failures, deadlines and a second instance leave no gap.
BehindTheCursorIsTold ==
  \A e \in journal \cap Texted, p \in bound :
    e <= cursor => <<e, p>> \in told \cup late

\* Every party is told of every event with a text, those that committed late
\* and those from before it joined included, once failures stop.
EveryPartyIsTold ==
  \A e \in Texted, p \in Parties :
    (e \in journal /\ p \in bound) ~> (<<e, p>> \in told)

=============================================================================
