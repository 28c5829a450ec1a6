---------------------------- MODULE NotifyProofs ----------------------------
(***************************************************************************)
(* Proofs about Notify, for any number of instances and parties, any       *)
(* journal and any size of a batch.  The cursor moves only from where a    *)
(* batch fetched it, so what lies between there and the batch's last event *)
(* is all that a batch has to answer for.                                  *)
(***************************************************************************)
EXTENDS Notify, FiniteSetTheorems, TLAPS

Settled(e, p) == <<e, p>> \in told \/ <<e, p>> \in late

\* A batch has come past an event, or will.
Reached(i, e) ==
  batch[i].from < e /\ (e <= batch[i].last \/ \E f \in batch[i].rows : e <= f)

\* Whatever a batch has reached is told, was too late, or is still to be told.
BatchStands(i) ==
  /\ \A f \in batch[i].rows : batch[i].last < f
  /\ batch[i].at # "posting" => batch[i].rows = {}
  /\ batch[i].at \in {"idle", "fetched", "empty"} => batch[i].last = 0
  /\ \A e \in journal \cap Texted, p \in bound :
       Reached(i, e) => Settled(e, p) \/ (e \in batch[i].rows /\ p \in batch[i].to)

IInv ==
  /\ TypeOK
  /\ \A i \in Instances : BatchStands(i)
  /\ BehindTheCursorIsTold

-----------------------------------------------------------------------------
LEMMA Tables ==
  ASSUME IInv
  PROVE  /\ journal \subseteq Events /\ bound \subseteq Parties
         /\ \A e \in Events : e \in Nat /\ e # 0
         /\ cursor \in Nat /\ cursor \in Position
         /\ \A i \in Instances : /\ batch[i] \in Batch
                                 /\ batch[i].from \in Nat /\ batch[i].last \in Nat
                                 /\ batch[i].rows \subseteq Events
<1>1. \A e \in Events : e \in Nat /\ e # 0
  BY EventsAssumption
<1>2. /\ journal \subseteq Events /\ bound \subseteq Parties
      /\ cursor \in Position /\ \A i \in Instances : batch[i] \in Batch
  BY DEF IInv, TypeOK
<1>3. Position \subseteq Nat
  BY <1>1 DEF Position
<1>4. \A i \in Instances : /\ batch[i].from \in Position /\ batch[i].last \in Position
                          /\ batch[i].rows \subseteq Events
  BY <1>2 DEF Batch
<1> QED BY <1>1, <1>2, <1>3, <1>4

LEMMA IdleStands ==
  /\ Idle \in Batch /\ Idle.at = "idle" /\ Idle.rows = {} /\ Idle.last = 0
  BY DEF Idle, Batch, Position

\* An instance that comes to nothing, whatever was told before.
LEMMA BatchEnds ==
  ASSUME IInv, NEW i \in Instances, batch' = [batch EXCEPT ![i] = Idle],
         UNCHANGED <<journal, bound, late>>,
         told \subseteq told', told' \subseteq Notice
  PROVE  /\ batch' \in [Instances -> Batch]
         /\ \A j \in Instances : BatchStands(j)'
         /\ \A e \in journal \cap Texted, p \in bound : Settled(e, p) => Settled(e, p)'
<1>1. /\ batch' \in [Instances -> Batch]
      /\ batch'[i] = Idle
      /\ \A j \in Instances \ {i} : batch'[j] = batch[j]
  BY IdleStands DEF IInv, TypeOK
<1>2. \A e, p : Settled(e, p) => Settled(e, p)'
  BY DEF Settled
<1>3. ASSUME NEW j \in Instances PROVE BatchStands(j)'
  <2>1. CASE j = i
    <3>1. ASSUME NEW e \in journal PROVE ~Reached(i, e)'
      BY <1>1, Tables, IdleStands DEF Reached
    <3> QED BY <1>1, <2>1, <3>1, IdleStands DEF BatchStands
  <2>2. CASE j # i
    <3>1. BatchStands(j) /\ batch'[j] = batch[j]
      BY <1>1, <2>2 DEF IInv
    <3> QED BY <1>2, <3>1 DEF BatchStands, Reached
  <2> QED BY <2>1, <2>2
<1> QED BY <1>1, <1>2, <1>3

-----------------------------------------------------------------------------
LEMMA Committed ==
  ASSUME IInv, NEW e \in Events, Commit(e)
  PROVE  IInv'
<1>1. /\ journal' = journal \cup {e}
      /\ late' = IF Passed(e) THEN late \cup ({e} \cap Texted) \X Parties ELSE late
      /\ UNCHANGED <<bound, cursor, told, batch, faults>>
  BY DEF Commit
<1>2. late' \subseteq Notice /\ late \subseteq late'
  BY <1>1 DEF IInv, TypeOK, Notice
<1>3. TypeOK'
  BY <1>1, <1>2 DEF IInv, TypeOK
<1>4. \A f, p : Settled(f, p) => Settled(f, p)'
  BY <1>1, <1>2 DEF Settled
<1>5. ASSUME Passed(e), e \in Texted, NEW p \in bound PROVE Settled(e, p)'
  BY <1>1, <1>5, Tables DEF Settled
<1>6. ASSUME NEW i \in Instances PROVE BatchStands(i)'
  <2>1. ASSUME Reached(i, e) PROVE Passed(e)
    BY <2>1 DEF Reached, Passed
  <2>2. ASSUME NEW f \in journal' \cap Texted, NEW p \in bound, Reached(i, f)
        PROVE  Settled(f, p)' \/ (f \in batch[i].rows /\ p \in batch[i].to)
    <3>1. CASE f = e
      BY <1>5, <2>1, <2>2, <3>1
    <3>2. CASE f # e
      BY <1>1, <1>4, <2>2, <3>2 DEF IInv, BatchStands
    <3> QED BY <3>1, <3>2
  <2> QED BY <1>1, <2>2 DEF IInv, BatchStands, Reached
<1>7. BehindTheCursorIsTold'
  <2>1. ASSUME NEW f \in journal' \cap Texted, NEW p \in bound, f <= cursor
        PROVE  Settled(f, p)'
    <3>1. CASE f = e
      BY <1>5, <2>1, <3>1 DEF Passed
    <3>2. CASE f # e
      BY <1>1, <1>4, <2>1, <3>2 DEF IInv, BehindTheCursorIsTold, Settled
    <3> QED BY <3>1, <3>2
  <2> QED BY <1>1, <2>1 DEF BehindTheCursorIsTold, Settled
<1> QED BY <1>3, <1>6, <1>7 DEF IInv

LEMMA Joined ==
  ASSUME IInv, NEW p \in Parties, Join(p)
  PROVE  IInv'
<1>1. /\ bound' = bound \cup {p}
      /\ late' = late \cup {e \in journal \cap Texted : Passed(e)} \X {p}
      /\ UNCHANGED <<journal, cursor, told, batch, faults>>
  BY DEF Join
<1>2. late' \subseteq Notice /\ late \subseteq late'
  BY <1>1, Tables DEF IInv, TypeOK, Notice
<1>3. TypeOK'
  BY <1>1, <1>2 DEF IInv, TypeOK
<1>4. \A f, q : Settled(f, q) => Settled(f, q)'
  BY <1>1, <1>2 DEF Settled
<1>5. ASSUME NEW e \in journal \cap Texted, Passed(e) PROVE Settled(e, p)'
  BY <1>1, <1>5 DEF Settled
<1>6. ASSUME NEW i \in Instances PROVE BatchStands(i)'
  <2>1. ASSUME NEW e \in journal, Reached(i, e) PROVE Passed(e)
    BY <2>1 DEF Reached, Passed
  <2>2. ASSUME NEW e \in journal \cap Texted, NEW q \in bound', Reached(i, e)
        PROVE  Settled(e, q)' \/ (e \in batch[i].rows /\ q \in batch[i].to)
    <3>1. CASE q = p
      BY <1>5, <2>1, <2>2, <3>1
    <3>2. CASE q # p
      BY <1>1, <1>4, <2>2, <3>2 DEF IInv, BatchStands
    <3> QED BY <3>1, <3>2
  <2> QED BY <1>1, <2>2 DEF IInv, BatchStands, Reached
<1>7. BehindTheCursorIsTold'
  <2>1. ASSUME NEW e \in journal \cap Texted, NEW q \in bound', e <= cursor
        PROVE  Settled(e, q)'
    <3>1. CASE q = p
      BY <1>5, <2>1, <3>1 DEF Passed
    <3>2. CASE q # p
      BY <1>1, <1>4, <2>1, <3>2 DEF IInv, BehindTheCursorIsTold, Settled
    <3> QED BY <3>1, <3>2
  <2> QED BY <1>1, <2>1 DEF BehindTheCursorIsTold, Settled
<1> QED BY <1>3, <1>6, <1>7 DEF IInv

LEMMA CursorFetched ==
  ASSUME IInv, NEW i \in Instances, FetchCursor(i)
  PROVE  IInv'
<1> DEFINE r == [Idle EXCEPT !.at = "fetched", !.from = cursor]
<1>1. /\ batch' = [batch EXCEPT ![i] = r]
      /\ UNCHANGED <<journal, bound, cursor, told, late, faults>>
  BY DEF FetchCursor
<1>2. r \in Batch /\ r.at = "fetched" /\ r.rows = {} /\ r.last = 0 /\ r.from = cursor
  BY Tables DEF Idle, Batch, Position
<1> HIDE DEF r
<1>3. /\ batch' \in [Instances -> Batch]
      /\ batch'[i] = r
      /\ \A j \in Instances \ {i} : batch'[j] = batch[j]
  BY <1>1, <1>2 DEF IInv, TypeOK
<1>4. TypeOK'
  BY <1>1, <1>3 DEF IInv, TypeOK
<1>5. ASSUME NEW j \in Instances PROVE BatchStands(j)'
  <2>1. CASE j = i
    <3>1. ASSUME NEW e \in journal PROVE ~Reached(i, e)'
      BY <1>2, <1>3, Tables DEF Reached
    <3> QED BY <1>1, <1>2, <1>3, <2>1, <3>1 DEF BatchStands
  <2>2. CASE j # i
    <3>1. BatchStands(j) /\ batch'[j] = batch[j]
      BY <1>3, <2>2 DEF IInv
    <3> QED BY <1>1, <3>1 DEF BatchStands, Reached, Settled
  <2> QED BY <2>1, <2>2
<1> QED BY <1>1, <1>4, <1>5 DEF IInv, BehindTheCursorIsTold

\* The first events of a set are the ones before any that is not.
LEMMA FirstIsLowest ==
  ASSUME NEW S \in SUBSET Nat, NEW e \in S, NEW f \in First(S), e <= f
  PROVE  e \in First(S)
<1> DEFINE A == {g \in S : g < e}
           B == {g \in S : g < f}
<1>1. f \in S /\ Cardinality(B) < Take
  BY DEF First
<1>2. e \in Nat /\ f \in Nat
  BY <1>1
<1>3. B \subseteq 0..f /\ A \subseteq B
  <2>1. ASSUME NEW g \in S, g < f PROVE g \in 0..f
    BY <1>2, <2>1
  <2>2. ASSUME NEW g \in S, g < e PROVE g < f
    BY <1>2, <2>2
  <2> QED BY <2>1, <2>2
<1> HIDE DEF A, B
<1>4. IsFiniteSet(0..f)
  BY <1>2, FS_Interval
<1>5. IsFiniteSet(B)
  BY <1>3, <1>4, FS_Subset
<1>6. /\ Cardinality(A) <= Cardinality(B)
      /\ Cardinality(A) \in Nat /\ Cardinality(B) \in Nat
  BY <1>3, <1>5, FS_Subset, FS_CardinalityType
<1>7. Cardinality(A) < Take
  BY <1>1, <1>6, TakeAssumption
<1> QED BY <1>7 DEF First, A

LEMMA RowsRead ==
  ASSUME IInv, NEW i \in Instances, ReadRows(i)
  PROVE  IInv'
<1> DEFINE S == {e \in journal : e > batch[i].from}
           rows == First(S)
<1>1. /\ batch[i].at = "fetched"
      /\ batch' = [batch EXCEPT ![i].rows = rows, ![i].to = bound,
                                ![i].at = IF rows = {} THEN "empty" ELSE "posting"]
      /\ UNCHANGED <<journal, bound, cursor, told, late, faults>>
  BY DEF ReadRows
<1>2. S \subseteq journal /\ rows \subseteq S
  BY DEF First
<1> S \in SUBSET Nat /\ S \subseteq Events
  BY <1>2, Tables
<1>3. ASSUME NEW e \in S, NEW f \in rows, e <= f PROVE e \in rows
  BY <1>3, FirstIsLowest
<1>4. ASSUME NEW e \in journal, batch[i].from < e PROVE e \in S
  <2>1. e \in Nat /\ batch[i].from \in Nat
    BY Tables
  <2> QED BY <1>4, <2>1
<1> HIDE DEF S, rows
<1>5. /\ batch' \in [Instances -> Batch]
      /\ batch'[i].rows = rows /\ batch'[i].to = bound
      /\ batch'[i].at = IF rows = {} THEN "empty" ELSE "posting"
      /\ batch'[i].from = batch[i].from /\ batch'[i].last = batch[i].last
      /\ \A j \in Instances \ {i} : batch'[j] = batch[j]
  BY <1>1, <1>2, Tables DEF IInv, TypeOK, Batch
<1>6. TypeOK'
  BY <1>1, <1>5 DEF IInv, TypeOK
<1>7. batch[i].last = 0
  BY <1>1 DEF IInv, BatchStands
<1>8. ASSUME NEW j \in Instances PROVE BatchStands(j)'
  <2>1. CASE j = i
    <3>1. ASSUME NEW e \in journal, Reached(i, e)' PROVE e \in rows
      <4>1. batch[i].from < e /\ (e <= 0 \/ \E f \in rows : e <= f)
        BY <1>5, <1>7, <3>1 DEF Reached
      <4>2. e \in Nat /\ e # 0
        BY Tables
      <4> QED BY <1>3, <1>4, <4>1, <4>2
    <3>2. \A f \in rows : 0 < f
      BY <1>2, Tables
    <3> QED BY <1>1, <1>5, <1>7, <2>1, <3>1, <3>2 DEF BatchStands
  <2>2. CASE j # i
    <3>1. BatchStands(j) /\ batch'[j] = batch[j]
      BY <1>5, <2>2 DEF IInv
    <3> QED BY <1>1, <3>1 DEF BatchStands, Reached, Settled
  <2> QED BY <2>1, <2>2
<1> QED BY <1>1, <1>6, <1>8 DEF IInv, BehindTheCursorIsTold

LEMMA Posted ==
  ASSUME IInv, NEW i \in Instances, Process(i)
  PROVE  IInv'
<1> PICK e \in batch[i].rows :
      /\ IsNext(i, e)
      /\ told' = IF e \in Texted THEN told \cup {e} \X batch[i].to ELSE told
      /\ Processed(i, e)
  BY DEF Process
<1>1. /\ batch[i].at = "posting"
      /\ batch' = [batch EXCEPT ![i].rows = @ \ {e}, ![i].last = e,
                                ![i].at = IF batch[i].rows = {e} THEN "moving" ELSE "posting"]
      /\ UNCHANGED <<journal, bound, cursor, late, faults>>
  BY DEF Process, Processed
<1>2. /\ e \in Events /\ e \in Nat
      /\ \A f \in batch[i].rows : e <= f /\ f \in Nat
  BY Tables DEF IsNext
<1>3. /\ batch' \in [Instances -> Batch]
      /\ batch'[i].rows = batch[i].rows \ {e} /\ batch'[i].to = batch[i].to
      /\ batch'[i].at = IF batch[i].rows = {e} THEN "moving" ELSE "posting"
      /\ batch'[i].from = batch[i].from /\ batch'[i].last = e
      /\ \A j \in Instances \ {i} : batch'[j] = batch[j]
  BY <1>1, <1>2, Tables DEF IInv, TypeOK, Batch, Position
<1>4. told' \subseteq Notice /\ told \subseteq told'
  <2>1. batch[i].to \subseteq Parties
    BY Tables DEF Batch
  <2> QED BY <1>2, <2>1 DEF IInv, TypeOK, Notice
<1>5. TypeOK'
  BY <1>1, <1>3, <1>4 DEF IInv, TypeOK
<1>6. \A f, p : Settled(f, p) => Settled(f, p)'
  BY <1>1, <1>4 DEF Settled
<1>7. e \in Texted => \A p \in batch[i].to : Settled(e, p)'
  BY DEF Settled
<1>8. ASSUME NEW j \in Instances PROVE BatchStands(j)'
  <2>1. CASE j = i
    <3>1. ASSUME NEW f \in journal \cap Texted, NEW p \in bound, Reached(i, f)'
          PROVE  Settled(f, p)' \/ (f \in batch'[i].rows /\ p \in batch'[i].to)
      <4>1. Reached(i, f)
        BY <1>3, <3>1 DEF Reached
      <4>2. Settled(f, p) \/ (f \in batch[i].rows /\ p \in batch[i].to)
        BY <4>1 DEF IInv, BatchStands
      <4> QED BY <1>3, <1>6, <1>7, <4>2
    <3>2. \A f \in batch'[i].rows : e < f
      BY <1>2, <1>3
    <3>3. batch'[i].at # "posting" => batch'[i].rows = {}
      BY <1>3
    <3>4. batch'[i].at \notin {"idle", "fetched", "empty"}
      BY <1>3
    <3> QED BY <1>1, <1>3, <2>1, <3>1, <3>2, <3>3, <3>4 DEF BatchStands
  <2>2. CASE j # i
    <3>1. BatchStands(j) /\ batch'[j] = batch[j]
      BY <1>3, <2>2 DEF IInv
    <3> QED BY <1>1, <1>6, <3>1 DEF BatchStands, Reached
  <2> QED BY <2>1, <2>2
<1>9. BehindTheCursorIsTold'
  BY <1>1, <1>4 DEF IInv, BehindTheCursorIsTold
<1> QED BY <1>5, <1>8, <1>9 DEF IInv

LEMMA PostFailed ==
  ASSUME IInv, NEW i \in Instances, PostFails(i)
  PROVE  IInv'
<1>1. /\ batch' = [batch EXCEPT ![i] = Idle]
      /\ UNCHANGED <<journal, bound, cursor, late>>
      /\ faults' = faults + 1
  BY DEF PostFails
<1>2. told \subseteq told' /\ told' \subseteq Notice
  <2>1. PICK e \in batch[i].rows \cap Texted, to \in SUBSET batch[i].to :
          told' = told \cup {e} \X to
    BY DEF PostFails
  <2>2. e \in Events /\ to \subseteq Parties
    BY Tables DEF Batch
  <2> QED BY <2>1, <2>2 DEF IInv, TypeOK, Notice
<1>3. batch' \in [Instances -> Batch] /\ \A j \in Instances : BatchStands(j)'
  BY <1>1, <1>2, BatchEnds
<1>4. TypeOK'
  BY <1>1, <1>2, <1>3 DEF IInv, TypeOK
<1>5. BehindTheCursorIsTold'
  BY <1>1, <1>2 DEF IInv, BehindTheCursorIsTold
<1> QED BY <1>3, <1>4, <1>5 DEF IInv

LEMMA DeadlinePassed ==
  ASSUME IInv, NEW i \in Instances, Deadline(i)
  PROVE  IInv'
<1>1. /\ batch[i].at = "posting"
      /\ batch' = [batch EXCEPT ![i].at = "moving", ![i].rows = {}]
      /\ UNCHANGED <<journal, bound, cursor, told, late, faults>>
  BY DEF Deadline
<1>2. /\ batch' \in [Instances -> Batch]
      /\ batch'[i].at = "moving" /\ batch'[i].rows = {}
      /\ batch'[i].from = batch[i].from /\ batch'[i].last = batch[i].last
      /\ \A j \in Instances \ {i} : batch'[j] = batch[j]
  BY <1>1 DEF IInv, TypeOK, Batch
<1>3. TypeOK'
  BY <1>1, <1>2 DEF IInv, TypeOK
<1>4. ASSUME NEW j \in Instances PROVE BatchStands(j)'
  <2>1. CASE j = i
    <3>1. ASSUME NEW e \in journal \cap Texted, NEW p \in bound, Reached(i, e)'
          PROVE  Settled(e, p)
      <4>1. Reached(i, e) /\ e <= batch[i].last
        BY <1>2, <3>1 DEF Reached
      <4>2. e \notin batch[i].rows
        BY <4>1, Tables DEF IInv, BatchStands
      <4> QED BY <4>1, <4>2 DEF IInv, BatchStands
    <3> QED BY <1>1, <1>2, <2>1, <3>1 DEF BatchStands, Settled
  <2>2. CASE j # i
    <3>1. BatchStands(j) /\ batch'[j] = batch[j]
      BY <1>2, <2>2 DEF IInv
    <3> QED BY <1>1, <3>1 DEF BatchStands, Reached, Settled
  <2> QED BY <2>1, <2>2
<1> QED BY <1>1, <1>3, <1>4 DEF IInv, BehindTheCursorIsTold

LEMMA CursorMoved ==
  ASSUME IInv, NEW i \in Instances, MoveCursor(i) \/ ResetCursor(i)
  PROVE  IInv'
<1> DEFINE position == IF batch[i].at = "moving" THEN batch[i].last ELSE 0
<1>1. /\ cursor' = IF cursor = batch[i].from THEN position ELSE cursor
      /\ batch' = [batch EXCEPT ![i] = Idle]
      /\ UNCHANGED <<journal, bound, told, late, faults>>
  BY DEF MoveCursor, ResetCursor, MoveFrom
<1>2. batch' \in [Instances -> Batch] /\ \A j \in Instances : BatchStands(j)'
  <2>1. told' \subseteq Notice
    BY <1>1 DEF IInv, TypeOK
  <2> QED BY <1>1, <2>1, BatchEnds
<1>3. TypeOK'
  <2>1. cursor' \in Position
    BY <1>1, Tables DEF Batch, Position
  <2> QED BY <1>1, <1>2, <2>1 DEF IInv, TypeOK
<1>4. ASSUME cursor = batch[i].from, batch[i].at = "moving",
             NEW e \in journal \cap Texted, NEW p \in bound, e <= batch[i].last
      PROVE  Settled(e, p)
  <2>1. CASE e <= cursor
    BY <2>1 DEF IInv, BehindTheCursorIsTold, Settled
  <2>2. CASE ~(e <= cursor)
    <3>1. Reached(i, e)
      BY <1>4, <2>2, Tables DEF Reached
    <3>2. batch[i].rows = {}
      BY <1>4 DEF IInv, BatchStands
    <3> QED BY <3>1, <3>2 DEF IInv, BatchStands
  <2> QED BY <2>1, <2>2
<1>5. BehindTheCursorIsTold'
  <2>1. ASSUME NEW e \in journal \cap Texted, NEW p \in bound, e <= cursor'
        PROVE  Settled(e, p)
    <3>1. e \in Nat /\ e # 0
      BY Tables
    <3>2. CASE cursor = batch[i].from
      BY <1>1, <1>4, <2>1, <3>1, <3>2
    <3>3. CASE cursor # batch[i].from
      BY <1>1, <2>1, <3>3 DEF IInv, BehindTheCursorIsTold, Settled
    <3> QED BY <3>2, <3>3
  <2> QED BY <1>1, <2>1 DEF BehindTheCursorIsTold, Settled
<1> QED BY <1>2, <1>3, <1>5 DEF IInv

LEMMA Died ==
  ASSUME IInv, NEW i \in Instances, Die(i)
  PROVE  IInv'
<1>1. /\ batch' = [batch EXCEPT ![i] = Idle]
      /\ UNCHANGED <<journal, bound, cursor, told, late>>
      /\ faults' = faults + 1
  BY DEF Die
<1>2. batch' \in [Instances -> Batch] /\ \A j \in Instances : BatchStands(j)'
  <2>1. told' \subseteq Notice
    BY <1>1 DEF IInv, TypeOK
  <2> QED BY <1>1, <2>1, BatchEnds
<1> QED BY <1>1, <1>2 DEF IInv, TypeOK, BehindTheCursorIsTold

LEMMA IInvInit == Init => IInv
  BY IdleStands, EventsAssumption
  DEF Init, IInv, TypeOK, Position, Notice, BatchStands, BehindTheCursorIsTold

LEMMA IInvNext == IInv /\ [Next]_vars => IInv'
<1> SUFFICES ASSUME IInv, [Next]_vars PROVE IInv'
  OBVIOUS
<1>1. CASE \E e \in Events : Commit(e)
  BY <1>1, Committed
<1>2. CASE \E p \in Parties : Join(p)
  BY <1>2, Joined
<1>3. CASE \E i \in Instances : Step(i) \/ PostFails(i) \/ Deadline(i) \/ Die(i)
  BY <1>3, CursorFetched, RowsRead, Posted, CursorMoved, PostFailed, DeadlinePassed, Died
  DEF Step
<1>4. CASE UNCHANGED vars
  BY <1>4 DEF vars, IInv, TypeOK, BatchStands, Reached, Settled, BehindTheCursorIsTold
<1> QED BY <1>1, <1>2, <1>3, <1>4 DEF Next

LEMMA Invariance == Spec => []IInv
  BY IInvInit, IInvNext, PTL DEF Spec

-----------------------------------------------------------------------------
\* The journal, the cursor, the notices and the batches keep their types.
THEOREM NotifyTypeCorrect == Spec => []TypeOK
<1>1. IInv => TypeOK
  BY DEF IInv
<1> QED BY <1>1, Invariance, PTL

\* The cursor passes no event that was not posted to a party, except those
\* that a batch came past before it committed or before the party joined
\* (BehindTheCursorIsTold).
THEOREM BehindTheCursorIsToldAlways == Spec => []BehindTheCursorIsTold
<1>1. IInv => BehindTheCursorIsTold
  BY DEF IInv
<1> QED BY <1>1, Invariance, PTL

=============================================================================
