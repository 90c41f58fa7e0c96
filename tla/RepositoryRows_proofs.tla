------------------------ MODULE RepositoryRows_proofs ------------------------
(***************************************************************************)
(* Proofs about the two repositories, for every set of processings, keys   *)
(* and rows of schema 0001: no call is refused by a CHECK or by a          *)
(* constructor, the in-memory repository cannot be told from the tables,   *)
(* and the rows of the old schema stay settled.                            *)
(*                                                                         *)
(* The invariant is about one processing at a time: which columns its row  *)
(* has in each state, which state its attempt is in, and that the record   *)
(* in memory mirrors the row.  Of the order it says that the two           *)
(* repositories put the processings they share in the same one.            *)
(***************************************************************************)
EXTENDS RepositoryRows, UpdateOrder_proofs

-----------------------------------------------------------------------------
(* One processing. *)

\* The columns of a row of this version in each of its states.
RowOK(r) ==
    /\ r.state = "none" => r.key = None
    /\ r.state # "none" => r.key \in Keys
    /\ r.state \in {"none", "accepted"} => r.decision = None /\ r.has = {}
    /\ r.state \in Executing =>
         /\ r.decision = "investigate"
         /\ {"request", "selected_backend"} \subseteq r.has
         /\ r.has \subseteq {"request", "selected_backend", "error"}
    /\ r.state = "recovery_required" => "error" \in r.has
    /\ r.state = "completed" =>
         \/ r.decision = "no_action" /\ r.has = {"completed_at"}
         \/ /\ r.decision = "investigate"
            /\ r.has = {"request", "selected_backend", "result", "completed_at"}
    /\ r.state = "failed" =>
         \/ r.decision = None /\ r.has = {"failed_at", "error"}
         \/ /\ r.decision = "investigate"
            /\ r.has = {"request", "selected_backend", "failed_at", "error"}

\* The columns a submission leaves.
Submission == {"started_at", "submitted_at", "external_operation_id"}

\* The columns of an attempt in each of its states.
AttOK(a) ==
    /\ a.state \in {"none", "planned"} => a.has = {}
    /\ a.state = "submitting" => a.has = {"started_at"}
    /\ a.state = "submitted" =>
         Submission \subseteq a.has /\ a.has \subseteq Submission \cup {"last_polled_at", "error"}
    /\ a.state = "completed" => a.has = Submission \cup {"completed_at", "last_polled_at"}
    /\ a.state = "failed" => {"failed_at", "error"} \subseteq a.has /\ "completed_at" \notin a.has
    /\ a.state = "recovery_required" =>
         /\ {"started_at", "error"} \subseteq a.has
         /\ "completed_at" \notin a.has /\ "failed_at" \notin a.has

\* The state of the attempt follows that of the row.
Coupled(r, a) ==
    /\ r.state \in {"none", "accepted"} => a.state = "none"
    /\ r.state \in Executing => a.state = r.state
    /\ r.state = "completed" => a.state = IF r.decision = "no_action" THEN "none" ELSE "completed"
    /\ r.state = "failed" => a.state \in {"none", "failed"}

\* The record in memory has what the row has.
Mirrors(r, m) ==
    /\ m.state = r.state /\ m.key = r.key
    /\ m.decision = IF r.decision = "investigate" THEN "investigate" ELSE None
    /\ m.planned <=> "request" \in r.has
    /\ m.result = IF r.state = "completed" THEN r.decision ELSE None
    /\ m.has = r.has \cap RecordFields

Cell(r, a, m) ==
    /\ r \in Row /\ a \in Attempt /\ m \in Record
    /\ RowOK(r) /\ AttOK(a) /\ Coupled(r, a) /\ Mirrors(r, m)

\* A row of schema 0001 after the migration.
LegacyOK(r) ==
    /\ r \in Row /\ r.state = "completed" /\ r.key = None
    /\ \/ r.decision = "no_action" /\ r.has = {"completed_at"}
       \/ r.decision = "investigate" /\ r.has = {"request", "result", "completed_at"}

-----------------------------------------------------------------------------
(* Both stores. *)

StoresTyped ==
    /\ pg \in [row: [Ids -> Row], attempt: [Ids -> Attempt], order: Seq(Ids)]
    /\ memory \in [record: [Ids -> Record], attempt: [Ids -> Attempt], order: Seq(Ids)]

CellsOK ==
    \A i \in NewIds :
        /\ Cell(pg.row[i], pg.attempt[i], memory.record[i])
        /\ memory.attempt[i] = pg.attempt[i]

LegacyCellsOK ==
    \A i \in LegacyIds :
        /\ LegacyOK(pg.row[i]) /\ pg.attempt[i] = NoAttempt
        /\ memory.record[i].state = "none" /\ memory.record[i].key = None

Stored == {i \in Ids : pg.row[i].state # "none"}

OrdersOK ==
    /\ Once(pg.order) /\ Listed(pg.order) = Stored
    /\ Once(memory.order) /\ Listed(memory.order) = Stored \cap NewIds
    /\ \A i, j \in NewIds : Earlier(pg.order, i, j) <=> Earlier(memory.order, i, j)

\* The inductive invariant.
Inv ==
    /\ StoresTyped /\ CellsOK /\ LegacyCellsOK /\ OrdersOK
    /\ NeverRefused /\ SameAnswers

-----------------------------------------------------------------------------
(* What a processing as the invariant has it satisfies. *)

\* NULL is not a decision.
LEMMA NullFacts == None # "investigate" /\ None # "no_action"
BY NullAssumption DEF Decisions

\* An attempt without a state is no attempt.
LEMMA NoAttemptIs ==
    ASSUME NEW a \in Attempt, AttOK(a)
    PROVE  a = NoAttempt <=> a.state = "none"
BY DEF Attempt, AttOK, NoAttempt

\* The CHECK of processing_records accepts the row.
LEMMA CellRowChecks ==
    ASSUME NEW r \in Row, RowOK(r), r.state # "none"
    PROVE  RowChecks(r)
<1>1. r.state \in States
  BY DEF Row
<1>2. CASE r.state = "accepted"
  BY <1>2 DEF RowOK, RowChecks
<1>3. CASE r.state \in Executing
  <2>1. /\ r.decision = "investigate"
        /\ {"request", "selected_backend"} \subseteq r.has
        /\ r.has \subseteq {"request", "selected_backend", "error"}
        /\ r.state = "recovery_required" => "error" \in r.has
    BY <1>3 DEF RowOK
  <2>2. r.has \cap {"result", "completed_at", "failed_at"} = {}
    BY <2>1
  <2> QED BY <1>3, <2>1, <2>2 DEF RowChecks
<1>4. CASE r.state = "completed"
  <2>1. CASE r.decision = "no_action" /\ r.has = {"completed_at"}
    BY <1>4, <2>1 DEF RowChecks
  <2>2. CASE /\ r.decision = "investigate"
             /\ r.has = {"request", "selected_backend", "result", "completed_at"}
    BY <1>4, <2>2 DEF RowChecks
  <2> QED BY <1>4, <2>1, <2>2 DEF RowOK
<1>5. CASE r.state = "failed"
  <2>1. {"failed_at", "error"} \subseteq r.has /\ r.has \cap {"completed_at", "result"} = {}
    BY <1>5 DEF RowOK
  <2> QED BY <1>5, <2>1 DEF RowChecks
<1> QED BY <1>1, <1>2, <1>3, <1>4, <1>5 DEF States, Executing

\* The CHECK of execution_attempts and the constructor accept the attempt.
LEMMA CellAttemptChecks ==
    ASSUME NEW a \in Attempt, AttOK(a), a.state # "none"
    PROVE  AttemptChecks(a) /\ AttemptValid(a)
<1>1. a.state \in {"planned", "submitting", "submitted", "completed", "failed",
                   "recovery_required"}
  BY DEF Attempt, States
<1>2. CASE a.state \in {"planned", "submitting"}
  BY <1>2 DEF AttOK, AttemptChecks, AttemptValid
<1>3. CASE a.state = "submitted"
  <2>1. /\ {"started_at", "submitted_at", "external_operation_id"} \subseteq a.has
        /\ a.has \cap {"completed_at", "failed_at"} = {}
    BY <1>3 DEF AttOK, Submission
  <2> QED BY <1>3, <2>1 DEF AttemptChecks, AttemptValid
<1>4. CASE a.state = "completed"
  <2>1. /\ AttemptColumns \ {"failed_at", "error", "last_polled_at"} \subseteq a.has
        /\ {"started_at", "submitted_at", "external_operation_id", "completed_at"}
             \subseteq a.has
        /\ "failed_at" \notin a.has
    BY <1>4 DEF AttOK, Submission, AttemptColumns
  <2> QED BY <1>4, <2>1 DEF AttemptChecks, AttemptValid
<1>5. CASE a.state = "failed"
  BY <1>5 DEF AttOK, AttemptChecks, AttemptValid
<1>6. CASE a.state = "recovery_required"
  <2>1. /\ {"started_at", "error"} \subseteq a.has
        /\ a.has \cap {"completed_at", "failed_at"} = {}
    BY <1>6 DEF AttOK
  <2> QED BY <1>6, <2>1 DEF AttemptChecks, AttemptValid
<1> QED BY <1>1, <1>2, <1>3, <1>4, <1>5, <1>6

\* The fields of what a row is read as.
LEMMA DeserializeFields ==
    ASSUME NEW r \in Row
    PROVE  /\ Deserialize(r).state = r.state /\ Deserialize(r).key = r.key
           /\ Deserialize(r).decision = IF r.state = "completed" THEN None ELSE r.decision
           /\ Deserialize(r).planned
                <=> r.state # "completed" /\ r.decision = "investigate" /\ "request" \in r.has
           /\ Deserialize(r).result = IF r.state = "completed" THEN r.decision ELSE None
           /\ Deserialize(r).has = r.has \cap RecordFields
BY DEF Deserialize

\* The constructor accepts the record that mirrors a row.
LEMMA CellRecordValid ==
    ASSUME NEW r \in Row, RowOK(r), r.state # "none", NEW m \in Record, Mirrors(r, m)
    PROVE  RecordValid(m)
<1>1. r.state \in States
  BY DEF Row
<1>2. CASE r.state = "accepted"
  BY <1>2, NullFacts DEF RowOK, Mirrors, RecordValid
<1>3. CASE r.state \in Executing
  <2>1. /\ r.decision = "investigate" /\ r.state # "completed"
        /\ "request" \in r.has /\ "selected_backend" \in r.has
    BY <1>3 DEF RowOK, Executing
  <2>2. /\ m.state \in Executing /\ m.decision = "investigate" /\ m.planned
        /\ "selected_backend" \in m.has /\ m.result = None
    BY <1>3, <2>1 DEF Mirrors, RecordFields
  <2> QED BY <2>2, NullFacts DEF RecordValid
<1>4. CASE r.state = "completed"
  <2>1. /\ r.decision # None /\ "completed_at" \in r.has /\ "failed_at" \notin r.has
    BY <1>4, NullFacts DEF RowOK
  <2>2. /\ m.state = "completed" /\ m.result # None
        /\ "completed_at" \in m.has /\ "failed_at" \notin m.has
    BY <1>4, <2>1 DEF Mirrors, RecordFields
  <2> QED BY <2>2 DEF RecordValid
<1>5. CASE r.state = "failed"
  <2>1. {"failed_at", "error"} \subseteq r.has /\ "completed_at" \notin r.has
    BY <1>5 DEF RowOK
  <2>2. /\ m.state = "failed" /\ {"failed_at", "error"} \subseteq m.has
        /\ "completed_at" \notin m.has /\ m.result = None
    BY <1>5, <2>1 DEF Mirrors, RecordFields
  <2> QED BY <2>2 DEF RecordValid
<1> QED BY <1>1, <1>2, <1>3, <1>4, <1>5 DEF States, Executing

\* The row can be read.
LEMMA CellReadable ==
    ASSUME NEW r \in Row, RowOK(r), r.state # "none"
    PROVE  Readable(r)
<1> DEFINE d == Deserialize(r)
<1>0. /\ d.state = r.state /\ d.key = r.key
      /\ d.decision = IF r.state = "completed" THEN None ELSE r.decision
      /\ d.planned
           <=> r.state # "completed" /\ r.decision = "investigate" /\ "request" \in r.has
      /\ d.result = IF r.state = "completed" THEN r.decision ELSE None
      /\ d.has = r.has \cap RecordFields
  BY DeserializeFields
<1> HIDE DEF d
<1>1. r.state \in States
  BY DEF Row
<1>2. CASE r.state = "accepted"
  <2>1. RecordValid(d)
    BY <1>0, <1>2, NullFacts DEF RowOK, RecordValid
  <2> QED BY <1>2, <2>1 DEF Readable, ResultReadable, d
<1>3. CASE r.state \in Executing
  <2>1. /\ r.decision = "investigate" /\ r.state # "completed"
        /\ "request" \in r.has /\ "selected_backend" \in r.has
    BY <1>3 DEF RowOK, Executing
  <2>2. /\ d.state \in Executing /\ d.decision = "investigate" /\ d.planned
        /\ "selected_backend" \in d.has /\ d.result = None
    BY <1>0, <1>3, <2>1 DEF RecordFields
  <2>3. RecordValid(d)
    BY <2>2, NullFacts DEF RecordValid
  <2> QED BY <2>1, <2>3 DEF Readable, ResultReadable, d
<1>4. CASE r.state = "completed"
  <2>1. /\ r.decision # None /\ "completed_at" \in r.has /\ "failed_at" \notin r.has
        /\ \/ r.decision = "no_action"
           \/ r.decision = "investigate" /\ {"request", "result"} \subseteq r.has
    BY <1>4, NullFacts DEF RowOK
  <2>2. /\ d.state = "completed" /\ d.result # None
        /\ "completed_at" \in d.has /\ "failed_at" \notin d.has
    BY <1>0, <1>4, <2>1 DEF RecordFields
  <2>3. RecordValid(d)
    BY <2>2 DEF RecordValid
  <2> QED BY <2>1, <2>3 DEF Readable, ResultReadable, d
<1>5. CASE r.state = "failed"
  <2>1. {"failed_at", "error"} \subseteq r.has /\ "completed_at" \notin r.has
    BY <1>5 DEF RowOK
  <2>2. /\ d.state = "failed" /\ {"failed_at", "error"} \subseteq d.has
        /\ "completed_at" \notin d.has /\ d.result = None
    BY <1>0, <1>5, <2>1 DEF RecordFields
  <2>3. RecordValid(d)
    BY <2>2 DEF RecordValid
  <2> QED BY <1>5, <2>3 DEF Readable, ResultReadable, d
<1> QED BY <1>1, <1>2, <1>3, <1>4, <1>5 DEF States, Executing

\* Whoever reads the row sees what whoever reads the record sees.
LEMMA CellView ==
    ASSUME NEW r \in Row, RowOK(r), NEW m \in Record, Mirrors(r, m)
    PROVE  View(Deserialize(r)) = View(m)
<1> DEFINE d == Deserialize(r)
           dq == IF d.result # None THEN d.result = "investigate" ELSE d.planned
           mq == IF m.result # None THEN m.result = "investigate" ELSE m.planned
           dd == IF d.result # None THEN d.result ELSE d.decision
           md == IF m.result # None THEN m.result ELSE m.decision
<1>1. /\ d.state = m.state /\ d.key = m.key /\ d.result = m.result /\ d.has = m.has
  BY DeserializeFields DEF Mirrors
<1>2. r.state \in States \cup {"none"} /\ r.decision \in Decisions \cup {None}
  BY DEF Row
<1>3. dd = md
  <2>1. CASE r.state = "completed"
    <3>1. r.decision # None
      BY <2>1, NullFacts DEF RowOK
    <3>2. d.result = r.decision /\ m.result = r.decision
      BY <2>1, DeserializeFields DEF Mirrors
    <3> QED BY <3>1, <3>2
  <2>2. CASE r.state # "completed"
    <3>1. r.decision \in {None, "investigate"}
      BY <1>2, <2>2 DEF RowOK, States, Executing
    <3>2. /\ d.result = None /\ m.result = None /\ d.decision = r.decision
          /\ m.decision = IF r.decision = "investigate" THEN "investigate" ELSE None
      BY <2>2, DeserializeFields DEF Mirrors
    <3> QED BY <3>1, <3>2
  <2> QED BY <2>1, <2>2
<1>4. dq <=> mq
  <2>1. CASE r.state = "completed"
    <3>1. r.decision # None
      BY <2>1, NullFacts DEF RowOK
    <3>2. d.result = r.decision /\ m.result = r.decision
      BY <2>1, DeserializeFields DEF Mirrors
    <3> QED BY <3>1, <3>2
  <2>2. CASE r.state # "completed"
    <3>1. "request" \in r.has => r.decision = "investigate"
      BY <1>2, <2>2 DEF RowOK, States, Executing
    <3>2. d.result = None /\ m.result = None
      BY <2>2, DeserializeFields DEF Mirrors
    <3>3. d.planned <=> r.decision = "investigate" /\ "request" \in r.has
      BY <2>2, DeserializeFields
    <3>4. m.planned <=> "request" \in r.has
      BY DEF Mirrors
    <3> HIDE DEF d
    <3> QED BY <3>1, <3>2, <3>3, <3>4
  <2> QED BY <2>1, <2>2
<1>5. dq \in BOOLEAN /\ mq \in BOOLEAN
  <2>1. d.planned \in BOOLEAN /\ m.planned \in BOOLEAN
    BY DEF Deserialize, Record
  <2> HIDE DEF d
  <2> QED BY <2>1
<1>6. dq = mq
  <2> HIDE DEF dq, mq
  <2> QED BY <1>4, <1>5
<1>7. /\ View(d) = [state |-> d.state, key |-> d.key, decision |-> dd, request |-> dq,
                    result |-> d.result, has |-> d.has]
      /\ View(m) = [state |-> m.state, key |-> m.key, decision |-> md, request |-> mq,
                    result |-> m.result, has |-> m.has]
  <2> HIDE DEF d
  <2> QED BY Zenon DEF View
<1>8. View(d) = View(m)
  <2> HIDE DEF d, dd, md, dq, mq
  <2> QED BY <1>1, <1>3, <1>6, <1>7
<1> QED BY <1>8 DEF d

-----------------------------------------------------------------------------
(* What a call does to both stores. *)

\* A call that returns a processing returns the same from both.
LEMMA ReturnedSame ==
    ASSUME NEW r, NEW a, NEW m, Cell(r, a, m)
    PROVE  /\ ReturnedRow(r) = ReturnedRecord(m)
           /\ ReturnedRow(r) # Failure("refused")
<1>1. View(Deserialize(r)) = View(m)
  BY CellView DEF Cell
<1> QED BY <1>1 DEF ReturnedRow, ReturnedRecord, Failure

\* A call that misses changes nothing.
LEMMA MissInv ==
    ASSUME Inv, pg' = pg, memory' = memory,
           answer'.pg \in {Failure("missed"), Failure("diverged")},
           answer'.memory = Failure("missed")
    PROVE  Inv'
<1>1. NeverRefused' /\ SameAnswers'
  BY DEF NeverRefused, SameAnswers, Failure
<1> QED
  BY <1>1 DEF Inv, StoresTyped, CellsOK, LegacyCellsOK, OrdersOK, Stored

\* A call that commits writes a processing of the same shape to both, behind
\* all others, and answers the same from both.
LEMMA CommitInv ==
    ASSUME Inv, NEW i \in NewIds, NEW row, NEW att, NEW record,
           Cell(row, att, record), row.state # "none",
           pg' = [pg EXCEPT !.row[i] = row, !.attempt[i] = att,
                            !.order = Touch(pg.order, i)],
           memory' = [memory EXCEPT !.record[i] = record, !.attempt[i] = att,
                                    !.order = Touch(memory.order, i)],
           answer'.pg = answer'.memory, answer'.pg # Failure("refused")
    PROVE  Inv'
<1> DEFINE po == Touch(pg.order, i)
           mo == Touch(memory.order, i)
<1>0. /\ StoresTyped /\ CellsOK /\ LegacyCellsOK /\ OrdersOK
      /\ i \in Ids /\ i \notin LegacyIds
  BY IdsAssumption DEF Inv, Ids
<1>1. /\ po \in Seq(Ids) /\ Once(po) /\ Listed(po) = Stored \cup {i}
      /\ mo \in Seq(Ids) /\ Once(mo) /\ Listed(mo) = (Stored \cap NewIds) \cup {i}
  <2>1. pg.order \in Seq(Ids) /\ memory.order \in Seq(Ids)
    BY <1>0 DEF StoresTyped
  <2> QED BY <1>0, <2>1, TouchListed DEF OrdersOK
<1>2. \A a, b \in NewIds : Earlier(po, a, b) <=> Earlier(mo, a, b)
  <2> SUFFICES ASSUME NEW a \in NewIds, NEW b \in NewIds
               PROVE  Earlier(po, a, b) <=> Earlier(mo, a, b)
    OBVIOUS
  <2>1. pg.order \in Seq(Ids) /\ memory.order \in Seq(Ids)
    BY <1>0 DEF StoresTyped
  <2>2. Earlier(po, a, b)
          <=> \/ a # i /\ b # i /\ Earlier(pg.order, a, b)
              \/ b = i /\ (a = i \/ a \in Listed(pg.order))
    BY <1>0, <2>1, TouchEarlier DEF OrdersOK
  <2>3. Earlier(mo, a, b)
          <=> \/ a # i /\ b # i /\ Earlier(memory.order, a, b)
              \/ b = i /\ (a = i \/ a \in Listed(memory.order))
    BY <1>0, <2>1, TouchEarlier DEF OrdersOK
  <2>4. /\ Earlier(pg.order, a, b) <=> Earlier(memory.order, a, b)
        /\ a \in Listed(pg.order) <=> a \in Listed(memory.order)
    BY <1>0 DEF OrdersOK
  <2> HIDE DEF po, mo
  <2> QED BY <2>2, <2>3, <2>4
<1>3. row \in Row /\ att \in Attempt /\ record \in Record
  BY DEF Cell
<1>4. /\ pg' = [pg EXCEPT !.row[i] = row, !.attempt[i] = att, !.order = po]
      /\ memory' = [memory EXCEPT !.record[i] = record, !.attempt[i] = att, !.order = mo]
  OBVIOUS
<1> HIDE DEF po, mo
<1>5. /\ pg'.row = [pg.row EXCEPT ![i] = row]
      /\ pg'.attempt = [pg.attempt EXCEPT ![i] = att]
      /\ pg'.order = po
      /\ pg' \in [row: [Ids -> Row], attempt: [Ids -> Attempt], order: Seq(Ids)]
  <2> DEFINE nr == [pg.row EXCEPT ![i] = row]
             na == [pg.attempt EXCEPT ![i] = att]
  <2>1. pg' = [pg EXCEPT !.row = nr, !.attempt = na, !.order = po]
    BY <1>0, <1>4 DEF StoresTyped
  <2>2. nr \in [Ids -> Row] /\ na \in [Ids -> Attempt]
    BY <1>0, <1>3 DEF StoresTyped
  <2> HIDE DEF nr, na
  <2>3. /\ pg'.row = nr /\ pg'.attempt = na /\ pg'.order = po
        /\ pg' \in [row: [Ids -> Row], attempt: [Ids -> Attempt], order: Seq(Ids)]
    BY <1>0, <1>1, <2>1, <2>2 DEF StoresTyped
  <2> QED BY <2>3 DEF nr, na
<1>6. /\ memory'.record = [memory.record EXCEPT ![i] = record]
      /\ memory'.attempt = [memory.attempt EXCEPT ![i] = att]
      /\ memory'.order = mo
      /\ memory' \in [record: [Ids -> Record], attempt: [Ids -> Attempt], order: Seq(Ids)]
  <2> DEFINE nr == [memory.record EXCEPT ![i] = record]
             na == [memory.attempt EXCEPT ![i] = att]
  <2>1. memory' = [memory EXCEPT !.record = nr, !.attempt = na, !.order = mo]
    BY <1>0, <1>4 DEF StoresTyped
  <2>2. nr \in [Ids -> Record] /\ na \in [Ids -> Attempt]
    BY <1>0, <1>3 DEF StoresTyped
  <2> HIDE DEF nr, na
  <2>3. /\ memory'.record = nr /\ memory'.attempt = na /\ memory'.order = mo
        /\ memory' \in [record: [Ids -> Record], attempt: [Ids -> Attempt], order: Seq(Ids)]
    BY <1>0, <1>1, <2>1, <2>2 DEF StoresTyped
  <2> QED BY <2>3 DEF nr, na
<1>7. \A j \in Ids :
        /\ pg'.row[j] = IF j = i THEN row ELSE pg.row[j]
        /\ pg'.attempt[j] = IF j = i THEN att ELSE pg.attempt[j]
        /\ memory'.record[j] = IF j = i THEN record ELSE memory.record[j]
        /\ memory'.attempt[j] = IF j = i THEN att ELSE memory.attempt[j]
  BY <1>0, <1>5, <1>6 DEF StoresTyped
<1>8. StoresTyped'
  BY <1>5, <1>6 DEF StoresTyped
<1>9. CellsOK'
  <2> SUFFICES ASSUME NEW j \in NewIds
               PROVE  /\ Cell(pg'.row[j], pg'.attempt[j], memory'.record[j])
                      /\ memory'.attempt[j] = pg'.attempt[j]
    BY DEF CellsOK
  <2>1. j \in Ids
    BY DEF Ids
  <2> QED BY <1>0, <1>7, <2>1 DEF CellsOK
<1>10. LegacyCellsOK'
  <2> SUFFICES ASSUME NEW j \in LegacyIds
               PROVE  /\ LegacyOK(pg'.row[j]) /\ pg'.attempt[j] = NoAttempt
                      /\ memory'.record[j].state = "none" /\ memory'.record[j].key = None
    BY DEF LegacyCellsOK
  <2>1. j \in Ids /\ j # i
    BY <1>0 DEF Ids
  <2> QED BY <1>0, <1>7, <2>1 DEF LegacyCellsOK
<1>11. OrdersOK'
  <2>1. Stored' = Stored \cup {i}
    BY <1>0, <1>7 DEF Stored
  <2>2. Stored' \cap NewIds = (Stored \cap NewIds) \cup {i}
    BY <2>1
  <2> QED BY <1>1, <1>2, <1>5, <1>6, <2>1, <2>2 DEF OrdersOK
<1>12. NeverRefused' /\ SameAnswers'
  BY DEF NeverRefused, SameAnswers
<1> QED BY <1>8, <1>9, <1>10, <1>11, <1>12 DEF Inv

\* A transaction whose new row and attempt the CHECKs accept commits, and so
\* does a critical section whose new record and attempt the constructors do.
LEMMA Accepted ==
    ASSUME NEW row, NEW att, NEW record, Cell(row, att, record), row.state # "none"
    PROVE  /\ RowChecks(row) /\ RecordValid(record)
           /\ att = NoAttempt \/ AttemptChecks(att)
           /\ att = NoAttempt \/ AttemptValid(att)
<1>1. /\ row \in Row /\ att \in Attempt /\ record \in Record
      /\ RowOK(row) /\ AttOK(att) /\ Mirrors(row, record)
  BY DEF Cell
<1>2. RowChecks(row) /\ RecordValid(record)
  BY <1>1, CellRowChecks, CellRecordValid
<1>3. att = NoAttempt \/ (AttemptChecks(att) /\ AttemptValid(att))
  BY <1>1, CellAttemptChecks, NoAttemptIs
<1> QED BY <1>2, <1>3

\* A call on the attempt: it misses unless row and attempt are in the state it
\* expects, and then commits.
LEMMA AttemptCall ==
    ASSUME Inv, NEW i \in NewIds, NEW s, NEW row, NEW att, NEW record, NEW rp, NEW rm,
           pg.row[i].state = s /\ pg.attempt[i].state = s =>
             /\ Cell(row, att, record) /\ row.state # "none"
             /\ rp = rm /\ rp # Failure("refused"),
           Both(AttemptTransaction(i, s, row, att, rp),
                AttemptSection(i, s, record, att, rm))
    PROVE  Inv'
<1> DEFINE onPg     == AttemptTransaction(i, s, row, att, rp)
           onMemory == AttemptSection(i, s, record, att, rm)
<1>0. /\ pg' = onPg.store /\ memory' = onMemory.store
      /\ answer'.pg = onPg.answer /\ answer'.memory = onMemory.answer
  BY DEF Both
<1>1. /\ memory.attempt[i] = pg.attempt[i]
      /\ memory.record[i].state = pg.row[i].state
  BY DEF Inv, CellsOK, Cell, Mirrors
<1>2. CASE pg.attempt[i].state # s
  <2>1. onPg = [store |-> pg, answer |-> Failure("missed")]
    BY <1>2 DEF AttemptTransaction, Transaction
  <2>2. onMemory = [store |-> memory, answer |-> Failure("missed")]
    BY <1>1, <1>2 DEF AttemptSection, Section
  <2> HIDE DEF onPg, onMemory
  <2> QED BY <1>0, <2>1, <2>2, MissInv
<1>3. CASE pg.attempt[i].state = s /\ pg.row[i].state # s
  <2>1. onPg = [store |-> pg, answer |-> Failure("diverged")]
    BY <1>3 DEF AttemptTransaction, Transaction
  <2>2. onMemory = [store |-> memory, answer |-> Failure("missed")]
    BY <1>1, <1>3 DEF AttemptSection, Section
  <2> HIDE DEF onPg, onMemory
  <2> QED BY <1>0, <2>1, <2>2, MissInv
<1>4. CASE pg.attempt[i].state = s /\ pg.row[i].state = s
  <2>1. /\ Cell(row, att, record) /\ row.state # "none"
        /\ rp = rm /\ rp # Failure("refused")
    BY <1>4
  <2>2. /\ RowChecks(row) /\ RecordValid(record)
        /\ att = NoAttempt \/ AttemptChecks(att)
        /\ att = NoAttempt \/ AttemptValid(att)
    BY <2>1, Accepted
  <2>3. onPg = [store  |-> [pg EXCEPT !.row[i] = row, !.attempt[i] = att,
                                      !.order = Touch(pg.order, i)],
                answer |-> rp]
    BY <1>4, <2>2 DEF AttemptTransaction, Transaction
  <2>4. onMemory = [store  |-> [memory EXCEPT !.record[i] = record, !.attempt[i] = att,
                                              !.order = Touch(memory.order, i)],
                    answer |-> rm]
    BY <1>1, <1>4, <2>2 DEF AttemptSection, Section
  <2> HIDE DEF onPg, onMemory
  <2>5. /\ pg' = [pg EXCEPT !.row[i] = row, !.attempt[i] = att,
                            !.order = Touch(pg.order, i)]
        /\ answer'.pg = rp
    BY <1>0, <2>3
  <2>6. /\ memory' = [memory EXCEPT !.record[i] = record, !.attempt[i] = att,
                                    !.order = Touch(memory.order, i)]
        /\ answer'.memory = rm
    BY <1>0, <2>4
  <2> QED BY <2>1, <2>5, <2>6, CommitInv
<1> QED BY <1>2, <1>3, <1>4

-----------------------------------------------------------------------------
(* The calls on an attempt. *)

\* A processing that moves on between planning and its end keeps the plan, and
\* may gain or lose an error.
LEMMA CellMoves ==
    ASSUME NEW r, NEW a, NEW m, Cell(r, a, m), r.state \in Executing,
           NEW row \in Row, NEW att \in Attempt, NEW record \in Record,
           row.state \in Executing, att.state = row.state, record.state = row.state,
           row.key = r.key, row.decision = r.decision,
           row.has \ {"error"} = r.has \ {"error"},
           row.state = "recovery_required" => "error" \in row.has,
           AttOK(att),
           record.key = m.key, record.decision = m.decision,
           record.planned = m.planned, record.result = m.result,
           record.has = row.has \cap RecordFields
    PROVE  Cell(row, att, record) /\ row.state # "none"
<1>1. /\ r \in Row /\ RowOK(r) /\ Mirrors(r, m)
  BY DEF Cell
<1>2. /\ r.decision = "investigate" /\ r.key \in Keys /\ r.state # "completed"
      /\ {"request", "selected_backend"} \subseteq r.has
      /\ r.has \subseteq {"request", "selected_backend", "error"}
  BY <1>1 DEF RowOK, Executing
<1>3. /\ {"request", "selected_backend"} \subseteq row.has
      /\ row.has \subseteq {"request", "selected_backend", "error"}
  BY <1>2
<1>4. row.state # "none" /\ row.state # "accepted" /\ row.state # "completed"
      /\ row.state # "failed"
  BY DEF Executing
<1>5. RowOK(row)
  BY <1>2, <1>3, <1>4 DEF RowOK
<1>6. Coupled(row, att)
  BY <1>4 DEF Coupled
<1>7. Mirrors(row, record)
  BY <1>1, <1>2, <1>3, <1>4 DEF Mirrors
<1> QED BY <1>4, <1>5, <1>6, <1>7 DEF Cell

\* claim_attempt_for_submission.
LEMMA ClaimInv ==
    ASSUME Inv, NEW i \in NewIds, ClaimAttemptForSubmission(i)
    PROVE  Inv'
<1> DEFINE r == pg.row[i]
           a == pg.attempt[i]
           m == memory.record[i]
           row    == [r EXCEPT !.state = "submitting"]
           att    == ClaimedAttempt(a)
           record == [m EXCEPT !.state = "submitting"]
           back   == ReturnedAttempt(att)
<1>0. Cell(r, a, m) /\ memory.attempt[i] = a
  BY DEF Inv, CellsOK
<1>1. Both(AttemptTransaction(i, "planned", row, att, back),
           AttemptSection(i, "planned", record, att, back))
  BY <1>0 DEF ClaimAttemptForSubmission, ClaimOnPg, ClaimInMemory
<1>2. ASSUME r.state = "planned", a.state = "planned"
      PROVE  Cell(row, att, record) /\ row.state # "none"
  <2> HIDE DEF r, a, m
  <2>1. r \in Row /\ a \in Attempt /\ m \in Record /\ AttOK(a) /\ Mirrors(r, m)
    BY <1>0 DEF Cell
  <2>2. /\ row \in Row /\ row.state = "submitting" /\ row.has = r.has
        /\ row.key = r.key /\ row.decision = r.decision
    BY <2>1 DEF Row, States
  <2>3. /\ record \in Record /\ record.state = "submitting" /\ record.has = m.has
        /\ record.key = m.key /\ record.decision = m.decision
        /\ record.planned = m.planned /\ record.result = m.result
    BY <2>1 DEF Record, States
  <2>4. att \in Attempt /\ att.state = "submitting" /\ att.has = {"started_at"}
    <3> DEFINE h == a.has \cup {"started_at"}
    <3>1. h = {"started_at"} /\ h \in SUBSET AttemptColumns
      BY <1>2, <2>1 DEF AttOK, AttemptColumns
    <3>2. "submitting" \in States \ {"accepted"}
      BY DEF States
    <3>3. att = [a EXCEPT !.state = "submitting", !.has = h]
      BY DEF ClaimedAttempt
    <3> HIDE DEF h, att
    <3> QED BY <2>1, <3>1, <3>2, <3>3 DEF Attempt
  <2> HIDE DEF row, att, record
  <2>5. AttOK(att)
    BY <2>4 DEF AttOK
  <2>6. record.has = row.has \cap RecordFields
    BY <2>1, <2>2, <2>3 DEF Mirrors
  <2>7. /\ "planned" \in Executing /\ "submitting" \in Executing
    BY DEF Executing
  <2> QED BY <1>0, <1>2, <2>2, <2>3, <2>4, <2>5, <2>6, <2>7, CellMoves
<1>3. back # Failure("refused")
  BY DEF ReturnedAttempt, Failure
<1> HIDE DEF row, att, record, back
<1> QED BY <1>1, <1>2, <1>3, AttemptCall DEF r, a

\* mark_attempt_submitted.
LEMMA SubmittedInv ==
    ASSUME Inv, NEW i \in NewIds, MarkAttemptSubmitted(i)
    PROVE  Inv'
<1> DEFINE r == pg.row[i]
           a == pg.attempt[i]
           m == memory.record[i]
           row    == [r EXCEPT !.state = "submitted"]
           att    == SubmittedAttempt(a)
           record == [m EXCEPT !.state = "submitted"]
           back   == ReturnedAttempt(att)
<1>0. Cell(r, a, m) /\ memory.attempt[i] = a
  BY DEF Inv, CellsOK
<1>1. Both(AttemptTransaction(i, "submitting", row, att, back),
           AttemptSection(i, "submitting", record, att, back))
  BY <1>0 DEF MarkAttemptSubmitted, SubmittedOnPg, SubmittedInMemory
<1>2. ASSUME r.state = "submitting", a.state = "submitting"
      PROVE  Cell(row, att, record) /\ row.state # "none"
  <2> HIDE DEF r, a, m
  <2>1. r \in Row /\ a \in Attempt /\ m \in Record /\ AttOK(a) /\ Mirrors(r, m)
    BY <1>0 DEF Cell
  <2>2. /\ row \in Row /\ row.state = "submitted" /\ row.has = r.has
        /\ row.key = r.key /\ row.decision = r.decision
    BY <2>1 DEF Row, States
  <2>3. /\ record \in Record /\ record.state = "submitted" /\ record.has = m.has
        /\ record.key = m.key /\ record.decision = m.decision
        /\ record.planned = m.planned /\ record.result = m.result
    BY <2>1 DEF Record, States
  <2>4. att \in Attempt /\ att.state = "submitted" /\ att.has = Submission
    <3> DEFINE h == a.has \cup {"submitted_at", "external_operation_id"}
    <3>1. h = Submission /\ h \in SUBSET AttemptColumns
      BY <1>2, <2>1 DEF AttOK, AttemptColumns, Submission
    <3>2. "submitted" \in States \ {"accepted"}
      BY DEF States
    <3>3. att = [a EXCEPT !.state = "submitted", !.has = h]
      BY DEF SubmittedAttempt
    <3> HIDE DEF h, att
    <3> QED BY <2>1, <3>1, <3>2, <3>3 DEF Attempt
  <2> HIDE DEF row, att, record
  <2>5. AttOK(att)
    BY <2>4 DEF AttOK
  <2>6. record.has = row.has \cap RecordFields
    BY <2>1, <2>2, <2>3 DEF Mirrors
  <2>7. "submitting" \in Executing /\ "submitted" \in Executing
    BY DEF Executing
  <2> QED BY <1>0, <1>2, <2>2, <2>3, <2>4, <2>5, <2>6, <2>7, CellMoves
<1>3. back # Failure("refused")
  BY DEF ReturnedAttempt, Failure
<1> HIDE DEF row, att, record, back
<1> QED BY <1>1, <1>2, <1>3, AttemptCall DEF r, a

\* record_poll.
LEMMA PollInv ==
    ASSUME Inv, NEW i \in NewIds, NEW error \in SUBSET {"error"}, RecordPoll(i, error)
    PROVE  Inv'
<1> DEFINE r == pg.row[i]
           a == pg.attempt[i]
           m == memory.record[i]
           row    == [r EXCEPT !.has = WithError(@, error)]
           att    == PolledAttempt(a, error)
           record == [m EXCEPT !.has = WithError(@, error)]
           back   == ReturnedAttempt(att)
<1>0. Cell(r, a, m) /\ memory.attempt[i] = a
  BY DEF Inv, CellsOK
<1>1. Both(AttemptTransaction(i, "submitted", row, att, back),
           AttemptSection(i, "submitted", record, att, back))
  BY <1>0 DEF RecordPoll, PollOnPg, PollInMemory
<1>2. ASSUME r.state = "submitted", a.state = "submitted"
      PROVE  Cell(row, att, record) /\ row.state # "none"
  <2> HIDE DEF r, a, m
  <2> DEFINE rh == WithError(r.has, error)
             mh == WithError(m.has, error)
             ah == WithError(a.has \cup {"last_polled_at"}, error)
  <2>1. /\ r \in Row /\ a \in Attempt /\ m \in Record /\ AttOK(a) /\ Mirrors(r, m)
    BY <1>0 DEF Cell
  <2>2. /\ rh \in SUBSET RowColumns /\ rh \ {"error"} = r.has \ {"error"}
    BY <2>1 DEF Row, RowColumns, WithError
  <2>3. mh \in SUBSET RecordFields /\ mh = rh \cap RecordFields
    BY <2>1 DEF Record, RecordFields, WithError, Mirrors
  <2>4. /\ ah \in SUBSET AttemptColumns /\ Submission \subseteq ah
        /\ ah \subseteq Submission \cup {"last_polled_at", "error"}
    BY <1>2, <2>1 DEF AttOK, Attempt, AttemptColumns, WithError, Submission
  <2>5. /\ row = [r EXCEPT !.has = rh] /\ record = [m EXCEPT !.has = mh]
        /\ att = [a EXCEPT !.has = ah]
    BY DEF PolledAttempt
  <2> HIDE DEF rh, mh, ah, row, att, record
  <2>6. /\ row \in Row /\ row.state = "submitted" /\ row.has = rh
        /\ row.key = r.key /\ row.decision = r.decision
    BY <1>2, <2>1, <2>2, <2>5 DEF Row
  <2>7. /\ record \in Record /\ record.state = m.state /\ record.has = mh
        /\ record.key = m.key /\ record.decision = m.decision
        /\ record.planned = m.planned /\ record.result = m.result
    BY <2>1, <2>3, <2>5 DEF Record
  <2>8. att \in Attempt /\ att.state = "submitted" /\ att.has = ah
    BY <1>2, <2>1, <2>4, <2>5 DEF Attempt
  <2>9. AttOK(att)
    BY <2>4, <2>8 DEF AttOK
  <2>10. "submitted" \in Executing /\ m.state = "submitted"
    BY <1>2, <2>1 DEF Executing, Mirrors
  <2> QED BY <1>0, <1>2, <2>2, <2>3, <2>6, <2>7, <2>8, <2>9, <2>10, CellMoves
<1>3. back # Failure("refused")
  BY DEF ReturnedAttempt, Failure
<1> HIDE DEF row, att, record, back
<1> QED BY <1>1, <1>2, <1>3, AttemptCall DEF r, a

\* mark_recovery_required.
LEMMA RecoveryInv ==
    ASSUME Inv, NEW i \in NewIds, NEW s \in {"submitting", "submitted"},
           MarkRecoveryRequired(i, s)
    PROVE  Inv'
<1> DEFINE r == pg.row[i]
           a == pg.attempt[i]
           m == memory.record[i]
           row    == [r EXCEPT !.state = "recovery_required", !.has = @ \cup {"error"}]
           att    == RecoveryAttempt(a)
           record == [m EXCEPT !.state = "recovery_required", !.has = @ \cup {"error"}]
           rp     == ReturnedRow(row)
           rm     == ReturnedRecord(record)
<1>0. Cell(r, a, m) /\ memory.attempt[i] = a
  BY DEF Inv, CellsOK
<1>1. Both(AttemptTransaction(i, s, row, att, rp), AttemptSection(i, s, record, att, rm))
  BY <1>0 DEF MarkRecoveryRequired, RecoveryOnPg, RecoveryInMemory
<1>2. ASSUME r.state = s, a.state = s
      PROVE  Cell(row, att, record) /\ row.state # "none"
  <2> HIDE DEF r, a, m
  <2> DEFINE rh == r.has \cup {"error"}
             mh == m.has \cup {"error"}
             ah == a.has \cup {"error"}
  <2>1. /\ r \in Row /\ a \in Attempt /\ m \in Record /\ AttOK(a) /\ Mirrors(r, m)
    BY <1>0 DEF Cell
  <2>2. /\ rh \in SUBSET RowColumns /\ rh \ {"error"} = r.has \ {"error"}
        /\ "error" \in rh
    BY <2>1 DEF Row, RowColumns
  <2>3. mh \in SUBSET RecordFields /\ mh = rh \cap RecordFields
    BY <2>1 DEF Record, RecordFields, Mirrors
  <2>4. /\ ah \in SUBSET AttemptColumns /\ {"started_at", "error"} \subseteq ah
        /\ "completed_at" \notin ah /\ "failed_at" \notin ah
    BY <1>2, <2>1 DEF AttOK, Attempt, AttemptColumns, Submission
  <2>5. /\ row = [r EXCEPT !.state = "recovery_required", !.has = rh]
        /\ record = [m EXCEPT !.state = "recovery_required", !.has = mh]
        /\ att = [a EXCEPT !.state = "recovery_required", !.has = ah]
    BY DEF RecoveryAttempt
  <2>6. "recovery_required" \in States \ {"accepted"}
    BY DEF States
  <2> HIDE DEF rh, mh, ah, row, att, record
  <2>7. /\ row \in Row /\ row.state = "recovery_required" /\ row.has = rh
        /\ row.key = r.key /\ row.decision = r.decision
    BY <2>1, <2>2, <2>5, <2>6 DEF Row
  <2>8. /\ record \in Record /\ record.state = "recovery_required" /\ record.has = mh
        /\ record.key = m.key /\ record.decision = m.decision
        /\ record.planned = m.planned /\ record.result = m.result
    BY <2>1, <2>3, <2>5, <2>6 DEF Record
  <2>9. att \in Attempt /\ att.state = "recovery_required" /\ att.has = ah
    BY <2>1, <2>4, <2>5, <2>6 DEF Attempt
  <2>10. AttOK(att)
    BY <2>4, <2>9 DEF AttOK
  <2>11. s \in Executing /\ "recovery_required" \in Executing
    BY DEF Executing
  <2> QED BY <1>0, <1>2, <2>2, <2>3, <2>7, <2>8, <2>9, <2>10, <2>11, CellMoves
<1>3. Cell(row, att, record) => rp = rm /\ rp # Failure("refused")
  <2> HIDE DEF row, att, record
  <2> QED BY ReturnedSame
<1> HIDE DEF row, att, record, rp, rm
<1> QED BY <1>1, <1>2, <1>3, AttemptCall DEF r, a

\* complete_processing.
LEMMA CompleteInv ==
    ASSUME Inv, NEW i \in NewIds, CompleteProcessing(i)
    PROVE  Inv'
<1> DEFINE r == pg.row[i]
           a == pg.attempt[i]
           m == memory.record[i]
           row    == [r EXCEPT !.state = "completed",
                        !.has = WithError(@ \cup {"result", "completed_at"}, {})]
           att    == CompletedAttempt(a)
           record == [m EXCEPT !.state = "completed", !.result = "investigate",
                        !.has = WithError(@ \cup {"completed_at"}, {})]
           rp     == ReturnedRow(row)
           rm     == ReturnedRecord(record)
<1>0. Cell(r, a, m) /\ memory.attempt[i] = a
  BY DEF Inv, CellsOK
<1>1. Both(AttemptTransaction(i, "submitted", row, att, rp),
           AttemptSection(i, "submitted", record, att, rm))
  BY <1>0 DEF CompleteProcessing, CompleteOnPg, CompleteInMemory
<1>2. ASSUME r.state = "submitted", a.state = "submitted"
      PROVE  Cell(row, att, record) /\ row.state # "none"
  <2> HIDE DEF r, a, m
  <2> DEFINE rh == WithError(r.has \cup {"result", "completed_at"}, {})
             mh == WithError(m.has \cup {"completed_at"}, {})
             ah == WithError(a.has \cup {"completed_at", "last_polled_at"}, {})
  <2>1. /\ r \in Row /\ a \in Attempt /\ m \in Record
        /\ RowOK(r) /\ AttOK(a) /\ Mirrors(r, m)
    BY <1>0 DEF Cell
  <2>2. /\ r.decision = "investigate" /\ r.key \in Keys
        /\ {"request", "selected_backend"} \subseteq r.has
        /\ r.has \subseteq {"request", "selected_backend", "error"}
    BY <1>2, <2>1 DEF RowOK, Executing
  <2>3. /\ rh = {"request", "selected_backend", "result", "completed_at"}
        /\ rh \in SUBSET RowColumns
    BY <2>2 DEF RowColumns, WithError
  <2>4. mh \in SUBSET RecordFields /\ mh = rh \cap RecordFields
    BY <2>1 DEF Record, RecordFields, WithError, Mirrors
  <2>5. /\ ah = Submission \cup {"completed_at", "last_polled_at"}
        /\ ah \in SUBSET AttemptColumns
    BY <1>2, <2>1 DEF AttOK, AttemptColumns, WithError, Submission
  <2>6. /\ row = [r EXCEPT !.state = "completed", !.has = rh]
        /\ record = [m EXCEPT !.state = "completed", !.result = "investigate", !.has = mh]
        /\ att = [a EXCEPT !.state = "completed", !.has = ah]
    BY DEF CompletedAttempt
  <2>7. "completed" \in States \ {"accepted"} /\ "investigate" \in Decisions
    BY DEF States, Decisions
  <2> HIDE DEF rh, mh, ah, row, att, record
  <2>8. /\ row \in Row /\ row.state = "completed" /\ row.has = rh
        /\ row.key = r.key /\ row.decision = r.decision
    BY <2>1, <2>3, <2>6, <2>7 DEF Row
  <2>9. /\ record \in Record /\ record.state = "completed" /\ record.has = mh
        /\ record.key = m.key /\ record.decision = m.decision
        /\ record.planned = m.planned /\ record.result = "investigate"
    BY <2>1, <2>4, <2>6, <2>7 DEF Record
  <2>10. att \in Attempt /\ att.state = "completed" /\ att.has = ah
    BY <2>1, <2>5, <2>6, <2>7 DEF Attempt
  <2>11. RowOK(row) /\ AttOK(att)
    BY <2>2, <2>3, <2>5, <2>8, <2>10 DEF RowOK, AttOK, Executing
  <2>12. Coupled(row, att)
    BY <2>2, <2>8, <2>10 DEF Coupled, Executing
  <2>13. Mirrors(row, record)
    BY <2>1, <2>2, <2>3, <2>4, <2>8, <2>9 DEF Mirrors
  <2> QED BY <2>8, <2>9, <2>10, <2>11, <2>12, <2>13 DEF Cell
<1>3. Cell(row, att, record) => rp = rm /\ rp # Failure("refused")
  <2> HIDE DEF row, att, record
  <2> QED BY ReturnedSame
<1> HIDE DEF row, att, record, rp, rm
<1> QED BY <1>1, <1>2, <1>3, AttemptCall DEF r, a

-----------------------------------------------------------------------------
(* The other calls. *)

\* A call either misses in both repositories or commits to both.
LEMMA CommitsOrMisses ==
    ASSUME Inv, NEW i \in NewIds, NEW row, NEW att, NEW record, NEW rp, NEW rm,
           NEW onPg, NEW onMemory, Both(onPg, onMemory),
           \/ /\ onPg = [store  |-> [pg EXCEPT !.row[i] = row, !.attempt[i] = att,
                                               !.order = Touch(pg.order, i)],
                         answer |-> rp]
              /\ onMemory = [store  |-> [memory EXCEPT !.record[i] = record,
                                                       !.attempt[i] = att,
                                                       !.order = Touch(memory.order, i)],
                             answer |-> rm]
              /\ Cell(row, att, record) /\ row.state # "none"
              /\ rp = rm /\ rp # Failure("refused")
           \/ /\ onPg.store = pg
              /\ onPg.answer \in {Failure("missed"), Failure("diverged")}
              /\ onMemory = [store |-> memory, answer |-> Failure("missed")]
    PROVE  Inv'
<1>0. /\ pg' = onPg.store /\ memory' = onMemory.store
      /\ answer'.pg = onPg.answer /\ answer'.memory = onMemory.answer
  BY DEF Both
<1>1. CASE /\ onPg = [store  |-> [pg EXCEPT !.row[i] = row, !.attempt[i] = att,
                                            !.order = Touch(pg.order, i)],
                      answer |-> rp]
           /\ onMemory = [store  |-> [memory EXCEPT !.record[i] = record,
                                                    !.attempt[i] = att,
                                                    !.order = Touch(memory.order, i)],
                          answer |-> rm]
           /\ Cell(row, att, record) /\ row.state # "none"
           /\ rp = rm /\ rp # Failure("refused")
  <2>1. /\ pg' = [pg EXCEPT !.row[i] = row, !.attempt[i] = att,
                            !.order = Touch(pg.order, i)]
        /\ answer'.pg = rp
    BY <1>0, <1>1
  <2>2. /\ memory' = [memory EXCEPT !.record[i] = record, !.attempt[i] = att,
                                    !.order = Touch(memory.order, i)]
        /\ answer'.memory = rm
    BY <1>0, <1>1
  <2> QED BY <1>1, <2>1, <2>2, CommitInv
<1>2. CASE /\ onPg.store = pg
           /\ onPg.answer \in {Failure("missed"), Failure("diverged")}
           /\ onMemory = [store |-> memory, answer |-> Failure("missed")]
  <2>1. memory' = memory /\ answer'.memory = Failure("missed")
    BY <1>0, <1>2
  <2> QED BY <1>0, <1>2, <2>1, MissInv
<1> QED BY <1>1, <1>2

\* store_no_action_result.
LEMMA NoActionInv ==
    ASSUME Inv, NEW i \in NewIds, StoreNoActionResult(i)
    PROVE  Inv'
<1> DEFINE r == pg.row[i]
           a == pg.attempt[i]
           m == memory.record[i]
           row    == [r EXCEPT !.state = "completed", !.decision = "no_action",
                               !.has = @ \cup {"completed_at"}]
           record == [m EXCEPT !.state = "completed", !.result = "no_action",
                               !.has = @ \cup {"completed_at"}]
           rp     == ReturnedRow(row)
           rm     == ReturnedRecord(record)
           onPg     == Transaction(i, r.state = "accepted", TRUE, row, a, rp)
           onMemory == Section(i, m.state = "accepted", record, a, rm)
<1>0. Cell(r, a, m) /\ memory.attempt[i] = a /\ m.state = r.state
  BY DEF Inv, CellsOK, Cell, Mirrors
<1>1. Both(onPg, onMemory)
  BY <1>0 DEF StoreNoActionResult, StoreNoActionOnPg, StoreNoActionInMemory
<1>2. ASSUME r.state = "accepted"
      PROVE  Cell(row, a, record) /\ row.state # "none"
  <2> HIDE DEF r, a, m
  <2> DEFINE rh == r.has \cup {"completed_at"}
             mh == m.has \cup {"completed_at"}
  <2>1. /\ r \in Row /\ a \in Attempt /\ m \in Record
        /\ RowOK(r) /\ AttOK(a) /\ Coupled(r, a) /\ Mirrors(r, m)
    BY <1>0 DEF Cell
  <2>2. r.decision = None /\ r.has = {} /\ r.key \in Keys /\ a.state = "none"
    BY <1>2, <2>1 DEF RowOK, Coupled
  <2>3. rh = {"completed_at"} /\ rh \in SUBSET RowColumns
    BY <2>2 DEF RowColumns
  <2>4. mh \in SUBSET RecordFields /\ mh = rh \cap RecordFields
    BY <2>1 DEF Record, RecordFields, Mirrors
  <2>5. /\ row = [r EXCEPT !.state = "completed", !.decision = "no_action", !.has = rh]
        /\ record = [m EXCEPT !.state = "completed", !.result = "no_action", !.has = mh]
    OBVIOUS
  <2>6. "completed" \in States /\ "no_action" \in Decisions
    BY DEF States, Decisions
  <2> HIDE DEF rh, mh, row, record
  <2>7. /\ row \in Row /\ row.state = "completed" /\ row.has = rh
        /\ row.key = r.key /\ row.decision = "no_action"
    BY <2>1, <2>3, <2>5, <2>6 DEF Row
  <2>8. /\ record \in Record /\ record.state = "completed" /\ record.has = mh
        /\ record.key = m.key /\ record.decision = m.decision
        /\ record.planned = m.planned /\ record.result = "no_action"
    BY <2>1, <2>4, <2>5, <2>6 DEF Record
  <2>9. RowOK(row)
    BY <2>2, <2>3, <2>7 DEF RowOK, Executing
  <2>10. Coupled(row, a)
    BY <2>2, <2>7 DEF Coupled, Executing
  <2>11. Mirrors(row, record)
    <3>1. record.decision = None
      BY <2>1, <2>2, <2>8, NullFacts DEF Mirrors
    <3>2. ~record.planned /\ "request" \notin row.has
      BY <2>1, <2>2, <2>3, <2>7, <2>8 DEF Mirrors
    <3>3. record.key = row.key
      BY <2>1, <2>7, <2>8 DEF Mirrors
    <3> QED BY <2>4, <2>7, <2>8, <3>1, <3>2, <3>3 DEF Mirrors
  <2> QED BY <2>1, <2>7, <2>8, <2>9, <2>10, <2>11 DEF Cell
<1>3. Cell(row, a, record) => rp = rm /\ rp # Failure("refused")
  <2> HIDE DEF row, a, record
  <2> QED BY ReturnedSame
<1> HIDE DEF row, record, rp, rm
<1>4. CASE r.state # "accepted"
  <2>1. /\ onPg = [store |-> pg, answer |-> Failure("missed")]
        /\ onMemory = [store |-> memory, answer |-> Failure("missed")]
    BY <1>0, <1>4 DEF Transaction, Section
  <2> HIDE DEF onPg, onMemory
  <2>2. onPg.store = pg /\ onPg.answer = Failure("missed")
    BY <2>1
  <2> QED BY <1>1, <2>1, <2>2, CommitsOrMisses
<1>5. CASE r.state = "accepted"
  <2>1. /\ RowChecks(row) /\ RecordValid(record)
        /\ a = NoAttempt \/ AttemptChecks(a)
        /\ a = NoAttempt \/ AttemptValid(a)
    BY <1>2, <1>5, Accepted
  <2>2. onPg = [store  |-> [pg EXCEPT !.row[i] = row, !.attempt[i] = a,
                                      !.order = Touch(pg.order, i)],
                answer |-> rp]
    BY <1>5, <2>1 DEF Transaction
  <2>3. onMemory = [store  |-> [memory EXCEPT !.record[i] = record, !.attempt[i] = a,
                                              !.order = Touch(memory.order, i)],
                    answer |-> rm]
    BY <1>0, <1>5, <2>1 DEF Section
  <2> HIDE DEF onPg, onMemory, a
  <2> QED BY <1>1, <1>2, <1>3, <1>5, <2>2, <2>3, CommitsOrMisses
<1> QED BY <1>4, <1>5

\* store_plan.
LEMMA PlanInv ==
    ASSUME Inv, NEW i \in NewIds, StorePlan(i)
    PROVE  Inv'
<1> DEFINE r == pg.row[i]
           a == pg.attempt[i]
           m == memory.record[i]
           row    == [r EXCEPT !.state = "planned", !.decision = "investigate",
                               !.has = @ \cup {"request", "selected_backend"}]
           record == [m EXCEPT !.state = "planned", !.planned = TRUE,
                               !.decision = "investigate",
                               !.has = @ \cup {"selected_backend"}]
           att    == PlannedAttempt
           rp     == ReturnedRow(row)
           rm     == ReturnedRecord(record)
           onPg     == Transaction(i, r.state = "accepted", a = NoAttempt, row, att, rp)
           onMemory == Section(i, m.state = "accepted" /\ a = NoAttempt, record, att, rm)
<1>0. Cell(r, a, m) /\ memory.attempt[i] = a /\ m.state = r.state
  BY DEF Inv, CellsOK, Cell, Mirrors
<1>1. Both(onPg, onMemory)
  BY <1>0 DEF StorePlan, StorePlanOnPg, StorePlanInMemory
<1>2. ASSUME r.state = "accepted"
      PROVE  a = NoAttempt /\ Cell(row, att, record) /\ row.state # "none"
  <2> HIDE DEF r, a, m
  <2> DEFINE rh == r.has \cup {"request", "selected_backend"}
             mh == m.has \cup {"selected_backend"}
  <2>1. /\ r \in Row /\ a \in Attempt /\ m \in Record
        /\ RowOK(r) /\ AttOK(a) /\ Coupled(r, a) /\ Mirrors(r, m)
    BY <1>0 DEF Cell
  <2>2. r.decision = None /\ r.has = {} /\ r.key \in Keys /\ a.state = "none"
    BY <1>2, <2>1 DEF RowOK, Coupled
  <2>3. rh = {"request", "selected_backend"} /\ rh \in SUBSET RowColumns
    BY <2>2 DEF RowColumns
  <2>4. mh \in SUBSET RecordFields /\ mh = rh \cap RecordFields
    BY <2>1, <2>2 DEF Record, RecordFields, Mirrors
  <2>5. /\ row = [r EXCEPT !.state = "planned", !.decision = "investigate", !.has = rh]
        /\ record = [m EXCEPT !.state = "planned", !.planned = TRUE,
                              !.decision = "investigate", !.has = mh]
    OBVIOUS
  <2>6. "planned" \in States /\ "investigate" \in Decisions /\ "planned" \in Executing
    BY DEF States, Decisions, Executing
  <2>7. att \in Attempt /\ att.state = "planned" /\ att.has = {}
    BY DEF PlannedAttempt, NoAttempt, Attempt, States
  <2> HIDE DEF rh, mh, row, record, att
  <2>8. /\ row \in Row /\ row.state = "planned" /\ row.has = rh
        /\ row.key = r.key /\ row.decision = "investigate"
    BY <2>1, <2>3, <2>5, <2>6 DEF Row
  <2>9. /\ record \in Record /\ record.state = "planned" /\ record.has = mh
        /\ record.key = m.key /\ record.decision = "investigate"
        /\ record.planned /\ record.result = m.result
    BY <2>1, <2>4, <2>5, <2>6 DEF Record
  <2>10. RowOK(row)
    BY <2>2, <2>3, <2>8 DEF RowOK, Executing
  <2>11. AttOK(att) /\ Coupled(row, att)
    BY <2>7, <2>8 DEF AttOK, Coupled, Executing
  <2>12. Mirrors(row, record)
    <3>1. record.result = None /\ record.key = row.key
      BY <1>2, <2>1, <2>8, <2>9 DEF Mirrors
    <3>2. "request" \in row.has
      BY <2>3, <2>8
    <3> QED BY <2>4, <2>8, <2>9, <3>1, <3>2 DEF Mirrors
  <2>13. a = NoAttempt
    BY <2>1, <2>2, NoAttemptIs
  <2> QED BY <2>7, <2>8, <2>9, <2>10, <2>11, <2>12, <2>13 DEF Cell
<1>3. Cell(row, att, record) => rp = rm /\ rp # Failure("refused")
  <2> HIDE DEF row, att, record
  <2> QED BY ReturnedSame
<1> HIDE DEF row, record, rp, rm, att
<1>4. CASE r.state # "accepted"
  <2>1. /\ onPg = [store |-> pg, answer |-> Failure("missed")]
        /\ onMemory = [store |-> memory, answer |-> Failure("missed")]
    BY <1>0, <1>4 DEF Transaction, Section
  <2> HIDE DEF onPg, onMemory
  <2>2. onPg.store = pg /\ onPg.answer = Failure("missed")
    BY <2>1
  <2> QED BY <1>1, <2>1, <2>2, CommitsOrMisses
<1>5. CASE r.state = "accepted"
  <2>1. /\ RowChecks(row) /\ RecordValid(record)
        /\ att = NoAttempt \/ AttemptChecks(att)
        /\ att = NoAttempt \/ AttemptValid(att)
    BY <1>2, <1>5, Accepted
  <2>2. onPg = [store  |-> [pg EXCEPT !.row[i] = row, !.attempt[i] = att,
                                      !.order = Touch(pg.order, i)],
                answer |-> rp]
    BY <1>2, <1>5, <2>1 DEF Transaction
  <2>3. onMemory = [store  |-> [memory EXCEPT !.record[i] = record, !.attempt[i] = att,
                                              !.order = Touch(memory.order, i)],
                    answer |-> rm]
    BY <1>0, <1>2, <1>5, <2>1 DEF Section
  <2> HIDE DEF onPg, onMemory
  <2> QED BY <1>1, <1>2, <1>3, <1>5, <2>2, <2>3, CommitsOrMisses
<1> QED BY <1>4, <1>5

\* A processing that fails keeps what it has, and gains the time and the error.
LEMMA FailedCell ==
    ASSUME NEW r, NEW a, NEW m, Cell(r, a, m), r.state # "none",
           r.state \in {"accepted"} \cup Executing,
           NEW att \in Attempt, AttOK(att),
           att.state = IF r.state = "accepted" THEN "none" ELSE "failed"
    PROVE  LET row    == [r EXCEPT !.state = "failed", !.has = @ \cup {"failed_at", "error"}]
               record == [m EXCEPT !.state = "failed", !.has = @ \cup {"failed_at", "error"}]
           IN  Cell(row, att, record) /\ row.state # "none"
<1> DEFINE rh == r.has \cup {"failed_at", "error"}
           mh == m.has \cup {"failed_at", "error"}
           row    == [r EXCEPT !.state = "failed", !.has = rh]
           record == [m EXCEPT !.state = "failed", !.has = mh]
<1>1. /\ r \in Row /\ m \in Record
      /\ RowOK(r) /\ Mirrors(r, m)
  BY DEF Cell
<1>2. /\ r.key \in Keys
      /\ \/ r.decision = None /\ r.has = {}
         \/ /\ r.decision = "investigate"
            /\ {"request", "selected_backend"} \subseteq r.has
            /\ r.has \subseteq {"request", "selected_backend", "error"}
  BY <1>1 DEF RowOK
<1>3. rh \in SUBSET RowColumns
  BY <1>2 DEF RowColumns
<1>4. mh \in SUBSET RecordFields /\ mh = rh \cap RecordFields
  BY <1>1 DEF Record, RecordFields, Mirrors
<1>5. "failed" \in States
  BY DEF States
<1>6. "request" \in rh <=> "request" \in r.has
  OBVIOUS
<1>7. \/ r.decision = None /\ rh = {"failed_at", "error"}
      \/ /\ r.decision = "investigate"
         /\ rh = {"request", "selected_backend", "failed_at", "error"}
  BY <1>2
<1> HIDE DEF rh, mh
<1>8. /\ row \in Row /\ row.state = "failed" /\ row.has = rh
      /\ row.key = r.key /\ row.decision = r.decision
  BY <1>1, <1>3, <1>5 DEF Row
<1>9. /\ record \in Record /\ record.state = "failed" /\ record.has = mh
      /\ record.key = m.key /\ record.decision = m.decision
      /\ record.planned = m.planned /\ record.result = m.result
  BY <1>1, <1>4, <1>5 DEF Record
<1> HIDE DEF row, record
<1>10. RowOK(row)
  BY <1>2, <1>7, <1>8 DEF RowOK, Executing
<1>11. Coupled(row, att)
  BY <1>8 DEF Coupled, Executing
<1>12. Mirrors(row, record)
  <2>1. record.result = None
    BY <1>1, <1>9 DEF Mirrors, Executing
  <2>2. record.planned <=> "request" \in row.has
    BY <1>1, <1>6, <1>8, <1>9 DEF Mirrors
  <2>3. /\ record.key = row.key
        /\ record.decision = IF row.decision = "investigate" THEN "investigate" ELSE None
    BY <1>1, <1>8, <1>9 DEF Mirrors
  <2> QED BY <1>4, <1>8, <1>9, <2>1, <2>2, <2>3 DEF Mirrors
<1>13. Cell(row, att, record) /\ row.state # "none"
  BY <1>8, <1>9, <1>10, <1>11, <1>12 DEF Cell
<1> QED BY <1>13 DEF row, record, rh, mh

\* fail_processing.
LEMMA FailInv ==
    ASSUME Inv, NEW i \in NewIds,
           NEW expected \in {"accepted", "planned", "submitting", "submitted"},
           FailProcessing(i, expected)
    PROVE  Inv'
<1> DEFINE r == pg.row[i]
           a == pg.attempt[i]
           m == memory.record[i]
           row    == [r EXCEPT !.state = "failed", !.has = @ \cup {"failed_at", "error"}]
           record == [m EXCEPT !.state = "failed", !.has = @ \cup {"failed_at", "error"}]
           att    == IF expected # "accepted" THEN FailedAttempt(a) ELSE a
           rp     == ReturnedRow(row)
           rm     == ReturnedRecord(record)
           onPg     == FailOnPg(i, expected, expected # "accepted")
           onMemory == FailInMemory(i, expected, expected # "accepted")
<1>0. Cell(r, a, m) /\ memory.attempt[i] = a /\ m.state = r.state
  BY DEF Inv, CellsOK, Cell, Mirrors
<1>1. Both(onPg, onMemory)
  BY DEF FailProcessing
<1>2. ASSUME r.state = expected
      PROVE  /\ Cell(row, att, record) /\ row.state # "none"
             /\ expected # "accepted" => a.state \in ActiveAttempts
  <2> HIDE DEF r, a, m
  <2> DEFINE ah == a.has \cup {"failed_at", "error"}
  <2>1. a \in Attempt /\ AttOK(a) /\ Coupled(r, a)
    BY <1>0 DEF Cell
  <2>2. /\ expected = "accepted" => a.state = "none"
        /\ expected # "accepted" => r.state \in Executing /\ a.state = r.state
    BY <1>2, <2>1 DEF Coupled, Executing
  <2>3. /\ att \in Attempt /\ AttOK(att)
        /\ att.state = IF r.state = "accepted" THEN "none" ELSE "failed"
    <3>1. CASE expected = "accepted"
      BY <1>2, <2>1, <2>2, <3>1
    <3>2. CASE expected # "accepted"
      <4>1. "completed_at" \notin a.has
        BY <2>1, <2>2, <3>2 DEF AttOK, Executing, Submission
      <4>2. ah \in SUBSET AttemptColumns /\ {"failed_at", "error"} \subseteq ah
            /\ "completed_at" \notin ah
        BY <2>1, <4>1 DEF Attempt, AttemptColumns
      <4>3. att = [a EXCEPT !.state = "failed", !.has = ah]
        BY <3>2 DEF FailedAttempt
      <4>4. "failed" \in States \ {"accepted"}
        BY DEF States
      <4> HIDE DEF ah, att
      <4>5. att \in Attempt /\ att.state = "failed" /\ att.has = ah
        BY <2>1, <4>2, <4>3, <4>4 DEF Attempt
      <4> QED BY <1>2, <3>2, <4>2, <4>5 DEF AttOK
    <3> QED BY <3>1, <3>2
  <2> HIDE DEF att
  <2>4. r.state # "none" /\ r.state \in {"accepted"} \cup Executing
    BY <1>2, <2>2
  <2>5. Cell(row, att, record) /\ row.state # "none"
    BY <1>0, <2>3, <2>4, FailedCell
  <2> QED BY <2>2, <2>5 DEF ActiveAttempts
<1>3. Cell(row, att, record) => rp = rm /\ rp # Failure("refused")
  <2> HIDE DEF row, att, record
  <2> QED BY ReturnedSame
<1>4. onPg = IF expected # "accepted"
             THEN Transaction(i, a.state \in ActiveAttempts, r.state = expected, row, att, rp)
             ELSE Transaction(i, r.state = expected, TRUE, row, att, rp)
  BY DEF FailOnPg
<1>5. onMemory = Section(i, m.state = expected /\ (expected # "accepted" => a.state \in ActiveAttempts),
                         record, att, rm)
  BY <1>0 DEF FailInMemory
<1> HIDE DEF row, record, rp, rm, att, onPg, onMemory
<1>6. CASE r.state # expected
  <2>1. /\ onPg.store = pg
        /\ onPg.answer \in {Failure("missed"), Failure("diverged")}
    BY <1>4, <1>6 DEF Transaction
  <2>2. onMemory = [store |-> memory, answer |-> Failure("missed")]
    BY <1>0, <1>5, <1>6 DEF Section
  <2> QED BY <1>1, <2>1, <2>2, CommitsOrMisses
<1>7. CASE r.state = expected
  <2>1. /\ RowChecks(row) /\ RecordValid(record)
        /\ att = NoAttempt \/ AttemptChecks(att)
        /\ att = NoAttempt \/ AttemptValid(att)
    BY <1>2, <1>7, Accepted
  <2>2. onPg = [store  |-> [pg EXCEPT !.row[i] = row, !.attempt[i] = att,
                                      !.order = Touch(pg.order, i)],
                answer |-> rp]
    BY <1>2, <1>4, <1>7, <2>1 DEF Transaction
  <2>3. onMemory = [store  |-> [memory EXCEPT !.record[i] = record, !.attempt[i] = att,
                                              !.order = Touch(memory.order, i)],
                    answer |-> rm]
    BY <1>0, <1>2, <1>5, <1>7, <2>1 DEF Section
  <2> QED BY <1>1, <1>2, <1>3, <1>7, <2>2, <2>3, CommitsOrMisses
<1> QED BY <1>6, <1>7

\* accept_processing, when the key is held: nothing changes, and the row that
\* holds it is the same in both.
LEMMA AcceptHeld ==
    ASSUME Inv, NEW i \in NewIds, NEW k \in Keys, AcceptProcessing(i, k),
           \E j \in Ids : pg.row[j].key = k
    PROVE  Inv'
<1> DEFINE onPg     == AcceptOnPg(i, k)
           onMemory == AcceptInMemory(i, k)
           p == CHOOSE j \in Ids : pg.row[j].key = k
           q == CHOOSE j \in Ids : memory.record[j].key = k
<1>1. Both(onPg, onMemory)
  BY DEF AcceptProcessing
<1>2. \A j \in Ids : pg.row[j].key = k <=> memory.record[j].key = k
  BY IdsAssumption DEF Inv, CellsOK, LegacyCellsOK, Cell, Mirrors, LegacyOK, Ids
<1>3. p = q
  BY <1>2, Zenon
<1>4. p \in Ids /\ pg.row[p].key = k
  OBVIOUS
<1>5. \E j \in Ids : memory.record[j].key = k
  BY <1>2
<1>6. onPg = [store |-> pg, answer |-> ReturnedRow(pg.row[p])]
  BY DEF AcceptOnPg
<1>7. onMemory = [store |-> memory, answer |-> ReturnedRecord(memory.record[q])]
  BY <1>5 DEF AcceptInMemory
<1> HIDE DEF p, q, onPg, onMemory
<1>8. p \in NewIds
  BY <1>4, IdsAssumption DEF Inv, LegacyCellsOK, LegacyOK, Ids
<1>9. Cell(pg.row[p], pg.attempt[p], memory.record[p])
  BY <1>8 DEF Inv, CellsOK
<1>10. /\ ReturnedRow(pg.row[p]) = ReturnedRecord(memory.record[q])
       /\ ReturnedRow(pg.row[p]) # Failure("refused")
  BY <1>3, <1>9, ReturnedSame
<1>11. /\ pg' = pg /\ memory' = memory
       /\ answer'.pg = ReturnedRow(pg.row[p])
       /\ answer'.memory = ReturnedRecord(memory.record[q])
  BY <1>1, <1>6, <1>7 DEF Both
<1>12. NeverRefused' /\ SameAnswers'
  BY <1>10, <1>11 DEF NeverRefused, SameAnswers
<1> QED
  BY <1>11, <1>12 DEF Inv, StoresTyped, CellsOK, LegacyCellsOK, OrdersOK, Stored

\* accept_processing, when the key is free: a new processing in both.
LEMMA AcceptNew ==
    ASSUME Inv, NEW i \in NewIds, NEW k \in Keys, AcceptProcessing(i, k),
           ~\E j \in Ids : pg.row[j].key = k
    PROVE  Inv'
<1> DEFINE row    == [NoRow EXCEPT !.state = "accepted", !.key = k]
           record == [NoRecord EXCEPT !.state = "accepted", !.key = k]
           att    == NoAttempt
           rp     == ReturnedRow(row)
           rm     == ReturnedRecord(record)
           onPg     == AcceptOnPg(i, k)
           onMemory == AcceptInMemory(i, k)
<1>1. Both(onPg, onMemory)
  BY DEF AcceptProcessing
<1>2. \A j \in Ids : pg.row[j].key = k <=> memory.record[j].key = k
  BY IdsAssumption DEF Inv, CellsOK, LegacyCellsOK, Cell, Mirrors, LegacyOK, Ids
<1>3. onPg = Transaction(i, TRUE, TRUE, row, att, rp)
  BY DEF AcceptOnPg
<1>4. onMemory = Section(i, TRUE, record, att, rm)
  BY <1>2 DEF AcceptInMemory
<1>5. /\ row \in Row /\ row.state = "accepted" /\ row.key = k
      /\ row.decision = None /\ row.has = {}
  BY DEF NoRow, Row, States
<1>6. /\ record \in Record /\ record.state = "accepted" /\ record.key = k
      /\ record.decision = None /\ ~record.planned
      /\ record.result = None /\ record.has = {}
  BY DEF NoRecord, Record, States
<1>7. att \in Attempt /\ att.state = "none" /\ att.has = {}
  BY DEF NoAttempt, Attempt
<1> HIDE DEF row, record, att
<1>8. Cell(row, att, record) /\ row.state # "none"
  <2>1. RowOK(row) /\ AttOK(att) /\ Coupled(row, att)
    BY <1>5, <1>7 DEF RowOK, AttOK, Coupled, Executing
  <2>2. Mirrors(row, record)
    BY <1>5, <1>6, NullFacts DEF Mirrors
  <2> QED BY <1>5, <1>6, <1>7, <2>1, <2>2 DEF Cell
<1>9. rp = rm /\ rp # Failure("refused")
  BY <1>8, ReturnedSame
<1>10. /\ RowChecks(row) /\ RecordValid(record)
       /\ att = NoAttempt \/ AttemptChecks(att)
       /\ att = NoAttempt \/ AttemptValid(att)
  BY <1>8, Accepted
<1> HIDE DEF rp, rm, onPg, onMemory
<1>11. onPg = [store  |-> [pg EXCEPT !.row[i] = row, !.attempt[i] = att,
                                     !.order = Touch(pg.order, i)],
               answer |-> rp]
  BY <1>3, <1>10 DEF Transaction
<1>12. onMemory = [store  |-> [memory EXCEPT !.record[i] = record, !.attempt[i] = att,
                                             !.order = Touch(memory.order, i)],
                   answer |-> rm]
  BY <1>4, <1>10 DEF Section
<1> QED BY <1>1, <1>8, <1>9, <1>11, <1>12, CommitsOrMisses

-----------------------------------------------------------------------------
(* The invariant. *)

\* What the migration leaves satisfies the invariant.
LEMMA InitInv == Init => Inv
<1> SUFFICES ASSUME Init PROVE Inv
  OBVIOUS
<1>1. PICK decided \in [LegacyIds -> Decisions],
           order \in [1 .. Cardinality(LegacyIds) -> LegacyIds] :
        /\ {order[n] : n \in DOMAIN order} = LegacyIds
        /\ pg = [row     |-> [j \in Ids |-> IF j \in LegacyIds
                                            THEN Upgrade(LegacyRow(decided[j]))
                                            ELSE NoRow],
                 attempt |-> [j \in Ids |-> NoAttempt],
                 order   |-> order]
        /\ memory = [record  |-> [j \in Ids |-> NoRecord],
                     attempt |-> [j \in Ids |-> NoAttempt],
                     order   |-> <<>>]
        /\ answer = [pg |-> Failure("missed"), memory |-> Failure("missed")]
  BY DEF Init
<1> DEFINE n == Cardinality(LegacyIds)
           empty == <<>>
<1>2. IsFiniteSet(LegacyIds) /\ n \in Nat
  BY IdsAssumption, FS_CardinalityType
<1>3. NoRow \in Row /\ NoRow.state = "none" /\ NoRow.key = None
      /\ NoRow.decision = None /\ NoRow.has = {}
  BY DEF NoRow, Row
<1>4. /\ NoRecord \in Record /\ NoRecord.state = "none" /\ NoRecord.key = None
      /\ NoRecord.decision = None /\ ~NoRecord.planned
      /\ NoRecord.result = None /\ NoRecord.has = {}
  BY DEF NoRecord, Record
<1>5. NoAttempt \in Attempt /\ NoAttempt.state = "none" /\ NoAttempt.has = {}
  BY DEF NoAttempt, Attempt
<1>6. ASSUME NEW d \in Decisions PROVE LegacyOK(Upgrade(LegacyRow(d)))
  <2> DEFINE lh == IF d = "investigate" THEN {"request", "result"} ELSE {}
             l  == LegacyRow(d)
             uh == l.has \cup {"completed_at"}
             u  == Upgrade(l)
  <2>1. lh \in SUBSET RowColumns
    BY DEF RowColumns
  <2>2. l = [NoRow EXCEPT !.decision = d, !.has = lh]
    BY DEF LegacyRow
  <2> HIDE DEF lh, l
  <2>3. /\ l \in Row /\ l.key = None /\ l.decision = d /\ l.has = lh
    BY <1>3, <2>1, <2>2 DEF Row
  <2>4. uh \in SUBSET RowColumns
    BY <2>1, <2>3 DEF RowColumns
  <2>5. u = [l EXCEPT !.state = "completed", !.has = uh]
    BY DEF Upgrade
  <2>6. uh = lh \cup {"completed_at"} /\ "completed" \in States
    BY <2>3 DEF States
  <2> HIDE DEF u, uh
  <2>7. u \in Row /\ u.state = "completed" /\ u.key = None /\ u.decision = d /\ u.has = uh
    BY <2>3, <2>4, <2>5, <2>6 DEF Row
  <2>8. CASE d = "investigate"
    <3>1. uh = {"request", "result", "completed_at"}
      BY <2>6, <2>8 DEF lh
    <3> QED BY <2>7, <2>8, <3>1 DEF LegacyOK, u, l
  <2>9. CASE d # "investigate"
    <3>1. d = "no_action" /\ uh = {"completed_at"}
      BY <2>6, <2>9 DEF lh, Decisions
    <3> QED BY <2>7, <3>1 DEF LegacyOK, u, l
  <2> QED BY <2>8, <2>9
<1>7. \A j \in NewIds : j \in Ids /\ j \notin LegacyIds
  BY IdsAssumption DEF Ids
<1>8. \A j \in LegacyIds : j \in Ids
  BY DEF Ids
<1>9. \A j \in Ids :
        /\ pg.row[j] = IF j \in LegacyIds THEN Upgrade(LegacyRow(decided[j])) ELSE NoRow
        /\ pg.attempt[j] = NoAttempt
        /\ memory.record[j] = NoRecord
        /\ memory.attempt[j] = NoAttempt
  BY <1>1
<1>10. order \in Seq(Ids) /\ empty \in Seq(Ids) /\ Len(empty) = 0
  BY <1>2, <1>8
<1>11. StoresTyped
  <2>1. \A j \in Ids : pg.row[j] \in Row
    BY <1>3, <1>6, <1>9 DEF LegacyOK
  <2>2. [j \in Ids |-> IF j \in LegacyIds THEN Upgrade(LegacyRow(decided[j])) ELSE NoRow]
          \in [Ids -> Row]
    BY <1>9, <2>1
  <2>3. [j \in Ids |-> NoAttempt] \in [Ids -> Attempt] /\ [j \in Ids |-> NoRecord] \in [Ids -> Record]
    BY <1>4, <1>5
  <2> QED BY <1>1, <1>10, <2>2, <2>3 DEF StoresTyped
<1>12. CellsOK
  <2>1. RowOK(NoRow) /\ AttOK(NoAttempt) /\ Coupled(NoRow, NoAttempt)
    BY <1>3, <1>5 DEF RowOK, AttOK, Coupled, Executing
  <2>2. Mirrors(NoRow, NoRecord)
    BY <1>3, <1>4, NullFacts DEF Mirrors
  <2>3. Cell(NoRow, NoAttempt, NoRecord)
    BY <1>3, <1>4, <1>5, <2>1, <2>2 DEF Cell
  <2> QED BY <1>7, <1>9, <2>3 DEF CellsOK
<1>13. LegacyCellsOK
  BY <1>4, <1>6, <1>8, <1>9 DEF LegacyCellsOK
<1>14. OrdersOK
  <2>1. pg.order = order /\ memory.order = empty
    BY <1>1
  <2>2. Once(order)
    <3>1. IsFiniteSet(1 .. n) /\ Cardinality(1 .. n) = n
      BY <1>2, FS_Interval
    <3>2. order \in Surjection(1 .. n, LegacyIds)
      BY <1>1 DEF Surjection
    <3>3. order \in Injection(1 .. n, LegacyIds)
      BY <1>2, <3>1, <3>2, FS_SurjSameCardinalityImpliesInj
    <3> QED BY <3>3 DEF Injection, IsInjective, Once
  <2>3. Listed(order) = LegacyIds
    BY <1>1 DEF Listed
  <2>4. Stored = LegacyIds
    BY <1>3, <1>6, <1>8, <1>9 DEF Stored, LegacyOK
  <2>5. Once(empty) /\ Listed(empty) = {}
    BY DEF Once, Listed
  <2>6. \A i, j \in NewIds : ~Earlier(order, i, j) /\ ~Earlier(empty, i, j)
    BY <1>7, <1>10 DEF Earlier
  <2>7. Stored \cap NewIds = {}
    BY <1>7, <2>4
  <2> HIDE DEF empty
  <2> QED BY <2>1, <2>2, <2>3, <2>4, <2>5, <2>6, <2>7 DEF OrdersOK
<1>15. NeverRefused /\ SameAnswers
  BY <1>1 DEF NeverRefused, SameAnswers, Failure
<1> QED BY <1>11, <1>12, <1>13, <1>14, <1>15 DEF Inv

\* Every call keeps the invariant.
LEMMA NextInv == Inv /\ [Next]_vars => Inv'
<1> SUFFICES ASSUME Inv, [Next]_vars PROVE Inv'
  OBVIOUS
<1>1. CASE UNCHANGED vars
  BY <1>1 DEF vars, Inv, StoresTyped, CellsOK, LegacyCellsOK, OrdersOK, Stored,
              NeverRefused, SameAnswers
<1>2. ASSUME NEW i \in NewIds, NEW k \in Keys, AcceptProcessing(i, k) PROVE Inv'
  BY <1>2, AcceptHeld, AcceptNew
<1>3. ASSUME NEW i \in NewIds, Call(i) PROVE Inv'
  <2>1. CASE StoreNoActionResult(i)
    BY <2>1, NoActionInv
  <2>2. CASE StorePlan(i)
    BY <2>2, PlanInv
  <2>3. CASE ClaimAttemptForSubmission(i)
    BY <2>3, ClaimInv
  <2>4. CASE MarkAttemptSubmitted(i)
    BY <2>4, SubmittedInv
  <2>5. CASE \E error \in SUBSET {"error"} : RecordPoll(i, error)
    BY <2>5, PollInv
  <2>6. CASE CompleteProcessing(i)
    BY <2>6, CompleteInv
  <2>7. CASE \E s \in {"accepted", "planned", "submitting", "submitted"} : FailProcessing(i, s)
    BY <2>7, FailInv
  <2>8. CASE \E s \in {"submitting", "submitted"} : MarkRecoveryRequired(i, s)
    BY <2>8, RecoveryInv
  <2> QED BY <1>3, <2>1, <2>2, <2>3, <2>4, <2>5, <2>6, <2>7, <2>8 DEF Call
<1> QED BY <1>1, <1>2, <1>3 DEF Next

\* A row of schema 0001 can be read, and its result with it.
LEMMA LegacyReadable ==
    ASSUME NEW r, LegacyOK(r)
    PROVE  Readable(r) /\ Deserialize(r).result # None
<1> DEFINE d == Deserialize(r)
<1>1. /\ r \in Row /\ r.state = "completed" /\ r.decision # None
      /\ "completed_at" \in r.has /\ "failed_at" \notin r.has
      /\ \/ r.decision = "no_action"
         \/ r.decision = "investigate" /\ {"request", "result"} \subseteq r.has
  BY NullFacts DEF LegacyOK
<1>2. /\ d.state = "completed" /\ d.result = r.decision /\ d.has = r.has \cap RecordFields
  BY <1>1, DeserializeFields
<1> HIDE DEF d
<1>3. RecordValid(d)
  BY <1>1, <1>2 DEF RecordValid, RecordFields
<1> QED BY <1>1, <1>2, <1>3 DEF Readable, ResultReadable, d

\* Every row that is stored can be read.
LEMMA InvTyped == Inv => TypeOK
<1> SUFFICES ASSUME Inv PROVE TypeOK
  OBVIOUS
<1>1. StoresTyped /\ CellsOK /\ LegacyCellsOK /\ OrdersOK
  BY DEF Inv
<1>2. /\ pg.row \in [Ids -> Row] /\ pg.attempt \in [Ids -> Attempt]
      /\ memory.record \in [Ids -> Record] /\ memory.attempt \in [Ids -> Attempt]
      /\ pg.order \in Seq(Ids)
  BY <1>1 DEF StoresTyped
<1>3. ASSUME NEW i \in Ids
      PROVE  /\ pg.row[i].state # "none" => Readable(pg.row[i])
             /\ pg.attempt[i].state # "none" => AttemptValid(pg.attempt[i])
  <2>1. CASE i \in NewIds
    BY <1>1, <2>1, CellReadable, CellAttemptChecks DEF CellsOK, Cell
  <2>2. CASE i \in LegacyIds
    BY <1>1, <2>2, LegacyReadable DEF LegacyCellsOK, NoAttempt
  <2> QED BY <2>1, <2>2 DEF Ids
<1>4. /\ {pg.order[n] : n \in DOMAIN pg.order} = Stored
      /\ Len(pg.order) = Cardinality(Stored)
  <2>1. Once(pg.order) /\ Listed(pg.order) = Stored
    BY <1>1 DEF OrdersOK
  <2>2. Cardinality(Listed(pg.order)) = Len(pg.order)
    BY <1>2, <2>1, ListedCounted
  <2> QED BY <2>1, <2>2 DEF Listed
<1> QED BY <1>2, <1>3, <1>4 DEF TypeOK, Stored

\* Whoever looks for work finds the same in both.
LEMMA InvReconcilable == Inv => SameReconcilable
<1> SUFFICES ASSUME Inv, NEW limit \in 1 .. Cardinality(NewIds), NEW old \in SUBSET NewIds
             PROVE  FindOnPg(limit, old) = FindInMemory(limit, old)
  BY DEF SameReconcilable
<1> DEFINE onPg     == {i \in Ids : ReconcilableOnPg(i, old)}
           inMemory == {i \in Ids : ReconcilableInMemory(i, old)}
<1>1. CellsOK /\ LegacyCellsOK /\ OrdersOK
  BY DEF Inv
<1>2. ASSUME NEW i \in LegacyIds
      PROVE  ~ReconcilableOnPg(i, old) /\ ~ReconcilableInMemory(i, old)
  BY <1>1 DEF LegacyCellsOK, LegacyOK, ReconcilableOnPg, ReconcilableInMemory
<1>3. ASSUME NEW i \in NewIds
      PROVE  ReconcilableOnPg(i, old) <=> ReconcilableInMemory(i, old)
  <2>1. /\ memory.record[i].state = pg.row[i].state
        /\ memory.attempt[i] = pg.attempt[i]
        /\ pg.row[i].state = "submitting" => pg.attempt[i].state = "submitting"
    BY <1>1 DEF CellsOK, Cell, Mirrors, Coupled, Executing
  <2> QED BY <2>1 DEF ReconcilableOnPg, ReconcilableInMemory
<1>4. onPg = inMemory /\ onPg \subseteq NewIds
  <2> HIDE DEF ReconcilableOnPg, ReconcilableInMemory
  <2> QED BY <1>2, <1>3 DEF Ids
<1>5. \A i, j \in onPg : Earlier(pg.order, i, j) <=> Earlier(memory.order, i, j)
  BY <1>1, <1>4 DEF OrdersOK
<1> HIDE DEF onPg, inMemory
<1>6. Oldest(pg.order, onPg, limit) = Oldest(memory.order, inMemory, limit)
  BY <1>4, <1>5, OldestSame
<1> QED BY <1>6 DEF FindOnPg, FindInMemory, onPg, inMemory

\* The invariant holds of every state the calls reach.
LEMMA Invariant == Spec => []Inv
BY InitInv, NextInv, PTL DEF Spec

-----------------------------------------------------------------------------
(* The theorems. *)

\* Both stores are well formed after any calls, whatever the migration found:
\* each row has one place by updated_at, and what the CHECKs of the two tables
\* let in, the constructors of the records accept when it is read back
\* (_deserialize_processing, _deserialize_attempt).
THEOREM RowsTyped == Spec => []TypeOK
<1>1. Inv => TypeOK
  BY InvTyped
<1> QED BY <1>1, Invariant, PTL

\* No call of the processor, in any order and however stale what it read, is
\* refused by a CHECK constraint or by a constructor: each UPDATE sets all the
\* columns that the state it enters requires.
THEOREM NeverRefusedAlways == Spec => []NeverRefused
<1>1. Inv => NeverRefused
  BY DEF Inv
<1> QED BY <1>1, Invariant, PTL

\* The in-memory repository of the tests and the PostgreSQL one cannot be told
\* apart by a caller: same records, same answers, same rows to reconcile in the
\* same order for every limit.
THEOREM RepositoriesAlwaysAgree == Spec => []RepositoriesAgree
<1>1. Inv => SameRecords
  BY CellView DEF Inv, CellsOK, Cell, SameRecords
<1>2. Inv => RepositoriesAgree
  BY <1>1, InvReconcilable DEF RepositoriesAgree, Inv
<1> QED BY <1>2, Invariant, PTL

\* A processing finished under schema 0001 stays readable, with its result, and
\* is never offered to reconciliation.
THEOREM LegacyAlwaysSettled == Spec => []LegacySettled
<1>1. Inv => LegacySettled
  <2> SUFFICES ASSUME Inv, NEW i \in LegacyIds
               PROVE  /\ Readable(pg.row[i])
                      /\ Deserialize(pg.row[i]).result # None
                      /\ ~ReconcilableOnPg(i, Ids)
    BY DEF LegacySettled
  <2>1. LegacyOK(pg.row[i])
    BY DEF Inv, LegacyCellsOK
  <2>2. ~ReconcilableOnPg(i, Ids)
    BY <2>1 DEF LegacyOK, ReconcilableOnPg
  <2> QED BY <2>1, <2>2, LegacyReadable
<1> QED BY <1>1, Invariant, PTL
=============================================================================
