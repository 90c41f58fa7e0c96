------------------------ MODULE ReconcilePass_proofs ------------------------
(***************************************************************************)
(* Proofs about reconciliation passes, for every number of rows, passes,   *)
(* time units and faults and every row limit: rows and passes keep their   *)
(* types, and the report of a pass accounts for the rows it found.         *)
(*                                                                         *)
(* The invariant follows a pass through its loop: what it has examined and *)
(* what is left of its batch are together what it found, and only a row    *)
(* that was handled is counted as advanced or failed.                      *)
(***************************************************************************)
EXTENDS ReconcilePass, UpdateOrder_proofs

Pass == [at: PassStates, batch: Seq(Read), left: 0 .. Budget, found: Nat,
         examined: Nat, counted: Nat, timedOut: BOOLEAN]

Present == {r \in Rows : row[r] # "absent"}

\* Each present row has one place in the order.
OrderOK ==
    /\ row \in [Rows -> RowStates]
    /\ order \in Seq(Rows) /\ Once(order)
    /\ Listed(order) = Present

\* The counters of a pass, between two rows, at a row, and outside the loop.
Accounted(k) ==
    /\ k.found <= Limit
    /\ k.at = "loop" =>
         k.examined + Len(k.batch) = k.found /\ k.counted <= k.examined
    /\ k.at \in {"context", "row"} =>
         /\ Len(k.batch) > 0 /\ k.examined + Len(k.batch) = k.found + 1
         /\ k.counted < k.examined
    /\ k.at \in {"idle", "returned", "raised"} =>
         k.examined <= k.found /\ k.counted <= k.examined
    /\ k.at = "returned" /\ ~k.timedOut => k.examined = k.found

PassesOK == pass \in [Passes -> Pass] /\ \A p \in Passes : Accounted(pass[p])

\* The inductive invariant.
Inv == OrderOK /\ PassesOK /\ faults \in 0 .. Faults

-----------------------------------------------------------------------------
(* The invariant implies the properties. *)

\* The invariant contains the types.
LEMMA InvTyped == Inv => TypeOK
<1> SUFFICES ASSUME Inv PROVE TypeOK
  OBVIOUS
<1>1. /\ {order[n] : n \in DOMAIN order} = Present
      /\ Len(order) = Cardinality(Present)
  BY ListedCounted DEF Inv, OrderOK, Listed
<1>2. ASSUME NEW p \in Passes
      PROVE  /\ pass[p].at \in PassStates
             /\ \A n \in DOMAIN pass[p].batch : pass[p].batch[n] \in Read
             /\ pass[p].left \in 0 .. Budget
  BY DEF Inv, PassesOK, Pass
<1> QED BY <1>1, <1>2 DEF TypeOK, Inv, OrderOK, Present

\* The counters of a pass add up at every place of the loop.
LEMMA InvAccounts == Inv => ReportAccounts
<1> SUFFICES ASSUME Inv, NEW p \in Passes
             PROVE  /\ pass[p].examined <= pass[p].found /\ pass[p].found <= Limit
                    /\ pass[p].counted <= pass[p].examined
                    /\ pass[p].at = "returned" /\ ~pass[p].timedOut
                         => pass[p].examined = pass[p].found
  BY DEF ReportAccounts
<1> DEFINE k == pass[p]
<1>1. k \in Pass /\ Accounted(k)
  BY DEF Inv, PassesOK
<1> HIDE DEF k
<1>2. /\ k.examined \in Nat /\ k.found \in Nat /\ k.counted \in Nat
      /\ Len(k.batch) \in Nat /\ k.at \in PassStates
  BY <1>1 DEF Pass
<1>3. /\ k.examined <= k.found /\ k.found <= Limit
      /\ k.counted <= k.examined
      /\ k.at = "returned" /\ ~k.timedOut => k.examined = k.found
  BY <1>1, <1>2 DEF Accounted, PassStates
<1> QED BY <1>3 DEF k

-----------------------------------------------------------------------------
(* Steps of rows. *)

\* A write of a row that is or becomes present keeps the order.
LEMMA WriteOrder ==
    ASSUME OrderOK, NEW r \in Rows, NEW s \in RowStates \ {"absent"},
           row' = [row EXCEPT ![r] = s], order' = Touch(order, r)
    PROVE  OrderOK'
<1>1. row' \in [Rows -> RowStates] /\ Present' = Present \cup {r}
  BY DEF OrderOK, Present
<1>2. order' \in Seq(Rows) /\ Once(order') /\ Listed(order') = Listed(order) \cup {r}
  BY TouchListed DEF OrderOK
<1> QED BY <1>1, <1>2 DEF OrderOK

\* A change of state without a write keeps the order.
LEMMA AgeOrder ==
    ASSUME OrderOK, NEW r \in Rows, Age(r)
    PROVE  OrderOK'
<1>1. /\ row[r] = "submitting" /\ row' = [row EXCEPT ![r] = "stale"]
      /\ order' = order
  BY DEF Age
<1>2. row' \in [Rows -> RowStates]
  BY <1>1 DEF OrderOK, RowStates
<1>3. Present' = Present
  BY <1>1, <1>2 DEF OrderOK, Present
<1> QED BY <1>1, <1>2, <1>3 DEF OrderOK

\* What a query finds is a batch of rows as they are, no more than the limit.
LEMMA FoundTyped ==
    ASSUME OrderOK
    PROVE  Found \in Seq(Read) /\ Len(Found) <= Limit
<1> DEFINE rows == {r \in Rows : row[r] \in Offered}
           ids  == Oldest(order, rows, Limit)
<1>1. rows \in SUBSET Listed(order)
  BY DEF OrderOK, Present, Offered
<1>2. Limit \in Nat
  BY BoundsAssumption
<1>3. ids \in Seq(rows) /\ Len(ids) <= Limit
  <2> HIDE DEF rows
  <2> QED BY <1>1, <1>2, OldestFound DEF OrderOK
<1> HIDE DEF ids
<1>4. Found = [n \in DOMAIN ids |-> [id |-> ids[n], state |-> row[ids[n]]]]
  BY DEF Found, ids
<1>5. DOMAIN ids = 1 .. Len(ids) /\ Len(ids) \in Nat
  BY <1>3
<1>6. \A n \in 1 .. Len(ids) : ids[n] \in rows
  BY <1>3
<1>7. \A n \in 1 .. Len(ids) : [id |-> ids[n], state |-> row[ids[n]]] \in Read
  BY <1>6 DEF Read
<1>8. Found \in [1 .. Len(ids) -> Read]
  BY <1>4, <1>5, <1>7
<1>9. Found \in Seq(Read) /\ Len(Found) = Len(ids)
  BY <1>5, <1>8, IsASeq, LenProperties
<1> QED BY <1>3, <1>9

-----------------------------------------------------------------------------
(* Steps of passes. *)

\* A step that changes one pass keeps the passes, if what becomes of that one
\* is accounted for.
LEMMA OnePass ==
    ASSUME PassesOK, NEW p \in Passes, NEW k \in Pass, Accounted(k),
           pass' = [pass EXCEPT ![p] = k]
    PROVE  PassesOK'
BY DEF PassesOK

\* A pass starts with empty counters.
LEMMA NoPassTyped ==
    /\ NoPass \in Pass /\ NoPass.at = "idle" /\ NoPass.found = 0
    /\ NoPass.examined = 0 /\ NoPass.counted = 0
<1> DEFINE e == <<>>
<1>1. e \in Seq(Read) /\ 0 \in 0 .. Budget
  BY BoundsAssumption
<1> HIDE DEF e
<1>2. [at |-> "idle", batch |-> e, left |-> 0, found |-> 0, examined |-> 0,
       counted |-> 0, timedOut |-> FALSE] \in Pass
  BY <1>1 DEF Pass, PassStates
<1>3. NoPass \in Pass
  BY <1>2 DEF NoPass, e
<1> QED BY <1>3 DEF NoPass

\* A pass that is not running leaves nothing to account for.
LEMMA NoPassOK ==
    ASSUME NEW a \in {"idle", "raised"}
    PROVE  [NoPass EXCEPT !.at = a] \in Pass /\ Accounted([NoPass EXCEPT !.at = a])
<1> DEFINE k == [NoPass EXCEPT !.at = a]
<1>1. k \in Pass
  BY NoPassTyped DEF Pass, PassStates
<1>2. k.at = a /\ k.found = 0 /\ k.examined = 0 /\ k.counted = 0
  BY NoPassTyped DEF Pass
<1> HIDE DEF k
<1>3. Accounted(k)
  BY <1>2, BoundsAssumption DEF Accounted
<1> QED BY <1>1, <1>3 DEF k

\* A pass starts with nothing examined.
LEMMA StartPassOK ==
    ASSUME Inv, NEW p \in Passes, StartPass(p)
    PROVE  PassesOK'
<1> DEFINE k == [NoPass EXCEPT !.at = "loop", !.batch = Found,
                               !.found = Len(Found), !.left = Budget]
<1>1. pass' = [pass EXCEPT ![p] = k]
  BY DEF StartPass
<1>3. Found \in Seq(Read) /\ Len(Found) <= Limit /\ Budget \in 0 .. Budget
  BY FoundTyped, BoundsAssumption DEF Inv
<1>4. Len(Found) \in Nat
  BY <1>3
<1>5. /\ k \in Pass /\ k.at = "loop" /\ k.batch = Found /\ k.found = Len(Found)
      /\ k.examined = 0 /\ k.counted = 0
  <2> DEFINE b == Found
             n == Len(Found)
  <2>1. b \in Seq(Read) /\ n \in Nat
    BY <1>3, <1>4
  <2> HIDE DEF b, n
  <2>2. LET q == [NoPass EXCEPT !.at = "loop", !.batch = b, !.found = n, !.left = Budget]
        IN /\ q \in Pass /\ q.at = "loop" /\ q.batch = b /\ q.found = n
           /\ q.examined = 0 /\ q.counted = 0
    BY <1>3, <2>1, NoPassTyped DEF Pass, PassStates
  <2> QED BY <2>2 DEF b, n
<1> HIDE DEF k
<1>6. Accounted(k)
  BY <1>3, <1>4, <1>5 DEF Accounted
<1> QED BY <1>1, <1>5, <1>6, OnePass DEF Inv

\* The head of the loop ends the pass, timed out or with all rows examined, or
\* counts the next row.
LEMMA NextRowOK ==
    ASSUME Inv, NEW p \in Passes, NextRow(p)
    PROVE  PassesOK'
<1> DEFINE c == pass[p]
<1>1. c \in Pass /\ Accounted(c) /\ c.at = "loop" /\ pass \in [Passes -> Pass]
  BY DEF Inv, PassesOK, NextRow
<1>2. CASE c.left = 0
  <2> DEFINE k == [c EXCEPT !.at = "returned", !.batch = <<>>, !.timedOut = TRUE]
  <2>1. pass' = [pass EXCEPT ![p] = k]
    BY <1>1, <1>2 DEF NextRow
  <2> HIDE DEF c
  <2>2. /\ k \in Pass /\ k.at = "returned" /\ k.timedOut /\ k.found = c.found
        /\ k.examined = c.examined /\ k.counted = c.counted
    <3> DEFINE e == <<>>
    <3>1. e \in Seq(Read)
      OBVIOUS
    <3> HIDE DEF e
    <3>2. LET q == [c EXCEPT !.at = "returned", !.batch = e, !.timedOut = TRUE]
          IN /\ q \in Pass /\ q.at = "returned" /\ q.timedOut /\ q.found = c.found
             /\ q.examined = c.examined /\ q.counted = c.counted
      BY <1>1, <3>1 DEF Pass, PassStates
    <3> QED BY <3>2 DEF e
  <2> HIDE DEF k
  <2>3. Accounted(k)
    BY <1>1, <2>2 DEF Accounted, Pass
  <2> QED BY <2>1, <2>2, <2>3, OnePass DEF Inv
<1>3. CASE c.left # 0 /\ c.batch = <<>>
  <2> DEFINE k == [c EXCEPT !.at = "returned"]
  <2>1. pass' = [pass EXCEPT ![p] = k]
    BY <1>1, <1>3 DEF NextRow
  <2> HIDE DEF c
  <2>2. /\ k \in Pass /\ k.at = "returned" /\ k.found = c.found
        /\ k.examined = c.examined /\ k.counted = c.counted
    BY <1>1 DEF Pass, PassStates
  <2>3. Len(c.batch) = 0
    BY <1>3
  <2> HIDE DEF k
  <2>4. k.found <= Limit /\ k.examined = k.found /\ k.counted <= k.examined
    <3> DEFINE x == c.examined
               n == Len(c.batch)
               f == c.found
               t == c.counted
    <3>1. x \in Nat /\ n = 0 /\ f \in Nat /\ f <= Limit /\ x + n = f
      BY <1>1, <2>3 DEF Accounted, Pass
    <3>2. t \in Nat /\ t <= x
      BY <1>1 DEF Accounted, Pass
    <3>3. k.examined = x /\ k.found = f /\ k.counted = t
      BY <2>2
    <3> HIDE DEF x, n, f, t
    <3>4. x = f
      BY <3>1
    <3> QED BY <3>1, <3>2, <3>3, <3>4
  <2>5. k.found \in Nat /\ k.examined <= k.found
    BY <2>2, <2>4 DEF Pass
  <2>6. Accounted(k)
    BY <2>2, <2>4, <2>5 DEF Accounted
  <2> QED BY <2>1, <2>2, <2>6, OnePass DEF Inv
<1>4. CASE c.left # 0 /\ c.batch # <<>>
  <2> DEFINE k == [c EXCEPT !.at = "context", !.examined = @ + 1]
  <2>1. pass' = [pass EXCEPT ![p] = k]
    BY <1>1, <1>4 DEF NextRow
  <2> HIDE DEF c
  <2>2. /\ k \in Pass /\ k.at = "context" /\ k.found = c.found /\ k.batch = c.batch
        /\ k.examined = c.examined + 1
        /\ k.counted = c.counted
    <3> DEFINE x == c.examined + 1
    <3>1. x \in Nat
      BY <1>1 DEF Pass
    <3> HIDE DEF x
    <3>2. LET q == [c EXCEPT !.at = "context", !.examined = x]
          IN /\ q \in Pass /\ q.at = "context" /\ q.found = c.found
             /\ q.batch = c.batch /\ q.examined = x
             /\ q.counted = c.counted
      BY <1>1, <3>1 DEF Pass, PassStates
    <3> QED BY <3>2 DEF x
  <2>3. /\ c.found \in Nat /\ c.examined \in Nat /\ c.counted \in Nat
        /\ Len(c.batch) \in Nat /\ Len(c.batch) > 0
    BY <1>1, <1>4 DEF Pass
  <2>5. /\ c.found <= Limit /\ c.examined + Len(c.batch) = c.found
        /\ c.counted <= c.examined
    BY <1>1 DEF Accounted
  <2> HIDE DEF k
  <2>6. k.examined + Len(k.batch) = k.found + 1 /\ k.counted < k.examined
    <3> DEFINE x == c.examined
               n == Len(c.batch)
               f == c.found
               t == c.counted
    <3>1. /\ x \in Nat /\ n \in Nat /\ f \in Nat /\ t \in Nat
          /\ x + n = f /\ t <= x
      BY <2>3, <2>5
    <3>2. /\ k.examined = x + 1 /\ Len(k.batch) = n /\ k.found = f
          /\ k.counted = t
      BY <2>2
    <3> HIDE DEF x, n, f, t
    <3>3. (x + 1) + n = f + 1 /\ t < x + 1
      BY <3>1
    <3> QED BY <3>2, <3>3
  <2>4. Accounted(k)
    BY <2>2, <2>3, <2>5, <2>6 DEF Accounted
  <2> QED BY <2>1, <2>2, <2>4, OnePass DEF Inv
<1> QED BY <1>2, <1>3, <1>4

\* Reading the context changes no counter; failing to read it ends the pass.
LEMMA ContextOK ==
    ASSUME Inv, NEW p \in Passes, ReadContext(p) \/ FailContext(p)
    PROVE  PassesOK'
<1> DEFINE c == pass[p]
<1>1. c \in Pass /\ Accounted(c) /\ c.at = "context" /\ pass \in [Passes -> Pass]
  BY DEF Inv, PassesOK, ReadContext, FailContext
<1>2. CASE ReadContext(p)
  <2> DEFINE k == [c EXCEPT !.at = "row"]
  <2>1. pass' = [pass EXCEPT ![p] = k]
    BY <1>1, <1>2 DEF ReadContext
  <2> HIDE DEF c
  <2>2. /\ k \in Pass /\ k.at = "row" /\ k.found = c.found /\ k.batch = c.batch
        /\ k.examined = c.examined /\ k.counted = c.counted
    BY <1>1 DEF Pass, PassStates
  <2> HIDE DEF k
  <2>3. Accounted(k)
    BY <1>1, <2>2 DEF Accounted
  <2> QED BY <2>1, <2>2, <2>3, OnePass DEF Inv
<1>3. CASE FailContext(p)
  <2> DEFINE k == [c EXCEPT !.at = "raised", !.batch = <<>>]
  <2>1. pass' = [pass EXCEPT ![p] = k]
    BY <1>1, <1>3 DEF FailContext
  <2> HIDE DEF c
  <2>2. /\ k \in Pass /\ k.at = "raised" /\ k.found = c.found
        /\ k.examined = c.examined /\ k.counted = c.counted
    <3> DEFINE e == <<>>
    <3>1. e \in Seq(Read)
      OBVIOUS
    <3> HIDE DEF e
    <3>2. LET q == [c EXCEPT !.at = "raised", !.batch = e]
          IN /\ q \in Pass /\ q.at = "raised" /\ q.found = c.found
             /\ q.examined = c.examined /\ q.counted = c.counted
      BY <1>1, <3>1 DEF Pass, PassStates
    <3> QED BY <3>2 DEF e
  <2>3. Len(c.batch) \in Nat
    BY <1>1 DEF Pass
  <2> HIDE DEF k
  <2>4. k.found <= Limit /\ k.examined <= k.found /\ k.counted <= k.examined
    <3> DEFINE x == c.examined
               n == Len(c.batch)
               f == c.found
               t == c.counted
    <3>1. /\ x \in Nat /\ n \in Nat /\ f \in Nat /\ f <= Limit
          /\ n > 0 /\ x + n = f + 1
      BY <1>1, <2>3 DEF Accounted, Pass
    <3>2. t \in Nat /\ t < x
      BY <1>1 DEF Accounted, Pass
    <3>3. k.examined = x /\ k.found = f /\ k.counted = t
      BY <2>2
    <3> HIDE DEF x, n, f, t
    <3>4. x <= f /\ t <= x
      BY <3>1, <3>2
    <3> QED BY <3>1, <3>3, <3>4
  <2>5. Accounted(k)
    BY <2>2, <2>4 DEF Accounted
  <2> QED BY <2>1, <2>2, <2>5, OnePass DEF Inv
<1> QED BY <1>2, <1>3

\* A handled row leaves the batch and is counted at most once.
LEMMA HandledOK ==
    ASSUME Inv, NEW p \in Passes, pass[p].at = "row", NEW count \in {0, 1},
           NEW left \in 0 .. pass[p].left, Handled(p, count, left)
    PROVE  PassesOK'
<1> DEFINE c == pass[p]
           rest == Tail(c.batch)
           t    == c.counted + count
           k == [c EXCEPT !.at = "loop", !.batch = rest, !.left = left,
                          !.counted = t]
<1>1. c \in Pass /\ Accounted(c) /\ c.at = "row" /\ pass \in [Passes -> Pass]
  BY DEF Inv, PassesOK
<1>2. pass' = [pass EXCEPT ![p] = k]
  BY <1>1 DEF Handled, Pass
<1> HIDE DEF c
<1>3. /\ c.found \in Nat /\ c.examined \in Nat /\ c.counted \in Nat
      /\ c.batch \in Seq(Read) /\ Len(c.batch) \in Nat
  BY <1>1 DEF Pass
<1>4. left \in 0 .. Budget
  BY <1>1, BoundsAssumption DEF Pass, c
<1>5. /\ Len(c.batch) > 0 /\ c.examined + Len(c.batch) = c.found + 1
      /\ c.counted < c.examined /\ c.found <= Limit
  BY <1>1 DEF Accounted
<1>6. rest \in Seq(Read) /\ Len(rest) = Len(c.batch) - 1
  BY <1>3, <1>5
<1>7. t \in Nat /\ t <= c.counted + 1
  BY <1>3
<1> HIDE DEF rest, t
<1>8. /\ k \in Pass /\ k.at = "loop" /\ k.batch = rest /\ k.found = c.found
      /\ k.examined = c.examined /\ k.counted = t
  BY <1>1, <1>4, <1>6, <1>7 DEF Pass, PassStates
<1> HIDE DEF k
<1>9. k.examined + Len(k.batch) = k.found /\ k.counted <= k.examined
  <2>1. c.examined + Len(rest) = c.found
    <3> DEFINE x == c.examined
               f == c.found
               n == Len(c.batch)
    <3>1. x \in Nat /\ f \in Nat /\ n \in Nat /\ x + n = f + 1
      BY <1>3, <1>5
    <3> HIDE DEF x, f, n
    <3>2. x + (n - 1) = f
      BY <3>1
    <3> QED BY <1>6, <3>2 DEF x, f, n
  <2>2. t <= c.examined
    BY <1>3, <1>5, <1>7
  <2> QED BY <1>8, <2>1, <2>2
<1>10. Accounted(k)
  BY <1>5, <1>8, <1>9 DEF Accounted
<1> QED BY <1>2, <1>8, <1>10, OnePass DEF Inv

\* The row a pass is at is one of the rows, read in a state that is offered.
LEMMA CurrentTyped ==
    ASSUME Inv, NEW p \in Passes, pass[p].at = "row"
    PROVE  Current(p).id \in Rows /\ Current(p).state \in Offered
<1>1. pass[p].batch \in Seq(Read) /\ Len(pass[p].batch) > 0
  BY DEF Inv, PassesOK, Pass, Accounted
<1>2. Current(p) \in Read
  BY <1>1 DEF Current
<1> QED BY <1>2 DEF Read

\* What handling a row writes are states of a row that is present.
LEMMA WrittenTyped ==
    ASSUME NEW s \in Offered
    PROVE  /\ Written[s] \subseteq RowStates \ {"absent"}
           /\ HandledStates(s) \subseteq RowStates \ {"absent"}
BY DEF Offered, Written, HandledStates, RowStates

-----------------------------------------------------------------------------
(* The steps of the specification. *)

\* A fault is counted within its bound.
LEMMA FaultOK ==
    ASSUME faults \in 0 .. Faults, Fault
    PROVE  faults' \in 0 .. Faults
BY BoundsAssumption DEF Fault

\* Every step keeps the invariant.
LEMMA NextInv ==
    ASSUME Inv, [Next]_vars
    PROVE  Inv'
<1>0. OrderOK /\ PassesOK /\ faults \in 0 .. Faults
  BY DEF Inv
<1>1. ASSUME NEW r \in Rows, Arrive(r) PROVE Inv'
  <2>1. OrderOK'
    BY <1>0, <1>1, WriteOrder DEF Arrive, RowStates
  <2> QED BY <1>0, <1>1, <2>1 DEF Arrive, Inv, PassesOK
<1>2. ASSUME NEW r \in Rows, AdvanceRequest(r) PROVE Inv'
  <2>1. PICK s \in RowStates : /\ <<row[r], s>> \in RequestSteps
                               /\ row' = [row EXCEPT ![r] = s]
                               /\ order' = Touch(order, r)
                               /\ UNCHANGED <<pass, faults>>
    BY <1>2 DEF AdvanceRequest
  <2>2. s # "absent"
    BY <2>1 DEF RequestSteps
  <2>3. OrderOK'
    BY <1>0, <2>1, <2>2, WriteOrder
  <2> QED BY <1>0, <2>1, <2>3 DEF Inv, PassesOK
<1>3. ASSUME NEW r \in Rows, Age(r) PROVE Inv'
  <2>1. OrderOK'
    BY <1>0, <1>3, AgeOrder
  <2> QED BY <1>0, <1>3, <2>1 DEF Age, Inv, PassesOK
<1>4. ASSUME NEW p \in Passes, StartPass(p) \/ NextRow(p) \/ ReadContext(p) PROVE Inv'
  <2>1. PassesOK'
    BY <1>4, StartPassOK, NextRowOK, ContextOK
  <2>2. UNCHANGED <<row, order, faults>>
    BY <1>4 DEF StartPass, NextRow, ReadContext
  <2> QED BY <1>0, <2>1, <2>2 DEF Inv, OrderOK, Present
<1>5. ASSUME NEW p \in Passes, FailContext(p) PROVE Inv'
  <2>1. PassesOK'
    BY <1>5, ContextOK
  <2>2. UNCHANGED <<row, order>> /\ faults' \in 0 .. Faults
    BY <1>0, <1>5, FaultOK DEF FailContext
  <2> QED BY <1>0, <2>1, <2>2 DEF Inv, OrderOK, Present
<1>6. ASSUME NEW p \in Passes, FailFind(p) \/ Crash(p) PROVE Inv'
  <2>1. PassesOK'
    <3>1. NoPass = [NoPass EXCEPT !.at = "idle"]
      BY DEF NoPass
    <3>2. CASE FailFind(p)
      BY <1>0, <3>2, NoPassOK, OnePass DEF FailFind
    <3>3. CASE Crash(p)
      BY <1>0, <3>1, <3>3, NoPassOK, OnePass DEF Crash
    <3> QED BY <1>6, <3>2, <3>3
  <2>2. UNCHANGED <<row, order>> /\ faults' \in 0 .. Faults
    BY <1>0, <1>6, FaultOK DEF FailFind, Crash
  <2> QED BY <1>0, <2>1, <2>2 DEF Inv, OrderOK, Present
<1>7. ASSUME NEW p \in Passes, HandleRow(p) PROVE Inv'
  <2>1. pass[p].at = "row" /\ faults' = faults
    BY <1>7 DEF HandleRow
  <2>2. Current(p).id \in Rows /\ Current(p).state \in Offered
    BY <2>1, CurrentTyped
  <2>3. PICK s \in HandledStates(Current(p).state), left \in 0 .. pass[p].left :
          /\ row' = [row EXCEPT ![Current(p).id] = s]
          /\ order' = Touch(order, Current(p).id)
          /\ Handled(p, IF s = Current(p).state THEN 0 ELSE 1, left)
    BY <1>7 DEF HandleRow
  <2>4. s \in RowStates \ {"absent"}
    BY <2>2, <2>3, WrittenTyped
  <2>5. OrderOK'
    BY <1>0, <2>2, <2>3, <2>4, WriteOrder
  <2>6. PassesOK'
    BY <2>1, <2>3, HandledOK
  <2> QED BY <1>0, <2>1, <2>5, <2>6 DEF Inv
<1>8. ASSUME NEW p \in Passes, FailPlanning(p) PROVE Inv'
  <2>1. pass[p].at = "row" /\ faults' = faults
    BY <1>8 DEF FailPlanning
  <2>2. Current(p).id \in Rows
    BY <2>1, CurrentTyped
  <2>3. OrderOK'
    <3>1. "closed" \in RowStates \ {"absent"}
      BY DEF RowStates
    <3> QED BY <1>0, <1>8, <2>2, <3>1, WriteOrder DEF FailPlanning
  <2>4. PassesOK'
    <3>1. pass[p].left \in 0 .. pass[p].left
      BY <1>0, BoundsAssumption DEF PassesOK, Pass
    <3> QED BY <1>8, <2>1, <3>1, HandledOK DEF FailPlanning
  <2> QED BY <1>0, <2>1, <2>3, <2>4 DEF Inv
<1>9. ASSUME NEW p \in Passes, LoseRow(p) PROVE Inv'
  <2>1. pass[p].left \in 0 .. pass[p].left
    BY <1>0, BoundsAssumption DEF PassesOK, Pass
  <2>2. PassesOK'
    BY <1>9, <2>1, HandledOK DEF LoseRow
  <2>3. UNCHANGED <<row, order, faults>>
    BY <1>9 DEF LoseRow
  <2> QED BY <1>0, <2>2, <2>3 DEF Inv, OrderOK, Present
<1>10. ASSUME NEW p \in Passes, ExpireRow(p) PROVE Inv'
  <2>1. pass[p].at = "row" /\ Fault
    BY <1>10 DEF ExpireRow
  <2>2. Current(p).id \in Rows
    BY <2>1, CurrentTyped
  <2>3. faults' \in 0 .. Faults
    BY <1>0, <2>1, FaultOK
  <2>4. PassesOK'
    <3>1. 0 \in 0 .. pass[p].left
      BY <1>0, BoundsAssumption DEF PassesOK, Pass
    <3> QED BY <1>10, <2>1, <3>1, HandledOK DEF ExpireRow
  <2>5. OrderOK'
    <3>1. "planned" \in RowStates \ {"absent"}
      BY DEF RowStates
    <3>2. CASE UNCHANGED <<row, order>>
      BY <1>0, <3>2 DEF OrderOK, Present
    <3>3. CASE /\ row' = [row EXCEPT ![Current(p).id] = "planned"]
               /\ order' = Touch(order, Current(p).id)
      BY <1>0, <2>2, <3>1, <3>3, WriteOrder
    <3> QED BY <1>10, <3>2, <3>3 DEF ExpireRow
  <2> QED BY <2>3, <2>4, <2>5 DEF Inv
<1>11. ASSUME NEW p \in Passes, FailRow(p) PROVE Inv'
  <2>1. pass[p].at = "row" /\ Fault
    BY <1>11 DEF FailRow
  <2>2. Current(p).id \in Rows /\ Current(p).state \in Offered
    BY <2>1, CurrentTyped
  <2>3. faults' \in 0 .. Faults
    BY <1>0, <2>1, FaultOK
  <2>4. PassesOK'
    <3>1. pass[p].left \in 0 .. pass[p].left
      BY <1>0, BoundsAssumption DEF PassesOK, Pass
    <3> QED BY <1>11, <2>1, <3>1, HandledOK DEF FailRow
  <2>5. OrderOK'
    <3>1. CASE UNCHANGED <<row, order>>
      BY <1>0, <3>1 DEF OrderOK, Present
    <3>2. ASSUME NEW s \in Written[Current(p).state],
                 row' = [row EXCEPT ![Current(p).id] = s],
                 order' = Touch(order, Current(p).id)
          PROVE  OrderOK'
      <4>1. s \in RowStates \ {"absent"}
        BY <2>2, WrittenTyped
      <4> QED BY <1>0, <2>2, <3>2, <4>1, WriteOrder
    <3> QED BY <1>11, <3>1, <3>2 DEF FailRow
  <2> QED BY <2>3, <2>4, <2>5 DEF Inv
<1>12. CASE UNCHANGED vars
  BY <1>0, <1>12 DEF vars, Inv, OrderOK, Present, PassesOK
<1> QED
  BY <1>1, <1>2, <1>3, <1>4, <1>5, <1>6, <1>7, <1>8, <1>9, <1>10, <1>11, <1>12
  DEF Next, Work

\* The invariant holds at the start.
LEMMA InitInv == Init => Inv
<1> SUFFICES ASSUME Init PROVE Inv
  OBVIOUS
<1>1. OrderOK
  BY DEF Init, OrderOK, Present, Once, Listed, RowStates
<1>2. NoPass \in Pass /\ Accounted(NoPass)
  <2>1. NoPass = [NoPass EXCEPT !.at = "idle"]
    BY DEF NoPass
  <2> QED BY <2>1, NoPassOK
<1>3. PassesOK
  BY <1>2 DEF Init, PassesOK
<1>4. faults \in 0 .. Faults
  BY BoundsAssumption DEF Init
<1> QED BY <1>1, <1>3, <1>4 DEF Inv

-----------------------------------------------------------------------------
(* The theorems. *)

\* Every present row keeps one place in the order, and a pass holds rows as
\* find_reconcilable read them, within its time.
THEOREM PassesTyped == Spec => []TypeOK
BY InitInv, NextInv, InvTyped, PTL DEF Spec

\* The report of a pass accounts for the rows it found, whatever faults,
\* crashes, request threads and other passes do.
THEOREM ReportAlwaysAccounts == Spec => []ReportAccounts
BY InitInv, NextInv, InvAccounts, PTL DEF Spec
=============================================================================
