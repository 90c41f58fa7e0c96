------------------------ MODULE FindingDelivery_proofs ------------------------
(***************************************************************************)
(* Delivery is right for any number of invocations, findings, attempts,    *)
(* gateway calls and rows: one processing per alert, successes that are    *)
(* durable, conflicts that are real, and acceptances that leave a trace.   *)
(***************************************************************************)
EXTENDS FindingDelivery, TLAPS

-----------------------------------------------------------------------------
(* The inductive invariant. *)

\* Row i is the processing of the finding that message m carries.
Held(i, m) ==
    /\ row[i].state # "absent"
    /\ row[i].identity = KeyOf(m)
    /\ row[i].alert = AlertOf(m)

\* Another alert that was sent holds the key of message m.
Rival(m) ==
    \E i \in Ids, t \in Senders :
        /\ row[i].state # "absent"
        /\ row[i].identity = KeyOf(m)
        /\ row[i].alert = Canonical[Finding[t]]
        /\ sender[t].step # "idle"
        /\ Canonical[Finding[t]] # AlertOf(m)

\* What a result r says about the finding of message m is so.
Backed(m, r) ==
    /\ r.class \in {"completed", "accepted"} =>
         \E i \in Ids : /\ Held(i, m)
                        /\ r.id \in {i, None}
                        /\ r.class = "completed" => row[i].state = "completed"
    /\ r.id # None => r.id \in Ids /\ Held(r.id, m)
    /\ r.code = "idempotency_conflict" => Rival(m)
    /\ r.class = "permanent_failure" => r.status = 409

\* A result that names the row its call created, or that is not final.
Traceable(k) ==
    \/ k.result.class \in {"completed", "accepted", "transient_failure"}
    \/ k.made \in {k.result.id, k.result.url}

\* A handler works for a message that was sent; the core creates at most one
\* row for it, and a handler that stopped waiting has a result to retry on.
CallOK(c) ==
    LET k == call[c] IN
    /\ k.gate # "free" \/ k.core # "none" =>
         k.message \in Messages /\ sender[k.message.sender].step # "idle"
    /\ k.core = "queued" => k.made = None
    /\ k.core = "serving" => k.made # None
    /\ k.made # None => /\ k.gate # "free" \/ k.core # "none"
                        /\ Held(k.made, k.message)
    /\ k.gate = "answered" =>
         /\ Backed(k.message, k.result)
         /\ k.core # "none" => k.result.class = "transient_failure"
         /\ k.made # None => Traceable(k)

CallInv == \A c \in Calls : CallOK(c)

\* A row is the processing of a finding that was sent, the only one of its key.
RowInv ==
    /\ \A i \in Ids : row[i].state # "absent" =>
         \E t \in Senders : /\ sender[t].step # "idle"
                            /\ row[i].identity = Identity[Finding[t]]
                            /\ row[i].alert = Canonical[Finding[t]]
    /\ \A i, j \in Ids : /\ row[i].state # "absent" /\ row[j].state # "absent"
                         /\ row[i].identity = row[j].identity
                         => i = j

\* Only what was posted is on the wire.
WireInv == \A m \in Messages : wire[m] # "unsent" => sender[m.sender].step # "idle"

\* What an outcome says of the rows.
OutcomeOK(s) ==
    LET d == sender[s].outcome IN
    /\ d.category = "success" =>
         \E i \in Ids :
             /\ row[i].state # "absent"
             /\ row[i].identity = Identity[Finding[s]]
             /\ row[i].alert = Canonical[Finding[s]]
             /\ d.id \in {i, None}
             /\ d.status = 200 => row[i].state = "completed"
    /\ d.code = "idempotency_conflict" =>
         \E i \in Ids, t \in Senders :
             /\ row[i].state # "absent"
             /\ row[i].identity = Identity[Finding[s]]
             /\ row[i].alert = Canonical[Finding[t]]
             /\ sender[t].step # "idle"
             /\ Canonical[Finding[t]] # Canonical[Finding[s]]
    /\ d.id # None =>
         /\ d.id \in Ids /\ row[d.id].state # "absent"
         /\ row[d.id].identity = Identity[Finding[s]]
         /\ row[d.id].alert = Canonical[Finding[s]]

OutcomeInv == \A s \in Senders : OutcomeOK(s)

Inv == TypeOK /\ CallInv /\ RowInv /\ WireInv /\ OutcomeInv

\* Before the first invocation all of it holds.
LEMMA InitInv == Init => Inv
  <1> SUFFICES ASSUME Init PROVE Inv
    OBVIOUS
  <1>1. NoOutcome \in Outcomes /\ NoResult \in Results
    BY DEF NoOutcome, Outcomes, Code, NoResult, Results
  <1>2. FreeCall \in CallStates
    BY <1>1 DEF FreeCall, CallStates
  <1>3. [step |-> "idle", attempt |-> 1, outcome |-> NoOutcome] \in SenderStates
    BY <1>1, DeliveryAssumption DEF SenderStates
  <1>4. TypeOK
    BY <1>2, <1>3 DEF Init, TypeOK, WireStates, Rows!Init, Rows!Absent, Rows!PublicRows
  <1>5. CallInv
    BY DEF Init, CallInv, CallOK, FreeCall
  <1>6. RowInv /\ WireInv
    BY DEF Init, RowInv, WireInv, Rows!Init, Rows!Absent
  <1>7. OutcomeInv
    BY DEF Init, OutcomeInv, OutcomeOK, NoOutcome
  <1> QED BY <1>4, <1>5, <1>6, <1>7 DEF Inv

-----------------------------------------------------------------------------
(* What every step keeps. *)

\* A row that exists keeps its identity and its alert, and its completion.
RowsKept ==
    \A i \in Ids : row[i].state # "absent" =>
        /\ row'[i].state # "absent"
        /\ row'[i].identity = row[i].identity
        /\ row'[i].alert = row[i].alert
        /\ row[i].state = "completed" => row'[i].state = "completed"

\* An invocation never becomes idle again.
SendersKept == \A s \in Senders : sender[s].step # "idle" => sender'[s].step # "idle"

\* What was true of rows and rivals stays true.
LEMMA FactsKept ==
    ASSUME RowsKept, SendersKept, NEW m \in Messages
    PROVE  /\ \A i \in Ids : Held(i, m) => Held(i, m)'
           /\ Rival(m) => Rival(m)'
           /\ \A r : Backed(m, r) => Backed(m, r)'
  <1>1. \A i \in Ids : Held(i, m) => Held(i, m)'
    BY DEF RowsKept, Held, KeyOf, AlertOf, FindingOf
  <1>2. Rival(m) => Rival(m)'
    BY DEF RowsKept, SendersKept, Rival, KeyOf, AlertOf, FindingOf
  <1>3. ASSUME NEW r, Backed(m, r)
        PROVE  Backed(m, r)'
    <2>1. ASSUME r.class \in {"completed", "accepted"}
          PROVE  \E i \in Ids : /\ Held(i, m)'
                                /\ r.id \in {i, None}
                                /\ r.class = "completed" => row'[i].state = "completed"
      <3>1. PICK i \in Ids : /\ Held(i, m)
                             /\ r.id \in {i, None}
                             /\ r.class = "completed" => row[i].state = "completed"
        BY <1>3, <2>1 DEF Backed
      <3>2. Held(i, m)' /\ (r.class = "completed" => row'[i].state = "completed")
        BY <1>1, <3>1 DEF RowsKept, Held
      <3> QED BY <3>1, <3>2
    <2>2. r.id # None => r.id \in Ids /\ Held(r.id, m)'
      BY <1>1, <1>3 DEF Backed
    <2> QED BY <1>2, <1>3, <2>1, <2>2 DEF Backed, Held
  <1> QED BY <1>1, <1>2, <1>3

\* A handler that a step leaves alone keeps its invariant.
LEMMA CallKept ==
    ASSUME TypeOK, RowsKept, SendersKept, NEW c \in Calls, CallOK(c), call'[c] = call[c]
    PROVE  CallOK(c)'
  <1> DEFINE k == call[c]
  <1>1. k \in CallStates
    BY DEF TypeOK
  <1>2. k.made # None => k.made \in Ids
    BY <1>1 DEF CallStates
  <1>3. CASE k.gate = "free" /\ k.core = "none"
    BY <1>3 DEF CallOK
  <1>4. CASE k.gate # "free" \/ k.core # "none"
    <2>1. k.message \in Messages /\ sender'[k.message.sender].step # "idle"
      BY <1>4 DEF CallOK, SendersKept, Messages
    <2>2. k.made # None => Held(k.made, k.message)'
      BY <1>2, <2>1, FactsKept DEF CallOK
    <2>3. k.gate = "answered" => Backed(k.message, k.result)'
      BY <2>1, FactsKept DEF CallOK
    <2> QED BY <2>1, <2>2, <2>3 DEF CallOK, Held, Backed, Rival, Traceable
  <1> QED BY <1>3, <1>4

\* So do all handlers but the one that moves.
LEMMA CallsKept ==
    ASSUME TypeOK, CallInv, RowsKept, SendersKept,
           NEW c \in Calls, \A d \in Calls \ {c} : call'[d] = call[d],
           CallOK(c)'
    PROVE  CallInv'
  BY CallKept DEF CallInv

\* Rows that stay are still those of findings that were sent.
LEMMA RowsStay ==
    ASSUME RowInv, UNCHANGED row, SendersKept
    PROVE  RowsKept /\ RowInv'
  <1>1. RowsKept
    BY DEF RowsKept
  <1>2. ASSUME NEW i \in Ids, row'[i].state # "absent"
        PROVE  \E t \in Senders : /\ sender'[t].step # "idle"
                                  /\ row'[i].identity = Identity[Finding[t]]
                                  /\ row'[i].alert = Canonical[Finding[t]]
    BY <1>2 DEF RowInv, SendersKept
  <1> QED BY <1>1, <1>2 DEF RowInv

\* An outcome that stays is still so.
LEMMA OutcomeKept ==
    ASSUME RowsKept, SendersKept, NEW s \in Senders, OutcomeOK(s),
           sender'[s].outcome = sender[s].outcome
    PROVE  OutcomeOK(s)'
  <1>1. ASSUME sender[s].outcome.category = "success"
        PROVE  \E i \in Ids :
                 /\ row'[i].state # "absent"
                 /\ row'[i].identity = Identity[Finding[s]]
                 /\ row'[i].alert = Canonical[Finding[s]]
                 /\ sender[s].outcome.id \in {i, None}
                 /\ sender[s].outcome.status = 200 => row'[i].state = "completed"
    BY <1>1 DEF OutcomeOK, RowsKept
  <1>2. ASSUME sender[s].outcome.code = "idempotency_conflict"
        PROVE  \E i \in Ids, t \in Senders :
                 /\ row'[i].state # "absent"
                 /\ row'[i].identity = Identity[Finding[s]]
                 /\ row'[i].alert = Canonical[Finding[t]]
                 /\ sender'[t].step # "idle"
                 /\ Canonical[Finding[t]] # Canonical[Finding[s]]
    BY <1>2 DEF OutcomeOK, RowsKept, SendersKept
  <1>3. ASSUME sender[s].outcome.id # None
        PROVE  LET i == sender[s].outcome.id IN
               /\ i \in Ids /\ row'[i].state # "absent"
               /\ row'[i].identity = Identity[Finding[s]]
               /\ row'[i].alert = Canonical[Finding[s]]
    BY <1>3 DEF OutcomeOK, RowsKept
  <1> QED BY <1>1, <1>2, <1>3 DEF OutcomeOK

\* A step of the gateway or the core leaves the invocations alone.
LEMMA SendersStay ==
    ASSUME Inv, UNCHANGED sender, RowsKept
    PROVE  SendersKept /\ OutcomeInv'
  <1>1. SendersKept
    BY DEF SendersKept
  <1>2. \A s \in Senders : OutcomeOK(s)'
    BY <1>1, OutcomeKept DEF Inv, OutcomeInv
  <1> QED BY <1>1, <1>2 DEF OutcomeInv

-----------------------------------------------------------------------------
(* Results and outcomes. *)

\* The sender's disposition of a result is an outcome.
LEMMA ClassifyAdapterType ==
    ASSUME NEW r \in Results, NEW readable \in BOOLEAN
    PROVE  ClassifyAdapter(r, readable) \in Outcomes
  <1>1. GatewayStatus(r) \in {0, 200, 202, 401, 409, 500, 502, 503, 504}
    BY DEF GatewayStatus, Results
  <1>2. ASSUME NEW st \in {0, 200, 202, 401, 409, 500, 502, 503, 504}
        PROVE  Fallback(st) \in Outcomes
    <2> DEFINE cat == CASE st \in {200, 202} -> "success"
                        [] st \in {401, 409} -> "permanent_failure"
                        [] OTHER              -> "transient_failure"
               code == IF st \in {200, 202} THEN "none" ELSE "unexpected_adapter_response"
    <2>1. Fallback(st) = [category |-> cat, status |-> st, id |-> None, code |-> code]
      BY DEF Fallback, NoOutcome
    <2>2. /\ cat \in {"success", "permanent_failure", "transient_failure"}
          /\ code \in {"none", "unexpected_adapter_response"}
      OBVIOUS
    <2> HIDE DEF cat, code
    <2> QED BY <1>2, <2>1, <2>2 DEF Outcomes, Code
  <1>3. [category |-> IF r.class \in {"completed", "accepted"} THEN "success" ELSE r.class,
         status |-> GatewayStatus(r), id |-> r.id, code |-> r.code] \in Outcomes
        \/ r.class = "unauthenticated"
    BY <1>1 DEF Results, Outcomes
  <1> QED BY <1>1, <1>2, <1>3 DEF ClassifyAdapter

\* It is a success only for a success of the gateway, whatever of the body was
\* read; 200 is a completion, and a conflict is the gateway's.
LEMMA ClassifyAdapterMeans ==
    ASSUME NEW r \in Results, NEW readable \in BOOLEAN,
           r.class = "permanent_failure" => r.status = 409
    PROVE  LET d == ClassifyAdapter(r, readable) IN
           /\ d.category = "success" =>
                /\ r.class \in {"completed", "accepted"}
                /\ d.id \in {r.id, None}
                /\ d.status = 200 => r.class = "completed"
           /\ d.code = "idempotency_conflict" => r.code = "idempotency_conflict"
           /\ d.id \in {r.id, None}
  <1>1. GatewayStatus(r) \in {200, 202} => r.class \in {"completed", "accepted"}
    BY DEF GatewayStatus, Results
  <1>2. GatewayStatus(r) = 200 => r.class = "completed"
    BY DEF GatewayStatus, Results
  <1>3. ASSUME NEW st \in Nat
        PROVE  /\ Fallback(st).category = "success" => st \in {200, 202}
               /\ Fallback(st).id = None /\ Fallback(st).status = st
               /\ Fallback(st).code # "idempotency_conflict"
    BY DEF Fallback, NoOutcome
  <1>4. GatewayStatus(r) \in Nat
    BY DEF GatewayStatus, Results
  <1>5. CASE ~readable \/ r.class = "unauthenticated"
    BY <1>1, <1>2, <1>3, <1>4, <1>5 DEF ClassifyAdapter
  <1>6. CASE ~(~readable \/ r.class = "unauthenticated")
    BY <1>2, <1>6 DEF ClassifyAdapter, Results
  <1> QED BY <1>5, <1>6

\* The gateway's classification of the core's answer is a result, and keeps
\* what the answer says.
LEMMA ClassifyUpstreamType ==
    ASSUME NEW a \in Results
    PROVE  LET r == ClassifyUpstream(a) IN
           /\ r \in Results
           /\ r.status = a.status /\ r.id = a.id /\ r.url = a.url
           /\ r.code \in {a.code, "other"}
           /\ r.class = "completed" <=> a.status = 200
           /\ r.class = "accepted" <=> a.status = 202
           /\ r.class = "permanent_failure" <=> a.status = 409
           /\ r.class = "durable_failure" => a.status = 500 /\ (a.id # None \/ a.url # None)
           /\ r.class \in {"completed", "accepted", "permanent_failure", "durable_failure",
                           "transient_failure"}
  <1> DEFINE named == a.id # None \/ a.url # None
             class == CASE a.status = 200              -> "completed"
                        [] a.status = 202              -> "accepted"
                        [] a.status = 409              -> "permanent_failure"
                        [] a.status = 500 /\ named     -> "durable_failure"
                        [] OTHER                       -> "transient_failure"
             code == IF class = "transient_failure" THEN "other" ELSE a.code
             unknown == class = "transient_failure" /\ a.status = 500
  <1>1. ClassifyUpstream(a) = [a EXCEPT !.class = class, !.code = code, !.unknown = unknown]
    BY DEF ClassifyUpstream
  <1>2. /\ class \in {"completed", "accepted", "permanent_failure", "durable_failure",
                      "transient_failure"}
        /\ class = "completed" <=> a.status = 200
        /\ class = "accepted" <=> a.status = 202
        /\ class = "permanent_failure" <=> a.status = 409
        /\ class = "durable_failure" => a.status = 500 /\ named
    BY DEF Results
  <1>3. code \in {a.code, "other"} /\ code \in Code /\ unknown \in BOOLEAN
    BY DEF Results, Code
  <1> HIDE DEF class, code, unknown
  <1> DEFINE r1 == [a EXCEPT !.class = class]
             r2 == [r1 EXCEPT !.code = code]
             r3 == [r2 EXCEPT !.unknown = unknown]
  <1>4. /\ r1 \in Results /\ r1.class = class
        /\ r1.status = a.status /\ r1.id = a.id /\ r1.url = a.url /\ r1.code = a.code
    BY <1>2 DEF Results
  <1>5. ClassifyUpstream(a) = r3
    BY <1>1, <1>4
  <1> HIDE DEF r1
  <1>6. /\ r2 \in Results /\ r2.class = class /\ r2.code = code
        /\ r2.status = a.status /\ r2.id = a.id /\ r2.url = a.url
    BY <1>3, <1>4 DEF Results
  <1> HIDE DEF r2
  <1>7. /\ r3 \in Results /\ r3.class = class /\ r3.code = code
        /\ r3.status = a.status /\ r3.id = a.id /\ r3.url = a.url
    BY <1>3, <1>6 DEF Results
  <1> HIDE DEF r3
  <1> QED BY <1>2, <1>3, <1>5, <1>7

-----------------------------------------------------------------------------
(* The alert action. *)

\* The end of an attempt: the invocation goes on, or ends with the disposition.
LEMMA ConcludeSender ==
    ASSUME TypeOK, NEW s \in Senders, NEW d \in Outcomes, Conclude(s, d),
           sender[s].step = "waiting"
    PROVE  /\ sender' \in [Senders -> SenderStates]
           /\ SendersKept
           /\ \A t \in Senders \ {s} : sender'[t].outcome = sender[t].outcome
           /\ sender'[s].outcome \in {sender[s].outcome, d}
  <1>1. sender[s] \in SenderStates /\ MaximumAttempts \in Nat
    BY DeliveryAssumption DEF TypeOK
  <1> DEFINE over == [sender[s] EXCEPT !.step = "done", !.outcome = d]
             next == [sender[s] EXCEPT !.step = "ready", !.attempt = sender[s].attempt + 1]
  <1>2. over \in SenderStates /\ over.step = "done" /\ over.outcome = d
    BY <1>1 DEF SenderStates
  <1>3. sender[s].attempt # MaximumAttempts =>
          next \in SenderStates /\ next.step = "ready" /\ next.outcome = sender[s].outcome
    <2>1. sender[s].attempt + 1 \in 1..MaximumAttempts \/ sender[s].attempt = MaximumAttempts
      BY <1>1 DEF SenderStates
    <2> QED BY <1>1, <2>1 DEF SenderStates
  <1>4. sender' = [sender EXCEPT ![s] =
                     IF d.category # "transient_failure" \/ sender[s].attempt = MaximumAttempts
                     THEN over ELSE next]
    BY DEF Conclude
  <1> HIDE DEF over, next
  <1>5. sender'[s] \in SenderStates /\ sender'[s].step # "idle"
        /\ sender'[s].outcome \in {sender[s].outcome, d}
    BY <1>2, <1>3, <1>4 DEF TypeOK
  <1>6. \A t \in Senders \ {s} : sender'[t] = sender[t]
    BY <1>4 DEF TypeOK
  <1>7. sender' \in [Senders -> SenderStates]
    BY <1>4, <1>5 DEF TypeOK
  <1> QED BY <1>5, <1>6, <1>7 DEF SendersKept

\* Invoking and posting move one invocation on, without an outcome of the core.
LEMMA InvokeKeeps ==
    ASSUME Inv, NEW s \in Senders, Invoke(s) \/ Post(s)
    PROVE  Inv'
  <1>1. TypeOK /\ sender[s] \in SenderStates
    BY DEF Inv, TypeOK
  <1> DEFINE m == [sender |-> s, attempt |-> sender[s].attempt]
  <1>2. m \in Messages
    BY <1>1 DEF SenderStates, Messages
  <1>3. /\ sender' \in [Senders -> SenderStates]
        /\ \A t \in Senders \ {s} : sender'[t] = sender[t]
        /\ sender'[s].step # "idle"
        /\ \/ sender'[s].outcome = sender[s].outcome
           \/ /\ sender'[s].outcome.category = "input_error"
              /\ sender'[s].outcome.code = sender[s].outcome.code
              /\ sender'[s].outcome.id = sender[s].outcome.id
    <2>1. CASE sender' = [sender EXCEPT ![s].step = "ready"]
                \/ sender' = [sender EXCEPT ![s].step = "waiting"]
      BY <1>1, <2>1 DEF TypeOK, SenderStates
    <2>2. CASE sender' = [sender EXCEPT ![s].step = "done",
                                        ![s].outcome.category = "input_error"]
      <3> DEFINE o == [sender[s].outcome EXCEPT !.category = "input_error"]
                 n == [sender[s] EXCEPT !.step = "done"]
                 f == [n EXCEPT !.outcome = o]
      <3>1. n \in SenderStates /\ n.step = "done" /\ n.outcome = sender[s].outcome
        BY <1>1 DEF SenderStates
      <3>2. o \in Outcomes /\ o.category = "input_error" /\ o.code = sender[s].outcome.code
            /\ o.id = sender[s].outcome.id
        BY <1>1 DEF SenderStates, Outcomes
      <3>3. sender' = [sender EXCEPT ![s] = f]
        BY <1>1, <2>2, <3>1 DEF TypeOK
      <3> HIDE DEF o, n
      <3>4. f \in SenderStates /\ f.step = "done" /\ f.outcome = o
        BY <3>1, <3>2 DEF SenderStates
      <3> HIDE DEF f
      <3> QED BY <1>1, <3>2, <3>3, <3>4 DEF TypeOK
    <2> QED BY <2>1, <2>2 DEF Invoke, Post
  <1>4. SendersKept
    BY <1>3 DEF SendersKept
  <1>5. RowsKept /\ RowInv'
    BY <1>4, RowsStay DEF Inv, Invoke, Post
  <1>6. CallInv'
    BY <1>1, <1>4, <1>5, CallKept DEF Inv, CallInv, Invoke, Post
  <1>7. /\ wire' \in [Messages -> WireStates]
        /\ \A n \in Messages : wire'[n] # "unsent" => wire[n] # "unsent" \/ n = m
    BY <1>2 DEF Inv, TypeOK, Invoke, Post, WireStates
  <1>8. WireInv'
    <2>1. \A n \in Messages : n.sender \in Senders
      BY DEF Messages
    <2> QED BY <1>3, <1>4, <1>7, <2>1 DEF Inv, WireInv, SendersKept
  <1>9. TypeOK'
    BY <1>3, <1>7 DEF Inv, TypeOK, Invoke, Post
  <1>10. \A t \in Senders : OutcomeOK(t)'
    <2>1. \A t \in Senders : OutcomeOK(t)
      BY DEF Inv, OutcomeInv
    <2>2. ASSUME NEW t \in Senders, sender'[t].outcome = sender[t].outcome
          PROVE  OutcomeOK(t)'
      BY <1>4, <1>5, <2>1, <2>2, OutcomeKept
    <2>3. ASSUME sender'[s].outcome.category = "input_error",
                 sender'[s].outcome.code = sender[s].outcome.code,
                 sender'[s].outcome.id = sender[s].outcome.id
          PROVE  OutcomeOK(s)'
      BY <1>4, <1>5, <2>1, <2>3 DEF OutcomeOK, SendersKept, RowsKept
    <2> QED BY <1>3, <2>2, <2>3
  <1>11. OutcomeInv'
    BY <1>10 DEF OutcomeInv
  <1> QED BY <1>5, <1>6, <1>8, <1>9, <1>11 DEF Inv

\* The end of an attempt whose disposition is backed by the rows.
LEMMA ConcludeKeeps ==
    ASSUME Inv, NEW s \in Senders, NEW d \in Outcomes, Conclude(s, d),
           sender[s].step = "waiting", UNCHANGED <<row, wire>>,
           d.category = "success" =>
             \E i \in Ids :
                 /\ row[i].state # "absent"
                 /\ row[i].identity = Identity[Finding[s]]
                 /\ row[i].alert = Canonical[Finding[s]]
                 /\ d.id \in {i, None}
                 /\ d.status = 200 => row[i].state = "completed",
           d.code = "idempotency_conflict" =>
             \E i \in Ids, t \in Senders :
                 /\ row[i].state # "absent"
                 /\ row[i].identity = Identity[Finding[s]]
                 /\ row[i].alert = Canonical[Finding[t]]
                 /\ sender[t].step # "idle"
                 /\ Canonical[Finding[t]] # Canonical[Finding[s]],
           d.id # None => /\ d.id \in Ids /\ row[d.id].state # "absent"
                          /\ row[d.id].identity = Identity[Finding[s]]
                          /\ row[d.id].alert = Canonical[Finding[s]]
    PROVE  /\ SendersKept /\ RowsKept /\ RowInv' /\ WireInv'
           /\ sender' \in [Senders -> SenderStates]
           /\ OutcomeInv'
  <1>1. /\ sender' \in [Senders -> SenderStates]
        /\ SendersKept
        /\ \A t \in Senders \ {s} : sender'[t].outcome = sender[t].outcome
        /\ sender'[s].outcome \in {sender[s].outcome, d}
    BY ConcludeSender DEF Inv
  <1>2. RowsKept /\ RowInv'
    BY <1>1, RowsStay DEF Inv
  <1>3. WireInv'
    BY <1>1 DEF Inv, WireInv, SendersKept, Messages
  <1>4. ASSUME NEW t \in Senders, sender'[t].outcome = sender[t].outcome
        PROVE  OutcomeOK(t)'
    BY <1>1, <1>2, <1>4, OutcomeKept DEF Inv, OutcomeInv
  <1>5. ASSUME sender'[s].outcome = d
        PROVE  OutcomeOK(s)'
    BY <1>1, <1>2, <1>5 DEF OutcomeOK, SendersKept, RowsKept
  <1>6. \A t \in Senders : OutcomeOK(t)'
    BY <1>1, <1>4, <1>5
  <1>7. OutcomeInv'
    BY <1>6 DEF OutcomeInv
  <1> QED BY <1>1, <1>2, <1>3, <1>7

\* A connection that is lost says nothing about the rows.
LEMMA LoseConnectionKeeps ==
    ASSUME Inv, NEW s \in Senders, LoseConnection(s)
    PROVE  Inv'
  <1> DEFINE d == [NoOutcome EXCEPT !.category = "transient_failure", !.code = "other"]
  <1>1. d \in Outcomes /\ d.category = "transient_failure" /\ d.code = "other"
        /\ d.id = None
    <2> DEFINE Categories == {"none", "input_error", "success", "permanent_failure",
                              "durable_failure", "transient_failure"}
               Statuses   == {0, 200, 202, 401, 409, 500, 502, 503, 504}
               Named      == Ids \cup {None}
               o          == NoOutcome
    <2>1. Outcomes = [category: Categories, status: Statuses, id: Named, code: Code]
      BY DEF Outcomes
    <2>2. "transient_failure" \in Categories /\ "other" \in Code
      BY DEF Code
    <2>3. o \in Outcomes /\ o.id = None
      BY DEF NoOutcome, Outcomes, Code
    <2>4. d = [o EXCEPT !.category = "transient_failure", !.code = "other"]
      OBVIOUS
    <2> HIDE DEF Categories, Statuses, Named, o, d
    <2> QED BY <2>1, <2>2, <2>3, <2>4
  <1> HIDE DEF d
  <1>2. Conclude(s, d) /\ sender[s].step = "waiting" /\ UNCHANGED <<row, wire, call>>
    BY DEF LoseConnection, d
  <1>3. /\ SendersKept /\ RowsKept /\ RowInv' /\ WireInv'
        /\ sender' \in [Senders -> SenderStates]
        /\ OutcomeInv'
    BY <1>1, <1>2, ConcludeKeeps
  <1>4. CallInv'
    BY <1>2, <1>3, CallKept DEF Inv, CallInv
  <1> QED BY <1>2, <1>3, <1>4 DEF Inv, TypeOK

-----------------------------------------------------------------------------
(* The gateway. *)

\* A handler that is free again keeps the message and the row of its core.
LEMMA ReleaseCall ==
    ASSUME TypeOK, NEW c \in Calls, CallOK(c), RowsKept, SendersKept, Release(c)
    PROVE  /\ call' \in [Calls -> CallStates]
           /\ \A d \in Calls \ {c} : call'[d] = call[d]
           /\ CallOK(c)'
  <1> DEFINE k == call[c]
             k1 == [k EXCEPT !.gate = "free"]
             k2 == [k1 EXCEPT !.owned = FALSE]
             k3 == [k2 EXCEPT !.result = NoResult]
  <1>1. k \in CallStates /\ NoResult \in Results /\ FreeCall \in CallStates
    BY DEF TypeOK, NoResult, Results, Code, FreeCall, CallStates
  <1>2. call' = [call EXCEPT ![c] = IF k.core \in {"queued", "serving"} THEN k3 ELSE FreeCall]
    BY DEF Release
  <1> HIDE DEF k
  <1>3. /\ k1 \in CallStates /\ k1.gate = "free" /\ k1.core = k.core
        /\ k1.message = k.message /\ k1.made = k.made
    BY <1>1 DEF CallStates
  <1> HIDE DEF k1
  <1>4. /\ k2 \in CallStates /\ k2.gate = "free" /\ k2.core = k.core
        /\ k2.message = k.message /\ k2.made = k.made
    BY <1>3 DEF CallStates
  <1> HIDE DEF k2
  <1>5. /\ k3 \in CallStates /\ k3.gate = "free" /\ k3.core = k.core
        /\ k3.message = k.message /\ k3.made = k.made
    BY <1>1, <1>4 DEF CallStates
  <1> HIDE DEF k3
  <1>6. call' \in [Calls -> CallStates] /\ \A d \in Calls \ {c} : call'[d] = call[d]
    BY <1>1, <1>2, <1>5 DEF TypeOK
  <1>7. CASE k.core \in {"queued", "serving"}
    <2>1. call'[c] = k3
      BY <1>2, <1>7 DEF TypeOK
    <2>2. /\ k.message \in Messages /\ sender[k.message.sender].step # "idle"
          /\ k.core = "queued" => k.made = None
          /\ k.core = "serving" => k.made # None
          /\ k.made # None => Held(k.made, k.message)
      BY <1>7 DEF CallOK, k
    <2>3. sender'[k.message.sender].step # "idle"
      BY <2>2 DEF SendersKept, Messages
    <2>4. k.made # None => k.made \in Ids
      BY <1>1 DEF CallStates
    <2>5. k.made # None => /\ row'[k.made].state # "absent"
                           /\ row'[k.made].identity = KeyOf(k.message)
                           /\ row'[k.made].alert = AlertOf(k.message)
      BY <2>2, <2>4 DEF Held, RowsKept
    <2>6. CallOK(c)'
      BY <1>5, <1>7, <2>1, <2>2, <2>3, <2>5 DEF CallOK, Held, KeyOf, AlertOf, FindingOf
    <2> QED BY <1>6, <2>6
  <1>8. CASE k.core \notin {"queued", "serving"}
    <2>1. call'[c] = FreeCall
      BY <1>2, <1>8 DEF TypeOK
    <2>2. CallOK(c)'
      BY <2>1 DEF CallOK, FreeCall
    <2> QED BY <1>6, <2>2
  <1> QED BY <1>7, <1>8

\* The sender's disposition is backed by the result the gateway answered with.
LEMMA ReceiveKeeps ==
    ASSUME Inv, NEW s \in Senders, NEW c \in Calls, Receive(s, c)
    PROVE  Inv'
  <1> DEFINE r == call[c].result
             m == call[c].message
  <1>1. PICK readable \in BOOLEAN : Conclude(s, ClassifyAdapter(r, readable))
    BY DEF Receive
  <1> DEFINE d == ClassifyAdapter(r, readable)
  <1>2. /\ sender[s].step = "waiting" /\ call[c].gate = "answered"
        /\ m = [sender |-> s, attempt |-> sender[s].attempt]
        /\ Release(c) /\ UNCHANGED <<row, wire>>
    BY DEF Receive
  <1>3. TypeOK /\ r \in Results /\ CallOK(c)
    BY DEF Inv, TypeOK, CallStates, CallInv
  <1>4. Backed(m, r) /\ KeyOf(m) = Identity[Finding[s]] /\ AlertOf(m) = Canonical[Finding[s]]
    BY <1>2, <1>3 DEF CallOK, KeyOf, AlertOf, FindingOf
  <1>5. d \in Outcomes
    BY <1>3, ClassifyAdapterType
  <1>6. /\ d.category = "success" =>
             /\ r.class \in {"completed", "accepted"}
             /\ d.id \in {r.id, None}
             /\ d.status = 200 => r.class = "completed"
        /\ d.code = "idempotency_conflict" => r.code = "idempotency_conflict"
        /\ d.id \in {r.id, None}
    BY <1>3, <1>4, ClassifyAdapterMeans DEF Backed
  <1> HIDE DEF d
  <1>7. d.category = "success" =>
          \E i \in Ids :
              /\ row[i].state # "absent"
              /\ row[i].identity = Identity[Finding[s]]
              /\ row[i].alert = Canonical[Finding[s]]
              /\ d.id \in {i, None}
              /\ d.status = 200 => row[i].state = "completed"
    BY <1>4, <1>6 DEF Backed, Held
  <1>8. d.code = "idempotency_conflict" =>
          \E i \in Ids, t \in Senders :
              /\ row[i].state # "absent"
              /\ row[i].identity = Identity[Finding[s]]
              /\ row[i].alert = Canonical[Finding[t]]
              /\ sender[t].step # "idle"
              /\ Canonical[Finding[t]] # Canonical[Finding[s]]
    BY <1>4, <1>6 DEF Backed, Rival
  <1>a. d.id # None => /\ d.id \in Ids /\ row[d.id].state # "absent"
                       /\ row[d.id].identity = Identity[Finding[s]]
                       /\ row[d.id].alert = Canonical[Finding[s]]
    BY <1>4, <1>6 DEF Backed, Held
  <1>9. Conclude(s, d)
    BY <1>1 DEF d
  <1>10. /\ SendersKept /\ RowsKept /\ RowInv' /\ WireInv'
         /\ sender' \in [Senders -> SenderStates]
         /\ OutcomeInv'
    BY <1>2, <1>5, <1>7, <1>8, <1>a, <1>9, ConcludeKeeps
  <1>11. /\ call' \in [Calls -> CallStates]
         /\ \A e \in Calls \ {c} : call'[e] = call[e]
         /\ CallOK(c)'
    BY <1>2, <1>3, <1>10, ReleaseCall
  <1>12. CallInv'
    BY <1>3, <1>10, <1>11, CallsKept DEF Inv
  <1> QED BY <1>2, <1>10, <1>11, <1>12 DEF Inv, TypeOK

\* A step of one handler, which leaves the invocations and the rows alone.
LEMMA HandlerKeeps ==
    ASSUME Inv, NEW c \in Calls, UNCHANGED <<row, sender>>,
           call' \in [Calls -> CallStates], \A d \in Calls \ {c} : call'[d] = call[d],
           CallOK(c)', wire' \in [Messages -> WireStates],
           \A m \in Messages : wire'[m] # "unsent" => wire[m] # "unsent"
    PROVE  Inv'
  <1>1. SendersKept
    BY DEF SendersKept
  <1>2. RowsKept /\ RowInv'
    BY <1>1, RowsStay DEF Inv
  <1>3. OutcomeInv'
    BY <1>2, SendersStay
  <1>4. CallInv'
    BY <1>1, <1>2, CallsKept DEF Inv
  <1>5. WireInv'
    BY DEF Inv, WireInv
  <1> QED BY <1>2, <1>3, <1>4, <1>5 DEF Inv, TypeOK

\* A request that waits too long is still a request that was sent.
LEMMA ExpireKeeps ==
    ASSUME Inv, NEW m \in Messages, Expire(m)
    PROVE  Inv'
  <1>1. SendersKept /\ RowsKept /\ RowInv'
    BY RowsStay DEF Inv, Expire, SendersKept
  <1>2. OutcomeInv'
    BY <1>1, SendersStay DEF Expire
  <1>3. CallInv'
    BY <1>1, CallKept DEF Inv, CallInv, Expire
  <1>4. WireInv' /\ wire' \in [Messages -> WireStates]
    BY DEF Inv, TypeOK, WireInv, Expire, WireStates
  <1> QED BY <1>1, <1>2, <1>3, <1>4 DEF Inv, TypeOK, Expire

\* A handler starts on a request that was sent.
LEMMA ArriveKeeps ==
    ASSUME Inv, NEW c \in Calls, NEW m \in Messages, Admit(c, m) \/ Refuse(c, m)
    PROVE  Inv'
  <1> DEFINE k == call'[c]
  <1>1. FreeCall \in CallStates /\ NoResult \in Results
    BY DEF NoResult, Results, Code, FreeCall, CallStates
  <1>2. TypeOK /\ sender[m.sender].step # "idle"
    BY DEF Inv, WireInv, Admit, Refuse
  <1>3. /\ wire' \in [Messages -> WireStates]
        /\ \A n \in Messages : wire'[n] # "unsent" => wire[n] # "unsent"
    BY <1>2 DEF Admit, Refuse, TypeOK, WireStates
  <1>4. UNCHANGED <<row, sender>>
    BY DEF Admit, Refuse
  <1>5. /\ call' \in [Calls -> CallStates]
        /\ \A d \in Calls \ {c} : call'[d] = call[d]
        /\ CallOK(c)'
    <2>1. CASE Admit(c, m)
      <3> DEFINE own == wire[m] = "sent"
                 a1 == [FreeCall EXCEPT !.gate = "posting"]
                 a2 == [a1 EXCEPT !.core = "queued"]
                 a3 == [a2 EXCEPT !.message = m]
                 a4 == [a3 EXCEPT !.owned = own]
      <3>1. call' = [call EXCEPT ![c] = a4]
        BY <2>1 DEF Admit
      <3>2. /\ a2 \in CallStates /\ a2.gate = "posting" /\ a2.core = "queued"
            /\ a2.made = None
        BY <1>1 DEF FreeCall, CallStates
      <3> HIDE DEF a2
      <3>3. /\ a3 \in CallStates /\ a3.gate = "posting" /\ a3.core = "queued"
            /\ a3.made = None /\ a3.message = m
        BY <3>2 DEF CallStates
      <3> HIDE DEF a3
      <3>4. /\ a4 \in CallStates /\ a4.gate = "posting" /\ a4.core = "queued"
            /\ a4.made = None /\ a4.message = m
        BY <3>3 DEF CallStates
      <3> HIDE DEF a4
      <3>5. k = a4 /\ call' \in [Calls -> CallStates]
            /\ \A d \in Calls \ {c} : call'[d] = call[d]
        BY <1>2, <3>1, <3>4 DEF TypeOK
      <3> QED BY <1>2, <1>4, <3>4, <3>5 DEF CallOK
    <2>2. CASE Refuse(c, m)
      <3> DEFINE res == [NoResult EXCEPT !.class = "unauthenticated"]
                 b1 == [FreeCall EXCEPT !.gate = "answered"]
                 b2 == [b1 EXCEPT !.message = m]
                 b3 == [b2 EXCEPT !.owned = TRUE]
                 b4 == [b3 EXCEPT !.result = res]
      <3>1. res \in Results /\ res.class = "unauthenticated" /\ res.code = "none"
            /\ res.id = None
        <4>1. NoResult.code = "none" /\ NoResult.id = None
          BY DEF NoResult
        <4> QED BY <1>1, <4>1 DEF Results
      <3>2. /\ b3 \in CallStates /\ b3.gate = "answered" /\ b3.core = "none"
            /\ b3.made = None /\ b3.message = m /\ b3.result = NoResult
        BY <1>1 DEF FreeCall, CallStates
      <3>3. call' = [call EXCEPT ![c] = b4]
        BY <2>2, <3>2 DEF Refuse, NoResult
      <3> HIDE DEF b3, res
      <3>4. /\ b4 \in CallStates /\ b4.gate = "answered" /\ b4.core = "none"
            /\ b4.made = None /\ b4.message = m /\ b4.result = res
        BY <3>1, <3>2 DEF CallStates
      <3> HIDE DEF b4
      <3>5. k = b4 /\ call' \in [Calls -> CallStates]
            /\ \A d \in Calls \ {c} : call'[d] = call[d]
        BY <1>2, <3>3, <3>4 DEF TypeOK
      <3> QED BY <1>2, <1>4, <3>1, <3>4, <3>5 DEF CallOK, Backed
    <2> QED BY <2>1, <2>2
  <1> QED BY <1>3, <1>4, <1>5, HandlerKeeps

\* The gateway's own failures are transient and carry no conflict.
LEMMA FailedResult ==
    ASSUME NEW code \in {"upstream_timeout", "other"}, NEW unknown \in BOOLEAN
    PROVE  LET r == Failed(code, unknown) IN
           r \in Results /\ r.class = "transient_failure" /\ r.code = code /\ r.id = None
  <1> DEFINE r1 == [NoResult EXCEPT !.class = "transient_failure"]
             r2 == [r1 EXCEPT !.code = code]
             r3 == [r2 EXCEPT !.unknown = unknown]
  <1>1. NoResult \in Results /\ NoResult.id = None
    BY DEF NoResult, Results, Code
  <1>2. Failed(code, unknown) = r3
    BY DEF Failed
  <1>3. r1 \in Results /\ r1.class = "transient_failure" /\ r1.id = None
    BY <1>1 DEF Results
  <1> HIDE DEF r1
  <1>4. r2 \in Results /\ r2.class = "transient_failure" /\ r2.code = code
        /\ r2.id = None
    BY <1>3 DEF Results, Code
  <1> HIDE DEF r2
  <1>5. r3 \in Results /\ r3.class = "transient_failure" /\ r3.code = code
        /\ r3.id = None
    BY <1>4 DEF Results
  <1> QED BY <1>2, <1>5

\* A handler with a result: its message, and the row of its core, stay.
Answered(k, core, r) == [k EXCEPT !.gate = "answered", !.core = core, !.result = r]

\* It is a handler that has the result and keeps the rest.
LEMMA AnsweredState ==
    ASSUME NEW k \in CallStates, NEW core \in {"none", "queued", "serving"}, NEW r \in Results
    PROVE  LET n == Answered(k, core, r) IN
           /\ n \in CallStates
           /\ n.gate = "answered" /\ n.core = core /\ n.result = r
           /\ n.message = k.message /\ n.made = k.made
  <1> DEFINE k1 == [k EXCEPT !.gate = "answered"]
             k2 == [k1 EXCEPT !.core = core]
             k3 == [k2 EXCEPT !.result = r]
  <1>1. Answered(k, core, r) = k3
    BY DEF Answered
  <1>2. k1 \in CallStates /\ k1.gate = "answered"
        /\ k1.message = k.message /\ k1.made = k.made
    BY DEF CallStates
  <1> HIDE DEF k1
  <1>3. k2 \in CallStates /\ k2.gate = "answered" /\ k2.core = core
        /\ k2.message = k.message /\ k2.made = k.made
    BY <1>2 DEF CallStates
  <1> HIDE DEF k2
  <1>4. k3 \in CallStates /\ k3.gate = "answered" /\ k3.core = core /\ k3.result = r
        /\ k3.message = k.message /\ k3.made = k.made
    BY <1>3 DEF CallStates
  <1> HIDE DEF k3
  <1> QED BY <1>1, <1>4

\* The step that answers one handler.
LEMMA AnsweredCall ==
    ASSUME TypeOK, NEW c \in Calls, NEW core \in {"none", "queued", "serving"},
           NEW r \in Results, call' = [call EXCEPT ![c] = Answered(call[c], core, r)]
    PROVE  /\ call' \in [Calls -> CallStates]
           /\ \A d \in Calls \ {c} : call'[d] = call[d]
           /\ call'[c].gate = "answered" /\ call'[c].core = core /\ call'[c].result = r
           /\ call'[c].message = call[c].message /\ call'[c].made = call[c].made
  <1>1. call[c] \in CallStates
    BY DEF TypeOK
  <1>2. call'[c] = Answered(call[c], core, r)
    BY DEF TypeOK
  <1>3. call' \in [Calls -> CallStates] /\ \A d \in Calls \ {c} : call'[d] = call[d]
    BY <1>1, AnsweredState DEF TypeOK
  <1> QED BY <1>1, <1>2, <1>3, AnsweredState

\* A transient failure of the gateway says nothing about rows.
LEMMA FailUpstreamKeeps ==
    ASSUME Inv, NEW c \in Calls, RefuseUpstream(c) \/ GiveUpUpstream(c)
    PROVE  Inv'
  <1>1. TypeOK /\ CallOK(c) /\ UNCHANGED <<row, sender, wire>>
    BY DEF Inv, CallInv, RefuseUpstream, GiveUpUpstream
  <1> DEFINE k == call[c]
  <1>2. k \in CallStates
    BY <1>1 DEF TypeOK
  <1>3. PICK core \in {"none", k.core}, r \in Results :
          /\ call' = [call EXCEPT ![c] = Answered(k, core, r)]
          /\ k.gate = "posting"
          /\ r.class = "transient_failure" /\ r.code \in {"upstream_timeout", "other"}
          /\ r.id = None
    <2>1. CASE RefuseUpstream(c)
      <3> DEFINE r == Failed("other", FALSE)
      <3>1. r \in Results /\ r.class = "transient_failure" /\ r.code = "other" /\ r.id = None
        BY FailedResult
      <3>2. call' = [call EXCEPT ![c] = Answered(k, "none", r)]
        BY <1>1, <2>1 DEF RefuseUpstream, Answered, TypeOK
      <3> HIDE DEF r
      <3> QED BY <2>1, <3>1, <3>2 DEF RefuseUpstream
    <2>2. CASE GiveUpUpstream(c)
      <3>1. PICK code \in {"upstream_timeout", "other"} :
              call' = [call EXCEPT ![c].gate = "answered", ![c].result = Failed(code, TRUE)]
        BY <2>2 DEF GiveUpUpstream
      <3> DEFINE r  == Failed(code, TRUE)
                 k1 == [k EXCEPT !.gate = "answered"]
      <3>2. r \in Results /\ r.class = "transient_failure" /\ r.code = code /\ r.id = None
        BY FailedResult
      <3> HIDE DEF r
      <3>3. call' = [call EXCEPT ![c] = [k1 EXCEPT !.result = r]]
        BY <1>1, <3>1 DEF TypeOK, r
      <3>4. k1 = [k1 EXCEPT !.core = k.core]
        BY <1>2 DEF CallStates
      <3>5. Answered(k, k.core, r) = [[k1 EXCEPT !.core = k.core] EXCEPT !.result = r]
        BY DEF Answered
      <3> HIDE DEF k1
      <3>6. call' = [call EXCEPT ![c] = Answered(k, k.core, r)]
        BY <3>3, <3>4, <3>5
      <3> QED BY <2>2, <3>2, <3>6 DEF GiveUpUpstream
    <2> QED BY <2>1, <2>2
  <1>4. core \in {"none", "queued", "serving"}
    BY <1>2 DEF CallStates
  <1>5. /\ call' \in [Calls -> CallStates]
        /\ \A d \in Calls \ {c} : call'[d] = call[d]
        /\ call'[c].gate = "answered" /\ call'[c].core = core /\ call'[c].result = r
        /\ call'[c].message = k.message /\ call'[c].made = k.made
    BY <1>1, <1>3, <1>4, AnsweredCall
  <1>6. /\ k.message \in Messages /\ sender[k.message.sender].step # "idle"
        /\ k.core = "queued" => k.made = None
        /\ k.core = "serving" => k.made # None
        /\ k.made # None => Held(k.made, k.message)
    BY <1>1, <1>3 DEF CallOK
  <1>7. CallOK(c)'
    BY <1>1, <1>3, <1>5, <1>6
       DEF CallOK, Backed, Traceable, Held, KeyOf, AlertOf, FindingOf
  <1> QED BY <1>1, <1>5, <1>7, HandlerKeeps DEF TypeOK

\* A response nobody waits for.
LEMMA DropKeeps ==
    ASSUME Inv, NEW c \in Calls, Drop(c)
    PROVE  Inv'
  <1>1. /\ TypeOK /\ CallOK(c) /\ Release(c) /\ UNCHANGED <<row, sender, wire>>
        /\ RowsKept /\ SendersKept
    BY DEF Inv, CallInv, Drop, RowsKept, SendersKept
  <1>2. /\ call' \in [Calls -> CallStates]
        /\ \A d \in Calls \ {c} : call'[d] = call[d]
        /\ CallOK(c)'
    BY <1>1, ReleaseCall
  <1> QED BY <1>1, <1>2, HandlerKeeps DEF TypeOK

-----------------------------------------------------------------------------
(* The core. *)

\* The core is done with a call: a handler that still has its result to deliver
\* keeps it, and one that was released is free.
LEMMA CoreDone ==
    ASSUME Inv, NEW c \in Calls, UNCHANGED <<row, sender, wire>>,
           call[c].core # "none",
           call' = [call EXCEPT ![c] = IF call[c].gate = "free" THEN FreeCall
                                       ELSE [call[c] EXCEPT !.core = "none"]]
    PROVE  Inv'
  <1> DEFINE k == call[c]
             n == [k EXCEPT !.core = "none"]
  <1>1. TypeOK /\ CallOK(c) /\ k \in CallStates /\ FreeCall \in CallStates
    BY DEF Inv, CallInv, TypeOK, FreeCall, CallStates, NoResult, Results, Code
  <1>2. /\ n \in CallStates /\ n.core = "none" /\ n.gate = k.gate
        /\ n.message = k.message /\ n.made = k.made /\ n.result = k.result
    BY <1>1 DEF CallStates
  <1>3. call' = [call EXCEPT ![c] = IF k.gate = "free" THEN FreeCall ELSE n]
    OBVIOUS
  <1> HIDE DEF n
  <1>4. /\ call' \in [Calls -> CallStates]
        /\ \A d \in Calls \ {c} : call'[d] = call[d]
        /\ call'[c] = IF k.gate = "free" THEN FreeCall ELSE n
    BY <1>1, <1>2, <1>3 DEF TypeOK
  <1>5. CallOK(c)'
    <2>1. CASE k.gate = "free"
      BY <1>4, <2>1 DEF CallOK, FreeCall
    <2>2. CASE k.gate # "free"
      BY <1>1, <1>2, <1>4, <2>2
         DEF CallOK, Backed, Traceable, Rival, Held, KeyOf, AlertOf, FindingOf
    <2> QED BY <2>1, <2>2
  <1> QED BY <1>1, <1>4, <1>5, HandlerKeeps DEF TypeOK

\* The process dies.
LEMMA LoseCoreKeeps ==
    ASSUME Inv, NEW c \in Calls, LoseCore(c)
    PROVE  Inv'
  <1>1. /\ UNCHANGED <<row, sender, wire>> /\ call[c].core # "none"
        /\ call' = [call EXCEPT ![c] = IF call[c].gate = "free" THEN FreeCall
                                        ELSE [call[c] EXCEPT !.core = "none"]]
    BY DEF LoseCore
  <1> QED BY <1>1, CoreDone

\* An answer a of the core that is right for the call c.
Right(c, a) ==
    LET m == call[c].message IN
    /\ a.status \in {200, 202} =>
         \E i \in Ids : /\ Held(i, m)
                        /\ a.id \in {i, None}
                        /\ a.status = 200 => row[i].state = "completed"
    /\ a.id # None => a.id \in Ids /\ Held(a.id, m)
    /\ a.code = "idempotency_conflict" => Rival(m)
    /\ call[c].made # None => \/ a.status \in {200, 202, 503}
                              \/ a.status = 500 /\ a.id = None /\ a.url = None
                              \/ a.url = call[c].made

\* What the gateway makes of a right answer is so.
LEMMA RightIsBacked ==
    ASSUME NEW c \in Calls, NEW a \in Results, Right(c, a)
    PROVE  LET r == ClassifyUpstream(a) IN
           /\ r \in Results
           /\ Backed(call[c].message, r)
           /\ call[c].made # None => \/ r.class \in {"completed", "accepted", "transient_failure"}
                                     \/ call[c].made \in {r.id, r.url}
  <1> DEFINE r == ClassifyUpstream(a)
             m == call[c].message
  <1>1. /\ r \in Results
        /\ r.status = a.status /\ r.id = a.id /\ r.url = a.url
        /\ r.code \in {a.code, "other"}
        /\ r.class = "completed" <=> a.status = 200
        /\ r.class = "accepted" <=> a.status = 202
        /\ r.class = "permanent_failure" <=> a.status = 409
        /\ r.class = "durable_failure" => a.status = 500 /\ (a.id # None \/ a.url # None)
        /\ r.class \in {"completed", "accepted", "permanent_failure", "durable_failure",
                        "transient_failure"}
    BY ClassifyUpstreamType
  <1> HIDE DEF r
  <1>2. Backed(m, r)
    BY <1>1 DEF Right, Backed
  <1>3. call[c].made # None => \/ r.class \in {"completed", "accepted", "transient_failure"}
                               \/ call[c].made \in {r.id, r.url}
    BY <1>1 DEF Right
  <1> QED BY <1>1, <1>2, <1>3 DEF r

\* A right answer, read whole or without its body, keeps the invariant.
LEMMA RespondKeeps ==
    ASSUME Inv, NEW c \in Calls, NEW a \in Results, UNCHANGED <<row, sender, wire>>,
           call[c].core # "none", Respond(c, a), Right(c, a)
    PROVE  Inv'
  <1> DEFINE k == call[c]
  <1>1. CASE k.gate # "posting"
    <2>1. call' = [call EXCEPT ![c] = IF call[c].gate = "free" THEN FreeCall
                                      ELSE [call[c] EXCEPT !.core = "none"]]
      BY <1>1 DEF Respond
    <2> QED BY <2>1, CoreDone
  <1>2. CASE k.gate = "posting"
    <2> DEFINE b1 == [a EXCEPT !.id = None]
               b  == [b1 EXCEPT !.code = "none"]
    <2>1. PICK r \in {a, b} :
            call' = [call EXCEPT ![c].gate = "answered", ![c].core = "none",
                                 ![c].result = ClassifyUpstream(r)]
      BY <1>2 DEF Respond
    <2>2. /\ b1 \in Results /\ b1.id = None /\ b1.status = a.status /\ b1.url = a.url
      BY DEF Results
    <2> HIDE DEF b1
    <2>3. /\ b \in Results /\ b.id = None /\ b.status = a.status /\ b.url = a.url
          /\ b.code = "none"
      BY <2>2 DEF Results, Code
    <2> HIDE DEF b
    <2>4. Right(c, b)
      BY <2>3 DEF Right
    <2>5. r \in Results /\ Right(c, r)
      BY <2>3, <2>4
    <2> DEFINE res == ClassifyUpstream(r)
    <2>6. /\ res \in Results
          /\ Backed(k.message, res)
          /\ k.made # None => \/ res.class \in {"completed", "accepted", "transient_failure"}
                              \/ k.made \in {res.id, res.url}
      BY <2>5, RightIsBacked
    <2> HIDE DEF res
    <2>7. TypeOK /\ CallOK(c)
      BY DEF Inv, CallInv
    <2>8. call' = [call EXCEPT ![c] = Answered(k, "none", res)]
      BY <2>1, <2>7 DEF Answered, TypeOK, res
    <2>9. /\ call' \in [Calls -> CallStates]
          /\ \A d \in Calls \ {c} : call'[d] = call[d]
          /\ call'[c].gate = "answered" /\ call'[c].core = "none" /\ call'[c].result = res
          /\ call'[c].message = k.message /\ call'[c].made = k.made
      BY <2>6, <2>7, <2>8, AnsweredCall
    <2>10. /\ k.message \in Messages /\ sender[k.message.sender].step # "idle"
           /\ k.made # None => Held(k.made, k.message)
      BY <1>2, <2>7 DEF CallOK
    <2>11. CallOK(c)'
      BY <2>6, <2>9, <2>10
         DEF CallOK, Backed, Rival, Traceable, Held, KeyOf, AlertOf, FindingOf
    <2> QED BY <2>7, <2>9, <2>11, HandlerKeeps DEF TypeOK
  <1> QED BY <1>1, <1>2

\* An error answer is a result with the status, the code and the id given.
LEMMA ErrorResult ==
    ASSUME NEW status \in {409, 500, 503}, NEW code \in Code, NEW id \in Ids \cup {None}
    PROVE  LET a == Error(status, code, id) IN
           a \in Results /\ a.status = status /\ a.code = code /\ a.id = id /\ a.url = id
  <1> DEFINE a1 == [NoResult EXCEPT !.status = status]
             a2 == [a1 EXCEPT !.code = code]
             a3 == [a2 EXCEPT !.id = id]
             a4 == [a3 EXCEPT !.url = id]
  <1>1. Error(status, code, id) = a4
    BY DEF Error
  <1>2. NoResult \in Results
    BY DEF NoResult, Results, Code
  <1>3. a1 \in Results /\ a1.status = status
    BY <1>2 DEF Results
  <1> HIDE DEF a1
  <1>4. a2 \in Results /\ a2.status = status /\ a2.code = code
    BY <1>3 DEF Results
  <1> HIDE DEF a2
  <1>5. a3 \in Results /\ a3.status = status /\ a3.code = code /\ a3.id = id
    BY <1>4 DEF Results
  <1> HIDE DEF a3
  <1>6. a4 \in Results /\ a4.status = status /\ a4.code = code /\ a4.id = id /\ a4.url = id
    BY <1>5 DEF Results
  <1> HIDE DEF a4
  <1> QED BY <1>1, <1>6

\* The answer about a row names it; only a completed row is answered with 200.
LEMMA RecordResult ==
    ASSUME NEW i \in Ids
    PROVE  LET a == RecordAnswer(i) IN
           /\ a \in Results /\ a.id = i /\ a.url = i
           /\ a.code \in {"other", "none"}
           /\ a.status = 200 => row[i].state = "completed"
  <1> DEFINE status == CASE row[i].state = "completed"   -> 200
                         [] row[i].state = "active"      -> 202
                         [] row[i].state = "unsupported" -> 409
                         [] OTHER                        -> 500
             code == IF row[i].state \in {"unsupported", "failed"} THEN "other" ELSE "none"
             a1 == [NoResult EXCEPT !.status = status]
             a2 == [a1 EXCEPT !.id = i]
             a3 == [a2 EXCEPT !.url = i]
             a4 == [a3 EXCEPT !.code = code]
  <1>1. RecordAnswer(i) = a4
    BY DEF RecordAnswer
  <1>2. NoResult \in Results
    BY DEF NoResult, Results, Code
  <1>3. /\ status \in {200, 202, 409, 500} /\ code \in {"other", "none"}
        /\ status = 200 => row[i].state = "completed"
    OBVIOUS
  <1> HIDE DEF status, code
  <1>4. a1 \in Results /\ a1.status = status
    BY <1>2, <1>3 DEF Results
  <1> HIDE DEF a1
  <1>5. a2 \in Results /\ a2.status = status /\ a2.id = i
    BY <1>4 DEF Results
  <1> HIDE DEF a2
  <1>6. a3 \in Results /\ a3.status = status /\ a3.id = i /\ a3.url = i
    BY <1>5 DEF Results
  <1> HIDE DEF a3
  <1>7. a4 \in Results /\ a4.status = status /\ a4.code = code /\ a4.id = i /\ a4.url = i
    BY <1>3, <1>6 DEF Results, Code
  <1> HIDE DEF a4
  <1> QED BY <1>1, <1>3, <1>7

\* A replay is answered from the finding's own row, a conflict is one.
LEMMA ReplayAlertKeeps ==
    ASSUME Inv, NEW c \in Calls, NEW i \in Ids, ReplayAlert(c, i)
    PROVE  Inv'
  <1> DEFINE m == call[c].message
  <1>1. /\ call[c].core = "queued" /\ UNCHANGED <<row, sender, wire>>
        /\ row[i].state # "absent" /\ row[i].identity = KeyOf(m)
        /\ Respond(c, IF row[i].alert = AlertOf(m) THEN RecordAnswer(i)
                      ELSE Error(409, "idempotency_conflict", None))
    BY DEF ReplayAlert, Rows!Holder
  <1>2. m \in Messages /\ call[c].made = None
    BY <1>1 DEF Inv, CallInv, CallOK
  <1>3. CASE row[i].alert = AlertOf(m)
    <2>1. /\ RecordAnswer(i) \in Results /\ RecordAnswer(i).id = i
          /\ RecordAnswer(i).code \in {"other", "none"}
          /\ RecordAnswer(i).status = 200 => row[i].state = "completed"
      BY RecordResult
    <2>2. Held(i, m)
      BY <1>1, <1>3 DEF Held
    <2>3. Right(c, RecordAnswer(i))
      BY <1>2, <2>1, <2>2 DEF Right
    <2> QED BY <1>1, <1>3, <2>1, <2>3, RespondKeeps
  <1>4. CASE row[i].alert # AlertOf(m)
    <2> DEFINE a == Error(409, "idempotency_conflict", None)
    <2>1. a \in Results /\ a.status = 409 /\ a.id = None
      BY ErrorResult DEF Code
    <2>2. Rival(m)
      BY <1>1, <1>4 DEF Inv, RowInv, Rival
    <2> HIDE DEF a
    <2>3. Right(c, a)
      BY <1>2, <2>1, <2>2 DEF Right
    <2> QED BY <1>1, <1>4, <2>1, <2>3, RespondKeeps DEF a
  <1> QED BY <1>3, <1>4

\* Errors before acceptance claim nothing.
LEMMA FailAcceptanceKeeps ==
    ASSUME Inv, NEW c \in Calls, FailAcceptance(c)
    PROVE  Inv'
  <1>1. call[c].core = "queued" /\ UNCHANGED <<row, sender, wire>>
    BY DEF FailAcceptance
  <1>2. call[c].made = None
    BY <1>1 DEF Inv, CallInv, CallOK
  <1>3. ASSUME NEW status \in {500, 503}, NEW code \in {"other", "none"},
               Respond(c, Error(status, code, None))
        PROVE  Inv'
    <2> DEFINE a == Error(status, code, None)
    <2>1. a \in Results /\ a.status = status /\ a.code = code /\ a.id = None
      BY ErrorResult DEF Code
    <2> HIDE DEF a
    <2>2. Right(c, a)
      BY <1>2, <2>1 DEF Right
    <2> QED BY <1>1, <1>3, <2>1, <2>2, RespondKeeps DEF a
  <1> QED BY <1>3 DEF FailAcceptance

\* The accepting request is answered about the row it created.
LEMMA AnswerAlertKeeps ==
    ASSUME Inv, NEW c \in Calls, AnswerAlert(c)
    PROVE  Inv'
  <1> DEFINE i == call[c].made
             m == call[c].message
  <1>1. call[c].core = "serving" /\ UNCHANGED <<row, sender, wire>>
    BY DEF AnswerAlert
  <1>2. i \in Ids /\ i # None /\ Held(i, m)
    BY <1>1 DEF Inv, CallInv, CallOK, TypeOK, CallStates
  <1>3. CASE Respond(c, RecordAnswer(i))
    <2>1. /\ RecordAnswer(i) \in Results /\ RecordAnswer(i).id = i
          /\ RecordAnswer(i).url = i /\ RecordAnswer(i).code \in {"other", "none"}
          /\ RecordAnswer(i).status = 200 => row[i].state = "completed"
      BY <1>2, RecordResult
    <2>2. Right(c, RecordAnswer(i))
      BY <1>2, <2>1 DEF Right
    <2> QED BY <1>1, <1>3, <2>1, <2>2, RespondKeeps
  <1>4. ASSUME NEW status \in {409, 500, 503}, NEW code \in {"other", "none"},
               NEW id \in {i, None}, Respond(c, Error(status, code, id)),
               id = i \/ status \in {500, 503}
        PROVE  Inv'
    <2> DEFINE a == Error(status, code, id)
    <2>1. a \in Results /\ a.status = status /\ a.code = code /\ a.id = id /\ a.url = id
      BY <1>2, ErrorResult DEF Code
    <2> HIDE DEF a
    <2>2. Right(c, a)
      BY <1>2, <1>4, <2>1 DEF Right
    <2> QED BY <1>1, <1>4, <2>1, <2>2, RespondKeeps DEF a
  <1> QED BY <1>3, <1>4 DEF AnswerAlert

\* A row is created under a free key, for the finding of the call's message.
LEMMA AcceptAlertKeeps ==
    ASSUME Inv, NEW c \in Calls, NEW i \in Ids, AcceptAlert(c, i)
    PROVE  Inv'
  <1> DEFINE k == call[c]
             m == k.message
             new == [state |-> "active", identity |-> KeyOf(m), alert |-> AlertOf(m)]
             k1 == [k EXCEPT !.core = "serving"]
             k2 == [k1 EXCEPT !.made = i]
  <1>1. /\ k.core = "queued" /\ UNCHANGED <<sender, wire>>
        /\ row[i] = Rows!Absent
        /\ \A j \in Ids : ~Rows!Holder(j, KeyOf(m))
        /\ row' = [row EXCEPT ![i] = new]
    BY DEF AcceptAlert, Rows!Accept
  <1>2. TypeOK /\ CallOK(c) /\ k \in CallStates
    BY DEF Inv, CallInv, TypeOK
  <1>3. call' = [call EXCEPT ![c] = k2]
    BY <1>2 DEF AcceptAlert, TypeOK
  <1>4. /\ m \in Messages /\ sender[m.sender].step # "idle"
        /\ k.gate = "answered" => Backed(m, k.result) /\ k.result.class = "transient_failure"
    BY <1>1, <1>2 DEF CallOK
  <1>5. /\ m.sender \in Senders /\ Finding[m.sender] \in Findings
        /\ Finding[m.sender] \in DOMAIN Identity \cap DOMAIN Canonical
    BY <1>4, DeliveryAssumption DEF Messages, Findings
  <1>6. new \in Rows!PublicRows
    BY <1>5 DEF Rows!PublicRows, KeyOf, AlertOf, FindingOf
  <1> HIDE DEF new
  <1>7. /\ new.state = "active" /\ new.identity = KeyOf(m) /\ new.alert = AlertOf(m)
    BY DEF new
  <1>8. row' \in [Ids -> Rows!PublicRows] /\ row'[i] = new
        /\ \A j \in Ids \ {i} : row'[j] = row[j]
    BY <1>1, <1>2, <1>6 DEF TypeOK
  <1>9. row[i].state = "absent"
    BY <1>1 DEF Rows!Absent
  <1>10. RowsKept /\ SendersKept
    BY <1>1, <1>8, <1>9 DEF RowsKept, SendersKept
  <1>11. RowInv'
    <2>1. ASSUME NEW j \in Ids, row'[j].state # "absent"
          PROVE  \E t \in Senders : /\ sender'[t].step # "idle"
                                    /\ row'[j].identity = Identity[Finding[t]]
                                    /\ row'[j].alert = Canonical[Finding[t]]
      <3>1. CASE j = i
        BY <1>1, <1>4, <1>5, <1>7, <1>8, <3>1 DEF KeyOf, AlertOf, FindingOf
      <3>2. CASE j # i
        BY <1>1, <1>8, <2>1, <3>2 DEF Inv, RowInv
      <3> QED BY <3>1, <3>2
    <2>2. \A j \in Ids : row[j].state # "absent" => row[j].identity # KeyOf(m)
      BY <1>1 DEF Rows!Holder
    <2>3. ASSUME NEW j \in Ids, NEW l \in Ids, row'[j].state # "absent",
                 row'[l].state # "absent", row'[j].identity = row'[l].identity
          PROVE  j = l
      BY <1>7, <1>8, <2>2, <2>3 DEF Inv, RowInv
    <2> QED BY <2>1, <2>3 DEF RowInv
  <1>12. k1 \in CallStates /\ k1.core = "serving" /\ k1.gate = k.gate
         /\ k1.message = m /\ k1.result = k.result
    BY <1>2 DEF CallStates
  <1> HIDE DEF k1
  <1>13. k2 \in CallStates /\ k2.core = "serving" /\ k2.gate = k.gate
         /\ k2.message = m /\ k2.result = k.result /\ k2.made = i
    BY <1>12 DEF CallStates
  <1> HIDE DEF k2
  <1>14. call' \in [Calls -> CallStates] /\ call'[c] = k2
         /\ \A d \in Calls \ {c} : call'[d] = call[d]
    BY <1>2, <1>3, <1>13 DEF TypeOK
  <1>15. CallOK(c)'
    <2>1. i # None
      BY DeliveryAssumption
    <2>2. Held(i, m)'
      BY <1>7, <1>8, <1>13, <1>14 DEF Held, KeyOf, AlertOf, FindingOf
    <2>3. k.gate = "answered" => Backed(m, k.result)'
      <3>1. \A n \in Messages : \A r : Backed(n, r) => Backed(n, r)'
        BY <1>10, FactsKept
      <3>2. m' = m /\ k' = k2
        BY <1>13, <1>14
      <3> QED BY <1>4, <1>13, <3>1, <3>2
              DEF Backed, Held, Rival, KeyOf, AlertOf, FindingOf
    <2> QED BY <1>1, <1>4, <1>13, <1>14, <2>1, <2>2, <2>3
            DEF CallOK, Traceable, Held, Backed, Rival, KeyOf, AlertOf, FindingOf
  <1>16. CallInv'
    BY <1>2, <1>10, <1>14, <1>15, CallsKept DEF Inv
  <1>17. OutcomeInv'
    BY <1>1, <1>10, SendersStay
  <1> QED BY <1>1, <1>8, <1>11, <1>14, <1>16, <1>17 DEF Inv, TypeOK, WireInv

\* A row that ends keeps its key and its alert.
LEMMA CloseRowKeeps ==
    ASSUME Inv, NEW i \in Ids, NEW s \in Rows!Closed, CloseRow(i, s)
    PROVE  Inv'
  <1>1. /\ row[i].state = "active" /\ row' = [row EXCEPT ![i].state = s]
        /\ UNCHANGED <<sender, wire, call>>
    BY DEF CloseRow, Rows!Close
  <1>2. TypeOK /\ row[i] \in Rows!PublicRows
    BY DEF Inv, TypeOK
  <1>3. /\ row' \in [Ids -> Rows!PublicRows]
        /\ \A j \in Ids \ {i} : row'[j] = row[j]
        /\ row'[i].state = s /\ s # "absent"
        /\ row'[i].identity = row[i].identity /\ row'[i].alert = row[i].alert
    BY <1>1, <1>2 DEF TypeOK, Rows!PublicRows, Rows!Closed
  <1>4. RowsKept /\ SendersKept
    BY <1>1, <1>3 DEF RowsKept, SendersKept
  <1>5. \A j \in Ids : /\ row'[j].state # "absent" <=> row[j].state # "absent"
                       /\ row'[j].identity = row[j].identity /\ row'[j].alert = row[j].alert
    BY <1>1, <1>3
  <1>6. RowInv'
    BY <1>1, <1>5 DEF Inv, RowInv
  <1>7. CallInv'
    BY <1>1, <1>2, <1>4, CallKept DEF Inv, CallInv
  <1>8. OutcomeInv'
    BY <1>1, <1>4, SendersStay
  <1> QED BY <1>1, <1>3, <1>6, <1>7, <1>8 DEF Inv, TypeOK, WireInv

-----------------------------------------------------------------------------
(* The theorems. *)

\* A step that changes nothing keeps everything.
LEMMA StutterKeeps == Inv /\ UNCHANGED vars => Inv'
  BY DEF Inv, vars, TypeOK, CallInv, CallOK, RowInv, WireInv, OutcomeInv, OutcomeOK,
         Held, Rival, Backed, Traceable

\* Every step keeps the invariant.
LEMMA NextInv == Inv /\ [Next]_vars => Inv'
  <1> SUFFICES ASSUME Inv, [Next]_vars PROVE Inv'
    OBVIOUS
  <1>1. CASE \E s \in Senders : Send(s)
    BY <1>1, InvokeKeeps, LoseConnectionKeeps, ReceiveKeeps DEF Send
  <1>2. CASE \E c \in Calls : Handle(c)
    BY <1>2, ArriveKeeps, FailUpstreamKeeps, DropKeeps DEF Handle
  <1>3. CASE \E c \in Calls : Serve(c)
    BY <1>3, AcceptAlertKeeps, ReplayAlertKeeps, FailAcceptanceKeeps, AnswerAlertKeeps,
       LoseCoreKeeps DEF Serve
  <1>4. CASE UNCHANGED vars
    BY <1>4, StutterKeeps
  <1> QED BY <1>1, <1>2, <1>3, <1>4, ExpireKeeps, CloseRowKeeps DEF Next

\* The invariant holds throughout.
LEMMA InvAlways == Spec => []Inv
  BY InitInv, NextInv, PTL DEF Spec

\* Every variable keeps its type: what the gateway makes of an answer is a
\* result, and what the sender makes of that is an outcome.
THEOREM DeliveryTyped == Spec => []TypeOK
  <1>1. Inv => TypeOK
    BY DEF Inv
  <1> QED BY <1>1, InvAlways, PTL

\* However often an event is sent, retried, delayed or copied, and whatever
\* other findings do, its alert has one processing.
THEOREM OneProcessingAlways == Spec => []OneProcessingPerAlert
  <1>1. Inv => OneProcessingPerAlert
    <2> SUFFICES ASSUME RowInv, NEW i \in Ids, NEW j \in Ids, NEW f \in Findings,
                        row[i].state # "absent", row[i].alert = Canonical[f],
                        row[j].state # "absent", row[j].alert = Canonical[f]
                 PROVE  i = j
      BY DEF Inv, OneProcessingPerAlert
    <2>1. \A t \in Senders : Finding[t] \in DOMAIN Identity \cap DOMAIN Canonical
      BY DeliveryAssumption DEF Findings
    <2>2. f \in DOMAIN Identity \cap DOMAIN Canonical
      BY DeliveryAssumption
    <2>3. row[i].identity = Identity[f] /\ row[j].identity = Identity[f]
      BY <2>1, <2>2, KeyInAlertAssumption DEF RowInv
    <2> QED BY <2>3 DEF RowInv
  <1> QED BY <1>1, InvAlways, PTL

\* An exit code 0 of the alert action is backed by a durable row of its finding.
THEOREM SuccessAlwaysDurable == Spec => []SuccessIsDurable
  <1>1. Inv => SuccessIsDurable
    BY DEF Inv, OutcomeInv, OutcomeOK, SuccessIsDurable
  <1> QED BY <1>1, InvAlways, PTL

\* A conflict is reported only if another alert holds the finding's key.
THEOREM ConflictAlwaysReal == Spec => []ConflictIsReal
  <1>1. Inv => ConflictIsReal
    BY DEF Inv, OutcomeInv, OutcomeOK, ConflictIsReal
  <1> QED BY <1>1, InvAlways, PTL

\* The processing id an invocation reports is that of its own finding, also
\* when another finding holds the key.
THEOREM ReportedIdAlwaysOwn == Spec => []ReportedIdIsOwn
  <1>1. Inv => ReportedIdIsOwn
    BY DEF Inv, OutcomeInv, OutcomeOK, ReportedIdIsOwn
  <1> QED BY <1>1, InvAlways, PTL

\* An acceptance the gateway caused ends as a success, with its id, or with a
\* retry: never as a final failure without a trace.
THEOREM AcceptanceAlwaysTraceable == Spec => []AcceptanceTraceable
  <1>1. Inv => AcceptanceTraceable
    BY DEF Inv, CallInv, CallOK, Traceable, AcceptanceTraceable
  <1> QED BY <1>1, InvAlways, PTL
=============================================================================
