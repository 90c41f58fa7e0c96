-------------------------- MODULE FindingDelivery --------------------------
(***************************************************************************)
(* Delivery of a Splunk finding: alert-action invocations                  *)
(* (alert2ir_delivery.py) post one signed finding to the gateway           *)
(* (adapters/splunk/app.py), which posts the canonical alert to the core   *)
(* (adapters/splunk/client.py, api/app.py) under the finding's key.        *)
(*                                                                         *)
(* Nobody but the core keeps anything: a sender retries on what it can see *)
(* of an answer, a gateway call may give up while the core is still        *)
(* working for it, and a request may arrive late or twice.  The core's     *)
(* rows move as DurableRows says; DurableProcessing implements it.         *)
(***************************************************************************)
EXTENDS Naturals, FiniteSets

CONSTANTS
    Senders,          \* invocations of the alert action
    Finding,          \* Finding[s]: the body invocation s froze
    Identity,         \* Identity[f]: the idempotency key of a finding
    Canonical,        \* Canonical[f]: the canonical alert of a finding
    Calls,            \* requests the gateway and the core can work on at once
    Ids,              \* processing ids
    MaximumAttempts,  \* MAXIMUM_ATTEMPTS
    Posts,            \* bound: Posts[s], the attempts of invocation s that are made
    Copied,           \* bound: requests that may arrive twice, <<invocation, attempt>>
    None

Findings == {Finding[s] : s \in Senders}

ASSUME DeliveryAssumption ==
    /\ MaximumAttempts \in Nat \ {0}
    /\ Findings \subseteq DOMAIN Identity \cap DOMAIN Canonical
    /\ None \notin Ids
    /\ Posts \in [Senders -> Nat] /\ Copied \subseteq Senders \X Nat

\* _to_canonical_alert writes the key into the alert, as its source_alert_id.
ASSUME KeyInAlertAssumption ==
    \A f, g \in DOMAIN Identity \cap DOMAIN Canonical :
        Canonical[f] = Canonical[g] => Identity[f] = Identity[g]

VARIABLES
    row,      \* the core's processing rows, as its API shows them
    sender,   \* where each invocation is, and its outcome
    wire,     \* each request on its way to the gateway
    call      \* the gateway's handlers with their upstream request

vars == <<row, sender, wire, call>>

Rows == INSTANCE DurableRows WITH
    Identities <- {Identity[f] : f \in DOMAIN Identity},
    Alerts     <- {Canonical[f] : f \in DOMAIN Canonical}

Messages == [sender: Senders, attempt: 1..MaximumAttempts]

\* Where a request is: "late" left the timestamp window before it arrived,
\* "copied" arrived and may arrive once more.
WireStates == {"unsent", "sent", "late", "copied", "gone"}

\* Error codes, as far as anything depends on them.
Code == {"none", "unexpected_adapter_response", "upstream_timeout",
         "idempotency_conflict", "other"}

\* AdapterDisposition and DeliveryOutcome. status 0: no response.
Outcomes == [category: {"none", "input_error", "success", "permanent_failure",
                        "durable_failure", "transient_failure"},
             status: {0, 200, 202, 401, 409, 500, 502, 503, 504},
             id: Ids \cup {None}, code: Code]

NoOutcome == [category |-> "none", status |-> 0, id |-> None, code |-> "none"]

SenderStates == [step: {"idle", "ready", "waiting", "done"},
                 attempt: 1..MaximumAttempts, outcome: Outcomes]

\* Alert2IRDeliveryResult: what the gateway made of the core's response, of
\* which url is the processing the Location header names. retryable is
\* class = "transient_failure".
Results == [class: {"none", "unauthenticated", "completed", "accepted",
                    "permanent_failure", "durable_failure", "transient_failure"},
            status: {0, 200, 202, 409, 500, 503}, id: Ids \cup {None},
            url: Ids \cup {None}, code: Code, unknown: BOOLEAN]

NoResult == [class |-> "none", status |-> 0, id |-> None, url |-> None,
             code |-> "none", unknown |-> FALSE]

\* A gateway handler. gate: what it does for its client; core: what the core
\* does for it, which may outlast the gate; made: the row this call created.
CallStates == [gate: {"free", "posting", "answered"},
               core: {"none", "queued", "serving"},
               message: Messages \cup {None}, owned: BOOLEAN,
               made: Ids \cup {None}, result: Results]

FreeCall == [gate |-> "free", core |-> "none", message |-> None, owned |-> FALSE,
             made |-> None, result |-> NoResult]

FindingOf(m) == Finding[m.sender]

\* Mutant: the key names the HTTP attempt, not the event.
AttemptKey(m) == <<Identity[FindingOf(m)], m.attempt>>

\* finding_idempotency_key: the key is a function of the finding alone.
KeyOf(m) == Identity[FindingOf(m)]

\* Mutant: the alert depends on the attempt (a body built again per attempt).
AttemptAlert(m) == <<Canonical[FindingOf(m)], m.attempt>>

AlertOf(m) == Canonical[FindingOf(m)]

-----------------------------------------------------------------------------
(* The alert action. *)

\* execute_invocation: the inputs are read once and the body is frozen; an
\* unusable input, configuration or secret ends the invocation.
Invoke(s) ==
    /\ sender[s].step = "idle"
    /\ \/ sender' = [sender EXCEPT ![s].step = "ready"]
       \/ sender' = [sender EXCEPT ![s].step = "done",
                                   ![s].outcome.category = "input_error"]
    /\ UNCHANGED <<row, wire, call>>

\* One attempt of deliver: the same body, signed with the time of the attempt.
Post(s) ==
    /\ sender[s].step = "ready" /\ sender[s].attempt <= Posts[s]
    /\ sender' = [sender EXCEPT ![s].step = "waiting"]
    /\ wire' = [wire EXCEPT ![[sender |-> s, attempt |-> sender[s].attempt]] = "sent"]
    /\ UNCHANGED <<row, call>>

\* _fallback_disposition, of the status alone.
Fallback(status) ==
    [category |-> CASE status \in {200, 202} -> "success"
                    [] status \in {401, 409} -> "permanent_failure"
                    [] OTHER                 -> "transient_failure",
     status   |-> status,
     id       |-> None,
     code     |-> IF status \in {200, 202} THEN "none" ELSE "unexpected_adapter_response"]

\* _adapter_status.
GatewayStatus(r) ==
    CASE r.class = "unauthenticated"   -> 401
      [] r.class = "completed"         -> 200
      [] r.class = "accepted"          -> 202
      [] r.class = "permanent_failure" -> r.status
      [] r.class = "durable_failure"   -> 500
      [] r.code = "upstream_timeout"   -> 504
      [] r.status = 503                -> 503
      [] OTHER                         -> 502

\* classify_adapter_response. The gateway's results pair class and status as
\* the sender's table has them, so the fallback is left to unreadable bodies
\* and to the error bodies that carry no classification.
ClassifyAdapter(r, readable) ==
    IF ~readable \/ r.class = "unauthenticated"
    THEN Fallback(GatewayStatus(r))
    ELSE [category |-> IF r.class \in {"completed", "accepted"} THEN "success" ELSE r.class,
          status |-> GatewayStatus(r), id |-> r.id, code |-> r.code]

\* The attempt loop: stop on a final disposition or on the last attempt,
\* otherwise sleep and try again.
Conclude(s, d) ==
    LET this == sender[s] IN
    sender' = [sender EXCEPT ![s] =
        IF d.category # "transient_failure" \/ this.attempt = MaximumAttempts
        THEN [this EXCEPT !.step = "done", !.outcome = d]
        ELSE [this EXCEPT !.step = "ready", !.attempt = this.attempt + 1]]

\* The handler's call is over once the core is done with it too.
Release(c) ==
    call' = [call EXCEPT ![c] =
        IF @.core \in {"queued", "serving"}
        THEN [@ EXCEPT !.gate = "free", !.owned = FALSE, !.result = NoResult]
        ELSE FreeCall]

\* The waiting sender reads the gateway's response, or a body cut short.
Receive(s, c) ==
    /\ sender[s].step = "waiting"
    /\ call[c].gate = "answered" /\ call[c].owned
    /\ call[c].message = [sender |-> s, attempt |-> sender[s].attempt]
    /\ \E readable \in BOOLEAN : Conclude(s, ClassifyAdapter(call[c].result, readable))
    /\ Release(c)
    /\ UNCHANGED <<row, wire>>

\* RequestTimeout or ConnectionFailure: the request may have been served, be
\* served now, or arrive later.
LoseConnection(s) ==
    /\ sender[s].step = "waiting"
    /\ Conclude(s, [NoOutcome EXCEPT !.category = "transient_failure", !.code = "other"])
    /\ UNCHANGED <<row, wire, call>>

-----------------------------------------------------------------------------
(* The gateway: submit_finding and Alert2IRClient.submit_alert. *)

\* Minutes pass, or the clocks differ: the timestamp is outside the window.
Expire(m) ==
    /\ wire[m] = "sent"
    /\ wire' = [wire EXCEPT ![m] = "late"]
    /\ UNCHANGED <<row, sender, call>>

\* A request arrives. A timestamp within the window and the signature admit
\* it, and its alert is posted to the core.
Admit(c, m) ==
    /\ call[c] = FreeCall
    /\ wire[m] \in {"sent", "copied"}
    /\ \E w \in {"copied", "gone"} :
         /\ w = "copied" => wire[m] = "sent" /\ <<m.sender, m.attempt>> \in Copied
         /\ wire' = [wire EXCEPT ![m] = w]
    /\ call' = [call EXCEPT ![c] =
         [FreeCall EXCEPT !.gate = "posting", !.core = "queued",
                          !.message = m, !.owned = wire[m] = "sent"]]
    /\ UNCHANGED <<row, sender>>

\* It is outside the window.
Refuse(c, m) ==
    /\ call[c] = FreeCall
    /\ wire[m] = "late"
    /\ wire' = [wire EXCEPT ![m] = "gone"]
    /\ call' = [call EXCEPT ![c] =
         [FreeCall EXCEPT !.gate = "answered", !.message = m, !.owned = TRUE,
                          !.result.class = "unauthenticated"]]
    /\ UNCHANGED <<row, sender>>

\* Mutant: a core that is unavailable for now is taken to have the alert.
ClassifyUnavailableAccepted(a) ==
    [a EXCEPT !.class = CASE a.status = 200            -> "completed"
                          [] a.status \in {202, 503}   -> "accepted"
                          [] a.status = 409            -> "permanent_failure"
                          [] OTHER                     -> "transient_failure"]

\* Mutant: every 500 is taken for a durable failure.
ClassifyFiveHundredDurable(a) ==
    [a EXCEPT !.class = CASE a.status = 200              -> "completed"
                          [] a.status = 202              -> "accepted"
                          [] a.status = 409              -> "permanent_failure"
                          [] a.status = 500              -> "durable_failure"
                          [] OTHER                       -> "transient_failure"]

\* _classify_response.
ClassifyUpstream(a) ==
    LET named == a.id # None \/ a.url # None
        class == CASE a.status = 200              -> "completed"
                   [] a.status = 202              -> "accepted"
                   [] a.status = 409              -> "permanent_failure"
                   [] a.status = 500 /\ named     -> "durable_failure"
                   [] OTHER                       -> "transient_failure"
    IN [a EXCEPT !.class = class,
                 !.code = IF class = "transient_failure" THEN "other" ELSE @,
                 !.unknown = class = "transient_failure" /\ a.status = 500]

\* The exceptions of submit_alert.
Failed(code, unknown) ==
    [NoResult EXCEPT !.class = "transient_failure", !.code = code, !.unknown = unknown]

\* ConnectError: the request never left the gateway.
RefuseUpstream(c) ==
    /\ call[c].gate = "posting" /\ call[c].core = "queued"
    /\ call' = [call EXCEPT ![c].gate = "answered", ![c].core = "none",
                            ![c].result = Failed("other", FALSE)]
    /\ UNCHANGED <<row, sender, wire>>

\* A timeout or a broken connection. What the core received it goes on with.
GiveUpUpstream(c) ==
    /\ call[c].gate = "posting"
    /\ \E code \in {"upstream_timeout", "other"} :
         call' = [call EXCEPT ![c].gate = "answered", ![c].result = Failed(code, TRUE)]
    /\ UNCHANGED <<row, sender, wire>>

\* Nobody waits for this response any more.
Drop(c) ==
    LET m == call[c].message IN
    /\ call[c].gate = "answered"
    /\ ~(/\ call[c].owned
         /\ sender[m.sender].step = "waiting"
         /\ sender[m.sender].attempt = m.attempt)
    /\ Release(c)
    /\ UNCHANGED <<row, sender, wire>>

-----------------------------------------------------------------------------
(* The core: process_alert, over rows that other threads move on. *)

\* The core's response, read by the gateway if it still waits. A body it
\* cannot read leaves the status and the headers.
Respond(c, a) ==
    IF call[c].gate # "posting"
    THEN call' = [call EXCEPT ![c] = IF @.gate = "free" THEN FreeCall
                                     ELSE [@ EXCEPT !.core = "none"]]
    ELSE \E r \in {a, [a EXCEPT !.id = None, !.code = "none"]} :
           call' = [call EXCEPT ![c].gate = "answered", ![c].core = "none",
                                ![c].result = ClassifyUpstream(r)]

Error(status, code, id) ==
    [NoResult EXCEPT !.status = status, !.code = code, !.id = id, !.url = id]

\* _public_processing_response.
RecordAnswer(i) ==
    [NoResult EXCEPT
        !.status = CASE row[i].state = "completed"   -> 200
                     [] row[i].state = "active"      -> 202
                     [] row[i].state = "unsupported" -> 409
                     [] OTHER                        -> 500,
        !.id = i, !.url = i,
        !.code = IF row[i].state \in {"unsupported", "failed"} THEN "other" ELSE "none"]

\* The alert is accepted: a new row under the finding's key. The commit may
\* be followed by a lost acknowledgement.
AcceptAlert(c, i) ==
    LET m == call[c].message IN
    /\ call[c].core = "queued"
    /\ Rows!Accept(i, KeyOf(m), AlertOf(m))
    /\ call' = [call EXCEPT ![c].core = "serving", ![c].made = i]
    /\ UNCHANGED <<sender, wire>>

\* Mutant: the conflict names the processing that holds the key.
ReplayNamesHolder(c, i) ==
    LET m == call[c].message IN
    /\ call[c].core = "queued"
    /\ Rows!Holder(i, KeyOf(m))
    /\ Respond(c, IF row[i].alert = AlertOf(m) THEN RecordAnswer(i)
                  ELSE Error(409, "idempotency_conflict", i))
    /\ UNCHANGED <<row, sender, wire>>

\* The key is taken: a replay of the same alert, or a conflict.
ReplayAlert(c, i) ==
    LET m == call[c].message IN
    /\ call[c].core = "queued"
    /\ Rows!Holder(i, KeyOf(m))
    /\ Respond(c, IF row[i].alert = AlertOf(m) THEN RecordAnswer(i)
                  ELSE Error(409, "idempotency_conflict", None))
    /\ UNCHANGED <<row, sender, wire>>

\* PersistenceUnavailableError while accepting, nothing committed, or any
\* other exception before acceptance.
FailAcceptance(c) ==
    /\ call[c].core = "queued"
    /\ \/ Respond(c, Error(503, "other", None))
       \/ Respond(c, Error(500, "none", None))
    /\ UNCHANGED <<row, sender, wire>>

\* The accepting request is answered: with the row as it is now, or with the
\* exception that ended its processing. A planning failure answers with the
\* row's id, whether or not this request was the one that recorded it.
AnswerAlert(c) ==
    LET i == call[c].made IN
    /\ call[c].core = "serving"
    /\ \/ Respond(c, RecordAnswer(i))
       \/ Respond(c, Error(503, "other", None))
       \/ Respond(c, Error(500, "none", None))
       \/ Respond(c, Error(409, "other", i))
       \/ Respond(c, Error(500, "other", i))
    /\ UNCHANGED <<row, sender, wire>>

\* The core dies with the request.
LoseCore(c) ==
    /\ call[c].core # "none"
    /\ call' = [call EXCEPT ![c] = IF @.gate = "free" THEN FreeCall
                                   ELSE [@ EXCEPT !.core = "none"]]
    /\ UNCHANGED <<row, sender, wire>>

\* Any thread of the core ends the processing.
CloseRow(i, s) ==
    /\ Rows!Close(i, s)
    /\ UNCHANGED <<sender, wire, call>>

-----------------------------------------------------------------------------
Init ==
    /\ Rows!Init
    /\ sender = [s \in Senders |->
                    [step |-> "idle", attempt |-> 1, outcome |-> NoOutcome]]
    /\ wire = [m \in Messages |-> "unsent"]
    /\ call = [c \in Calls |-> FreeCall]

Send(s) == Invoke(s) \/ Post(s) \/ LoseConnection(s) \/ \E c \in Calls : Receive(s, c)

Handle(c) ==
    \/ \E m \in Messages : Admit(c, m) \/ Refuse(c, m)
    \/ RefuseUpstream(c) \/ GiveUpUpstream(c) \/ Drop(c)

Serve(c) ==
    \/ \E i \in Ids : AcceptAlert(c, i) \/ ReplayAlert(c, i)
    \/ FailAcceptance(c) \/ AnswerAlert(c) \/ LoseCore(c)

Next ==
    \/ \E s \in Senders : Send(s)
    \/ \E c \in Calls : Handle(c) \/ Serve(c)
    \/ \E m \in Messages : Expire(m)
    \/ \E i \in Ids, s \in Rows!Closed : CloseRow(i, s)

Spec == Init /\ [][Next]_vars

-----------------------------------------------------------------------------
(* Properties. *)

\* Every variable keeps the shape the messages, results and outcomes have.
TypeOK ==
    /\ row \in [Ids -> Rows!PublicRows]
    /\ sender \in [Senders -> SenderStates]
    /\ wire \in [Messages -> WireStates]
    /\ call \in [Calls -> CallStates]

\* However often an event is sent, retried, delayed or copied on its way, and
\* however many invocations Splunk makes of it, its alert has one processing.
OneProcessingPerAlert ==
    \A i, j \in Ids, f \in Findings :
        /\ row[i].state # "absent" /\ row[i].alert = Canonical[f]
        /\ row[j].state # "absent" /\ row[j].alert = Canonical[f]
        => i = j

\* A success reported by the alert action (exit code 0) is backed by a durable
\* row of this very finding: its key, its alert, the id it names, and a
\* completed row if the status was 200.
SuccessIsDurable ==
    \A s \in Senders : sender[s].outcome.category = "success" =>
        \E i \in Ids :
            /\ row[i].state # "absent"
            /\ row[i].identity = Identity[Finding[s]]
            /\ row[i].alert = Canonical[Finding[s]]
            /\ sender[s].outcome.id \in {i, None}
            /\ sender[s].outcome.status = 200 => row[i].state = "completed"

\* A finding is never refused because of its own earlier delivery or of another
\* delivery of the same body: a conflict is reported only if a different alert,
\* of an invocation that was made, holds the key in a durable row.
ConflictIsReal ==
    \A s \in Senders : sender[s].outcome.code = "idempotency_conflict" =>
        \E i \in Ids, t \in Senders :
            /\ row[i].state # "absent"
            /\ row[i].identity = Identity[Finding[s]]
            /\ row[i].alert = Canonical[Finding[t]]
            /\ sender[t].step # "idle"
            /\ Canonical[Finding[t]] # Canonical[Finding[s]]

\* A processing id the alert action reports, with a success or with a failure,
\* is that of its own finding: a conflict does not name the processing of the
\* alert that holds the key, though the core's exception carries its id.
ReportedIdIsOwn ==
    \A s \in Senders :
        LET i == sender[s].outcome.id IN
        i # None => /\ row[i].state # "absent"
                    /\ row[i].identity = Identity[Finding[s]]
                    /\ row[i].alert = Canonical[Finding[s]]

\* A gateway call that committed an acceptance never ends as a final failure
\* without a trace: its result is a success, names the processing, or makes
\* the sender try again.
AcceptanceTraceable ==
    \A c \in Calls :
        call[c].gate = "answered" /\ call[c].made # None =>
            \/ call[c].result.class \in {"completed", "accepted", "transient_failure"}
            \/ call[c].made \in {call[c].result.id, call[c].result.url}
=============================================================================
