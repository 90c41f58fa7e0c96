-------------------------- MODULE VelociraptorFlows --------------------------
(***************************************************************************)
(* The Velociraptor backend (backends/velociraptor.py) and the server it   *)
(* schedules flows on.  An operation is submitted once and then polled by  *)
(* the flow id its submission returned; the older investigate() schedules  *)
(* and polls in one call.  The server may serve a request after its caller *)
(* has given up, answers may be lost or malformed, and a process may be    *)
(* restarted with another host-to-client mapping.                          *)
(***************************************************************************)
EXTENDS Naturals, FiniteSets

CONSTANTS
    Operations,  \* investigation requests, each submitted once
    Legacy,      \* the ones run by investigate()
    Unsupported, \* the ones asking for more than process.list
    Hosts,       \* values of host targets
    Target,      \* Target[o]: o's one host target; None: it has another target
    Clients,     \* Velociraptor client ids
    Mappings,    \* host_client_ids a process may be started with
    Flows,       \* flow ids the server may draw
    Polls,       \* bound: polls before the deadline of investigate()
    Faults,      \* bound: lost or malformed answers, restarts
    None

ASSUME OperationsAssumption ==
    /\ Legacy \subseteq Operations /\ Unsupported \subseteq Operations
    /\ Target \in [Operations -> Hosts \cup {None}]
    /\ Mappings \subseteq [Hosts -> Clients \cup {None}] /\ Mappings # {}
    /\ None \notin Operations \cup Hosts \cup Clients \cup Flows
    /\ Polls \in Nat /\ Faults \in Nat

VARIABLES
    mapping,   \* host_client_ids of the running process
    call,      \* what each operation's caller is doing, and knows
    request,   \* scheduling requests on their way to the server
    response,  \* their answers on the way back
    flow,      \* the server's flows
    faults

vars == <<mapping, call, request, response, flow, faults>>

\* States the server reports; "other" is one the code does not know.
Nonterminal == {"UNSET", "RUNNING", "UNRESPONSIVE"}
FlowStates  == Nonterminal \cup {"FINISHED", "ERROR", "other"}

\* new, scheduling (request sent), held (flow id known), and the ends: "rejected"
\* certainly nothing was scheduled, "unknown" something may have been,
\* "unsafe" a poll could not be interpreted, "error" investigate() raised.
Ends  == {"rejected", "unknown", "unsafe", "succeeded", "failed", "error"}
Calls == [at: {"new", "scheduling", "held"} \cup Ends, flow: Flows \cup {None},
          client: Clients \cup {None}, left: 0 .. Polls]

NoFlow == [state |-> "none", owner |-> None, client |-> None]

Fault == faults < Faults /\ faults' = faults + 1

End(o, at) == call' = [call EXCEPT ![o].at = at]

\* _resolve_client_id; None: the target error.
Client(o) == IF Target[o] = None THEN None ELSE mapping[Target[o]]

\* A failure before anything is sent: VelociraptorTargetError and the channel
\* error are submission rejections; investigate() only raises.
NotSent(o) == IF o \in Legacy THEN "error" ELSE "rejected"

\* Mutant: a timeout is taken for a rejection.
GivenUpAsRejected(o) == IF o \in Legacy THEN "error" ELSE "rejected"

\* A failure after the request was sent: the outcome is unknown.
GivenUp(o) == IF o \in Legacy THEN "error" ELSE "unknown"

-----------------------------------------------------------------------------
(* submit and schedule. *)

\* The request asks for another capability, or names no mapped host.
RefuseTarget(o) ==
    /\ call[o].at = "new"
    /\ \/ o \in Unsupported /\ End(o, GivenUp(o))
       \/ o \notin Unsupported /\ Client(o) = None /\ End(o, NotSent(o))
    /\ UNCHANGED <<mapping, request, response, flow, faults>>

\* The channel could not be created.
FailChannel(o) ==
    /\ call[o].at = "new"
    /\ o \notin Unsupported /\ Client(o) # None
    /\ Fault
    /\ End(o, NotSent(o))
    /\ UNCHANGED <<mapping, request, response, flow>>

\* The scheduling query is sent for the client the host is mapped to.
SendSchedule(o) ==
    /\ call[o].at = "new"
    /\ o \notin Unsupported /\ Client(o) # None
    /\ call' = [call EXCEPT ![o].at = "scheduling", ![o].client = Client(o)]
    /\ request' = request \cup {[op |-> o, client |-> Client(o)]}
    /\ UNCHANGED <<mapping, response, flow, faults>>

\* The deadline of the query passes, or the RPC fails; the request may still
\* be served.
GiveUpSchedule(o) ==
    /\ call[o].at = "scheduling"
    /\ End(o, GivenUp(o))
    /\ UNCHANGED <<mapping, request, response, flow, faults>>

\* Mutant: the row's client is not compared with the one asked for.
AcceptAnyRow(o, m) ==
    IF m.flow # None THEN call' = [call EXCEPT ![o].at = "held", ![o].flow = m.flow]
    ELSE End(o, GivenUp(o))

\* Mutant: the whole row is kept as the operation id.
AcceptRowAsId(o, m) ==
    call' = [call EXCEPT ![o].at = "held", ![o].flow = m]

\* schedule's checks of the one row: a flow id, the same client and artifact.
AcceptRow(o, m) ==
    IF m.flow # None /\ m.client = call[o].client
    THEN call' = [call EXCEPT ![o].at = "held", ![o].flow = m.flow]
    ELSE End(o, GivenUp(o))

ReadScheduled(o) ==
    \E m \in response :
        /\ m.op = o /\ call[o].at = "scheduling"
        /\ AcceptRow(o, m)
        /\ response' = response \ {m}
        /\ UNCHANGED <<mapping, request, flow, faults>>

-----------------------------------------------------------------------------
(* poll, poll_flow and the polling loop of collect. *)

\* What the server's rows for flow f of client c say: no row if it has no
\* such flow, or does not list it yet.
Rows(f, c) ==
    (IF flow[f].client = c THEN {flow[f].state} ELSE {"none"})
    \cup (IF flow[f].state = "UNSET" THEN {"none"} ELSE {})

\* Mutant: FINISHED is not among the terminal states.
ClassifyUnfinished(state) ==
    CASE state \in Nonterminal \cup {"none", "FINISHED"} -> "held"
      [] state = "ERROR"                                -> "failed"
      [] OTHER                                          -> "unsafe"

\* The status a row's state is mapped to.
Classify(state) ==
    CASE state \in Nonterminal \cup {"none"} -> "held"
      [] state = "FINISHED"                  -> "succeeded"
      [] state = "ERROR"                     -> "failed"
      [] OTHER                               -> "unsafe"

\* Mutant: the poll is addressed to the client the host is mapped to now,
\* and a flow that is not there has failed.
PollMissingIsFailed(o) ==
    LET c == Client(o)
    IN /\ call[o].at = "held" /\ o \notin Legacy
       /\ c # None
       /\ \E s \in Rows(call[o].flow, c) :
            End(o, IF s = "none" THEN "failed" ELSE Classify(s))
       /\ UNCHANGED <<mapping, request, response, flow, faults>>

\* A poll: the host is resolved again, by the mapping of this process.
PollFlow(o) ==
    LET c == Client(o)
    IN /\ call[o].at = "held" /\ o \notin Legacy
       /\ \/ c = None /\ End(o, "unsafe")
          \/ c # None /\ \E s \in Rows(call[o].flow, c) : End(o, Classify(s))
       /\ UNCHANGED <<mapping, request, response, flow, faults>>

\* A poll times out, and will be repeated; or its channel, its RPC or its rows
\* are bad, which the processor hands to the operator.
FailPoll(o) ==
    /\ call[o].at = "held" /\ o \notin Legacy
    /\ Fault
    /\ \E at \in {"held", "unsafe"} : End(o, at)
    /\ UNCHANGED <<mapping, request, response, flow>>

\* Mutant: the local deadline is not looked at.
PollLegacyForever(o) ==
    /\ call[o].at = "held" /\ o \in Legacy
    /\ \E s \in Rows(call[o].flow, call[o].client) :
         End(o, IF Classify(s) \in {"held", "succeeded"} THEN Classify(s) ELSE "error")
    /\ UNCHANGED <<mapping, request, response, flow, faults>>

\* One turn of collect's loop: it waits between polls until its deadline.
PollLegacy(o) ==
    /\ call[o].at = "held" /\ o \in Legacy
    /\ IF call[o].left = 0 THEN End(o, "error")
       ELSE \E s \in Rows(call[o].flow, call[o].client) :
              call' = [call EXCEPT
                  ![o].at = IF Classify(s) \in {"held", "succeeded"} THEN Classify(s)
                            ELSE "error",
                  ![o].left = @ - 1]
    /\ UNCHANGED <<mapping, request, response, flow, faults>>

FailLegacyPoll(o) ==
    /\ call[o].at = "held" /\ o \in Legacy
    /\ Fault
    /\ End(o, "error")
    /\ UNCHANGED <<mapping, request, response, flow>>

-----------------------------------------------------------------------------
(* The server, and the process. *)

\* collect_client() creates a flow and answers with its id.  The answer may
\* be unusable: no row, or one of another client.
ServeSchedule(f) ==
    \E q \in request :
        /\ flow[f] = NoFlow
        /\ flow' = [flow EXCEPT ![f] = [state |-> "UNSET", owner |-> q.op,
                                        client |-> q.client]]
        /\ request' = request \ {q}
        /\ \/ /\ response' = response \cup {[op |-> q.op, flow |-> f, client |-> q.client]}
              /\ UNCHANGED faults
           \/ /\ Fault
              /\ \E bad \in {[op |-> q.op, flow |-> None, client |-> q.client]}
                            \cup {[op |-> q.op, flow |-> g, client |-> flow[g].client] :
                                     g \in {g \in Flows : flow[g].client \notin {None, q.client}}} :
                    response' = response \cup {bad}
        /\ UNCHANGED <<mapping, call>>

\* The client's endpoint works on a flow.
RunFlow(f) ==
    /\ flow[f].state \in Nonterminal
    /\ \E s \in FlowStates \ {"UNSET", flow[f].state} :
         flow' = [flow EXCEPT ![f].state = s]
    /\ UNCHANGED <<mapping, call, request, response, faults>>

\* The process is restarted, perhaps with another mapping: a submission whose
\* answer it waited for is given up, a known flow is polled by the next one.
Restart ==
    /\ Fault
    /\ mapping' \in Mappings
    /\ call' = [o \in Operations |->
                   IF call[o].at = "scheduling" \/ (call[o].at = "held" /\ o \in Legacy)
                   THEN [call[o] EXCEPT !.at = GivenUp(o)] ELSE call[o]]
    /\ UNCHANGED <<request, response, flow>>

Init ==
    /\ mapping \in Mappings
    /\ call = [o \in Operations |-> [at |-> "new", flow |-> None, client |-> None,
                                     left |-> Polls]]
    /\ request = {} /\ response = {}
    /\ flow = [f \in Flows |-> NoFlow]
    /\ faults = 0

\* The steps of a call to submit or investigate, up to its end.
Backend(o) ==
    \/ RefuseTarget(o) \/ SendSchedule(o) \/ ReadScheduled(o) \/ GiveUpSchedule(o)
    \/ PollLegacy(o)

Server(f) == ServeSchedule(f) \/ RunFlow(f)

Next ==
    \/ \E o \in Operations : \/ Backend(o) \/ PollFlow(o)
                             \/ FailChannel(o) \/ FailPoll(o) \/ FailLegacyPoll(o)
    \/ \E f \in Flows : Server(f)
    \/ Restart

Spec == Init /\ [][Next]_vars

\* A call goes on to its end: every query has a gRPC deadline (stub.Query's
\* timeout) and the loop of collect a local one, so neither needs an answer.
CallsGoOn == \A o \in Operations : WF_vars(Backend(o))

\* A submitted operation is polled again and again. Nothing in the program
\* schedules this: a poll is made by the request that submitted the operation
\* and by the passes an operator, or a restart, runs. It is assumed, as the
\* passes are in DurableProcessing and ReconcilePass.
PassesPoll == \A o \in Operations : WF_vars(PollFlow(o))

\* Nothing is assumed of the server and the endpoints: a request may never be
\* served, and a flow never finished.
FairSpec == Spec /\ CallsGoOn /\ PassesPoll

-----------------------------------------------------------------------------
(* Properties. *)

\* Callers and flows keep their types; a held operation id is a flow id, as
\* schedule returns it.
TypeOK ==
    /\ mapping \in Mappings
    /\ call \in [Operations -> Calls]
    /\ flow \in [Flows -> {NoFlow} \cup [state: FlowStates, owner: Operations, client: Clients]]
    /\ \A q \in request : q.op \in Operations /\ q.client \in Clients
    /\ \A m \in response : m.op \in Operations /\ m.flow \in Flows \cup {None}

Scheduled(o) == {f \in Flows : flow[f].owner = o}

\* A submission reported as rejected has created nothing and never will: the
\* processor fails the alert for good on it.  "If a scheduling request may
\* have crossed the network but no flow ID became durable, Alert2IR records
\* recovery_required" (docs/APPLICATION.md).
RejectedIsFinal ==
    \A o \in Operations :
        call[o].at = "rejected" =>
            /\ Scheduled(o) = {}
            /\ ~\E q \in request : q.op = o

\* A flow id that is held or reported on is the flow this operation created,
\* and no operation has two.
HoldsOwnFlow ==
    \A o \in Operations :
        /\ call[o].flow # None => flow[call[o].flow].owner = o
        /\ Cardinality(Scheduled(o)) <= 1

\* An operation is reported succeeded or failed only if its own flow has
\* ended that way on the server, whatever the mapping is now.
ReportsAreTrue ==
    \A o \in Operations :
        /\ call[o].at = "succeeded" => flow[call[o].flow].state = "FINISHED"
        /\ call[o].at = "failed" => flow[call[o].flow].state = "ERROR"

\* investigate() ends, even if its flow never does.
InvestigateEnds == \A o \in Legacy : <>(call[o].at \in Ends)

\* A submission ends, answered or not. A flow that has ended on the client its
\* host is mapped to is reported as succeeded or failed, which of them
\* ReportsAreTrue says, unless one more fault (a lost or bad answer, a restart)
\* comes first.
FinishedIsReported ==
    \A o \in Operations \ Legacy :
        /\ <>(call[o].at \notin {"new", "scheduling"})
        /\ \A n \in 0 .. Faults :
             /\ faults = n
             /\ call[o].at = "held" /\ Client(o) = call[o].client
             /\ flow[call[o].flow].state \in {"FINISHED", "ERROR"}
             ~> call[o].at \in {"succeeded", "failed"} \/ faults > n
=============================================================================
