----------------------- MODULE VelociraptorFlows_proofs -----------------------
(***************************************************************************)
(* What the Velociraptor backend tells the processor is true, for any      *)
(* number of operations, clients, hosts and flows, however requests are    *)
(* delayed, answers are spoiled and processes restarted: a rejection is    *)
(* final, an operation id is the flow created for this operation, and a    *)
(* reported end is the end of that flow.                                   *)
(***************************************************************************)
EXTENDS VelociraptorFlows, FiniteSetTheorems, TLAPS

\* Nothing exists for an operation that was not sent; what was sent was sent
\* once, for the client its caller remembers.
SentOnce ==
    /\ \A o \in Operations :
           call[o].at \in {"new", "rejected"} =>
               /\ call[o].flow = None
               /\ \A q \in request : q.op # o
               /\ \A m \in response : m.op # o
               /\ \A f \in Flows : flow[f].owner # o
    /\ \A q, r \in request : q.op = r.op => q = r
    /\ \A q \in request : /\ q.client = call[q.op].client
                          /\ \A f \in Flows : flow[f].owner # q.op
    /\ \A f, g \in Flows : flow[f].owner = flow[g].owner /\ flow[f].owner # None => f = g

\* An answer that schedule accepts names the flow of its operation, and what
\* was accepted is kept.
OwnFlows ==
    /\ \A m \in response :
           \/ m.flow = None
           \/ m.client # call[m.op].client
           \/ flow[m.flow].owner = m.op
    /\ \A o \in Operations :
           /\ call[o].flow # None => flow[call[o].flow].owner = o
           /\ call[o].at \in {"held", "succeeded", "failed"} => call[o].flow # None

Inv == TypeOK /\ SentOnce /\ OwnFlows /\ ReportsAreTrue

\* Before anything is sent all of it holds.
LEMMA InitInv == Init => Inv
  BY OperationsAssumption
     DEF Init, Inv, TypeOK, SentOnce, OwnFlows, ReportsAreTrue, NoFlow, Calls, Ends

-----------------------------------------------------------------------------
\* How a caller moves on without a flow id: it does not become new again, and
\* it is rejected only if nothing was sent.
Moves(o, at) ==
    /\ call' \in [Operations -> Calls]
    /\ \A p \in Operations \ {o} : call'[p] = call[p]
    /\ call'[o].at = at /\ call'[o].flow = call[o].flow /\ call'[o].client = call[o].client
    /\ at = "rejected" => call[o].at = "new"
    /\ at = "held" => call[o].at = "held"
    /\ at \in {"succeeded", "failed"} => call[o].at = "held"
    /\ at = "succeeded" => flow[call[o].flow].state = "FINISHED"
    /\ at = "failed" => flow[call[o].flow].state = "ERROR"

\* Such a move keeps the invariant.
LEMMA MoveKeeps ==
    ASSUME Inv, NEW o \in Operations, NEW at \in Ends \cup {"held"}, Moves(o, at),
           UNCHANGED <<request, response, flow>>, mapping' \in Mappings
    PROVE  Inv'
  <1>1. at # "new"
    BY DEF Ends
  <1>2. TypeOK'
    BY DEF Inv, TypeOK, Moves
  <1>3. SentOnce'
    BY <1>1 DEF Inv, TypeOK, SentOnce, Moves
  <1>4. OwnFlows'
    BY DEF Inv, TypeOK, OwnFlows, Moves
  <1>5. ReportsAreTrue'
    BY DEF Inv, ReportsAreTrue, Moves
  <1> QED BY <1>2, <1>3, <1>4, <1>5 DEF Inv

\* A row the server lists for a flow tells the state of that flow.
LEMMA RowsTell ==
    ASSUME NEW f, NEW c, NEW s \in Rows(f, c)
    PROVE  s = "none" \/ s = flow[f].state
  BY DEF Rows

\* No end is made up: success and failure are read off the state.
LEMMA ClassifyTells ==
    ASSUME NEW s
    PROVE  /\ Classify(s) \in {"held", "succeeded", "failed", "unsafe"}
           /\ Classify(s) = "succeeded" => s = "FINISHED"
           /\ Classify(s) = "failed" => s = "ERROR"
  BY DEF Classify, Nonterminal

\* Ending a call changes its state alone.
LEMMA EndMoves ==
    ASSUME TypeOK, NEW o \in Operations, NEW at \in Ends \cup {"held"}, End(o, at),
           at = "rejected" => call[o].at = "new",
           at = "held" => call[o].at = "held",
           at \in {"succeeded", "failed"} => call[o].at = "held",
           at = "succeeded" => flow[call[o].flow].state = "FINISHED",
           at = "failed" => flow[call[o].flow].state = "ERROR"
    PROVE  Moves(o, at)
  BY DEF TypeOK, End, Moves, Calls

-----------------------------------------------------------------------------
(* Steps of the backend that do not get a flow id. *)

\* Failures before the request: nothing was sent.
LEMMA UnsentKeeps ==
    ASSUME Inv, NEW o \in Operations, RefuseTarget(o) \/ FailChannel(o)
    PROVE  Inv'
  <1>1. PICK at \in {"error", "rejected", "unknown"} : End(o, at)
    BY DEF RefuseTarget, FailChannel, NotSent, GivenUp
  <1>2. call[o].at = "new" /\ UNCHANGED <<mapping, request, response, flow>>
    BY DEF RefuseTarget, FailChannel
  <1>3. Moves(o, at)
    BY <1>1, <1>2, EndMoves DEF Inv, Ends
  <1> QED BY <1>2, <1>3, MoveKeeps DEF Inv, TypeOK, Ends

\* Failures after it: never a rejection.
LEMMA SentKeeps ==
    ASSUME Inv, NEW o \in Operations,
           GiveUpSchedule(o) \/ FailPoll(o) \/ FailLegacyPoll(o)
    PROVE  Inv'
  <1>1. PICK at \in {"error", "unknown", "held", "unsafe"} :
            End(o, at) /\ (at = "held" => call[o].at = "held")
    BY DEF GiveUpSchedule, FailPoll, FailLegacyPoll, GivenUp
  <1>2. UNCHANGED <<mapping, request, response, flow>>
    BY DEF GiveUpSchedule, FailPoll, FailLegacyPoll
  <1>3. Moves(o, at)
    BY <1>1, EndMoves DEF Inv, Ends
  <1> QED BY <1>2, <1>3, MoveKeeps DEF Inv, TypeOK, Ends

\* A poll reports the state of the operation's own flow.
LEMMA PollKeeps ==
    ASSUME Inv, NEW o \in Operations, PollFlow(o) \/ PollLegacy(o)
    PROVE  Inv'
  <1>1. call[o].at = "held" /\ UNCHANGED <<mapping, request, response, flow>>
    BY DEF PollFlow, PollLegacy
  <1>2. \E at \in Ends \cup {"held"} : Moves(o, at)
    <2>1. CASE PollFlow(o)
      <3>1. CASE End(o, "unsafe")
        BY <1>1, <3>1, EndMoves DEF Inv, Ends
      <3>2. CASE \E s \in Rows(call[o].flow, Client(o)) : End(o, Classify(s))
        <4>1. PICK s \in Rows(call[o].flow, Client(o)) : End(o, Classify(s))
          BY <3>2
        <4>2. s = "none" \/ s = flow[call[o].flow].state
          BY RowsTell
        <4> DEFINE at == Classify(s)
        <4>3. /\ at \in {"held", "succeeded", "failed", "unsafe"}
              /\ at = "succeeded" => s = "FINISHED"
              /\ at = "failed" => s = "ERROR"
          BY ClassifyTells
        <4>4. End(o, at)
          BY <4>1
        <4> HIDE DEF at
        <4>5. Moves(o, at)
          BY <1>1, <4>2, <4>3, <4>4, EndMoves DEF Inv, Ends
        <4> QED BY <4>3, <4>5 DEF Ends
      <3> QED BY <2>1, <3>1, <3>2 DEF PollFlow
    <2>2. CASE PollLegacy(o)
      <3>1. CASE call[o].left = 0 /\ End(o, "error")
        BY <1>1, <3>1, EndMoves DEF Inv, Ends
      <3>2. CASE call[o].left # 0
        <4>1. PICK s \in Rows(call[o].flow, call[o].client) :
                 call' = [call EXCEPT
                     ![o].at = IF Classify(s) \in {"held", "succeeded"} THEN Classify(s)
                               ELSE "error",
                     ![o].left = @ - 1]
          BY <2>2, <3>2 DEF PollLegacy
        <4>2. s = "none" \/ s = flow[call[o].flow].state
          BY RowsTell
        <4> DEFINE at == IF Classify(s) \in {"held", "succeeded"} THEN Classify(s)
                         ELSE "error"
        <4>3. at \in {"held", "succeeded", "error"} /\ (at = "succeeded" => s = "FINISHED")
          BY ClassifyTells
        <4>4. call' = [call EXCEPT ![o].at = at, ![o].left = @ - 1]
          BY <4>1
        <4> HIDE DEF at
        <4>5. call[o].left \in 0 .. Polls /\ call[o].left - 1 \in 0 .. Polls
          <5>1. call[o].left \in 0 .. Polls
            BY DEF Inv, TypeOK, Calls
          <5>2. Polls \in Nat
            BY OperationsAssumption
          <5> QED BY <3>2, <5>1, <5>2
        <4>6. Moves(o, at)
          BY <1>1, <4>2, <4>3, <4>4, <4>5 DEF Inv, TypeOK, Moves, Calls, Ends
        <4> QED BY <4>3, <4>6 DEF Ends
      <3> QED BY <2>2, <3>1, <3>2 DEF PollLegacy
    <2> QED BY <2>1, <2>2
  <1> QED BY <1>1, <1>2, MoveKeeps DEF Inv, TypeOK

-----------------------------------------------------------------------------
(* Scheduling. *)

\* The request is the first and only one of its operation.
LEMMA SendKeeps ==
    ASSUME Inv, NEW o \in Operations, SendSchedule(o)
    PROVE  Inv'
  <1> DEFINE q0 == [op |-> o, client |-> Client(o)]
  <1>1. /\ call[o].at = "new" /\ Client(o) \in Clients
        /\ call' = [call EXCEPT ![o].at = "scheduling", ![o].client = Client(o)]
        /\ request' = request \cup {q0}
        /\ UNCHANGED <<mapping, response, flow>>
    <2>1. mapping \in [Hosts -> Clients \cup {None}] /\ Target[o] \in Hosts \cup {None}
      BY OperationsAssumption DEF Inv, TypeOK
    <2>2. Client(o) \in Clients \cup {None} /\ Client(o) # None
      BY <2>1 DEF SendSchedule, Client
    <2> QED BY <2>2 DEF SendSchedule
  <1>2. TypeOK'
    <2>1. call' \in [Operations -> Calls]
      <3>1. call[o] \in Calls
        BY DEF Inv, TypeOK
      <3>2. [[call[o] EXCEPT !.at = "scheduling"] EXCEPT !.client = Client(o)] \in Calls
        BY <1>1, <3>1 DEF Calls
      <3> QED BY <1>1, <3>2 DEF Inv, TypeOK
    <2>2. q0.op \in Operations /\ q0.client \in Clients
      BY <1>1
    <2> HIDE DEF q0
    <2> QED BY <1>1, <2>1, <2>2 DEF Inv, TypeOK
  <1>3. /\ \A p \in Operations \ {o} : call'[p] = call[p]
        /\ call'[o].at = "scheduling" /\ call'[o].flow = call[o].flow
        /\ call'[o].client = q0.client /\ q0.op = o
    BY <1>1 DEF Inv, TypeOK, Calls
  <1>4. /\ call[o].flow = None
        /\ \A q \in request : q.op # o
        /\ \A m \in response : m.op # o
        /\ \A f \in Flows : flow[f].owner # o
    BY <1>1 DEF Inv, SentOnce
  <1> HIDE DEF q0
  <1>5. SentOnce'
    BY <1>1, <1>3, <1>4 DEF Inv, TypeOK, SentOnce
  <1>6. OwnFlows'
    BY <1>1, <1>3, <1>4 DEF Inv, TypeOK, OwnFlows
  <1>7. ReportsAreTrue'
    BY <1>1, <1>3 DEF Inv, ReportsAreTrue
  <1> QED BY <1>2, <1>5, <1>6, <1>7 DEF Inv

\* An answer of the client asked for, with a flow id, is the own one; any other
\* leaves the outcome open.
LEMMA ReadKeeps ==
    ASSUME Inv, NEW o \in Operations, ReadScheduled(o)
    PROVE  Inv'
  <1>1. PICK m \in response :
            /\ m.op = o /\ call[o].at = "scheduling" /\ AcceptRow(o, m)
            /\ response' = response \ {m} /\ UNCHANGED <<mapping, request, flow, faults>>
    BY DEF ReadScheduled
  <1>2. m.flow \in Flows \cup {None}
    BY DEF Inv, TypeOK
  <1>3. CASE m.flow # None /\ m.client = call[o].client
    <2>1. call' = [call EXCEPT ![o].at = "held", ![o].flow = m.flow]
      BY <1>1, <1>3 DEF AcceptRow
    <2>2. /\ \A p \in Operations \ {o} : call'[p] = call[p]
          /\ call'[o].at = "held" /\ call'[o].flow = m.flow
          /\ call'[o].client = call[o].client
      BY <2>1 DEF Inv, TypeOK, Calls
    <2>3. flow[m.flow].owner = o
      BY <1>1, <1>3 DEF Inv, OwnFlows
    <2>4. TypeOK'
      <3>1. call' \in [Operations -> Calls]
        <4>1. call[o] \in Calls
          BY DEF Inv, TypeOK
        <4>2. [[call[o] EXCEPT !.at = "held"] EXCEPT !.flow = m.flow] \in Calls
          BY <1>2, <4>1 DEF Calls
        <4> QED BY <2>1, <4>2 DEF Inv, TypeOK
      <3> QED BY <1>1, <3>1 DEF Inv, TypeOK
    <2>5. SentOnce'
      BY <1>1, <2>2 DEF Inv, TypeOK, SentOnce
    <2>6. OwnFlows'
      BY <1>1, <1>3, <2>2, <2>3 DEF Inv, TypeOK, OwnFlows
    <2>7. ReportsAreTrue'
      BY <1>1, <2>2 DEF Inv, ReportsAreTrue
    <2> QED BY <2>4, <2>5, <2>6, <2>7 DEF Inv
  <1>4. CASE ~(m.flow # None /\ m.client = call[o].client)
    <2>1. PICK at \in {"error", "unknown"} : call' = [call EXCEPT ![o].at = at]
      BY <1>1, <1>4 DEF AcceptRow, End, GivenUp
    <2>2. /\ \A p \in Operations \ {o} : call'[p] = call[p]
          /\ call'[o].at = at /\ call'[o].flow = call[o].flow
          /\ call'[o].client = call[o].client
      BY <2>1 DEF Inv, TypeOK, Calls
    <2>3. TypeOK'
      BY <1>1, <2>1 DEF Inv, TypeOK, Calls, Ends
    <2>4. SentOnce'
      BY <1>1, <2>2 DEF Inv, TypeOK, SentOnce
    <2>5. OwnFlows'
      BY <1>1, <2>2 DEF Inv, TypeOK, OwnFlows
    <2>6. ReportsAreTrue'
      BY <1>1, <2>2 DEF Inv, ReportsAreTrue
    <2> QED BY <2>3, <2>4, <2>5, <2>6 DEF Inv
  <1> QED BY <1>3, <1>4

\* The new flow is the only one of its operation, and every answer about it is
\* either right or of another client.
LEMMA ServeKeeps ==
    ASSUME Inv, NEW f \in Flows, ServeSchedule(f)
    PROVE  Inv'
  <1>1. PICK q \in request :
            /\ flow[f] = NoFlow
            /\ flow' = [flow EXCEPT ![f] = [state |-> "UNSET", owner |-> q.op,
                                            client |-> q.client]]
            /\ request' = request \ {q}
            /\ \/ response' = response \cup {[op |-> q.op, flow |-> f, client |-> q.client]}
               \/ \E bad \in {[op |-> q.op, flow |-> None, client |-> q.client]}
                          \cup {[op |-> q.op, flow |-> g, client |-> flow[g].client] :
                                  g \in {g \in Flows : flow[g].client \notin {None, q.client}}} :
                      response' = response \cup {bad}
            /\ UNCHANGED <<mapping, call>>
    BY DEF ServeSchedule
  <1>2. PICK id \in Flows \cup {None}, c \in {q.client} \cup {flow[g].client : g \in Flows} :
            /\ response' = response \cup {[op |-> q.op, flow |-> id, client |-> c]}
            /\ id = None \/ id = f \/ c # q.client
    <2>1. CASE response' = response \cup {[op |-> q.op, flow |-> f, client |-> q.client]}
      BY <2>1
    <2>2. CASE response' = response \cup {[op |-> q.op, flow |-> None, client |-> q.client]}
      BY <2>2
    <2>3. CASE \E g \in Flows :
                 /\ flow[g].client # q.client
                 /\ response' = response
                       \cup {[op |-> q.op, flow |-> g, client |-> flow[g].client]}
      <3>1. PICK g \in Flows :
                 /\ flow[g].client # q.client
                 /\ response' = response
                       \cup {[op |-> q.op, flow |-> g, client |-> flow[g].client]}
        BY <2>3
      <3> QED BY <3>1
    <2> QED BY <1>1, <2>1, <2>2, <2>3
  <1> DEFINE n == [op |-> q.op, flow |-> id, client |-> c]
  <1>3. /\ q.op \in Operations /\ q.client \in Clients
        /\ q.client = call[q.op].client /\ call[q.op].at \notin {"new", "rejected"}
        /\ \A g \in Flows : flow[g].owner # q.op
        /\ \A r \in request : r # q => r.op # q.op
    BY DEF Inv, TypeOK, SentOnce
  <1>0. /\ response' = response \cup {n} /\ n.op = q.op /\ n.flow \in Flows \cup {None}
        /\ n.flow = None \/ n.flow = f \/ n.client # q.client
    BY <1>2
  <1> HIDE DEF n
  <1>4. /\ \A g \in Flows \ {f} : flow'[g] = flow[g]
        /\ flow'[f].owner = q.op /\ flow'[f].state = "UNSET"
        /\ flow[f].owner = None /\ flow[f].state = "none"
    BY <1>1 DEF Inv, TypeOK, NoFlow
  <1>5. q.op # None
    BY <1>3, OperationsAssumption
  <1>6. TypeOK'
    BY <1>1, <1>0, <1>3 DEF Inv, TypeOK, FlowStates, Nonterminal
  <1>7. SentOnce'
    BY <1>1, <1>0, <1>3, <1>4, <1>5 DEF Inv, TypeOK, SentOnce
  <1>8. OwnFlows'
    <2>1. \A m \in response : m.flow # f \/ m.client # call[m.op].client \/ m.flow = None
      BY <1>4, OperationsAssumption DEF Inv, TypeOK, OwnFlows
    <2>2. \A o \in Operations : call[o].flow # f
      BY <1>4, OperationsAssumption DEF Inv, OwnFlows
    <2>3. \A o \in Operations : call[o].flow \in Flows \cup {None}
      BY DEF Inv, TypeOK, Calls
    <2> QED BY <1>1, <1>0, <1>3, <1>4, <2>1, <2>2, <2>3 DEF Inv, TypeOK, OwnFlows
  <1>9. ReportsAreTrue'
    <2>1. \A o \in Operations : call[o].flow # f
      BY <1>4, OperationsAssumption DEF Inv, OwnFlows
    <2>2. \A o \in Operations : call[o].at \in {"succeeded", "failed"} => call[o].flow \in Flows
      BY DEF Inv, TypeOK, OwnFlows, Calls
    <2> QED BY <1>1, <1>4, <2>1, <2>2 DEF Inv, ReportsAreTrue
  <1> QED BY <1>6, <1>7, <1>8, <1>9 DEF Inv

-----------------------------------------------------------------------------
(* The endpoint, and restarts. *)

\* A flow that still runs has not been reported on.
LEMMA RunKeeps ==
    ASSUME Inv, NEW f \in Flows, RunFlow(f)
    PROVE  Inv'
  <1>1. PICK s \in FlowStates : flow' = [flow EXCEPT ![f].state = s]
    BY DEF RunFlow
  <1>2. flow[f].state \in Nonterminal /\ UNCHANGED <<mapping, call, request, response>>
    BY DEF RunFlow
  <1>3. flow[f] \in [state: FlowStates, owner: Operations, client: Clients]
    BY <1>2 DEF Inv, TypeOK, NoFlow, Nonterminal
  <1>4. /\ \A g \in Flows : flow'[g].owner = flow[g].owner
        /\ \A g \in Flows \ {f} : flow'[g] = flow[g]
    BY <1>1, <1>3 DEF Inv, TypeOK
  <1>5. TypeOK'
    <2>1. [flow[f] EXCEPT !.state = s] \in [state: FlowStates, owner: Operations,
                                             client: Clients]
      BY <1>3
    <2>2. flow' \in [Flows -> {NoFlow} \cup [state: FlowStates, owner: Operations,
                                             client: Clients]]
      BY <1>1, <2>1 DEF Inv, TypeOK
    <2> QED BY <1>2, <2>2 DEF Inv, TypeOK
  <1>6. SentOnce'
    BY <1>2, <1>4 DEF Inv, SentOnce
  <1>7. OwnFlows'
    <2>1. \A o \in Operations : call[o].flow \in Flows \cup {None}
      BY DEF Inv, TypeOK, Calls
    <2> QED BY <1>2, <1>4, <2>1 DEF Inv, TypeOK, OwnFlows
  <1>8. ReportsAreTrue'
    <2>1. \A o \in Operations : call[o].at \in {"succeeded", "failed"} =>
              call[o].flow \in Flows /\ call[o].flow # f
      BY <1>2 DEF Inv, TypeOK, OwnFlows, ReportsAreTrue, Calls, Nonterminal
    <2> QED BY <1>2, <1>4, <2>1 DEF Inv, ReportsAreTrue
  <1> QED BY <1>5, <1>6, <1>7, <1>8 DEF Inv

\* A restart gives up what was waited for; what was sent remains sent.
LEMMA RestartKeeps ==
    ASSUME Inv, Restart
    PROVE  Inv'
  <1>1. mapping' \in Mappings /\ UNCHANGED <<request, response, flow>>
    BY DEF Restart
  <1>2. \A o \in Operations :
            \/ call'[o] = call[o]
            \/ /\ call[o].at \in {"scheduling", "held"}
               /\ call'[o] = [call[o] EXCEPT !.at = GivenUp(o)]
    BY DEF Restart
  <1>3. \A o \in Operations :
            /\ call'[o] \in Calls
            /\ call'[o].flow = call[o].flow /\ call'[o].client = call[o].client
            /\ \/ call'[o].at = call[o].at
               \/ call[o].at \in {"scheduling", "held"} /\ call'[o].at \in {"error", "unknown"}
    <2> SUFFICES ASSUME NEW o \in Operations
                 PROVE  /\ call'[o] \in Calls
                        /\ call'[o].flow = call[o].flow
                        /\ call'[o].client = call[o].client
                        /\ \/ call'[o].at = call[o].at
                           \/ /\ call[o].at \in {"scheduling", "held"}
                              /\ call'[o].at \in {"error", "unknown"}
      OBVIOUS
    <2>1. call[o] \in Calls
      BY DEF Inv, TypeOK
    <2>2. GivenUp(o) \in {"error", "unknown"}
      BY DEF GivenUp
    <2> QED BY <1>2, <2>1, <2>2 DEF Calls, Ends
  <1>4. TypeOK'
    BY <1>1, <1>3 DEF Inv, TypeOK, Restart
  <1>5. SentOnce'
    BY <1>1, <1>3 DEF Inv, TypeOK, SentOnce
  <1>6. OwnFlows'
    BY <1>1, <1>3 DEF Inv, TypeOK, OwnFlows
  <1>7. ReportsAreTrue'
    BY <1>1, <1>3 DEF Inv, ReportsAreTrue
  <1> QED BY <1>4, <1>5, <1>6, <1>7 DEF Inv

-----------------------------------------------------------------------------
\* The invariant is inductive.
LEMMA NextInv == Inv /\ [Next]_vars => Inv'
  <1> SUFFICES ASSUME Inv, [Next]_vars
               PROVE  Inv'
    OBVIOUS
  <1>1. ASSUME NEW o \in Operations, Backend(o)
        PROVE  Inv'
    BY <1>1, UnsentKeeps, SendKeeps, ReadKeeps, SentKeeps, PollKeeps DEF Backend
  <1>2. ASSUME NEW o \in Operations,
               PollFlow(o) \/ FailChannel(o) \/ FailPoll(o) \/ FailLegacyPoll(o)
        PROVE  Inv'
    BY <1>2, UnsentKeeps, SentKeeps, PollKeeps
  <1>3. ASSUME NEW f \in Flows, Server(f)
        PROVE  Inv'
    BY <1>3, ServeKeeps, RunKeeps DEF Server
  <1>4. CASE Restart
    BY <1>4, RestartKeeps
  <1>5. CASE UNCHANGED vars
    BY <1>5 DEF vars, Inv, TypeOK, SentOnce, OwnFlows, ReportsAreTrue
  <1> QED BY <1>1, <1>2, <1>3, <1>4, <1>5 DEF Next

\* Every behaviour keeps it.
LEMMA SpecInv == Spec => []Inv
  BY InitInv, NextInv, PTL DEF Spec

\* Callers, requests, answers and flows keep their types; a held operation id
\* is a flow id, as schedule returns it.
THEOREM FlowsTyped == Spec => []TypeOK
  <1>1. Inv => TypeOK
    BY DEF Inv
  <1> QED BY <1>1, SpecInv, PTL

\* A submission that submit() reports as rejected has scheduled nothing and no
\* request of it is on its way: failing its alert for good is right.
THEOREM RejectionsAlwaysFinal == Spec => []RejectedIsFinal
  <1>1. Inv => RejectedIsFinal
    BY DEF Inv, SentOnce, RejectedIsFinal, Scheduled
  <1> QED BY <1>1, SpecInv, PTL

\* The flow id that schedule() returns, and that later polls use, is of the
\* flow created for this operation, and no operation has two flows.
THEOREM FlowsAlwaysOwn == Spec => []HoldsOwnFlow
  <1>1. ASSUME Inv, NEW o \in Operations
        PROVE  Cardinality(Scheduled(o)) <= 1
    <2>1. CASE Scheduled(o) = {}
      BY <2>1, FS_EmptySet
    <2>2. CASE Scheduled(o) # {}
      <3>1. PICK f \in Flows : f \in Scheduled(o)
        BY <2>2 DEF Scheduled
      <3>2. Scheduled(o) = {f}
        BY <1>1, <3>1, OperationsAssumption DEF Inv, SentOnce, Scheduled
      <3>3. Cardinality({f}) = 1
        BY FS_Singleton
      <3> QED BY <3>2, <3>3
    <2> QED BY <2>1, <2>2
  <1>2. Inv => HoldsOwnFlow
    BY <1>1 DEF Inv, OwnFlows, HoldsOwnFlow
  <1> QED BY <1>2, SpecInv, PTL

\* A poll that reports success or failure reports how the operation's own flow
\* ended on the server, whichever process polls and however hosts are mapped.
THEOREM ReportsAlwaysTrue == Spec => []ReportsAreTrue
  <1>1. Inv => ReportsAreTrue
    BY DEF Inv
  <1> QED BY <1>1, SpecInv, PTL
=============================================================================
