---------------------------- MODULE NodeRegistry ----------------------------
(***************************************************************************)
(* The nodes connected to the gateway and the commands invoked on them:    *)
(* gateway/node-registry.ts, with the WebSocket connections (external) and *)
(* the nodes that answer on them.                                          *)
(*                                                                         *)
(* A connection belongs to a node, named by its device; a node that comes  *)
(* back may do so before the gateway has noticed that its old connection   *)
(* is gone.  Every method runs without an await, so each is one action.    *)
(***************************************************************************)
EXTENDS FiniteSets

CONSTANTS Nodes, Conns,
          NodeOf,     \* the node a connection belongs to
          NoConn,     \* no session stored
          Invokes,    \* calls of invoke()
          Target      \* the node of a call

ASSUME NodesAssumption ==
    /\ NodeOf \in [Conns -> Nodes] /\ Target \in [Invokes -> Nodes]
    /\ NoConn \notin Conns

VARIABLES conn,       \* conn[c]: the connection c, as the ws library sees it
          byId,       \* nodesById: the connection of the session stored for a node
          byConn,     \* the keys of nodesByConn
          stored,     \* the keys of pendingInvokes
          outcome,    \* outcome[i]: how the promise of i stands
          requests,      \* requests sent and not yet answered by the node
          answers,    \* answers sent and not yet received
          overtaken   \* history: nodes that came back before their old
                      \* connection was known to be gone

registryVars == <<byId, byConn, stored>>
wireVars == <<requests, answers>>
nodesVars == <<conn, registryVars, outcome, wireVars, overtaken>>

ConnStates == {"unused", "open", "closed", "gone"}
Outcomes == {"uncalled", "open", "answered", "refused"}

NodesInit ==
    /\ conn = [c \in Conns |-> "unused"]
    /\ byId = [n \in Nodes |-> NoConn]
    /\ byConn = {} /\ stored = {} /\ overtaken = {}
    /\ outcome = [i \in Invokes |-> "uncalled"]
    /\ requests = [c \in Conns |-> {}] /\ answers = [c \in Conns |-> {}]
-----------------------------------------------------------------------------
(* register(), at the end of the handshake of c.                           *)
Register(c) ==
    /\ conn[c] = "unused"
    /\ conn' = [conn EXCEPT ![c] = "open"]
    /\ byId' = [byId EXCEPT ![NodeOf[c]] = c]
    /\ byConn' = byConn \union {c}
    /\ overtaken' = IF \E d \in byConn : NodeOf[d] = NodeOf[c]
                    THEN overtaken \union {NodeOf[c]} ELSE overtaken
    /\ UNCHANGED <<stored, outcome, wireVars>>

(* The connection is lost, with what is under way on it.                   *)
Lose(c) ==
    /\ conn[c] = "open"
    /\ conn' = [conn EXCEPT ![c] = "closed"]
    /\ requests' = [requests EXCEPT ![c] = {}] /\ answers' = [answers EXCEPT ![c] = {}]
    /\ UNCHANGED <<registryVars, outcome, overtaken>>

Rejected(n) == {i \in stored : Target[i] = n}

(* Fault: the session stays.                                               *)
UnregisterKeepsSession(c) ==
    /\ conn[c] = "closed"
    /\ conn' = [conn EXCEPT ![c] = "gone"]
    /\ byConn' = byConn \ {c}
    /\ stored' = stored \ Rejected(NodeOf[c])
    /\ outcome' = [i \in Invokes |-> IF i \in Rejected(NodeOf[c]) THEN "refused" ELSE outcome[i]]
    /\ UNCHANGED <<byId, wireVars, overtaken>>

(* unregister(), when the close of c is noticed.  It deletes the session   *)
(* of the node, whichever connection that has.                             *)
Unregister(c) ==
    /\ conn[c] = "closed"
    /\ conn' = [conn EXCEPT ![c] = "gone"]
    /\ byConn' = byConn \ {c}
    /\ byId' = [byId EXCEPT ![NodeOf[c]] = NoConn]
    /\ stored' = stored \ Rejected(NodeOf[c])
    /\ outcome' = [i \in Invokes |-> IF i \in Rejected(NodeOf[c]) THEN "refused" ELSE outcome[i]]
    /\ UNCHANGED <<wireVars, overtaken>>

(* invoke(): writing to a connection that is lost raises no error.         *)
Invoke(i) ==
    LET c == byId[Target[i]]
    IN /\ outcome[i] = "uncalled"
       /\ IF c = NoConn
          THEN /\ outcome' = [outcome EXCEPT ![i] = "refused"]
               /\ UNCHANGED <<stored, requests>>
          ELSE /\ outcome' = [outcome EXCEPT ![i] = "open"]
               /\ stored' = stored \union {i}
               /\ requests' = IF conn[c] = "open" THEN [requests EXCEPT ![c] = @ \union {i}] ELSE requests
       /\ UNCHANGED <<conn, byId, byConn, answers, overtaken>>

(* The node answers, perhaps after the gateway has given up.               *)
Answer(c, i) ==
    /\ i \in requests[c]
    /\ requests' = [requests EXCEPT ![c] = @ \ {i}]
    /\ answers' = [answers EXCEPT ![c] = @ \union {i}]
    /\ UNCHANGED <<conn, registryVars, outcome, overtaken>>

(* Fault: whether the call is still stored is not looked at.               *)
ResultAnyway(c, i) ==
    /\ i \in answers[c]
    /\ answers' = [answers EXCEPT ![c] = @ \ {i}]
    /\ stored' = stored \ {i}
    /\ outcome' = [outcome EXCEPT ![i] = "answered"]
    /\ UNCHANGED <<conn, byId, byConn, requests, overtaken>>

(* handleInvokeResult(), with the node that c belongs to.                  *)
Result(c, i) ==
    /\ i \in answers[c]
    /\ answers' = [answers EXCEPT ![c] = @ \ {i}]
    /\ IF i \in stored /\ Target[i] = NodeOf[c]
       THEN /\ stored' = stored \ {i}
            /\ outcome' = [outcome EXCEPT ![i] = "answered"]
       ELSE UNCHANGED <<stored, outcome>>
    /\ UNCHANGED <<conn, byId, byConn, requests, overtaken>>

(* The timeout of i.                                                       *)
Timeout(i) ==
    /\ i \in stored
    /\ stored' = stored \ {i}
    /\ outcome' = [outcome EXCEPT ![i] = "refused"]
    /\ UNCHANGED <<conn, byId, byConn, wireVars, overtaken>>

NodesNext ==
    \/ \E c \in Conns : Register(c) \/ Lose(c) \/ Unregister(c)
    \/ \E i \in Invokes : Invoke(i) \/ Timeout(i)
    \/ \E c \in Conns, i \in Invokes : Answer(c, i) \/ Result(c, i)

(* Timers fire.                                                            *)
NodesFairness == \A i \in Invokes : WF_nodesVars(Timeout(i))

NodesSpec == NodesInit /\ [][NodesNext]_nodesVars /\ NodesFairness
-----------------------------------------------------------------------------
(* Types; the table of calls holds exactly the promises that are open, so  *)
(* that neither a late answer nor a disconnect leaves an entry behind.     *)
NodesTypeOK ==
    /\ conn \in [Conns -> ConnStates]
    /\ byId \in [Nodes -> Conns \union {NoConn}]
    /\ byConn = {c \in Conns : conn[c] \in {"open", "closed"}}
    /\ outcome \in [Invokes -> Outcomes]
    /\ stored = {i \in Invokes : outcome[i] = "open"}
    /\ requests \in [Conns -> SUBSET Invokes] /\ answers \in [Conns -> SUBSET Invokes]
    /\ overtaken \subseteq Nodes

(* node-registry.ts:73-81: as long as the gateway hears of the end of a    *)
(* node's connection before the next one begins, the stored session is     *)
(* that of its connection.  For a node that overtakes its own close it is  *)
(* not: the late unregister() deletes the new session.                     *)
SessionIsCurrent ==
    \A n \in Nodes \ overtaken :
        IF byId[n] = NoConn THEN \A c \in byConn : NodeOf[c] # n
        ELSE byId[n] \in byConn /\ NodeOf[byId[n]] = n

(* The calls are one-shot promises.                                        *)
Promises == INSTANCE OneShot WITH Calls <- Invokes, promise <- outcome

(* A call of invoke() ends exactly once, whatever the order of its answer, *)
(* its timeout, the end of the connection and the return of the node.      *)
KeepsPromises == Promises!Spec
=============================================================================
