------------------------------ MODULE Registry ------------------------------
(***************************************************************************)
(* The coordinator's table of worker nodes: registration, replacement,     *)
(* disconnection, health checking and shutdown.                            *)
(*                                                                         *)
(* Every TCP connection the listener accepts is one element of Conns and   *)
(* carries at most one nodeClient.  The goroutines that touch the table    *)
(* are the one of each connection (registerConnection, then readLoop, then *)
(* markDisconnected), the heartbeat loop and whoever calls Close; each     *)
(* critical section of Coordinator.mu is one action.  A heartbeat request  *)
(* is Coordinator.call, seen through its contract (CallContract): it ends  *)
(* with the worker's answer, which only a running readLoop can deliver, or *)
(* with an error, at any time.                                             *)
(***************************************************************************)
EXTENDS Naturals, FiniteSets

CONSTANTS
    NodeIds,            \* worker names; numbers, because snapshots are sorted by name
    Conns,              \* the connections the listener may accept
    None,
    MissedHeartbeats    \* Coordinator.missedHeartbeats

ASSUME NodeIdsAssumption == NodeIds \subseteq Nat /\ IsFiniteSet(NodeIds)
ASSUME NoneAssumption == None \notin Conns /\ None \notin NodeIds
ASSUME MissedAssumption == MissedHeartbeats \in Nat \ {0}

VARIABLES
    phase,      \* where the goroutine of each connection is
    owner,      \* the node id a connection registers under
    nodes,      \* Coordinator.nodes: node id -> connection of its nodeClient
    healthy,    \* the clients with info.Healthy
    failures,   \* nodeClient.failures, counted up to MissedHeartbeats
    closed,     \* the clients whose close() has run
    linked,     \* the connections whose worker end is up
    hb,         \* the heartbeat loop and its locals
    stage       \* Coordinator.Close: "running", "closing" (before mu), "closed"

vars == <<phase, owner, nodes, healthy, failures, closed, linked, hb, stage>>

Phases == {"unused", "handshake", "published", "reading", "marking", "gone"}
HbIdle == [at |-> "idle", todo |-> {}, node |-> None, ok |-> FALSE]

TypeOK ==
    /\ phase \in [Conns -> Phases]
    /\ owner \in [Conns -> NodeIds \cup {None}]
    /\ nodes \in [NodeIds -> Conns \cup {None}]
    /\ healthy \subseteq Conns
    /\ failures \in [Conns -> 0 .. MissedHeartbeats]
    /\ closed \subseteq Conns
    /\ linked \subseteq Conns
    /\ hb \in [at : {"idle", "next", "calling", "apply", "stopped"}, todo : SUBSET Conns,
               node : Conns \cup {None}, ok : BOOLEAN]
    /\ stage \in {"running", "closing", "closed"}

Init ==
    /\ phase = [i \in Conns |-> "unused"]
    /\ owner = [i \in Conns |-> None]
    /\ nodes = [n \in NodeIds |-> None]
    /\ healthy = {}
    /\ failures = [i \in Conns |-> 0]
    /\ closed = {}
    /\ linked = {}
    /\ hb = HbIdle
    /\ stage = "running"

Clients == {nodes[n] : n \in NodeIds} \ {None}      \* what c.nodes holds
Current(i) == nodes[owner[i]] = i                   \* c.nodes[node.info.ID] == node

-----------------------------------------------------------------------------
(* The goroutine of a connection.  Names ending in _Bug are deliberately    *)
(* wrong variants of the definition below them.                             *)

\* The worker process of node n (one process, one connection at a time) dials and sends
\* its registration; acceptLoop starts registerConnection.
Dial(n, i) ==
    /\ stage = "running"
    /\ phase[i] = "unused"
    /\ \A j \in linked : owner[j] # n
    /\ phase' = [phase EXCEPT ![i] = "handshake"]
    /\ owner' = [owner EXCEPT ![i] = n]
    /\ linked' = linked \cup {i}
    /\ UNCHANGED <<nodes, healthy, failures, closed, hb, stage>>

\* No usable registration before the read deadline: the connection is closed.
Reject(i) ==
    /\ phase[i] = "handshake"
    /\ phase' = [phase EXCEPT ![i] = "gone"]
    /\ linked' = linked \ {i}
    /\ UNCHANGED <<owner, nodes, healthy, failures, closed, hb, stage>>

Old_Bug(i) == {}                                 \* the replaced client is left open
Old(i) == {nodes[owner[i]]} \ {None}

Publish(i) ==
    /\ phase[i] = "handshake"
    /\ closed' = closed \cup Old(i)
    /\ nodes' = [nodes EXCEPT ![owner[i]] = i]
    /\ healthy' = healthy \cup {i}
    /\ failures' = [failures EXCEPT ![i] = 0]
    /\ phase' = [phase EXCEPT ![i] = "published"]
    /\ UNCHANGED <<owner, linked, hb, stage>>

\* The ack is sent, whether or not that works, and the readLoop starts.
StartReading(i) ==
    /\ phase[i] = "published"
    /\ phase' = [phase EXCEPT ![i] = "reading"]
    /\ UNCHANGED <<owner, nodes, healthy, failures, closed, linked, hb, stage>>

\* The worker dies, gives the connection up after an error or a closed socket, or the
\* network drops it.
LinkLost(i) ==
    /\ i \in linked
    /\ linked' = linked \ {i}
    /\ UNCHANGED <<phase, owner, nodes, healthy, failures, closed, hb, stage>>

\* Decode fails: the readLoop returns and markDisconnected closes the client ...
ReadFails(i) ==
    /\ phase[i] = "reading"
    /\ i \in closed \/ i \notin linked
    /\ closed' = closed \cup {i}
    /\ phase' = [phase EXCEPT ![i] = "marking"]
    /\ UNCHANGED <<owner, nodes, healthy, failures, linked, hb, stage>>

\* ... and then, under mu, marks it, unless a newer client has taken its place.
MarkDisconnected(i) ==
    /\ phase[i] = "marking"
    /\ healthy' = IF Current(i) THEN healthy \ {i} ELSE healthy
    /\ phase' = [phase EXCEPT ![i] = "gone"]
    /\ UNCHANGED <<owner, nodes, failures, closed, linked, hb, stage>>

-----------------------------------------------------------------------------
(* heartbeatLoop: one goroutine, one node after the other in name order.    *)

Probed_Bug == Clients \cap healthy                \* snapshotNodes(true)
Probed == Clients                                \* snapshotNodes(false)

HbTick ==
    /\ hb.at = "idle"
    /\ hb' = [HbIdle EXCEPT !.at = "next", !.todo = Probed]
    /\ UNCHANGED <<phase, owner, nodes, healthy, failures, closed, linked, stage>>

HbCall ==
    /\ hb.at = "next"
    /\ \E i \in hb.todo :
          /\ \A j \in hb.todo : owner[i] <= owner[j]
          /\ hb' = [hb EXCEPT !.at = "calling", !.todo = @ \ {i}, !.node = i]
    /\ UNCHANGED <<phase, owner, nodes, healthy, failures, closed, linked, stage>>

HbRoundDone ==
    /\ hb.at = "next"
    /\ hb.todo = {}
    /\ hb' = HbIdle
    /\ UNCHANGED <<phase, owner, nodes, healthy, failures, closed, linked, stage>>

\* call returns the answer.  Whatever happens to the node from here on, the loop still
\* has to take mu and record a success.
HbAnswered ==
    /\ hb.at = "calling"
    /\ phase[hb.node] = "reading"
    /\ hb' = [hb EXCEPT !.at = "apply", !.ok = TRUE]
    /\ UNCHANGED <<phase, owner, nodes, healthy, failures, closed, linked, stage>>

\* call returns an error: write failed, timeout, or node closed.
HbFailed ==
    /\ hb.at = "calling"
    /\ hb' = [hb EXCEPT !.at = "apply", !.ok = FALSE]
    /\ UNCHANGED <<phase, owner, nodes, healthy, failures, closed, linked, stage>>

Applies(i) == Current(i)

Counted(i) == [failures EXCEPT ![i] = IF @ = MissedHeartbeats THEN @ ELSE @ + 1]
CountFailure_Never_Bug(i) ==                     \* counts, but leaves the node to its readLoop
    /\ failures' = Counted(i)
    /\ healthy' = healthy
CountFailure(i) ==
    /\ failures' = Counted(i)
    /\ healthy' = IF failures[i] + 1 >= MissedHeartbeats THEN healthy \ {i} ELSE healthy

CountSuccess(i) ==
    /\ failures' = [failures EXCEPT ![i] = 0]
    /\ healthy' = healthy \cup {i}

HbApply ==
    /\ hb.at = "apply"
    /\ \/ Applies(hb.node) /\ hb.ok /\ CountSuccess(hb.node)
       \/ Applies(hb.node) /\ ~hb.ok /\ CountFailure(hb.node)
       \/ ~Applies(hb.node) /\ UNCHANGED <<failures, healthy>>
    /\ hb' = [hb EXCEPT !.at = "next", !.node = None, !.ok = FALSE]
    /\ UNCHANGED <<phase, owner, nodes, closed, linked, stage>>

HbStop ==
    /\ hb.at = "idle"
    /\ stage # "running"
    /\ hb' = [HbIdle EXCEPT !.at = "stopped"]
    /\ UNCHANGED <<phase, owner, nodes, healthy, failures, closed, linked, stage>>

-----------------------------------------------------------------------------
(* Close: stop accepting, then close every client of the table under mu.    *)

CloseListener ==
    /\ stage = "running"
    /\ stage' = "closing"
    /\ UNCHANGED <<phase, owner, nodes, healthy, failures, closed, linked, hb>>

CloseClients ==
    /\ stage = "closing"
    /\ stage' = "closed"
    /\ closed' = closed \cup Clients
    /\ UNCHANGED <<phase, owner, nodes, healthy, failures, linked, hb>>

-----------------------------------------------------------------------------
Connection(i) ==
    \/ Reject(i) \/ Publish(i) \/ StartReading(i) \/ ReadFails(i) \/ MarkDisconnected(i)

Heartbeat ==
    \/ HbTick \/ HbCall \/ HbRoundDone \/ HbAnswered \/ HbFailed \/ HbApply \/ HbStop

Next ==
    \/ \E i \in Conns : (\E n \in NodeIds : Dial(n, i)) \/ Connection(i) \/ LinkLost(i)
    \/ Heartbeat
    \/ CloseListener \/ CloseClients

Spec == Init /\ [][Next]_vars

(* Goroutines that can run do run, the read deadline ends a handshake, the  *)
(* ticker ticks and every call returns (CallReturns of NodeRpc).  Workers   *)
(* owe nothing: not to dial, not to answer, not to stay up.                 *)
Fairness ==
    /\ \A i \in Conns : WF_vars(Connection(i))
    /\ WF_vars(HbTick \/ HbStop)
    /\ WF_vars(HbCall \/ HbRoundDone)
    /\ WF_vars(HbAnswered \/ HbFailed)
    /\ WF_vars(HbApply)
    /\ WF_vars(CloseClients)

FairSpec == Spec /\ Fairness

-----------------------------------------------------------------------------
(* Properties.                                                              *)

Registered(i) == phase[i] \in {"published", "reading", "marking", "gone"} /\ owner[i] # None

\* coordinator.go:179-184: however registrations, disconnections and heartbeats of the
\* same node overlap, a client that is still open and being served is the one in the
\* table: no request can reach a worker over a connection the table has forgotten.
OneOpenClientPerNode ==
    \A i \in Conns : phase[i] \in {"published", "reading"} /\ i \notin closed => Current(i)

\* coordinator.go:222-231, 454-456: a client the balancer may pick has missed fewer
\* heartbeats than the limit, whatever the order in which the outcome of a call, a
\* disconnection and a replacement reach the table.
HealthyIsWithinLimit ==
    \A i \in healthy : failures[i] < MissedHeartbeats

\* coordinator.go:222, 455: what happens to a replaced client no longer changes the
\* record of any node: only clients that are current, or become so, are re-assessed.
OnlyCurrentAssessed ==
    [][\A i \in Conns : (i \in healthy) # (i \in healthy') \/ failures[i] # failures'[i]
                            => nodes'[owner'[i]] = i]_vars

\* coordinator.go:211-231, 452-456: a client that is closed while it serves its node leaves
\* the balancer for good.  An answered heartbeat that is recorded after the
\* disconnection may bring it back, but only until enough heartbeats have failed; the
\* exceptions are a node that registers anew and a coordinator that shuts down.
DeadClientsLeaveRotation ==
    \A i \in Conns : (i \in closed) ~> (stage # "running" \/ [](i \notin healthy \/ ~Current(i)))

\* coordinator.go:228-231: a current client that keeps answering heartbeats now and then is
\* taken back into the balancer again and again, however many it had missed.
Answers(i) == SF_vars(HbAnswered /\ hb.node = i)
SlowNodesRecover ==
    \A i \in Conns :
        Answers(i) => (<>[](phase[i] = "reading" /\ Current(i) /\ stage = "running")
                          => []<>(i \in healthy))
=============================================================================
