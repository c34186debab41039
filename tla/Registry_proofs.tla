-------------------------- MODULE Registry_proofs --------------------------
(***************************************************************************)
(* Proofs about Registry, for any set of nodes and connections and any     *)
(* limit on missed heartbeats.                                             *)
(***************************************************************************)
EXTENDS Registry, TLAPS

(* Every variable keeps its type.  Two facts are needed on the way: while    *)
(* the heartbeat loop works on a node it has one, and a connection that has   *)
(* been dialled has an owner.                                                 *)
Shape == /\ hb.at \in {"calling", "apply"} => hb.node \in Conns
         /\ \A i \in Conns : phase[i] # "unused" => owner[i] \in NodeIds

LEMMA TypeInitially == Init => TypeOK /\ Shape
  BY MissedAssumption DEF Init, TypeOK, Shape, HbIdle, Phases

LEMMA TypePreserved == TypeOK /\ Shape /\ [Next]_vars => TypeOK' /\ Shape'
<1> SUFFICES ASSUME TypeOK, Shape, [Next]_vars PROVE TypeOK' /\ Shape'
  OBVIOUS
<1> USE MissedAssumption DEF TypeOK, Shape
<1>1. ASSUME NEW i \in Conns, NEW n \in NodeIds, Dial(n, i) PROVE TypeOK' /\ Shape'
  BY <1>1 DEF Dial, Phases
<1>2. ASSUME NEW i \in Conns, Reject(i) \/ StartReading(i) \/ LinkLost(i) PROVE TypeOK' /\ Shape'
  BY <1>2 DEF Reject, StartReading, LinkLost, Phases
<1>3. ASSUME NEW i \in Conns, Publish(i) PROVE TypeOK' /\ Shape'
  <2>1. healthy' \subseteq Conns /\ failures' \in [Conns -> 0 .. MissedHeartbeats]
    BY <1>3 DEF Publish
  <2>2. nodes' \in [NodeIds -> Conns \cup {None}] /\ phase' \in [Conns -> Phases]
    BY <1>3 DEF Publish, Phases
  <2>3. Old(i) \subseteq Conns
    <3>1. owner[i] \in NodeIds
      BY <1>3 DEF Publish
    <3>2. nodes[owner[i]] \in Conns \cup {None}
      BY <3>1
    <3> QED
      BY <3>2 DEF Old
  <2> QED
    BY <1>3, <2>1, <2>2, <2>3 DEF Publish
<1>4. ASSUME NEW i \in Conns, ReadFails(i) \/ MarkDisconnected(i) PROVE TypeOK' /\ Shape'
  BY <1>4 DEF ReadFails, MarkDisconnected, Phases
<1>5. CASE HbTick
  <2>1. Clients \subseteq Conns
    BY DEF Clients
  <2>2. hb' = [at |-> "next", todo |-> Clients, node |-> None, ok |-> FALSE]
    BY <1>5 DEF HbTick, HbIdle, Probed
  <2>3. UNCHANGED <<phase, owner, nodes, healthy, failures, closed, linked, stage>>
    BY <1>5 DEF HbTick
  <2>4. hb' \in [at : {"idle", "next", "calling", "apply", "stopped"}, todo : SUBSET Conns,
                 node : Conns \cup {None}, ok : BOOLEAN]
    BY <2>1, <2>2
  <2> QED
    BY <2>2, <2>3, <2>4
<1>6. CASE HbCall
  <2>1. PICK i \in hb.todo : hb' = [hb EXCEPT !.at = "calling", !.todo = @ \ {i}, !.node = i]
    BY <1>6 DEF HbCall
  <2>2. i \in Conns /\ hb.todo \ {i} \subseteq Conns
    OBVIOUS
  <2>3. hb' = [at |-> "calling", todo |-> hb.todo \ {i}, node |-> i, ok |-> hb.ok]
    BY <2>1
  <2>4. UNCHANGED <<phase, owner, nodes, healthy, failures, closed, linked, stage>>
    BY <1>6 DEF HbCall
  <2> QED
    BY <2>2, <2>3, <2>4
<1>7. CASE HbRoundDone \/ HbStop
  <2>1. \E place \in {"idle", "stopped"} : hb' = [at |-> place, todo |-> {}, node |-> None, ok |-> FALSE]
    BY <1>7 DEF HbRoundDone, HbStop, HbIdle
  <2> QED
    BY <1>7, <2>1 DEF HbRoundDone, HbStop
<1>8. CASE HbAnswered \/ HbFailed
  BY <1>8 DEF HbAnswered, HbFailed
<1>9. CASE HbApply
  <2>1. hb.node \in Conns
    BY <1>9 DEF HbApply
  <2>2. healthy' \subseteq Conns /\ failures' \in [Conns -> 0 .. MissedHeartbeats]
    BY <1>9, <2>1 DEF HbApply, CountSuccess, CountFailure, Counted
  <2>3. hb' = [at |-> "next", todo |-> hb.todo, node |-> None, ok |-> FALSE]
    BY <1>9 DEF HbApply
  <2> QED
    BY <1>9, <2>2, <2>3 DEF HbApply
<1>10. CASE CloseListener \/ CloseClients
  BY <1>10 DEF CloseListener, CloseClients, Clients
<1>11. CASE UNCHANGED vars
  BY <1>11 DEF vars
<1> QED
  BY <1>1, <1>2, <1>3, <1>4, <1>5, <1>6, <1>7, <1>8, <1>9, <1>10, <1>11
     DEF Next, Connection, Heartbeat

THEOREM TypeCorrect == Spec => []TypeOK
<1>1. Spec => [](TypeOK /\ Shape)
  BY TypeInitially, TypePreserved, PTL DEF Spec
<1> QED
  BY <1>1, PTL

-----------------------------------------------------------------------------
(***************************************************************************)
(* The table.  OneOpenClientPerNode becomes inductive together with the    *)
(* fact that a node's entry is a connection registered under its name.     *)
(***************************************************************************)
EntriesInv == \A n \in NodeIds : nodes[n] # None =>
                 owner[nodes[n]] = n /\ phase[nodes[n]] \notin {"unused", "handshake"}

IInv == TypeOK /\ Shape /\ EntriesInv /\ OneOpenClientPerNode /\ HealthyIsWithinLimit

LEMMA EntriesPreserved ==
  TypeOK /\ Shape /\ EntriesInv /\ [Next]_vars => EntriesInv'
<1> SUFFICES ASSUME TypeOK, Shape, EntriesInv, [Next]_vars,
                    NEW n \in NodeIds, nodes'[n] # None
             PROVE  owner'[nodes'[n]] = n /\ phase'[nodes'[n]] \notin {"unused", "handshake"}
  BY DEF EntriesInv
<1> USE DEF TypeOK, Shape, EntriesInv
<1>1. ASSUME NEW i \in Conns, NEW m \in NodeIds, Dial(m, i)
      PROVE  owner'[nodes'[n]] = n /\ phase'[nodes'[n]] \notin {"unused", "handshake"}
  BY <1>1 DEF Dial
<1>2. ASSUME NEW i \in Conns, Publish(i)
      PROVE  owner'[nodes'[n]] = n /\ phase'[nodes'[n]] \notin {"unused", "handshake"}
  <2>1. owner[i] \in NodeIds /\ owner' = owner
    BY <1>2 DEF Publish
  <2>2. CASE n = owner[i]
    BY <1>2, <2>1, <2>2 DEF Publish
  <2>3. CASE n # owner[i]
    BY <1>2, <2>1, <2>3 DEF Publish
  <2> QED
    BY <2>2, <2>3
<1>3. ASSUME NEW i \in Conns, \/ Reject(i) \/ StartReading(i) \/ ReadFails(i)
                              \/ MarkDisconnected(i) \/ LinkLost(i)
      PROVE  owner'[nodes'[n]] = n /\ phase'[nodes'[n]] \notin {"unused", "handshake"}
  BY <1>3 DEF Reject, StartReading, ReadFails, MarkDisconnected, LinkLost
<1>4. CASE Heartbeat \/ CloseListener \/ CloseClients \/ UNCHANGED vars
  BY <1>4 DEF Heartbeat, HbTick, HbCall, HbRoundDone, HbAnswered, HbFailed, HbApply, HbStop,
              CloseListener, CloseClients, vars
<1> QED
  BY <1>1, <1>2, <1>3, <1>4 DEF Next, Connection

LEMMA OneOpenPreserved ==
  TypeOK /\ Shape /\ OneOpenClientPerNode /\ [Next]_vars => OneOpenClientPerNode'
<1> SUFFICES ASSUME TypeOK, Shape, OneOpenClientPerNode, [Next]_vars,
                    NEW j \in Conns, phase'[j] \in {"published", "reading"}, j \notin closed'
             PROVE  nodes'[owner'[j]] = j
  BY DEF OneOpenClientPerNode, Current
<1> USE DEF TypeOK, Shape, OneOpenClientPerNode, Current
<1>1. ASSUME NEW i \in Conns, NEW m \in NodeIds, Dial(m, i) PROVE nodes'[owner'[j]] = j
  BY <1>1 DEF Dial
<1>2. ASSUME NEW i \in Conns, Publish(i) PROVE nodes'[owner'[j]] = j
  <2>1. owner[i] \in NodeIds /\ owner' = owner
    BY <1>2 DEF Publish
  <2>2. CASE j = i
    BY <1>2, <2>1, <2>2 DEF Publish
  <2>3. CASE j # i
    <3>1. nodes[owner[j]] = j /\ j \notin Old(i) /\ owner[j] \in NodeIds
      BY <1>2, <2>3 DEF Publish
    <3>2. owner[j] # owner[i]
      BY <2>1, <3>1, NoneAssumption DEF Old
    <3> QED
      BY <1>2, <2>1, <3>1, <3>2 DEF Publish
  <2> QED
    BY <2>2, <2>3
<1>3. ASSUME NEW i \in Conns, \/ Reject(i) \/ StartReading(i) \/ ReadFails(i)
                              \/ MarkDisconnected(i) \/ LinkLost(i)
      PROVE  nodes'[owner'[j]] = j
  BY <1>3 DEF Reject, StartReading, ReadFails, MarkDisconnected, LinkLost
<1>4. CASE Heartbeat \/ CloseListener \/ CloseClients \/ UNCHANGED vars
  BY <1>4 DEF Heartbeat, HbTick, HbCall, HbRoundDone, HbAnswered, HbFailed, HbApply, HbStop,
              CloseListener, CloseClients, vars
<1> QED
  BY <1>1, <1>2, <1>3, <1>4 DEF Next, Connection

LEMMA WithinLimitPreserved ==
  TypeOK /\ Shape /\ HealthyIsWithinLimit /\ [Next]_vars => HealthyIsWithinLimit'
<1> SUFFICES ASSUME TypeOK, Shape, HealthyIsWithinLimit, [Next]_vars, NEW j \in healthy'
             PROVE  failures'[j] < MissedHeartbeats
  BY DEF HealthyIsWithinLimit
<1> USE MissedAssumption DEF TypeOK, HealthyIsWithinLimit
<1>1. ASSUME NEW i \in Conns, Publish(i) PROVE failures'[j] < MissedHeartbeats
  BY <1>1 DEF Publish
<1>2. ASSUME NEW i \in Conns, \/ Reject(i) \/ StartReading(i) \/ ReadFails(i)
                              \/ MarkDisconnected(i) \/ LinkLost(i)
                              \/ \E n \in NodeIds : Dial(n, i)
      PROVE  failures'[j] < MissedHeartbeats
  BY <1>2 DEF Reject, StartReading, ReadFails, MarkDisconnected, LinkLost, Dial
<1>3. CASE HbApply
  <2>1. hb.node \in Conns
    BY <1>3 DEF HbApply, Shape
  <2>2. CASE CountSuccess(hb.node)
    BY <2>1, <2>2 DEF CountSuccess
  <2>3. CASE CountFailure(hb.node)
    BY <2>1, <2>3 DEF CountFailure, Counted
  <2>4. CASE UNCHANGED <<failures, healthy>>
    BY <2>4
  <2> QED
    BY <1>3, <2>2, <2>3, <2>4 DEF HbApply
<1>4. CASE \/ HbTick \/ HbCall \/ HbRoundDone \/ HbAnswered \/ HbFailed \/ HbStop
           \/ CloseListener \/ CloseClients \/ UNCHANGED vars
  BY <1>4 DEF HbTick, HbCall, HbRoundDone, HbAnswered, HbFailed, HbStop,
              CloseListener, CloseClients, vars
<1> QED
  BY <1>1, <1>2, <1>3, <1>4 DEF Next, Connection, Heartbeat

THEOREM Invariance == Spec => []IInv
<1>1. Init => IInv
  BY TypeInitially DEF Init, IInv, EntriesInv, OneOpenClientPerNode, HealthyIsWithinLimit
<1>2. IInv /\ [Next]_vars => IInv'
  BY TypePreserved, EntriesPreserved, OneOpenPreserved, WithinLimitPreserved DEF IInv
<1> QED
  BY <1>1, <1>2, PTL DEF Spec

(* At most one open, served connection per node name: the table's.          *)
THEOREM OneOpenClientHolds == Spec => []OneOpenClientPerNode
<1>1. IInv => OneOpenClientPerNode
  BY DEF IInv
<1> QED
  BY <1>1, Invariance, PTL

(* A healthy client is one that has missed fewer heartbeats than the limit. *)
THEOREM HealthyWithinLimitHolds == Spec => []HealthyIsWithinLimit
<1>1. IInv => HealthyIsWithinLimit
  BY DEF IInv
<1> QED
  BY <1>1, Invariance, PTL

(* Nothing that happens to a replaced client changes a node's record.       *)
THEOREM OnlyCurrentAssessedHolds == Spec => OnlyCurrentAssessed
<1> DEFINE A == \A i \in Conns : (i \in healthy) # (i \in healthy') \/ failures[i] # failures'[i]
                                     => nodes'[owner'[i]] = i
<1>1. IInv /\ [Next]_vars => [A]_vars
  <2> SUFFICES ASSUME TypeOK, Shape, Next, NEW i \in Conns,
                      (i \in healthy) # (i \in healthy') \/ failures[i] # failures'[i]
               PROVE  nodes'[owner'[i]] = i
    BY DEF IInv
  <2> USE DEF TypeOK, Shape
  <2>1. ASSUME NEW k \in Conns, Publish(k) PROVE nodes'[owner'[i]] = i
    <3>1. i = k /\ owner[k] \in NodeIds
      BY <2>1 DEF Publish
    <3> QED
      BY <2>1, <3>1 DEF Publish
  <2>2. ASSUME NEW k \in Conns, MarkDisconnected(k) PROVE nodes'[owner'[i]] = i
    BY <2>2 DEF MarkDisconnected, Current
  <2>3. CASE HbApply
    BY <2>3 DEF HbApply, CountSuccess, CountFailure, Counted, Applies, Current
  <2>4. CASE UNCHANGED <<healthy, failures>>
    BY <2>4
  <2> QED
    BY <2>1, <2>2, <2>3, <2>4
       DEF Next, Connection, Heartbeat, Dial, Reject, StartReading, ReadFails, LinkLost,
           HbTick, HbCall, HbRoundDone, HbAnswered, HbFailed, HbStop, CloseListener, CloseClients
<1>2. Spec => [][IInv /\ Next]_vars
  BY Invariance, PTL DEF Spec
<1> QED
  BY <1>1, <1>2, Invariance, PTL DEF OnlyCurrentAssessed, Spec
=============================================================================
