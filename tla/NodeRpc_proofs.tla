--------------------------- MODULE NodeRpc_proofs ---------------------------
(***************************************************************************)
(* Proofs about NodeRpc, for any set of calls and any window.              *)
(***************************************************************************)
EXTENDS NodeRpc, SequenceTheorems, TLAPS

USE DEF callVars, chanVars, workerVars

(* What the queue operations do to the type of a queue and to its elements. *)
Elements(s) == {s[i] : i \in 1 .. Len(s)}

LEMMA AppendFacts ==
  ASSUME NEW S, NEW s \in Seq(S), NEW x \in S
  PROVE  /\ Append(s, x) \in Seq(S)
         /\ Elements(Append(s, x)) = Elements(s) \cup {x}
         /\ Len(Append(s, x)) = Len(s) + 1
         /\ \A i \in 1 .. Len(s) : Append(s, x)[i] = s[i]
         /\ Append(s, x)[Len(s) + 1] = x
  BY AppendProperties DEF Elements

LEMMA TailFacts ==
  ASSUME NEW S, NEW s \in Seq(S), s # <<>>
  PROVE  /\ Head(s) \in S
         /\ Head(s) \in Elements(s)
         /\ Tail(s) \in Seq(S)
         /\ Len(Tail(s)) = Len(s) - 1
         /\ Len(s) \in Nat \ {0}
         /\ Head(s) = s[1]
         /\ \A i \in 1 .. Len(Tail(s)) : Tail(s)[i] = s[i + 1]
         /\ Elements(Tail(s)) \subseteq Elements(s)
<1>1. /\ Head(s) \in S /\ Tail(s) \in Seq(S) /\ Len(Tail(s)) = Len(s) - 1 /\ Head(s) = s[1]
      /\ \A i \in 1 .. Len(Tail(s)) : Tail(s)[i] = s[i + 1]
  BY HeadTailProperties
<1>2. Len(s) \in Nat \ {0}
  BY EmptySeq
<1> QED
  BY <1>1, <1>2 DEF Elements

LEMMA PrefixFacts ==
  ASSUME NEW S, NEW s \in Seq(S), NEW n \in 0 .. Len(s)
  PROVE  /\ SubSeq(s, 1, n) \in Seq(S)
         /\ Elements(SubSeq(s, 1, n)) \subseteq Elements(s)
  BY SubSeqProperties, LenProperties DEF Elements

(* Every variable keeps its type: Spec => []TypeOK.                         *)
LEMMA TypeInitially == Init => TypeOK
<1> SUFFICES ASSUME Init PROVE TypeOK
  OBVIOUS
<1>1. reader \in [at : {"ackLock", "ackWrite", "decode", "stopped"}, to : {None}, msg : {None}]
  BY DEF Init, At
<1>2. toWorker \in Seq(Nat) /\ toCoordinator \in Seq(Replies)
  BY EmptySeq DEF Init
<1> QED
  BY <1>1, <1>2 DEF Init, TypeOK

LEMMA TypePreserved == TypeOK /\ [Next]_vars => TypeOK'
<1> SUFFICES ASSUME TypeOK, [Next]_vars PROVE TypeOK'
  OBVIOUS
<1> USE DEF TypeOK
<1>1. ASSUME NEW k \in Calls, Begin(k) PROVE TypeOK'
  BY <1>1 DEF Begin, NextId
<1>2. ASSUME NEW k \in Calls, Register(k) PROVE TypeOK'
<2>1. {p \in pending : p[1] # id[k]} \cup {<<id[k], k>>} \subseteq Nat \X Calls
  BY <1>2
<2> QED
  BY <1>2, <2>1 DEF Register
<1>3. ASSUME NEW k \in Calls, LockWriter(k) PROVE TypeOK'
  BY <1>3 DEF LockWriter
<1>4. ASSUME NEW k \in Calls, Write(k) PROVE TypeOK'
  BY <1>4, AppendFacts DEF Write, Deliverable
<1>5. ASSUME NEW k \in Calls, WriteFails(k) PROVE TypeOK'
  BY <1>5 DEF WriteFails, removePending
<1>6. ASSUME NEW k \in Calls, Receive(k) PROVE TypeOK'
  BY <1>6 DEF Receive, ZeroMessage, Replies, Ack
<1>7. ASSUME NEW k \in Calls, GiveUp(k) \/ Disconnected(k) PROVE TypeOK'
  BY <1>7 DEF GiveUp, Disconnected, Return, removePending
<1>8. CASE AckLock
  BY <1>8 DEF AckLock, At
<1>9. CASE AckWrite
<2>1. toWorker' \in Seq(Nat)
  <3>1. toWorker' = toWorker \/ toWorker' = Append(toWorker, 0)
    BY <1>9 DEF AckWrite, Deliverable, Ack
  <3>2. Append(toWorker, 0) \in Seq(Nat)
    BY AppendFacts
  <3> QED
    BY <3>1, <3>2
<2>2. reader' \in [at : {"ackLock", "ackWrite", "decode", "stopped"}, to : {None}, msg : {None}]
  BY <1>9 DEF AckWrite, At
<2> QED
  BY <1>9, <2>1, <2>2 DEF AckWrite
<1>10. CASE ReaderTakes
<2>1. Head(toCoordinator) \in Replies /\ Tail(toCoordinator) \in Seq(Replies)
  BY <1>10, TailFacts DEF ReaderTakes
<2>2. pending' \subseteq pending
  BY <1>10 DEF ReaderTakes
<2>3. reader' = reader \/ \E k \in Calls : reader' = [at |-> "deliver", to |-> k, msg |-> Head(toCoordinator)]
  BY <1>10 DEF ReaderTakes, Waiting
<2>4. reader' \in [at : {"ackLock", "ackWrite", "decode", "stopped"}, to : {None}, msg : {None}]
                  \cup [at : {"deliver", "close"}, to : Calls, msg : Replies]
  BY <2>1, <2>3
<2> QED
  BY <1>10, <2>1, <2>2, <2>4 DEF ReaderTakes
<1>11. CASE ReaderDelivers
  BY <1>11 DEF ReaderDelivers
<1>12. CASE ReaderCloses
  BY <1>12 DEF ReaderCloses, At
<1>13. CASE ReaderStops
  BY <1>13 DEF ReaderStops, At
<1>14. CASE Close
  BY <1>14 DEF Close
<1>15. CASE WorkerTakesAck
  BY <1>15, TailFacts DEF WorkerTakesAck
<1>16. CASE WorkerDecodes
<2>1. Head(toWorker) \in Nat /\ Tail(toWorker) \in Seq(Nat)
  BY <1>16, TailFacts DEF WorkerDecodes
<2> QED
  BY <1>16, <2>1 DEF WorkerDecodes
<1>17. ASSUME NEW n \in jobs, WorkerAnswers(n) PROVE TypeOK'
<2>1. PICK ok \in BOOLEAN : LET r == [id |-> n, ok |-> ok]
                            IN  /\ served' = served \cup {r}
                                /\ toCoordinator' = IF closed THEN toCoordinator
                                                    ELSE Append(toCoordinator, r)
  BY <1>17 DEF WorkerAnswers
<2>2. [id |-> n, ok |-> ok] \in Replies
  BY <1>17 DEF Replies
<2> QED
  BY <1>17, <2>1, <2>2, AppendFacts DEF WorkerAnswers
<1>18. CASE LinkLost
  BY <1>18, PrefixFacts DEF LinkLost
<1>19. CASE UNCHANGED vars
  BY <1>19 DEF vars
<1> QED
  BY <1>1, <1>2, <1>3, <1>4, <1>5, <1>6, <1>7, <1>8, <1>9, <1>10, <1>11, <1>12,
     <1>13, <1>14, <1>15, <1>16, <1>17, <1>18, <1>19 DEF Next, Call

THEOREM TypeCorrect == Spec => []TypeOK
  BY TypeInitially, TypePreserved, PTL DEF Spec

-----------------------------------------------------------------------------
(***************************************************************************)
(* Safety of the bookkeeping.  The inductive invariant says, part by part: *)
(*  IdInv       request ids are drawn once and by one call;                *)
(*  NoPendingLeak (of NodeRpc): what pending may hold;                     *)
(*  ChannelInv  where the channel of a call can be, and in which state:    *)
(*              untouched before Register; in pending; in the hands of the *)
(*              readLoop; filled and (being) closed;                       *)
(*  ReplyInv    every reply inside the coordinator comes from the worker   *)
(*              and carries the id of the call it is for.                  *)
(***************************************************************************)
IdInv == /\ \A k \in Calls : pc[k] = "idle" <=> id[k] = 0
         /\ \A k \in Calls : id[k] <= requestSequence
         /\ \A k, l \in Calls : id[k] # 0 /\ id[k] = id[l] => k = l

Waits(k) == <<id[k], k>> \in pending
Holds(k) == reader.at \in {"deliver", "close"} /\ reader.to = k

ChannelOK(k) ==
    /\ pc[k] \in {"idle", "register"} => /\ ~Waits(k) /\ ~Holds(k)
                                         /\ response[k] = None /\ k \notin shut
    /\ pc[k] \in {"lock", "write", "select"} => Waits(k) \/ Holds(k) \/ response[k] # None
    /\ pc[k] # "done" => got[k] = None
    /\ Waits(k) => ~Holds(k) /\ response[k] = None /\ k \notin shut
    /\ Holds(k) => k \notin shut
    /\ Holds(k) /\ reader.at = "deliver" => response[k] = None
    /\ Holds(k) /\ reader.at = "close" /\ pc[k] # "done" => response[k] # None
    /\ k \in shut /\ pc[k] # "done" => response[k] # None
ChannelInv == \A k \in Calls : ChannelOK(k)

ReplyInv == /\ Elements(toCoordinator) \subseteq served
            /\ \A k \in Calls :
                  /\ Holds(k) => reader.msg \in served /\ reader.msg.id = id[k]
                  /\ response[k] # None => response[k] \in served /\ response[k].id = id[k]

IInv == TypeOK /\ IdInv /\ NoPendingLeak /\ ChannelInv /\ ReplyInv /\ ReplyIsMine

LEMMA SafeInitially == Init => IInv
<1> SUFFICES ASSUME Init PROVE IInv
  OBVIOUS
<1>1. TypeOK
  BY TypeInitially
<1>2. IdInv /\ NoPendingLeak /\ ReplyIsMine
  BY DEF Init, IdInv, NoPendingLeak, ReplyIsMine
<1>3. reader.at = "ackLock"
  BY DEF Init, At
<1>4. ChannelInv
  BY <1>3 DEF Init, ChannelInv, ChannelOK, Waits, Holds
<1>5. Elements(toCoordinator) = {}
  BY DEF Init, Elements
<1>6. ReplyInv
  BY <1>3, <1>5 DEF Init, ReplyInv, Holds
<1> QED
  BY <1>1, <1>2, <1>4, <1>6 DEF IInv

(* The steps that touch no call, no channel and no reply.                   *)
Elsewhere == \/ AckLock \/ AckWrite \/ Close \/ WorkerTakesAck \/ WorkerDecodes
             \/ LinkLost \/ UNCHANGED vars \/ ReaderStops

LEMMA ElsewhereFrame ==
  ASSUME TypeOK, Elsewhere
  PROVE  /\ UNCHANGED <<requestSequence, pc, id, got, pending, response, shut, served>>
         /\ \A k \in Calls : ~Holds(k)' \/ UNCHANGED reader
         /\ (\A k \in Calls : ~Holds(k)) \/ UNCHANGED reader
         /\ Elements(toCoordinator') \subseteq Elements(toCoordinator)
<1> USE DEF Holds, TypeOK
<1>1. CASE AckLock
  BY <1>1 DEF AckLock, At
<1>2. CASE AckWrite
  BY <1>2 DEF AckWrite, At
<1>3. CASE Close
  BY <1>3 DEF Close
<1>4. CASE WorkerTakesAck
  BY <1>4 DEF WorkerTakesAck
<1>5. CASE WorkerDecodes
  BY <1>5 DEF WorkerDecodes
<1>6. CASE LinkLost
  <2>1. Elements(toCoordinator') \subseteq Elements(toCoordinator)
    BY <1>6, PrefixFacts DEF LinkLost
  <2> QED
    BY <1>6, <2>1 DEF LinkLost
<1>7. CASE UNCHANGED vars
  BY <1>7 DEF vars
<1>8. CASE ReaderStops
  BY <1>8 DEF ReaderStops, At
<1> QED
  BY <1>1, <1>2, <1>3, <1>4, <1>5, <1>6, <1>7, <1>8 DEF Elsewhere

LEMMA IdPreserved == TypeOK /\ IdInv /\ [Next]_vars => IdInv'
<1> SUFFICES ASSUME TypeOK, IdInv, [Next]_vars PROVE IdInv'
  OBVIOUS
<1> USE DEF IdInv
<1>1. ASSUME NEW k \in Calls, Begin(k) PROVE IdInv'
  BY <1>1 DEF Begin, NextId, TypeOK
<1>2. ASSUME NEW k \in Calls, Register(k) \/ LockWriter(k) \/ Write(k) \/ WriteFails(k)
                              \/ Receive(k) \/ GiveUp(k) \/ Disconnected(k)
      PROVE  IdInv'
  BY <1>2 DEF Register, LockWriter, Write, WriteFails, Receive, GiveUp, Disconnected, Return, TypeOK
<1>3. CASE ReaderTakes \/ ReaderDelivers \/ ReaderCloses \/ \E n \in jobs : WorkerAnswers(n)
  BY <1>3 DEF ReaderTakes, ReaderDelivers, ReaderCloses, WorkerAnswers
<1>4. CASE Elsewhere
  BY <1>4, ElsewhereFrame
<1> QED
  BY <1>1, <1>2, <1>3, <1>4 DEF Next, Call, Elsewhere

LEMMA PendingPreserved ==
  TypeOK /\ NoPendingLeak /\ ChannelInv /\ [Next]_vars => NoPendingLeak'
<1> SUFFICES ASSUME TypeOK, NoPendingLeak, ChannelInv, [Next]_vars PROVE NoPendingLeak'
  OBVIOUS
<1> USE DEF NoPendingLeak, TypeOK
<1>1. ASSUME NEW k \in Calls, Begin(k) PROVE NoPendingLeak'
  BY <1>1 DEF Begin
<1>2. ASSUME NEW k \in Calls, Register(k) PROVE NoPendingLeak'
  BY <1>2 DEF Register
<1>3. ASSUME NEW k \in Calls, LockWriter(k) \/ Write(k) PROVE NoPendingLeak'
  BY <1>3 DEF LockWriter, Write
<1>4. ASSUME NEW k \in Calls, WriteFails(k) \/ GiveUp(k) \/ Disconnected(k) PROVE NoPendingLeak'
<2>1. /\ pc' = [pc EXCEPT ![k] = "done"]
      /\ pending' = {p \in pending : p[1] # id[k]}
      /\ UNCHANGED id
  BY <1>4 DEF WriteFails, GiveUp, Disconnected, Return, removePending
<2>2. ASSUME NEW p \in pending' PROVE p \in pending /\ p[2] # k
  BY <2>1
<2> QED
  BY <2>1, <2>2
<1>5. ASSUME NEW k \in Calls, Receive(k) PROVE NoPendingLeak'
<2>1. ~Waits(k)
  BY <1>5 DEF Receive, ChannelInv, ChannelOK
<2>2. ASSUME NEW p \in pending PROVE p[2] # k
  <3>1. p = <<p[1], p[2]>> /\ id[p[2]] = p[1]
    OBVIOUS
  <3> QED
    BY <2>1, <3>1 DEF Waits
<2> QED
  BY <1>5, <2>2 DEF Receive
<1>6. CASE ReaderTakes
  BY <1>6 DEF ReaderTakes
<1>7. CASE ReaderDelivers \/ ReaderCloses \/ \E n \in jobs : WorkerAnswers(n)
  BY <1>7 DEF ReaderDelivers, ReaderCloses, WorkerAnswers
<1>8. CASE Elsewhere
  BY <1>8, ElsewhereFrame
<1> QED
  BY <1>1, <1>2, <1>3, <1>4, <1>5, <1>6, <1>7, <1>8 DEF Next, Call, Elsewhere

(* A step of call k leaves the channel of every other call where it is.     *)
LEMMA OthersUndisturbed ==
  ASSUME TypeOK, IdInv, NEW k \in Calls, NEW l \in Calls, l # k, ChannelOK(l),
         pc'[l] = pc[l], id'[l] = id[l], response'[l] = response[l], got'[l] = got[l],
         UNCHANGED <<reader, shut>>,
         Waits(l)' <=> Waits(l)
  PROVE  ChannelOK(l)'
  BY DEF ChannelOK, Holds

LEMMA ChannelPreserved ==
  TypeOK /\ IdInv /\ NoPendingLeak /\ ChannelInv /\ [Next]_vars => ChannelInv'
<1> SUFFICES ASSUME TypeOK, IdInv, NoPendingLeak, ChannelInv, [Next]_vars,
                    NEW l \in Calls
             PROVE  ChannelOK(l)'
  BY DEF ChannelInv
<1>0. ChannelOK(l)
  BY DEF ChannelInv
<1>1. ASSUME NEW k \in Calls, Begin(k) PROVE ChannelOK(l)'
  <2>1. CASE l = k
    <3>1. ASSUME NEW p \in pending PROVE p[2] # k
      BY <1>1 DEF Begin, NoPendingLeak, TypeOK
    <3>2. \A n : <<n, k>> \notin pending
      BY <3>1
    <3> QED
      BY <1>0, <1>1, <2>1, <3>2 DEF Begin, ChannelOK, Waits, Holds, TypeOK
  <2>2. CASE l # k
    BY <1>0, <1>1, <2>2, OthersUndisturbed DEF Begin, Waits, TypeOK
  <2> QED
    BY <2>1, <2>2
<1>2. ASSUME NEW k \in Calls, Register(k) PROVE ChannelOK(l)'
  <2>1. CASE l = k
    BY <1>0, <1>2, <2>1 DEF Register, ChannelOK, Waits, Holds, TypeOK
  <2>2. CASE l # k
    <3>1. id[l] = id[k] => ~Waits(l)
      BY <2>2, <1>2 DEF IdInv, Register, Waits, TypeOK
    <3>2. Waits(l)' <=> Waits(l)
      BY <1>2, <2>2, <3>1 DEF Register, Waits, TypeOK
    <3> QED
      BY <1>0, <1>2, <2>2, <3>2, OthersUndisturbed DEF Register, TypeOK
  <2> QED
    BY <2>1, <2>2
<1>3. ASSUME NEW k \in Calls, LockWriter(k) \/ Write(k) PROVE ChannelOK(l)'
  <2>1. /\ pc[k] \in {"lock", "write"}
        /\ \E c \in {"write", "select"} : pc' = [pc EXCEPT ![k] = c]
        /\ UNCHANGED <<id, got, pending, response, shut, reader>>
    BY <1>3 DEF LockWriter, Write
  <2>2. pc'[l] = pc[l] \/ (pc[l] \in {"lock", "write"} /\ pc'[l] \in {"write", "select"})
    BY <2>1 DEF TypeOK
  <2> QED
    BY <1>0, <2>1, <2>2 DEF ChannelOK, Waits, Holds
<1>4. ASSUME NEW k \in Calls, WriteFails(k) \/ GiveUp(k) \/ Disconnected(k) PROVE ChannelOK(l)'
  <2>1. /\ pc[k] \in {"write", "select"}
        /\ pc' = [pc EXCEPT ![k] = "done"]
        /\ pending' = {p \in pending : p[1] # id[k]}
        /\ UNCHANGED <<id, got, response, shut, reader>>
    BY <1>4 DEF WriteFails, GiveUp, Disconnected, Return, removePending
  <2>2. CASE l = k
    BY <1>0, <2>1, <2>2 DEF ChannelOK, Waits, Holds, TypeOK
  <2>3. CASE l # k
    <3>1. id[k] # id[l]
      BY <2>1, <2>3 DEF IdInv, TypeOK
    <3>2. Waits(l)' <=> Waits(l)
      BY <2>1, <3>1 DEF Waits
    <3> QED
      BY <1>0, <2>1, <2>3, <3>2, OthersUndisturbed DEF TypeOK
  <2> QED
    BY <2>2, <2>3
<1>5. ASSUME NEW k \in Calls, Receive(k) PROVE ChannelOK(l)'
  <2>1. CASE l = k
    BY <1>0, <1>5, <2>1 DEF Receive, ChannelOK, Waits, Holds, TypeOK
  <2>2. CASE l # k
    BY <1>0, <1>5, <2>2, OthersUndisturbed DEF Receive, Waits, TypeOK
  <2> QED
    BY <2>1, <2>2
<1>6. CASE ReaderTakes
  <2> DEFINE m == Head(toCoordinator)
  <2>1. CASE Waiting(m) = {}
    BY <1>0, <1>6, <2>1 DEF ReaderTakes, ChannelOK, Waits, Holds
  <2>2. ASSUME NEW k \in Calls, <<m.id, k>> \in pending,
               pending' = {p \in pending : p[1] # m.id},
               reader' = [at |-> "deliver", to |-> k, msg |-> m]
        PROVE  ChannelOK(l)'
    <3>1. id[k] = m.id /\ Waits(k) /\ pc[k] \in {"lock", "write", "select"}
      BY <2>2 DEF NoPendingLeak, Waits
    <3>2. reader.at = "decode" /\ \A j \in Calls : ~Holds(j)
      BY <1>6 DEF ReaderTakes, Holds
    <3>3. UNCHANGED <<pc, id, got, response, shut>>
      BY <1>6 DEF ReaderTakes
    <3>4. CASE l = k
      BY <1>0, <2>2, <3>1, <3>2, <3>3, <3>4 DEF ChannelOK, Waits, Holds
    <3>5. CASE l # k
      <4>1. id[l] # id[k]
        BY <3>1, <3>5 DEF IdInv, TypeOK
      <4>2. (Waits(l)' <=> Waits(l)) /\ ~Holds(l)'
        BY <2>2, <3>1, <3>3, <3>5, <4>1 DEF Waits, Holds
      <4> QED
        BY <1>0, <3>2, <3>3, <4>2 DEF ChannelOK
    <3> QED
      BY <3>4, <3>5
  <2> QED
    BY <1>6, <2>1, <2>2 DEF ReaderTakes, Waiting
<1>7. CASE ReaderDelivers
  <2>1. reader.to \in Calls
    BY <1>7 DEF ReaderDelivers, TypeOK
  <2>2. reader.msg # None
    BY <1>7, NoneNotReply DEF ReaderDelivers, TypeOK
  <2>3. reader' = [reader EXCEPT !.at = "close"]
    BY <1>7 DEF ReaderDelivers
  <2>4. reader'.at = "close" /\ reader'.to = reader.to
    BY <2>3 DEF TypeOK
  <2> QED
    BY <1>0, <1>7, <2>1, <2>2, <2>4 DEF ReaderDelivers, ChannelOK, Waits, Holds, TypeOK
<1>8. CASE ReaderCloses
  <2>1. ~Holds(l)'
    BY <1>8 DEF ReaderCloses, At, Holds
  <2> QED
    BY <1>0, <1>8, <2>1 DEF ReaderCloses, ChannelOK, Waits, Holds
<1>9. ASSUME NEW n \in jobs, WorkerAnswers(n) PROVE ChannelOK(l)'
  BY <1>0, <1>9 DEF WorkerAnswers, ChannelOK, Waits, Holds
<1>10. CASE Elsewhere
  <2>1. UNCHANGED <<requestSequence, pc, id, got, pending, response, shut>>
    BY <1>10, ElsewhereFrame
  <2>2. UNCHANGED reader \/ (~Holds(l) /\ ~Holds(l)')
    BY <1>10, ElsewhereFrame
  <2> QED
    BY <1>0, <2>1, <2>2 DEF ChannelOK, Waits, Holds
<1> QED
  BY <1>1, <1>2, <1>3, <1>4, <1>5, <1>6, <1>7, <1>8, <1>9, <1>10 DEF Next, Call, Elsewhere

LEMMA ReplyPreserved == IInv /\ [Next]_vars => ReplyInv' /\ ReplyIsMine'
<1> SUFFICES ASSUME TypeOK, NoPendingLeak, ChannelInv, ReplyInv, ReplyIsMine, [Next]_vars
             PROVE  ReplyInv' /\ ReplyIsMine'
  BY DEF IInv
<1> USE DEF ReplyInv, ReplyIsMine
<1>1. ASSUME NEW k \in Calls, Begin(k) PROVE ReplyInv' /\ ReplyIsMine'
  <2>1. ~Holds(k) /\ response[k] = None /\ got[k] = None
    BY <1>1 DEF Begin, ChannelInv, ChannelOK
  <2> QED
    BY <1>1, <2>1 DEF Begin, Holds, TypeOK
<1>2. ASSUME NEW k \in Calls, Register(k) \/ LockWriter(k) \/ Write(k) \/ WriteFails(k)
                              \/ GiveUp(k) \/ Disconnected(k)
      PROVE  ReplyInv' /\ ReplyIsMine'
  <2>1. UNCHANGED <<id, got, response, reader, served, toCoordinator>>
    BY <1>2 DEF Register, LockWriter, Write, WriteFails, GiveUp, Disconnected, Return
  <2> QED
    BY <2>1 DEF Holds
<1>3. ASSUME NEW k \in Calls, Receive(k) PROVE ReplyInv' /\ ReplyIsMine'
  <2>1. response[k] # None
    BY <1>3 DEF Receive, ChannelInv, ChannelOK
  <2> QED
    BY <1>3, <2>1 DEF Receive, Holds, TypeOK
<1>4. CASE ReaderTakes
  <2>1. /\ Head(toCoordinator) \in served
        /\ Elements(toCoordinator') \subseteq served
    BY <1>4, TailFacts DEF ReaderTakes, TypeOK
  <2>2. UNCHANGED <<id, got, response, served>>
    BY <1>4 DEF ReaderTakes
  <2>3. UNCHANGED reader \/ \E k \in Calls :
                                 /\ reader' = [at |-> "deliver", to |-> k, msg |-> Head(toCoordinator)]
                                 /\ Head(toCoordinator).id = id[k]
    BY <1>4 DEF ReaderTakes, Waiting, NoPendingLeak
  <2> QED
    BY <2>1, <2>2, <2>3 DEF Holds
<1>5. CASE ReaderDelivers
  <2>1. reader.to \in Calls /\ Holds(reader.to)
    BY <1>5 DEF ReaderDelivers, TypeOK, Holds
  <2>2. reader' = [reader EXCEPT !.at = "close"]
    BY <1>5 DEF ReaderDelivers
  <2>3. reader'.at = "close" /\ reader'.to = reader.to /\ reader'.msg = reader.msg
    BY <2>2 DEF TypeOK
  <2>4. \A k \in Calls : Holds(k)' => Holds(k)
    BY <2>1, <2>3 DEF Holds
  <2> QED
    BY <1>5, <2>1, <2>3, <2>4 DEF ReaderDelivers, TypeOK
<1>6. CASE ReaderCloses
  <2>1. \A k \in Calls : ~Holds(k)'
    BY <1>6 DEF ReaderCloses, At, Holds
  <2> QED
    BY <1>6, <2>1 DEF ReaderCloses
<1>7. ASSUME NEW n \in jobs, WorkerAnswers(n) PROVE ReplyInv' /\ ReplyIsMine'
  <2>1. PICK ok \in BOOLEAN : LET r == [id |-> n, ok |-> ok]
                            IN  /\ served' = served \cup {r}
                                /\ toCoordinator' = IF closed THEN toCoordinator
                                                    ELSE Append(toCoordinator, r)
    BY <1>7 DEF WorkerAnswers
  <2>2. [id |-> n, ok |-> ok] \in Replies
    BY <1>7 DEF Replies, TypeOK
  <2>3. Elements(toCoordinator') \subseteq Elements(toCoordinator) \cup {[id |-> n, ok |-> ok]}
    BY <2>1, <2>2, AppendFacts DEF TypeOK
  <2>4. UNCHANGED <<id, got, response, reader>> /\ served \subseteq served'
    BY <1>7, <2>1 DEF WorkerAnswers
  <2> QED
    BY <2>1, <2>3, <2>4 DEF Holds
<1>8. CASE Elsewhere
  <2>1. /\ UNCHANGED <<id, got, response, served>>
        /\ Elements(toCoordinator') \subseteq Elements(toCoordinator)
    BY <1>8, ElsewhereFrame
  <2>2. UNCHANGED reader \/ \A k \in Calls : ~Holds(k)'
    BY <1>8, ElsewhereFrame
  <2> QED
    BY <2>1, <2>2 DEF Holds
<1> QED
  BY <1>1, <1>2, <1>3, <1>4, <1>5, <1>6, <1>7, <1>8 DEF Next, Call, Elsewhere

LEMMA SafetyPreserved == IInv /\ [Next]_vars => IInv'
  BY TypePreserved, IdPreserved, PendingPreserved, ChannelPreserved, ReplyPreserved DEF IInv

THEOREM Invariance == Spec => []IInv
  BY SafeInitially, SafetyPreserved, PTL DEF Spec

(* What a call returns is the worker's answer to its own request.           *)
THEOREM ReplyIsMineHolds == Spec => []ReplyIsMine
<1>1. IInv => ReplyIsMine
  BY DEF IInv
<1> QED
  BY <1>1, Invariance, PTL

(* No exit of call leaks an entry of pending.                               *)
THEOREM NoPendingLeakHolds == Spec => []NoPendingLeak
<1>1. IInv => NoPendingLeak
  BY DEF IInv
<1> QED
  BY <1>1, Invariance, PTL

(* The readLoop neither blocks on nor panics at its channel send.           *)
THEOREM ReadLoopNeverBlocksHolds == Spec => []ReadLoopNeverBlocks
<1>1. IInv => ReadLoopNeverBlocks
  <2> SUFFICES ASSUME IInv, reader.at = "deliver" PROVE Room(reader.to) /\ reader.to \notin shut
    BY DEF ReadLoopNeverBlocks
  <2>1. reader.to \in Calls /\ Holds(reader.to)
    BY DEF IInv, TypeOK, Holds
  <2> QED
    BY <2>1 DEF IInv, ChannelInv, ChannelOK, Room
<1> QED
  BY <1>1, Invariance, PTL

(* A waiting call can always be reached by its answer, along one path.      *)
THEOREM WaiterReachableHolds == Spec => []WaiterReachable
<1>1. IInv => WaiterReachable
  <2> SUFFICES ASSUME IInv, NEW k \in Calls, pc[k] = "select"
               PROVE  \E place \in {"pending", "reader", "channel"} : Places(k) = {place}
    BY DEF WaiterReachable
  <2>1. ChannelOK(k)
    BY DEF IInv, ChannelInv
  <2>2. CASE Waits(k)
    BY <2>1, <2>2 DEF ChannelOK, Places, Waits, Holds
  <2>3. CASE Holds(k) /\ reader.at = "deliver"
    BY <2>1, <2>3 DEF ChannelOK, Places, Waits, Holds
  <2>4. CASE ~Waits(k) /\ ~(Holds(k) /\ reader.at = "deliver")
    BY <2>1, <2>4 DEF ChannelOK, Places, Waits, Holds
  <2> QED
    BY <2>2, <2>3, <2>4
<1> QED
  BY <1>1, Invariance, PTL

-----------------------------------------------------------------------------
(***************************************************************************)
(* The connection implements CallContract.  Beyond IInv this depends on a  *)
(* request being on its way only once: a request id is in the socket, in   *)
(* the hands of a goroutine of the worker, or answered, and it was sent by *)
(* a call that is past its write.                                          *)
(***************************************************************************)
Sent(n) == \E k \in Calls : id[k] = n /\ pc[k] \in {"select", "done"}
Answered(n) == \E r \in served : r.id = n

OnceInv ==
    /\ \A i, j \in 1 .. Len(toWorker) : toWorker[i] = toWorker[j] /\ toWorker[i] # Ack => i = j
    /\ \A n \in Elements(toWorker) \ {Ack} : Sent(n) /\ n \notin jobs /\ ~Answered(n)
    /\ \A n \in jobs \ {Ack} : Sent(n) /\ ~Answered(n)
    /\ \A r \in served : IF r.id = Ack THEN ~r.ok ELSE Sent(r.id)

(* What a call has sent stays sent.                                         *)
LEMMA SentKept == ASSUME TypeOK, [Next]_vars PROVE \A n : Sent(n) => Sent(n)'
<1> SUFFICES ASSUME NEW l \in Calls, pc[l] \in {"select", "done"}
             PROVE  pc'[l] \in {"select", "done"} /\ id'[l] = id[l]
  BY DEF Sent
<1>1. ASSUME NEW k \in Calls, Begin(k) \/ Register(k) \/ LockWriter(k) \/ Write(k) \/ WriteFails(k)
                              \/ Receive(k) \/ GiveUp(k) \/ Disconnected(k)
      PROVE  pc'[l] \in {"select", "done"} /\ id'[l] = id[l]
  BY <1>1 DEF Begin, Register, LockWriter, Write, WriteFails, Receive, GiveUp, Disconnected, Return,
              TypeOK
<1>2. CASE ReaderTakes \/ ReaderDelivers \/ ReaderCloses \/ \E n \in jobs : WorkerAnswers(n)
  BY <1>2 DEF ReaderTakes, ReaderDelivers, ReaderCloses, WorkerAnswers
<1>3. CASE Elsewhere
  BY <1>3, ElsewhereFrame
<1> QED
  BY <1>1, <1>2, <1>3 DEF Next, Call, Elsewhere

(* Steps that send nothing and answer nothing; they may lose what is on its way. *)
LEMMA OnceKept ==
  ASSUME OnceInv, \A n : Sent(n) => Sent(n)',
         toWorker' \in {toWorker, <<>>}, jobs' \subseteq jobs, UNCHANGED served
  PROVE  OnceInv'
<1>1. \A n : Answered(n)' <=> Answered(n)
  BY DEF Answered
<1>2. CASE toWorker' = toWorker
  BY <1>1, <1>2 DEF OnceInv
<1>3. CASE toWorker' = <<>>
  <2>1. 1 .. Len(toWorker') = {}
    BY <1>3
  <2>2. Elements(toWorker') = {}
    BY <2>1 DEF Elements
  <2> QED
    BY <1>1, <2>1, <2>2 DEF OnceInv
<1> QED
  BY <1>2, <1>3

(* A write sends a request that was not sent before.                        *)
LEMMA WriteOnce ==
  ASSUME IInv, OnceInv, \A n : Sent(n) => Sent(n)', NEW m \in Nat, m = Ack \/ ~Sent(m),
         m # Ack => Sent(m)', toWorker' = Append(toWorker, m), UNCHANGED <<jobs, served>>
  PROVE  OnceInv'
<1>1. /\ toWorker \in Seq(Nat) /\ Len(toWorker) \in Nat /\ Len(toWorker') = Len(toWorker) + 1
      /\ \A i \in 1 .. Len(toWorker) : toWorker'[i] = toWorker[i]
      /\ toWorker'[Len(toWorker) + 1] = m
      /\ Elements(toWorker') = Elements(toWorker) \cup {m}
  <2>1. toWorker \in Seq(Nat) /\ Len(toWorker) \in Nat
    BY DEF IInv, TypeOK
  <2> QED
    BY <2>1, AppendFacts
<1>2. \A i \in 1 .. Len(toWorker') : i \in 1 .. Len(toWorker) \/ i = Len(toWorker) + 1
  BY <1>1
<1>3. \A n : Answered(n)' <=> Answered(n)
  BY DEF Answered
<1>4. ~Sent(m) => m \notin jobs \ {Ack} /\ (m # Ack => ~Answered(m))
  BY DEF OnceInv, Answered
<1>5. \A i \in 1 .. Len(toWorker) : toWorker[i] = m => m = Ack
  BY DEF OnceInv, Elements
<1>6. ASSUME NEW i \in 1 .. Len(toWorker'), NEW j \in 1 .. Len(toWorker'),
             toWorker'[i] = toWorker'[j], toWorker'[i] # Ack
      PROVE  i = j
  <2>1. CASE i \in 1 .. Len(toWorker) /\ j \in 1 .. Len(toWorker)
    BY <1>1, <1>6, <2>1 DEF OnceInv
  <2>2. CASE i = Len(toWorker) + 1 \/ j = Len(toWorker) + 1
    BY <1>1, <1>2, <1>5, <1>6, <2>2
  <2> QED
    BY <1>2, <1>6, <2>1, <2>2
<1>7. \A n \in Elements(toWorker') \ {Ack} : Sent(n)' /\ n \notin jobs' /\ ~Answered(n)'
  BY <1>1, <1>3, <1>4 DEF OnceInv
<1>8. /\ \A n \in jobs' \ {Ack} : Sent(n)' /\ ~Answered(n)'
      /\ \A r \in served' : IF r.id = Ack THEN ~r.ok ELSE Sent(r.id)'
  BY <1>3 DEF OnceInv
<1> QED
  BY <1>6, <1>7, <1>8 DEF OnceInv

(* The worker decodes a message: as the ack, or to serve it.                *)
LEMMA DecodeOnce ==
  ASSUME IInv, OnceInv, \A n : Sent(n) => Sent(n)', toWorker # <<>>,
         toWorker' = Tail(toWorker), jobs' \subseteq jobs \cup {Head(toWorker)}, UNCHANGED served
  PROVE  OnceInv'
<1>1. /\ Len(toWorker) \in Nat \ {0} /\ Len(toWorker') = Len(toWorker) - 1
      /\ Head(toWorker) = toWorker[1]
      /\ \A i \in 1 .. Len(toWorker') : toWorker'[i] = toWorker[i + 1]
  BY TailFacts DEF IInv, TypeOK
<1>2. \A i \in 1 .. Len(toWorker') : i + 1 \in 1 .. Len(toWorker) /\ i + 1 # 1 /\ i \in Nat
  BY <1>1
<1>3. 1 \in 1 .. Len(toWorker)
  BY <1>1
<1>4. \A n : Answered(n)' <=> Answered(n)
  BY DEF Answered
<1>5. \A i, j \in 1 .. Len(toWorker') : toWorker'[i] = toWorker'[j] /\ toWorker'[i] # Ack => i = j
  BY <1>1, <1>2 DEF OnceInv
<1>6. \A i \in 1 .. Len(toWorker') : toWorker'[i] # Ack => toWorker'[i] # toWorker[1]
  BY <1>1, <1>2, <1>3, Zenon DEF OnceInv
<1>7. \A n \in Elements(toWorker') \ {Ack} : Sent(n)' /\ n \notin jobs' /\ ~Answered(n)'
  <2>1. Elements(toWorker') \subseteq Elements(toWorker)
    BY TailFacts DEF IInv, TypeOK
  <2>2. \A n \in Elements(toWorker') \ {Ack} : n # Head(toWorker)
    BY <1>1, <1>6 DEF Elements
  <2> QED
    BY <1>4, <2>1, <2>2 DEF OnceInv
<1>8. \A n \in jobs' \ {Ack} : Sent(n)' /\ ~Answered(n)'
  BY <1>1, <1>3, <1>4 DEF OnceInv, Elements
<1>9. \A r \in served' : IF r.id = Ack THEN ~r.ok ELSE Sent(r.id)'
  BY DEF OnceInv
<1> QED
  BY <1>5, <1>7, <1>8, <1>9 DEF OnceInv

(* A goroutine of the worker answers what it was given, and ends.           *)
LEMMA AnswerOnce ==
  ASSUME IInv, OnceInv, \A n : Sent(n) => Sent(n)', NEW m \in jobs, WorkerAnswers(m)
  PROVE  OnceInv'
<1>1. jobs' = jobs \ {m} /\ toWorker' = toWorker /\ m \in Nat
  BY DEF WorkerAnswers, IInv, TypeOK
<1>2. PICK ok \in BOOLEAN : served' = served \cup {[id |-> m, ok |-> ok]} /\ (m = Ack => ~ok)
  BY DEF WorkerAnswers
<1>3. ASSUME NEW n, Answered(n)' PROVE Answered(n) \/ n = m
  <2>1. PICK r \in served' : r.id = n
    BY <1>3 DEF Answered
  <2>2. r \in served \/ r = [id |-> m, ok |-> ok]
    BY <1>2
  <2> QED
    BY <2>1, <2>2 DEF Answered
<1>4. m # Ack => m \notin Elements(toWorker)
  BY DEF OnceInv
<1>5. \A n \in Elements(toWorker') \ {Ack} : Sent(n)' /\ n \notin jobs' /\ ~Answered(n)'
  BY <1>1, <1>3, <1>4 DEF OnceInv
<1>6. \A n \in jobs' \ {Ack} : Sent(n)' /\ ~Answered(n)'
  BY <1>1, <1>3 DEF OnceInv
<1>7. \A r \in served' : IF r.id = Ack THEN ~r.ok ELSE Sent(r.id)'
  BY <1>2 DEF OnceInv
<1>8. \A i, j \in 1 .. Len(toWorker') : toWorker'[i] = toWorker'[j] /\ toWorker'[i] # Ack => i = j
  BY <1>1 DEF OnceInv
<1> QED
  BY <1>5, <1>6, <1>7, <1>8 DEF OnceInv

LEMMA OncePreserved == IInv /\ OnceInv /\ [Next]_vars => OnceInv'
<1> SUFFICES ASSUME IInv, OnceInv, [Next]_vars PROVE OnceInv'
  OBVIOUS
<1>0. TypeOK /\ \A n : Sent(n) => Sent(n)'
  BY SentKept DEF IInv
<1>1. ASSUME NEW k \in Calls, Write(k) PROVE OnceInv'
  <2>1. id[k] \in Nat \ {0} /\ ~Sent(id[k])
    BY <1>1 DEF IInv, TypeOK, IdInv, Write, Sent
  <2>2. PICK m \in Nat : m = id[k]
    BY <2>1
  <2>3. Sent(m)'
    BY <1>0, <1>1, <2>2 DEF Write, Sent, TypeOK
  <2>4. CASE toWorker' = toWorker
    BY <1>0, <1>1, <2>4, OnceKept DEF Write
  <2>5. CASE toWorker' = Append(toWorker, m)
    BY <1>0, <1>1, <2>1, <2>2, <2>3, <2>5, WriteOnce DEF Write
  <2> QED
    BY <1>1, <2>2, <2>4, <2>5 DEF Write, Deliverable
<1>2. CASE AckWrite
  <2>1. toWorker' \in {toWorker, Append(toWorker, Ack)} /\ UNCHANGED <<jobs, served>>
    BY <1>2 DEF AckWrite, Deliverable
  <2>2. Ack \in Nat
    BY DEF Ack
  <2> QED
    BY <1>0, <2>1, <2>2, WriteOnce, OnceKept
<1>3. CASE WorkerTakesAck \/ WorkerDecodes
  BY <1>0, <1>3, DecodeOnce DEF WorkerTakesAck, WorkerDecodes
<1>4. ASSUME NEW n \in jobs, WorkerAnswers(n) PROVE OnceInv'
  BY <1>0, <1>4, AnswerOnce
<1>5. ASSUME NEW k \in Calls, Begin(k) \/ Register(k) \/ LockWriter(k) \/ WriteFails(k)
                              \/ Receive(k) \/ GiveUp(k) \/ Disconnected(k)
      PROVE  OnceInv'
  <2>1. UNCHANGED <<toWorker, jobs, served>>
    BY <1>5 DEF Begin, Register, LockWriter, WriteFails, Receive, GiveUp, Disconnected, Return
  <2> QED
    BY <1>0, <2>1, OnceKept
<1>6. CASE AckLock \/ ReaderTakes \/ ReaderDelivers \/ ReaderCloses \/ ReaderStops \/ Close
             \/ LinkLost \/ UNCHANGED vars
  <2>1. toWorker' \in {toWorker, <<>>} /\ jobs' \subseteq jobs /\ UNCHANGED served
    BY <1>6 DEF AckLock, ReaderTakes, ReaderDelivers, ReaderCloses, ReaderStops, Close, LinkLost, vars
  <2> QED
    BY <1>0, <2>1, OnceKept
<1> QED
  BY <1>1, <1>2, <1>3, <1>4, <1>5, <1>6 DEF Next, Call

(* The steps of the contract, in terms of what one call sees change.        *)
LEMMA ContractStep ==
  ASSUME NEW k \in Calls, \A j \in Calls : j # k => Status(j)' = Status(j),
         \A j \in Calls : j # k => AnswerTo(j)' = AnswerTo(j),
         \/ Status(k) = "idle" /\ Status(k)' = "running" /\ AnswerTo(k)' = AnswerTo(k)
         \/ Status(k) = "running" /\ Status(k)' = "failed" /\ AnswerTo(k)' = AnswerTo(k)
         \/ Status(k) = "running" /\ Status(k)' = "ok" /\ AnswerTo(k)' = AnswerTo(k)
                /\ AnswerTo(k) = "ok"
         \/ Status(k) # "idle" /\ Status(k)' = Status(k) /\ AnswerTo(k) = "none"
                /\ AnswerTo(k)' \in {"ok", "error"}
  PROVE  Contract!Next
<1> DEFINE status == [j \in Calls |-> Status(j)]
           answer == [j \in Calls |-> AnswerTo(j)]
<1>1. /\ status[k] = Status(k) /\ answer[k] = AnswerTo(k)
      /\ status' = [status EXCEPT ![k] = Status(k)'] /\ answer' = [answer EXCEPT ![k] = AnswerTo(k)']
  OBVIOUS
<1>2. /\ AnswerTo(k)' = AnswerTo(k) => answer' = answer
      /\ Status(k)' = Status(k) => status' = status
  OBVIOUS
<1> HIDE DEF status, answer
<1>3. CASE Status(k) = "idle" /\ Status(k)' = "running" /\ AnswerTo(k)' = AnswerTo(k)
  <2>1. Contract!Begin(k)
    BY <1>1, <1>2, <1>3 DEF Contract!Begin, status, answer
  <2> QED
    BY <2>1 DEF Contract!Next
<1>4. CASE Status(k) = "running" /\ Status(k)' = "failed" /\ AnswerTo(k)' = AnswerTo(k)
  <2>1. Contract!Fail(k)
    BY <1>1, <1>2, <1>4 DEF Contract!Fail, status, answer
  <2> QED
    BY <2>1 DEF Contract!Next
<1>5. CASE Status(k) = "running" /\ Status(k)' = "ok" /\ AnswerTo(k)' = AnswerTo(k) /\ AnswerTo(k) = "ok"
  <2>1. Contract!Succeed(k)
    BY <1>1, <1>2, <1>5 DEF Contract!Succeed, status, answer
  <2> QED
    BY <2>1 DEF Contract!Next
<1>6. CASE Status(k) # "idle" /\ Status(k)' = Status(k) /\ AnswerTo(k) = "none"
              /\ AnswerTo(k)' \in {"ok", "error"}
  <2>1. Contract!Answer(k)
    BY <1>1, <1>2, <1>6 DEF Contract!Answer, status, answer
  <2> QED
    BY <2>1 DEF Contract!Next
<1> QED
  BY <1>3, <1>4, <1>5, <1>6

(* Steps that neither start nor end a call, nor answer one, are stutters.   *)
LEMMA ContractStutters ==
  ASSUME \A j \in Calls : Status(j)' = Status(j) /\ AnswerTo(j)' = AnswerTo(j)
  PROVE  UNCHANGED Contract!vars
BY DEF Contract!vars

LEMMA ContractInitially == Init => Contract!Init
<1> SUFFICES ASSUME Init PROVE Contract!Init
  OBVIOUS
<1>1. \A k \in Calls : Status(k) = "idle" /\ AnswerTo(k) = "none"
  BY DEF Init, Status, AnswerTo
<1> QED
  BY <1>1 DEF Contract!Init

(* What the worker has answered to a call, by request id.                   *)
LEMMA AnswersGrow ==
  ASSUME IInv, NEW k \in Calls, id'[k] = id[k], NEW m \in jobs, NEW ok \in BOOLEAN,
         served' = served \cup {[id |-> m, ok |-> ok]}
  PROVE  /\ id[k] # m => AnswerTo(k)' = AnswerTo(k)
         /\ id[k] = m /\ m # Ack => AnswerTo(k)' \in {"ok", "error"}
BY DEF AnswerTo

\* A request id that was never drawn has no answer.
LEMMA NoEarlyAnswer ==
  ASSUME IInv, OnceInv, NEW n, n = Ack \/ (n \in Nat /\ n > requestSequence)
  PROVE  [id |-> n, ok |-> TRUE] \notin served /\ (n # Ack => [id |-> n, ok |-> FALSE] \notin served)
<1>1. [id |-> n, ok |-> TRUE].id = n /\ [id |-> n, ok |-> FALSE].id = n /\ [id |-> n, ok |-> TRUE].ok
  OBVIOUS
<1>2. n # Ack => ~Sent(n)
  BY DEF IInv, TypeOK, IdInv, Sent
<1> QED
  BY <1>1, <1>2 DEF OnceInv

LEMMA StepImplements == IInv /\ OnceInv /\ [Next]_vars /\ ReplyIsMine' => [Contract!Next]_(Contract!vars)
<1> SUFFICES ASSUME IInv, OnceInv, [Next]_vars, ReplyIsMine' PROVE Contract!Next \/ UNCHANGED Contract!vars
  OBVIOUS
<1>1. ASSUME NEW k \in Calls, Begin(k) PROVE Contract!Next
  <2>1. pc' = [pc EXCEPT ![k] = "register"] /\ id' = [id EXCEPT ![k] = requestSequence + 1]
        /\ pc[k] = "idle" /\ id[k] = Ack /\ UNCHANGED <<got, served>>
    BY <1>1 DEF Begin, NextId, IInv, IdInv, Ack
  <2>2. id'[k] > requestSequence /\ id'[k] \in Nat /\ id'[k] # Ack
    BY <2>1 DEF IInv, TypeOK, Ack
  <2>3. AnswerTo(k) = "none"
    BY <2>1, NoEarlyAnswer DEF AnswerTo
  <2>4. AnswerTo(k)' = "none"
    <3>1. PICK n \in Nat : n = id'[k] /\ n > requestSequence
      BY <2>2
    <3> QED
      BY <2>1, <3>1, NoEarlyAnswer DEF AnswerTo
  <2>5. Status(k) = "idle" /\ Status(k)' = "running"
    BY <2>1 DEF Status, IInv, TypeOK
  <2>6. \A j \in Calls : j # k => Status(j)' = Status(j) /\ AnswerTo(j)' = AnswerTo(j)
    BY <2>1 DEF Status, AnswerTo, IInv, TypeOK
  <2> QED
    BY <2>3, <2>4, <2>5, <2>6, ContractStep
<1>2. ASSUME NEW k \in Calls, Register(k) \/ LockWriter(k) \/ Write(k) PROVE UNCHANGED Contract!vars
  <2>1. /\ UNCHANGED <<id, got, served>> /\ pc[k] \notin {"idle", "done"}
        /\ \E at \in {"lock", "write", "select"} : pc' = [pc EXCEPT ![k] = at]
    BY <1>2 DEF Register, LockWriter, Write
  <2>2. \A j \in Calls : Status(j)' = Status(j) /\ AnswerTo(j)' = AnswerTo(j)
    BY <2>1 DEF Status, AnswerTo, IInv, TypeOK
  <2> QED
    BY <2>2, ContractStutters
<1>3. ASSUME NEW k \in Calls, WriteFails(k) \/ Receive(k) \/ GiveUp(k) \/ Disconnected(k)
      PROVE  Contract!Next
  <2>1. /\ UNCHANGED <<id, served>> /\ pc[k] \notin {"idle", "done"}
        /\ pc' = [pc EXCEPT ![k] = "done"]
        /\ \A j \in Calls : j # k => got'[j] = got[j]
    BY <1>3 DEF WriteFails, Receive, GiveUp, Disconnected, Return, IInv, TypeOK
  <2>2. \A j \in Calls : j # k => Status(j)' = Status(j) /\ AnswerTo(j)' = AnswerTo(j)
    BY <2>1 DEF Status, AnswerTo, IInv, TypeOK
  <2>3. AnswerTo(k)' = AnswerTo(k) /\ Status(k) = "running"
    BY <2>1 DEF Status, AnswerTo
  <2>4. CASE got'[k] # None /\ got'[k].ok
    <3>1. Status(k)' = "ok"
      BY <2>1, <2>4 DEF Status, IInv, TypeOK
    <3>2. got'[k].id = id[k] /\ got'[k] \in served
      BY <2>1, <2>4 DEF ReplyIsMine
    <3>3. [id |-> id[k], ok |-> TRUE] \in served
      <4>1. got'[k] \in Replies
        BY <3>2 DEF IInv, TypeOK
      <4>2. got'[k] = [id |-> id[k], ok |-> TRUE]
        BY <2>4, <3>2, <4>1 DEF Replies
      <4> QED
        BY <3>2, <4>2
    <3>4. AnswerTo(k) = "ok"
      BY <3>3 DEF AnswerTo
    <3> QED
      BY <2>2, <2>3, <3>1, <3>4, ContractStep
  <2>5. CASE ~(got'[k] # None /\ got'[k].ok)
    <3>1. Status(k)' = "failed"
      BY <2>1, <2>5 DEF Status, IInv, TypeOK
    <3> QED
      BY <2>2, <2>3, <3>1, ContractStep
  <2> QED
    BY <2>4, <2>5
<1>4. ASSUME NEW m \in jobs, WorkerAnswers(m) PROVE Contract!Next \/ UNCHANGED Contract!vars
  <2>1. PICK ok \in BOOLEAN : served' = served \cup {[id |-> m, ok |-> ok]} /\ (m = Ack => ~ok)
    BY <1>4 DEF WorkerAnswers
  <2>2. UNCHANGED <<id, pc, got>>
    BY <1>4 DEF WorkerAnswers
  <2>3. \A j \in Calls : Status(j)' = Status(j)
    BY <2>2 DEF Status
  <2>4. CASE m = Ack
    <3>1. \A j \in Calls : AnswerTo(j)' = AnswerTo(j)
      <4> SUFFICES ASSUME NEW j \in Calls PROVE AnswerTo(j)' = AnswerTo(j)
        OBVIOUS
      <4>1. /\ [id |-> id[j], ok |-> TRUE] # [id |-> m, ok |-> ok]
            /\ id[j] # Ack => [id |-> id[j], ok |-> FALSE] # [id |-> m, ok |-> ok]
        <5>1. ok = FALSE
          BY <2>1, <2>4
        <5> QED
          BY <2>4, <5>1
      <4> QED
        BY <2>1, <2>2, <4>1 DEF AnswerTo
    <3> QED
      BY <2>3, <3>1, ContractStutters
  <2>5. CASE m # Ack
    <3>1. PICK k \in Calls : id[k] = m /\ pc[k] \in {"select", "done"}
      BY <2>5 DEF OnceInv, Sent
    <3>2. \A j \in Calls : j # k => id[j] # m
      BY <2>5, <3>1 DEF IInv, IdInv, Ack
    <3>3. \A j \in Calls : j # k => AnswerTo(j)' = AnswerTo(j)
      BY <2>1, <2>2, <3>2, AnswersGrow
    <3>4. AnswerTo(k)' \in {"ok", "error"}
      BY <2>1, <2>2, <2>5, <3>1, AnswersGrow
    <3>5. AnswerTo(k) = "none"
      <4>1. ~Answered(m)
        BY <2>5 DEF OnceInv
      <4>2. \A b : [id |-> m, ok |-> b] \notin served
        BY <4>1 DEF Answered
      <4> QED
        BY <3>1, <4>2 DEF AnswerTo
    <3>6. Status(k) # "idle"
      BY <3>1 DEF Status
    <3> QED
      BY <2>3, <3>3, <3>4, <3>5, <3>6, ContractStep
  <2> QED
    BY <2>4, <2>5
<1>5. CASE ReaderTakes \/ ReaderDelivers \/ ReaderCloses
  <2>1. UNCHANGED <<id, pc, got, served>>
    BY <1>5 DEF ReaderTakes, ReaderDelivers, ReaderCloses
  <2> QED
    BY <2>1, ContractStutters DEF Status, AnswerTo
<1>6. CASE Elsewhere
  <2>1. UNCHANGED <<id, pc, got, served>>
    BY <1>6, ElsewhereFrame DEF IInv
  <2> QED
    BY <2>1, ContractStutters DEF Status, AnswerTo
<1> QED
  BY <1>1, <1>2, <1>3, <1>4, <1>5, <1>6 DEF Next, Call, Elsewhere

(* coordinator.go:395-430: for any number of calls that share a connection, *)
(* each returns once, with the worker's answer to its own request or an     *)
(* error, and a request is answered at most once.                           *)
THEOREM ImplementsCallContractHolds == Spec => ImplementsCallContract
<1>1. Init => Contract!Init /\ OnceInv
  <2>1. Init => OnceInv
    <3> SUFFICES ASSUME Init PROVE OnceInv
      OBVIOUS
    <3>1. toWorker = <<>> /\ jobs = {} /\ served = {} /\ 1 .. Len(toWorker) = {}
      BY DEF Init
    <3> QED
      BY <3>1 DEF OnceInv, Elements
  <2> QED
    BY <2>1, ContractInitially
<1>2. IInv /\ OnceInv /\ [Next]_vars => OnceInv'
  BY OncePreserved
<1>3. IInv /\ OnceInv /\ [Next]_vars /\ IInv' => [Contract!Next]_(Contract!vars)
  BY StepImplements DEF IInv
<1> QED
  BY <1>1, <1>2, <1>3, Invariance, PTL DEF Spec, ImplementsCallContract, Contract!Spec
=============================================================================
