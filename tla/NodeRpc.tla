------------------------------- MODULE NodeRpc -------------------------------
(***************************************************************************)
(* The life of one worker connection as the coordinator drives it:         *)
(* nodeClient and the goroutines that share it.                            *)
(*   - every running Coordinator.call (Calls), from drawing a request id   *)
(*     to the select that ends it;                                         *)
(*   - the goroutine of registerConnection, which writes the registration  *)
(*     ack AFTER the node is published and then becomes the readLoop;      *)
(*   - the worker process at the other end, whose first Decode is taken as *)
(*     the ack whatever it holds, and which serves each later message in a *)
(*     goroutine of its own.                                               *)
(* Messages are request ids (the ack carries id Ack) and replies [id, ok]; *)
(* payloads do not matter here.  The socket is a FIFO in each direction;   *)
(* towards the worker it holds at most Window messages, because a writer   *)
(* blocks inside Encode, holding writeMu, when the TCP window is full.     *)
(***************************************************************************)
EXTENDS Naturals, Sequences

CONSTANTS
    Calls,          \* the invocations of Coordinator.call on this node
    None,           \* "no call", "no reply"
    Registration,   \* the goroutine of registerConnection, as holder of writeMu
    Window          \* messages the socket towards the worker holds

ASSUME NamesAssumption == /\ None \notin Calls
                          /\ Registration \notin Calls
                          /\ None # Registration
ASSUME WindowAssumption == Window \in Nat \ {0}

Ack == 0                                \* the id of the registration ack
Replies == [id : Nat, ok : BOOLEAN]     \* ok is FALSE for a protocol.Error
ZeroMessage == [id |-> Ack, ok |-> TRUE]  \* what a closed, drained channel yields

ASSUME NoneNotReply == None \notin Replies

VARIABLES
    requestSequence,    \* the process-wide counter request ids are drawn from
    pc,                 \* where each call is
    id,                 \* the request id each call drew, 0 before it did
    pending,            \* nodeClient.pending: pairs <<request id, channel of a call>>
    response,           \* the buffered element of each call's channel, or None
    shut,               \* the calls whose channel the readLoop has closed
    got,                \* the reply each call received, or None
    writeMu,            \* who holds nodeClient.writeMu
    toWorker,           \* the ids in flight to the worker
    worker,             \* the worker process: "awaitingAck", "serving" or "down"
    jobs,               \* the ids being handled by worker goroutines
    served,             \* history: every reply the worker has ever produced
    toCoordinator,      \* the replies in flight to the coordinator
    reader,             \* the registration goroutine / readLoop: where, and its locals
    closed              \* nodeClient.closed is closed and so is the socket

callVars   == <<requestSequence, pc, id, got>>
chanVars   == <<pending, response, shut>>
workerVars == <<worker, jobs, served>>
vars == <<requestSequence, pc, id, pending, response, shut, got, writeMu,
          toWorker, worker, jobs, served, toCoordinator, reader, closed>>

TypeOK ==
    /\ requestSequence \in Nat
    /\ pc \in [Calls -> {"idle", "register", "lock", "write", "select", "done"}]
    /\ id \in [Calls -> Nat]
    /\ pending \subseteq Nat \X Calls
    /\ response \in [Calls -> Replies \cup {None}]
    /\ shut \subseteq Calls
    /\ got \in [Calls -> Replies \cup {None}]
    /\ writeMu \in Calls \cup {Registration, None}
    /\ toWorker \in Seq(Nat)
    /\ worker \in {"awaitingAck", "serving", "down"}
    /\ jobs \subseteq Nat
    /\ served \subseteq Replies
    /\ toCoordinator \in Seq(Replies)
    /\ reader \in [at : {"ackLock", "ackWrite", "decode", "stopped"}, to : {None}, msg : {None}]
                 \cup [at : {"deliver", "close"}, to : Calls, msg : Replies]
    /\ closed \in BOOLEAN

At(place) == [at |-> place, to |-> None, msg |-> None]

Init == /\ requestSequence = 0
        /\ pc = [k \in Calls |-> "idle"]
        /\ id = [k \in Calls |-> 0]
        /\ pending = {}
        /\ response = [k \in Calls |-> None]
        /\ shut = {}
        /\ got = [k \in Calls |-> None]
        /\ writeMu = None
        /\ toWorker = <<>>
        /\ worker = "awaitingAck"
        /\ jobs = {}
        /\ served = {}
        /\ toCoordinator = <<>>
        /\ reader = At("ackLock")
        /\ closed = FALSE

-----------------------------------------------------------------------------
(* Coordinator.call, run by the goroutine of its caller.  A definition whose *)
(* name ends in _Bug is a deliberately wrong variant of the one below it.    *)

NextId == requestSequence + 1

Begin(k) == /\ pc[k] = "idle"
            /\ requestSequence' = requestSequence + 1
            /\ id' = [id EXCEPT ![k] = NextId]
            /\ pc' = [pc EXCEPT ![k] = "register"]
            /\ UNCHANGED <<got, chanVars, writeMu, toWorker, workerVars, toCoordinator, reader, closed>>

Register(k) == /\ pc[k] = "register"
               /\ pending' = {p \in pending : p[1] # id[k]} \cup {<<id[k], k>>}
               /\ pc' = [pc EXCEPT ![k] = "lock"]
               /\ UNCHANGED <<requestSequence, id, got, response, shut, writeMu, toWorker,
                              workerVars, toCoordinator, reader, closed>>

LockWriter(k) == /\ pc[k] = "lock"
                 /\ writeMu = None
                 /\ writeMu' = k
                 /\ pc' = [pc EXCEPT ![k] = "write"]
                 /\ UNCHANGED <<requestSequence, id, got, chanVars, toWorker, workerVars,
                                toCoordinator, reader, closed>>

\* Encode and Flush.  On a full window they block; to a peer that is gone they may
\* still succeed, and the message is lost.
Deliverable(m) == /\ ~closed
                  /\ Len(toWorker) < Window
                  /\ toWorker' = IF worker = "down" THEN toWorker ELSE Append(toWorker, m)

Write(k) == /\ pc[k] = "write"
            /\ Deliverable(id[k])
            /\ writeMu' = None
            /\ pc' = [pc EXCEPT ![k] = "select"]
            /\ UNCHANGED <<requestSequence, id, got, chanVars, workerVars, toCoordinator, reader, closed>>

removePending_Keep_Bug(k) == k \in Calls /\ pending' = pending
removePending_All_Bug(k) == k \in Calls /\ pending' = {}
removePending(k) == pending' = {p \in pending : p[1] # id[k]}

WriteFails_Locked_Bug(k) ==     \* returns without unlocking writeMu
    /\ pc[k] = "write"
    /\ closed \/ worker = "down"
    /\ removePending(k)
    /\ pc' = [pc EXCEPT ![k] = "done"]
    /\ UNCHANGED <<requestSequence, id, got, response, shut, writeMu, toWorker, workerVars,
                   toCoordinator, reader, closed>>
WriteFails(k) == /\ pc[k] = "write"
                 /\ closed \/ worker = "down"
                 /\ writeMu' = None
                 /\ removePending(k)
                 /\ pc' = [pc EXCEPT ![k] = "done"]
                 /\ UNCHANGED <<requestSequence, id, got, response, shut, toWorker, workerVars,
                                toCoordinator, reader, closed>>

\* case result := <-response.  A closed, empty channel yields the zero Message.
Receive(k) == /\ pc[k] = "select"
              /\ response[k] # None \/ k \in shut
              /\ got' = [got EXCEPT ![k] = IF response[k] # None THEN response[k] ELSE ZeroMessage]
              /\ response' = [response EXCEPT ![k] = None]
              /\ pc' = [pc EXCEPT ![k] = "done"]
              /\ UNCHANGED <<requestSequence, id, pending, shut, writeMu, toWorker, workerVars,
                             toCoordinator, reader, closed>>

Return(k) == /\ removePending(k)
             /\ pc' = [pc EXCEPT ![k] = "done"]
             /\ UNCHANGED <<requestSequence, id, got, response, shut, writeMu, toWorker, workerVars,
                            toCoordinator, reader, closed>>

\* case <-ctx.Done() and case <-time.After(c.requestTimeout)
GiveUp_Bug(k) == pc[k] = "select" /\ closed /\ Return(k)      \* no timer in the select
GiveUp(k) == pc[k] = "select" /\ Return(k)

\* case <-node.closed
Disconnected(k) == pc[k] = "select" /\ closed /\ Return(k)

Call(k) == \/ Begin(k) \/ Register(k) \/ LockWriter(k) \/ Write(k) \/ WriteFails(k)
           \/ Receive(k) \/ GiveUp(k) \/ Disconnected(k)

-----------------------------------------------------------------------------
(* The goroutine of registerConnection, from the moment the node is in the  *)
(* coordinator's map, and the readLoop it starts at its end.                *)

AckLock == /\ reader.at = "ackLock"
           /\ writeMu = None
           /\ writeMu' = Registration
           /\ reader' = At("ackWrite")
           /\ UNCHANGED <<callVars, chanVars, toWorker, workerVars, toCoordinator, closed>>

\* The result of this send is ignored, so the readLoop starts either way.
AckWrite == /\ reader.at = "ackWrite"
            /\ \/ Deliverable(Ack)
               \/ (closed \/ worker = "down") /\ UNCHANGED toWorker
            /\ writeMu' = None
            /\ reader' = At("decode")
            /\ UNCHANGED <<callVars, chanVars, workerVars, toCoordinator, closed>>

\* node.pending[message.ID]
Waiting_Bug(m) == {k \in Calls : \E n \in 1 .. m.id + 1 : <<n, k>> \in pending}   \* in order of arrival
Waiting(m) == {k \in Calls : <<m.id, k>> \in pending}

\* Decode a reply and take its channel out of pending, in one critical section.
ReaderTakes == /\ reader.at = "decode"
               /\ toCoordinator # <<>>
               /\ LET m == Head(toCoordinator)
                  IN  \/ \E k \in Waiting(m) :
                            /\ pending' = {p \in pending : p[1] # m.id}
                            /\ reader' = [at |-> "deliver", to |-> k, msg |-> m]
                      \/ /\ Waiting(m) = {}
                         /\ UNCHANGED <<pending, reader>>
               /\ toCoordinator' = Tail(toCoordinator)
               /\ UNCHANGED <<callVars, response, shut, writeMu, toWorker, workerVars, closed>>

\* make(chan protocol.Message, 1): a send goes through when the buffer is free.
Room_Bug(k) == response[k] = None /\ pc[k] = "select"         \* an unbuffered channel
Room(k) == response[k] = None

ReaderDelivers == /\ reader.at = "deliver"
                  /\ Room(reader.to)
                  /\ response' = [response EXCEPT ![reader.to] = reader.msg]
                  /\ reader' = [reader EXCEPT !.at = "close"]
                  /\ UNCHANGED <<callVars, pending, shut, writeMu, toWorker, workerVars,
                                 toCoordinator, closed>>

ReaderCloses == /\ reader.at = "close"
                /\ shut' = shut \cup {reader.to}
                /\ reader' = At("decode")
                /\ UNCHANGED <<callVars, pending, response, writeMu, toWorker, workerVars,
                               toCoordinator, closed>>

\* Decode fails; the deferred markDisconnected closes the node.
ReaderStops == /\ reader.at = "decode"
               /\ closed \/ (worker = "down" /\ toCoordinator = <<>>)
               /\ closed' = TRUE
               /\ reader' = At("stopped")
               /\ UNCHANGED <<callVars, chanVars, writeMu, toWorker, workerVars, toCoordinator>>

\* nodeClient.close from elsewhere: a newer registration of the same node, or
\* Coordinator.Close.
Close == /\ ~closed
         /\ closed' = TRUE
         /\ UNCHANGED <<callVars, chanVars, writeMu, toWorker, workerVars, toCoordinator, reader>>

-----------------------------------------------------------------------------
(* The worker process of cmd/ml-node.                                       *)

\* run decodes one message after registering and takes it for the ack.
WorkerTakesAck == /\ worker = "awaitingAck"
                  /\ toWorker # <<>>
                  /\ toWorker' = Tail(toWorker)
                  /\ worker' = "serving"
                  /\ UNCHANGED <<callVars, chanVars, writeMu, jobs, served, toCoordinator, reader, closed>>

WorkerDecodes == /\ worker = "serving"
                 /\ toWorker # <<>>
                 /\ jobs' = jobs \cup {Head(toWorker)}
                 /\ toWorker' = Tail(toWorker)
                 /\ UNCHANGED <<callVars, chanVars, writeMu, worker, served, toCoordinator, reader, closed>>

\* handle returns and its goroutine writes the reply; a late ack is answered with an
\* "unsupported message type" error.  Replies to a closed socket are lost.
WorkerAnswers(n) == /\ n \in jobs
                    /\ jobs' = jobs \ {n}
                    /\ \E ok \in IF n = Ack THEN {FALSE} ELSE BOOLEAN :
                          LET r == [id |-> n, ok |-> ok]
                          IN  /\ served' = served \cup {r}
                              /\ toCoordinator' = IF closed THEN toCoordinator
                                                  ELSE Append(toCoordinator, r)
                    /\ UNCHANGED <<callVars, chanVars, writeMu, toWorker, worker, reader, closed>>

\* The worker dies, sees its socket closed, or the network drops: everything in flight
\* to it is lost, and of what it sent any prefix may still arrive.
LinkLost == /\ worker # "down"
            /\ worker' = "down"
            /\ jobs' = {}
            /\ toWorker' = <<>>
            /\ \E n \in 0 .. Len(toCoordinator) : toCoordinator' = SubSeq(toCoordinator, 1, n)
            /\ UNCHANGED <<callVars, chanVars, writeMu, served, reader, closed>>

-----------------------------------------------------------------------------
Next == \/ \E k \in Calls : Call(k)
        \/ AckLock \/ AckWrite
        \/ ReaderTakes \/ ReaderDelivers \/ ReaderCloses \/ ReaderStops
        \/ Close
        \/ WorkerTakesAck \/ WorkerDecodes
        \/ \E n \in jobs : WorkerAnswers(n)
        \/ LinkLost

Spec == Init /\ [][Next]_vars

(* Goroutines that can run do run, the mutex and the socket eventually let  *)
(* a waiting writer in, and a worker process that is up keeps decoding.     *)
(* Nothing obliges a worker to answer, a link to break or a node to be      *)
(* closed, and timers are kept apart (Timers).                              *)
Fairness == /\ \A k \in Calls :
                 /\ WF_vars(Register(k))
                 /\ WF_vars(LockWriter(k))
                 /\ WF_vars(Write(k) \/ WriteFails(k))
                 /\ WF_vars(Receive(k) \/ Disconnected(k))
            /\ WF_vars(AckLock) /\ WF_vars(AckWrite)
            /\ WF_vars(ReaderTakes \/ ReaderDelivers \/ ReaderCloses \/ ReaderStops)
            /\ WF_vars(WorkerTakesAck \/ WorkerDecodes)

FairSpec == Spec /\ Fairness

Timers == \A k \in Calls : WF_vars(GiveUp(k))

-----------------------------------------------------------------------------
(* Properties.                                                              *)

\* coordinator.go:199-206, 411: whatever the interleaving of late answers, timeouts and
\* closes, a call that received something received the worker's answer to its own
\* request, never another call's and never the zero Message of a closed channel.
ReplyIsMine == \A k \in Calls : got[k] # None => got[k].id = id[k] /\ got[k] \in served

\* coordinator.go:205: the readLoop never blocks in its send, whatever became of the
\* caller, and never sends on a channel it has closed (which would panic the process).
ReadLoopNeverBlocks == reader.at = "deliver" => Room(reader.to) /\ reader.to \notin shut

\* coordinator.go:403-425: every exit of call leaves no entry behind, so that pending
\* holds entries of unfinished calls only, each under its own request id.
NoPendingLeak == \A p \in pending : id[p[2]] = p[1] /\ pc[p[2]] \in {"lock", "write", "select"}

\* coordinator.go:198-206, 410: the answer to a waiting call cannot get lost inside the
\* coordinator: its channel is in pending, in the hands of the readLoop, or holds the
\* reply, and in exactly one of the three.
Places(k) == (IF <<id[k], k>> \in pending THEN {"pending"} ELSE {})
             \cup (IF reader.at = "deliver" /\ reader.to = k THEN {"reader"} ELSE {})
             \cup (IF response[k] # None THEN {"channel"} ELSE {})
WaiterReachable == \A k \in Calls : pc[k] = "select" => \E place \in {"pending", "reader", "channel"} : Places(k) = {place}

\* coordinator.go:410-429: with running timers every call that has begun returns, even if
\* the worker never answers and the link never breaks.
CallReturns == Timers => \A k \in Calls : (pc[k] = "register") ~> (pc[k] = "done")

\* coordinator.go:427, 445-450: closing a node (replaced, disconnected, shut down) releases
\* all its callers without the help of any timer.
CloseReleasesCallers == \A k \in Calls : (closed /\ pc[k] # "idle") ~> (pc[k] = "done")

\* The connection implements the contract its callers rely on.
Status(k) == IF pc[k] = "idle" THEN "idle"
             ELSE IF pc[k] # "done" THEN "running"
             ELSE IF got[k] # None /\ got[k].ok THEN "ok" ELSE "failed"
AnswerTo(k) == IF [id |-> id[k], ok |-> TRUE] \in served THEN "ok"
               ELSE IF id[k] # Ack /\ [id |-> id[k], ok |-> FALSE] \in served THEN "error"
               ELSE "none"
Contract == INSTANCE CallContract WITH status <- [k \in Calls |-> Status(k)],
                                       answer <- [k \in Calls |-> AnswerTo(k)]
ImplementsCallContract == Contract!Spec
=============================================================================
