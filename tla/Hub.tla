-------------------------------- MODULE Hub --------------------------------
(***************************************************************************)
(* The WebSocket hub.  A connection is registered, greeted and then read   *)
(* by a goroutine of its own until it fails; a Broadcast copies the list   *)
(* of clients and writes to one after the other, each under its writeMu    *)
(* with a deadline, and throws out those it cannot write to.  Broadcasts   *)
(* of forecasts and cluster events run in goroutines of their own, those   *)
(* of a training in the goroutine that holds the training slot.            *)
(*                                                                         *)
(* h.mu is never held across an operation that waits: what happens under   *)
(* it is one step.  A client may stop reading, which fills its socket, or  *)
(* leave, at any moment.                                                   *)
(***************************************************************************)
EXTENDS Integers, Sequences, FiniteSets

CONSTANTS
    Clients,        \* connections
    Broadcasts,     \* calls of Broadcast, each of which sends one event
    Capacity,       \* messages that fit into a socket nobody reads from
    MaxLosses,      \* bound on the clients that have left and are not closed yet
    None, Hello     \* nobody; the greeting, the message of type "connected"

ASSUME HubAssumption ==
    /\ Capacity \in Nat \ {0}
    /\ MaxLosses \in Nat
    /\ None \notin Clients \cup Broadcasts
    /\ Hello \notin Broadcasts \cup {None}

VARIABLES
    clients,    \* h.clients
    serve,      \* client -> how far ServeHTTP and its goroutine are
    writer,     \* client -> holder of its writeMu
    timed,      \* client -> whether a write deadline is set on its connection
    broken,     \* client -> whether a write has failed: all later ones do
    link,       \* client -> its connection: up, gone (the other end), closed (by the hub)
    unread,     \* client -> messages in its socket
    sent,       \* client -> event -> how often it was written to it
    step,       \* broadcast -> where it is
    list,       \* broadcast -> the clients it has copied
    todo,       \* broadcast -> those it has not come to
    at          \* broadcast -> the one it is at

peer == <<timed, broken, link, unread, sent>>
loop == <<step, list, todo, at>>
vars == <<clients, serve, writer, peer, loop>>

TypeOK ==
    /\ clients \subseteq Clients
    /\ serve \in [Clients -> {"new", "added", "greeting", "reading", "ended"}]
    /\ writer \in [Clients -> Broadcasts \cup {Hello, None}]
    /\ timed \in [Clients -> BOOLEAN]
    /\ broken \in [Clients -> BOOLEAN]
    /\ link \in [Clients -> {"up", "gone", "closed"}]
    /\ unread \in [Clients -> 0 .. Capacity]
    /\ sent \in [Clients -> [Broadcasts -> Nat]]
    /\ step \in [Broadcasts -> {"idle", "next", "lock", "write", "drop"}]
    /\ list \in [Broadcasts -> SUBSET Clients]
    /\ todo \in [Broadcasts -> SUBSET Clients]
    /\ at \in [Broadcasts -> Clients \cup {None}]

Init ==
    /\ clients = {}
    /\ serve = [c \in Clients |-> "new"]
    /\ writer = [c \in Clients |-> None]
    /\ timed = [c \in Clients |-> FALSE]
    /\ broken = [c \in Clients |-> FALSE]
    /\ link = [c \in Clients |-> "up"]
    /\ unread = [c \in Clients |-> 0]
    /\ sent = [c \in Clients |-> [b \in Broadcasts |-> 0]]
    /\ step = [b \in Broadcasts |-> "idle"]
    /\ list = [b \in Broadcasts |-> {}]
    /\ todo = [b \in Broadcasts |-> {}]
    /\ at = [b \in Broadcasts |-> None]

-----------------------------------------------------------------------------
(* The connection.                                                          *)

\* The message is in the socket, if there is room in it ...
WriteSucceeds(c, message) ==
    /\ ~broken[c] /\ link[c] # "closed"
    /\ unread[c] < Capacity
    /\ unread' = [unread EXCEPT ![c] = @ + 1]
    /\ sent' = [sent EXCEPT ![c] = [b \in Broadcasts |-> @[b] + IF b = message THEN 1 ELSE 0]]
    /\ UNCHANGED <<timed, broken, link>>

\* ... or the write ends with an error: an earlier one did, the connection is closed or lost,
\* or the deadline passes.  Without any of these it waits for room.
WriteFails(c) ==
    /\ broken[c] \/ link[c] # "up" \/ timed[c]
    /\ broken' = [broken EXCEPT ![c] = TRUE]
    /\ UNCHANGED <<timed, link, unread, sent>>

ClientReads(c) ==
    /\ unread[c] > 0
    /\ unread' = [unread EXCEPT ![c] = @ - 1]
    /\ UNCHANGED <<clients, serve, writer, timed, broken, link, sent, loop>>

ClientLeaves(c) ==
    /\ serve[c] # "new"
    /\ link[c] = "up"
    /\ Cardinality({d \in Clients : link[d] = "gone"}) < MaxLosses
    /\ link' = [link EXCEPT ![c] = "gone"]
    /\ UNCHANGED <<clients, serve, writer, timed, broken, unread, sent, loop>>

\* delete and Close, by whoever finds the connection unusable
Remove(c) ==
    /\ clients' = clients \ {c}
    /\ link' = [link EXCEPT ![c] = "closed"]
    /\ UNCHANGED <<timed, broken, unread, sent>>

-----------------------------------------------------------------------------
(* ServeHTTP.                                                               *)

Goes(c, to) == serve' = [serve EXCEPT ![c] = to]

Register(c) ==
    /\ serve[c] = "new"
    /\ clients' = clients \cup {c}
    /\ Goes(c, "added")
    /\ UNCHANGED <<writer, peer, loop>>

GreetLock(c) ==
    /\ serve[c] = "added"
    /\ writer[c] = None
    /\ writer' = [writer EXCEPT ![c] = Hello]
    /\ Goes(c, "greeting")
    /\ UNCHANGED <<clients, peer, loop>>

\* The result is ignored.  No deadline is set here; one that a broadcast has set stays.
Greet(c) ==
    /\ serve[c] = "greeting"
    /\ WriteSucceeds(c, Hello) \/ WriteFails(c)
    /\ writer' = [writer EXCEPT ![c] = None]
    /\ Goes(c, "reading")
    /\ UNCHANGED <<clients, loop>>

\* ReadMessage fails: the other end is gone, or the hub has closed the connection.
ReadFails_Bug(c) ==                             \* only Close is deferred
    /\ serve[c] = "reading"
    /\ link[c] # "up"
    /\ link' = [link EXCEPT ![c] = "closed"]
    /\ Goes(c, "ended")
    /\ UNCHANGED <<clients, timed, broken, unread, sent, writer, loop>>
ReadFails(c) ==
    /\ serve[c] = "reading"
    /\ link[c] # "up"
    /\ Remove(c)
    /\ Goes(c, "ended")
    /\ UNCHANGED <<writer, loop>>

Serve(c) == Register(c) \/ GreetLock(c) \/ Greet(c) \/ ReadFails(c)

-----------------------------------------------------------------------------
(* Broadcast.                                                               *)

To(b, where) == step' = [step EXCEPT ![b] = where]

Copy(b) ==
    /\ step[b] = "idle"
    /\ list' = [list EXCEPT ![b] = clients]
    /\ todo' = [todo EXCEPT ![b] = clients]
    /\ To(b, "next")
    /\ UNCHANGED <<clients, serve, writer, peer, at>>

\* The order is that of a Go map: any.
Turn(b) ==
    /\ step[b] = "next"
    /\ \E c \in todo[b] :
        /\ at' = [at EXCEPT ![b] = c]
        /\ todo' = [todo EXCEPT ![b] = @ \ {c}]
    /\ To(b, "lock")
    /\ UNCHANGED <<clients, serve, writer, peer, list>>

Returned(b) == step[b] = "next" /\ todo[b] = {}

Deadline_Bug(c) == UNCHANGED timed              \* no SetWriteDeadline
Deadline(c) == timed' = [timed EXCEPT ![c] = TRUE]

Lock(b) ==
    /\ step[b] = "lock"
    /\ writer[at[b]] = None
    /\ writer' = [writer EXCEPT ![at[b]] = b]
    /\ Deadline(at[b])
    /\ To(b, "write")
    /\ UNCHANGED <<clients, serve, broken, link, unread, sent, list, todo, at>>

\* writeMu is released before the result is looked at.
Write(b) ==
    /\ step[b] = "write"
    /\ \/ WriteSucceeds(at[b], b) /\ To(b, "next")
       \/ WriteFails(at[b]) /\ To(b, "drop")
    /\ writer' = [writer EXCEPT ![at[b]] = None]
    /\ UNCHANGED <<clients, serve, list, todo, at>>

AfterFailure_Bug(b) == todo' = [todo EXCEPT ![b] = {}]      \* return err
AfterFailure(b) == UNCHANGED todo

Drop(b) ==
    /\ step[b] = "drop"
    /\ Remove(at[b])
    /\ AfterFailure(b)
    /\ To(b, "next")
    /\ UNCHANGED <<serve, writer, list, at>>

Loop(b) == Turn(b) \/ Lock(b) \/ Write(b) \/ Drop(b)

Next ==
    \/ \E c \in Clients : Serve(c) \/ ClientReads(c) \/ ClientLeaves(c)
    \/ \E b \in Broadcasts : Copy(b) \/ Loop(b)

Spec == Init /\ [][Next]_vars

(* Goroutines that can run do.  Nobody has to connect, to broadcast, to     *)
(* read or to leave.                                                        *)
FairSpec ==
    /\ Spec
    /\ \A c \in Clients : WF_vars(GreetLock(c) \/ Greet(c) \/ ReadFails(c))
    /\ \A b \in Broadcasts : WF_vars(Loop(b))

-----------------------------------------------------------------------------
(* Properties.                                                              *)

\* hub.go:64-79: a client that was connected when a broadcast began and that no write has
\* failed for has its event once when the broadcast ends, whichever clients failed, came or
\* left meanwhile; and no client gets an event a second time.
NobodyElseMisses ==
    \A b \in Broadcasts, c \in Clients :
        /\ sent[c][b] <= 1
        /\ Returned(b) /\ c \in list[b] /\ ~broken[c] /\ link[c] = "up" => sent[c][b] = 1

\* hub.go:40-53,75-79: a connection that is closed or whose other end is gone leaves
\* h.clients for good, also if that happens before its goroutine has started.
DeadAreForgotten ==
    \A c \in Clients : link[c] # "up" ~> [](c \notin clients)

\* hub.go:37-39,70-74: a broadcast returns, and with it the training that waits for it,
\* though clients never read and the greeting, which sets no deadline, has the lock first.
BroadcastReturns ==
    \A b \in Broadcasts : step[b] # "idle" ~> Returned(b)
=============================================================================
