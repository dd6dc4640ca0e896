------------------------------- MODULE Relay -------------------------------
(***************************************************************************)
(* Connection pairing in the relay server.  Every accepted QUIC connection *)
(* is served by one task running RelayServer::handle_connection; the tasks *)
(* share the session table and the map of waiting peers, and hand a        *)
(* connection over through a oneshot channel.                              *)
(*                                                                         *)
(* A RelaySession object is named by the connection whose registration     *)
(* created it.  A oneshot channel is named by the connection whose task    *)
(* holds the receiver: the sender lives in waiting_peers, then with the    *)
(* task that took it out, and is gone afterwards.                          *)
(***************************************************************************)
EXTENDS Naturals, FiniteSets

CONSTANTS
    Conns,      \* the connections the endpoint ever accepts
    Sessions,   \* session ids
    Identities, \* (client_device_id, target_device_id) pairs
    Token,      \* the relay token each connection presents
    None

Roles == {"Client", "Host"}

ASSUME NoneAssumption == None \notin Conns

ASSUME TokenAssumption ==
    Token \in [Conns -> [session : Sessions, role : Roles, ids : Identities]]

VARIABLES
    pc,      \* where the task of each connection is
    open,    \* whether the QUIC connection is still open
    table,   \* RelaySessionTable: session id -> session object
    obj,     \* the session objects: connected roles and the terminated flag
    sess,    \* the session object a task holds
    waiting, \* waiting_peers: session id -> connection waiting with its sender
    taken,   \* the sender a task has taken out of waiting_peers
    sent     \* the peer connection a oneshot channel carries

vars == <<pc, open, table, obj, sess, waiting, taken, sent>>

PCs == {"handshake", "insert", "respondFirst", "wait", "leave", "forward",
        "unregister", "respondSecond", "take", "send", "evict", "parked",
        "unanswered", "done"}

\* A task in one of these holds the receiving end of its oneshot channel.
ReceiverPCs == {"respondFirst", "wait"}

Finished == {"unanswered", "done"}

Sid(c) == Token[c].session

NewSession == [connected |-> {}, terminated |-> FALSE]

TypeOK ==
    /\ pc \in [Conns -> PCs]
    /\ open \in [Conns -> BOOLEAN]
    /\ table \in [Sessions -> Conns \cup {None}]
    /\ obj \in [Conns -> [connected : SUBSET Roles, terminated : BOOLEAN]]
    /\ sess \in [Conns -> Conns \cup {None}]
    /\ waiting \in [Sessions -> Conns \cup {None}]
    /\ taken \in [Conns -> Conns \cup {None}]
    /\ sent \in [Conns -> Conns \cup {None}]
    /\ \A c \in Conns : /\ pc[c] = "forward" => {sent[c], sess[c]} \subseteq Conns
                        /\ pc[c] = "send" => taken[c] \in Conns

Init ==
    /\ pc = [c \in Conns |-> "handshake"]
    /\ open = [c \in Conns |-> TRUE]
    /\ table = [s \in Sessions |-> None]
    /\ obj = [c \in Conns |-> NewSession]
    /\ sess = [c \in Conns |-> None]
    /\ waiting = [s \in Sessions |-> None]
    /\ taken = [c \in Conns |-> None]
    /\ sent = [c \in Conns |-> None]

Goto(c, next) == pc' = [pc EXCEPT ![c] = next]

Close(closing) == open' = [d \in Conns |-> open[d] /\ d \notin closing]

-----------------------------------------------------------------------------
\* Handshake and registration.

\* No stream within the timeout, an unreadable token or one the verifier
\* refuses: the task answers if it can, closes the connection and returns.
HandshakeFails(c) ==
    /\ pc[c] = "handshake"
    /\ Goto(c, "done")
    /\ Close({c})
    /\ UNCHANGED <<table, obj, sess, waiting, taken, sent>>

\* The session object register_or_join works on: the entry's, or a new one.
Entry(c) == IF table[Sid(c)] = None THEN c ELSE table[Sid(c)]

Accepts(c) ==
    /\ Token[Entry(c)].ids = Token[c].ids
    /\ Token[c].role \notin obj[Entry(c)].connected

\* A second task of the same role, or one bound to other devices, is refused.
RegisterRejected(c) ==
    /\ pc[c] = "handshake"
    /\ ~Accepts(c)
    /\ Goto(c, "done")
    /\ Close({c})
    /\ UNCHANGED <<table, obj, sess, waiting, taken, sent>>

\* The slots of a session object after the role of c is recorded in it.
Joined(c) == obj[Entry(c)].connected \cup {Token[c].role}

IsPaired(c) == Joined(c) = Roles

Register(c) ==
    /\ pc[c] = "handshake"
    /\ Accepts(c)
    /\ table' = [table EXCEPT ![Sid(c)] = Entry(c)]
    /\ obj' = [obj EXCEPT ![Entry(c)].connected = Joined(c)]
    /\ sess' = [sess EXCEPT ![c] = Entry(c)]
    /\ Goto(c, IF IsPaired(c) THEN "respondSecond" ELSE "insert")
    /\ UNCHANGED <<open, waiting, taken, sent>>

\* The first endpoint parks its sender; a sender already there is dropped.
InsertWaiting(c) ==
    /\ pc[c] = "insert"
    /\ waiting' = [waiting EXCEPT ![Sid(c)] = c]
    /\ Goto(c, "respondFirst")
    /\ UNCHANGED <<open, table, obj, sess, taken, sent>>

Responded(c) ==
    /\ open[c]
    /\ \/ /\ pc[c] = "respondFirst"
          /\ Goto(c, "wait")
       \/ /\ pc[c] = "respondSecond"
          /\ Goto(c, "take")
    /\ UNCHANGED <<open, table, obj, sess, waiting, taken, sent>>

\* The response cannot be written: the task closes the connection and returns,
\* leaving the session table and waiting_peers as they are.
ResponseFails(c) ==
    /\ pc[c] \in {"respondFirst", "respondSecond"}
    /\ Goto(c, "unanswered")
    /\ Close({c})
    /\ UNCHANGED <<table, obj, sess, waiting, taken, sent>>

-----------------------------------------------------------------------------
\* The first endpoint: select! over the oneshot receiver and conn.closed().

SenderAlive(c) ==
    \/ \E s \in Sessions : waiting[s] = c
    \/ \E d \in Conns : taken[d] = c

ReceivePeer(c) ==
    /\ pc[c] = "wait"
    /\ sent[c] # None
    /\ Goto(c, "forward")
    /\ UNCHANGED <<open, table, obj, sess, waiting, taken, sent>>

SenderDropped(c) ==
    /\ pc[c] = "wait"
    /\ sent[c] = None
    /\ ~SenderAlive(c)
    /\ Goto(c, "unregister")
    /\ UNCHANGED <<open, table, obj, sess, waiting, taken, sent>>

\* Faulty variant: the close is only noticed once the sender is gone.
ClosedAfterSender(c) ==
    /\ pc[c] = "wait"
    /\ ~open[c]
    /\ ~SenderAlive(c)
    /\ Goto(c, "leave")
    /\ UNCHANGED <<open, table, obj, sess, waiting, taken, sent>>

ClosedWhileWaiting(c) ==
    /\ pc[c] = "wait"
    /\ ~open[c]
    /\ Goto(c, "leave")
    /\ UNCHANGED <<open, table, obj, sess, waiting, taken, sent>>

\* Faulty variant: the session table entry is forgotten.
LeaveRegistered(c) ==
    /\ pc[c] = "leave"
    /\ waiting' = [waiting EXCEPT ![Sid(c)] = None]
    /\ Goto(c, "done")
    /\ UNCHANGED <<open, table, obj, sess, taken, sent>>

\* waiting_peers.remove(&session_id): whichever entry is there now.
LeaveWaiting(c) ==
    /\ pc[c] = "leave"
    /\ waiting' = [waiting EXCEPT ![Sid(c)] = None]
    /\ Goto(c, "unregister")
    /\ UNCHANGED <<open, table, obj, sess, taken, sent>>

\* forward_session: runs until either side closes, then terminates the session
\* object the task holds and closes both connections.
ForwardEnds(c) ==
    /\ pc[c] = "forward"
    /\ ~(open[c] /\ open[sent[c]])
    /\ obj' = [obj EXCEPT ![sess[c]].terminated = TRUE]
    /\ Close({c, sent[c]})
    /\ Goto(c, "unregister")
    /\ UNCHANGED <<table, sess, waiting, taken, sent>>

\* remove_session(&session_id), after which the task returns and drops its
\* last handle of the connection.
Unregister(c) ==
    /\ pc[c] = "unregister"
    /\ table' = [table EXCEPT ![Sid(c)] = None]
    /\ Close({c})
    /\ Goto(c, "done")
    /\ UNCHANGED <<obj, sess, waiting, taken, sent>>

-----------------------------------------------------------------------------
\* The second endpoint: take the waiting sender and hand the connection over.

\* Faulty variant: the waiting map is searched for any waiting peer.
TakeAnyWaiting(c) ==
    /\ pc[c] = "take"
    /\ \E s \in Sessions :
         /\ waiting' = [waiting EXCEPT ![s] = None]
         /\ taken' = [taken EXCEPT ![c] = waiting[s]]
         /\ Goto(c, IF waiting[s] = None THEN "evict" ELSE "send")
    /\ UNCHANGED <<open, table, obj, sess, sent>>

TakeWaiting(c) ==
    /\ pc[c] = "take"
    /\ waiting' = [waiting EXCEPT ![Sid(c)] = None]
    /\ taken' = [taken EXCEPT ![c] = waiting[Sid(c)]]
    /\ Goto(c, IF waiting[Sid(c)] = None THEN "evict" ELSE "send")
    /\ UNCHANGED <<open, table, obj, sess, sent>>

\* Faulty variant: the task looks for another peer after handing over.
HandOverAgain(c) ==
    /\ pc[c] = "send"
    /\ taken' = [taken EXCEPT ![c] = None]
    /\ IF pc[taken[c]] \in ReceiverPCs
         THEN /\ sent' = [sent EXCEPT ![taken[c]] = c]
              /\ Goto(c, "take")
         ELSE /\ Goto(c, "evict")
              /\ UNCHANGED sent
    /\ UNCHANGED <<open, table, obj, sess, waiting>>

HandOver(c) ==
    /\ pc[c] = "send"
    /\ taken' = [taken EXCEPT ![c] = None]
    /\ IF pc[taken[c]] \in ReceiverPCs
         THEN /\ sent' = [sent EXCEPT ![taken[c]] = c]
              /\ Goto(c, "parked")
         ELSE /\ Goto(c, "evict")
              /\ UNCHANGED sent
    /\ UNCHANGED <<open, table, obj, sess, waiting>>

\* No waiting peer, or one that is gone: remove_session and close.
Evict(c) ==
    /\ pc[c] = "evict"
    /\ table' = [table EXCEPT ![Sid(c)] = None]
    /\ Close({c})
    /\ Goto(c, "done")
    /\ UNCHANGED <<obj, sess, waiting, taken, sent>>

ParkedCloses(c) ==
    /\ pc[c] = "parked"
    /\ ~open[c]
    /\ Goto(c, "done")
    /\ UNCHANGED <<open, table, obj, sess, waiting, taken, sent>>

-----------------------------------------------------------------------------
\* The endpoints, the network and RelayServer::shutdown close connections.

PeerCloses(c) ==
    /\ open[c]
    /\ Close({c})
    /\ UNCHANGED <<pc, table, obj, sess, waiting, taken, sent>>

Shutdown ==
    /\ \E c \in Conns : open[c]
    /\ Close(Conns)
    /\ UNCHANGED <<pc, table, obj, sess, waiting, taken, sent>>

Task(c) ==
    \/ HandshakeFails(c)
    \/ RegisterRejected(c)
    \/ Register(c)
    \/ InsertWaiting(c)
    \/ Responded(c)
    \/ ResponseFails(c)
    \/ ReceivePeer(c)
    \/ SenderDropped(c)
    \/ ClosedWhileWaiting(c)
    \/ LeaveWaiting(c)
    \/ ForwardEnds(c)
    \/ Unregister(c)
    \/ TakeWaiting(c)
    \/ HandOver(c)
    \/ Evict(c)
    \/ ParkedCloses(c)

Next ==
    \/ \E c \in Conns : Task(c) \/ PeerCloses(c)
    \/ Shutdown

\* The runtime polls every ready task.  A handshake is only sure to end once
\* its connection is closed: reading the token has no timeout of its own.
Fairness ==
    \A c \in Conns :
        WF_vars(Task(c) /\ (pc[c] # "handshake" \/ ~open[c]))

Spec == Init /\ [][Next]_vars /\ Fairness

-----------------------------------------------------------------------------
\* Properties.

\* An endpoint of the session has registered more than once.
Retried(s) ==
    \E c, d \in Conns : /\ c # d /\ Sid(c) = s /\ Sid(d) = s
                       /\ Token[c].role = Token[d].role
                       /\ sess[c] # None /\ sess[d] # None

\* A oneshot channel only ever carries a connection of the same session, and
\* forward_session bridges one Client with one Host unless an endpoint of the
\* session has connected twice.  The receiving task ignores the role it is
\* handed (server.rs, _peer_role), and the waiting map is keyed by session id
\* alone: after a retry it may hand a connection to its own predecessor.
PairsUnlessRetried ==
    \A c \in Conns :
        sent[c] # None => /\ Sid(sent[c]) = Sid(c)
                          /\ Token[sent[c]].role # Token[c].role \/ Retried(Sid(c))

\* Without such a retry the two bridged tasks hold one RelaySession object, so
\* traffic in both directions is accounted to it and terminate() reaches it.
SharedUnlessRetried ==
    \A c \in Conns :
        pc[c] = "forward" => sess[sent[c]] = sess[c] \/ Retried(Sid(c))

\* A connection is bridged at most once: nobody is handed a connection that
\* another task was handed, or that is itself waiting to be handed one.
BridgedOnce ==
    \A c, d \in Conns :
        sent[c] # None => /\ sent[d] = sent[c] => d = c
                          /\ sent[sent[c]] = None

\* A session that forward_session terminated stays in the table only until
\* the task that terminated it removes it: no endpoint can join it later.
TerminatedLeavesTable ==
    \A s \in Sessions :
        table[s] # None /\ obj[table[s]].terminated
            => \E c \in Conns : pc[c] = "unregister" /\ sess[c] = table[s]

\* An entry outlives every task that registered in it only when a handshake
\* response could not be written: each other exit removes it.
LeftoverOnlyUnanswered ==
    \A s \in Sessions :
        table[s] # None =>
            \E c \in Conns : /\ sess[c] = table[s]
                             /\ pc[c] # "done"

\* The life of a RelaySession object: bridged tasks share it, it leaves the table when it
\* is terminated, and nothing but an unwritten handshake response leaves it behind.
SessionsAccounted ==
    SharedUnlessRetried /\ TerminatedLeavesTable /\ LeftoverOnlyUnanswered

IsClosed(c) == ~open[c]

\* Once the connection of a task is closed the task comes to an end: no wait
\* on a peer, on a channel or on the connection itself outlives it.
ClosedTaskEnds ==
    \A c \in Conns : IsClosed(c) ~> pc[c] \in Finished

\* Once a bridged connection is closed, its peer is closed too.
BridgeClosesBoth ==
    \A c \in Conns :
        (pc[c] = "forward" /\ \E d \in {c, sent[c]} : IsClosed(d))
            ~> (sent[c] # None /\ \A d \in {c, sent[c]} : IsClosed(d))

\* A closed connection ends its task, and through forward_session its peer's.
ClosingEnds == ClosedTaskEnds /\ BridgeClosesBoth
=============================================================================
