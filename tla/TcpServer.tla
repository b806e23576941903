----------------------------- MODULE TcpServer -----------------------------
(***************************************************************************)
(* The listening side of the TCP interface (class TCPHandlerImpl).         *)
(*                                                                         *)
(* One thread, m_Handler, runs the io_context: the coroutine accept and    *)
(* the read handlers of the connections.  The coroutine gives the thread   *)
(* up only while it waits for the next client ("accepting") and in the     *)
(* post of the loop that waits for a free slot ("posted"); a read handler  *)
(* runs only then.  A second thread, the handler thread of RemoteManager,  *)
(* goes through m_Connections in sendToAllConnections without a lock.      *)
(*                                                                         *)
(* A client connects once; whoever comes back is another client.           *)
(***************************************************************************)
EXTENDS Naturals, Sequences, FiniteSets

CONSTANTS MaxHandle,   (* network::connectionHandleMAXValue                *)
          Clients,
          NoClient,    (* the value of a free slot of m_Connections        *)
          MaxRelays    (* bound: calls of sendToAllConnections             *)

ASSUME HandleAssumption == MaxHandle \in Nat \ {0}
ASSUME ClientAssumption == NoClient \notin Clients
ASSUME BoundAssumption == MaxRelays \in Nat

Handles == 1..MaxHandle

VARIABLES
    mHandler,     (* the io thread: "created", "running", "returned"       *)
    stopFlag,     (* m_StopFlag; io_context::stop comes with it            *)
    acceptor,     (* where accept is: "unspawned", "spawned", "cleanup",   *)
                  (* "posted", "accepting", "inserted", "ended"            *)
    handle,       (* its local variable: the next handle to try            *)
    connections,  (* m_Connections: connections[h] is NoClient or a client *)
    disconnected, (* m_DisconnectedConnections                             *)
    callback,     (* callback[c]: the handle bound to m_DisconnectCallback *)
    reading,      (* the clients whose connection has a read outstanding   *)
    backlog,      (* clients that wait to be accepted, in order            *)
    peer,         (* peer[c]: "away", "open", "closed" or "vanished"       *)
    relay,        (* sendToAllConnections: the handle it is at, 0 for none *)
    torn,         (* the map changed since the relay got to that handle    *)
    relays,       (* number of relays so far                               *)
    missed        (* clients the relay has not reached (yet)               *)

server == <<mHandler, stopFlag, acceptor, handle, connections, disconnected,
            callback, reading>>
relaying == <<relay, relays, missed>>
vars == <<server, backlog, peer, torn, relaying>>

Used == {h \in Handles : connections[h] # NoClient}

Init ==
    /\ mHandler = "created"
    /\ stopFlag = FALSE
    /\ acceptor = "unspawned"
    /\ handle = 1
    /\ connections = [h \in Handles |-> NoClient]
    /\ disconnected = <<>>
    /\ callback = [c \in Clients |-> 1]
    /\ reading = {}
    /\ backlog = <<>>
    /\ peer = [c \in Clients |-> "away"]
    /\ relay = 0 /\ torn = FALSE /\ relays = 0 /\ missed = {}

-----------------------------------------------------------------------------
(* The clients *)

Connect(c) ==
    /\ peer[c] = "away"
    /\ peer' = [peer EXCEPT ![c] = "open"]
    /\ backlog' = Append(backlog, c)
    /\ UNCHANGED <<server, torn, relaying>>

(* A client closes its end, or is gone without a word.                     *)
Leave(c) ==
    /\ peer[c] = "open"
    /\ \E how \in {"closed", "vanished"} : peer' = [peer EXCEPT ![c] = how]
    /\ UNCHANGED <<server, backlog, torn, relaying>>

-----------------------------------------------------------------------------
(* Construction and destruction *)

(* The last line of the constructor; m_Handler exists already.             *)
Spawn ==
    /\ acceptor = "unspawned"
    /\ acceptor' = "spawned"
    /\ UNCHANGED <<mHandler, stopFlag, handle, connections, disconnected,
                   callback, reading, backlog, peer, torn, relaying>>

(* io_context::run returns at once, for good, when it finds no work.       *)
Run ==
    /\ mHandler = "created"
    /\ mHandler' = IF acceptor = "unspawned" \/ stopFlag THEN "returned" ELSE "running"
    /\ UNCHANGED <<stopFlag, acceptor, handle, connections, disconnected,
                   callback, reading, backlog, peer, torn, relaying>>

Stop ==
    /\ acceptor # "unspawned"
    /\ ~stopFlag
    /\ stopFlag' = TRUE
    /\ UNCHANGED <<mHandler, acceptor, handle, connections, disconnected,
                   callback, reading, backlog, peer, torn, relaying>>

Suspended == acceptor \in {"spawned", "posted", "accepting", "ended"}

RunReturns ==
    /\ mHandler = "running"
    /\ stopFlag
    /\ Suspended
    /\ mHandler' = "returned"
    /\ UNCHANGED <<stopFlag, acceptor, handle, connections, disconnected,
                   callback, reading, backlog, peer, torn, relaying>>

-----------------------------------------------------------------------------
(* The coroutine accept *)

(* The head of the outer loop.                                             *)
Begin ==
    /\ mHandler = "running"
    /\ acceptor = "inserted" \/ (acceptor = "spawned" /\ ~stopFlag)
    /\ acceptor' = IF stopFlag THEN "ended" ELSE "cleanup"
    /\ UNCHANGED <<mHandler, stopFlag, handle, connections, disconnected,
                   callback, reading, backlog, peer, torn, relaying>>

CleanupNewest ==
    /\ acceptor = "cleanup"
    /\ disconnected # <<>>
    /\ disconnected' = Tail(disconnected)
    /\ connections' = [connections EXCEPT ![disconnected[Len(disconnected)]] = NoClient]
    /\ torn' = (relay # 0)
    /\ UNCHANGED <<mHandler, stopFlag, acceptor, handle, callback, reading,
                   backlog, peer, relaying>>

(* One turn of cleanupDisconnectedSessions.                                *)
Cleanup ==
    /\ acceptor = "cleanup"
    /\ disconnected # <<>>
    /\ disconnected' = Tail(disconnected)
    /\ connections' = [connections EXCEPT ![Head(disconnected)] = NoClient]
    /\ torn' = (relay # 0)
    /\ UNCHANGED <<mHandler, stopFlag, acceptor, handle, callback, reading,
                   backlog, peer, relaying>>

(* Too many sessions: let the read handlers run, then look again.          *)
Post ==
    /\ acceptor = "cleanup"
    /\ disconnected = <<>>
    /\ Cardinality(Used) >= MaxHandle
    /\ acceptor' = "posted"
    /\ UNCHANGED <<mHandler, stopFlag, handle, connections, disconnected,
                   callback, reading, backlog, peer, torn, relaying>>

SpinOnPost ==
    /\ mHandler = "running" /\ ~stopFlag
    /\ acceptor = "posted"
    /\ acceptor' = IF Cardinality(Used) >= MaxHandle THEN "posted" ELSE "cleanup"
    /\ UNCHANGED <<mHandler, stopFlag, handle, connections, disconnected,
                   callback, reading, backlog, peer, torn, relaying>>

Resume ==
    /\ mHandler = "running" /\ ~stopFlag
    /\ acceptor = "posted"
    /\ acceptor' = "cleanup"
    /\ UNCHANGED <<mHandler, stopFlag, handle, connections, disconnected,
                   callback, reading, backlog, peer, torn, relaying>>

SuccTooFar(h) == IF h > MaxHandle THEN 1 ELSE h + 1

Succ(h) == IF h >= MaxHandle THEN 1 ELSE h + 1

(* The handles tried on the way from g to h, h not included.               *)
Tried(g, h) == IF g <= h THEN g..(h - 1) ELSE (g..MaxHandle) \cup (1..(h - 1))

(* try_emplace fails for the handles in use; for the first free one it     *)
(* constructs a connection, which waits for a client.                      *)
Listen ==
    /\ acceptor = "cleanup"
    /\ disconnected = <<>>
    /\ Cardinality(Used) < MaxHandle
    /\ \E h \in Handles \ Used : Tried(handle, h) \subseteq Used /\ handle' = h
    /\ acceptor' = "accepting"
    /\ UNCHANGED <<mHandler, stopFlag, connections, disconnected, callback,
                   reading, backlog, peer, torn, relaying>>

BindNextHandle ==
    /\ mHandler = "running" /\ ~stopFlag
    /\ acceptor = "accepting"
    /\ backlog # <<>>
    /\ backlog' = Tail(backlog)
    /\ connections' = [connections EXCEPT ![handle] = Head(backlog)]
    /\ callback' = [callback EXCEPT ![Head(backlog)] = Succ(handle)]
    /\ reading' = reading \cup {Head(backlog)}
    /\ handle' = Succ(handle)
    /\ acceptor' = "inserted"
    /\ torn' = (relay # 0)
    /\ UNCHANGED <<mHandler, stopFlag, disconnected, peer, relaying>>

(* The accept completes: the connection starts to read and is inserted     *)
(* under the handle its disconnect callback is bound to.                   *)
Accepted ==
    /\ mHandler = "running" /\ ~stopFlag
    /\ acceptor = "accepting"
    /\ backlog # <<>>
    /\ backlog' = Tail(backlog)
    /\ connections' = [connections EXCEPT ![handle] = Head(backlog)]
    /\ callback' = [callback EXCEPT ![Head(backlog)] = handle]
    /\ reading' = reading \cup {Head(backlog)}
    /\ handle' = Succ(handle)
    /\ acceptor' = "inserted"
    /\ torn' = (relay # 0)
    /\ UNCHANGED <<mHandler, stopFlag, disconnected, peer, relaying>>

-----------------------------------------------------------------------------
(* readHandler, after the last message of a client *)

DisconnectAndReadOn(c) ==
    /\ mHandler = "running" /\ ~stopFlag
    /\ Suspended
    /\ c \in reading
    /\ peer[c] = "closed"
    /\ c \notin {connections[disconnected[i]] : i \in DOMAIN disconnected}
    /\ disconnected' = Append(disconnected, callback[c])
    /\ UNCHANGED <<mHandler, stopFlag, acceptor, handle, connections, callback,
                   reading, backlog, peer, torn, relaying>>

(* End of file or connection reset: disconnect.                            *)
Disconnect(c) ==
    /\ mHandler = "running" /\ ~stopFlag
    /\ Suspended
    /\ c \in reading
    /\ peer[c] = "closed"
    /\ reading' = reading \ {c}
    /\ disconnected' = Append(disconnected, callback[c])
    /\ UNCHANGED <<mHandler, stopFlag, acceptor, handle, connections, callback,
                   backlog, peer, torn, relaying>>

(* Any other error: nothing reads any more, the connection stays.          *)
ReadFails(c) ==
    /\ mHandler = "running" /\ ~stopFlag
    /\ Suspended
    /\ c \in reading
    /\ peer[c] = "vanished"
    /\ reading' = reading \ {c}
    /\ UNCHANGED <<mHandler, stopFlag, acceptor, handle, connections, disconnected,
                   callback, backlog, peer, torn, relaying>>

-----------------------------------------------------------------------------
(* sendToAllConnections, in the handler thread of RemoteManager *)

After(h) == {g \in Used : g > h}
FirstOf(s) == IF s = {} THEN 0 ELSE CHOOSE h \in s : \A g \in s : h <= g

StartRelay ==
    /\ relay = 0
    /\ relays < MaxRelays
    /\ Used # {}
    /\ relay' = FirstOf(Used)
    /\ torn' = FALSE
    /\ relays' = relays + 1
    /\ missed' = {connections[h] : h \in Used}
    /\ UNCHANGED <<server, backlog, peer>>

(* Send to the connection the iterator is at and step on.  When the other  *)
(* thread inserts or erases meanwhile, the step is a data race on the tree *)
(* (or on a freed node): it may end anywhere behind, or at the end.        *)
RelayStep ==
    /\ relay # 0
    /\ missed' = missed \ {connections[relay]}
    /\ relay' \in IF torn THEN After(relay) \cup {0} ELSE {FirstOf(After(relay))}
    /\ torn' = FALSE
    /\ UNCHANGED <<server, backlog, peer, relays>>

-----------------------------------------------------------------------------
Accept == Begin \/ Cleanup \/ Post \/ Resume \/ Listen \/ Accepted

Next ==
    \/ \E c \in Clients : Connect(c) \/ Leave(c) \/ Disconnect(c) \/ ReadFails(c)
    \/ Spawn \/ Run \/ Stop \/ RunReturns
    \/ Accept
    \/ StartRelay \/ RelayStep

Spec == Init /\ [][Next]_vars

(* The constructor and the two threads run.  The queue of the io_context   *)
(* is first-in first-out, so the coroutine that posts itself again and     *)
(* again does not keep a read handler away (strong fairness).  No client   *)
(* has to come or to leave, and one that vanished may never be noticed.    *)
Fairness ==
    /\ WF_vars(Spawn) /\ WF_vars(Run) /\ WF_vars(RunReturns)
    /\ WF_vars(Accept) /\ WF_vars(RelayStep)
    /\ \A c \in Clients : SF_vars(Disconnect(c))

FairSpec == Spec /\ Fairness

-----------------------------------------------------------------------------
(* Properties *)

(* Types, and: every queued handle is one the loop can have given out.     *)
TypeOK ==
    /\ mHandler \in {"created", "running", "returned"}
    /\ stopFlag \in BOOLEAN
    /\ acceptor \in {"unspawned", "spawned", "cleanup", "posted", "accepting",
                     "inserted", "ended"}
    /\ handle \in Handles
    /\ connections \in [Handles -> Clients \cup {NoClient}]
    /\ disconnected \in Seq(Handles)
    /\ callback \in [Clients -> Handles]
    /\ reading \in SUBSET Clients
    /\ backlog \in Seq(Clients)
    /\ peer \in [Clients -> {"away", "open", "closed", "vanished"}]
    /\ relay \in Handles \cup {0}
    /\ torn \in BOOLEAN
    /\ relays \in 0..MaxRelays
    /\ missed \in SUBSET Clients

(* The read handler is bound to the connection's address: whoever has a    *)
(* read outstanding is still in the map, under the handle its disconnect   *)
(* callback will name.                                                     *)
ReaderInMap == \A c \in reading : connections[callback[c]] = c

(* A handle waits at most once to be cleaned up, and until then belongs to *)
(* a client that has closed and is not read from: handles are reused, and  *)
(* a second disconnect would throw out the next client under that handle.  *)
QueuedIsDead ==
    /\ \A i, j \in DOMAIN disconnected : disconnected[i] = disconnected[j] => i = j
    /\ \A i \in DOMAIN disconnected :
           \E c \in Clients \ reading :
               connections[disconnected[i]] = c /\ peer[c] = "closed"

(* The slot the next connection is constructed for is free, however many   *)
(* handlers ran while the coroutine waited: an accepted client is never    *)
(* dropped by try_emplace.                                                 *)
RoomForNext == acceptor = "accepting" => connections[handle] = NoClient

(* Map, read handlers, queued disconnects and the accept loop agree on who *)
(* holds a handle, although handles are reused in all of them.             *)
HandlesConsistent == ReaderInMap /\ QueuedIsDead /\ RoomForNext

(* A connection is erased only after its client has closed.                *)
OnlyClosedErased ==
    [][\A h \in Handles : connections'[h] # connections[h] =>
           connections[h] = NoClient \/ peer[connections[h]] = "closed"]_vars

(* Unless the server has been stopped, its thread returned before there    *)
(* was work for it, or every slot is held by a client that has not closed, *)
(* a client that waits is accepted; after a disconnect in particular.      *)
Waits(c) == \E i \in DOMAIN backlog : backlog[i] = c

HeldByOthers == \A h \in Handles : h \in Used /\ peer[connections[h]] # "closed"

WaitingIsServed ==
    \A c \in Clients :
        Waits(c) ~> (~Waits(c) \/ stopFlag \/ mHandler = "returned" \/ HeldByOthers)

(* "i received a msg, i will just relay the message to all the remote      *)
(* peer(s)" (RemoteManager.cpp:39): when a relay is over, it has reached   *)
(* every client that was connected when it began and still is.             *)
RelayReachesAll ==
    relay = 0 => \A c \in missed : peer[c] # "open"
=============================================================================
