--------------------------- MODULE TcpConnection ---------------------------
(***************************************************************************)
(* The sending half of one TCP connection (class connection).              *)
(*                                                                         *)
(* sendMessage hands a send function to m_SendHandler; its thread launches *)
(* the write with std::async and keeps the future in m_SendOperations.     *)
(* The destructor hands over a function that waits for the futures left;   *)
(* then the members go in reverse order: m_SendHandler (its destructor     *)
(* joins the thread), the futures, and later the socket.                   *)
(*                                                                         *)
(* m_SendHandler is used as SerializeFunctions proves it to be: a first-in *)
(* first-out executor, functions is what it still has to call.  A write    *)
(* is a loop of write_some calls in a thread of its own; each call puts    *)
(* one of the message's Chunks pieces on the wire or fails when the peer   *)
(* has gone.  Messages are numbered in the order of the sendMessage calls. *)
(***************************************************************************)
EXTENDS Naturals, Sequences, FiniteSets

CONSTANTS MaxMessages,   (* bound: sendMessage calls                       *)
          Chunks         (* write_some calls one message needs             *)

ASSUME BoundsAssumption == MaxMessages \in Nat \ {0} /\ Chunks \in Nat \ {0}

Messages == 1..MaxMessages

(* The functions of the destructors, after the sends 1, 2, ...             *)
WaitForWrites == MaxMessages + 1
StopHandler == MaxMessages + 2

VARIABLES
    connection,   (* "alive", "waiting" for the handler's join, "joined",  *)
                  (* or "destroyed"                                        *)
    peer,         (* the other end reads, or is "gone"                     *)
    sent,         (* number of sendMessage calls                           *)
    functions,    (* handed over to m_SendHandler, not called yet          *)
    sendHandler,  (* its thread: "idle", "reaping", "draining", "ended"    *)
    operations,   (* m_SendOperations: the messages whose future it holds  *)
    write,        (* write[m]: "none", "running", "done"                   *)
    wire          (* pieces written, in order: the message of each         *)

vars == <<connection, peer, sent, functions, sendHandler, operations, write, wire>>

Init ==
    /\ connection = "alive"
    /\ peer = "reads"
    /\ sent = 0
    /\ functions = <<>>
    /\ sendHandler = "idle"
    /\ operations = <<>>
    /\ write = [m \in Messages |-> "none"]
    /\ wire = <<>>

Written(m) == Cardinality({i \in DOMAIN wire : wire[i] = m})

-----------------------------------------------------------------------------
(* The owner of the connection *)

sendMessage ==
    /\ connection = "alive"
    /\ sent < MaxMessages
    /\ sent' = sent + 1
    /\ functions' = Append(functions, sent')
    /\ UNCHANGED <<connection, peer, sendHandler, operations, write, wire>>

(* ~connection, then the destructor of m_SendHandler up to its join.       *)
Destroy ==
    /\ connection = "alive"
    /\ connection' = "waiting"
    /\ functions' = functions \o <<WaitForWrites, StopHandler>>
    /\ UNCHANGED <<peer, sent, sendHandler, operations, write, wire>>

Joined ==
    /\ connection = "waiting"
    /\ sendHandler = "ended"
    /\ connection' = "joined"
    /\ UNCHANGED <<peer, sent, functions, sendHandler, operations, write, wire>>

(* The destructor of a future of std::async waits for its thread; then the *)
(* other members go, the socket among them.                                *)
CloseSocket ==
    /\ connection = "joined"
    /\ \A i \in DOMAIN operations : write[operations[i]] = "done"
    /\ connection' = "destroyed"
    /\ UNCHANGED <<peer, sent, functions, sendHandler, operations, write, wire>>

PeerGone ==
    /\ peer = "reads"
    /\ peer' = "gone"
    /\ UNCHANGED <<connection, sent, functions, sendHandler, operations, write, wire>>

-----------------------------------------------------------------------------
(* The thread of m_SendHandler *)

NextFunction(f) ==
    /\ sendHandler = "idle"
    /\ functions # <<>>
    /\ Head(functions) = f
    /\ functions' = Tail(functions)

LaunchDetached ==
    \E m \in Messages :
        /\ NextFunction(m)
        /\ write' = [write EXCEPT ![m] = "running"]
        /\ operations' = <<m>>
        /\ sendHandler' = "reaping"
        /\ UNCHANGED <<connection, peer, sent, wire>>

(* A send function: add the next operation asynchronously ...              *)
LaunchWrite ==
    \E m \in Messages :
        /\ NextFunction(m)
        /\ write' = [write EXCEPT ![m] = "running"]
        /\ operations' = Append(operations, m)
        /\ sendHandler' = "reaping"
        /\ UNCHANGED <<connection, peer, sent, wire>>

WaitOperation ==
    /\ operations # <<>>
    /\ write[Head(operations)] = "done"
    /\ UNCHANGED vars

PopOperation ==
    /\ operations # <<>>
    /\ write[Head(operations)] = "done"
    /\ operations' = Tail(operations)
    /\ UNCHANGED <<connection, peer, sent, functions, sendHandler, write, wire>>

(* ... then drop the futures at the front that are ready ...               *)
Reap == sendHandler = "reaping" /\ PopOperation

(* ... up to the first one that is not ready within a microsecond.         *)
ReapDone ==
    /\ sendHandler = "reaping"
    /\ operations # <<>> => write[Head(operations)] # "done"
    /\ sendHandler' = "idle"
    /\ UNCHANGED <<connection, peer, sent, functions, operations, write, wire>>

(* The function of ~connection waits for every future in turn.             *)
StartDrain ==
    /\ NextFunction(WaitForWrites)
    /\ sendHandler' = "draining"
    /\ UNCHANGED <<connection, peer, sent, operations, write, wire>>

Drain == sendHandler = "draining" /\ PopOperation

DrainDone ==
    /\ sendHandler = "draining"
    /\ operations = <<>>
    /\ sendHandler' = "idle"
    /\ UNCHANGED <<connection, peer, sent, functions, operations, write, wire>>

EndEarly ==
    /\ sendHandler = "idle"
    /\ connection = "waiting"
    /\ sendHandler' = "ended"
    /\ UNCHANGED <<connection, peer, sent, functions, operations, write, wire>>

EndHandler ==
    /\ NextFunction(StopHandler)
    /\ sendHandler' = "ended"
    /\ UNCHANGED <<connection, peer, sent, operations, write, wire>>

-----------------------------------------------------------------------------
(* The thread of one write *)

SwallowChunk(m) ==
    /\ write[m] = "running"
    /\ IF peer = "gone"
       THEN /\ write' = [write EXCEPT ![m] = "done"]
            /\ UNCHANGED wire
       ELSE /\ wire' = Append(wire, m)
            /\ write' = [write EXCEPT ![m] = "done"]
    /\ UNCHANGED <<connection, peer, sent, functions, sendHandler, operations>>

(* One write_some: the last piece, or the failure, ends the operation; the *)
(* exception stays in the future, nobody looks at it.                      *)
WriteSome(m) ==
    /\ write[m] = "running"
    /\ IF peer = "gone"
       THEN /\ write' = [write EXCEPT ![m] = "done"]
            /\ UNCHANGED wire
       ELSE /\ wire' = Append(wire, m)
            /\ write' = IF Written(m) + 1 = Chunks
                        THEN [write EXCEPT ![m] = "done"] ELSE write
    /\ UNCHANGED <<connection, peer, sent, functions, sendHandler, operations>>

-----------------------------------------------------------------------------
SendHandler ==
    LaunchWrite \/ Reap \/ ReapDone \/ StartDrain \/ Drain \/ DrainDone \/ EndHandler

Next ==
    \/ sendMessage \/ Destroy \/ Joined \/ CloseSocket \/ PeerGone
    \/ SendHandler
    \/ \E m \in Messages : WriteSome(m)

Spec == Init /\ [][Next]_vars

(* The threads run, and a write goes on: the peer reads, or TCP gives it   *)
(* up.  Nobody has to send or to destroy the connection.                   *)
Fairness ==
    /\ WF_vars(SendHandler)
    /\ WF_vars(Joined)
    /\ WF_vars(CloseSocket)
    /\ \A m \in Messages : WF_vars(WriteSome(m))

FairSpec == Spec /\ Fairness

-----------------------------------------------------------------------------
(* Properties *)

(* Types, and: the thread has ended only after its last function.          *)
TypeOK ==
    /\ connection \in {"alive", "waiting", "joined", "destroyed"}
    /\ peer \in {"reads", "gone"}
    /\ sent \in 0..MaxMessages
    /\ functions \in Seq(Messages \cup {WaitForWrites, StopHandler})
    /\ sendHandler \in {"idle", "reaping", "draining", "ended"}
    /\ sendHandler = "ended" => functions = <<>>
    /\ operations \in Seq(Messages)
    /\ write \in [Messages -> {"none", "running", "done"}]
    /\ wire \in Seq(Messages)

(* A write holds a pointer to the connection: none runs when the socket is *)
(* destroyed, although a write may outlive the function that launched it   *)
(* by any time ("wait for writes to be finished", TCPHandler.cpp:57).      *)
NoWriteAfterDestruction ==
    connection = "destroyed" => \A m \in Messages : write[m] # "running"

(* A connection that is destroyed while the peer still reads has written   *)
(* every message it was given, whole.                                      *)
AllSentBeforeDestruction ==
    connection = "destroyed" /\ peer = "reads" =>
        \A m \in 1..sent : Written(m) = Chunks

(* Every message is written or the peer has gone, and the destruction of a *)
(* connection ends, also in the io thread, which runs it in                *)
(* cleanupDisconnectedSessions and serves nobody meanwhile.                *)
SendsAndDestructionEnd ==
    /\ \A m \in Messages : sent >= m ~> (Written(m) = Chunks \/ peer = "gone")
    /\ connection = "waiting" ~> connection = "destroyed"

(* "ensure that previous operations are already handled"                   *)
(* (TCPHandler.cpp:80): a socket has one write at a time, so messages      *)
(* reach the peer whole and in order.  The code only polls for a           *)
(* microsecond and goes on: two writes may run at once.                    *)
WholeMessagesInOrder ==
    \A i, j \in DOMAIN wire : i < j => wire[i] <= wire[j]
=============================================================================
