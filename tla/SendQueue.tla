------------------------------ MODULE SendQueue ------------------------------
(***************************************************************************)
(* The outgoing half of client_impl: the socket stream_ points to, the     *)
(* queue send_que_ of encoded messages, and the writer coroutines that     *)
(* send_raw_data spawns to drain it.                                       *)
(*                                                                         *)
(* Every handler of the code runs on one strand, so an action is what the  *)
(* strand executes between two suspensions.  A message is the number of    *)
(* send_raw_data calls executed before it, plus one.  A stream is named by *)
(* the run of co_run that created it; the queue, unlike the stream,        *)
(* belongs to no run and outlives each of them.                            *)
(***************************************************************************)
EXTENDS Naturals, Sequences

CONSTANTS Runs,      \* the runs of co_run, each creating at most one stream
          NoStream   \* stream_ before the first connect: a null pointer

ASSUME StreamAssumption == NoStream \notin Runs

VARIABLES
  stream,   \* the stream stream_ points to
  sock,     \* what has become of each stream's socket
  sendQue,  \* send_que_
  writers,  \* the writer coroutines alive, with the write each one waits for
  wire,     \* the messages the peer received on each stream
  nsent     \* how many messages have been pushed

sendVars == <<stream, sock, sendQue, writers, wire, nsent>>

SockState == {"none", "connecting", "open", "broken", "closed", "destroyed"}

(* id: the message whose push spawned the writer; on, buf: the stream and
   the queue element its async_write refers to. *)
Writer == [id : Nat, st : {"spawned", "writing", "sent", "failed"},
           on : Runs \cup {NoStream}, buf : Nat]

SendTypeOK ==
  /\ stream \in Runs \cup {NoStream}
  /\ sock \in [Runs -> SockState]
  /\ sendQue \in Seq(Nat)
  /\ writers \subseteq Writer
  /\ wire \in [Runs -> Seq(Nat)]
  /\ nsent \in Nat

SendInit ==
  /\ stream = NoStream
  /\ sock = [s \in Runs |-> "none"]
  /\ sendQue = <<>>
  /\ writers = {}
  /\ wire = [s \in Runs |-> <<>>]
  /\ nsent = 0

-----------------------------------------------------------------------------
(* An operation on a socket that is closed, or destroyed with its stream,
   completes with an error. *)
Usable(s) == s \in Runs /\ sock[s] \in {"connecting", "open", "broken"}

Aborted(ws, s) ==
  { IF w.st = "writing" /\ w.on = s THEN [w EXCEPT !.st = "failed"] ELSE w : w \in ws }

(* Assigning stream_ drops the last reference to the stream it held. *)
NewStream(s) ==
  /\ sock[s] = "none"
  /\ stream' = s
  /\ sock' = [x \in Runs |-> CASE x = s -> "connecting"
                               [] x = stream -> "destroyed"
                               [] OTHER -> sock[x]]
  /\ writers' = Aborted(writers, stream)
  /\ UNCHANGED <<sendQue, wire, nsent>>

(* Mutant: close() clears send_que_ as well. *)
CloseStream_ClearsQueue ==
  /\ sock' = [x \in Runs |-> IF x = stream THEN "closed" ELSE sock[x]]
  /\ writers' = Aborted(writers, stream)
  /\ sendQue' = <<>>
  /\ UNCHANGED <<stream, wire, nsent>>

(* The stream part of close(): the queue is left as it is. *)
CloseStream ==
  /\ sock' = [x \in Runs |-> IF x = stream THEN "closed" ELSE sock[x]]
  /\ writers' = Aborted(writers, stream)
  /\ UNCHANGED <<stream, sendQue, wire, nsent>>

(* The network: a connection is established, or fails for good. *)
Connected(s) ==
  /\ sock[s] = "connecting"
  /\ sock' = [sock EXCEPT ![s] = "open"]
  /\ UNCHANGED <<stream, sendQue, writers, wire, nsent>>

PeerReset(s) ==
  /\ sock[s] \in {"connecting", "open"}
  /\ sock' = [sock EXCEPT ![s] = "broken"]
  /\ UNCHANGED <<stream, sendQue, writers, wire, nsent>>

-----------------------------------------------------------------------------
(* Mutant: a writer is spawned for every message. *)
SendRawData_AlwaysSpawns(k) ==
  /\ nsent' = nsent + k
  /\ sendQue' = sendQue \o [i \in 1 .. k |-> nsent + i]
  /\ writers' = writers \cup {[id |-> nsent + 1, st |-> "spawned", on |-> NoStream, buf |-> 0]}
  /\ UNCHANGED <<stream, sock, wire>>

(* k calls of send_raw_data in a row, on the strand.  The guard that begins
   it never returns: it asks for a stream that is both absent and open. *)
SendRawData(k) ==
  /\ nsent' = nsent + k
  /\ sendQue' = sendQue \o [i \in 1 .. k |-> nsent + i]
  /\ writers' = IF sendQue = <<>>
                THEN writers \cup {[id |-> nsent + 1, st |-> "spawned", on |-> NoStream, buf |-> 0]}
                ELSE writers
  /\ UNCHANGED <<stream, sock, wire>>

(* The writer's loop condition and its next async_write, when q is left. *)
WriteNext(w, q) ==
  /\ sendQue' = q
  /\ writers' =
       (writers \ {w}) \cup
       (IF q = <<>> THEN {}
        ELSE {[id |-> w.id, on |-> stream, buf |-> Head(q),
               st |-> IF Usable(stream) THEN "writing" ELSE "failed"]})

(* Mutant: the writer takes the message it has written off the wrong end. *)
WriterResume_PopsBack(w) ==
  /\ \/ w.st = "spawned" /\ WriteNext(w, sendQue)
     \/ w.st = "sent" /\ sendQue # <<>> /\ WriteNext(w, SubSeq(sendQue, 1, Len(sendQue) - 1))
     \/ w.st = "failed" /\ sendQue' = <<>> /\ writers' = writers \ {w}
  /\ UNCHANGED <<stream, sock, wire, nsent>>

(* Mutant: a message written on a connection that is gone is written again. *)
WriterResume_WritesAgain(w) ==
  /\ \/ w.st = "spawned" /\ WriteNext(w, sendQue)
     \/ w.st = "sent" /\ sendQue # <<>>
        /\ WriteNext(w, IF Usable(w.on) THEN Tail(sendQue) ELSE sendQue)
     \/ w.st = "failed" /\ sendQue' = <<>> /\ writers' = writers \ {w}
  /\ UNCHANGED <<stream, sock, wire, nsent>>

(* Mutant: the writer ends on an error and leaves the queue as it is. *)
WriterResume_KeepsQueue(w) ==
  /\ \/ w.st = "spawned" /\ WriteNext(w, sendQue)
     \/ w.st = "sent" /\ sendQue # <<>> /\ WriteNext(w, Tail(sendQue))
     \/ w.st = "failed" /\ sendQue' = sendQue /\ writers' = writers \ {w}
  /\ UNCHANGED <<stream, sock, wire, nsent>>

WriterResume(w) ==
  /\ \/ w.st = "spawned" /\ WriteNext(w, sendQue)
     \/ w.st = "sent" /\ sendQue # <<>> /\ WriteNext(w, Tail(sendQue))
     \/ w.st = "failed" /\ sendQue' = <<>> /\ writers' = writers \ {w}
  /\ UNCHANGED <<stream, sock, wire, nsent>>

(* The kernel completes a write: the whole buffer is with the peer, or the
   connection is gone. *)
WriteDone(w) ==
  /\ w.st = "writing" /\ sock[w.on] = "open"
  /\ wire' = [wire EXCEPT ![w.on] = Append(@, w.buf)]
  /\ writers' = (writers \ {w}) \cup {[w EXCEPT !.st = "sent"]}
  /\ UNCHANGED <<stream, sock, sendQue, nsent>>

WriteFail(w) ==
  /\ w.st = "writing" /\ sock[w.on] = "broken"
  /\ writers' = (writers \ {w}) \cup {[w EXCEPT !.st = "failed"]}
  /\ UNCHANGED <<stream, sock, sendQue, wire, nsent>>

-----------------------------------------------------------------------------
(* Any use the rest of the client may make of the queue. *)
SendNext ==
  \/ \E s \in Runs : NewStream(s) \/ Connected(s) \/ PeerReset(s)
  \/ CloseStream
  \/ stream # NoStream /\ \E k \in 1 .. 2 : SendRawData(k)
  \/ \E w \in writers : WriterResume(w) \/ WriteDone(w) \/ WriteFail(w)

SendSpec == SendInit /\ [][SendNext]_sendVars

-----------------------------------------------------------------------------
(* The queue is non-empty exactly while a writer coroutine is alive, and
   there is never a second one: send_raw_data decides whether to spawn a
   writer by looking at the queue alone. *)
OneWriter ==
  /\ (sendQue = <<>>) <=> (writers = {})
  /\ \A v, w \in writers : v = w

(* async_write holds a reference to send_que_.front(): the element it refers
   to is still there, and still the front, whenever the write is under way or
   its completion has not been handled. *)
BufferAlive ==
  \A w \in writers : w.st # "spawned" => sendQue # <<>> /\ w.buf = Head(sendQue)

(* Between two messages that reach the same connection none is lost,
   repeated or reordered, whatever closes, reconnects and failing writes
   happen while the queue is drained. *)
Contiguous ==
  \A s \in Runs : \A i \in 1 .. Len(wire[s]) - 1 : wire[s][i + 1] = wire[s][i] + 1

(* A message that reached one connection is not sent again on another: the
   queue survives a reconnect, what it has delivered does not. *)
AtMostOnce ==
  \A s, t \in Runs : s # t =>
    \A i \in 1 .. Len(wire[s]), j \in 1 .. Len(wire[t]) : wire[s][i] # wire[t][j]
=============================================================================
