---------------------------- MODULE SendQueueInv ----------------------------
(***************************************************************************)
(* The inductive invariant behind the properties of SendQueue.             *)
(***************************************************************************)
EXTENDS SendQueue

(* The messages in the queue are the last ones pushed. *)
Numbered ==
  /\ Len(sendQue) <= nsent
  /\ \A i \in 1 .. Len(sendQue) : sendQue[i] = nsent - Len(sendQue) + i

(* The stream stream_ points to exists, and only that one can be in use. *)
OthersGone ==
  /\ stream \in Runs => sock[stream] # "none"
  /\ \A s \in Runs : s # stream => sock[s] \in {"none", "destroyed"}

(* Nothing is queued before the first connect. *)
QueueHasStream == sendQue # <<>> => stream \in Runs

(* Nothing has been received on a stream that was never connected. *)
UnconnectedSilent == \A s \in Runs : sock[s] \in {"none", "connecting"} => wire[s] = <<>>

(* A write under way is on a real stream; one that failed failed for good. *)
WriterOnStream ==
  \A w \in writers :
    /\ w.st \in {"writing", "sent"} => w.on \in Runs
    /\ w.on \in Runs => sock[w.on] # "none"
    /\ w.st = "failed" /\ w.on \in Runs => sock[w.on] \notin {"connecting", "open"}

(* While a writer waits for a write on a stream that has been replaced, the
   stream that replaced it has received nothing. *)
StaleWriter ==
  \A w \in writers : w.st # "spawned" /\ w.on # stream /\ stream \in Runs => wire[stream] = <<>>

(* The number of the last message that is out of the queue or delivered. *)
Delivered == nsent - Len(sendQue) + (IF \E w \in writers : w.st = "sent" THEN 1 ELSE 0)

WireBounded == \A s \in Runs : \A i \in 1 .. Len(wire[s]) : wire[s][i] <= Delivered

(* The connection in use ends with the last message delivered. *)
WireCurrent ==
  stream \in Runs /\ sock[stream] = "open" /\ wire[stream] # <<>> =>
    wire[stream][Len(wire[stream])] = Delivered

SendInv ==
  /\ SendTypeOK
  /\ OneWriter
  /\ BufferAlive
  /\ Numbered
  /\ OthersGone
  /\ QueueHasStream
  /\ UnconnectedSilent
  /\ WriterOnStream
  /\ StaleWriter
  /\ WireBounded
  /\ WireCurrent
  /\ Contiguous
  /\ AtMostOnce
=============================================================================
