------------------------- MODULE ClientSessionProofs -------------------------
(***************************************************************************)
(* What is proved of SendQueue and of ClientSession, for every set of runs *)
(* and every bound.                                                        *)
(*                                                                         *)
(* Of the send queue by itself: its properties hold whatever the order of  *)
(* sends, closes, reconnects and failures.                                 *)
(*                                                                         *)
(* Of the session, for both kinds of application: the types, that its use  *)
(* of the send queue is one SendQueue allows, so that the guarantees hold  *)
(* in every session, and that every run keeps the delegate's contract.     *)
(***************************************************************************)
EXTENDS ClientSession, SendQueueInv, SequenceTheorems, TLAPS

(*************************** The send queue ********************************)

(* k numbered messages, as send_raw_data appends them. *)
LEMMA BatchIsSeq ==
  ASSUME NEW n \in Nat, NEW k \in Nat
  PROVE  LET b == [i \in 1 .. k |-> n + i]
         IN  b \in Seq(Nat) /\ Len(b) = k /\ \A i \in 1 .. k : b[i] = n + i
<1> DEFINE b == [i \in 1 .. k |-> n + i]
<1>1. b \in [1 .. k -> Nat]
  OBVIOUS
<1>2. b \in Seq(Nat)
  BY <1>1, SeqDef
<1>3. Len(b) = k
  BY <1>1, <1>2
<1>4. QED
  BY <1>2, <1>3

(* A writer that is alive is the only one, and the queue is not empty. *)
LEMMA TheWriter ==
  ASSUME OneWriter, NEW w \in writers
  PROVE  writers = {w} /\ sendQue # <<>>
BY DEF OneWriter

(* The front of a numbered queue. *)
LEMMA FrontNumber ==
  ASSUME SendTypeOK, Numbered, sendQue # <<>>
  PROVE  /\ Len(sendQue) \in Nat \ {0}
         /\ Head(sendQue) = nsent - Len(sendQue) + 1
<1>1. sendQue \in Seq(Nat) /\ nsent \in Nat
  BY DEF SendTypeOK
<1>2. Len(sendQue) \in Nat \ {0}
  BY <1>1, EmptySeq
<1>3. Head(sendQue) = sendQue[1]
  BY <1>1
<1>4. QED
  BY <1>1, <1>2, <1>3 DEF Numbered

LEMMA InitInv == SendInit => SendInv
<1> SUFFICES ASSUME SendInit PROVE SendInv
  OBVIOUS
<1> USE DEF SendInit
<1>1. SendTypeOK
  BY DEF SendTypeOK, SockState
<1>2. OneWriter /\ BufferAlive /\ WriterOnStream /\ StaleWriter
  BY DEF OneWriter, BufferAlive, WriterOnStream, StaleWriter
<1>3. Numbered
  BY EmptySeq DEF Numbered
<1>4. OthersGone /\ QueueHasStream /\ UnconnectedSilent /\ WireCurrent
  BY StreamAssumption DEF OthersGone, QueueHasStream, UnconnectedSilent, WireCurrent
<1>5. WireBounded /\ Contiguous /\ AtMostOnce
  BY EmptySeq DEF WireBounded, Contiguous, AtMostOnce
<1>6. QED
  BY <1>1, <1>2, <1>3, <1>4, <1>5 DEF SendInv

(* Failing the writes under way on a stream changes nothing else. *)
LEMMA AbortedWriters ==
  ASSUME SendTypeOK, NEW s
  PROVE  /\ Aborted(writers, s) \subseteq Writer
         /\ (Aborted(writers, s) = {}) <=> (writers = {})
         /\ \A v \in Aborted(writers, s) : \E w \in writers :
              /\ v.id = w.id /\ v.on = w.on /\ v.buf = w.buf
              /\ IF w.st = "writing" /\ w.on = s THEN v.st = "failed" ELSE v.st = w.st
         /\ (\A v, w \in writers : v = w) =>
              \A v, w \in Aborted(writers, s) : v = w
<1>1. \A w \in writers : [w EXCEPT !.st = "failed"] \in Writer
  BY DEF SendTypeOK, Writer
<1>2. \A w \in writers :
        /\ [w EXCEPT !.st = "failed"].id = w.id
        /\ [w EXCEPT !.st = "failed"].on = w.on
        /\ [w EXCEPT !.st = "failed"].buf = w.buf
        /\ [w EXCEPT !.st = "failed"].st = "failed"
  BY DEF SendTypeOK, Writer
<1>3. Aborted(writers, s) \subseteq Writer
  BY <1>1 DEF Aborted, SendTypeOK
<1>4. \A v \in Aborted(writers, s) : \E w \in writers :
        /\ v.id = w.id /\ v.on = w.on /\ v.buf = w.buf
        /\ IF w.st = "writing" /\ w.on = s THEN v.st = "failed" ELSE v.st = w.st
  BY <1>2 DEF Aborted
<1>5. (Aborted(writers, s) = {}) <=> (writers = {})
  BY DEF Aborted
<1>6. ASSUME \A v, w \in writers : v = w,
             NEW a \in Aborted(writers, s), NEW b \in Aborted(writers, s)
      PROVE  a = b
  <2>1. PICK v \in writers :
          a = IF v.st = "writing" /\ v.on = s THEN [v EXCEPT !.st = "failed"] ELSE v
    BY DEF Aborted
  <2>2. PICK w \in writers :
          b = IF w.st = "writing" /\ w.on = s THEN [w EXCEPT !.st = "failed"] ELSE w
    BY DEF Aborted
  <2>3. v = w
    BY <1>6
  <2>4. QED
    BY <2>1, <2>2, <2>3
<1>7. QED
  BY <1>3, <1>4, <1>5, <1>6

-----------------------------------------------------------------------------
(* Steps that change sockets and fail writes: the queue and the wires are as
   they were, no writer has become "sent". *)
LEMMA NewStreamInv ==
  ASSUME SendInv, NEW s \in Runs, NewStream(s)
  PROVE  SendInv'
<1> USE DEF SendInv, NewStream
<1> DEFINE old == Aborted(writers, stream)
<1>0. SendTypeOK
  OBVIOUS
<1>1. /\ old \subseteq Writer
      /\ (old = {}) <=> (writers = {})
      /\ \A v \in old : \E w \in writers :
           /\ v.id = w.id /\ v.on = w.on /\ v.buf = w.buf
           /\ IF w.st = "writing" /\ w.on = stream THEN v.st = "failed" ELSE v.st = w.st
      /\ (\A v, w \in writers : v = w) => \A v, w \in old : v = w
  BY <1>0, AbortedWriters
<1>2. writers' = old /\ stream' = s /\ UNCHANGED <<sendQue, wire, nsent>>
  OBVIOUS
<1> HIDE DEF old
<1>3. SendTypeOK'
  BY <1>1, <1>2 DEF SendTypeOK, SockState
<1>4. OneWriter'
  BY <1>1, <1>2 DEF OneWriter
<1>5. BufferAlive'
  BY <1>1, <1>2 DEF BufferAlive
<1>6. Numbered'
  BY <1>2 DEF Numbered
<1>7. OthersGone' /\ QueueHasStream'
  BY <1>2 DEF OthersGone, QueueHasStream
<1>8. UnconnectedSilent'
  BY <1>2 DEF UnconnectedSilent
<1>9. WriterOnStream'
  <2>1. \A x \in Runs : sock'[x] \in {"connecting", "open"} => x = s
    BY <1>2 DEF OthersGone
  <2>2. \A w \in writers : w.on # s
    BY DEF WriterOnStream
  <2>3. QED
    BY <1>1, <1>2, <2>1, <2>2 DEF WriterOnStream
<1>10. StaleWriter'
  BY <1>2 DEF StaleWriter, UnconnectedSilent
<1>11. Delivered' >= Delivered
  <2>1. \A w \in writers : w.st = "sent" => w \in old
    BY DEF old, Aborted
  <2>2. QED
    BY <1>2, <2>1 DEF Delivered, SendTypeOK
<1>12. WireBounded'
  BY <1>2, <1>11 DEF WireBounded, Delivered, SendTypeOK
<1>13. WireCurrent'
  BY <1>2 DEF WireCurrent, UnconnectedSilent
<1>14. Contiguous' /\ AtMostOnce'
  BY <1>2 DEF Contiguous, AtMostOnce
<1>15. QED
  BY <1>3, <1>4, <1>5, <1>6, <1>7, <1>8, <1>9, <1>10, <1>12, <1>13, <1>14

LEMMA CloseStreamInv ==
  ASSUME SendInv, CloseStream
  PROVE  SendInv'
<1> USE DEF SendInv, CloseStream
<1> DEFINE old == Aborted(writers, stream)
<1>0. SendTypeOK
  OBVIOUS
<1>1. /\ old \subseteq Writer
      /\ (old = {}) <=> (writers = {})
      /\ \A v \in old : \E w \in writers :
           /\ v.id = w.id /\ v.on = w.on /\ v.buf = w.buf
           /\ IF w.st = "writing" /\ w.on = stream THEN v.st = "failed" ELSE v.st = w.st
      /\ (\A v, w \in writers : v = w) => \A v, w \in old : v = w
  BY <1>0, AbortedWriters
<1>2. writers' = old /\ UNCHANGED <<stream, sendQue, wire, nsent>>
  OBVIOUS
<1>3. Delivered' >= Delivered /\ Delivered' \in Int /\ Delivered \in Int
  <2>1. \A w \in writers : w.st = "sent" => w \in old
    BY DEF Aborted
  <2>2. QED
    BY <1>2, <2>1 DEF Delivered, SendTypeOK
<1> HIDE DEF old
<1>4. SendTypeOK'
  BY <1>1, <1>2 DEF SendTypeOK, SockState
<1>5. OneWriter' /\ BufferAlive' /\ Numbered'
  BY <1>1, <1>2 DEF OneWriter, BufferAlive, Numbered
<1>6. OthersGone' /\ QueueHasStream' /\ UnconnectedSilent'
  BY <1>2 DEF OthersGone, QueueHasStream, UnconnectedSilent
<1>7. WriterOnStream'
  BY <1>1, <1>2 DEF WriterOnStream, SendTypeOK
<1>8. StaleWriter'
  BY <1>1, <1>2 DEF StaleWriter
<1>9. WireBounded'
  BY <1>2, <1>3 DEF WireBounded, SendTypeOK
<1>10. WireCurrent'
  BY <1>2 DEF WireCurrent
<1>11. Contiguous' /\ AtMostOnce'
  BY <1>2 DEF Contiguous, AtMostOnce
<1>12. QED
  BY <1>4, <1>5, <1>6, <1>7, <1>8, <1>9, <1>10, <1>11

LEMMA NetworkInv ==
  ASSUME SendInv, NEW s \in Runs, Connected(s) \/ PeerReset(s)
  PROVE  SendInv'
<1> USE DEF SendInv
<1>1. /\ sock[s] \in {"connecting", "open"}
      /\ sock[s] = "connecting" \/ sock' = [sock EXCEPT ![s] = "broken"]
      /\ sock' = [sock EXCEPT ![s] = "open"] \/ sock' = [sock EXCEPT ![s] = "broken"]
      /\ UNCHANGED <<stream, sendQue, writers, wire, nsent>>
  BY DEF Connected, PeerReset
<1>2. SendTypeOK'
  BY <1>1 DEF SendTypeOK, SockState
<1>3. OneWriter' /\ BufferAlive' /\ Numbered' /\ StaleWriter'
  BY <1>1 DEF OneWriter, BufferAlive, Numbered, StaleWriter
<1>4. OthersGone' /\ QueueHasStream' /\ UnconnectedSilent'
  BY <1>1 DEF OthersGone, QueueHasStream, UnconnectedSilent, SendTypeOK
<1>5. WriterOnStream'
  BY <1>1 DEF WriterOnStream, SendTypeOK
<1>6. WireCurrent'
  BY <1>1 DEF WireCurrent, UnconnectedSilent, SendTypeOK, Delivered
<1>7. WireBounded' /\ Contiguous' /\ AtMostOnce'
  BY <1>1 DEF WireBounded, Contiguous, AtMostOnce, Delivered
<1>8. QED
  BY <1>2, <1>3, <1>4, <1>5, <1>6, <1>7

-----------------------------------------------------------------------------
(* The strand pushes messages. *)
LEMMA SendRawDataInv ==
  ASSUME SendInv, NEW k \in Nat \ {0}, stream # NoStream, SendRawData(k)
  PROVE  SendInv'
<1> USE DEF SendInv
<1> DEFINE batch == [i \in 1 .. k |-> nsent + i]
<1>1. sendQue \in Seq(Nat) /\ nsent \in Nat /\ Len(sendQue) \in Nat
  BY DEF SendTypeOK
<1>2. batch \in Seq(Nat) /\ Len(batch) = k /\ \A i \in 1 .. k : batch[i] = nsent + i
  BY <1>1, BatchIsSeq
<1>3. /\ sendQue' = sendQue \o batch /\ nsent' = nsent + k
      /\ UNCHANGED <<stream, sock, wire>>
  BY DEF SendRawData
<1> HIDE DEF batch
<1>4. /\ sendQue' \in Seq(Nat)
      /\ Len(sendQue') = Len(sendQue) + k
      /\ \A i \in 1 .. Len(sendQue) + k :
           sendQue'[i] = IF i <= Len(sendQue) THEN sendQue[i] ELSE batch[i - Len(sendQue)]
  BY <1>1, <1>2, <1>3, ConcatProperties
<1>5. sendQue' # <<>>
  BY <1>1, <1>4, EmptySeq
<1>6. Numbered'
  BY <1>1, <1>2, <1>3, <1>4 DEF Numbered
<1> DEFINE new == [id |-> nsent + 1, st |-> "spawned", on |-> NoStream, buf |-> 0]
<1>7. /\ sendQue = <<>> => writers' = {new}
      /\ sendQue # <<>> => writers' = writers
  BY DEF SendRawData, OneWriter
<1>8. new \in Writer /\ new.st = "spawned" /\ new.on = NoStream
  BY <1>1 DEF Writer
<1> HIDE DEF new
<1>9. SendTypeOK'
  BY <1>1, <1>3, <1>4, <1>7, <1>8 DEF SendTypeOK
<1>10. OneWriter'
  BY <1>5, <1>7 DEF OneWriter
<1>11. sendQue # <<>> => Head(sendQue') = Head(sendQue)
  BY <1>1, <1>4, <1>5, EmptySeq
<1>12. BufferAlive'
  BY <1>5, <1>7, <1>8, <1>11 DEF BufferAlive
<1>13. OthersGone' /\ QueueHasStream' /\ UnconnectedSilent'
  BY <1>3 DEF OthersGone, QueueHasStream, UnconnectedSilent, SendTypeOK
<1>14. WriterOnStream' /\ StaleWriter'
  BY <1>3, <1>7, <1>8, StreamAssumption DEF WriterOnStream, StaleWriter
<1>15. Delivered' = Delivered
  BY <1>1, <1>3, <1>4, <1>7, <1>8 DEF Delivered, OneWriter
<1>16. WireBounded' /\ WireCurrent'
  BY <1>3, <1>15 DEF WireBounded, WireCurrent
<1>17. Contiguous' /\ AtMostOnce'
  BY <1>3 DEF Contiguous, AtMostOnce
<1>18. QED
  BY <1>6, <1>9, <1>10, <1>12, <1>13, <1>14, <1>16, <1>17

-----------------------------------------------------------------------------
(* The kernel completes the write under way. *)
LEMMA WriteDoneInv ==
  ASSUME SendInv, NEW w \in writers, WriteDone(w)
  PROVE  SendInv'
<1> USE DEF SendInv
<1>1. /\ writers = {w} /\ sendQue # <<>>
      /\ w.st = "writing" /\ w.on \in Runs /\ sock[w.on] = "open"
      /\ w.buf = Head(sendQue)
  BY TheWriter DEF WriteDone, WriterOnStream, BufferAlive
<1>2. w.on = stream
  BY <1>1 DEF OthersGone
<1>3. /\ Len(sendQue) \in Nat \ {0} /\ w.buf = nsent - Len(sendQue) + 1
      /\ w.buf \in Nat /\ nsent \in Nat
  BY <1>1, FrontNumber DEF SendTypeOK, Writer
<1> DEFINE new == [w EXCEPT !.st = "sent"]
<1>4. /\ new \in Writer /\ new.st = "sent" /\ new.on = w.on /\ new.buf = w.buf
  BY DEF SendTypeOK, Writer
<1>5. writers' = {new} /\ UNCHANGED <<stream, sock, sendQue, nsent>>
  BY <1>1 DEF WriteDone
<1> HIDE DEF new
<1>6. \A s \in Runs : /\ wire[s] \in Seq(Nat) /\ Len(wire[s]) \in Nat
                     /\ \A i \in 1 .. Len(wire[s]) : wire[s][i] \in Nat
  BY ElementOfSeq, LenProperties DEF SendTypeOK
<1>7. wire' = [wire EXCEPT ![stream] = Append(wire[stream], w.buf)]
  BY <1>2 DEF WriteDone
<1>8. /\ Append(wire[stream], w.buf) \in Seq(Nat)
      /\ Len(Append(wire[stream], w.buf)) = Len(wire[stream]) + 1
      /\ \A i \in 1 .. Len(wire[stream]) : Append(wire[stream], w.buf)[i] = wire[stream][i]
      /\ Append(wire[stream], w.buf)[Len(wire[stream]) + 1] = w.buf
  BY <1>1, <1>2, <1>3, <1>6, AppendProperties
<1>9. wire' \in [Runs -> Seq(Nat)]
  BY <1>1, <1>2, <1>7, <1>8 DEF SendTypeOK
(* Only the current stream has grown, by the message written. *)
<1>10. \A s \in Runs :
         /\ s # stream => wire'[s] = wire[s]
         /\ s = stream => /\ Len(wire'[s]) = Len(wire[s]) + 1
                          /\ wire'[s][Len(wire[s]) + 1] = w.buf
                          /\ \A i \in 1 .. Len(wire[s]) : wire'[s][i] = wire[s][i]
  BY <1>7, <1>8 DEF SendTypeOK
<1>11. \A s \in Runs : \A i \in 1 .. Len(wire'[s]) :
         \/ i \in 1 .. Len(wire[s]) /\ wire'[s][i] = wire[s][i]
         \/ s = stream /\ i = Len(wire[s]) + 1 /\ wire'[s][i] = w.buf
  <2> SUFFICES ASSUME NEW s \in Runs, NEW i \in 1 .. Len(wire'[s])
               PROVE  \/ i \in 1 .. Len(wire[s]) /\ wire'[s][i] = wire[s][i]
                      \/ s = stream /\ i = Len(wire[s]) + 1 /\ wire'[s][i] = w.buf
    OBVIOUS
  <2>1. CASE s # stream
    BY <1>10, <2>1
  <2>2. CASE s = stream
    <3>1. i \in 1 .. Len(wire[s]) \/ i = Len(wire[s]) + 1
      BY <1>6, <1>10, <2>2
    <3>2. QED
      BY <1>10, <2>2, <3>1
  <2>3. QED
    BY <2>1, <2>2
<1>12. Delivered = w.buf - 1 /\ Delivered' = w.buf
  BY <1>1, <1>3, <1>4, <1>5 DEF Delivered
<1>13. \A s \in Runs : \A i \in 1 .. Len(wire[s]) : wire[s][i] < w.buf
  BY <1>3, <1>6, <1>12 DEF WireBounded
<1>14. SendTypeOK'
  BY <1>4, <1>5, <1>9 DEF SendTypeOK
<1>15. OneWriter' /\ BufferAlive' /\ Numbered'
  BY <1>1, <1>4, <1>5 DEF OneWriter, BufferAlive, Numbered
<1>16. OthersGone' /\ QueueHasStream' /\ WriterOnStream' /\ StaleWriter'
  BY <1>1, <1>2, <1>4, <1>5 DEF OthersGone, QueueHasStream, WriterOnStream, StaleWriter
<1>17. UnconnectedSilent'
  BY <1>1, <1>2, <1>5, <1>10 DEF UnconnectedSilent
<1>18. WireBounded'
  <2> SUFFICES ASSUME NEW s \in Runs, NEW i \in 1 .. Len(wire'[s])
               PROVE  wire'[s][i] <= w.buf
    BY <1>12 DEF WireBounded
  <2>1. CASE i \in 1 .. Len(wire[s]) /\ wire'[s][i] = wire[s][i]
    <3>1. wire[s][i] \in Nat /\ wire[s][i] < w.buf
      BY <1>6, <1>13, <2>1
    <3>2. QED
      BY <1>3, <2>1, <3>1
  <2>2. CASE wire'[s][i] = w.buf
    BY <1>3, <2>2
  <2>3. QED
    BY <1>11, <2>1, <2>2
<1>19. WireCurrent'
  BY <1>1, <1>2, <1>5, <1>10, <1>12 DEF WireCurrent
<1>20. Contiguous'
  <2> SUFFICES ASSUME NEW s \in Runs, NEW i \in 1 .. Len(wire'[s]) - 1
               PROVE  wire'[s][i + 1] = wire'[s][i] + 1
    BY DEF Contiguous
  <2>1. CASE s # stream
    <3>1. wire'[s] = wire[s]
      BY <1>10, <2>1
    <3>2. QED
      BY <3>1 DEF Contiguous
  <2>2. CASE s = stream
    <3>1. i \in 1 .. Len(wire[s]) /\ wire'[s][i] = wire[s][i]
      BY <1>6, <1>10, <2>2
    <3>2. CASE i < Len(wire[s])
      <4>1. i \in 1 .. Len(wire[s]) - 1 /\ i + 1 \in 1 .. Len(wire[s])
        BY <1>6, <3>1, <3>2
      <4>2. wire[s][i + 1] = wire[s][i] + 1
        BY <4>1 DEF Contiguous
      <4>3. wire'[s][i + 1] = wire[s][i + 1]
        BY <1>10, <2>2, <4>1
      <4>4. QED
        BY <3>1, <4>2, <4>3
    <3>3. CASE i = Len(wire[s])
      <4>1. wire[s] # <<>>
        BY <1>6, <3>1, <3>3, EmptySeq
      <4>2. wire[s][i] = w.buf - 1
        BY <1>1, <1>2, <1>12, <2>2, <3>3, <4>1 DEF WireCurrent
      <4>3. wire'[s][i + 1] = w.buf
        BY <1>10, <2>2, <3>3
      <4>4. QED
        BY <1>3, <3>1, <4>2, <4>3
    <3>4. QED
      BY <1>6, <3>1, <3>2, <3>3
  <2>3. QED
    BY <2>1, <2>2
<1>21. AtMostOnce'
  <2> SUFFICES ASSUME NEW s \in Runs, NEW t \in Runs, s # t,
                      NEW i \in 1 .. Len(wire'[s]), NEW j \in 1 .. Len(wire'[t])
               PROVE  wire'[s][i] # wire'[t][j]
    BY DEF AtMostOnce
  <2>1. \/ i \in 1 .. Len(wire[s]) /\ wire'[s][i] = wire[s][i]
        \/ s = stream /\ i = Len(wire[s]) + 1 /\ wire'[s][i] = w.buf
    BY <1>11
  <2>2. \/ j \in 1 .. Len(wire[t]) /\ wire'[t][j] = wire[t][j]
        \/ t = stream /\ j = Len(wire[t]) + 1 /\ wire'[t][j] = w.buf
    BY <1>11
  <2>3. i \in 1 .. Len(wire[s]) => wire[s][i] # w.buf
    BY <1>3, <1>6, <1>13
  <2>4. j \in 1 .. Len(wire[t]) => wire[t][j] # w.buf
    BY <1>3, <1>6, <1>13
  <2>5. i \in 1 .. Len(wire[s]) /\ j \in 1 .. Len(wire[t]) => wire[s][i] # wire[t][j]
    BY DEF AtMostOnce
  <2>6. QED
    BY <2>1, <2>2, <2>3, <2>4, <2>5
<1>22. QED
  BY <1>14, <1>15, <1>16, <1>17, <1>18, <1>19, <1>20, <1>21

LEMMA WriteFailInv ==
  ASSUME SendInv, NEW w \in writers, WriteFail(w)
  PROVE  SendInv'
<1> USE DEF SendInv
<1>1. /\ writers = {w} /\ sendQue # <<>>
      /\ w.st = "writing" /\ w.on \in Runs /\ sock[w.on] = "broken"
  BY TheWriter DEF WriteFail, WriterOnStream
<1> DEFINE new == [w EXCEPT !.st = "failed"]
<1>2. /\ new \in Writer /\ new.st = "failed" /\ new.on = w.on /\ new.buf = w.buf
  BY DEF SendTypeOK, Writer
<1>3. writers' = {new} /\ UNCHANGED <<stream, sock, sendQue, wire, nsent>>
  BY <1>1 DEF WriteFail
<1> HIDE DEF new
<1>4. SendTypeOK'
  BY <1>2, <1>3 DEF SendTypeOK
<1>5. OneWriter' /\ BufferAlive' /\ Numbered'
  BY <1>1, <1>2, <1>3 DEF OneWriter, BufferAlive, Numbered
<1>6. OthersGone' /\ QueueHasStream' /\ UnconnectedSilent' /\ WriterOnStream' /\ StaleWriter'
  BY <1>1, <1>2, <1>3
  DEF OthersGone, QueueHasStream, UnconnectedSilent, WriterOnStream, StaleWriter
<1>7. Delivered' = Delivered
  BY <1>1, <1>2, <1>3 DEF Delivered
<1>8. WireBounded' /\ WireCurrent' /\ Contiguous' /\ AtMostOnce'
  BY <1>3, <1>7 DEF WireBounded, WireCurrent, Contiguous, AtMostOnce
<1>9. QED
  BY <1>4, <1>5, <1>6, <1>8

-----------------------------------------------------------------------------
(* The strand resumes the writer. *)
LEMMA WriteNextInv ==
  ASSUME SendInv, NEW w \in writers, NEW q \in Seq(Nat),
         WriteNext(w, q), UNCHANGED <<stream, sock, wire, nsent>>,
         Len(q) <= nsent,
         \A i \in 1 .. Len(q) : q[i] = nsent - Len(q) + i,
         nsent - Len(q) = Delivered
  PROVE  SendInv'
<1> USE DEF SendInv
<1>1. writers = {w} /\ w \in Writer /\ stream \in Runs
  BY TheWriter DEF SendTypeOK, QueueHasStream
<1> DEFINE new == [id |-> w.id, on |-> stream, buf |-> Head(q),
                   st |-> IF Usable(stream) THEN "writing" ELSE "failed"]
<1>2. /\ sendQue' = q
      /\ q = <<>> => writers' = {}
      /\ q # <<>> => writers' = {new}
  BY <1>1 DEF WriteNext
<1>3. q # <<>> => new \in Writer
  BY <1>1, HeadTailProperties DEF Writer, SendTypeOK
<1>4. /\ new.on = stream /\ new.buf = Head(q)
      /\ new.st \in {"writing", "failed"}
      /\ new.st = "failed" => sock[stream] \notin {"connecting", "open"}
  BY <1>1 DEF Usable
<1> HIDE DEF new
<1>5. SendTypeOK'
  BY <1>2, <1>3 DEF SendTypeOK
<1>6. OneWriter' /\ BufferAlive' /\ Numbered'
  BY <1>2, <1>4 DEF OneWriter, BufferAlive, Numbered
<1>7. OthersGone' /\ QueueHasStream' /\ UnconnectedSilent'
  BY <1>1 DEF OthersGone, QueueHasStream, UnconnectedSilent
<1>8. WriterOnStream' /\ StaleWriter'
  BY <1>1, <1>2, <1>4 DEF WriterOnStream, StaleWriter, OthersGone
<1>9. Delivered' = Delivered
  BY <1>2, <1>4, LenProperties DEF Delivered, SendTypeOK
<1>10. WireBounded' /\ WireCurrent'
  BY <1>9 DEF WireBounded, WireCurrent
<1>11. Contiguous' /\ AtMostOnce'
  BY DEF Contiguous, AtMostOnce
<1>12. QED
  BY <1>5, <1>6, <1>7, <1>8, <1>10, <1>11

LEMMA WriterResumeInv ==
  ASSUME SendInv, NEW w \in writers, WriterResume(w)
  PROVE  SendInv'
<1> USE DEF SendInv
<1>1. writers = {w} /\ sendQue # <<>>
  BY TheWriter
<1>2. /\ sendQue \in Seq(Nat) /\ nsent \in Nat /\ Len(sendQue) \in Nat
      /\ UNCHANGED <<stream, sock, wire, nsent>>
  BY DEF SendTypeOK, WriterResume
<1>3. CASE w.st = "spawned"
  <2>1. WriteNext(w, sendQue)
    BY <1>3 DEF WriterResume
  <2>2. nsent - Len(sendQue) = Delivered
    BY <1>1, <1>2, <1>3 DEF Delivered
  <2>3. QED
    BY <1>2, <2>1, <2>2, WriteNextInv DEF Numbered
<1>4. CASE w.st = "sent"
  <2>1. WriteNext(w, Tail(sendQue))
    BY <1>4 DEF WriterResume
  <2>2. /\ Tail(sendQue) \in Seq(Nat)
        /\ Len(Tail(sendQue)) = Len(sendQue) - 1
        /\ \A i \in 1 .. Len(Tail(sendQue)) : Tail(sendQue)[i] = sendQue[i + 1]
    BY <1>1, <1>2, HeadTailProperties
  <2>3. /\ Len(Tail(sendQue)) <= nsent
        /\ \A i \in 1 .. Len(Tail(sendQue)) :
             Tail(sendQue)[i] = nsent - Len(Tail(sendQue)) + i
    BY <1>2, <2>2 DEF Numbered
  <2>4. nsent - Len(Tail(sendQue)) = Delivered
    BY <1>1, <1>2, <1>4, <2>2 DEF Delivered
  <2>5. QED
    BY <1>2, <2>1, <2>2, <2>3, <2>4, WriteNextInv
<1>5. CASE w.st = "failed"
  <2>1. sendQue' = <<>> /\ writers' = {}
    BY <1>1, <1>5 DEF WriterResume
  <2>2. SendTypeOK' /\ Numbered'
    BY <1>2, <2>1, EmptySeq DEF SendTypeOK, Numbered
  <2>3. OneWriter' /\ BufferAlive' /\ WriterOnStream' /\ StaleWriter'
    BY <2>1 DEF OneWriter, BufferAlive, WriterOnStream, StaleWriter
  <2>4. OthersGone' /\ QueueHasStream' /\ UnconnectedSilent'
    BY <1>2, <2>1 DEF OthersGone, QueueHasStream, UnconnectedSilent
  <2>5. Delivered = nsent - Len(sendQue) /\ Delivered' = nsent
    BY <1>1, <1>2, <1>5, <2>1, EmptySeq DEF Delivered
  <2>6. WireBounded'
    <3> SUFFICES ASSUME NEW s \in Runs, NEW i \in 1 .. Len(wire[s])
                 PROVE  wire[s][i] <= nsent
      BY <1>2, <2>5 DEF WireBounded
    <3>1. wire[s][i] \in Nat /\ wire[s][i] <= nsent - Len(sendQue)
      BY <2>5, ElementOfSeq DEF WireBounded, SendTypeOK
    <3>2. QED
      BY <1>2, <3>1
  <2>7. WireCurrent'
    BY <1>1, <1>2, <1>5 DEF WireCurrent, WriterOnStream, StaleWriter
  <2>8. Contiguous' /\ AtMostOnce'
    BY <1>2 DEF Contiguous, AtMostOnce
  <2>9. QED
    BY <2>2, <2>3, <2>4, <2>6, <2>7, <2>8
<1>6. QED
  BY <1>3, <1>4, <1>5 DEF WriterResume

-----------------------------------------------------------------------------
(* Every step preserves the invariant. *)
THEOREM SendInvariance == SendSpec => []SendInv
<1>1. SendInv /\ [SendNext]_sendVars => SendInv'
  <2> SUFFICES ASSUME SendInv, [SendNext]_sendVars
               PROVE  SendInv'
    OBVIOUS
  <2>1. ASSUME NEW s \in Runs, NewStream(s) PROVE SendInv'
    BY <2>1, NewStreamInv
  <2>2. ASSUME NEW s \in Runs, Connected(s) \/ PeerReset(s) PROVE SendInv'
    BY <2>2, NetworkInv
  <2>3. CASE CloseStream
    BY <2>3, CloseStreamInv
  <2>4. ASSUME stream # NoStream, NEW k \in 1 .. 2, SendRawData(k) PROVE SendInv'
    BY <2>4, SendRawDataInv
  <2>5. ASSUME NEW w \in writers, WriterResume(w) PROVE SendInv'
    BY <2>5, WriterResumeInv
  <2>6. ASSUME NEW w \in writers, WriteDone(w) PROVE SendInv'
    BY <2>6, WriteDoneInv
  <2>7. ASSUME NEW w \in writers, WriteFail(w) PROVE SendInv'
    BY <2>7, WriteFailInv
  <2>8. CASE UNCHANGED sendVars
    BY <2>8
    DEF sendVars, SendInv, SendTypeOK, OneWriter, BufferAlive, Numbered, OthersGone,
        QueueHasStream, UnconnectedSilent, WriterOnStream, StaleWriter, WireBounded,
        WireCurrent, Delivered, Contiguous, AtMostOnce
  <2>9. QED
    BY <2>1, <2>2, <2>3, <2>4, <2>5, <2>6, <2>7, <2>8 DEF SendNext
<1>2. QED
  BY <1>1, InitInv, PTL DEF SendSpec

(* The writer coroutine is alive exactly while the queue is not empty, and it
   is alone: the emptiness test of send_raw_data is a correct lock. *)
THEOREM OneWriterAlways == SendSpec => []OneWriter
<1>1. SendInv => OneWriter
  BY DEF SendInv
<1>2. QED
  BY <1>1, SendInvariance, PTL

(* The queue element a write refers to outlives the write. *)
THEOREM BufferAliveAlways == SendSpec => []BufferAlive
<1>1. SendInv => BufferAlive
  BY DEF SendInv
<1>2. QED
  BY <1>1, SendInvariance, PTL

(* What one connection receives has no gap, no repetition and is in order. *)
THEOREM ContiguousAlways == SendSpec => []Contiguous
<1>1. SendInv => Contiguous
  BY DEF SendInv
<1>2. QED
  BY <1>1, SendInvariance, PTL

(* No message reaches two connections. *)
THEOREM AtMostOnceAlways == SendSpec => []AtMostOnce
<1>1. SendInv => AtMostOnce
  BY DEF SendInv
<1>2. QED
  BY <1>1, SendInvariance, PTL

(**************************** The session **********************************)

(* A run that is past connecting has made a stream, and stream_ is never
   reset. *)
StreamMade == \A r \in Runs : pc[r] \in Streaming \cup {"connect", "ready"} => stream \in Runs

SessionInv == SessionTypeOK /\ StreamMade

LEMMA AbortTypes ==
  ASSUME NEW o \in [Runs -> OpState], NEW s
  PROVE  AbortOps(o, s) \in [Runs -> OpState] /\ CancelResolve(o) \in [Runs -> OpState]
BY DEF AbortOps, CancelResolve, OpState

(* close() keeps the types and leaves stream_ alone. *)
LEMMA CloseTypes ==
  ASSUME SessionTypeOK, NEW o \in [Runs -> OpState], Close(o)
  PROVE  /\ op' \in [Runs -> OpState]
         /\ status' \in Status
         /\ dirty' \in BOOLEAN
         /\ stream' = stream
         /\ UNCHANGED sendVars \/ CloseStream
<1>1. CASE status = "closed"
  BY <1>1 DEF Close, SessionTypeOK, sendVars
<1>2. CASE status # "closed"
  <2>1. AbortOps(CancelResolve(o), stream) \in [Runs -> OpState]
    BY AbortTypes
  <2>2. QED
    BY <1>2, <2>1 DEF Close, CloseStream, Status
<1>3. QED
  BY <1>1, <1>2

LEMMA OperateTypes ==
  ASSUME SessionTypeOK, NEW r \in Runs, Operate(r), stream \in Runs
  PROVE  op' \in [Runs -> OpState] /\ on' \in [Runs -> Runs \cup {NoStream}]
BY DEF Operate, SessionTypeOK, OpState

LEMMA SessionInit == Init => SessionInv
<1> SUFFICES ASSUME Init PROVE SessionInv
  OBVIOUS
<1>1. SessionTypeOK
  BY EmptySeq DEF Init, SessionTypeOK, Status, PC, OpState
<1>2. StreamMade
  BY DEF Init, StreamMade, Streaming, Phase
<1>3. QED
  BY <1>1, <1>2 DEF SessionInv

-----------------------------------------------------------------------------
(* The steps of the application. *)
LEMMA UserSteps ==
  ASSUME SessionInv, User
  PROVE  SessionInv'
<1> USE DEF SessionInv
<1>1. posted \in Seq(Call) /\ op \in [Runs -> OpState] /\ nstop \in Nat
  BY DEF SessionTypeOK
<1>2. ASSUME NEW c \in Call
      PROVE  Append(posted, c) \in Seq(Call)
  BY <1>1, AppendProperties
<1>3. Stop \in Call /\ Send \in Call /\ \A r \in Runs : Start(r) \in Call
  BY DEF Call, Stop, Send, Start
<1>4. ASSUME NEW r \in Runs, UserStart(r) PROVE SessionInv'
  <2>1. posted' \in Seq(Call)
    BY <1>2, <1>3, <1>4 DEF UserStart
  <2>2. SessionTypeOK'
    BY <1>4, <2>1 DEF UserStart, SessionTypeOK, PC
  <2>3. StreamMade'
    BY <1>4 DEF UserStart, StreamMade, SessionTypeOK, sendVars, Streaming, Phase
  <2>4. QED
    BY <2>2, <2>3
<1>5. CASE UserStop
  <2>1. posted' \in Seq(Call)
    BY <1>2, <1>3, <1>5 DEF UserStop
  <2>2. QED
    BY <1>1, <1>5, <2>1 DEF UserStop, SessionTypeOK, StreamMade, sendVars
<1>6. CASE UserSend
  <2>1. posted' \in Seq(Call)
    BY <1>2, <1>3, <1>6 DEF UserSend
  <2>2. QED
    BY <1>6, <2>1 DEF UserSend, SessionTypeOK, StreamMade, sendVars
<1>7. CASE InlineStop
  <2>1. /\ op' \in [Runs -> OpState] /\ status' \in Status /\ dirty' \in BOOLEAN
        /\ stream' = stream
    BY <1>1, <1>7, CloseTypes DEF InlineStop
  <2>2. QED
    BY <1>1, <1>7, <2>1 DEF InlineStop, SessionTypeOK, StreamMade
<1>8. CASE InlineSend
  <2>1. stream' = stream /\ crashed' \in BOOLEAN
    BY <1>8 DEF InlineSend, SendRawData, sendVars, SessionTypeOK
  <2>2. QED
    BY <1>8, <2>1 DEF InlineSend, SessionTypeOK, StreamMade
<1>9. QED
  BY <1>4, <1>5, <1>6, <1>7, <1>8 DEF User

(* The calls the strand runs for the application. *)
LEMMA PostedSteps ==
  ASSUME SessionInv, PostedStop \/ PostedSend \/ \E r \in Runs : CoRun(r)
  PROVE  SessionInv'
<1> USE DEF SessionInv
<1>1. posted \in Seq(Call) /\ op \in [Runs -> OpState]
  BY DEF SessionTypeOK
<1>2. posted # <<>> => Tail(posted) \in Seq(Call)
  BY <1>1, HeadTailProperties
<1>3. CASE PostedStop
  <2>1. /\ op' \in [Runs -> OpState] /\ status' \in Status /\ dirty' \in BOOLEAN
        /\ stream' = stream
    BY <1>1, <1>3, CloseTypes DEF PostedStop
  <2>2. QED
    BY <1>2, <1>3, <2>1 DEF PostedStop, SessionTypeOK, StreamMade
<1>4. CASE PostedSend
  <2>1. stream' = stream /\ crashed' \in BOOLEAN
    BY <1>4 DEF PostedSend, SendRawData, sendVars, SessionTypeOK
  <2>2. QED
    BY <1>2, <1>4, <2>1 DEF PostedSend, SessionTypeOK, StreamMade
<1>5. ASSUME NEW r \in Runs, CoRun(r) PROVE SessionInv'
  <2>1. posted' \in Seq(Call) /\ stream' = stream
    BY <1>2, <1>5 DEF CoRun, sendVars
  <2>2. CASE status # "closed"
    BY <1>5, <2>1, <2>2
    DEF CoRun, SessionTypeOK, StreamMade, PC, Streaming, Phase
  <2>3. CASE status = "closed"
    <3>1. SessionTypeOK'
      BY <1>5, <2>1, <2>3 DEF CoRun, CommitStatus, SessionTypeOK, PC, Active, Status, OpState
    <3>2. StreamMade'
      BY <1>5, <2>1, <2>3 DEF CoRun, StreamMade, SessionTypeOK, Streaming, Phase
    <3>3. QED
      BY <3>1, <3>2
  <2>4. QED
    BY <2>2, <2>3
<1>6. QED
  BY <1>3, <1>4, <1>5

-----------------------------------------------------------------------------
(* A callback has returned: the run goes on. *)
LEMMA CallbackSteps ==
  ASSUME SessionInv, NEW r \in Runs,
         Resolve(r) \/ BeginPhase(r) \/ Initialized(r) \/ BeginLoops(r)
  PROVE  SessionInv'
<1> USE DEF SessionInv
<1>1. CASE Resolve(r)
  BY <1>1 DEF Resolve, SessionTypeOK, StreamMade, OpState, sendVars
<1>2. CASE BeginPhase(r)
  <2>1. stream \in Runs /\ stream' = stream
    BY <1>2 DEF BeginPhase, StreamMade, Streaming, sendVars
  <2>2. op' \in [Runs -> OpState] /\ on' \in [Runs -> Runs \cup {NoStream}]
    BY <1>2, <2>1, OperateTypes DEF BeginPhase
  <2>3. QED
    BY <1>2, <2>1, <2>2 DEF BeginPhase, SessionTypeOK, StreamMade
<1>3. CASE Initialized(r)
  <2>1. stream \in Runs /\ stream' = stream
    BY <1>3 DEF Initialized, StreamMade, SendRawData
  <2>2. SessionTypeOK'
    BY <1>3 DEF Initialized, CommitStatus, SessionTypeOK, PC, Active, Streaming, Status, OpState
  <2>3. StreamMade'
    BY <2>1 DEF StreamMade
  <2>4. QED
    BY <2>2, <2>3
<1>4. CASE BeginLoops(r)
  <2>1. stream \in Runs /\ stream' = stream
    BY <1>4 DEF BeginLoops, StreamMade, Streaming, SendRawData
  <2>2. op' \in [Runs -> OpState] /\ on' \in [Runs -> Runs \cup {NoStream}]
    BY <1>4, <2>1, OperateTypes DEF BeginLoops
  <2>3. QED
    BY <1>4, <2>1, <2>2 DEF BeginLoops, SessionTypeOK, StreamMade
<1>5. QED
  BY <1>1, <1>2, <1>3, <1>4

LEMMA FailTypes ==
  ASSUME SessionInv, NEW r \in Runs, Fail(r)
  PROVE  SessionInv' /\ (UNCHANGED sendVars \/ CloseStream)
<1> DEFINE o == [op EXCEPT ![r] = "none"]
<1>1. o \in [Runs -> OpState] /\ SessionTypeOK /\ Close(o)
  BY DEF SessionInv, SessionTypeOK, OpState, Fail
<1> HIDE DEF o
<1>2. /\ op' \in [Runs -> OpState] /\ status' \in Status /\ dirty' \in BOOLEAN
      /\ stream' = stream
      /\ UNCHANGED sendVars \/ CloseStream
  BY <1>1, CloseTypes
<1>3. SessionTypeOK'
  BY <1>1, <1>2 DEF Fail, SessionTypeOK, PC
<1>4. StreamMade'
  BY <1>2 DEF Fail, SessionInv, SessionTypeOK, StreamMade, Streaming, Phase
<1>5. QED
  BY <1>2, <1>3, <1>4 DEF SessionInv

(* A run's operation has completed. *)
LEMMA EnterTypes ==
  ASSUME SessionInv, NEW r \in Runs, NEW p \in Phase,
         Enter(r, p), stream \in Runs
  PROVE  /\ pc' \in [Runs -> PC] /\ status' \in Status /\ callback' \in Runs \cup {NoStream}
         /\ op' \in [Runs -> OpState] /\ on' \in [Runs -> Runs \cup {NoStream}]
<1>1. SessionTypeOK
  BY DEF SessionInv
<1>2. pc' \in [Runs -> PC]
  BY <1>1 DEF Enter, SessionTypeOK, PC, Active, Streaming
<1>3. StatusOf[p] \in Status
  BY DEF StatusOf, Status, Streaming, Phase
<1>4. CASE status = StatusOf[p]
  <2>1. op' \in [Runs -> OpState] /\ on' \in [Runs -> Runs \cup {NoStream}]
    BY <1>1, <1>4, OperateTypes DEF Enter
  <2>2. QED
    BY <1>1, <1>2, <1>4, <2>1 DEF Enter, SessionTypeOK
<1>5. CASE status # StatusOf[p]
  BY <1>1, <1>2, <1>3, <1>5 DEF Enter, CommitStatus, SessionTypeOK, OpState
<1>6. QED
  BY <1>4, <1>5

LEMMA ResumeSteps ==
  ASSUME SessionInv, NEW r \in Runs,
         \/ Resolved(r) \/ ResolveFailed(r) \/ ConnectDone(r) \/ ConnectFailed(r)
         \/ PhaseGoesOn(r) \/ PhaseDone(r) \/ InitDone(r) \/ PhaseFailed(r)
         \/ MessageHandled(r) \/ LoopEnds(r) \/ Disconnect(r)
  PROVE  SessionInv'
<1> USE DEF SessionInv
<1>1. CASE Resolved(r)
  <2>1. stream' = r
    BY <1>1 DEF Resolved, NewStream
  <2>2. AbortOps(op, stream) \in [Runs -> OpState]
    BY AbortTypes DEF SessionTypeOK
  <2>3. SessionTypeOK'
    BY <1>1, <2>2 DEF Resolved, SessionTypeOK, PC, Active, OpState
  <2>4. StreamMade'
    BY <2>1 DEF StreamMade
  <2>5. QED
    BY <2>3, <2>4
<1>2. CASE ResolveFailed(r) \/ ConnectFailed(r) \/ PhaseFailed(r)
  BY <1>2, FailTypes DEF ResolveFailed, ConnectFailed, PhaseFailed
<1>3. CASE ConnectDone(r) \/ PhaseDone(r)
  <2>1. stream \in Runs /\ stream' = stream
    BY <1>3 DEF ConnectDone, PhaseDone, StreamMade, Streaming, sendVars
  <2>2. PICK p \in Phase : Enter(r, p)
    <3>1. CASE ConnectDone(r)
      BY <3>1 DEF ConnectDone, Phase
    <3>2. CASE PhaseDone(r)
      BY <3>2 DEF PhaseDone, PhaseAfter, Phase
    <3>3. QED
      BY <1>3, <3>1, <3>2
  <2>3. /\ pc' \in [Runs -> PC] /\ status' \in Status /\ callback' \in Runs \cup {NoStream}
        /\ op' \in [Runs -> OpState] /\ on' \in [Runs -> Runs \cup {NoStream}]
    BY <2>1, <2>2, EnterTypes
  <2>4. SessionTypeOK'
    BY <1>3, <2>3 DEF ConnectDone, PhaseDone, SessionTypeOK
  <2>5. QED
    BY <2>1, <2>4 DEF StreamMade
<1>4. CASE PhaseGoesOn(r) \/ MessageHandled(r)
  <2>1. stream \in Runs /\ stream' = stream
    BY <1>4 DEF PhaseGoesOn, MessageHandled, SendRawData, StreamMade, Streaming, sendVars
  <2>2. op' \in [Runs -> OpState] /\ on' \in [Runs -> Runs \cup {NoStream}]
    BY <1>4, <2>1, OperateTypes DEF PhaseGoesOn, MessageHandled
  <2>3. dirty' \in BOOLEAN
    BY <1>4 DEF PhaseGoesOn, MessageHandled, SessionTypeOK
  <2>4. SessionTypeOK'
    BY <1>4, <2>2, <2>3 DEF PhaseGoesOn, MessageHandled, SessionTypeOK
  <2>5. QED
    BY <2>1, <2>4 DEF StreamMade
<1>5. CASE InitDone(r)
  <2>1. stream \in Runs /\ stream' = stream
    BY <1>5 DEF InitDone, StreamMade, Streaming, Phase, sendVars
  <2>2. SessionTypeOK'
    BY <1>5 DEF InitDone, SessionTypeOK, PC, Active, OpState
  <2>3. QED
    BY <2>1, <2>2 DEF StreamMade
<1>6. CASE LoopEnds(r)
  <2>1. stream \in Runs /\ stream' = stream
    BY <1>6 DEF LoopEnds, StreamMade, Streaming, sendVars
  <2>2. SessionTypeOK'
    BY <1>6 DEF LoopEnds, SessionTypeOK, PC, Active, OpState
  <2>3. QED
    BY <2>1, <2>2 DEF StreamMade
<1>7. CASE Disconnect(r)
  <2>1. /\ op' \in [Runs -> OpState] /\ status' \in Status /\ dirty' \in BOOLEAN
        /\ stream' = stream
    BY <1>7, CloseTypes DEF Disconnect, SessionTypeOK
  <2>2. SessionTypeOK'
    BY <1>7, <2>1 DEF Disconnect, SessionTypeOK, PC
  <2>3. StreamMade'
    BY <1>7, <2>1 DEF Disconnect, StreamMade, SessionTypeOK, Streaming, Phase
  <2>4. QED
    BY <2>2, <2>3
<1>8. QED
  BY <1>1, <1>2, <1>3, <1>4, <1>5, <1>6, <1>7

(* What happens without the run: messages, writes, completions. *)
LEMMA OtherSteps ==
  ASSUME SessionInv,
         WriterStep \/ Environment \/ \E r \in Runs : KeepAlive(r)
  PROVE  SessionInv'
<1> USE DEF SessionInv
<1>1. CASE WriterStep \/ WriteCompletes \/ Reset \/ \E r \in Runs : KeepAlive(r)
  <2>1. UNCHANGED sessionVars /\ stream' = stream
    BY <1>1 DEF WriterStep, WriterResume, WriteCompletes, WriteDone, WriteFail, Reset,
                PeerReset, KeepAlive, SendRawData
  <2>2. QED
    BY <2>1 DEF sessionVars, SessionTypeOK, StreamMade
<1>2. ASSUME NEW r \in Runs, OpOk(r) \/ OpError(r)
      PROVE  SessionInv'
  <2>1. stream' = stream
    BY <1>2 DEF OpOk, OpError, Connected, PeerReset, sendVars
  <2>2. SessionTypeOK'
    BY <1>2 DEF OpOk, OpError, SessionTypeOK, OpState
  <2>3. QED
    BY <1>2, <2>1, <2>2 DEF OpOk, OpError, StreamMade
<1>3. QED
  BY <1>1, <1>2 DEF Environment

THEOREM SessionInvariance == Spec => []SessionInv
<1>1. SessionInv /\ [Next]_vars => SessionInv'
  <2> SUFFICES ASSUME SessionInv, [Next]_vars
               PROVE  SessionInv'
    OBVIOUS
  <2>1. CASE User
    BY <2>1, UserSteps
  <2>2. CASE PostedStop \/ PostedSend
    BY <2>2, PostedSteps
  <2>3. ASSUME NEW r \in Runs, Strand(r) PROVE SessionInv'
    BY <2>3, PostedSteps, CallbackSteps, ResumeSteps DEF Strand
  <2>4. CASE WriterStep \/ Environment \/ \E r \in Runs : KeepAlive(r)
    BY <2>4, OtherSteps
  <2>5. CASE UNCHANGED vars
    BY <2>5 DEF vars, sessionVars, sendVars, SessionInv, SessionTypeOK, StreamMade
  <2>6. QED
    BY <2>1, <2>2, <2>3, <2>4, <2>5 DEF Next
<1>2. QED
  BY <1>1, SessionInit, PTL DEF Spec

-----------------------------------------------------------------------------
(* Every step of a session is one SendQueue allows, or leaves it alone. *)
LEMMA SessionStepSends ==
  ASSUME SessionInv, [Next]_vars
  PROVE  [SendNext]_sendVars
<1> USE DEF SessionInv
<1>1. CASE User
  <2>1. op \in [Runs -> OpState]
    BY DEF SessionTypeOK
  <2>2. InlineStop => UNCHANGED sendVars \/ CloseStream
    BY <2>1, CloseTypes DEF InlineStop
  <2>3. ASSUME InlineSend PROVE [SendNext]_sendVars
    <3>1. CASE stream = NoStream
      BY <2>3, <3>1 DEF InlineSend
    <3>2. CASE stream # NoStream
      <4>1. SendRawData(1)
        BY <2>3, <3>2 DEF InlineSend
      <4>2. QED
        BY <3>2, <4>1 DEF SendNext
    <3>3. QED
      BY <3>1, <3>2
  <2>4. QED
    BY <1>1, <2>2, <2>3 DEF User, UserStart, UserStop, UserSend, SendNext
<1>2. CASE PostedStop \/ PostedSend
  <2>1. op \in [Runs -> OpState]
    BY DEF SessionTypeOK
  <2>2. PostedStop => UNCHANGED sendVars \/ CloseStream
    BY <2>1, CloseTypes DEF PostedStop
  <2>3. ASSUME PostedSend PROVE [SendNext]_sendVars
    <3>1. CASE stream = NoStream
      BY <2>3, <3>1 DEF PostedSend
    <3>2. CASE stream # NoStream
      <4>1. SendRawData(1)
        BY <2>3, <3>2 DEF PostedSend
      <4>2. QED
        BY <3>2, <4>1 DEF SendNext
    <3>3. QED
      BY <3>1, <3>2
  <2>4. QED
    BY <1>2, <2>2, <2>3 DEF SendNext
<1>3. ASSUME NEW r \in Runs, Strand(r) PROVE [SendNext]_sendVars
  <2>1. CASE Resolved(r)
    BY <2>1 DEF Resolved, SendNext
  <2>2. CASE ResolveFailed(r) \/ ConnectFailed(r) \/ PhaseFailed(r)
    BY <2>2, FailTypes DEF ResolveFailed, ConnectFailed, PhaseFailed, SendNext
  <2>3. CASE Disconnect(r)
    BY <2>3, CloseTypes DEF Disconnect, SessionTypeOK, SendNext
  <2>4. CASE Initialized(r) \/ BeginLoops(r) \/ MessageHandled(r)
    <3>1. stream # NoStream
      BY <2>4, StreamAssumption DEF Initialized, BeginLoops, MessageHandled, StreamMade, Streaming
    <3>2. CASE Initialized(r)
      BY <3>1, <3>2 DEF Initialized, SendNext
    <3>3. CASE BeginLoops(r)
      <4>1. SendRawData(1)
        BY <3>3 DEF BeginLoops
      <4>2. QED
        BY <3>1, <4>1 DEF SendNext
    <3>4. CASE MessageHandled(r)
      BY <3>1, <3>4 DEF MessageHandled, SendNext
    <3>5. QED
      BY <2>4, <3>2, <3>3, <3>4
  <2>5. CASE \/ CoRun(r) \/ Resolve(r) \/ BeginPhase(r) \/ ConnectDone(r)
             \/ PhaseGoesOn(r) \/ PhaseDone(r) \/ InitDone(r) \/ LoopEnds(r)
    BY <2>5 DEF CoRun, Resolve, BeginPhase, ConnectDone, PhaseGoesOn, PhaseDone, InitDone, LoopEnds
  <2>6. QED
    BY <1>3, <2>1, <2>2, <2>3, <2>4, <2>5 DEF Strand
<1>4. ASSUME NEW r \in Runs, KeepAlive(r) PROVE [SendNext]_sendVars
  <2>1. stream # NoStream
    BY <1>4, StreamAssumption DEF KeepAlive, StreamMade, Streaming
  <2>2. SendRawData(1)
    BY <1>4 DEF KeepAlive
  <2>3. QED
    BY <2>1, <2>2 DEF SendNext
<1>5. CASE WriterStep \/ Environment
  BY <1>5 DEF WriterStep, Environment, WriteCompletes, Reset, OpOk, OpError, SendNext
<1>6. CASE UNCHANGED vars
  BY <1>6 DEF vars
<1>7. QED
  BY <1>1, <1>2, <1>3, <1>4, <1>5, <1>6 DEF Next

(* A session uses the queue as SendQueue lets it be used. *)
THEOREM SessionImplementsSendQueue == Spec => SendSpec
<1>1. Init => SendInit
  BY DEF Init
<1>2. SessionInv /\ [Next]_vars => [SendNext]_sendVars
  BY SessionStepSends
<1>3. QED
  BY <1>1, <1>2, SessionInvariance, PTL DEF Spec, SendSpec

(* The types, of the session and of its queue. *)
THEOREM TypeCorrect == Spec => []TypeOK
<1>1. SessionInv /\ SendInv => TypeOK
  BY DEF SessionInv, SendInv, TypeOK
<1>2. QED
  BY <1>1, SessionInvariance, SessionImplementsSendQueue, SendInvariance, PTL

(* In every session the queue has one writer, its buffers live long enough,
   and a connection receives what it receives without gap or repetition. *)
THEOREM SessionQueueSafe == Spec => [](OneWriter /\ BufferAlive /\ Contiguous /\ AtMostOnce)
<1>1. SendInv => OneWriter /\ BufferAlive /\ Contiguous /\ AtMostOnce
  BY DEF SendInv
<1>2. QED
  BY <1>1, SessionImplementsSendQueue, SendInvariance, PTL

-----------------------------------------------------------------------------
(* What a run has told the delegate is a matter of where it is. *)
ToldInv ==
  \A r \in Runs :
    /\ pc[r] \in {"idle", "posted", "refused", "resolve", "connect", "ready"} \cup Phase =>
         told[r] = "nothing"
    /\ pc[r] \in {"loop", "unwind"} => told[r] = "connected"
    /\ pc[r] = "done" => told[r] \in {"failed", "disconnected"}

LEMMA LifeSame ==
  ASSUME told' = told, \A r \in Runs : pc'[r] \in Active <=> pc[r] \in Active
  PROVE  life' = life
BY DEF life, Live

LEMMA LifeRuns ==
  ASSUME SessionTypeOK, NEW r \in Runs, NEW p \in Active,
         pc' = [pc EXCEPT ![r] = p], told' = told, told[r] = "nothing"
  PROVE  life' = [life EXCEPT ![r] = "running"]
BY DEF life, Live, SessionTypeOK

LEMMA LifeReports ==
  ASSUME SessionTypeOK, NEW r \in Runs,
         NEW t \in {"connected", "failed", "disconnected"},
         NEW p \in PC, pc' = [pc EXCEPT ![r] = p], told' = [told EXCEPT ![r] = t]
  PROVE  life' = [life EXCEPT ![r] = t]
<1>1. \A x \in Runs : life'[x] = IF x = r THEN t ELSE life[x]
  BY DEF life, Live, SessionTypeOK
<1>2. life = [x \in Runs |-> life[x]]
  BY DEF life
<1>3. life' = [x \in Runs |-> life'[x]]
  BY DEF life
<1>4. QED
  BY <1>1, <1>2, <1>3

(* A run that fails was running. *)
LEMMA FailContract ==
  ASSUME SessionTypeOK, ToldInv, NEW r \in Runs, Fail(r),
         pc[r] \in {"resolve", "connect"} \cup Phase
  PROVE  ToldInv' /\ Contract!ContractNext
<1>1. pc' = [pc EXCEPT ![r] = "done"] /\ told' = [told EXCEPT ![r] = "failed"]
  BY DEF Fail
<1>2. ToldInv'
  BY <1>1 DEF ToldInv, SessionTypeOK, Phase
<1>3. life' = [life EXCEPT ![r] = "failed"]
  BY <1>1, LifeReports DEF PC
<1>4. life[r] = "running"
  BY DEF life, Live, ToldInv, Active, Streaming
<1>5. QED
  BY <1>2, <1>3, <1>4 DEF Contract!ContractNext, Contract!Step

LEMMA StrandContract ==
  ASSUME SessionTypeOK, ToldInv, NEW r \in Runs, Strand(r)
  PROVE  ToldInv' /\ (Contract!ContractNext \/ life' = life)
<1>1. CASE CoRun(r)
  <2>1. told' = told
    BY <1>1 DEF CoRun
  <2>2. CASE status # "closed"
    <3>1. pc' = [pc EXCEPT ![r] = "refused"] /\ pc[r] = "posted"
      BY <1>1, <2>2 DEF CoRun
    <3>2. ToldInv'
      BY <2>1, <3>1 DEF ToldInv, SessionTypeOK, Phase
    <3>3. life' = life
      BY <2>1, <3>1, LifeSame DEF SessionTypeOK, Active, Streaming, Phase
    <3>4. QED
      BY <3>2, <3>3
  <2>3. CASE status = "closed"
    <3>1. pc' = [pc EXCEPT ![r] = "resolve"] /\ pc[r] = "posted"
      BY <1>1, <2>3 DEF CoRun
    <3>2. ToldInv' /\ told[r] = "nothing"
      BY <2>1, <3>1 DEF ToldInv, SessionTypeOK, Phase
    <3>3. life' = [life EXCEPT ![r] = "running"]
      BY <2>1, <3>1, <3>2, LifeRuns DEF Active
    <3>4. life[r] = "idle"
      BY <3>1, <3>2 DEF life, Live, Active, Streaming, Phase
    <3>5. QED
      BY <3>2, <3>3, <3>4 DEF Contract!ContractNext, Contract!Step
  <2>4. QED
    BY <2>2, <2>3
<1>2. CASE ResolveFailed(r) \/ ConnectFailed(r) \/ PhaseFailed(r)
  <2>1. Fail(r) /\ pc[r] \in {"resolve", "connect"} \cup Phase
    BY <1>2 DEF ResolveFailed, ConnectFailed, PhaseFailed
  <2>2. QED
    BY <2>1, FailContract
<1>3. CASE Initialized(r)
  <2>1. /\ pc' = [pc EXCEPT ![r] = "loop"] /\ told' = [told EXCEPT ![r] = "connected"]
        /\ pc[r] = "ready"
    BY <1>3 DEF Initialized
  <2>2. ToldInv'
    BY <2>1 DEF ToldInv, SessionTypeOK, Phase
  <2>3. life' = [life EXCEPT ![r] = "connected"]
    BY <2>1, LifeReports DEF PC, Active, Streaming
  <2>4. life[r] = "running"
    BY <2>1 DEF life, Live, ToldInv, Active
  <2>5. QED
    BY <2>2, <2>3, <2>4 DEF Contract!ContractNext, Contract!Step
<1>4. CASE Disconnect(r)
  <2>1. /\ pc' = [pc EXCEPT ![r] = "done"] /\ told' = [told EXCEPT ![r] = "disconnected"]
        /\ pc[r] = "unwind"
    BY <1>4 DEF Disconnect
  <2>2. ToldInv'
    BY <2>1 DEF ToldInv, SessionTypeOK, Phase
  <2>3. life' = [life EXCEPT ![r] = "disconnected"]
    BY <2>1, LifeReports DEF PC
  <2>4. life[r] = "connected"
    BY <2>1 DEF life, ToldInv
  <2>5. QED
    BY <2>2, <2>3, <2>4 DEF Contract!ContractNext, Contract!Step
<1>5. CASE Resolve(r) \/ BeginPhase(r) \/ BeginLoops(r) \/ PhaseGoesOn(r) \/ MessageHandled(r)
  <2>1. UNCHANGED <<pc, told>>
    BY <1>5 DEF Resolve, BeginPhase, BeginLoops, PhaseGoesOn, MessageHandled
  <2>2. QED
    BY <2>1, LifeSame DEF ToldInv
<1>6. CASE Resolved(r) \/ ConnectDone(r) \/ PhaseDone(r) \/ InitDone(r)
  <2>1. told' = told /\ pc[r] \in {"resolve", "connect"} \cup Phase
    BY <1>6 DEF Resolved, ConnectDone, PhaseDone, InitDone, Phase
  <2>2. PICK p \in {"connect", "ready"} \cup Phase : pc' = [pc EXCEPT ![r] = p]
    BY <1>6 DEF Resolved, ConnectDone, PhaseDone, InitDone, Enter, PhaseAfter, Phase
  <2>3. ToldInv'
    BY <2>1, <2>2 DEF ToldInv, SessionTypeOK, Phase
  <2>4. life' = life
    BY <2>1, <2>2, LifeSame DEF SessionTypeOK, Active, Streaming
  <2>5. QED
    BY <2>3, <2>4
<1>7. CASE LoopEnds(r)
  <2>1. told' = told /\ pc[r] = "loop" /\ pc' = [pc EXCEPT ![r] = "unwind"]
    BY <1>7 DEF LoopEnds
  <2>2. ToldInv'
    BY <2>1 DEF ToldInv, SessionTypeOK, Phase
  <2>3. life' = life
    BY <2>1, LifeSame DEF SessionTypeOK, Active, Streaming
  <2>4. QED
    BY <2>2, <2>3
<1>8. QED
  BY <1>1, <1>2, <1>3, <1>4, <1>5, <1>6, <1>7 DEF Strand

(* Every run, whatever other runs are alive, tells the delegate first whether
   it connected and, if it did, once that it disconnected. *)
THEOREM ContractKept == Spec => KeepsContract
<1>1. Init => ToldInv /\ Contract!ContractInit
  BY DEF Init, ToldInv, Contract!ContractInit, life, Live, Active, Streaming, Phase
<1>2. SessionInv /\ ToldInv /\ [Next]_vars
        => ToldInv' /\ [Contract!ContractNext]_(Contract!contractVars)
  <2> SUFFICES ASSUME SessionInv, ToldInv, [Next]_vars
               PROVE  ToldInv' /\ (Contract!ContractNext \/ life' = life)
    BY DEF Contract!contractVars
  <2>1. SessionTypeOK
    BY DEF SessionInv
  <2>2. ASSUME NEW r \in Runs, Strand(r)
        PROVE  ToldInv' /\ (Contract!ContractNext \/ life' = life)
    BY <2>1, <2>2, StrandContract
  <2>3. ASSUME NEW r \in Runs, UserStart(r)
        PROVE  ToldInv' /\ life' = life
    <3>1. told' = told /\ pc[r] = "idle" /\ pc' = [pc EXCEPT ![r] = "posted"]
      BY <2>3 DEF UserStart
    <3>2. ToldInv'
      BY <2>1, <3>1 DEF ToldInv, SessionTypeOK, Phase
    <3>3. life' = life
      BY <2>1, <3>1, LifeSame DEF SessionTypeOK, Active, Streaming, Phase
    <3>4. QED
      BY <3>2, <3>3
  <2>4. CASE \/ UserStop \/ UserSend \/ InlineStop \/ InlineSend
             \/ PostedStop \/ PostedSend \/ WriterStep \/ Environment
             \/ (\E r \in Runs : KeepAlive(r)) \/ UNCHANGED vars
    <3>1. UNCHANGED <<pc, told>>
      BY <2>4 DEF UserStop, UserSend, InlineStop, InlineSend, PostedStop, PostedSend,
                  WriterStep, Environment, WriteCompletes, Reset, OpOk, OpError, KeepAlive,
                  vars, sessionVars
    <3>2. QED
      BY <3>1, LifeSame DEF ToldInv
  <2>5. QED
    BY <2>2, <2>3, <2>4 DEF Next, User
<1>3. QED
  BY <1>1, <1>2, SessionInvariance, PTL DEF Spec, KeepsContract, Contract!ContractSpec

-----------------------------------------------------------------------------
(* The runs of a session beside one another. Whatever the application does,
   the last run to end leaves no connection; if it sends when it reads
   connected, no null stream_ is used. As long as it has not called stop() one
   run is in progress at a time, finds the members of the last session reset,
   and its status climbs; one at a time also after stop() if it waits for the
   end of every run before it starts again. *)

(* The status of a client whose one run is at each place. *)
StatusIn ==
  [resolve |-> "connecting", connect |-> "connecting", handshake |-> "handshaking",
   authenticate |-> "authenticating", init |-> "initializing", ready |-> "initializing",
   loop |-> "connected", unwind |-> "connected"]

Early == {"resolve", "connect", "handshake"}
Over == {"idle", "done", "refused"}

(* Until stop() is called the status says where the one run is. *)
Quiet ==
  nstop = 0 =>
    /\ OneRunAtATime
    /\ \A r \in Runs : Live(r) => status = StatusIn[pc[r]]
    /\ status = "closed" => ~dirty
    /\ \A r \in Runs : pc[r] \in Early => ~dirty

(* Afterwards a start is dispatched only when every other run is over. *)
Calm ==
  Restart = "afterEnd" /\ nstop # 0 =>
    /\ OneRunAtATime
    /\ \A r, x \in Runs : pc[r] = "posted" /\ x # r => pc[x] \in Over

LifeInv == Quiet /\ Calm

(* A stop that is still dispatched has been called. *)
StopsCounted == \A i \in 1 .. Len(posted) : posted[i] = Stop => nstop # 0

(* What StatusLadder says of a step. *)
Climbs ==
  nstop = 0 /\ status' # status =>
    \/ status' = "closed"
    \/ <<status, status'>> \in
         {<<"closed", "connecting">>, <<"connecting", "handshaking">>,
          <<"handshaking", "authenticating">>, <<"authenticating", "initializing">>,
          <<"initializing", "connected">>}

(* Before the first start nothing runs. *)
LEMMA InitLife == Init => LifeInv
BY DEF Init, LifeInv, Quiet, Calm, OneRunAtATime, Live, Active, Streaming, Phase, Early, Over

(* A run that is alive goes on, or ends. *)
LEMMA RunMoves ==
  ASSUME SessionTypeOK, LifeInv, NEW r \in Runs, Live(r), NEW q \in Active \cup {"done"},
         pc' = [pc EXCEPT ![r] = q], nstop' = nstop,
         q \in Early => pc[r] \in Early,
         nstop = 0 => /\ status' = IF q = "done" THEN "closed" ELSE StatusIn[q]
                      /\ dirty' => q # "done" /\ (dirty \/ q \notin Early)
  PROVE  LifeInv'
<1>1. \A x \in Runs : x # r => pc'[x] = pc[x]
  BY DEF SessionTypeOK
<1>2. pc'[r] = q
  BY DEF SessionTypeOK
<1>3. Quiet'
  <2> SUFFICES ASSUME nstop = 0
               PROVE  /\ OneRunAtATime'
                      /\ \A x \in Runs : Live(x)' => status' = StatusIn[pc'[x]]
                      /\ status' = "closed" => ~dirty'
                      /\ \A x \in Runs : pc'[x] \in Early => ~dirty'
    BY DEF Quiet
  <2>1. \A x \in Runs : x # r => ~Live(x)
    BY DEF LifeInv, Quiet, OneRunAtATime
  <2>2. \A x \in Runs : x # r => ~Live(x)'
    BY <1>1, <2>1 DEF Live
  <2>3. OneRunAtATime'
    BY <2>2 DEF OneRunAtATime
  <2>4. \A x \in Runs : Live(x)' => status' = StatusIn[pc'[x]]
    <3> SUFFICES ASSUME Live(r)' PROVE status' = StatusIn[q]
      BY <1>2, <2>2
    <3>1. q # "done"
      BY <1>2 DEF Live, Active, Streaming, Phase
    <3>2. QED
      BY <3>1
  <2>5. status' = "closed" => ~dirty'
    BY DEF StatusIn, Active, Streaming, Phase
  <2>6. \A x \in Runs : pc'[x] \in Early => ~dirty'
    <3> SUFFICES ASSUME q \in Early PROVE ~dirty'
      BY <1>1, <1>2, <2>1 DEF Live, Active, Streaming, Phase, Early
    <3>1. ~dirty
      BY DEF LifeInv, Quiet
    <3>2. QED
      BY <3>1
  <2>7. QED
    BY <2>3, <2>4, <2>5, <2>6
<1>4. Calm'
  <2> SUFFICES ASSUME Restart = "afterEnd", nstop # 0
               PROVE  /\ OneRunAtATime'
                      /\ \A y, x \in Runs : pc'[y] = "posted" /\ x # y => pc'[x] \in Over
    BY DEF Calm
  <2>1. \A x \in Runs : x # r => ~Live(x)
    BY DEF LifeInv, Calm, OneRunAtATime
  <2>2. OneRunAtATime'
    BY <1>1, <2>1 DEF OneRunAtATime, Live
  <2>3. \A y \in Runs : pc[y] # "posted"
    BY DEF LifeInv, Calm, Live, Active, Streaming, Phase, Over
  <2>4. \A y \in Runs : pc'[y] # "posted"
    BY <1>1, <1>2, <2>3 DEF Active, Streaming, Phase
  <2>5. QED
    BY <2>2, <2>4
<1>5. QED
  BY <1>3, <1>4 DEF LifeInv

(* close() on the strand. *)
LEMMA CloseLife ==
  ASSUME NEW o, Close(o)
  PROVE  /\ status' = "closed"
         /\ dirty' => dirty /\ status = "closed"
BY DEF Close, sendVars

(* close() called by the application. *)
LEMMA StopLife ==
  ASSUME SessionTypeOK, LifeInv, pc' = pc,
         \/ nstop' = nstop + 1 /\ MayStop
         \/ nstop' = nstop /\ nstop # 0
  PROVE  LifeInv'
<1>1. nstop' # 0
  BY DEF SessionTypeOK
<1>2. Quiet'
  BY <1>1 DEF Quiet
<1>3. Calm'
  <2> SUFFICES ASSUME Restart = "afterEnd"
               PROVE  /\ OneRunAtATime
                      /\ \A y, x \in Runs : pc[y] = "posted" /\ x # y => pc[x] \in Over
    BY DEF Calm, OneRunAtATime, Live
  <2>1. OneRunAtATime
    BY DEF LifeInv, Quiet, Calm
  <2>2. QED
    BY <2>1 DEF LifeInv, Calm, MayStop
<1>4. QED
  BY <1>2, <1>3 DEF LifeInv

(* What nothing of the runs' lives depends on. *)
LEMMA SameLife ==
  ASSUME LifeInv, UNCHANGED <<pc, status, dirty, nstop>>
  PROVE  LifeInv' /\ Climbs
BY DEF LifeInv, Quiet, Calm, OneRunAtATime, Live, Climbs

-----------------------------------------------------------------------------
(* co_run begins, or is refused. *)
LEMMA CoRunLife ==
  ASSUME SessionTypeOK, LifeInv, NEW r \in Runs, CoRun(r)
  PROVE  LifeInv' /\ Climbs
<1>1. /\ pc[r] = "posted" /\ nstop' = nstop /\ dirty' = dirty
      /\ \/ status # "closed" /\ pc' = [pc EXCEPT ![r] = "refused"] /\ status' = status
         \/ status = "closed" /\ pc' = [pc EXCEPT ![r] = "resolve"] /\ status' = "connecting"
  BY DEF CoRun, CommitStatus
<1>2. ~Live(r) /\ \A x \in Runs : x # r => pc'[x] = pc[x]
  BY <1>1 DEF SessionTypeOK, Live, Active, Streaming, Phase
<1>3. CASE status # "closed"
  <2>1. pc'[r] = "refused" /\ ~Live(r)'
    BY <1>1, <1>3 DEF SessionTypeOK, Live, Active, Streaming, Phase
  <2>2. \A x \in Runs : Live(x)' => Live(x) /\ pc'[x] = pc[x]
    BY <1>2, <2>1 DEF Live
  <2>3. Quiet'
    BY <1>1, <1>2, <1>3, <2>1, <2>2 DEF LifeInv, Quiet, OneRunAtATime, Early
  <2>4. Calm'
    BY <1>1, <1>2, <2>1, <2>2 DEF LifeInv, Calm, OneRunAtATime, Over
  <2>5. QED
    BY <1>1, <1>3, <2>3, <2>4 DEF LifeInv, Climbs
<1>4. CASE status = "closed"
  <2>1. pc'[r] = "resolve" /\ status' = "connecting"
    BY <1>1, <1>4 DEF SessionTypeOK
  <2>2. Quiet'
    <3> SUFFICES ASSUME nstop = 0
                 PROVE  /\ OneRunAtATime'
                        /\ \A x \in Runs : Live(x)' => status' = StatusIn[pc'[x]]
                        /\ status' = "closed" => ~dirty'
                        /\ \A x \in Runs : pc'[x] \in Early => ~dirty'
      BY <1>1 DEF Quiet
    <3>1. \A x \in Runs : ~Live(x)
      BY <1>4 DEF LifeInv, Quiet, Live, StatusIn, Active, Streaming, Phase
    <3>2. \A x \in Runs : Live(x)' => x = r
      BY <1>2, <3>1 DEF Live
    <3>3. ~dirty'
      BY <1>1, <1>4 DEF LifeInv, Quiet
    <3>4. QED
      BY <2>1, <3>2, <3>3 DEF OneRunAtATime, StatusIn
  <2>3. Calm'
    <3> SUFFICES ASSUME Restart = "afterEnd", nstop # 0
                 PROVE  /\ OneRunAtATime'
                        /\ \A y, x \in Runs : pc'[y] = "posted" /\ x # y => pc'[x] \in Over
      BY <1>1 DEF Calm
    <3>1. \A x \in Runs : x # r => pc[x] \in Over
      BY <1>1 DEF LifeInv, Calm
    <3>2. \A x \in Runs : x # r => ~Live(x)' /\ pc'[x] # "posted"
      BY <1>2, <3>1 DEF Live, Over, Active, Streaming, Phase
    <3>3. QED
      BY <2>1, <3>2 DEF OneRunAtATime
  <2>4. QED
    BY <1>4, <2>1, <2>2, <2>3 DEF LifeInv, Climbs
<1>5. QED
  BY <1>3, <1>4

(* The other steps of a run. *)
LEMMA StrandLife ==
  ASSUME SessionTypeOK, LifeInv, NEW r \in Runs, Strand(r)
  PROVE  LifeInv' /\ Climbs
<1>1. CASE CoRun(r)
  BY <1>1, CoRunLife
<1>2. CASE Resolve(r) \/ BeginPhase(r) \/ BeginLoops(r)
  BY <1>2, SameLife DEF Resolve, BeginPhase, BeginLoops
<1>3. ASSUME NEW p \in Phase, Enter(r, p), UNCHANGED <<dirty, nstop>>,
             \/ pc[r] = "connect" /\ p = "handshake"
             \/ pc[r] \in Phase \ {"init"} /\ p = PhaseAfter[pc[r]]
      PROVE  LifeInv' /\ Climbs
  <2>1. pc' = [pc EXCEPT ![r] = p] /\ status' = StatusOf[p] /\ Live(r)
    BY <1>3 DEF Enter, CommitStatus, Live, Active, Streaming, Phase
  <2>2. StatusOf[p] = StatusIn[p] /\ p \in Active
    BY DEF StatusOf, StatusIn, Active, Streaming, Phase
  <2>3. p \in Early => pc[r] \in Early
    BY <1>3 DEF Early, PhaseAfter, Phase
  <2>4. LifeInv'
    BY <1>3, <2>1, <2>2, <2>3, RunMoves DEF Active, Streaming, Phase
  <2>5. Climbs
    BY <1>3, <2>1 DEF Climbs, LifeInv, Quiet, StatusIn, StatusOf, PhaseAfter, Phase
  <2>6. QED
    BY <2>4, <2>5
<1>4. CASE ConnectDone(r) \/ PhaseDone(r)
  <2>1. CASE ConnectDone(r)
    BY <1>3, <2>1 DEF ConnectDone, Phase
  <2>2. CASE PhaseDone(r)
    BY <1>3, <2>2 DEF PhaseDone, Phase, PhaseAfter
  <2>3. QED
    BY <1>4, <2>1, <2>2
<1>5. CASE Initialized(r)
  <2>1. pc[r] = "ready" /\ pc' = [pc EXCEPT ![r] = "loop"] /\ status' = "connected" /\ UNCHANGED <<dirty, nstop>>
    BY <1>5 DEF Initialized, CommitStatus
  <2>2. Live(r) /\ "loop" \in Active /\ StatusIn["loop"] = "connected" /\ "loop" \notin Early
    BY <2>1 DEF Live, Active, Streaming, Early, StatusIn
  <2>3. LifeInv'
    BY <2>1, <2>2, RunMoves
  <2>4. Climbs
    BY <2>1, <2>2 DEF Climbs, LifeInv, Quiet, StatusIn
  <2>5. QED
    BY <2>3, <2>4
<1>6. CASE Resolved(r) \/ InitDone(r) \/ LoopEnds(r)
  <2>1. PICK q \in {"connect", "ready", "unwind"} :
          /\ pc' = [pc EXCEPT ![r] = q] /\ UNCHANGED <<status, dirty, nstop>>
          /\ \/ pc[r] = "resolve" /\ q = "connect"
             \/ pc[r] = "init" /\ q = "ready"
             \/ pc[r] = "loop" /\ q = "unwind"
    BY <1>6 DEF Resolved, InitDone, LoopEnds
  <2>2. Live(r) /\ q \in Active /\ q # "done" /\ (q \in Early => pc[r] \in Early)
    BY <2>1 DEF Live, Active, Streaming, Phase, Early
  <2>3. nstop = 0 => status = StatusIn[pc[r]] /\ StatusIn[pc[r]] = StatusIn[q]
    BY <2>1, <2>2 DEF LifeInv, Quiet, StatusIn
  <2>4. LifeInv'
    BY <2>1, <2>2, <2>3, RunMoves
  <2>5. QED
    BY <2>1, <2>4 DEF Climbs
<1>7. CASE PhaseGoesOn(r) \/ MessageHandled(r)
  <2>1. /\ pc[r] \in Streaming /\ UNCHANGED <<pc, status, nstop>>
        /\ dirty' => dirty \/ pc[r] # "handshake"
    BY <1>7 DEF PhaseGoesOn, MessageHandled, Streaming
  <2>2. Live(r) /\ pc[r] \in Active /\ pc[r] # "done" /\ pc' = [pc EXCEPT ![r] = pc[r]]
    BY <2>1 DEF Live, Active, Streaming, Phase, SessionTypeOK
  <2>3. dirty' => dirty \/ pc[r] \notin Early
    BY <2>1 DEF Early, Streaming, Phase
  <2>4. nstop = 0 => status = StatusIn[pc[r]]
    BY <2>2 DEF LifeInv, Quiet
  <2>5. LifeInv'
    BY <2>1, <2>2, <2>3, <2>4, RunMoves
  <2>6. QED
    BY <2>1, <2>5 DEF Climbs
<1>8. CASE ResolveFailed(r) \/ ConnectFailed(r) \/ PhaseFailed(r) \/ Disconnect(r)
  <2>1. PICK o : Close(o)
    BY <1>8 DEF ResolveFailed, ConnectFailed, PhaseFailed, Disconnect, Fail
  <2>2. Live(r) /\ pc' = [pc EXCEPT ![r] = "done"] /\ nstop' = nstop
    BY <1>8 DEF ResolveFailed, ConnectFailed, PhaseFailed, Disconnect, Fail, Live, Active, Streaming
  <2>3. status' = "closed" /\ (dirty' => dirty /\ status = "closed")
    BY <2>1, CloseLife
  <2>4. nstop = 0 => ~dirty'
    BY <2>3 DEF LifeInv, Quiet
  <2>5. "done" \notin Early
    BY DEF Early
  <2>6. LifeInv'
    BY <2>2, <2>3, <2>4, <2>5, RunMoves
  <2>7. QED
    BY <2>3, <2>6 DEF Climbs
<1>9. QED
  BY <1>1, <1>2, <1>4, <1>5, <1>6, <1>7, <1>8 DEF Strand

-----------------------------------------------------------------------------
(* Calls are dispatched at the end of posted and run from its front. *)
LEMMA CallsMove ==
  ASSUME SessionTypeOK, NEW c \in Call,
         \/ posted' = posted
         \/ posted # <<>> /\ posted' = Tail(posted)
         \/ posted' = Append(posted, c)
  PROVE  \A i \in 1 .. Len(posted') :
           posted'[i] = c \/ \E j \in 1 .. Len(posted) : posted'[i] = posted[j]
<1>1. posted \in Seq(Call) /\ Len(posted) \in Nat
  BY LenProperties DEF SessionTypeOK
<1>2. CASE posted' = posted
  BY <1>2
<1>3. CASE posted # <<>> /\ posted' = Tail(posted)
  <2>1. Len(posted') = Len(posted) - 1 /\ \A i \in 1 .. Len(posted') : posted'[i] = posted[i + 1]
    BY <1>1, <1>3, HeadTailProperties
  <2>2. \A i \in 1 .. Len(posted') : i + 1 \in 1 .. Len(posted)
    BY <1>1, <2>1
  <2>3. QED
    BY <2>1, <2>2
<1>4. CASE posted' = Append(posted, c)
  <2>1. /\ Len(posted') = Len(posted) + 1
        /\ posted'[Len(posted) + 1] = c
        /\ \A i \in 1 .. Len(posted) : posted'[i] = posted[i]
    BY <1>1, <1>4, AppendProperties
  <2>2. \A i \in 1 .. Len(posted') : i \in 1 .. Len(posted) \/ i = Len(posted) + 1
    BY <1>1, <2>1
  <2>3. QED
    BY <2>1, <2>2
<1>5. QED
  BY <1>2, <1>3, <1>4

(* Calls are told apart. *)
LEMMA TheCalls ==
  /\ Stop \in Call /\ Send \in Call /\ Stop # Send
  /\ \A r \in Runs : Start(r) \in Call /\ Start(r) # Stop /\ Start(r) # Send
BY DEF Call, Stop, Send, Start

(* A step that dispatches no stop, and forgets none that was called. *)
LEMMA StopsKept ==
  ASSUME SessionTypeOK, StopsCounted, NEW c \in Call, c # Stop, nstop # 0 => nstop' # 0,
         \/ posted' = posted
         \/ posted # <<>> /\ posted' = Tail(posted)
         \/ posted' = Append(posted, c)
  PROVE  StopsCounted'
<1>1. \A i \in 1 .. Len(posted') :
        posted'[i] = c \/ \E j \in 1 .. Len(posted) : posted'[i] = posted[j]
  BY CallsMove
<1>2. QED
  BY <1>1 DEF StopsCounted

-----------------------------------------------------------------------------
(* The steps of the application, and of the strand on its behalf. *)
LEMMA StopSteps ==
  ASSUME SessionTypeOK, LifeInv, StopsCounted, UserStop \/ InlineStop \/ PostedStop
  PROVE  LifeInv' /\ Climbs /\ StopsCounted'
<1>1. /\ pc' = pc
      /\ \/ nstop' = nstop + 1 /\ MayStop
         \/ nstop' = nstop /\ PostedStop
  BY DEF UserStop, InlineStop, PostedStop
<1>2. PostedStop => nstop # 0
  <2> SUFFICES ASSUME PostedStop PROVE nstop # 0
    OBVIOUS
  <2>1. posted \in Seq(Call) /\ posted # <<>> /\ Head(posted) = Stop
    BY DEF PostedStop, SessionTypeOK
  <2>2. 1 \in 1 .. Len(posted) /\ posted[1] = Stop
    BY <2>1, HeadTailProperties, LenProperties, EmptySeq
  <2>3. QED
    BY <2>2 DEF StopsCounted
<1>3. LifeInv'
  BY <1>1, <1>2, StopLife
<1>4. Climbs
  <2>1. status' = status \/ status' = "closed"
    BY CloseLife DEF UserStop, InlineStop, PostedStop
  <2>2. QED
    BY <2>1 DEF Climbs
<1>5. nstop' # 0
  BY <1>1, <1>2 DEF SessionTypeOK
<1>6. QED
  BY <1>3, <1>4, <1>5 DEF StopsCounted

(* start() is called. *)
LEMMA StartSteps ==
  ASSUME SessionTypeOK, LifeInv, StopsCounted, NEW r \in Runs, UserStart(r)
  PROVE  LifeInv' /\ Climbs /\ StopsCounted'
<1>1. /\ pc[r] = "idle" /\ pc' = [pc EXCEPT ![r] = "posted"]
      /\ posted' = Append(posted, Start(r)) /\ UNCHANGED <<status, dirty, nstop>>
      /\ Restart = "afterEnd" /\ nstop > 0 => \A x \in Runs : pc[x] \in Over
  BY DEF UserStart, Over
<1>2. pc'[r] = "posted" /\ \A x \in Runs : x # r => pc'[x] = pc[x]
  BY <1>1 DEF SessionTypeOK
<1>3. \A x \in Runs : Live(x)' => Live(x) /\ pc'[x] = pc[x]
  BY <1>2 DEF Live, Active, Streaming, Phase
<1>4. Quiet'
  BY <1>1, <1>2, <1>3 DEF LifeInv, Quiet, OneRunAtATime, Early
<1>5. Calm'
  <2> SUFFICES ASSUME Restart = "afterEnd", nstop # 0
               PROVE  /\ OneRunAtATime'
                      /\ \A y, x \in Runs : pc'[y] = "posted" /\ x # y => pc'[x] \in Over
    BY <1>1 DEF Calm
  <2>1. \A x \in Runs : pc[x] \in Over
    BY <1>1 DEF SessionTypeOK
  <2>2. \A x \in Runs : ~Live(x)' /\ (x # r => pc'[x] \in Over /\ pc'[x] # "posted")
    BY <1>2, <1>3, <2>1 DEF Live, Over, Active, Streaming, Phase
  <2>3. QED
    BY <2>2 DEF OneRunAtATime
<1>6. StopsCounted'
  BY <1>1, StopsKept, TheCalls
<1>7. QED
  BY <1>1, <1>4, <1>5, <1>6 DEF LifeInv, Climbs

(* Whatever step is taken. *)
LEMMA LifeStep ==
  ASSUME SessionTypeOK, LifeInv, StopsCounted, [Next]_vars
  PROVE  LifeInv' /\ Climbs /\ StopsCounted'
<1>1. ASSUME NEW r \in Runs, Strand(r) PROVE LifeInv' /\ Climbs /\ StopsCounted'
  <2>1. /\ nstop' = nstop
        /\ \/ posted' = posted
           \/ posted # <<>> /\ posted' = Tail(posted)
    BY <1>1 DEF Strand, CoRun, Resolve, BeginPhase, Initialized, BeginLoops, Resolved,
                ResolveFailed, ConnectDone, ConnectFailed, PhaseGoesOn, PhaseDone, InitDone,
                PhaseFailed, MessageHandled, LoopEnds, Disconnect, Fail
  <2>2. StopsCounted'
    BY <2>1, StopsKept, TheCalls
  <2>3. QED
    BY <1>1, <2>2, StrandLife
<1>2. ASSUME NEW r \in Runs, UserStart(r) PROVE LifeInv' /\ Climbs /\ StopsCounted'
  BY <1>2, StartSteps
<1>3. CASE UserStop \/ InlineStop \/ PostedStop
  BY <1>3, StopSteps
<1>4. CASE \/ UserSend \/ InlineSend \/ PostedSend \/ WriterStep \/ Environment
           \/ (\E r \in Runs : KeepAlive(r)) \/ UNCHANGED vars
  <2>1. /\ UNCHANGED <<pc, status, dirty, nstop>>
        /\ \/ posted' = posted
           \/ posted # <<>> /\ posted' = Tail(posted)
           \/ posted' = Append(posted, Send)
    BY <1>4 DEF UserSend, InlineSend, PostedSend, WriterStep, Environment, WriteCompletes,
                Reset, OpOk, OpError, KeepAlive, vars, sessionVars
  <2>2. StopsCounted'
    BY <2>1, StopsKept, TheCalls
  <2>3. QED
    BY <2>1, <2>2, SameLife
<1>5. QED
  BY <1>1, <1>2, <1>3, <1>4 DEF Next, User

(* In every session the runs of client_impl::co_run follow one another as
   LifeInv says, and a stop that is dispatched was called. *)
THEOREM LifeInvariance == Spec => [](LifeInv /\ StopsCounted)
<1>1. Init => LifeInv /\ StopsCounted
  BY InitLife DEF Init, StopsCounted
<1>2. SessionInv /\ LifeInv /\ StopsCounted /\ [Next]_vars => LifeInv' /\ StopsCounted'
  BY LifeStep DEF SessionInv
<1>3. QED
  BY <1>1, <1>2, SessionInvariance, PTL DEF Spec

(* With an application that waits for the end of every run before it starts
   again once it has called stop(), one run is in progress at a time. *)
THEOREM OneRun == Restart = "afterEnd" => (Spec => []OneRunAtATime)
<1> SUFFICES ASSUME Restart = "afterEnd" PROVE Spec => []OneRunAtATime
  OBVIOUS
<1>1. LifeInv => OneRunAtATime
  BY DEF LifeInv, Quiet, Calm
<1>2. QED
  BY <1>1, LifeInvariance, PTL

(* Until stop() is called, whatever start() calls are made, a run finds the
   members that close() resets as the constructor left them. *)
THEOREM FreshAlways == Spec => []FreshSession
<1>1. LifeInv => FreshSession
  BY DEF LifeInv, Quiet, FreshSession, Early
<1>2. QED
  BY <1>1, LifeInvariance, PTL

(* Until stop() is called, whatever start() calls are made and whichever of
   them are refused, the status climbs one phase at a time. *)
THEOREM LadderKept == Spec => StatusLadder
<1>1. SessionInv /\ LifeInv /\ StopsCounted /\ [Next]_vars =>
        [nstop = 0 /\ status' # status =>
           \/ status' = "closed"
           \/ <<status, status'>> \in
                {<<"closed", "connecting">>, <<"connecting", "handshaking">>,
                 <<"handshaking", "authenticating">>, <<"authenticating", "initializing">>,
                 <<"initializing", "connected">>}]_vars
  BY LifeStep DEF SessionInv, Climbs
<1>2. QED
  BY <1>1, SessionInvariance, LifeInvariance, PTL DEF Spec, StatusLadder

-----------------------------------------------------------------------------
(* A status other than closed is that of a run in progress; a client that is
   closed has a connection only when it was made under a stop() that came
   before it, and then the run that made it has the news still to come. *)
HeldByRun ==
  /\ status # "closed" => \E r \in Runs : Live(r)
  /\ stream \in Runs /\ status = "closed" /\ sock[stream] = "open" =>
       pc[stream] = "connect" /\ op[stream] = "ok"

Types == SessionInv /\ SendTypeOK /\ OthersGone

(* What is known of every session: types of both modules, streams destroyed. *)
LEMMA TypesInvariance == Spec => []Types
<1>1. SessionInv /\ SendInv => Types
  BY DEF SendInv, Types
<1>2. QED
  BY <1>1, SessionInvariance, SessionImplementsSendQueue, SendInvariance, PTL

(* stream_, once set, points to a stream. *)
LEMMA StreamStays ==
  ASSUME Types, [Next]_vars
  PROVE  stream' = stream \/ stream' \in Runs
<1>1. [SendNext]_sendVars
  BY SessionStepSends DEF Types
<1>2. QED
  BY <1>1 DEF SendNext, NewStream, Connected, PeerReset, CloseStream, SendRawData,
              WriterResume, WriteDone, WriteFail, sendVars

(* close(), whether or not a run ends with it. *)
LEMMA CloseHeld ==
  ASSUME Types, HeldByRun, NEW o \in [Runs -> OpState], Close(o),
         \/ o = op /\ pc' = pc
         \/ \E r \in Runs : /\ \A x \in Runs \ {r} : o[x] = op[x] /\ pc'[x] = pc[x]
                            /\ stream = r /\ sock[r] = "open" =>
                                 ~(pc[r] = "connect" /\ op[r] = "ok")
  PROVE  HeldByRun'
<1>1. status' = "closed"
  BY DEF Close, sendVars
<1>2. CASE status = "closed"
  <2>1. op' = o /\ UNCHANGED <<stream, sock>>
    BY <1>2 DEF Close, sendVars
  <2>2. QED
    BY <1>1, <1>2, <2>1 DEF HeldByRun
<1>3. CASE status # "closed"
  <2>1. stream' = stream /\ (stream \in Runs => sock'[stream] = "closed")
    BY <1>3 DEF Close, CloseStream, Types, SendTypeOK
  <2>2. QED
    BY <1>1, <2>1 DEF HeldByRun
<1>4. QED
  BY <1>2, <1>3

(* A run that is in progress and stays so, on the stream it is on. *)
LEMMA StaysHeld ==
  ASSUME Types, HeldByRun, NEW r \in Runs, Live(r), Live(r)',
         \A x \in Runs \ {r} : op'[x] = op[x] /\ pc'[x] = pc[x],
         UNCHANGED <<stream, sock>>,
         status' = "closed" => status = "closed",
         status' # "closed" \/ pc[r] # "connect"
  PROVE  HeldByRun'
BY DEF HeldByRun

(* The steps of the strand. *)
LEMMA StrandHeld ==
  ASSUME Types, HeldByRun, NEW r \in Runs, Strand(r)
  PROVE  HeldByRun'
<1> USE DEF Types, SessionInv
<1>0. op \in [Runs -> OpState] /\ pc \in [Runs -> PC]
  BY DEF SessionTypeOK
<1>1. CASE CoRun(r)
  <2>1. UNCHANGED <<stream, sock>> /\ pc[r] = "posted"
    BY <1>1 DEF CoRun, sendVars
  <2>2. CASE status # "closed"
    <3>1. pc' = [pc EXCEPT ![r] = "refused"] /\ status' = status
      BY <1>1, <2>2 DEF CoRun
    <3>2. \A x \in Runs : Live(x) => Live(x)'
      BY <1>0, <2>1, <3>1 DEF Live, Active, Streaming, Phase
    <3>3. QED
      BY <2>2, <3>1, <3>2 DEF HeldByRun
  <2>3. CASE status = "closed"
    <3>1. pc'[r] = "resolve" /\ status' = "connecting"
      BY <1>0, <1>1, <2>3 DEF CoRun, CommitStatus
    <3>2. QED
      BY <3>1 DEF HeldByRun, Live, Active
  <2>4. QED
    BY <2>2, <2>3
<1>2. CASE Resolve(r) \/ BeginPhase(r) \/ BeginLoops(r) \/ PhaseGoesOn(r) \/ MessageHandled(r)
  <2>1. /\ pc[r] \in {"resolve"} \cup Streaming /\ UNCHANGED <<pc, status, stream, sock>>
        /\ \A x \in Runs \ {r} : op'[x] = op[x]
    BY <1>0, <1>2 DEF Resolve, BeginPhase, BeginLoops, PhaseGoesOn, MessageHandled, Operate,
                 SendRawData, sendVars, Streaming, Phase
  <2>2. Live(r) /\ Live(r)' /\ pc[r] # "connect"
    BY <2>1 DEF Live, Active, Streaming, Phase
  <2>3. QED
    BY <2>1, <2>2, StaysHeld
<1>3. CASE Initialized(r) \/ InitDone(r) \/ LoopEnds(r)
  <2>1. /\ pc[r] \in {"ready", "init", "loop"} /\ UNCHANGED <<stream, sock>>
        /\ pc' \in {[pc EXCEPT ![r] = q] : q \in {"loop", "ready", "unwind"}}
        /\ status' = status \/ status' = "connected"
        /\ \A x \in Runs \ {r} : op'[x] = op[x]
    BY <1>0, <1>3 DEF Initialized, InitDone, LoopEnds, CommitStatus, SendRawData, sendVars
  <2>2. Live(r) /\ Live(r)' /\ pc[r] # "connect" /\ \A x \in Runs \ {r} : pc'[x] = pc[x]
    BY <1>0, <2>1 DEF Live, Active, Streaming, Phase
  <2>3. QED
    BY <2>1, <2>2, StaysHeld
<1>4. CASE ConnectDone(r) \/ PhaseDone(r)
  <2>1. PICK p \in Phase : Enter(r, p)
    BY <1>4 DEF ConnectDone, PhaseDone, Phase, PhaseAfter
  <2>2. pc' = [pc EXCEPT ![r] = p] /\ pc[r] \in {"connect"} \cup Phase /\ UNCHANGED <<stream, sock>>
    BY <1>4, <2>1 DEF ConnectDone, PhaseDone, Enter, sendVars
  <2>3. status' = StatusOf[p] /\ status' # "closed" /\ \A x \in Runs \ {r} : op'[x] = op[x]
    BY <1>0, <2>1 DEF Enter, CommitStatus, Operate, StatusOf, Phase
  <2>4. Live(r) /\ Live(r)' /\ \A x \in Runs \ {r} : pc'[x] = pc[x]
    BY <1>0, <2>2 DEF Live, Active, Streaming, Phase
  <2>5. QED
    BY <2>2, <2>3, <2>4, StaysHeld
<1>5. CASE Resolved(r)
  <2>1. NewStream(r) /\ pc'[r] = "connect"
    BY <1>0, <1>5 DEF Resolved
  <2>2. stream' = r /\ r # stream
    BY <2>1 DEF NewStream, OthersGone
  <2>3. sock'[r] = "connecting"
    BY <2>1, <2>2 DEF NewStream
  <2>4. QED
    BY <2>1, <2>2, <2>3 DEF HeldByRun, Live, Active
<1>6. CASE ResolveFailed(r) \/ ConnectFailed(r) \/ PhaseFailed(r)
  <2>1. Fail(r) /\ [op EXCEPT ![r] = "none"] \in [Runs -> OpState]
    BY <1>0, <1>6 DEF ResolveFailed, ConnectFailed, PhaseFailed, OpState
  <2>2. \A x \in Runs \ {r} : [op EXCEPT ![r] = "none"][x] = op[x] /\ pc'[x] = pc[x]
    BY <1>0, <2>1 DEF Fail
  <2>3. sock[r] = "open" => ~(pc[r] = "connect" /\ op[r] = "ok")
    BY <1>6 DEF ResolveFailed, ConnectFailed, PhaseFailed, Resumed, Phase
  <2>4. QED
    BY <2>1, <2>2, <2>3, CloseHeld DEF Fail
<1>7. CASE Disconnect(r)
  <2>1. Close(op) /\ pc[r] = "unwind" /\ \A x \in Runs \ {r} : pc'[x] = pc[x]
    BY <1>0, <1>7 DEF Disconnect
  <2>2. QED
    BY <1>0, <2>1, CloseHeld
<1>8. QED
  BY <1>1, <1>2, <1>3, <1>4, <1>5, <1>6, <1>7 DEF Strand

(* The steps of the application. *)
LEMMA OthersHeld ==
  ASSUME Types, HeldByRun, User \/ PostedStop \/ PostedSend \/ WriterStep
  PROVE  HeldByRun'
<1> USE DEF Types, SessionInv
<1>0. op \in [Runs -> OpState] /\ pc \in [Runs -> PC]
  BY DEF SessionTypeOK
<1>1. CASE InlineStop \/ PostedStop
  <2>1. Close(op) /\ pc' = pc
    BY <1>1 DEF InlineStop, PostedStop
  <2>2. QED
    BY <1>0, <2>1, CloseHeld
<1>2. ASSUME NEW r \in Runs, UserStart(r) PROVE HeldByRun'
  <2>1. UNCHANGED <<status, op, stream, sock>> /\ pc[r] = "idle" /\ pc' = [pc EXCEPT ![r] = "posted"]
    BY <1>2 DEF UserStart, sendVars
  <2>2. \A x \in Runs : (Live(x) => Live(x)') /\ (pc[x] = "connect" => pc'[x] = "connect")
    BY <1>0, <2>1 DEF Live, Active, Streaming, Phase
  <2>3. QED
    BY <2>1, <2>2 DEF HeldByRun
<1>3. CASE UserStop \/ UserSend \/ InlineSend \/ PostedSend \/ WriterStep
  <2>1. UNCHANGED <<status, pc, op, stream, sock>>
    BY <1>3 DEF UserStop, UserSend, InlineSend, PostedSend, WriterStep, WriterResume,
                SendRawData, sendVars, sessionVars
  <2>2. QED
    BY <2>1 DEF HeldByRun, Live
<1>4. QED
  BY <1>1, <1>2, <1>3 DEF User

(* The steps of the network. *)
LEMMA NetworkHeld ==
  ASSUME Types, HeldByRun, Environment \/ \E r \in Runs : KeepAlive(r)
  PROVE  HeldByRun'
<1> USE DEF Types, SessionInv
<1>0. /\ op \in [Runs -> OpState] /\ sock \in [Runs -> SockState]
  BY DEF SessionTypeOK, SendTypeOK
<1>1. CASE WriteCompletes \/ \E r \in Runs : KeepAlive(r)
  <2>1. UNCHANGED <<status, pc, op, stream, sock>>
    BY <1>1 DEF WriteCompletes, WriteDone, WriteFail, KeepAlive, SendRawData, sessionVars
  <2>2. QED
    BY <2>1 DEF HeldByRun, Live
<1>2. CASE Reset
  <2>1. /\ UNCHANGED <<status, pc, op, stream>>
        /\ \A x \in Runs : sock'[x] = "open" => sock[x] = "open"
    BY <1>0, <1>2 DEF Reset, PeerReset, sessionVars
  <2>2. QED
    BY <2>1 DEF HeldByRun, Live
<1>3. ASSUME NEW r \in Runs, OpOk(r) PROVE HeldByRun'
  <2>1. /\ op[r] = "pending" /\ op'[r] = "ok" /\ UNCHANGED <<status, pc, stream>>
        /\ \A x \in Runs \ {r} : op'[x] = op[x]
    BY <1>0, <1>3 DEF OpOk, Connected, sendVars
  <2>2. \A x \in Runs : sock'[x] = "open" => sock[x] = "open" \/ (x = r /\ pc[r] = "connect")
    BY <1>0, <1>3 DEF OpOk, Connected, sendVars
  <2>3. QED
    BY <2>1, <2>2 DEF HeldByRun, Live
<1>4. ASSUME NEW r \in Runs, OpError(r) PROVE HeldByRun'
  <2>1. /\ op[r] = "pending" /\ UNCHANGED <<status, pc, stream>>
        /\ \A x \in Runs \ {r} : op'[x] = op[x]
    BY <1>0, <1>4 DEF OpError, PeerReset, sendVars
  <2>2. \A x \in Runs : sock'[x] = "open" => sock[x] = "open"
    BY <1>0, <1>4 DEF OpError, PeerReset, sendVars
  <2>3. QED
    BY <2>1, <2>2 DEF HeldByRun, Live
<1>5. QED
  BY <1>1, <1>2, <1>3, <1>4 DEF Environment

(* When the last run is over the client is closed and holds no connection,
   whatever the application does and when. *)
THEOREM NoOrphan == Spec => []NoOrphanConnection
<1>1. Init => HeldByRun
  BY StreamAssumption DEF Init, SendInit, HeldByRun
<1>2. Types /\ HeldByRun /\ [Next]_vars => HeldByRun'
  <2> SUFFICES ASSUME Types, HeldByRun, [Next]_vars PROVE HeldByRun'
    OBVIOUS
  <2>1. CASE UNCHANGED vars
    BY <2>1 DEF vars, sessionVars, sendVars, HeldByRun, Live
  <2>2. QED
    BY <2>1, StrandHeld, OthersHeld, NetworkHeld DEF Next
<1>3. Types /\ HeldByRun => NoOrphanConnection
  BY DEF Types, SendTypeOK, HeldByRun, NoOrphanConnection, Live, Active
<1>4. QED
  BY <1>1, <1>2, <1>3, TypesInvariance, PTL DEF Spec

-----------------------------------------------------------------------------
(* A status of connected, and a send dispatched after it was read, come after
   the first stream. *)
SendsHaveStream ==
  /\ ~crashed
  /\ status = "connected" => stream \in Runs
  /\ \A i \in 1 .. Len(posted) : posted[i] = Send => stream \in Runs

(* status_ becomes connected after stream_ is set. *)
LEMMA StatusAfterStream ==
  ASSUME Types, [Next]_vars, status' = "connected", status # "connected"
  PROVE  stream \in Runs
<1>1. PICK r \in Runs : Strand(r)
  BY CloseLife DEF Next, User, UserStart, UserStop, UserSend, InlineStop, InlineSend,
     PostedStop, PostedSend, WriterStep, KeepAlive, Environment, WriteCompletes, Reset,
     OpOk, OpError, vars, sessionVars
<1>2. CASE Initialized(r)
  BY <1>2 DEF Initialized, Types, SessionInv, StreamMade
<1>3. CASE ~Initialized(r)
  <2>1. ASSUME NEW p \in Phase, Enter(r, p) PROVE FALSE
    BY <2>1 DEF Enter, CommitStatus, StatusOf, Phase
  <2>2. ASSUME NEW o, Close(o) PROVE FALSE
    BY <2>2, CloseLife
  <2>3. ConnectDone(r) \/ PhaseDone(r) => \E p \in Phase : Enter(r, p)
    BY DEF ConnectDone, PhaseDone, Phase, PhaseAfter
  <2>4. QED
    BY <1>1, <1>3, <2>1, <2>2, <2>3 DEF Strand, CoRun, CommitStatus, Resolve, BeginPhase,
       BeginLoops, Resolved, ResolveFailed, ConnectFailed, Fail, PhaseGoesOn, InitDone,
       PhaseFailed, MessageHandled, LoopEnds, Disconnect
<1>4. QED
  BY <1>2, <1>3

(* A send that is posted finds stream_ set when it runs. *)
LEMMA PostedHaveStream ==
  ASSUME SendWhen = "connected", Types, SendsHaveStream, [Next]_vars
  PROVE  \A i \in 1 .. Len(posted') : posted'[i] = Send => stream' \in Runs
<1>1. stream \in Runs => stream' \in Runs
  BY StreamStays DEF Types, SendTypeOK
<1>2. CASE UserSend
  BY <1>1, <1>2 DEF UserSend, MaySend, SendsHaveStream
<1>3. CASE ~UserSend
  <2>1. PICK c \in Call : /\ c # Send
                          /\ \/ posted' = posted
                             \/ posted # <<>> /\ posted' = Tail(posted)
                             \/ posted' = Append(posted, c)
    <3>1. CASE \E r \in Runs : UserStart(r)
      BY <3>1, TheCalls DEF UserStart
    <3>2. CASE ~\E r \in Runs : UserStart(r)
      <4>1. \/ posted' = posted
            \/ posted # <<>> /\ posted' = Tail(posted)
            \/ posted' = Append(posted, Stop)
        BY <1>3, <3>2 DEF Next, User, UserStop, InlineStop, InlineSend, PostedStop, PostedSend,
           WriterStep, KeepAlive, Environment, WriteCompletes, Reset, OpOk, OpError, vars,
           sessionVars, Strand, CoRun, Resolve, BeginPhase, Initialized, BeginLoops, Resolved,
           ResolveFailed, ConnectDone, ConnectFailed, PhaseGoesOn, PhaseDone, InitDone,
           PhaseFailed, MessageHandled, LoopEnds, Disconnect, Fail
      <4>2. QED
        BY <4>1, TheCalls
    <3>3. QED
      BY <3>1, <3>2
  <2>2. \A i \in 1 .. Len(posted') :
          posted'[i] = c \/ \E j \in 1 .. Len(posted) : posted'[i] = posted[j]
    BY <2>1, CallsMove DEF Types, SessionInv
  <2>3. QED
    BY <1>1, <2>1, <2>2 DEF SendsHaveStream
<1>4. QED
  BY <1>2, <1>3

(* No posted call meets a null stream_. *)
LEMMA NotCrashed ==
  ASSUME SendWhen = "connected", Types, SendsHaveStream, [Next]_vars
  PROVE  ~crashed'
<1>1. CASE InlineSend
  <2>1. stream # NoStream
    BY <1>1, StreamAssumption DEF InlineSend, MaySend, SendsHaveStream
  <2>2. QED
    BY <1>1, <2>1 DEF InlineSend, SendsHaveStream
<1>2. CASE PostedSend
  <2>1. posted \in Seq(Call) /\ posted # <<>> /\ Head(posted) = Send
    BY <1>2 DEF PostedSend, Types, SessionInv, SessionTypeOK
  <2>2. 1 \in 1 .. Len(posted) /\ posted[1] = Send
    BY <2>1, HeadTailProperties, LenProperties, EmptySeq
  <2>3. stream # NoStream
    BY <2>2, StreamAssumption DEF SendsHaveStream
  <2>4. QED
    BY <1>2, <2>3 DEF PostedSend, SendsHaveStream
<1>3. CASE ~InlineSend /\ ~PostedSend
  <2>1. crashed' = crashed
    BY <1>3 DEF Next, User, UserStart, UserStop, UserSend, InlineStop, PostedStop, WriterStep,
       KeepAlive, Environment, WriteCompletes, Reset, OpOk, OpError, vars, sessionVars, Strand,
       CoRun, Resolve, BeginPhase, Initialized, BeginLoops, Resolved, ResolveFailed,
       ConnectDone, ConnectFailed, PhaseGoesOn, PhaseDone, InitDone, PhaseFailed,
       MessageHandled, LoopEnds, Disconnect, Fail
  <2>2. QED
    BY <2>1 DEF SendsHaveStream
<1>4. QED
  BY <1>1, <1>2, <1>3

(* An application that sends when it reads status_ as connected makes no use of
   a null stream_, however late the strand runs the call. *)
THEOREM NullStream == SendWhen = "connected" => (Spec => []NullStreamUnused)
<1> SUFFICES ASSUME SendWhen = "connected" PROVE Spec => []NullStreamUnused
  OBVIOUS
<1>1. Init => SendsHaveStream
  BY DEF Init, SendsHaveStream
<1>2. Types /\ SendsHaveStream /\ [Next]_vars => SendsHaveStream'
  <2> SUFFICES ASSUME Types, SendsHaveStream, [Next]_vars PROVE SendsHaveStream'
    OBVIOUS
  <2>1. stream \in Runs => stream' \in Runs
    BY StreamStays DEF Types, SendTypeOK
  <2>2. status' = "connected" => stream \in Runs
    BY StatusAfterStream DEF SendsHaveStream
  <2>3. QED
    BY <2>1, <2>2, PostedHaveStream, NotCrashed DEF SendsHaveStream
<1>3. SendsHaveStream => NullStreamUnused
  BY DEF SendsHaveStream, NullStreamUnused
<1>4. QED
  BY <1>1, <1>2, <1>3, TypesInvariance, PTL DEF Spec
=============================================================================
