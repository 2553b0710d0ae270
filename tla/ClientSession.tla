---------------------------- MODULE ClientSession ----------------------------
(***************************************************************************)
(* The life of a client_impl: start() spawns co_run on the strand, co_run  *)
(* takes the connection through its phases and reports to the delegate,    *)
(* close() and the application's messages are dispatched to the same       *)
(* strand from any thread, or run at once when a callback makes them.      *)
(*                                                                         *)
(* Several runs of co_run may be on the strand: close() sets the status to *)
(* closed, which is all a new start() asks for, before the run it closes   *)
(* has been resumed.  The order in which the completions of two different  *)
(* asynchronous operations are resumed is free; only what the application  *)
(* dispatches is first in, first out.                                      *)
(***************************************************************************)
EXTENDS SendQueue, FiniteSets

CONSTANTS MaxStops,   \* bound: calls of stop() by the application
          MaxSends,   \* bound: messages other than those every run sends
          Restart,    \* start() and stop() are called "anytime", or with stop() only
                      \* when no start() is under way, and then start() "afterEnd" of every run
          SendWhen    \* messages are sent "anytime", or when status_ reads "connected"

ASSUME BoundAssumption == MaxStops \in Nat /\ MaxSends \in Nat
ASSUME UserAssumption == Restart \in {"anytime", "afterEnd"} /\ SendWhen \in {"anytime", "connected"}

VARIABLES
  status,     \* status_
  pc,         \* where each run of co_run is
  op,         \* the asynchronous operation each run is suspended on
  on,         \* the stream that operation is on
  told,       \* what each run has told the delegate: on_connect, on_disconnect
  callback,   \* the run on whose behalf the strand is inside a delegate callback
  posted,     \* the application's calls dispatched to the strand
  dirty,      \* a member that close() resets has been set since
  nstop,      \* calls of stop() made
  crashed     \* a null stream_ was dereferenced

sessionVars == <<status, pc, op, on, told, callback, posted, dirty, nstop, crashed>>
vars == <<sessionVars, sendVars>>

Phase == {"handshake", "authenticate", "init"}

Status == {"closed", "connecting", "handshaking", "authenticating", "initializing", "connected"}

(* The status that commit_status announces before the phase. *)
StatusOf == [handshake |-> "handshaking", authenticate |-> "authenticating",
             init |-> "initializing", loop |-> "connected"]

PhaseAfter == [handshake |-> "authenticate", authenticate |-> "init", init |-> "loop"]

Streaming == Phase \cup {"loop"}   \* suspended on an operation on *stream_

Active == {"resolve", "connect", "ready", "unwind"} \cup Streaming

PC == {"idle", "posted", "done", "refused"} \cup Active

Live(r) == pc[r] \in Active

OpState == {"none", "pending", "ok", "error"}

Call == [call : {"start"}, run : Runs] \cup [call : {"stop", "send"}, run : {NoStream}]
Stop == [call |-> "stop", run |-> NoStream]
Send == [call |-> "send", run |-> NoStream]
Start(r) == [call |-> "start", run |-> r]

SessionTypeOK ==
  /\ status \in Status
  /\ pc \in [Runs -> PC]
  /\ op \in [Runs -> OpState]
  /\ on \in [Runs -> Runs \cup {NoStream}]
  /\ told \in [Runs -> {"nothing", "connected", "failed", "disconnected"}]
  /\ callback \in Runs \cup {NoStream}
  /\ posted \in Seq(Call)
  /\ dirty \in BOOLEAN
  /\ nstop \in Nat
  /\ crashed \in BOOLEAN

TypeOK == SendTypeOK /\ SessionTypeOK

Init ==
  /\ SendInit
  /\ status = "closed"
  /\ pc = [r \in Runs |-> "idle"]
  /\ op = [r \in Runs |-> "none"]
  /\ on = [r \in Runs |-> NoStream]
  /\ told = [r \in Runs |-> "nothing"]
  /\ callback = NoStream
  /\ posted = <<>>
  /\ dirty = FALSE
  /\ nstop = 0
  /\ crashed = FALSE

-----------------------------------------------------------------------------
(* The application.  Any thread may dispatch a call to the strand; it reads
   status_ when it makes the call, not when the strand runs it. *)
UserStart(r) ==
  /\ pc[r] = "idle"
  /\ Restart = "afterEnd" /\ nstop > 0 => \A x \in Runs : pc[x] \in {"idle", "done", "refused"}
  /\ pc' = [pc EXCEPT ![r] = "posted"]
  /\ posted' = Append(posted, Start(r))
  /\ UNCHANGED <<status, op, on, told, callback, dirty, nstop, crashed, sendVars>>

MayStop ==
  /\ nstop < MaxStops
  /\ Restart = "afterEnd" => \A x \in Runs : pc[x] # "posted"

UserStop ==
  /\ MayStop
  /\ nstop' = nstop + 1
  /\ posted' = Append(posted, Stop)
  /\ UNCHANGED <<status, pc, op, on, told, callback, dirty, crashed, sendVars>>

SendBounded == nsent + Len(posted) < MaxSends

MaySend == SendBounded /\ (SendWhen = "connected" => status = "connected")

UserSend ==
  /\ MaySend
  /\ posted' = Append(posted, Send)
  /\ UNCHANGED <<status, pc, op, on, told, callback, dirty, nstop, crashed, sendVars>>

-----------------------------------------------------------------------------
(* The operations pending on a stream fail when it is closed or destroyed. *)
AbortOps(o, s) ==
  [r \in Runs |-> IF o[r] = "pending" /\ pc[r] # "resolve" /\ on[r] = s THEN "error" ELSE o[r]]

(* Cancelling the resolver fails the resolution that is still under way, not
   one whose answer is already in the strand's queue. *)
CancelResolve(o) ==
  [r \in Runs |-> IF o[r] = "pending" /\ pc[r] = "resolve" THEN "error" ELSE o[r]]

(* Mutants of close(): it keeps the members of the session, resets stream_,
   leaves the operations pending, does not close the stream, clears the queue,
   announces a status of its own. *)
Close_KeepsMembers(o) ==
  IF status = "closed"
  THEN op' = o /\ UNCHANGED <<status, dirty, sendVars>>
  ELSE /\ op' = AbortOps(CancelResolve(o), stream)
       /\ CloseStream
       /\ status' = "closed"
       /\ UNCHANGED dirty

Close_ResetsStream(o) ==
  IF status = "closed"
  THEN op' = o /\ UNCHANGED <<status, dirty, sendVars>>
  ELSE /\ op' = AbortOps(CancelResolve(o), stream)
       /\ stream' = NoStream
       /\ sock' = [x \in Runs |-> IF x = stream THEN "destroyed" ELSE sock[x]]
       /\ writers' = Aborted(writers, stream)
       /\ UNCHANGED <<sendQue, wire, nsent>>
       /\ dirty' = FALSE
       /\ status' = "closed"

Close_LeavesOps(o) ==
  IF status = "closed"
  THEN op' = o /\ UNCHANGED <<status, dirty, sendVars>>
  ELSE /\ op' = CancelResolve(o)
       /\ CloseStream
       /\ dirty' = FALSE
       /\ status' = "closed"

Close_StatusOnly(o) ==
  IF status = "closed"
  THEN op' = o /\ UNCHANGED <<status, dirty, sendVars>>
  ELSE /\ op' = CancelResolve(o)
       /\ dirty' = FALSE
       /\ status' = "closed"
       /\ UNCHANGED sendVars

Close_ClearsQueue(o) ==
  IF status = "closed"
  THEN op' = o /\ UNCHANGED <<status, dirty, sendVars>>
  ELSE /\ op' = AbortOps(CancelResolve(o), stream)
       /\ CloseStream_ClearsQueue
       /\ dirty' = FALSE
       /\ status' = "closed"

Close_OtherStatus(o) ==
  IF status = "closed"
  THEN op' = o /\ UNCHANGED <<status, dirty, sendVars>>
  ELSE /\ op' = AbortOps(CancelResolve(o), stream)
       /\ CloseStream
       /\ dirty' = FALSE
       /\ status' = "disconnected"

(* close() on the strand, the runs being suspended on o. *)
Close(o) ==
  IF status = "closed"
  THEN op' = o /\ UNCHANGED <<status, dirty, sendVars>>
  ELSE /\ op' = AbortOps(CancelResolve(o), stream)
       /\ CloseStream
       /\ dirty' = FALSE
       /\ status' = "closed"

(* Run r initiates an operation on *stream_; on a closed socket it completes
   at once. *)
Operate(r) ==
  /\ op' = [op EXCEPT ![r] = IF Usable(stream) THEN "pending" ELSE "error"]
  /\ on' = [on EXCEPT ![r] = stream]

(* commit_status(s) by run r: the delegate is called if the status changes, and
   the run goes on when the callback returns. *)
CommitStatus(r, s) ==
  /\ status' = s
  /\ callback' = r
  /\ op' = [op EXCEPT ![r] = "none"]
  /\ UNCHANGED on

(* co_run enters phase p. *)
Enter(r, p) ==
  /\ pc' = [pc EXCEPT ![r] = p]
  /\ IF status = StatusOf[p]
     THEN Operate(r) /\ UNCHANGED <<status, callback>>
     ELSE CommitStatus(r, StatusOf[p])

-----------------------------------------------------------------------------
(* The strand runs the first of the calls dispatched to it. *)
StrandFree == callback = NoStream /\ ~crashed

(* Mutant: a run is accepted whatever the status. *)
CoRun_AlwaysAccepts(r) ==
  /\ pc[r] = "posted"
  /\ StrandFree /\ posted # <<>> /\ Head(posted) = Start(r)
  /\ posted' = Tail(posted)
  /\ pc' = [pc EXCEPT ![r] = "resolve"]
  /\ CommitStatus(r, "connecting")
  /\ UNCHANGED <<told, dirty, nstop, crashed, sendVars>>

CoRun(r) ==
  /\ pc[r] = "posted"
  /\ StrandFree /\ posted # <<>> /\ Head(posted) = Start(r)
  /\ posted' = Tail(posted)
  /\ IF status # "closed"
     THEN pc' = [pc EXCEPT ![r] = "refused"] /\ UNCHANGED <<status, callback, op, on>>
     ELSE pc' = [pc EXCEPT ![r] = "resolve"] /\ CommitStatus(r, "connecting")
  /\ UNCHANGED <<told, dirty, nstop, crashed, sendVars>>

PostedStop ==
  /\ StrandFree /\ posted # <<>> /\ Head(posted) = Stop
  /\ posted' = Tail(posted)
  /\ Close(op)
  /\ UNCHANGED <<pc, on, told, callback, nstop, crashed>>

PostedSend ==
  /\ StrandFree /\ posted # <<>> /\ Head(posted) = Send
  /\ posted' = Tail(posted)
  /\ IF stream = NoStream
     THEN crashed' = TRUE /\ UNCHANGED sendVars
     ELSE SendRawData(1) /\ UNCHANGED crashed
  /\ UNCHANGED <<status, pc, op, on, told, callback, dirty, nstop>>

-----------------------------------------------------------------------------
(* Inside a callback the application is on the strand: its calls run at once. *)
InCallback == callback # NoStream /\ ~crashed

InlineStop ==
  /\ InCallback /\ MayStop
  /\ nstop' = nstop + 1
  /\ Close(op)
  /\ UNCHANGED <<pc, on, told, callback, posted, crashed>>

InlineSend ==
  /\ InCallback
  /\ MaySend
  /\ IF stream = NoStream
     THEN crashed' = TRUE /\ UNCHANGED sendVars
     ELSE SendRawData(1) /\ UNCHANGED crashed
  /\ UNCHANGED <<status, pc, op, on, told, callback, posted, dirty, nstop>>

(* The callback returns and co_run goes on to its next suspension. *)
Resolve(r) ==
  /\ InCallback /\ callback = r /\ pc[r] = "resolve"
  /\ callback' = NoStream
  /\ op' = [op EXCEPT ![r] = "pending"]
  /\ UNCHANGED <<status, pc, on, told, posted, dirty, nstop, crashed, sendVars>>

BeginPhase(r) ==
  /\ InCallback /\ callback = r /\ pc[r] \in Phase
  /\ callback' = NoStream
  /\ Operate(r)
  /\ UNCHANGED <<status, pc, told, posted, dirty, nstop, crashed, sendVars>>

(* async_client_init has the server's parameters: the delegate may have asked
   for a format, and the encodings follow; then on_connect reports success. *)
Initialized(r) ==
  /\ InCallback /\ callback = r /\ pc[r] = "ready"
  /\ \E k \in 1 .. 2 : SendRawData(k)
  /\ pc' = [pc EXCEPT ![r] = "loop"]
  /\ CommitStatus(r, "connected")
  /\ told' = [told EXCEPT ![r] = "connected"]
  /\ UNCHANGED <<posted, dirty, nstop, crashed>>

(* After on_connect the run asks for the first full update, then it reads. *)
BeginLoops(r) ==
  /\ InCallback /\ callback = r /\ pc[r] = "loop"
  /\ callback' = NoStream
  /\ SendRawData(1)
  /\ Operate(r)
  /\ UNCHANGED <<status, pc, told, posted, dirty, nstop, crashed>>

-----------------------------------------------------------------------------
(* The strand resumes a run whose operation has completed. *)
Resumed(r, results) == StrandFree /\ op[r] \in results

(* A step failed: the run closes the client, whoever's connection that is by
   now, and reports. *)
Fail(r) ==
  /\ Close([op EXCEPT ![r] = "none"])
  /\ pc' = [pc EXCEPT ![r] = "done"]
  /\ told' = [told EXCEPT ![r] = "failed"]
  /\ UNCHANGED <<on, callback, posted, nstop, crashed>>

Resolved(r) ==
  /\ pc[r] = "resolve" /\ Resumed(r, {"ok"})
  /\ NewStream(r)
  /\ pc' = [pc EXCEPT ![r] = "connect"]
  /\ op' = [AbortOps(op, stream) EXCEPT ![r] = "pending"]
  /\ on' = [on EXCEPT ![r] = r]
  /\ UNCHANGED <<status, told, callback, posted, dirty, nstop, crashed>>

ResolveFailed(r) ==
  pc[r] = "resolve" /\ Resumed(r, {"error"}) /\ Fail(r)

(* async_connect fails if the socket was closed in the meantime.  Of a stream
   destroyed in the meantime it reads freed memory, so both outcomes exist. *)
ConnectDone(r) ==
  /\ pc[r] = "connect" /\ Resumed(r, {"ok"}) /\ sock[r] # "closed"
  /\ Enter(r, "handshake")
  /\ UNCHANGED <<told, posted, dirty, nstop, crashed, sendVars>>

ConnectFailed(r) ==
  /\ pc[r] = "connect"
  /\ Resumed(r, IF sock[r] \in {"closed", "destroyed"} THEN {"ok", "error"} ELSE {"error"})
  /\ Fail(r)

(* A read or a write of a phase succeeded and the phase goes on with another.
   From authentication on it may set a member that close() resets. *)
PhaseGoesOn(r) ==
  /\ pc[r] \in Phase /\ Resumed(r, {"ok"})
  /\ Operate(r)
  /\ dirty' \in IF pc[r] = "handshake" THEN {dirty} ELSE {dirty, TRUE}
  /\ UNCHANGED <<status, pc, told, callback, posted, nstop, crashed, sendVars>>

(* Mutant: the handshake is followed by the initialisation. *)
PhaseDone_SkipsAuthentication(r) ==
  /\ pc[r] \in Phase \ {"init"} /\ Resumed(r, {"ok"})
  /\ Enter(r, "init")
  /\ UNCHANGED <<told, posted, dirty, nstop, crashed, sendVars>>

PhaseDone(r) ==
  /\ pc[r] \in Phase \ {"init"} /\ Resumed(r, {"ok"})
  /\ Enter(r, PhaseAfter[pc[r]])
  /\ UNCHANGED <<told, posted, dirty, nstop, crashed, sendVars>>

(* async_client_init calls on_new_frame_size and want_format. *)
InitDone(r) ==
  /\ pc[r] = "init" /\ Resumed(r, {"ok"})
  /\ pc' = [pc EXCEPT ![r] = "ready"]
  /\ op' = [op EXCEPT ![r] = "none"]
  /\ callback' = r
  /\ UNCHANGED <<status, on, told, posted, dirty, nstop, crashed, sendVars>>

(* The operation failed, or what it read is refused. *)
PhaseFailed(r) ==
  pc[r] \in Phase /\ Resumed(r, {"ok", "error"}) /\ Fail(r)

(* The handler of a message sends nothing, an update request, or one more for
   a resized framebuffer, and the next read is initiated. *)
MessageHandled(r) ==
  /\ pc[r] = "loop" /\ Resumed(r, {"ok"})
  /\ Operate(r)
  /\ dirty' \in {dirty, TRUE}
  /\ \/ UNCHANGED sendVars
     \/ SendBounded /\ \E k \in 1 .. 2 : SendRawData(k)
  /\ UNCHANGED <<status, pc, told, callback, posted, nstop, crashed>>

(* The keepalive timer of a run in its loops has expired. *)
KeepAlive(r) ==
  /\ pc[r] = "loop" /\ StrandFree
  /\ SendBounded /\ SendRawData(1)
  /\ UNCHANGED sessionVars

(* The message loop ends: a failed read, an unknown message, or a handler's
   error.  The keepalive loop is cancelled and co_run is resumed after it. *)
LoopEnds(r) ==
  /\ pc[r] = "loop" /\ Resumed(r, {"ok", "error"})
  /\ pc' = [pc EXCEPT ![r] = "unwind"]
  /\ op' = [op EXCEPT ![r] = "none"]
  /\ UNCHANGED <<status, on, told, callback, posted, dirty, nstop, crashed, sendVars>>

(* Mutant: the end of a connection is reported as a failed connect. *)
Disconnect_ReportsFailure(r) ==
  /\ pc[r] = "unwind" /\ StrandFree
  /\ Close(op)
  /\ pc' = [pc EXCEPT ![r] = "done"]
  /\ told' = [told EXCEPT ![r] = "failed"]
  /\ UNCHANGED <<on, callback, posted, nstop, crashed>>

Disconnect(r) ==
  /\ pc[r] = "unwind" /\ StrandFree
  /\ Close(op)
  /\ pc' = [pc EXCEPT ![r] = "done"]
  /\ told' = [told EXCEPT ![r] = "disconnected"]
  /\ UNCHANGED <<on, callback, posted, nstop, crashed>>

(* The strand resumes a writer coroutine. *)
WriterStep ==
  /\ StrandFree
  /\ \E w \in writers : WriterResume(w)
  /\ UNCHANGED sessionVars

-----------------------------------------------------------------------------
(* The resolver, the kernel and the peer: an operation completes. *)
OpOk(r) ==
  /\ op[r] = "pending"
  /\ CASE pc[r] = "resolve" -> UNCHANGED sendVars
       [] pc[r] = "connect" -> Connected(r)
       [] OTHER -> sock[on[r]] = "open" /\ UNCHANGED sendVars
  /\ op' = [op EXCEPT ![r] = "ok"]
  /\ UNCHANGED <<status, pc, on, told, callback, posted, dirty, nstop, crashed>>

OpError(r) ==
  /\ op[r] = "pending"
  /\ IF pc[r] = "connect" /\ sock[r] = "connecting" THEN PeerReset(r) ELSE UNCHANGED sendVars
  /\ op' = [op EXCEPT ![r] = "error"]
  /\ UNCHANGED <<status, pc, on, told, callback, posted, dirty, nstop, crashed>>

WriteCompletes ==
  /\ \E w \in writers : WriteDone(w) \/ WriteFail(w)
  /\ UNCHANGED sessionVars

Reset ==
  /\ \E s \in Runs : sock[s] = "open" /\ PeerReset(s)
  /\ UNCHANGED sessionVars

-----------------------------------------------------------------------------
User == UserStop \/ UserSend \/ InlineStop \/ InlineSend \/ \E r \in Runs : UserStart(r)

Strand(r) ==
  \/ CoRun(r) \/ Resolve(r) \/ BeginPhase(r) \/ Initialized(r) \/ BeginLoops(r)
  \/ Resolved(r) \/ ResolveFailed(r) \/ ConnectDone(r) \/ ConnectFailed(r)
  \/ PhaseGoesOn(r) \/ PhaseDone(r) \/ InitDone(r) \/ PhaseFailed(r)
  \/ MessageHandled(r) \/ LoopEnds(r) \/ Disconnect(r)

Environment == WriteCompletes \/ Reset \/ \E r \in Runs : OpOk(r) \/ OpError(r)

Next ==
  \/ User
  \/ PostedStop \/ PostedSend \/ WriterStep
  \/ \E r \in Runs : Strand(r) \/ KeepAlive(r)
  \/ Environment

Spec == Init /\ [][Next]_vars

(* The strand resumes whatever is ready to run, a write on a connection that
   is gone fails, and so does any other operation on it.  Nothing is assumed
   of the application, of the resolver or of a peer that is alive. *)
Fairness ==
  /\ WF_vars(PostedStop) /\ WF_vars(PostedSend) /\ WF_vars(WriterStep)
  /\ WF_vars(\E w \in writers : WriteFail(w) /\ UNCHANGED sessionVars)
  /\ \A r \in Runs :
       /\ WF_vars(Strand(r))
       /\ WF_vars(pc[r] \in Streaming /\ sock[on[r]] = "broken" /\ OpError(r))

FairSpec == Spec /\ Fairness

-----------------------------------------------------------------------------
(* What the delegate hears of a run: a run that is accepted and has reported
   nothing is running. *)
life == [r \in Runs |-> IF told[r] # "nothing" THEN told[r]
                        ELSE IF Live(r) THEN "running" ELSE "idle"]

Contract == INSTANCE DelegateContract WITH Runs <- Runs, life <- life

(* Every run keeps the delegate's contract, whatever other runs are alive. *)
KeepsContract == Contract!ContractSpec

(* When no run is alive the client is closed and holds no connection: a run
   whose stop() came too late, or was meant for another run, still leaves
   nothing behind when it ends. *)
NoOrphanConnection ==
  (\A r \in Runs : ~Live(r)) =>
    /\ status = "closed"
    /\ stream # NoStream => sock[stream] # "open"

(* The check at the head of co_run keeps a second connection from being set up
   while one is in progress (connection_already_in_progress). *)
OneRunAtATime == \A r, x \in Runs : Live(r) /\ Live(x) => r = x

(* As long as stop() has not been called, a run starts with the members of the
   last session reset: a flag the last server set is not taken for one of the
   next server. *)
FreshSession ==
  nstop = 0 => \A r \in Runs : pc[r] \in {"resolve", "connect", "handshake"} => ~dirty

(* As long as stop() has not been called, status_ climbs one phase at a time
   and falls only to closed. *)
StatusLadder ==
  [][nstop = 0 /\ status' # status =>
       \/ status' = "closed"
       \/ <<status, status'>> \in
            {<<"closed", "connecting">>, <<"connecting", "handshaking">>,
             <<"handshaking", "authenticating">>, <<"authenticating", "initializing">>,
             <<"initializing", "connected">>}]_vars

(* The application that sends when it reads status_ as connected never makes
   the strand dereference a null stream_, stale as that reading may be when
   the strand runs the call. *)
NullStreamUnused == ~crashed

(* The connection stream_ points to is closed, or cut by the peer. *)
DeadConnection == stream \in Runs /\ sock[stream] \in {"closed", "broken"}

(* A run whose connection is closed under it, or cut by the peer, ends and
   reports: no operation of it is left waiting. *)
DeadConnectionEndsRun ==
  \A r \in Runs : (pc[r] \in Streaming /\ DeadConnection) ~> pc[r] = "done"

(* Messages queued for a connection that is gone do not stay in the queue, to
   be the first bytes of the next one. *)
DeadConnectionEmptiesQueue ==
  (sendQue # <<>> /\ DeadConnection) ~> (sendQue = <<>> \/ ~DeadConnection)
=============================================================================
