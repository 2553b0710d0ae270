------------------------------- MODULE Outgoing -------------------------------
(***************************************************************************)
(* Everything the client writes to one connection after another: what the  *)
(* login writes straight to *stream_, and the messages that go through     *)
(* send_que_ and its writer.  The strand is the queue it is: a handler     *)
(* that is ready runs before one that becomes ready later, and an          *)
(* operation's completion becomes ready some time after the operation.     *)
(*                                                                         *)
(* The application calls the client from one place, a thread of its own or *)
(* the callbacks; it sends when it has read that the status is connected,  *)
(* and starts again when it has been told that the last run is over.       *)
(***************************************************************************)
EXTENDS Integers, Sequences

CONSTANTS
  Conns,       \* bound: connections
  MaxCalls,    \* bound: calls of the application
  MaxUpdates,  \* bound: updates the server sends
  Registered,  \* names of the registered encodings
  Frame,       \* those that are frame codecs
  NameSets,     \* sets of frame encodings an application asks for
  Levels       \* levels an application sets

ASSUME OutgoingAssumption ==
  /\ {Conns, MaxCalls, MaxUpdates} \subseteq Nat
  /\ Frame \subseteq Registered /\ NameSets \subseteq SUBSET Frame /\ Levels \subseteq Int

VARIABLES
  caller,    \* where the application makes its calls
  ready,     \* handlers the strand has to run
  status,    \* status_
  at,        \* where co_run is suspended
  op,        \* the operation it waits for, and the stream it is on
  stream,    \* stream_: the number of the connection, none being 0
  sock,      \* what has become of each connection
  ultra,     \* whether its server is one of UltraVNC
  caps,      \* the extensions in supported_messages_
  levels,    \* compress_level_ and quality_level_
  sendQue,   \* send_que_
  writing,   \* the write the writer waits for
  wire,      \* what was written to each connection
  posting,   \* what the application's thread has encoded and not dispatched
  over,      \* the application has been told that the last run is over
  choice,    \* the list of encodings computed last in this session
  dropped,   \* an old connection's failed write has cleared what this one was to get
  calls, updates

netVars == <<stream, sock, ultra>>
queVars == <<sendQue, writing, wire, dropped>>
appVars == <<caller, posting, levels, choice, calls>>
vars == <<ready, status, at, op, caps, over, updates, netVars, queVars, appVars>>

NoOp == [kind |-> "none", on |-> 0]
NoWrite == [msg |-> [type |-> "none"], on |-> 0]

(* What co_run waits for, one after another, and the status meanwhile.  The
   shape the login has with each security type is RfbLogin's; the last item is
   the message loop's read, again and again. *)
Script == <<"resolve", "connect", "read", "write", "read", "write", "write", "read", "read">>
StatusAt == <<"connecting", "connecting", "handshaking", "handshaking", "authenticating", "authenticating",
              "initializing", "initializing", "connected">>
Loop == Len(Script)

CompressLevel0 == -256
QualityLevel0 == -32

Lists ==
  [type : {"list"}, names : SUBSET Registered,
   compress : CompressLevel0 .. CompressLevel0 + 9, quality : QualityLevel0 .. QualityLevel0 + 9, no : Nat]
Message == Lists \cup [type : {"login", "format", "request", "scale", "palmscale"}]

(* The variables' types.  A list's levels are ten each: the codes after those
   of the compress levels are other pseudo-encodings (XCursor, RichCursor). *)
TypeOK ==
  /\ status \in {"closed"} \cup {StatusAt[k] : k \in 1 .. Loop}
  /\ at \in 0 .. Loop
  /\ stream \in 0 .. Conns /\ caps \subseteq {"scale", "palmscale"}
  /\ sendQue \in Seq(Message) /\ posting \in Seq(Message) /\ wire \in [1 .. Conns -> Seq(Message)]
  /\ writing # NoWrite => writing.msg \in Message /\ writing.on \in 1 .. Conns

Init ==
  /\ caller \in {"thread", "callbacks"} /\ ultra \in [1 .. Conns -> BOOLEAN]
  /\ ready = <<[do |-> "start"]>> /\ status = "closed" /\ at = 0 /\ op = NoOp
  /\ stream = 0 /\ sock = [c \in 1 .. Conns |-> "none"]
  /\ caps = {} /\ levels = <<3, 9>>
  /\ sendQue = <<>> /\ writing = NoWrite /\ wire = [c \in 1 .. Conns |-> <<>>] /\ dropped = FALSE
  /\ posting = <<>> /\ over = FALSE /\ choice = <<>> /\ calls = 0 /\ updates = 0

-----------------------------------------------------------------------------
(* The encodings asked for: of the registered ones, whose order is always
   theirs, the frame codecs chosen and all that are none; and the levels. *)
ApplyEncodings(names, lv, no) ==
  [type |-> "list", names |-> {e \in Registered : e \in Frame => e \in names},
   compress |-> CompressLevel0 + lv[1], quality |-> QualityLevel0 + lv[2], no |-> no]

(* Mutant: a level is taken as it is given. *)
Clamp_None(level) == level

Clamp(level) == IF level < 0 THEN 0 ELSE IF level > 9 THEN 9 ELSE level

(* A scale goes in the messages this server is known to take. *)
ScaleSetting ==
  (IF "scale" \in caps THEN <<[type |-> "scale"]>> ELSE <<>>)
  \o (IF "palmscale" \in caps THEN <<[type |-> "palmscale"]>> ELSE <<>>)

(* What a call of the application sends: a list, which stands for all that any
   server takes, or a scale. *)
Encoded(call) ==
  CASE call.type = "list" -> <<ApplyEncodings(call.names, levels, calls + 1)>>
    [] call.type = "scale" -> ScaleSetting

Call == [type : {"list"}, names : NameSets] \cup [type : {"scale"}]

(* send_raw_data on the strand: a writer is spawned when the queue was empty. *)
Push(msgs, rest) ==
  /\ sendQue' = sendQue \o msgs
  /\ ready' = IF sendQue = <<>> /\ msgs # <<>> THEN Append(rest, [do |-> "writer", ok |-> TRUE, first |-> TRUE]) ELSE rest

(* close(): nothing happens twice, and a pending resolve is cancelled. *)
CloseStream ==
  IF status = "closed" THEN UNCHANGED <<status, sock>>
  ELSE /\ status' = "closed"
       /\ sock' = [c \in DOMAIN sock |-> IF c = stream THEN "closed" ELSE sock[c]]

-----------------------------------------------------------------------------
(* The handlers the strand runs; rest is what is ready after them. *)
Suspend(k, on) == at' = k /\ op' = [kind |-> Script[k], on |-> on]

(* co_run is refused unless the last one is over. *)
Start(rest) ==
  /\ ready' = rest
  /\ IF status # "closed" THEN UNCHANGED <<status, at, op, over>>
     ELSE status' = "connecting" /\ Suspend(1, 0) /\ over' = FALSE
  /\ UNCHANGED <<caps, updates, netVars, queVars, appVars>>

(* The end of a run: close(), and on_connect(err) or on_disconnect, in which
   an application that uses the callbacks may start again. *)
Ends(rest) ==
  /\ CloseStream
  /\ at' = 0 /\ op' = NoOp /\ over' = TRUE
  /\ \/ ready' = rest
     \/ caller = "callbacks" /\ stream < Conns /\ ready' = Append(rest, [do |-> "start"])
  /\ UNCHANGED <<caps, updates, stream, ultra, queVars, appVars>>

(* A new stream takes the place of the old one. *)
Resolved(rest) ==
  /\ stream' = stream + 1
  /\ sock' = [sock EXCEPT ![stream + 1] = "connecting"]
  /\ Suspend(2, stream + 1)
  /\ dropped' = FALSE /\ ready' = rest
  /\ UNCHANGED <<status, caps, over, updates, ultra, sendQue, writing, wire, appVars>>

(* commit_status where a phase begins: within a phase the status stays what a
   stop may have made of it. *)
Committed(k) == IF StatusAt[k] # StatusAt[k - 1] THEN StatusAt[k] ELSE status

(* Mutant: the status is connected as soon as the server has authenticated. *)
NextStep_ConnectedEarly(k, rest) ==
  /\ status' = IF k = 7 THEN "connected" ELSE Committed(k)
  /\ Suspend(k, stream)
  /\ caps' = IF k = 4 THEN IF ultra[stream] THEN {"scale", "palmscale"} ELSE {} ELSE caps
  /\ ready' = rest
  /\ UNCHANGED <<over, updates, netVars, queVars, appVars>>

(* Mutant: what the last server announced is not forgotten. *)
NextStep_KeepsCaps(k, rest) ==
  /\ status' = Committed(k)
  /\ Suspend(k, stream)
  /\ caps' = IF k = 4 /\ ultra[stream] THEN {"scale", "palmscale"} ELSE caps
  /\ ready' = rest
  /\ UNCHANGED <<over, updates, netVars, queVars, appVars>>

(* One step of the login after another; the server's version, which the
   first read brings, says what it takes. *)
NextStep(k, rest) ==
  /\ status' = Committed(k)
  /\ Suspend(k, stream)
  /\ caps' = IF k = 4 THEN IF ultra[stream] THEN {"scale", "palmscale"} ELSE {} ELSE caps
  /\ ready' = rest
  /\ UNCHANGED <<over, updates, netVars, queVars, appVars>>

(* What a callback may send, inline. *)
CallbackSends(msgs) ==
  \/ msgs = <<>> /\ calls' = calls
  \/ /\ caller = "callbacks" /\ calls < MaxCalls
     /\ \E call \in Call : msgs = Encoded(call)
     /\ calls' = calls + 1

Default == ApplyEncodings(Frame, levels, 0)

(* The last list there is among messages that come after one. *)
LastList(msgs, list) ==
  LET lists == {i \in DOMAIN msgs : msgs[i].type = "list"}
  IN IF lists = {} THEN list ELSE <<msgs[CHOOSE i \in lists : \A j \in lists : j <= i]>>

Answers == {<<>>} \cup {Encoded(call) : call \in Call}

(* A phase that begins sets the status, whatever has been closed meanwhile; a
   callback may stop the session. *)
Connects ==
  \/ status' = "connected" /\ sock' = sock
  \/ caller = "callbacks" /\ status' = "closed" /\ sock' = [sock EXCEPT ![stream] = "closed"]

(* Mutant: the default encodings are asked for once the delegate knows. *)
Initialized_EncodingsLast(rest) ==
  /\ Connects
  /\ Suspend(Loop, stream)
  /\ \E msgs \in Answers :
       /\ CallbackSends(msgs)
       /\ choice' = LastList(msgs, <<Default>>)
       /\ Push(<<[type |-> "format"]>> \o msgs \o <<Default, [type |-> "request"]>>, rest)
  /\ UNCHANGED <<caps, over, updates, stream, ultra, writing, wire, dropped, caller, posting, levels>>

(* The end of async_client_init: the format and the encodings; then the
   status, on_connect, the first request, and the loops. *)
Initialized(rest) ==
  /\ Connects
  /\ Suspend(Loop, stream)
  /\ \E msgs \in Answers :
       /\ CallbackSends(msgs)
       /\ choice' = LastList(msgs, <<Default>>)
       /\ Push(<<[type |-> "format"], Default>> \o msgs \o <<[type |-> "request"]>>, rest)
  /\ UNCHANGED <<caps, over, updates, stream, ultra, writing, wire, dropped, caller, posting, levels>>

(* An update: the next is asked for, and the delegate is told.  The callback
   may also stop the session. *)
MessageHandled(rest) ==
  /\ updates' = updates + 1
  /\ Suspend(Loop, stream)
  /\ \E msgs \in Answers :
       /\ CallbackSends(msgs)
       /\ choice' = LastList(msgs, choice)
       /\ Push(<<[type |-> "request"]>> \o msgs, rest)
  /\ \/ UNCHANGED <<status, sock>>
     \/ caller = "callbacks" /\ CloseStream
  /\ UNCHANGED <<caps, over, stream, ultra, writing, wire, dropped, caller, posting, levels>>

RunResumes(ok, rest) ==
  CASE ~ok -> Ends(rest)
    [] ok /\ at = 1 -> Resolved(rest)
    [] ok /\ at \in 2 .. Loop - 2 -> NextStep(at + 1, rest)
    [] ok /\ at = Loop - 1 -> Initialized(rest)
    [] ok /\ at = Loop -> MessageHandled(rest)

(* The writer: the first time, and after each write.  What is written goes to
   the stream there is now; a failed write clears the queue. *)
WriterResumes(h, rest) ==
  LET q == IF h.first THEN sendQue ELSE Tail(sendQue)
  IN /\ sendQue' = IF h.ok THEN q ELSE <<>>
     /\ writing' = IF h.ok /\ q # <<>> THEN [msg |-> Head(q), on |-> stream] ELSE NoWrite
     /\ dropped' = (dropped \/ (~h.ok /\ h.on # stream /\ Len(sendQue) > 1))
     /\ ready' = rest
     /\ UNCHANGED <<status, at, op, caps, over, updates, wire, netVars, appVars>>

(* A send or a stop of the application's thread. *)
Dispatched(h, rest) ==
  /\ IF h.do = "send" THEN Push(<<h.msg>>, rest) /\ UNCHANGED <<status, sock>>
     ELSE CloseStream /\ ready' = rest /\ sendQue' = sendQue
  /\ op' = IF h.do = "stop" /\ status # "closed" /\ op.kind = "resolve" THEN [kind |-> "cancelled", on |-> 0] ELSE op
  /\ UNCHANGED <<at, caps, over, updates, stream, ultra, writing, wire, dropped, appVars>>

StrandRuns ==
  /\ ready # <<>>
  /\ LET h == Head(ready)
         rest == Tail(ready)
     IN CASE h.do = "start" -> Start(rest)
          [] h.do = "run" -> RunResumes(h.ok, rest)
          [] h.do = "writer" -> WriterResumes(h, rest)
          [] OTHER -> Dispatched(h, rest)

-----------------------------------------------------------------------------
(* Operations complete, and their handlers become ready.  On a connection that
   is open they go well, whatever was on a closed one fails. *)
OnSocket(ok) ==
  \/ /\ sock[op.on] = "connecting"
     /\ sock' = [sock EXCEPT ![op.on] = IF ok THEN "open" ELSE "lost"] /\ wire' = wire
  \/ /\ sock[op.on] = "open" /\ ok /\ sock' = sock
     /\ at = Loop => updates < MaxUpdates
     /\ wire' = IF op.kind = "write" THEN [wire EXCEPT ![op.on] = Append(@, [type |-> "login"])] ELSE wire
  \/ sock[op.on] \notin {"connecting", "open"} /\ ~ok /\ UNCHANGED <<sock, wire>>

RunOpCompletes ==
  /\ op.kind # "none"
  /\ op' = NoOp
  /\ \E ok \in BOOLEAN :
       /\ ready' = Append(ready, [do |-> "run", ok |-> ok])
       /\ \/ op.kind = "resolve" /\ (ok => stream < Conns) /\ UNCHANGED <<sock, wire>>
          \/ op.kind = "cancelled" /\ ~ok /\ UNCHANGED <<sock, wire>>
          \/ op.kind \notin {"resolve", "cancelled"} /\ OnSocket(ok)
  /\ UNCHANGED <<status, at, caps, over, updates, stream, ultra, sendQue, writing, dropped, appVars>>

WriteCompletes ==
  /\ writing # NoWrite
  /\ writing' = NoWrite
  /\ LET ok == sock[writing.on] = "open"
     IN /\ ready' = Append(ready, [do |-> "writer", ok |-> ok, first |-> FALSE, on |-> writing.on])
        /\ wire' = IF ok THEN [wire EXCEPT ![writing.on] = Append(@, writing.msg)] ELSE wire
  /\ UNCHANGED <<status, at, op, caps, over, updates, sendQue, dropped, netVars, appVars>>

Lost ==
  /\ \E c \in 1 .. Conns : sock[c] = "open" /\ sock' = [sock EXCEPT ![c] = "lost"]
  /\ UNCHANGED <<ready, status, at, op, caps, over, updates, stream, ultra, queVars, appVars>>

-----------------------------------------------------------------------------
(* The application's thread: it reads the status, encodes a message, and some
   time later that reaches the strand. *)
ThreadCalls ==
  /\ caller = "thread" /\ posting = <<>> /\ calls < MaxCalls /\ status = "connected"
  /\ \E call \in Call : posting' = Encoded(call)
  /\ choice' = LastList(posting', choice)
  /\ calls' = calls + 1
  /\ UNCHANGED <<ready, status, at, op, caps, over, updates, netVars, queVars, caller, levels>>

ThreadDispatches ==
  /\ posting # <<>>
  /\ posting' = Tail(posting)
  /\ ready' = Append(ready, [do |-> "send", msg |-> Head(posting)])
  /\ UNCHANGED <<status, at, op, caps, over, updates, netVars, queVars, caller, levels, choice, calls>>

ThreadStarts ==
  /\ caller = "thread" /\ posting = <<>> /\ over /\ stream < Conns
  /\ ~\E i \in DOMAIN ready : ready[i].do = "start"
  /\ ready' = Append(ready, [do |-> "start"])
  /\ UNCHANGED <<status, at, op, caps, over, updates, netVars, queVars, appVars>>

ThreadStops ==
  /\ caller = "thread" /\ posting = <<>> /\ calls < MaxCalls
  /\ calls' = calls + 1
  /\ ready' = Append(ready, [do |-> "stop"])
  /\ UNCHANGED <<status, at, op, caps, over, updates, netVars, queVars, caller, posting, levels, choice>>

(* set_compress_level or set_quality_level, from wherever the application
   calls, takes effect in the next list. *)
SetsLevel ==
  /\ calls < MaxCalls /\ posting = <<>>
  /\ calls' = calls + 1
  /\ \E i \in 1 .. 2, level \in Levels : levels' = [levels EXCEPT ![i] = Clamp(level)]
  /\ UNCHANGED <<ready, status, at, op, caps, over, updates, netVars, queVars, caller, posting, choice>>

Next ==
  \/ StrandRuns \/ RunOpCompletes \/ WriteCompletes \/ Lost
  \/ ThreadCalls \/ ThreadDispatches \/ ThreadStarts \/ ThreadStops \/ SetsLevel

Spec == Init /\ [][Next]_vars

-----------------------------------------------------------------------------
(* Nothing that was queued is written before or among what the login writes:
   send_raw_data does not look at the status, the writer takes whatever
   stream_ is by then, and both write to one socket. *)
HandshakeAlone ==
  /\ \A c \in 1 .. Conns : \A i, j \in DOMAIN wire[c] :
       i < j /\ wire[c][j].type = "login" => wire[c][i].type = "login"
  /\ ~(op.kind = "write" /\ writing # NoWrite /\ writing.on = op.on)

(* When all is quiet the encodings the server was last asked for are those
   computed last: the client's own, or the application's choice made since;
   unless the failure of a write on the connection before took it along. *)
ChoiceKept ==
  status = "connected" /\ ready = <<>> /\ sendQue = <<>> /\ posting = <<>> /\ sock[stream] = "open" /\ ~dropped
    => LastList(wire[stream], <<>>) = choice

(* A server is sent no extension it does not take, whatever the server of
   the connection before took. *)
NeverUnsupported ==
  \A c \in 1 .. Conns : \A i \in DOMAIN wire[c] : wire[c][i].type \in {"scale", "palmscale"} => ultra[c]
=============================================================================
