------------------------------ MODULE Messages ------------------------------
(***************************************************************************)
(* A connected session: server_message_loop and its handlers, what they    *)
(* tell the delegate through its proxy, what they let the client send, and *)
(* a stop or the client's destruction while a message is being handled.    *)
(*                                                                         *)
(* An item is what one read of the client takes.  A read completes when    *)
(* its item is there; the handler goes on with it when the strand is free, *)
(* and reads again once the callbacks it made have returned.               *)
(***************************************************************************)
EXTENDS DelegateProxy, Integers, Sequences, SequencesExt

CONSTANTS
  Strand,        \* the thread of the strand, the only one that calls invoke
  Texts,         \* lengths of the server's texts, above 0
  Updates,       \* the updates it may send: rectangles, one keyboard state at most
  ServesChat,    \* whether the login has found an UltraVNC server
  MaxMessages    \* bound: messages of the server

Extensions == {"TextChat", "Xvp", "SetMonitor", "KeepAlive", "SetDesktopSize"}

(* n is a length, a number or a state, by the kind; list the messages one says
   that the server takes. *)
Rects ==
  [kind : {"last", "led", "position", "newSize", "identity", "encodings", "messages", "screens", "pixels"},
   n : Nat, list : SUBSET Extensions]

(* The number of rectangles that stands for as many as come before LastRect. *)
ManyRects == 65535

ASSUME MessagesAssumption ==
  /\ Strand \in Threads
  /\ Texts \subseteq Nat \ {0}
  /\ \A u \in Updates :
       /\ u \in Seq(Rects) /\ Len(u) < ManyRects
       /\ \A i \in DOMAIN u : u[i].kind = "last" => i = Len(u)
       /\ \A i, j \in DOMAIN u : u[i].kind = "led" /\ u[j].kind = "led" => i = j
  /\ ServesChat \in BOOLEAN /\ MaxMessages \in Nat

VARIABLES
  s2c,        \* items under way
  got,        \* the item of a read that has completed
  reader,     \* what the client reads next
  calls,      \* the callbacks it makes before that
  up,         \* the session: open, closed, or ended with its on_disconnect
  supported,  \* client2server_, the messages every server takes left out
  extClip,    \* extendedClipboardServerCapabilities_
  led,        \* current_keyboard_led_state_
  monitors,   \* nbrMonitors_
  told,       \* what the delegate was told
  meant,      \* what the server has said
  offered,    \* the messages the server has said it takes
  used,       \* the messages the client has sent it
  nmessages   \* messages the server has sent

vars == <<handler, depth, resetting, s2c, got, reader, calls, up, supported, extClip, led, monitors,
          told, meant, offered, used, nmessages>>
capabilities == <<supported, extClip, led, monitors>>
serverVars == <<meant, offered, nmessages>>

(* n: a length, a number or a state; val, set: what else an item says. *)
Item(what, n, val) == [is |-> what, n |-> n, val |-> val, set |-> {}]
SetItem(what, n, set) == [is |-> what, n |-> n, val |-> "", set |-> set]
Id(kind) == Item("id", 0, kind)
None == Item("none", 0, "")

(* An item of n bytes; when there are none there is nothing to read. *)
Bytes(what, n, val) == IF n = 0 THEN <<>> ELSE <<Item(what, n, val)>>

At(what, n, left) == [at |-> what, n |-> n, left |-> left]
NextId == At("id", 0, 0)

Tell(to, n) == [to |-> to, n |-> n]
Callbacks ==
  [to : {"led", "position", "size", "update", "cut", "cutUtf8", "chat", "bell", "monitors", "status", "disconnect"},
   n : Int]

TypeOK ==
  /\ ProxyTypeOK
  /\ reader.at \in {"id", "cutText", "text", "flagged", "textChat", "chat", "xvp", "resize", "monitor",
                    "update", "rect", "identity", "encodings", "messages", "screens", "screen", "pixels"}
  /\ reader.n \in Nat /\ reader.left \in Nat
  /\ calls \in Seq(Callbacks)
  /\ up \in {"open", "closed", "ended"}
  /\ supported \subseteq Extensions
  /\ extClip \in BOOLEAN /\ led \in Nat /\ monitors \in Nat

Init ==
  /\ ProxyInit
  /\ s2c = <<>> /\ got = None /\ reader = NextId /\ calls = <<>> /\ up = "open"
  /\ supported = IF ServesChat THEN {"TextChat"} ELSE {}
  /\ extClip = FALSE /\ led = 0 /\ monitors = 0
  /\ told = <<>> /\ meant = <<>> /\ offered = supported /\ used = {} /\ nmessages = 0

-----------------------------------------------------------------------------
(* The server.  Its pixels are colours, so it sends no SetColourMapEntries,
   whose body the client would not read. *)
LastLed(said) ==
  LET last == {i \in DOMAIN said :
                 said[i].to = "led" /\ \A j \in DOMAIN said : said[j].to = "led" => j <= i}
  IN IF last = {} THEN 0 ELSE said[CHOOSE i \in last : TRUE].n

Sends(items, says, offers) ==
  /\ s2c' = s2c \o items
  /\ meant' = meant \o says
  /\ offered' = offered \cup offers

(* A rectangle that is not a picture says something by its header alone, or
   is followed by as much as the header says. *)
RectItems(r) ==
  <<Item("rect", r.n, r.kind)>> \o
  CASE r.kind \in {"identity", "encodings"} -> Bytes(r.kind, r.n, "")
    [] r.kind = "messages" -> <<SetItem("messages", 0, r.list)>>
    [] r.kind = "screens" -> <<Item("screens", r.n, "")>> \o [i \in 1 .. r.n |-> Item("screen", 0, "")]
    [] r.kind = "pixels" -> <<Item("pixels", 0, "")>>
    [] OTHER -> <<>>

RectSays(r) ==
  CASE r.kind = "led" /\ r.n # LastLed(meant) -> <<Tell("led", r.n)>>
    [] r.kind = "position" -> <<Tell("position", 0)>>
    [] r.kind = "newSize" -> <<Tell("size", 0)>>
    [] OTHER -> <<>>

RectOffers(r) ==
  CASE r.kind = "screens" -> {"SetDesktopSize"} [] r.kind = "messages" -> r.list [] OTHER -> {}

(* With LastRect the header announces more rectangles than come. *)
SendUpdate(u) ==
  Sends(<<Id("FramebufferUpdate"), Item("update", IF u # <<>> /\ Last(u).kind = "last" THEN ManyRects ELSE Len(u), "")>>
          \o FlattenSeq([i \in DOMAIN u |-> RectItems(u[i])]),
        FlattenSeq([i \in DOMAIN u |-> RectSays(u[i])]) \o <<Tell("update", 0)>>,
        UNION {RectOffers(u[i]) : i \in DOMAIN u})

SendText ==
  \E n \in Texts :
    \/ Sends(<<Id("ServerCutText"), Item("cutText", n, ""), Item("text", n, "")>>, <<Tell("cut", n)>>, {})
    \/ \E flags \in {{"caps", "text", "provide"}, {"text", "provide"}, {"text"}, {"provide"}} :
         Sends(<<Id("ServerCutText"), Item("cutText", -n, ""), SetItem("flagged", n, flags)>>,
               IF flags = {"text", "provide"} THEN <<Tell("cutUtf8", n)>> ELSE <<>>,
               IF "caps" \in flags THEN {"ExtendedCutText"} ELSE {})

ServerSends ==
  /\ nmessages < MaxMessages /\ up = "open"
  /\ nmessages' = nmessages + 1
  /\ \/ SendText
     \/ \E u \in Updates : SendUpdate(u)
     \/ \E n \in Texts \cup {0, -1, -2, -3} :
          Sends(<<Id("TextChat"), Item("textChat", n, "")>> \o IF n > 0 THEN <<Item("chat", n, "")>> ELSE <<>>,
                <<Tell("chat", n)>>, {})
     \/ Sends(<<Id("Bell")>>, <<Tell("bell", 0)>>, {})
     \/ Sends(<<Id("Xvp"), Item("xvp", 0, "")>>, <<>>, {"Xvp"})
     \/ \E id \in {"ResizeFrameBuffer", "PalmVNCReSizeFrameBuffer"} :
          Sends(<<Id(id), Item("resize", 0, "")>>, <<Tell("size", 0)>>, {})
     \/ Sends(<<Id("MonitorInfo"), Item("monitor", 2, "")>>, <<Tell("monitors", 2)>>, {"SetMonitor"})
     \/ Sends(<<Id("KeepAlive")>>, <<>>, {"KeepAlive"})
  /\ UNCHANGED <<proxyVars, got, reader, calls, up, capabilities, told, used>>

-----------------------------------------------------------------------------
(* No callback is under way or due: the strand is free for a handler. *)
Idle == depth[Strand] = 0 /\ calls = <<>>

(* The socket: what a handler waits for is there. *)
ReadCompletes ==
  /\ up = "open" /\ Idle /\ got.is = "none"
  /\ s2c # <<>> /\ Head(s2c).is = reader.at
  /\ got' = Head(s2c) /\ s2c' = Tail(s2c)
  /\ UNCHANGED <<proxyVars, reader, calls, up, capabilities, told, used, serverVars>>

Calls(cs, next) == calls' = cs /\ reader' = next
Reads(what, n, left) == Calls(<<>>, At(what, n, left))

(* After a rectangle: the next one, or the end of the update. *)
NextRect(left, cs) ==
  IF left > 0 THEN Calls(cs, At("rect", 0, left)) ELSE Calls(cs \o <<Tell("update", 0)>>, NextId)

Same == UNCHANGED capabilities

(* Mutant: a state that is known already is told again. *)
HandleLed_Always(n) ==
  /\ led' = n
  /\ NextRect(reader.left - 1, <<Tell("led", n)>>)
  /\ UNCHANGED <<supported, extClip, monitors>>

(* handle_keyboard_led_state *)
HandleLed(n) ==
  /\ led' = n
  /\ NextRect(reader.left - 1, IF n = led THEN <<>> ELSE <<Tell("led", n)>>)
  /\ UNCHANGED <<supported, extClip, monitors>>

(* handle_cursor_pos, and handle_resize_client_buffer as far as the delegate
   sees it. *)
HandlePosition == NextRect(reader.left - 1, <<Tell("position", 0)>>) /\ Same
HandleNewSize == NextRect(reader.left - 1, <<Tell("size", 0)>>) /\ Same

(* The server's identity and its list of encodings are read, and no more. *)
HandleUnused(kind, n) ==
  (IF n = 0 THEN NextRect(reader.left - 1, <<>>) ELSE Reads(kind, n, reader.left)) /\ Same

(* A rectangle's header: what it says by itself, or the codec's first read. *)
HandleRect(kind, n) ==
  CASE kind = "last" -> NextRect(0, <<>>) /\ Same
    [] kind = "led" -> HandleLed(n)
    [] kind = "position" -> HandlePosition
    [] kind = "newSize" -> HandleNewSize
    [] kind \in {"identity", "encodings"} -> HandleUnused(kind, n)
    [] OTHER -> Reads(kind, n, reader.left) /\ Same

(* supported_messages::assign: the list replaces what was known. *)
HandleList(list) ==
  /\ supported' = list
  /\ NextRect(reader.left - 1, <<>>)
  /\ UNCHANGED <<extClip, led, monitors>>

(* n screens are still to be read. *)
HandleScreens(n) ==
  IF n > 0 THEN Reads("screen", n, reader.left) /\ Same
  ELSE /\ supported' = supported \cup {"SetDesktopSize"}   \* handle_ext_desktop_screen
       /\ NextRect(reader.left - 1, <<>>)
       /\ UNCHANGED <<extClip, led, monitors>>

(* What follows a rectangle's header. *)
HandleBody(g) ==
  CASE g.is = "messages" -> HandleList(g.set)
    [] g.is = "screens" -> HandleScreens(g.n)
    [] g.is = "screen" -> HandleScreens(reader.n - 1)
    [] OTHER -> NextRect(reader.left - 1, <<>>) /\ Same

(* Mutant: a length below 0 is that of a plain text too. *)
HandleCutText_Unsigned(n) ==
  IF n > 0 THEN Reads("text", n, 0) ELSE IF n = 0 THEN Calls(<<>>, NextId) ELSE Reads("text", -n, 0)

(* Mutant: the length is taken as it is. *)
HandleCutText_Signed(n) == IF n = 0 THEN Calls(<<>>, NextId) ELSE Reads("text", n, 0)

(* on_rfbServerCutText reads as many bytes whatever the sign. *)
HandleCutText(n) ==
  IF n > 0 THEN Reads("text", n, 0) ELSE IF n = 0 THEN Calls(<<>>, NextId) ELSE Reads("flagged", -n, 0)

(* An extended clipboard message: one that is not of a text provided is
   ignored, then capabilities are noted, and the rest is a compressed text. *)
HandleFlagged(n, flags) ==
  /\ extClip' = (extClip \/ {"caps", "text", "provide"} \subseteq flags)
  /\ Calls(IF flags = {"text", "provide"} THEN <<Tell("cutUtf8", n)>> ELSE <<>>, NextId)
  /\ UNCHANGED <<supported, led, monitors>>

(* on_rfbTextChat: three lengths are not lengths. *)
HandleTextChat(n) ==
  IF n \in {-1, -2, -3, 0} THEN Calls(<<Tell("chat", n)>>, NextId) ELSE Reads("chat", n, 0)

(* Mutant: the wrong message is allowed. *)
HandleMonitor_Xvp(n) ==
  /\ monitors' = n /\ supported' = supported \cup {"Xvp"}
  /\ Calls(<<Tell("monitors", n)>>, NextId) /\ UNCHANGED <<extClip, led>>

(* on_rfbMonitorInfo *)
HandleMonitor(n) ==
  /\ monitors' = n /\ supported' = supported \cup {"SetMonitor"}
  /\ Calls(<<Tell("monitors", n)>>, NextId) /\ UNCHANGED <<extClip, led>>

Allows(m) ==
  supported' = supported \cup {m} /\ Calls(<<>>, NextId) /\ UNCHANGED <<extClip, led, monitors>>

HandleId(kind) ==
  CASE kind = "FramebufferUpdate" -> Reads("update", 0, 0) /\ Same
    [] kind = "ServerCutText" -> Reads("cutText", 0, 0) /\ Same
    [] kind = "TextChat" -> Reads("textChat", 0, 0) /\ Same
    [] kind = "Xvp" -> Reads("xvp", 0, 0) /\ Same
    [] kind = "MonitorInfo" -> Reads("monitor", 0, 0) /\ Same
    [] kind \in {"ResizeFrameBuffer", "PalmVNCReSizeFrameBuffer"} -> Reads("resize", 0, 0) /\ Same
    [] kind = "Bell" -> Calls(<<Tell("bell", 0)>>, NextId) /\ Same
    [] kind = "KeepAlive" -> Allows("KeepAlive")

(* The handler goes on with what it has read, although the session may have
   been closed meanwhile. *)
Handle ==
  /\ got.is # "none" /\ Idle
  /\ got' = None
  /\ CASE got.is = "id" -> HandleId(got.val)
       [] got.is = "update" -> NextRect(got.n, <<>>) /\ Same
       [] got.is = "rect" -> HandleRect(got.val, got.n)
       [] got.is = "cutText" -> HandleCutText(got.n) /\ Same
       [] got.is = "text" -> Calls(<<Tell("cut", got.n)>>, NextId) /\ Same
       [] got.is = "flagged" -> HandleFlagged(got.n, got.set)
       [] got.is = "textChat" -> HandleTextChat(got.n) /\ Same
       [] got.is = "chat" -> Calls(<<Tell("chat", got.n)>>, NextId) /\ Same
       [] got.is = "xvp" -> Allows("Xvp")
       [] got.is = "resize" -> Calls(<<Tell("size", 0)>>, NextId) /\ Same
       [] got.is = "monitor" -> HandleMonitor(got.n)
       [] OTHER -> HandleBody(got)
  /\ UNCHANGED <<proxyVars, s2c, up, told, used, serverVars>>

-----------------------------------------------------------------------------
(* A callback is made, or found to have no one to go to.  The status a close
   in a callback leads to is told inside that callback. *)
Call ==
  /\ calls # <<>>
  /\ depth[Strand] = 0 \/ Head(calls).to = "status"
  /\ Enter(Strand)
  /\ calls' = Tail(calls)
  /\ told' = IF handler /\ Head(calls).to \notin {"status", "disconnect"} THEN Append(told, Head(calls)) ELSE told
  /\ UNCHANGED <<s2c, got, reader, up, capabilities, used, serverVars>>

Return ==
  /\ Leave(Strand)
  /\ calls # <<>> => Head(calls).to # "status"
  /\ UNCHANGED <<s2c, got, reader, calls, up, capabilities, told, used, serverVars>>

(* close() resets what the session has learnt, the list of messages apart. *)
Forgets == led' = 0 /\ extClip' = FALSE /\ monitors' = 0 /\ UNCHANGED supported

(* client_impl::close on the strand, of a session that is not closed yet. *)
Close ==
  /\ up = "open"
  /\ up' = "closed"
  /\ calls' = <<Tell("status", 0)>> \o calls
  /\ Forgets
  /\ UNCHANGED <<proxyVars, s2c, got, reader, told, used, serverVars>>

(* stop() in a callback; stop() of another thread, or ~client once reset has
   returned, dispatched to the strand. *)
StopInCallback == depth[Strand] > 0 /\ Close

PostedStop == Idle /\ Close

(* The read fails: the loop ends, and co_run closes and tells.  The close of
   a session closed before does nothing. *)
Ends ==
  /\ Idle /\ got.is = "none" /\ up # "ended"
  /\ up' = "ended"
  /\ \/ up = "open" /\ Forgets /\ calls' = <<Tell("status", 0), Tell("disconnect", 0)>>
     \/ up = "closed" /\ Same /\ calls' = <<Tell("disconnect", 0)>>
  /\ UNCHANGED <<proxyVars, s2c, got, reader, told, used, serverVars>>

Sent(m) ==
  /\ used' = used \cup {m}
  /\ UNCHANGED <<proxyVars, s2c, got, reader, calls, up, capabilities, told, serverVars>>

(* send_msg_to_server_buffers, for a message that not every server takes: any
   thread calls it at any time. *)
SendExtension(m) == m \in supported /\ Sent(m)

SendCutTextUtf8 == extClip /\ Sent("ExtendedCutText")

(* server_keepalive_loop, until co_run has ended it with the message loop. *)
KeepAliveTick == Idle /\ up # "ended" /\ "KeepAlive" \in supported /\ Sent("KeepAlive")

(* ~client, in a thread of the application. *)
Destroy ==
  /\ BeginReset \/ Reset
  /\ UNCHANGED <<s2c, got, reader, calls, up, capabilities, told, used, serverVars>>

StrandStep == Handle \/ Call \/ Return \/ (up = "closed" /\ Ends)

Next ==
  \/ ServerSends \/ ReadCompletes \/ StrandStep
  \/ StopInCallback \/ PostedStop \/ Ends \/ Destroy
  \/ \E m \in Extensions \ {"KeepAlive"} : SendExtension(m)
  \/ SendCutTextUtf8 \/ KeepAliveTick

(* Callbacks return, and a mutex that stays free is had. *)
Spec == Init /\ [][Next]_vars /\ WF_vars(StrandStep) /\ WF_vars(Destroy /\ resetting = "waiting")

-----------------------------------------------------------------------------
(* What the client reads next is what the server has sent next, whatever the
   handlers skip, ignore or give up: no message is read as part of another. *)
InStep ==
  up = "open" /\ got.is = "none" /\ s2c # <<>> =>
    /\ Head(s2c).is = reader.at
    /\ reader.at \in {"text", "flagged", "chat", "identity", "encodings"} => Head(s2c).n = reader.n

(* While the session is open the delegate is told what the server said, once
   each and in its order, and when all has been read it has been told all of
   it.  A message already read when the session is closed is told as well, by
   then with the keyboard's state reset. *)
Delivered ==
  handler /\ up = "open" =>
    /\ IsPrefix(told, meant)
    /\ Idle /\ got.is = "none" /\ reader = NextId /\ s2c = <<>> => told = meant

(* The client uses only those extensions that this server has announced. *)
UsesWhatIsOffered == used \subseteq offered
=============================================================================
