------------------------------ MODULE UpdateFlow ------------------------------
(***************************************************************************)
(* How the picture follows the server's screen: the client asks for an     *)
(* update, reads the rectangles of the answer one by one, and asks again;  *)
(* a change of size asks for everything.  Requests and updates travel in   *)
(* order (the send queue, TCP) while the screen goes on changing.          *)
(*                                                                         *)
(* A screen is a row of cells.  The server is an environment that does the *)
(* least the client may count on: it answers when what was asked for has   *)
(* changed, it takes any number of requests as one, it tells a new size    *)
(* before it sends anything of that size, and it resends what was on the   *)
(* screen only to a request that is not incremental.                       *)
(***************************************************************************)
EXTENDS Naturals, Sequences, SequencesExt, FiniteSets

CONSTANTS
  Sizes,       \* sizes the screen takes
  MaxChanges,  \* bound: changes of a cell
  MaxResizes   \* bound: changes of the screen's size

ASSUME FlowAssumption == Sizes \subseteq Nat \ {0} /\ MaxChanges \in Nat /\ MaxResizes \in Nat

VARIABLES
  screen,    \* server: the value of each cell
  dirty,     \* server: cells changed since they were sent
  asked,     \* server: cells asked for since the last update
  untold,    \* server: there was a resize since the client was last told the size
  changes,   \* server: changes so far
  resizes,   \* server: resizes so far
  toServer,  \* requests on their way
  toClient,  \* messages on their way
  frame,     \* client: frame_
  update,    \* client: the rectangles of the update being read that are left
  state      \* client: "idle" in server_message_loop, "update" in
             \* on_rfbFramebufferUpdate, "failed" when an error ended the loop

vars == <<screen, dirty, asked, untold, changes, resizes, toServer, toClient, frame, update, state>>
server == <<screen, dirty, asked, untold, changes, resizes>>

Cells(s) == DOMAIN s
Size(s) == Cardinality(DOMAIN s)

(* co_run has just sent its first request; the screen holds ones, the frame is blank. *)
Init ==
  /\ \E n \in Sizes :
       /\ screen = [c \in 1 .. n |-> 1]
       /\ frame = [c \in 1 .. n |-> 0]
       /\ toServer = <<[incremental |-> FALSE, size |-> n]>>
  /\ dirty = {} /\ asked = {} /\ untold = FALSE /\ changes = 0 /\ resizes = 0
  /\ toClient = <<>> /\ update = <<>> /\ state = "idle"

-----------------------------------------------------------------------------
(* The server. *)

Change(c) ==
  /\ changes < MaxChanges /\ changes' = changes + 1
  /\ screen' = [screen EXCEPT ![c] = changes + 2]
  /\ dirty' = dirty \cup {c}
  /\ UNCHANGED <<asked, untold, resizes, toServer, toClient, frame, update, state>>

(* What was on the screen moves: every cell is another's now. *)
Resize(n) ==
  /\ resizes < MaxResizes /\ resizes' = resizes + 1
  /\ n # Size(screen)
  /\ screen' = [c \in 1 .. n |-> MaxChanges + 2 + resizes]
  /\ dirty' = dirty \cap 1 .. n /\ untold' = TRUE
  /\ UNCHANGED <<asked, changes, toServer, toClient, frame, update, state>>

TakeRequest ==
  /\ toServer # <<>>
  /\ LET r == Head(toServer)
         region == 1 .. r.size
     IN /\ asked' = asked \cup region
        /\ dirty' = IF r.incremental THEN dirty ELSE dirty \cup (region \cap Cells(screen))
  /\ toServer' = Tail(toServer)
  /\ UNCHANGED <<screen, untold, changes, resizes, toClient, frame, update, state>>

(* An update is counted or ends with LastRect. *)
Send(rects) ==
  \E end \in {<<>>, <<[encoding |-> "LastRect"]>>} :
    toClient' = Append(toClient, [type |-> "update", rects |-> rects \o end])

SendUpdate ==
  /\ ~untold /\ asked \cap dirty # {}
  /\ Send([i \in 1 .. Cardinality(asked \cap dirty) |->
             LET c == SetToSeq(asked \cap dirty)[i]
             IN [encoding |-> "raw", cell |-> c, value |-> screen[c]]])
  /\ asked' = {} /\ dirty' = dirty \ asked
  /\ UNCHANGED <<screen, untold, changes, resizes, toServer, frame, update, state>>

(* The size as a rectangle of an update answers what was asked... *)
SendNewSize ==
  /\ untold /\ asked # {}
  /\ Send(<<[encoding |-> "NewFBSize", size |-> Size(screen)]>>)
  /\ untold' = FALSE /\ asked' = {}
  /\ UNCHANGED <<screen, dirty, changes, resizes, toServer, frame, update, state>>

(* ... and as a message of its own it does not. *)
SendResize ==
  /\ untold
  /\ toClient' = Append(toClient, [type |-> "resize", size |-> Size(screen)])
  /\ untold' = FALSE
  /\ UNCHANGED <<screen, dirty, asked, changes, resizes, toServer, frame, update, state>>

-----------------------------------------------------------------------------
(* The client. *)

RequestFor(f, incremental) == [incremental |-> incremental, size |-> Size(f)]

(* frame_buffer::set_size. *)
SetSize(n) == [c \in 1 .. n |-> IF c \in Cells(frame) THEN frame[c] ELSE 0]

(* Mutant: only what changes from now on is asked for. *)
HandleResize_Incremental(n) ==
  /\ frame' = SetSize(n)
  /\ toServer' = Append(toServer, RequestFor(SetSize(n), TRUE))

(* Mutant: the frame keeps its size. *)
HandleResize_KeepsFrame(n) ==
  /\ frame' = frame
  /\ toServer' = Append(toServer, RequestFor(SetSize(n), FALSE))

(* handle_resize_client_buffer. *)
HandleResize(n) ==
  /\ frame' = SetSize(n)
  /\ toServer' = Append(toServer, RequestFor(SetSize(n), FALSE))

(* server_message_loop reads the type of the next message. *)
ReadUpdate ==
  /\ state = "idle" /\ toClient # <<>> /\ Head(toClient).type = "update"
  /\ update' = Head(toClient).rects
  /\ toClient' = Tail(toClient) /\ state' = "update"
  /\ UNCHANGED <<server, toServer, frame>>

(* on_rfbResizeFrameBuffer and on_rfbPalmVNCReSizeFrameBuffer. *)
ReadResize ==
  /\ state = "idle" /\ toClient # <<>> /\ Head(toClient).type = "resize"
  /\ HandleResize(Head(toClient).size)
  /\ toClient' = Tail(toClient)
  /\ UNCHANGED <<server, update, state>>

More == update # <<>> /\ Head(update).encoding # "LastRect"

(* A rectangle: frame_codec::decode refuses one that the frame does not hold,
   and the error ends the loop. *)
ReadRect ==
  /\ state = "update" /\ More
  /\ LET r == Head(update)
     IN \/ /\ r.encoding = "raw" /\ r.cell \in Cells(frame)
           /\ frame' = [frame EXCEPT ![r.cell] = r.value]
           /\ UNCHANGED <<toServer, state>>
        \/ /\ r.encoding = "raw" /\ r.cell \notin Cells(frame)
           /\ state' = "failed"
           /\ UNCHANGED <<frame, toServer>>
        \/ /\ r.encoding = "NewFBSize"
           /\ HandleResize(r.size)
           /\ UNCHANGED state
  /\ update' = Tail(update)
  /\ UNCHANGED <<server, toClient>>

(* Mutant: an update ended by LastRect is not followed by a request. *)
EndUpdate_Counted ==
  /\ state = "update" /\ ~More
  /\ toServer' = IF update = <<>> THEN Append(toServer, RequestFor(frame, TRUE)) ELSE toServer
  /\ update' = <<>> /\ state' = "idle"
  /\ UNCHANGED <<server, toClient, frame>>

(* The end of on_rfbFramebufferUpdate: the next request, and on_frame_update. *)
EndUpdate ==
  /\ state = "update" /\ ~More
  /\ toServer' = Append(toServer, RequestFor(frame, TRUE))
  /\ update' = <<>> /\ state' = "idle"
  /\ UNCHANGED <<server, toClient, frame>>

-----------------------------------------------------------------------------
Client == ReadUpdate \/ ReadResize \/ ReadRect \/ EndUpdate

Next ==
  \/ \E c \in Cells(screen) : Change(c)
  \/ \E n \in Sizes : Resize(n)
  \/ TakeRequest \/ SendUpdate \/ SendNewSize \/ SendResize
  \/ Client

(* The strand resumes the client when bytes arrive, and the server answers. *)
Spec ==
  /\ Init /\ [][Next]_vars
  /\ WF_vars(Client) /\ WF_vars(TakeRequest) /\ WF_vars(SendUpdate) /\ WF_vars(SendNewSize)

-----------------------------------------------------------------------------
(* Client and server never wait for each other: when nothing is on its way and
   the client waits for a message, the server has been asked for all of the
   screen it has told the client of. *)
AlwaysAsked ==
  toServer = <<>> /\ toClient = <<>> /\ state = "idle" =>
    asked # {} /\ (untold \/ Cells(screen) \subseteq asked)

(* A rectangle of a well-behaved server is never refused as too large: the
   frame has the size the server had when it sent it. *)
NeverTooLarge == state # "failed"

(* When the screen stays as it is, the frame comes to be the screen, whatever
   sizes it went through. *)
PictureConverges == <>[](frame = screen)
=============================================================================
