--------------------------- MODULE UpdateFlowProofs ---------------------------
(***************************************************************************)
(* What is proved of UpdateFlow, for screens of any sizes and any number   *)
(* of changes and resizes: no rectangle is refused as too large, and the   *)
(* client and the server never wait for each other.                        *)
(***************************************************************************)
EXTENDS UpdateFlow, SequenceTheorems, FiniteSetTheorems, TLAPS

Request == [incremental : BOOLEAN, size : Sizes]
Rect ==
  [encoding : {"raw"}, cell : Nat, value : Nat] \cup [encoding : {"NewFBSize"}, size : Sizes]
    \cup [encoding : {"LastRect"}]
Message == [type : {"update"}, rects : Seq(Rect)] \cup [type : {"resize"}, size : Sizes]

HasSize(f) == \E n \in Sizes : DOMAIN f = 1 .. n

FlowTypeOK ==
  /\ HasSize(screen) /\ screen \in [Cells(screen) -> Nat]
  /\ HasSize(frame)
  /\ dirty \subseteq Cells(screen)
  /\ changes \in Nat /\ resizes \in Nat
  /\ toServer \in Seq(Request) /\ toClient \in Seq(Message) /\ update \in Seq(Rect)
  /\ state \in {"idle", "update", "failed"}

(* Reading the rectangles takes a frame of n cells to one of m. *)
Turns(rects, n, m) ==
  \/ /\ m = n
     /\ \A i \in 1 .. Len(rects) :
          rects[i].encoding = "LastRect" \/ (rects[i].encoding = "raw" /\ rects[i].cell \in 1 .. n)
  \/ /\ rects # <<>> /\ rects[1].encoding = "NewFBSize" /\ rects[1].size = m
     /\ \A i \in 2 .. Len(rects) : rects[i].encoding = "LastRect"

Leads(msg, n, m) ==
  IF msg.type = "update" THEN Turns(msg.rects, n, m) ELSE msg.size = m

(* What is under way takes the frame through the sizes of w, to the one the
   client has been told last. *)
Path(w) ==
  /\ state = "idle" => w[1] = Size(frame)
  /\ state = "update" => Turns(update, Size(frame), w[1])
  /\ \A i \in 1 .. Len(toClient) : Leads(toClient[i], w[i], w[i + 1])
  /\ ~untold => w[Len(toClient) + 1] = Size(screen)

PathInv == \E w \in [1 .. Len(toClient) + 1 -> Sizes] : Path(w)

(* The last request is for the whole frame, and when the server has it and
   owes no update it has been asked for that much. *)
AskInv ==
  /\ toServer # <<>> => toServer[Len(toServer)].size = Size(frame)
  /\ toServer = <<>> /\ state = "idle" /\ (\A i \in 1 .. Len(toClient) : toClient[i].type = "resize")
       => Cells(frame) \subseteq asked

FlowInv == FlowTypeOK /\ PathInv /\ AskInv /\ NeverTooLarge

-----------------------------------------------------------------------------
(* Size and Cells of a frame with cells 1 to n. *)
LEMMA SizeOf ==
  ASSUME NEW n \in Nat, NEW f, DOMAIN f = 1 .. n
  PROVE  Size(f) = n
BY FS_Interval DEF Size

LEMMA SizeIn ==
  ASSUME NEW f, HasSize(f)
  PROVE  Size(f) \in Sizes /\ Size(f) \in Nat \ {0} /\ Cells(f) = 1 .. Size(f)
<1>1. PICK n \in Sizes : DOMAIN f = 1 .. n
  BY DEF HasSize
<1>2. n \in Nat \ {0}
  BY FlowAssumption
<1>3. Size(f) = n
  BY <1>1, <1>2, SizeOf
<1>4. QED
  BY <1>1, <1>2, <1>3 DEF Cells

(* A function on 1 .. n is a sequence. *)
LEMMA FunctionIsSeq ==
  ASSUME NEW T, NEW n \in Nat, NEW f \in [1 .. n -> T]
  PROVE  f \in Seq(T) /\ Len(f) = n
<1>1. f \in Seq(T)
  BY SeqDef
<1>2. Len(f) \in Nat /\ 1 .. Len(f) = 1 .. n
  BY <1>1, LenProperties
<1>3. QED
  BY <1>1, <1>2

(* SetToSeq lists elements of the set. *)
LEMMA ListOf ==
  ASSUME NEW S, IsFiniteSet(S)
  PROVE  \A i \in 1 .. Cardinality(S) : SetToSeq(S)[i] \in S
<1>1. \E f \in [1 .. Cardinality(S) -> S] : IsInjective(f)
  BY FS_CardinalityType DEF ExistsBijection, Bijection, Injection, IsInjective
<1>2. SetToSeq(S) \in [1 .. Cardinality(S) -> S]
  BY <1>1 DEF SetToSeq
<1>3. QED
  BY <1>2

(* The first request is for the frame it is made with. *)
LEMMA FlowInit == Init => FlowInv
<1> SUFFICES ASSUME Init PROVE FlowInv
  OBVIOUS
<1>1. PICK n \in Sizes : /\ screen = [c \in 1 .. n |-> 1] /\ frame = [c \in 1 .. n |-> 0]
                         /\ toServer = <<[incremental |-> FALSE, size |-> n]>>
  BY DEF Init
<1>2. n \in Nat \ {0} /\ Size(screen) = n /\ Size(frame) = n
  BY <1>1, FlowAssumption, SizeOf
<1>3. toServer \in Seq(Request) /\ Len(toServer) = 1
  BY <1>1 DEF Request
<1>4. FlowTypeOK
  BY <1>1, <1>3, EmptySeq DEF Init, FlowTypeOK, HasSize, Cells
<1>5. PathInv
  <2>1. Len(toClient) = 0 /\ [i \in 1 .. 1 |-> n] \in [1 .. Len(toClient) + 1 -> Sizes]
    BY DEF Init
  <2>2. Path([i \in 1 .. 1 |-> n])
    BY <1>2, <2>1 DEF Init, Path
  <2>3. QED
    BY <2>1, <2>2 DEF PathInv
<1>6. AskInv /\ NeverTooLarge
  BY <1>1, <1>2, <1>3 DEF Init, AskInv, NeverTooLarge
<1>7. QED
  BY <1>4, <1>5, <1>6 DEF FlowInv

-----------------------------------------------------------------------------
(* The server sends a message that takes the client to a size. *)
LEMMA PathGrows ==
  ASSUME FlowTypeOK, PathInv, NEW m \in Message, NEW k \in Sizes,
         toClient' = Append(toClient, m), UNCHANGED <<screen, frame, update, state>>,
         ~untold' => k = Size(screen),
         \A n \in Sizes : (~untold => n = Size(screen)) => Leads(m, n, k)
  PROVE  PathInv'
<1>1. PICK w \in [1 .. Len(toClient) + 1 -> Sizes] : Path(w)
  BY DEF PathInv
<1>2. /\ Len(toClient) \in Nat /\ Len(toClient') = Len(toClient) + 1
      /\ toClient'[Len(toClient) + 1] = m
      /\ \A i \in 1 .. Len(toClient) : toClient'[i] = toClient[i]
  BY AppendProperties, LenProperties DEF FlowTypeOK
<1>0. PICK v : v = [i \in 1 .. Len(toClient) + 2 |-> IF i <= Len(toClient) + 1 THEN w[i] ELSE k]
  OBVIOUS
<1>3. v \in [1 .. Len(toClient') + 1 -> Sizes]
  BY <1>0, <1>2
<1>4. /\ \A i \in 1 .. Len(toClient) + 1 : v[i] = w[i]
      /\ v[Len(toClient) + 2] = k
  BY <1>0, <1>2
<1>5. Leads(m, w[Len(toClient) + 1], k)
  BY <1>1, <1>2 DEF Path
<1>6. \A i \in 1 .. Len(toClient') : Leads(toClient'[i], v[i], v[i + 1])
  <2> TAKE i \in 1 .. Len(toClient')
  <2>1. CASE i \in 1 .. Len(toClient)
    <3>1. i + 1 \in 1 .. Len(toClient) + 1 /\ i \in 1 .. Len(toClient) + 1
      BY <1>2, <2>1
    <3>2. QED
      BY <1>1, <1>2, <1>4, <2>1, <3>1 DEF Path
  <2>2. CASE i = Len(toClient) + 1
    <3>1. i + 1 = Len(toClient) + 2 /\ i \in 1 .. Len(toClient) + 1
      BY <1>2, <2>2
    <3>2. QED
      BY <1>2, <1>4, <1>5, <2>2, <3>1
  <2>3. QED
    BY <1>2, <2>1, <2>2
<1>7. v[1] = w[1] /\ Len(toClient') + 1 = Len(toClient) + 2
  BY <1>2, <1>4
<1>8. Path(v)'
  <2>1. Size(frame)' = Size(frame) /\ Size(screen)' = Size(screen)
    BY DEF Size
  <2>2. QED
    BY <1>1, <1>4, <1>6, <1>7, <2>1 DEF Path
<1>9. QED
  BY <1>3, <1>8 DEF PathInv

(* The server's other steps. *)
LEMMA PathStays ==
  ASSUME PathInv, UNCHANGED <<toClient, frame, update, state>>,
         ~untold' => ~untold /\ Size(screen)' = Size(screen)
  PROVE  PathInv'
<1>1. PICK w \in [1 .. Len(toClient) + 1 -> Sizes] : Path(w)
  BY DEF PathInv
<1>2. Path(w)'
  BY <1>1 DEF Path, Size
<1>3. QED
  BY <1>1, <1>2 DEF PathInv

(* What AskInv does not depend on. *)
LEMMA AskStays ==
  ASSUME AskInv, UNCHANGED <<toServer, asked, toClient, frame, state>>
  PROVE  AskInv'
BY DEF AskInv, Size, Cells

(* The screen changes; no message does. *)
LEMMA ScreenSteps ==
  ASSUME FlowInv, (\E c \in Cells(screen) : Change(c)) \/ \E n \in Sizes : Resize(n)
  PROVE  FlowInv'
<1> USE DEF FlowInv
<1>1. ASSUME NEW c \in Cells(screen), Change(c) PROVE FlowInv'
  <2>1. /\ DOMAIN screen' = DOMAIN screen /\ screen' \in [Cells(screen) -> Nat]
        /\ UNCHANGED <<untold, toServer, asked, toClient, frame, update, state>>
        /\ changes' \in Nat /\ resizes' \in Nat /\ dirty' \subseteq Cells(screen)
    BY <1>1 DEF Change, FlowTypeOK
  <2>2. FlowTypeOK'
    BY <2>1 DEF FlowTypeOK, HasSize, Cells
  <2>3. PathInv'
    BY <2>1, PathStays DEF Size
  <2>4. QED
    BY <2>1, <2>2, <2>3, AskStays DEF NeverTooLarge
<1>2. ASSUME NEW n \in Sizes, Resize(n) PROVE FlowInv'
  <2>1. /\ screen' = [c \in 1 .. n |-> MaxChanges + 2 + resizes] /\ untold' = TRUE
        /\ UNCHANGED <<toServer, asked, toClient, frame, update, state>>
        /\ changes' \in Nat /\ resizes' \in Nat /\ dirty' \subseteq 1 .. n
    BY <1>2 DEF Resize, FlowTypeOK
  <2>2. DOMAIN screen' = 1 .. n /\ screen' \in [1 .. n -> Nat]
    BY <2>1, FlowAssumption DEF FlowTypeOK
  <2>3. FlowTypeOK'
    BY <2>1, <2>2 DEF FlowTypeOK, HasSize, Cells
  <2>4. PathInv'
    BY <2>1, PathStays
  <2>5. QED
    BY <2>1, <2>3, <2>4, AskStays DEF NeverTooLarge
<1>3. QED
  BY <1>1, <1>2

(* The server reads a request. *)
LEMMA RequestStep ==
  ASSUME FlowInv, TakeRequest
  PROVE  FlowInv'
<1> USE DEF FlowInv
<1>0. /\ toServer \in Seq(Request) /\ toServer # <<>> /\ toServer' = Tail(toServer)
      /\ Head(toServer) \in Request /\ Tail(toServer) \in Seq(Request)
  BY HeadTailProperties DEF TakeRequest, FlowTypeOK
<1>1. /\ Head(toServer).size \in Sizes
      /\ asked' = asked \cup 1 .. Head(toServer).size
      /\ UNCHANGED <<screen, untold, changes, resizes, toClient, frame, update, state>>
  BY <1>0 DEF TakeRequest, Request
<1>2. dirty' \subseteq Cells(screen)
  BY DEF TakeRequest, FlowTypeOK
<1>3. FlowTypeOK'
  BY <1>0, <1>1, <1>2 DEF FlowTypeOK, HasSize, Cells
<1>4. PathInv'
  BY <1>1, PathStays DEF Size
<1>5. AskInv'
  <2>1. /\ Len(toServer) \in Nat \ {0} /\ Len(toServer') = Len(toServer) - 1
        /\ \A i \in 1 .. Len(toServer') : toServer'[i] = toServer[i + 1]
        /\ Head(toServer) = toServer[1]
    BY <1>0, HeadTailProperties, EmptySeq, LenProperties
  <2>0. toServer' = <<>> <=> Len(toServer') = 0
    BY <1>0, EmptySeq
  <2>2. toServer' # <<>> => toServer'[Len(toServer')] = toServer[Len(toServer)]
    BY <2>0, <2>1
  <2>3. toServer' = <<>> => Cells(frame) \subseteq asked'
    <3> SUFFICES ASSUME toServer' = <<>> PROVE Cells(frame) \subseteq asked'
      OBVIOUS
    <3>1. Len(toServer) = 1
      BY <2>0, <2>1
    <3>2. Head(toServer).size = Size(frame)
      BY <1>0, <2>1, <3>1 DEF AskInv
    <3>3. QED
      BY <1>1, <3>2, SizeIn DEF FlowTypeOK
  <2>4. QED
    BY <1>0, <1>1, <2>2, <2>3 DEF AskInv, Size, Cells
<1>6. QED
  BY <1>1, <1>3, <1>4, <1>5 DEF NeverTooLarge

(* What the server sends. *)
LEMMA SendSteps ==
  ASSUME FlowInv, SendUpdate \/ SendNewSize \/ SendResize
  PROVE  FlowInv'
<1> USE DEF FlowInv
<1>1. /\ Size(screen) \in Sizes /\ Cells(screen) = 1 .. Size(screen) /\ Size(screen) \in Nat
      /\ toClient \in Seq(Message)
  BY SizeIn DEF FlowTypeOK
<1>2. ASSUME NEW m \in Message, toClient' = Append(toClient, m),
             UNCHANGED <<screen, changes, resizes, toServer, frame, update, state>>,
             dirty' \subseteq dirty,
             \A n \in Sizes : (~untold => n = Size(screen)) => Leads(m, n, Size(screen)),
             m.type = "update" \/ asked' = asked
      PROVE  FlowInv'
  <2>1. FlowTypeOK'
    <3>1. toClient' \in Seq(Message)
      BY <1>1, <1>2, AppendProperties
    <3>2. QED
      BY <1>2, <3>1 DEF FlowTypeOK, HasSize, Cells
  <2>2. PathInv'
    BY <1>1, <1>2, PathGrows
  <2>3. AskInv'
    <3>1. /\ Len(toClient) \in Nat /\ Len(toClient') = Len(toClient) + 1
          /\ toClient'[Len(toClient) + 1] = m
          /\ \A i \in 1 .. Len(toClient) : toClient'[i] = toClient[i]
      BY <1>1, <1>2, AppendProperties, LenProperties
    <3>2. Len(toClient) + 1 \in 1 .. Len(toClient') /\ \A i \in 1 .. Len(toClient) : i \in 1 .. Len(toClient')
      BY <3>1
    <3>3. (\A i \in 1 .. Len(toClient') : toClient'[i].type = "resize") =>
            m.type = "resize" /\ \A i \in 1 .. Len(toClient) : toClient[i].type = "resize"
      BY <3>1, <3>2
    <3>4. QED
      BY <1>2, <3>3 DEF AskInv, Size, Cells
  <2>4. QED
    BY <1>2, <2>1, <2>2, <2>3 DEF NeverTooLarge
<1>3. ASSUME NEW rects \in Seq(Rect), Send(rects),
             \A n \in Sizes : (~untold => n = Size(screen)) => Turns(rects, n, Size(screen)),
             UNCHANGED <<screen, changes, resizes, toServer, frame, update, state>>,
             dirty' \subseteq dirty
      PROVE  FlowInv'
  <2>1. PICK end \in {<<>>, <<[encoding |-> "LastRect"]>>} :
          toClient' = Append(toClient, [type |-> "update", rects |-> rects \o end])
    BY <1>3 DEF Send
  <2>2. end \in Seq(Rect) /\ Len(end) \in 0 .. 1 /\ (Len(end) = 1 => end[1].encoding = "LastRect")
    <3>1. [encoding |-> "LastRect"] \in Rect
      BY DEF Rect
    <3>2. CASE end = <<>>
      BY <3>2, EmptySeq
    <3>3. CASE end = <<[encoding |-> "LastRect"]>>
      BY <3>1, <3>3
    <3>4. QED
      BY <2>1, <3>2, <3>3
  <2>3. /\ rects \o end \in Seq(Rect) /\ Len(rects) \in Nat /\ Len(rects \o end) = Len(rects) + Len(end)
        /\ \A i \in 1 .. Len(rects) : (rects \o end)[i] = rects[i]
        /\ \A i \in Len(rects) + 1 .. Len(rects) + Len(end) : (rects \o end)[i].encoding = "LastRect"
    BY <2>2, ConcatProperties, LenProperties
  <2>4. ASSUME NEW n \in Sizes, Turns(rects, n, Size(screen)) PROVE Turns(rects \o end, n, Size(screen))
    <3>0. \A i \in 1 .. Len(rects \o end) : i \in 1 .. Len(rects) \/ i \in Len(rects) + 1 .. Len(rects) + Len(end)
      BY <2>2, <2>3
    <3>1. CASE rects # <<>> /\ rects[1].encoding = "NewFBSize" /\ rects[1].size = Size(screen)
               /\ \A i \in 2 .. Len(rects) : rects[i].encoding = "LastRect"
      <4>1. Len(rects) >= 1
        BY <2>3, <3>1, EmptySeq
      <4>2. (rects \o end)[1] = rects[1] /\ rects \o end # <<>>
        BY <2>2, <2>3, <4>1, EmptySeq
      <4>3. \A i \in 2 .. Len(rects \o end) : (rects \o end)[i].encoding = "LastRect"
        BY <2>2, <2>3, <3>1, <4>1
      <4>4. QED
        BY <3>1, <4>2, <4>3 DEF Turns
    <3>2. CASE /\ Size(screen) = n
               /\ \A i \in 1 .. Len(rects) : rects[i].encoding = "LastRect" \/
                    (rects[i].encoding = "raw" /\ rects[i].cell \in 1 .. n)
      BY <2>3, <3>0, <3>2 DEF Turns
    <3>3. QED
      BY <2>4, <3>1, <3>2 DEF Turns
  <2>5. [type |-> "update", rects |-> rects \o end] \in Message
    BY <2>3 DEF Message
  <2>6. QED
    BY <1>2, <1>3, <2>1, <2>4, <2>5 DEF Leads
<1>4. CASE SendUpdate
  <2> DEFINE S == asked \cap dirty
  <2> DEFINE rects == [i \in 1 .. Cardinality(S) |->
                         LET c == SetToSeq(S)[i] IN [encoding |-> "raw", cell |-> c, value |-> screen[c]]]
  <2>1. S \subseteq 1 .. Size(screen) /\ IsFiniteSet(S) /\ Cardinality(S) \in Nat
    <3>1. S \subseteq 1 .. Size(screen)
      BY <1>1 DEF FlowTypeOK
    <3>2. IsFiniteSet(1 .. Size(screen))
      BY <1>1, FS_Interval
    <3>3. IsFiniteSet(S)
      BY <3>1, <3>2, FS_Subset
    <3>4. QED
      BY <3>1, <3>3, FS_CardinalityType
  <2>2. \A i \in 1 .. Cardinality(S) :
          /\ rects[i].encoding = "raw" /\ rects[i].cell \in 1 .. Size(screen)
          /\ rects[i] \in Rect
    <3> TAKE i \in 1 .. Cardinality(S)
    <3>1. SetToSeq(S)[i] \in 1 .. Size(screen)
      BY <2>1, ListOf
    <3>2. screen[SetToSeq(S)[i]] \in Nat
      BY <1>1, <3>1 DEF FlowTypeOK
    <3>3. QED
      BY <1>1, <3>1, <3>2 DEF Rect
  <2>3. rects \in Seq(Rect) /\ Len(rects) = Cardinality(S)
    <3>1. rects \in [1 .. Cardinality(S) -> Rect]
      BY <2>2
    <3> HIDE DEF rects
    <3>2. QED
      BY <2>1, <3>1, FunctionIsSeq
  <2>4. Send(rects) /\ ~untold
    BY <1>4 DEF SendUpdate
  <2> HIDE DEF rects
  <2>5. Turns(rects, Size(screen), Size(screen))
    BY <2>2, <2>3 DEF Turns
  <2>6. QED
    BY <1>3, <1>4, <2>3, <2>4, <2>5 DEF SendUpdate
<1>5. CASE SendNewSize
  <2> DEFINE rects == <<[encoding |-> "NewFBSize", size |-> Size(screen)]>>
  <2>1. rects \in Seq(Rect) /\ Len(rects) = 1 /\ Send(rects)
    BY <1>1, <1>5 DEF SendNewSize, Rect
  <2>2. \A n \in Sizes : Turns(rects, n, Size(screen))
    BY DEF Turns
  <2> HIDE DEF rects
  <2>3. QED
    BY <1>3, <1>5, <2>1, <2>2 DEF SendNewSize
<1>6. CASE SendResize
  <2>1. [type |-> "resize", size |-> Size(screen)] \in Message
    BY <1>1 DEF Message
  <2>2. QED
    BY <1>2, <1>6, <2>1 DEF SendResize, Leads
<1>7. QED
  BY <1>4, <1>5, <1>6

-----------------------------------------------------------------------------
(* A message of a new size: the frame takes it, and all of it is asked for. *)
LEMMA Resizes ==
  ASSUME FlowTypeOK, NEW n \in Sizes, HandleResize(n)
  PROVE  /\ HasSize(frame)' /\ Size(frame)' = n
         /\ toServer' \in Seq(Request)
         /\ toServer' # <<>> /\ toServer'[Len(toServer')].size = n
<1>1. n \in Nat \ {0}
  BY FlowAssumption
<1>2. DOMAIN SetSize(n) = 1 .. n /\ frame' = SetSize(n)
  BY DEF SetSize, HandleResize
<1>3. Size(SetSize(n)) = n
  BY <1>1, <1>2, SizeOf
<1>4. /\ [incremental |-> FALSE, size |-> n] \in Request
      /\ toServer' = Append(toServer, [incremental |-> FALSE, size |-> n])
  BY <1>3 DEF HandleResize, RequestFor, Request
<1>5. QED
  BY <1>2, <1>3, <1>4, AppendProperties, LenProperties, EmptySeq DEF FlowTypeOK, HasSize, Size

(* The first message is read. *)
LEMMA PathShortens ==
  ASSUME FlowTypeOK, NEW w \in [1 .. Len(toClient) + 1 -> Sizes], Path(w),
         toClient # <<>>, toClient' = Tail(toClient), UNCHANGED <<screen, untold>>,
         state' = "idle" => w[2] = Size(frame)',
         state' = "update" => Turns(update', Size(frame)', w[2])
  PROVE  PathInv'
<1>0. PICK v : v = [i \in 1 .. Len(toClient) |-> w[i + 1]]
  OBVIOUS
<1>1. /\ Len(toClient) \in Nat \ {0} /\ Len(toClient') = Len(toClient) - 1
      /\ \A i \in 1 .. Len(toClient') : toClient'[i] = toClient[i + 1]
  BY HeadTailProperties, EmptySeq, LenProperties DEF FlowTypeOK
<1>2. v \in [1 .. Len(toClient') + 1 -> Sizes] /\ \A i \in 1 .. Len(toClient) : v[i] = w[i + 1]
  BY <1>0, <1>1
<1>3. v[1] = w[2] /\ v[Len(toClient') + 1] = w[Len(toClient) + 1]
  BY <1>1, <1>2
<1>4. \A i \in 1 .. Len(toClient') : Leads(toClient'[i], v[i], v[i + 1])
  <2> TAKE i \in 1 .. Len(toClient')
  <2>1. i + 1 \in 1 .. Len(toClient) /\ i \in 1 .. Len(toClient)
    BY <1>1
  <2>2. Leads(toClient[i + 1], w[i + 1], w[i + 1 + 1])
    BY <2>1 DEF Path
  <2>3. QED
    BY <1>1, <1>2, <2>1, <2>2
<1>5. Path(v)'
  BY <1>3, <1>4 DEF Path, Size
<1>6. QED
  BY <1>2, <1>5 DEF PathInv

(* A message is read. *)
LEMMA MessageSteps ==
  ASSUME FlowInv, ReadUpdate \/ ReadResize
  PROVE  FlowInv'
<1> USE DEF FlowInv
<1>1. PICK w \in [1 .. Len(toClient) + 1 -> Sizes] : Path(w)
  BY DEF PathInv
<1>2. /\ state = "idle" /\ toClient # <<>> /\ toClient' = Tail(toClient)
      /\ UNCHANGED server
  BY DEF ReadUpdate, ReadResize
<1>3. /\ toClient' \in Seq(Message) /\ Head(toClient) \in Message
      /\ Len(toClient) \in Nat \ {0} /\ Head(toClient) = toClient[1]
  BY <1>2, HeadTailProperties, EmptySeq, LenProperties DEF FlowTypeOK
<1>4. Leads(Head(toClient), w[1], w[2]) /\ w[1] = Size(frame)
  BY <1>1, <1>2, <1>3 DEF Path
<1>5. CASE ReadUpdate
  <2>1. /\ Head(toClient).type = "update" /\ update' = Head(toClient).rects /\ state' = "update"
        /\ UNCHANGED <<server, toServer, frame>>
    BY <1>5 DEF ReadUpdate
  <2>2. update' \in Seq(Rect)
    BY <1>3, <2>1 DEF Message
  <2>3. FlowTypeOK'
    BY <1>3, <2>1, <2>2 DEF FlowTypeOK, HasSize, Cells, server
  <2>4. Turns(update', Size(frame)', w[2])
    BY <1>4, <2>1 DEF Leads, Size
  <2>5. PathInv'
    BY <1>1, <1>2, <2>1, <2>4, PathShortens DEF server
  <2>6. QED
    BY <2>1, <2>3, <2>5 DEF AskInv, NeverTooLarge, Size
<1>6. CASE ReadResize
  <2>1. Head(toClient).type = "resize" /\ HandleResize(Head(toClient).size) /\ UNCHANGED <<server, update, state>>
    BY <1>6 DEF ReadResize
  <2>2. Head(toClient).size \in Sizes /\ w[2] = Head(toClient).size
    BY <1>3, <1>4, <2>1 DEF Message, Leads
  <2>3. /\ HasSize(frame)' /\ Size(frame)' = Head(toClient).size
        /\ toServer' \in Seq(Request)
        /\ toServer' # <<>> /\ toServer'[Len(toServer')].size = Head(toClient).size
    BY <2>1, <2>2, Resizes
  <2>4. FlowTypeOK'
    BY <1>3, <2>1, <2>3 DEF FlowTypeOK, HasSize, Cells, server
  <2>5. PathInv'
    BY <1>1, <1>2, <2>1, <2>2, <2>3, PathShortens DEF server
  <2>6. QED
    BY <2>1, <2>3, <2>4, <2>5 DEF AskInv, NeverTooLarge
<1>7. QED
  BY <1>5, <1>6

(* A rectangle is read. *)
LEMMA RectStep ==
  ASSUME FlowInv, ReadRect
  PROVE  FlowInv'
<1> USE DEF FlowInv
<1> DEFINE r == Head(update)
<1>1. PICK w \in [1 .. Len(toClient) + 1 -> Sizes] : Path(w)
  BY DEF PathInv
<1>2. /\ state = "update" /\ update # <<>> /\ r.encoding # "LastRect" /\ update' = Tail(update)
      /\ UNCHANGED <<server, toClient>>
  BY DEF ReadRect, More
<1>3. /\ r \in Rect /\ update' \in Seq(Rect) /\ r = update[1]
      /\ Len(update) \in Nat \ {0} /\ Len(update') = Len(update) - 1
      /\ \A i \in 1 .. Len(update') : update'[i] = update[i + 1]
  BY <1>2, HeadTailProperties, EmptySeq, LenProperties DEF FlowTypeOK
<1>4. Turns(update, Size(frame), w[1]) /\ Cells(frame) = 1 .. Size(frame)
  BY <1>1, <1>2, SizeIn DEF Path, FlowTypeOK
<1>5. ASSUME HasSize(frame)', state' = "update", toServer' \in Seq(Request),
             Turns(update', Size(frame)', w[1]),
             toServer' # <<>> => toServer'[Len(toServer')].size = Size(frame)'
      PROVE  FlowInv'
  <2>1. FlowTypeOK'
    BY <1>2, <1>3, <1>5 DEF FlowTypeOK, HasSize, Cells, server
  <2>2. Path(w)'
    BY <1>1, <1>2, <1>5 DEF Path, Size, server
  <2>3. PathInv'
    BY <1>2, <2>2 DEF PathInv
  <2>4. QED
    BY <1>5, <2>1, <2>3 DEF AskInv, NeverTooLarge
<1>6. CASE r.encoding = "raw"
  <2>1. /\ w[1] = Size(frame) /\ r.cell \in 1 .. Size(frame)
        /\ \A i \in 1 .. Len(update) : update[i].encoding = "LastRect" \/
             (update[i].encoding = "raw" /\ update[i].cell \in 1 .. Size(frame))
    BY <1>3, <1>4, <1>6 DEF Turns
  <2>2. frame' = [frame EXCEPT ![r.cell] = r.value] /\ UNCHANGED <<toServer, state>>
    BY <1>4, <1>6, <2>1 DEF ReadRect
  <2>3. DOMAIN frame' = DOMAIN frame /\ Size(frame)' = Size(frame)
    BY <2>2 DEF Size
  <2>4. Turns(update', Size(frame)', w[1])
    BY <1>3, <2>1, <2>3 DEF Turns
  <2>5. QED
    BY <1>2, <1>5, <2>2, <2>3, <2>4 DEF FlowTypeOK, HasSize, AskInv
<1>7. CASE r.encoding = "NewFBSize"
  <2>1. r.size = w[1] /\ \A i \in 2 .. Len(update) : update[i].encoding = "LastRect"
    BY <1>3, <1>4, <1>7 DEF Turns
  <2>2. r.size \in Sizes /\ HandleResize(r.size) /\ state' = state
    BY <1>3, <1>7 DEF ReadRect, Rect
  <2>3. /\ HasSize(frame)' /\ Size(frame)' = r.size
        /\ toServer' \in Seq(Request)
        /\ toServer' # <<>> /\ toServer'[Len(toServer')].size = r.size
    BY <2>2, Resizes
  <2>4. \A i \in 1 .. Len(update') : update'[i].encoding = "LastRect"
    BY <1>3, <2>1
  <2>5. QED
    BY <1>2, <1>5, <2>1, <2>2, <2>3, <2>4 DEF Turns
<1>8. QED
  BY <1>2, <1>6, <1>7 DEF ReadRect

(* The update has been read: the next one is asked for. *)
LEMMA EndStep ==
  ASSUME FlowInv, EndUpdate
  PROVE  FlowInv'
<1> USE DEF FlowInv
<1>1. PICK w \in [1 .. Len(toClient) + 1 -> Sizes] : Path(w)
  BY DEF PathInv
<1>2. /\ state = "update" /\ state' = "idle" /\ (update # <<>> => Head(update).encoding = "LastRect")
      /\ UNCHANGED <<server, toClient, frame>> /\ update' = <<>>
      /\ toServer' = Append(toServer, [incremental |-> TRUE, size |-> Size(frame)])
  BY DEF EndUpdate, More, RequestFor
<1>3. [incremental |-> TRUE, size |-> Size(frame)] \in Request
  BY SizeIn DEF FlowTypeOK, Request
<1>4. /\ toServer' \in Seq(Request) /\ toServer' # <<>>
      /\ toServer'[Len(toServer')].size = Size(frame)
  <2>1. toServer \in Seq(Request) /\ Len(toServer) \in Nat
    BY LenProperties DEF FlowTypeOK
  <2>2. /\ toServer' \in Seq(Request) /\ Len(toServer') = Len(toServer) + 1
        /\ toServer'[Len(toServer) + 1] = [incremental |-> TRUE, size |-> Size(frame)]
    BY <1>2, <1>3, <2>1, AppendProperties
  <2>3. QED
    BY <2>1, <2>2, EmptySeq
<1>5. FlowTypeOK'
  BY <1>2, <1>4, EmptySeq DEF FlowTypeOK, HasSize, Cells, server
<1>6. w[1] = Size(frame)
  <2>1. update # <<>> => update[1].encoding # "NewFBSize"
    BY <1>2, HeadTailProperties DEF FlowTypeOK
  <2>2. QED
    BY <1>1, <1>2, <2>1 DEF Path, Turns
<1>7. Path(w)'
  BY <1>1, <1>2, <1>6 DEF Path, Size, server
<1>8. QED
  BY <1>2, <1>4, <1>5, <1>7 DEF PathInv, AskInv, NeverTooLarge, Size

-----------------------------------------------------------------------------
(* Every session of on_rfbFramebufferUpdate and the resize handlers, with any
   server that keeps to the order of its messages, keeps FlowInv. *)
THEOREM FlowInvariance == Spec => []FlowInv
<1>1. FlowInv /\ [Next]_vars => FlowInv'
  <2> SUFFICES ASSUME FlowInv, [Next]_vars PROVE FlowInv'
    OBVIOUS
  <2>1. CASE UNCHANGED vars
    <3>1. FlowTypeOK' /\ AskInv' /\ NeverTooLarge'
      BY <2>1 DEF vars, FlowInv, FlowTypeOK, HasSize, Cells, AskInv, NeverTooLarge, Size
    <3>2. PathInv'
      BY <2>1, PathStays DEF vars, FlowInv, Size
    <3>3. QED
      BY <3>1, <3>2 DEF FlowInv
  <2>2. QED
    BY <2>1, ScreenSteps, RequestStep, SendSteps, MessageSteps, RectStep, EndStep DEF Next, Client
<1>2. QED
  BY <1>1, FlowInit, PTL DEF Spec

(* No rectangle of an update is refused, whatever resizes are under way when
   it is sent. *)
THEOREM RectsFit == Spec => []NeverTooLarge
<1>1. FlowInv => NeverTooLarge
  BY DEF FlowInv
<1>2. QED
  BY <1>1, FlowInvariance, PTL

(* When all is quiet and the client waits for a message, the server has been
   asked for all of the screen it has told the client of. *)
THEOREM AlwaysAnswered == Spec => []AlwaysAsked
<1>1. FlowInv => AlwaysAsked
  <2> SUFFICES ASSUME FlowInv, toServer = <<>>, toClient = <<>>, state = "idle"
               PROVE  asked # {} /\ (untold \/ Cells(screen) \subseteq asked)
    BY DEF AlwaysAsked
  <2>1. Len(toClient) = 0
    OBVIOUS
  <2>2. Cells(frame) \subseteq asked
    BY <2>1 DEF FlowInv, AskInv
  <2>3. ~untold => Size(screen) = Size(frame)
    BY <2>1 DEF FlowInv, PathInv, Path
  <2>4. /\ Cells(frame) = 1 .. Size(frame) /\ Cells(screen) = 1 .. Size(screen)
        /\ Size(frame) \in Nat \ {0}
    BY SizeIn DEF FlowInv, FlowTypeOK
  <2>5. QED
    BY <2>2, <2>3, <2>4
<1>2. QED
  BY <1>1, FlowInvariance, PTL
=============================================================================
