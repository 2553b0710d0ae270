---------------------------- MODULE MessagesProofs ----------------------------
(***************************************************************************)
(* What is proved of a session, whatever the server sends and however      *)
(* long: it uses the delegate only as DelegateProxy lets it and, of that,  *)
(* what the proxy promises; it reads the server's messages item by item as *)
(* they were sent, and tells of each once and in their order; it sends     *)
(* nothing that the server does not take.                                  *)
(***************************************************************************)
EXTENDS Messages, SequenceTheorems, WellFoundedInduction, TLAPS

(* The shape of the state: without it a thread's count could not be known to
   be zero again after an early return. *)
THEOREM ProxyTypeCorrect == ProxySpec => []ProxyTypeOK
<1>1. ProxyInit => ProxyTypeOK
  BY DEF ProxyInit, ProxyTypeOK
<1>2. ProxyTypeOK /\ [ProxyNext]_proxyVars => ProxyTypeOK'
  <2> SUFFICES ASSUME ProxyTypeOK, [ProxyNext]_proxyVars PROVE ProxyTypeOK'
    OBVIOUS
  <2> USE DEF ProxyTypeOK
  <2>1. ASSUME NEW t \in Threads, Enter(t) PROVE ProxyTypeOK'
    BY <2>1 DEF Enter
  <2>2. ASSUME NEW t \in Threads, Leave(t) PROVE ProxyTypeOK'
    BY <2>2 DEF Leave
  <2>3. CASE BeginReset
    BY <2>3 DEF BeginReset
  <2>4. CASE Reset
    BY <2>4 DEF Reset
  <2>5. CASE UNCHANGED proxyVars
    BY <2>5 DEF proxyVars
  <2> QED BY <2>1, <2>2, <2>3, <2>4, <2>5 DEF ProxyNext
<1> QED BY <1>1, <1>2, PTL DEF ProxySpec

(* No callback runs in a delegate that its owner may have destroyed: after
   reset has returned, invoke finds no pointer and returns at once. *)
THEOREM NeverCalledAfterReset == ProxySpec => []NoCallAfterReset
<1>1. ProxyInit => NoCallAfterReset
  BY DEF ProxyInit, NoCallAfterReset
<1>2. ProxyTypeOK /\ NoCallAfterReset /\ [ProxyNext]_proxyVars => NoCallAfterReset'
  <2> SUFFICES ASSUME ProxyTypeOK, NoCallAfterReset, [ProxyNext]_proxyVars,
                      resetting' = "returned"
               PROVE  ~handler' /\ \A t \in Threads : depth'[t] = 0
    BY DEF NoCallAfterReset
  <2> USE DEF NoCallAfterReset, ProxyTypeOK
  <2>1. ASSUME NEW t \in Threads, Enter(t) PROVE ~handler' /\ \A u \in Threads : depth'[u] = 0
    <3>1. ~handler /\ \A u \in Threads : depth[u] = 0
      BY <2>1 DEF Enter
    <3> QED BY <2>1, <3>1 DEF Enter
  <2>2. ASSUME NEW t \in Threads, Leave(t) PROVE FALSE
    BY <2>2 DEF Leave
  <2>3. CASE BeginReset
    BY <2>3 DEF BeginReset
  <2>4. CASE Reset
    BY <2>4 DEF Reset
  <2>5. CASE UNCHANGED proxyVars
    BY <2>5 DEF proxyVars
  <2> QED BY <2>1, <2>2, <2>3, <2>4, <2>5 DEF ProxyNext
<1> QED BY ProxyTypeCorrect, <1>1, <1>2, PTL DEF ProxySpec

-----------------------------------------------------------------------------
(* A step of the strand is a step of the proxy or leaves it alone: only Call
   and Return enter and leave the delegate. *)
LEMMA StrandSteps == ASSUME StrandStep PROVE ProxyNext \/ UNCHANGED proxyVars
<1>1. CASE Handle
  BY <1>1 DEF Handle
<1>2. CASE Call
  BY <1>2, MessagesAssumption DEF Call, ProxyNext
<1>3. CASE Return
  BY <1>3, MessagesAssumption DEF Return, ProxyNext
<1>4. CASE Ends
  BY <1>4 DEF Ends
<1> QED BY <1>1, <1>2, <1>3, <1>4 DEF StrandStep

(* So is a step of the session. *)
LEMMA MessageSteps == ASSUME Next PROVE ProxyNext \/ UNCHANGED proxyVars
<1>1. CASE ServerSends
  BY <1>1 DEF ServerSends
<1>2. CASE ReadCompletes
  BY <1>2 DEF ReadCompletes
<1>3. CASE StrandStep
  BY <1>3, StrandSteps
<1>4. CASE StopInCallback \/ PostedStop
  BY <1>4 DEF StopInCallback, PostedStop, Close
<1>5. CASE Ends
  BY <1>5 DEF Ends
<1>6. CASE Destroy
  BY <1>6 DEF Destroy, ProxyNext
<1>7. CASE (\E m \in Extensions \ {"KeepAlive"} : SendExtension(m)) \/ SendCutTextUtf8 \/ KeepAliveTick
  BY <1>7 DEF SendExtension, SendCutTextUtf8, KeepAliveTick, Sent
<1> QED BY <1>1, <1>2, <1>3, <1>4, <1>5, <1>6, <1>7 DEF Next

(* Every session implements the delegate proxy's specification: the handlers
   of client_impl reach the delegate through invoke alone. *)
THEOREM SessionUsesProxy == Spec => ProxySpec
<1>1. Init => ProxyInit
  BY DEF Init
<1>2. [Next]_vars => [ProxyNext]_proxyVars
  BY MessageSteps DEF vars, proxyVars
<1> QED BY <1>1, <1>2, PTL DEF Spec, ProxySpec

(* In every session, whatever messages are being handled when ~client runs:
   once its reset has returned no callback is under way or will be made. *)
THEOREM SessionLeavesDelegate == Spec => []NoCallAfterReset
BY SessionUsesProxy, NeverCalledAfterReset, PTL

-----------------------------------------------------------------------------
(* Induction over the natural numbers, for a set given as such. *)
LEMMA SetInduction ==
  ASSUME NEW T, 0 \in T, \A n \in Nat : n \in T => n + 1 \in T
  PROVE  Nat \subseteq T
<1> DEFINE R == {ss \in Nat \X Nat : ss[1] < ss[2]}
           U == Nat \ T
<1>1. IsWellFoundedOn(R, Nat)
  <2>1. IsWellFoundedOn(OpToRel(<, Nat), Nat)
    BY NatLessThanWellFounded
  <2>2. QED
    BY <2>1 DEF OpToRel
<1>2. SUFFICES ASSUME U # {} PROVE FALSE
  OBVIOUS
<1>3. PICK x \in U : \A y \in U : ~(<<y, x>> \in R)
  <2> HIDE DEF R
  <2>1. U \subseteq Nat
    OBVIOUS
  <2>2. QED
    BY <1>1, <1>2, <2>1, WFMin
<1>4. \A y \in U : x <= y
  <2>1. \A y \in Nat : y < x => <<y, x>> \in R
    BY <1>3
  <2>2. \A y \in U : ~(y < x)
    <3> HIDE DEF R
    <3>1. QED
      BY <1>3, <2>1
  <2>3. QED
    BY <1>3, <2>2
<1>5. x # 0 /\ x - 1 \in Nat
  BY <1>3
<1>6. x - 1 \in T
  BY <1>4, <1>5
<1>7. QED
  BY <1>5, <1>6

(* g has the sequences up to the m-th joined one after the other. *)
Entry(g, seqs, k) == IF k = 1 THEN seqs[1] ELSE g[k - 1] \o seqs[k]
Joins(g, S, seqs, m) ==
  g \in [1 .. m -> Seq(S)] /\ \A k \in 1 .. m : g[k] = Entry(g, seqs, k)

(* One more sequence can be joined. *)
LEMMA JoinsOn ==
  ASSUME NEW S, NEW seqs \in Seq(Seq(S)), NEW m \in Nat, m < Len(seqs), NEW g, Joins(g, S, seqs, m)
  PROVE  \E h : Joins(h, S, seqs, m + 1)
<1> DEFINE x == IF m = 0 THEN seqs[1] ELSE g[m] \o seqs[m + 1]
           h == [k \in 1 .. m + 1 |-> IF k = m + 1 THEN x ELSE g[k]]
<1>1. Len(seqs) \in Nat /\ \A k \in 1 .. Len(seqs) : seqs[k] \in Seq(S)
  BY LenProperties
<1>2. x \in Seq(S)
  <2>1. CASE m = 0
    BY <1>1, <2>1
  <2>2. CASE m # 0
    <3>1. g[m] \in Seq(S) /\ seqs[m + 1] \in Seq(S)
      BY <1>1, <2>2 DEF Joins
    <3>2. QED
      BY <2>2, <3>1, ConcatProperties
  <2>3. QED
    BY <2>1, <2>2
<1>3. h \in [1 .. m + 1 -> Seq(S)]
  <2> HIDE DEF x
  <2>1. QED
    BY <1>2 DEF Joins
<1>4. ASSUME NEW k \in 1 .. m + 1
      PROVE  h[k] = Entry(h, seqs, k)
  <2>1. CASE k = m + 1
    BY <2>1 DEF Entry
  <2>2. CASE k \in 1 .. m
    <3>1. h[k] = g[k] /\ (k # 1 => h[k - 1] = g[k - 1])
      BY <2>2
    <3> HIDE DEF h
    <3>2. QED
      BY <2>2, <3>1 DEF Joins, Entry
  <2> HIDE DEF x, h
  <2>3. QED
    BY <2>1, <2>2
<1> HIDE DEF h
<1>5. QED
  BY <1>3, <1>4 DEF Joins

(* All of them can. *)
LEMMA AllJoined ==
  ASSUME NEW S, NEW seqs \in Seq(Seq(S))
  PROVE  \E g : Joins(g, S, seqs, Len(seqs))
<1> DEFINE T == {m \in Nat : m <= Len(seqs) => \E g : Joins(g, S, seqs, m)}
<1>1. Len(seqs) \in Nat
  BY LenProperties
<1>2. 0 \in T
  <2> DEFINE none == [k \in 1 .. 0 |-> <<>>]
  <2>1. Joins(none, S, seqs, 0)
    BY DEF Joins
  <2>2. QED
    BY <2>1
<1>3. ASSUME NEW m \in Nat, m \in T PROVE m + 1 \in T
  BY <1>1, <1>3, JoinsOn
<1>4. Nat \subseteq T
  <2> HIDE DEF T
  <2>1. QED
    BY <1>2, <1>3, SetInduction
<1>5. QED
  BY <1>1, <1>4

(* There is only one such function. *)
LEMMA JoinedOnce ==
  ASSUME NEW S, NEW seqs \in Seq(Seq(S)), NEW g, Joins(g, S, seqs, Len(seqs)), NEW f,
         \A k \in 1 .. Len(seqs) : f[k] = Entry(f, seqs, k)
  PROVE  \A k \in 1 .. Len(seqs) : f[k] = g[k]
<1> DEFINE T == {m \in Nat : m \in 1 .. Len(seqs) => f[m] = g[m]}
<1>1. Len(seqs) \in Nat
  BY LenProperties
<1>2. 0 \in T
  OBVIOUS
<1>3. ASSUME NEW m \in Nat, m \in T PROVE m + 1 \in T
  <2>1. SUFFICES ASSUME m + 1 \in 1 .. Len(seqs) PROVE f[m + 1] = g[m + 1]
    OBVIOUS
  <2>2. f[m + 1] = Entry(f, seqs, m + 1) /\ g[m + 1] = Entry(g, seqs, m + 1)
    BY <2>1 DEF Joins
  <2>3. m # 0 => f[m] = g[m]
    BY <1>1, <1>3, <2>1
  <2>4. QED
    BY <2>2, <2>3 DEF Entry
<1>4. Nat \subseteq T
  <2> HIDE DEF T
  <2>1. QED
    BY <1>2, <1>3, SetInduction
<1>5. QED
  BY <1>1, <1>4

(* FlattenSeq joins the sequences one after the other. *)
LEMMA Flattened ==
  ASSUME NEW S, NEW seqs \in Seq(Seq(S))
  PROVE  \E f \in [0 .. Len(seqs) -> Seq(S)] :
           /\ f[0] = <<>> /\ f[Len(seqs)] = FlattenSeq(seqs)
           /\ \A k \in 1 .. Len(seqs) : f[k] = f[k - 1] \o seqs[k]
<1> DEFINE n == Len(seqs)
<1>1. n \in Nat /\ \A k \in 1 .. n : seqs[k] \in Seq(S)
  BY LenProperties
<1>2. PICK g : Joins(g, S, seqs, n)
  BY AllJoined
<1> DEFINE f == [k \in 0 .. n |-> IF k = 0 THEN <<>> ELSE g[k]]
<1>3. f \in [0 .. n -> Seq(S)] /\ f[0] = <<>> /\ \A k \in 1 .. n : f[k] = g[k]
  BY <1>1, <1>2, EmptySeq DEF Joins
<1>4. ASSUME NEW k \in 1 .. n PROVE f[k] = f[k - 1] \o seqs[k]
  <2>1. f[k] = Entry(g, seqs, k)
    BY <1>2, <1>3 DEF Joins
  <2>2. CASE k = 1
    <3>1. f[k] = seqs[1] /\ f[k - 1] = <<>>
      BY <1>3, <2>1, <2>2 DEF Entry
    <3>2. <<>> \o seqs[1] = seqs[1]
      BY <1>1, <2>2, ConcatEmptySeq
    <3> HIDE DEF f
    <3>3. QED
      BY <2>2, <3>1, <3>2
  <2>3. CASE k # 1
    <3>1. k - 1 \in 1 .. n
      BY <1>1, <2>3
    <3>2. f[k - 1] = g[k - 1]
      BY <1>3, <3>1
    <3> HIDE DEF f
    <3>3. QED
      BY <2>1, <2>3, <3>2 DEF Entry
  <2>4. QED
    BY <2>2, <2>3
<1>5. f[n] = FlattenSeq(seqs)
  <2>1. CASE n = 0
    <3>1. seqs = <<>> /\ FlattenSeq(seqs) = seqs
      BY <2>1, EmptySeq DEF FlattenSeq
    <3>2. QED
      BY <1>3, <2>1, <3>1
  <2>2. CASE n # 0
    <3> DEFINE Eq(h) == h = [i \in 1 .. n |-> IF i = 1 THEN seqs[i] ELSE h[i - 1] \o seqs[i]]
               flatten == CHOOSE h : Eq(h)
    <3>1. FlattenSeq(seqs) = flatten[n]
      BY <2>2 DEF FlattenSeq
    <3>2. Eq(g)
      BY <1>2 DEF Joins, Entry
    <3>3. Eq(flatten)
      <4> HIDE DEF Eq
      <4>1. QED
        BY <3>2
    <3>4. \A k \in 1 .. n : flatten[k] = Entry(flatten, seqs, k)
      <4> HIDE DEF flatten
      <4>1. QED
        BY <3>3 DEF Entry
    <3> HIDE DEF flatten
    <3>5. flatten[n] = g[n]
      BY <1>1, <1>2, <2>2, <3>4, JoinedOnce
    <3>6. QED
      BY <1>1, <1>3, <2>2, <3>1, <3>5
  <2>3. QED
    BY <2>1, <2>2
<1> HIDE DEF f
<1>6. QED
  BY <1>3, <1>4, <1>5

-----------------------------------------------------------------------------
(* What the server sends, in detail. *)
Ids == {"FramebufferUpdate", "ServerCutText", "TextChat", "Xvp", "MonitorInfo", "ResizeFrameBuffer",
        "PalmVNCReSizeFrameBuffer", "Bell", "KeepAlive"}
RectKinds == {"last", "led", "position", "newSize", "identity", "encodings", "messages", "screens", "pixels"}
Flags == {"caps", "text", "provide"}
Items ==
  [is : {"id"}, n : {0}, val : Ids, set : {{}}]
    \cup [is : {"rect"}, n : Nat, val : RectKinds, set : {{}}]
    \cup [is : {"cutText"}, n : Int, val : {""}, set : {{}}]
    \cup [is : {"textChat"}, n : Nat \cup {-1, -2, -3}, val : {""}, set : {{}}]
    \cup [is : {"flagged"}, n : Nat, val : {""}, set : SUBSET Flags]
    \cup [is : {"messages"}, n : {0}, val : {""}, set : SUBSET Extensions]
    \cup [is : {"update", "text", "chat", "xvp", "resize", "monitor", "identity", "encodings",
               "screens", "screen", "pixels"}, n : Nat, val : {""}, set : {{}}]

Told == {"led", "position", "size", "update", "cut", "cutUtf8", "chat", "bell", "monitors", "status", "disconnect"}
InRect == {"rect", "identity", "encodings", "messages", "screens", "screen", "pixels"}
Readers ==
  [at : {"id", "cutText", "text", "flagged", "textChat", "chat", "xvp", "resize", "monitor", "update"} \cup InRect,
   n : Nat, left : Nat]

(* What an item lets the client send is on offer. *)
Promised(i, off) ==
  /\ i.is = "id" /\ i.val = "KeepAlive" => "KeepAlive" \in off
  /\ i.is = "xvp" => "Xvp" \in off
  /\ i.is = "monitor" => "SetMonitor" \in off
  /\ i.is \in {"screens", "screen"} => "SetDesktopSize" \in off
  /\ i.is = "messages" => i.set \subseteq off
  /\ i.is = "flagged" /\ {"caps", "text", "provide"} \subseteq i.set => "ExtendedCutText" \in off

Honest(off) == {i \in Items : Promised(i, off)}

KnowsOK ==
  /\ supported \subseteq Extensions /\ supported \subseteq offered
  /\ extClip \in BOOLEAN /\ (extClip => "ExtendedCutText" \in offered)
  /\ led \in Nat /\ monitors \in Nat

ReaderOK ==
  /\ reader \in Readers
  /\ reader.at \in InRect => reader.left > 0
  /\ reader.at = "screen" => reader.n > 0

(* What the client knows of what the server takes, or will know once it has
   read what is under way, is true. *)
PromiseInv ==
  /\ ProxyTypeOK /\ ReaderOK
  /\ calls \in Seq(Callbacks) /\ told \in Seq(Callbacks) /\ meant \in Seq(Callbacks)
  /\ up \in {"open", "closed", "ended"}
  /\ s2c \in Seq(Honest(offered))
  /\ got = None \/ (got \in Honest(offered) /\ got.is = reader.at)
  /\ KnowsOK /\ used \subseteq offered

(* What is on offer stays so. *)
LEMMA HonestGrows == ASSUME NEW off, NEW more, off \subseteq more PROVE Honest(off) \subseteq Honest(more)
  BY DEF Honest, Promised

(* What each kind of item asks of what is on offer. *)
LEMMA HonestItems ==
  ASSUME NEW off
  PROVE  /\ \A k \in Ids : (k = "KeepAlive" => k \in off) => Id(k) \in Honest(off)
         /\ \A k \in RectKinds, n \in Nat : Item("rect", n, k) \in Honest(off)
         /\ \A n \in Int : Item("cutText", n, "") \in Honest(off)
         /\ \A n \in Nat \cup {-1, -2, -3} : Item("textChat", n, "") \in Honest(off)
         /\ \A k \in {"update", "text", "chat", "resize", "identity", "encodings", "pixels"}, n \in Nat :
              Item(k, n, "") \in Honest(off)
         /\ \A n \in Nat : "SetDesktopSize" \in off =>
              Item("screens", n, "") \in Honest(off) /\ Item("screen", n, "") \in Honest(off)
         /\ "Xvp" \in off => Item("xvp", 0, "") \in Honest(off)
         /\ \A n \in Nat : "SetMonitor" \in off => Item("monitor", n, "") \in Honest(off)
         /\ \A list \in SUBSET Extensions : list \subseteq off => SetItem("messages", 0, list) \in Honest(off)
         /\ \A n \in Nat, flags \in SUBSET Flags :
              ("caps" \in flags => "ExtendedCutText" \in off) => SetItem("flagged", n, flags) \in Honest(off)
<1> USE DEF Honest, Promised, Items, Id, Item, SetItem
<1>1. \A k \in Ids : (k = "KeepAlive" => k \in off) => Id(k) \in Honest(off)
  OBVIOUS
<1>2. \A k \in RectKinds, n \in Nat : Item("rect", n, k) \in Honest(off)
  OBVIOUS
<1>3. \A n \in Int : Item("cutText", n, "") \in Honest(off)
  OBVIOUS
<1>11. \A n \in Nat \cup {-1, -2, -3} : Item("textChat", n, "") \in Honest(off)
  OBVIOUS
<1>4. \A k \in {"update", "text", "chat", "resize", "identity", "encodings", "pixels"}, n \in Nat :
         Item(k, n, "") \in Honest(off)
  OBVIOUS
<1>5. \A n \in Nat : "SetDesktopSize" \in off =>
         Item("screens", n, "") \in Honest(off) /\ Item("screen", n, "") \in Honest(off)
  OBVIOUS
<1>6. "Xvp" \in off => Item("xvp", 0, "") \in Honest(off)
  OBVIOUS
<1>7. \A n \in Nat : "SetMonitor" \in off => Item("monitor", n, "") \in Honest(off)
  OBVIOUS
<1>8. \A list \in SUBSET Extensions : list \subseteq off => SetItem("messages", 0, list) \in Honest(off)
  OBVIOUS
<1>9. \A n \in Nat, flags \in SUBSET Flags :
         ("caps" \in flags => "ExtendedCutText" \in off) => SetItem("flagged", n, flags) \in Honest(off)
  OBVIOUS
<1> HIDE DEF Honest, Promised, Items, Id, Item, SetItem
<1>10. QED
  BY <1>1, <1>2, <1>3, <1>4, <1>5, <1>6, <1>7, <1>8, <1>9, <1>11

(* A function on 1 .. n is a sequence. *)
LEMMA FunctionIsSeq == ASSUME NEW S, NEW n \in Nat, NEW f \in [1 .. n -> S] PROVE f \in Seq(S) /\ Len(f) = n
  OBVIOUS

(* Sequences of no item and of one. *)
LEMMA Singleton == ASSUME NEW S PROVE <<>> \in Seq(S) /\ \A x \in S : <<x>> \in Seq(S) /\ Len(<<x>>) = 1
  OBVIOUS

(* The items of a rectangle. *)
LEMMA RectIsHonest ==
  ASSUME NEW r \in Rects, NEW off, RectOffers(r) \subseteq off
  PROVE  RectItems(r) \in Seq(Honest(off))
<1> DEFINE H == Honest(off)
<1>1. Item("rect", r.n, r.kind) \in H /\ r.n \in Nat /\ r.list \in SUBSET Extensions
  BY HonestItems DEF Rects, RectKinds
<1> HIDE DEF H
<1>2. <<Item("rect", r.n, r.kind)>> \in Seq(H)
  BY <1>1, Singleton
<1>3. CASE r.kind \in {"identity", "encodings"}
  <2>1. Item(r.kind, r.n, "") \in H
    BY <1>1, <1>3, HonestItems DEF H
  <2>2. Bytes(r.kind, r.n, "") \in Seq(H)
    <3>1. <<Item(r.kind, r.n, "")>> \in Seq(H) /\ <<>> \in Seq(H)
      BY <2>1, Singleton
    <3>2. QED
      BY <3>1 DEF Bytes
  <2>3. QED
    BY <1>2, <1>3, <2>2, ConcatProperties DEF RectItems, H
<1>4. CASE r.kind = "messages"
  <2>1. SetItem("messages", 0, r.list) \in H
    BY <1>1, <1>4, HonestItems DEF H, RectOffers
  <2>2. <<SetItem("messages", 0, r.list)>> \in Seq(H)
    BY <2>1, Singleton
  <2>3. QED
    BY <1>2, <1>4, <2>2, ConcatProperties DEF RectItems, H
<1>5. CASE r.kind = "screens"
  <2>1. Item("screens", r.n, "") \in H /\ Item("screen", 0, "") \in H
    BY <1>1, <1>5, HonestItems DEF H, RectOffers
  <2> DEFINE screens == [i \in 1 .. r.n |-> Item("screen", 0, "")]
  <2>2. screens \in Seq(H)
    <3>1. screens \in [1 .. r.n -> H]
      BY <2>1
    <3> HIDE DEF screens
    <3>2. QED
      BY <1>1, <3>1, FunctionIsSeq
  <2>3. <<Item("screens", r.n, "")>> \in Seq(H)
    BY <2>1, Singleton
  <2>4. <<Item("screens", r.n, "")>> \o screens \in Seq(H)
    <3> HIDE DEF screens
    <3>1. QED
      BY <2>2, <2>3, ConcatProperties
  <2>5. RectItems(r) = <<Item("rect", r.n, r.kind)>> \o (<<Item("screens", r.n, "")>> \o screens)
    BY <1>5, Zenon DEF RectItems
  <2> HIDE DEF screens
  <2>6. QED
    BY <1>2, <2>4, <2>5, ConcatProperties DEF H
<1>6. CASE r.kind = "pixels"
  <2>1. Item("pixels", 0, "") \in H
    BY HonestItems DEF H
  <2>2. <<Item("pixels", 0, "")>> \in Seq(H)
    BY <2>1, Singleton
  <2>3. QED
    BY <1>2, <1>6, <2>2, ConcatProperties DEF RectItems, H
<1>7. CASE r.kind \notin {"identity", "encodings", "messages", "screens", "pixels"}
  <2>1. RectItems(r) = <<Item("rect", r.n, r.kind)>> \o <<>>
    BY <1>7 DEF RectItems
  <2>2. QED
    BY <1>2, <2>1, ConcatEmptySeq DEF H
<1>8. QED
  BY <1>3, <1>4, <1>5, <1>6, <1>7

(* The items of an update's rectangles, and what they say. *)
RectSeq(u) == [i \in DOMAIN u |-> RectItems(u[i])]
SaysSeq(u) == [i \in DOMAIN u |-> RectSays(u[i])]

(* The items of every rectangle of an update are honest. *)
LEMMA UpdateTyped ==
  ASSUME NEW u \in Seq(Rects), NEW off, \A i \in DOMAIN u : RectOffers(u[i]) \subseteq off
  PROVE  /\ RectSeq(u) \in Seq(Seq(Honest(off))) /\ Len(RectSeq(u)) = Len(u)
         /\ \A k \in 1 .. Len(u) : RectSeq(u)[k] = RectItems(u[k])
<1>1. Len(u) \in Nat /\ DOMAIN u = 1 .. Len(u) /\ \A i \in DOMAIN u : u[i] \in Rects
  BY LenProperties
<1>2. \A i \in 1 .. Len(u) : RectItems(u[i]) \in Seq(Honest(off))
  BY <1>1, RectIsHonest
<1>3. RectSeq(u) \in [1 .. Len(u) -> Seq(Honest(off))]
  BY <1>1, <1>2, Zenon DEF RectSeq
<1>4. \A k \in 1 .. Len(u) : RectSeq(u)[k] = RectItems(u[k])
  BY <1>1, Zenon DEF RectSeq
<1>5. QED
  BY <1>1, <1>3, <1>4, FunctionIsSeq

(* What every rectangle of an update says is a sequence of callbacks. *)
LEMMA SaysTyped ==
  ASSUME NEW u \in Seq(Rects)
  PROVE  /\ SaysSeq(u) \in Seq(Seq(Callbacks)) /\ Len(SaysSeq(u)) = Len(u)
         /\ \A k \in 1 .. Len(u) : SaysSeq(u)[k] = RectSays(u[k])
<1>1. Len(u) \in Nat /\ DOMAIN u = 1 .. Len(u) /\ \A i \in DOMAIN u : u[i] \in Rects
  BY LenProperties
<1>2. ASSUME NEW r \in Rects PROVE RectSays(r) \in Seq(Callbacks)
  <2>1. Tell("led", r.n) \in Callbacks /\ Tell("position", 0) \in Callbacks /\ Tell("size", 0) \in Callbacks
    BY DEF Tell, Callbacks, Rects
  <2>2. /\ <<Tell("led", r.n)>> \in Seq(Callbacks) /\ <<Tell("position", 0)>> \in Seq(Callbacks)
        /\ <<Tell("size", 0)>> \in Seq(Callbacks) /\ <<>> \in Seq(Callbacks)
    BY <2>1, Singleton
  <2>3. RectSays(r) \in {<<Tell("led", r.n)>>, <<Tell("position", 0)>>, <<Tell("size", 0)>>, <<>>}
    BY Zenon DEF RectSays
  <2>4. QED
    BY <2>2, <2>3
<1>3. SaysSeq(u) \in [1 .. Len(u) -> Seq(Callbacks)]
  BY <1>1, <1>2, Zenon DEF SaysSeq
<1>4. \A k \in 1 .. Len(u) : SaysSeq(u)[k] = RectSays(u[k])
  BY <1>1, Zenon DEF SaysSeq
<1>5. QED
  BY <1>1, <1>3, <1>4, FunctionIsSeq

(* Joined sequences have the elements of what was joined. *)
LEMMA FlattenTyped == ASSUME NEW S, NEW seqs \in Seq(Seq(S)) PROVE FlattenSeq(seqs) \in Seq(S)
<1>1. Len(seqs) \in 0 .. Len(seqs)
  <2>1. Len(seqs) \in Nat
    BY LenProperties
  <2>2. QED
    BY <2>1
<1>2. PICK f \in [0 .. Len(seqs) -> Seq(S)] : f[Len(seqs)] = FlattenSeq(seqs)
  BY Flattened
<1>3. f[Len(seqs)] \in Seq(S)
  BY <1>1
<1>4. QED
  BY <1>2, <1>3

(* Wrapped, for an item is not looked into where only its place counts. *)
Batch(items, off) == items \in Seq(Honest(off))
Speech(says) == says \in Seq(Callbacks)

(* Short batches, from their items. *)
LEMMA Batches ==
  ASSUME NEW off
  PROVE  /\ Batch(<<>>, off)
         /\ \A x \in Honest(off) : Batch(<<x>>, off)
         /\ \A x, y \in Honest(off) : Batch(<<x, y>>, off)
         /\ \A x, y, z \in Honest(off) : Batch(<<x, y, z>>, off)
<1> DEFINE H == Honest(off)
<1> SUFFICES /\ <<>> \in Seq(H) /\ \A x \in H : <<x>> \in Seq(H)
             /\ \A x, y \in H : <<x, y>> \in Seq(H)
             /\ \A x, y, z \in H : <<x, y, z>> \in Seq(H)
  BY DEF Batch
<1> HIDE DEF H
<1>1. QED
  OBVIOUS

(* Two batches are one. *)
LEMMA BatchesJoin == ASSUME NEW off, NEW a, NEW b, Batch(a, off), Batch(b, off) PROVE Batch(a \o b, off)
BY ConcatProperties DEF Batch

(* Nothing, and each single callback the delegate knows. *)
LEMMA Speeches ==
  /\ Speech(<<>>)
  /\ \A k \in Told, n \in Int : Speech(<<Tell(k, n)>>)
<1>1. \A k \in Told, n \in Int : Tell(k, n) \in Callbacks
  BY DEF Tell, Callbacks, Told
<1> DEFINE C == Callbacks
<1>2. <<>> \in Seq(C) /\ \A x \in C : <<x>> \in Seq(C)
  <2> HIDE DEF C
  <2>1. QED
    OBVIOUS
<1> HIDE DEF C
<1>3. QED
  BY <1>1, <1>2 DEF Speech, C

(* Two speeches are one. *)
LEMMA SpeechesJoin == ASSUME NEW a, NEW b, Speech(a), Speech(b) PROVE Speech(a \o b)
BY ConcatProperties DEF Speech

(* The server's step. *)
LEMMA SendKeeps ==
  ASSUME PromiseInv, NEW items, NEW says, NEW offers, Sends(items, says, offers),
         Batch(items, offered \cup offers), Speech(says),
         UNCHANGED <<proxyVars, got, reader, calls, up, capabilities, told, used>>
  PROVE  PromiseInv'
<1>1. offered' = offered \cup offers /\ s2c' = s2c \o items /\ meant' = meant \o says
  BY DEF Sends
<1>2. Honest(offered) \subseteq Honest(offered')
  BY <1>1, HonestGrows
<1>3. s2c \in Seq(Honest(offered'))
  BY <1>2, SeqMonotonic DEF PromiseInv
<1>4. s2c' \in Seq(Honest(offered'))
  BY <1>1, <1>3, ConcatProperties DEF Batch
<1>5. meant' \in Seq(Callbacks)
  BY <1>1, ConcatProperties DEF PromiseInv, Speech
<1>6. ProxyTypeOK' /\ ReaderOK'
  BY DEF PromiseInv, ProxyTypeOK, ReaderOK, proxyVars
<1>7. got' = None \/ (got' \in Honest(offered') /\ got'.is = reader'.at)
  BY <1>2 DEF PromiseInv
<1>8. KnowsOK'
  BY <1>1 DEF PromiseInv, KnowsOK, capabilities
<1>9. QED
  BY <1>1, <1>4, <1>5, <1>6, <1>7, <1>8 DEF PromiseInv

(* Every message of the server offers what its items let the client send. *)
LEMMA SendPromise == ASSUME PromiseInv, ServerSends PROVE PromiseInv'
<1>1. UNCHANGED <<proxyVars, got, reader, calls, up, capabilities, told, used>>
  BY DEF ServerSends
<1> DEFINE H(offers) == Honest(offered \cup offers)
<1>2. \A offers : \A k \in Ids : (k = "KeepAlive" => k \in offers) => Id(k) \in H(offers)
  BY HonestItems
<1>3. \A offers : /\ \A n \in Int : Item("cutText", n, "") \in H(offers)
                  /\ \A n \in Nat \cup {-1, -2, -3} : Item("textChat", n, "") \in H(offers)
                  /\ \A k \in {"update", "text", "resize"}, n \in Nat : Item(k, n, "") \in H(offers)
  BY HonestItems
<1>4. CASE SendText
  <2>1. PICK n \in Texts :
    \/ Sends(<<Id("ServerCutText"), Item("cutText", n, ""), Item("text", n, "")>>, <<Tell("cut", n)>>, {})
    \/ \E flags \in {{"caps", "text", "provide"}, {"text", "provide"}, {"text"}, {"provide"}} :
         Sends(<<Id("ServerCutText"), Item("cutText", -n, ""), SetItem("flagged", n, flags)>>,
               IF flags = {"text", "provide"} THEN <<Tell("cutUtf8", n)>> ELSE <<>>,
               IF "caps" \in flags THEN {"ExtendedCutText"} ELSE {})
    BY <1>4 DEF SendText
  <2>2. n \in Nat /\ n \in Int /\ -n \in Int
    BY MessagesAssumption
  <2>3. CASE Sends(<<Id("ServerCutText"), Item("cutText", n, ""), Item("text", n, "")>>, <<Tell("cut", n)>>, {})
    <3>1. Id("ServerCutText") \in H({}) /\ Item("cutText", n, "") \in H({}) /\ Item("text", n, "") \in H({})
      BY <1>2, <1>3, <2>2 DEF Ids
    <3>2. Batch(<<Id("ServerCutText"), Item("cutText", n, ""), Item("text", n, "")>>, offered \cup {})
      BY <3>1, Batches, Zenon
    <3>3. Speech(<<Tell("cut", n)>>)
      BY <2>2, Speeches DEF Told
    <3>4. QED
      BY <1>1, <2>3, <3>2, <3>3, SendKeeps, Zenon
  <2>4. ASSUME NEW flags \in {{"caps", "text", "provide"}, {"text", "provide"}, {"text"}, {"provide"}},
               Sends(<<Id("ServerCutText"), Item("cutText", -n, ""), SetItem("flagged", n, flags)>>,
               IF flags = {"text", "provide"} THEN <<Tell("cutUtf8", n)>> ELSE <<>>,
               IF "caps" \in flags THEN {"ExtendedCutText"} ELSE {})
        PROVE  PromiseInv'
    <3> DEFINE offers == IF "caps" \in flags THEN {"ExtendedCutText"} ELSE {}
               says == IF flags = {"text", "provide"} THEN <<Tell("cutUtf8", n)>> ELSE <<>>
    <3>1. flags \in SUBSET Flags /\ ("caps" \in flags => "ExtendedCutText" \in offered \cup offers)
      BY DEF Flags
    <3>2. Speech(says)
      BY <2>2, Speeches DEF Told
    <3>3. Sends(<<Id("ServerCutText"), Item("cutText", -n, ""), SetItem("flagged", n, flags)>>, says, offers)
      BY <2>4
    <3> HIDE DEF offers, says
    <3>4. Id("ServerCutText") \in H(offers) /\ Item("cutText", -n, "") \in H(offers)
      BY <1>2, <1>3, <2>2 DEF Ids
    <3>5. SetItem("flagged", n, flags) \in H(offers)
      BY <2>2, <3>1, HonestItems
    <3>6. Batch(<<Id("ServerCutText"), Item("cutText", -n, ""), SetItem("flagged", n, flags)>>, offered \cup offers)
      BY <3>4, <3>5, Batches, Zenon
    <3>7. QED
      BY <1>1, <3>2, <3>3, <3>6, SendKeeps, Zenon
  <2>5. QED
    BY <2>1, <2>3, <2>4
<1>5. ASSUME NEW u \in Updates, SendUpdate(u) PROVE PromiseInv'
  <2> DEFINE offers == UNION {RectOffers(u[i]) : i \in DOMAIN u}
             first == Item("update", IF u # <<>> /\ Last(u).kind = "last" THEN ManyRects ELSE Len(u), "")
             says == FlattenSeq([i \in DOMAIN u |-> RectSays(u[i])])
             items == FlattenSeq([i \in DOMAIN u |-> RectItems(u[i])])
  <2>1. u \in Seq(Rects) /\ Len(u) \in Nat
    BY MessagesAssumption, LenProperties
  <2>2. \A i \in DOMAIN u : RectOffers(u[i]) \subseteq offered \cup offers
    OBVIOUS
  <2>3. Sends(<<Id("FramebufferUpdate"), first>> \o items, says \o <<Tell("update", 0)>>, offers)
    BY <1>5 DEF SendUpdate
  <2>4. items = FlattenSeq(RectSeq(u)) /\ says = FlattenSeq(SaysSeq(u))
    BY Zenon DEF RectSeq, SaysSeq
  <2>5. Id("FramebufferUpdate") \in H(offers) /\ first \in H(offers)
    <3>1. (IF u # <<>> /\ Last(u).kind = "last" THEN ManyRects ELSE Len(u)) \in Nat
      BY <2>1 DEF ManyRects
    <3>2. QED
      BY <3>1, <1>2, <1>3, Zenon DEF Ids
  <2> HIDE DEF offers, first, says, items
  <2>6. Batch(items, offered \cup offers)
    BY <2>1, <2>2, <2>4, UpdateTyped, FlattenTyped DEF Batch
  <2>7. Speech(says)
    BY <2>1, <2>4, SaysTyped, FlattenTyped DEF Speech
  <2>8. Batch(<<Id("FramebufferUpdate"), first>> \o items, offered \cup offers)
    <3>1. Batch(<<Id("FramebufferUpdate"), first>>, offered \cup offers)
      BY <2>5, Batches, Zenon
    <3>2. QED
      BY <2>6, <3>1, BatchesJoin, Zenon
  <2>9. Speech(says \o <<Tell("update", 0)>>)
    <3>1. Speech(<<Tell("update", 0)>>)
      BY Speeches DEF Told
    <3>2. QED
      BY <2>7, <3>1, SpeechesJoin, Zenon
  <2>10. QED
    BY <1>1, <2>3, <2>8, <2>9, SendKeeps, Zenon
<1>6. ASSUME NEW n \in Texts \cup {0, -1, -2, -3},
             Sends(<<Id("TextChat"), Item("textChat", n, "")>> \o IF n > 0 THEN <<Item("chat", n, "")>> ELSE <<>>,
                   <<Tell("chat", n)>>, {})
      PROVE  PromiseInv'
  <2> DEFINE rest == IF n > 0 THEN <<Item("chat", n, "")>> ELSE <<>>
  <2>1. n \in Int /\ n \in Nat \cup {-1, -2, -3}
    <3>1. Texts \subseteq Nat
      BY MessagesAssumption
    <3> HIDE DEF rest
    <3>2. QED
      BY <3>1
  <2>2. Id("TextChat") \in H({}) /\ Item("textChat", n, "") \in H({}) /\ (n > 0 => Item("chat", n, "") \in H({}))
    <3>1. n > 0 => n \in Nat
      BY <2>1
    <3>2. Id("TextChat") \in H({}) /\ Item("textChat", n, "") \in H({})
      BY <1>2, <1>3, <2>1 DEF Ids
    <3>3. n > 0 => Item("chat", n, "") \in H({})
      BY <3>1, HonestItems
    <3>4. QED
      BY <3>2, <3>3
  <2>3. Batch(<<Id("TextChat"), Item("textChat", n, "")>>, offered \cup {})
    BY <2>2, Batches, Zenon
  <2>4. Batch(rest, offered \cup {})
    <3>1. CASE n > 0
      BY <2>2, <3>1, Batches, Zenon
    <3>2. CASE ~(n > 0)
      BY <3>2, Batches, Zenon
    <3>3. QED
      BY <3>1, <3>2
  <2>5. Speech(<<Tell("chat", n)>>)
    BY <2>1, Speeches DEF Told
  <2>6. Batch(<<Id("TextChat"), Item("textChat", n, "")>> \o rest, offered \cup {})
    <3> HIDE DEF rest
    <3>1. QED
      BY <2>3, <2>4, BatchesJoin, Zenon
  <2>7. QED
    BY <1>1, <1>6, <2>5, <2>6, SendKeeps, Zenon
<1>7. CASE Sends(<<Id("Bell")>>, <<Tell("bell", 0)>>, {})
  <2>1. Id("Bell") \in H({}) /\ Speech(<<Tell("bell", 0)>>)
    BY <1>2, Speeches DEF Ids, Told
  <2>2. Batch(<<Id("Bell")>>, offered \cup {})
    BY <2>1, Batches, Zenon
  <2>3. QED
    BY <1>1, <1>7, <2>1, <2>2, SendKeeps, Zenon
<1>8. CASE Sends(<<Id("Xvp"), Item("xvp", 0, "")>>, <<>>, {"Xvp"})
  <2>1. Id("Xvp") \in H({"Xvp"}) /\ Item("xvp", 0, "") \in H({"Xvp"}) /\ Speech(<<>>)
    BY <1>2, HonestItems, Speeches DEF Ids, Told
  <2>2. Batch(<<Id("Xvp"), Item("xvp", 0, "")>>, offered \cup {"Xvp"})
    BY <2>1, Batches, Zenon
  <2>3. QED
    BY <1>1, <1>8, <2>1, <2>2, SendKeeps, Zenon
<1>9. ASSUME NEW id \in {"ResizeFrameBuffer", "PalmVNCReSizeFrameBuffer"},
             Sends(<<Id(id), Item("resize", 0, "")>>, <<Tell("size", 0)>>, {})
      PROVE  PromiseInv'
  <2>1. Id(id) \in H({}) /\ Item("resize", 0, "") \in H({})
    BY <1>2, <1>3 DEF Ids
  <2>2. Batch(<<Id(id), Item("resize", 0, "")>>, offered \cup {})
    BY <2>1, Batches, Zenon
  <2>3. Speech(<<Tell("size", 0)>>)
    BY Speeches DEF Told
  <2>4. QED
    BY <1>1, <1>9, <2>2, <2>3, SendKeeps, Zenon
<1>10. CASE Sends(<<Id("MonitorInfo"), Item("monitor", 2, "")>>, <<Tell("monitors", 2)>>, {"SetMonitor"})
  <2>1. Id("MonitorInfo") \in H({"SetMonitor"})
    BY <1>2 DEF Ids
  <2>2. Item("monitor", 2, "") \in H({"SetMonitor"})
    BY HonestItems
  <2>3. Batch(<<Id("MonitorInfo"), Item("monitor", 2, "")>>, offered \cup {"SetMonitor"})
    BY <2>1, <2>2, Batches, Zenon
  <2>4. Speech(<<Tell("monitors", 2)>>)
    BY Speeches DEF Told
  <2>5. QED
    BY <1>1, <1>10, <2>3, <2>4, SendKeeps, Zenon
<1>11. CASE Sends(<<Id("KeepAlive")>>, <<>>, {"KeepAlive"})
  <2>1. Id("KeepAlive") \in H({"KeepAlive"}) /\ Speech(<<>>)
    BY <1>2, Speeches DEF Ids, Told
  <2>2. Batch(<<Id("KeepAlive")>>, offered \cup {"KeepAlive"})
    BY <2>1, Batches, Zenon
  <2>3. QED
    BY <1>1, <1>11, <2>1, <2>2, SendKeeps, Zenon
<1>12. QED
  BY <1>4, <1>5, <1>6, <1>7, <1>8, <1>9, <1>10, <1>11, Zenon DEF ServerSends

-----------------------------------------------------------------------------
(* What a handler leaves behind: it waits for a next item, or calls back. *)
LEMMA ReadsOK ==
  ASSUME NEW what, NEW n \in Nat, NEW left \in Nat, At(what, n, left) \in Readers,
         what \in InRect => left > 0, what = "screen" => n > 0, Reads(what, n, left)
  PROVE  ReaderOK' /\ calls' \in Seq(Callbacks)
BY DEF Reads, Calls, ReaderOK, At

(* A message that is done with. *)
LEMMA CallsOK ==
  ASSUME NEW cs, Speech(cs), Calls(cs, NextId)
  PROVE  ReaderOK' /\ calls' \in Seq(Callbacks)
BY DEF Calls, ReaderOK, NextId, At, Readers, InRect, Speech

(* A rectangle that is done with. *)
LEMMA NextRectOK ==
  ASSUME NEW left \in Int, NEW cs, Speech(cs), NextRect(left, cs)
  PROVE  ReaderOK' /\ calls' \in Seq(Callbacks)
<1>1. CASE left > 0
  <2>1. calls' = cs /\ reader' = At("rect", 0, left)
    BY <1>1 DEF NextRect, Calls
  <2>2. QED
    BY <1>1, <2>1 DEF ReaderOK, At, Readers, InRect, Speech
<1>2. CASE ~(left > 0)
  <2>1. Calls(cs \o <<Tell("update", 0)>>, NextId)
    BY <1>2 DEF NextRect
  <2>2. Speech(cs \o <<Tell("update", 0)>>)
    <3>1. Speech(<<Tell("update", 0)>>)
      BY Speeches DEF Told
    <3>2. QED
      BY <3>1, SpeechesJoin, Zenon
  <2>3. QED
    BY <2>1, <2>2, CallsOK, Zenon
<1>3. QED
  BY <1>1, <1>2

(* Noting a message that the server takes. *)
LEMMA AllowsOK ==
  ASSUME PromiseInv, NEW m \in Extensions, m \in offered, UNCHANGED offered, Allows(m)
  PROVE  ReaderOK' /\ calls' \in Seq(Callbacks) /\ KnowsOK'
<1>1. Calls(<<>>, NextId) /\ supported' = supported \cup {m} /\ UNCHANGED <<extClip, led, monitors>>
  BY DEF Allows
<1>2. ReaderOK' /\ calls' \in Seq(Callbacks)
  BY <1>1, Speeches, CallsOK
<1>3. KnowsOK'
  BY <1>1 DEF PromiseInv, KnowsOK
<1>4. QED
  BY <1>2, <1>3

(* The kinds of an item. *)
LEMMA ItemIs ==
  ASSUME NEW off, NEW g \in Honest(off)
  PROVE  /\ g.is \in {"id", "rect", "cutText", "textChat", "flagged", "messages", "update", "text", "chat", "xvp",
                      "resize", "monitor", "identity", "encodings", "screens", "screen", "pixels"}
         /\ g.n \in Int /\ (g.is \notin {"cutText", "textChat"} => g.n \in Nat)
         /\ g.is = "textChat" => g.n \in Nat \cup {-1, -2, -3}
         /\ g.is = "id" => g.val \in Ids
         /\ g.is = "rect" => g.val \in RectKinds
         /\ g.is = "flagged" => g.set \subseteq Flags
         /\ g.is = "messages" => g.set \subseteq Extensions
<1>1. g \in Items
  BY DEF Honest
<1>2. CASE g \in [is : {"id"}, n : {0}, val : Ids, set : {{}}]
  BY <1>2
<1>3. CASE g \in [is : {"rect"}, n : Nat, val : RectKinds, set : {{}}]
  <2>1. g.is = "rect" /\ g.n \in Nat /\ g.val \in RectKinds
    BY <1>3
  <2>2. QED
    BY <2>1
<1>4. CASE g \in [is : {"cutText"}, n : Int, val : {""}, set : {{}}]
  <2>1. g.is = "cutText" /\ g.n \in Int
    BY <1>4
  <2>2. QED
    BY <2>1
<1>5. CASE g \in [is : {"textChat"}, n : Nat \cup {-1, -2, -3}, val : {""}, set : {{}}]
  <2>1. g.is = "textChat" /\ g.n \in Nat \cup {-1, -2, -3}
    BY <1>5
  <2>2. QED
    BY <2>1
<1>6. CASE g \in [is : {"flagged"}, n : Nat, val : {""}, set : SUBSET Flags]
  <2>1. g.is = "flagged" /\ g.n \in Nat /\ g.set \subseteq Flags
    BY <1>6
  <2>2. QED
    BY <2>1
<1>7. CASE g \in [is : {"messages"}, n : {0}, val : {""}, set : SUBSET Extensions]
  <2>1. g.is = "messages" /\ g.n = 0 /\ g.set \subseteq Extensions
    BY <1>7
  <2>2. QED
    BY <2>1
<1>8. CASE g \in [is : {"update", "text", "chat", "xvp", "resize", "monitor", "identity", "encodings",
                      "screens", "screen", "pixels"}, n : Nat, val : {""}, set : {{}}]
  <2>1. /\ g.is \in {"update", "text", "chat", "xvp", "resize", "monitor", "identity", "encodings",
                     "screens", "screen", "pixels"}
        /\ g.n \in Nat
    BY <1>8
  <2>2. QED
    BY <2>1
<1>9. QED
  BY <1>1, <1>2, <1>3, <1>4, <1>5, <1>6, <1>7, <1>8, Zenon DEF Items

(* The handler of an id keeps the invariant. *)
LEMMA IdOK ==
  ASSUME PromiseInv, NEW kind \in Ids, kind = "KeepAlive" => "KeepAlive" \in offered,
         UNCHANGED offered, HandleId(kind)
  PROVE  ReaderOK' /\ calls' \in Seq(Callbacks) /\ KnowsOK'
<1>1. Same => KnowsOK'
  BY DEF PromiseInv, Same, capabilities, KnowsOK
<1>2. ASSUME NEW what \in {"update", "cutText", "textChat", "xvp", "monitor", "resize"}, Reads(what, 0, 0)
      PROVE  ReaderOK' /\ calls' \in Seq(Callbacks)
  BY <1>2, ReadsOK DEF At, Readers, InRect
<1>3. CASE kind \in Ids \ {"Bell", "KeepAlive"}
  <2>1. Same
    BY <1>3 DEF HandleId, Ids
  <2>2. \E what \in {"update", "cutText", "textChat", "xvp", "monitor", "resize"} : Reads(what, 0, 0)
    BY <1>3 DEF HandleId, Ids
  <2>3. QED
    BY <1>1, <1>2, <2>1, <2>2
<1>4. CASE kind = "Bell"
  <2>1. Calls(<<Tell("bell", 0)>>, NextId) /\ Same
    BY <1>4 DEF HandleId
  <2>2. QED
    BY <1>1, <2>1, Speeches, CallsOK DEF Told
<1>5. CASE kind = "KeepAlive"
  <2>1. Allows("KeepAlive")
    BY <1>5 DEF HandleId
  <2>2. QED
    BY <1>5, <2>1, AllowsOK DEF Extensions
<1>6. QED
  BY <1>3, <1>4, <1>5

(* The handler of a rectangle's header keeps it: a rectangle is still expected. *)
LEMMA RectOK ==
  ASSUME PromiseInv, reader.at = "rect", NEW kind \in RectKinds, NEW n \in Nat,
         UNCHANGED offered, HandleRect(kind, n)
  PROVE  ReaderOK' /\ calls' \in Seq(Callbacks) /\ KnowsOK'
<1> DEFINE l == reader.left - 1
<1>1. Same => KnowsOK'
  BY DEF PromiseInv, Same, capabilities, KnowsOK
<1>2. reader.left \in Nat /\ reader.left > 0 /\ l \in Int
  BY DEF PromiseInv, ReaderOK, Readers, InRect
<1>3. Speech(<<>>) /\ Speech(<<Tell("position", 0)>>) /\ Speech(<<Tell("size", 0)>>) /\ Speech(<<Tell("led", n)>>)
  BY Speeches DEF Told
<1> HIDE DEF l
<1>4. \A cs : Speech(cs) /\ NextRect(l, cs) => ReaderOK' /\ calls' \in Seq(Callbacks)
  BY <1>2, NextRectOK
<1>5. \A what \in InRect \ {"screen"} : Reads(what, n, reader.left) => ReaderOK' /\ calls' \in Seq(Callbacks)
  BY <1>2, ReadsOK DEF At, Readers, InRect
<1>6. CASE kind = "last"
  <2>1. NextRect(0, <<>>) /\ Same
    BY <1>6 DEF HandleRect
  <2>2. QED
    BY <1>1, <1>3, <2>1, NextRectOK
<1>7. CASE kind = "led"
  <2>1. HandleLed(n)
    BY <1>7 DEF HandleRect
  <2>2. KnowsOK'
    BY <2>1 DEF HandleLed, PromiseInv, KnowsOK
  <2> DEFINE cs == IF n = led THEN <<>> ELSE <<Tell("led", n)>>
  <2>3. NextRect(l, cs) /\ Speech(cs)
    BY <1>3, <2>1 DEF HandleLed, l
  <2> HIDE DEF cs
  <2>4. QED
    BY <1>4, <2>2, <2>3
<1>8. CASE kind \in {"position", "newSize"}
  <2>1. Same /\ (NextRect(l, <<Tell("position", 0)>>) \/ NextRect(l, <<Tell("size", 0)>>))
    BY <1>8 DEF HandleRect, HandlePosition, HandleNewSize, l
  <2>2. QED
    BY <1>1, <1>3, <1>4, <2>1
<1>9. CASE kind \in {"identity", "encodings"}
  <2>1. Same /\ (NextRect(l, <<>>) \/ Reads(kind, n, reader.left))
    BY <1>9 DEF HandleRect, HandleUnused, l
  <2>2. QED
    BY <1>1, <1>3, <1>4, <1>5, <1>9, <2>1 DEF InRect
<1>10. CASE kind \in {"messages", "screens", "pixels"}
  <2>1. Same /\ Reads(kind, n, reader.left)
    BY <1>10 DEF HandleRect
  <2>2. QED
    BY <1>1, <1>5, <1>10, <2>1 DEF InRect
<1>11. QED
  BY <1>6, <1>7, <1>8, <1>9, <1>10 DEF RectKinds

(* So does that of what follows a rectangle's header. *)
LEMMA BodyOK ==
  ASSUME PromiseInv, NEW g \in Honest(offered), g.is = reader.at, g.is \in InRect \ {"rect"},
         UNCHANGED offered, HandleBody(g)
  PROVE  ReaderOK' /\ calls' \in Seq(Callbacks) /\ KnowsOK'
<1> DEFINE l == reader.left - 1
<1>1. Same => KnowsOK'
  BY DEF PromiseInv, Same, capabilities, KnowsOK
<1>2. reader.left \in Nat /\ reader.left > 0 /\ l \in Int /\ reader.n \in Nat /\ g.n \in Nat
  BY ItemIs DEF PromiseInv, ReaderOK, Readers, InRect
<1>3. Speech(<<>>)
  BY Speeches
<1> HIDE DEF l
<1>4. NextRect(l, <<>>) => ReaderOK' /\ calls' \in Seq(Callbacks)
  BY <1>2, <1>3, NextRectOK
<1>5. CASE g.is = "messages"
  <2>1. supported' = g.set /\ NextRect(l, <<>>) /\ UNCHANGED <<extClip, led, monitors>>
    BY <1>5 DEF HandleBody, HandleList, l
  <2>2. g.set \subseteq Extensions /\ g.set \subseteq offered
    BY <1>5, ItemIs DEF Honest, Promised
  <2>3. KnowsOK'
    BY <2>1, <2>2 DEF PromiseInv, KnowsOK
  <2>4. QED
    BY <1>4, <2>1, <2>3
<1>6. ASSUME NEW n \in Int, HandleScreens(n), "SetDesktopSize" \in offered
      PROVE  ReaderOK' /\ calls' \in Seq(Callbacks) /\ KnowsOK'
  <2>1. CASE n > 0
    <3>1. Reads("screen", n, reader.left) /\ Same
      BY <1>6, <2>1 DEF HandleScreens
    <3>2. n \in Nat /\ At("screen", n, reader.left) \in Readers
      BY <1>2, <2>1 DEF At, Readers, InRect
    <3>3. QED
      BY <1>1, <1>2, <2>1, <3>1, <3>2, ReadsOK
  <2>2. CASE ~(n > 0)
    <3>1. /\ supported' = supported \cup {"SetDesktopSize"} /\ NextRect(l, <<>>)
          /\ UNCHANGED <<extClip, led, monitors>>
      BY <1>6, <2>2 DEF HandleScreens, l
    <3>2. KnowsOK'
      BY <1>6, <3>1 DEF PromiseInv, KnowsOK, Extensions
    <3>3. QED
      BY <1>4, <3>1, <3>2
  <2>3. QED
    BY <2>1, <2>2
<1>7. CASE g.is \in {"screens", "screen"}
  <2>1. "SetDesktopSize" \in offered
    BY <1>7 DEF Honest, Promised
  <2>2. HandleScreens(g.n) \/ HandleScreens(reader.n - 1)
    BY <1>7 DEF HandleBody
  <2>3. QED
    BY <1>2, <1>6, <2>1, <2>2
<1>8. CASE g.is \in {"identity", "encodings", "pixels"}
  <2>1. NextRect(l, <<>>) /\ Same
    BY <1>8 DEF HandleBody, l
  <2>2. QED
    BY <1>1, <1>4, <2>1
<1>9. QED
  BY <1>5, <1>7, <1>8 DEF InRect

(* Every handler keeps the invariant. *)
LEMMA HandlePromise == ASSUME PromiseInv, Handle PROVE PromiseInv'
<1>1. got' = None /\ UNCHANGED <<proxyVars, s2c, up, told, used, serverVars>>
  BY DEF Handle
<1>2. got \in Honest(offered) /\ got.is = reader.at
  <2>1. got.is # "none" /\ None.is = "none"
    BY DEF Handle, None, Item
  <2>2. got # None
    BY <2>1
  <2>3. QED
    BY <2>2 DEF PromiseInv
<1>3. UNCHANGED offered
  BY <1>1 DEF serverVars
<1>4. Same => KnowsOK'
  BY <1>3 DEF PromiseInv, Same, capabilities, KnowsOK
<1>5. got.n \in Int /\ (got.is \notin {"cutText", "textChat"} => got.n \in Nat)
  BY <1>2, ItemIs
<1>6. ReaderOK' /\ calls' \in Seq(Callbacks) /\ KnowsOK'
  <2>1. CASE got.is = "id"
    <3>1. HandleId(got.val) /\ got.val \in Ids /\ (got.val = "KeepAlive" => "KeepAlive" \in offered)
      BY <1>2, <2>1, ItemIs DEF Handle, Honest, Promised
    <3>2. QED
      BY <1>3, <3>1, IdOK
  <2>2. CASE got.is = "update"
    <3>1. NextRect(got.n, <<>>) /\ Same
      BY <2>2 DEF Handle
    <3>2. QED
      BY <1>4, <1>5, <3>1, Speeches, NextRectOK
  <2>3. CASE got.is = "rect"
    <3>1. HandleRect(got.val, got.n) /\ got.val \in RectKinds /\ got.n \in Nat
      BY <1>2, <2>3, ItemIs DEF Handle
    <3>2. QED
      BY <1>2, <1>3, <2>3, <3>1, RectOK
  <2>4. CASE got.is = "cutText"
    <3>1. HandleCutText(got.n) /\ Same
      BY <2>4 DEF Handle
    <3>2. CASE got.n > 0
      <4>1. Reads("text", got.n, 0) /\ got.n \in Nat
        BY <1>5, <3>1, <3>2 DEF HandleCutText
      <4>2. At("text", got.n, 0) \in Readers
        BY <4>1 DEF At, Readers
      <4>3. QED
        BY <1>4, <3>1, <4>1, <4>2, ReadsOK DEF InRect
    <3>3. CASE got.n = 0
      <4>1. Calls(<<>>, NextId)
        BY <3>1, <3>3 DEF HandleCutText
      <4>2. QED
        BY <1>4, <3>1, <4>1, Speeches, CallsOK
    <3>4. CASE got.n < 0
      <4>1. Reads("flagged", -got.n, 0) /\ -got.n \in Nat
        BY <1>5, <3>1, <3>4 DEF HandleCutText
      <4>2. At("flagged", -got.n, 0) \in Readers
        BY <4>1 DEF At, Readers
      <4>3. QED
        BY <1>4, <3>1, <4>1, <4>2, ReadsOK DEF InRect
    <3>5. QED
      BY <1>5, <3>2, <3>3, <3>4
  <2>5. CASE got.is = "text"
    <3>1. Calls(<<Tell("cut", got.n)>>, NextId) /\ Same
      BY <2>5 DEF Handle
    <3>2. Speech(<<Tell("cut", got.n)>>)
      BY <1>5, Speeches DEF Told
    <3>3. QED
      BY <1>4, <3>1, <3>2, CallsOK
  <2>6. CASE got.is = "flagged"
    <3> DEFINE cs == IF got.set = {"text", "provide"} THEN <<Tell("cutUtf8", got.n)>> ELSE <<>>
    <3>1. HandleFlagged(got.n, got.set)
      BY <2>6 DEF Handle
    <3>2. Calls(cs, NextId) /\ extClip' = (extClip \/ {"caps", "text", "provide"} \subseteq got.set)
          /\ UNCHANGED <<supported, led, monitors>>
      BY <3>1 DEF HandleFlagged
    <3>3. Speech(cs)
      BY <1>5, Speeches DEF Told
    <3>4. {"caps", "text", "provide"} \subseteq got.set => "ExtendedCutText" \in offered
      BY <1>2, <2>6 DEF Honest, Promised
    <3>5. KnowsOK'
      <4>1. extClip' \in BOOLEAN /\ (extClip' => "ExtendedCutText" \in offered)
        BY <3>2, <3>4 DEF PromiseInv, KnowsOK
      <4>2. QED
        BY <1>3, <3>2, <4>1 DEF PromiseInv, KnowsOK
    <3> HIDE DEF cs
    <3>6. QED
      BY <3>2, <3>3, <3>5, CallsOK
  <2>7. CASE got.is = "textChat"
    <3>1. HandleTextChat(got.n) /\ Same
      BY <2>7 DEF Handle
    <3>2. CASE got.n \in {-1, -2, -3, 0}
      <4>1. Calls(<<Tell("chat", got.n)>>, NextId)
        BY <3>1, <3>2 DEF HandleTextChat
      <4>2. Speech(<<Tell("chat", got.n)>>)
        BY <1>5, Speeches DEF Told
      <4>3. QED
        BY <1>4, <3>1, <4>1, <4>2, CallsOK
    <3>3. CASE got.n \notin {-1, -2, -3, 0}
      <4>1. Reads("chat", got.n, 0) /\ got.n \in Nat
        BY <1>2, <2>7, <3>1, <3>3, ItemIs DEF HandleTextChat
      <4>2. At("chat", got.n, 0) \in Readers
        BY <1>5, <4>1 DEF At, Readers
      <4>3. QED
        BY <1>4, <3>1, <4>1, <4>2, ReadsOK DEF InRect
    <3>4. QED
      BY <3>2, <3>3
  <2>8. CASE got.is = "chat"
    <3>1. Calls(<<Tell("chat", got.n)>>, NextId) /\ Same
      BY <2>8 DEF Handle
    <3>2. Speech(<<Tell("chat", got.n)>>)
      BY <1>5, Speeches DEF Told
    <3>3. QED
      BY <1>4, <3>1, <3>2, CallsOK
  <2>9. CASE got.is = "xvp"
    <3>1. Allows("Xvp") /\ "Xvp" \in offered
      BY <1>2, <2>9 DEF Handle, Honest, Promised
    <3>2. QED
      BY <1>3, <3>1, AllowsOK DEF Extensions
  <2>10. CASE got.is = "resize"
    <3>1. Calls(<<Tell("size", 0)>>, NextId) /\ Same
      BY <2>10 DEF Handle
    <3>2. Speech(<<Tell("size", 0)>>)
      BY Speeches DEF Told
    <3>3. QED
      BY <1>4, <3>1, <3>2, CallsOK
  <2>11. CASE got.is = "monitor"
    <3>1. /\ monitors' = got.n /\ supported' = supported \cup {"SetMonitor"}
          /\ Calls(<<Tell("monitors", got.n)>>, NextId) /\ UNCHANGED <<extClip, led>>
      BY <2>11 DEF Handle, HandleMonitor
    <3>2. "SetMonitor" \in offered /\ got.n \in Nat
      BY <1>2, <1>5, <2>11 DEF Honest, Promised
    <3>3. Speech(<<Tell("monitors", got.n)>>)
      BY <1>5, Speeches DEF Told
    <3>4. KnowsOK'
      BY <1>3, <3>1, <3>2 DEF PromiseInv, KnowsOK, Extensions
    <3>5. QED
      BY <3>1, <3>3, <3>4, CallsOK
  <2>12. CASE got.is \in InRect \ {"rect"}
    <3>1. HandleBody(got)
      BY <2>12 DEF Handle, InRect
    <3>2. QED
      BY <1>2, <1>3, <2>12, <3>1, BodyOK
  <2>13. QED
    BY <1>2, <2>1, <2>2, <2>3, <2>4, <2>5, <2>6, <2>7, <2>8, <2>9, <2>10, <2>11, <2>12, ItemIs DEF InRect
<1>7. ProxyTypeOK'
  BY <1>1 DEF PromiseInv, ProxyTypeOK, proxyVars
<1>8. QED
  BY <1>1, <1>6, <1>7 DEF PromiseInv, serverVars

-----------------------------------------------------------------------------
(* The other steps. *)
LEMMA OtherPromise ==
  ASSUME PromiseInv, \/ ReadCompletes \/ Call \/ Return \/ Close \/ Ends \/ Destroy
         \/ (\E m : m \in offered /\ Sent(m)) \/ UNCHANGED vars
  PROVE  PromiseInv'
<1> USE DEF PromiseInv
<1>1. CASE ReadCompletes
  <2>1. /\ s2c # <<>> /\ Head(s2c).is = reader.at /\ got' = Head(s2c) /\ s2c' = Tail(s2c)
        /\ UNCHANGED <<proxyVars, reader, calls, up, capabilities, told, used, serverVars>>
    BY <1>1 DEF ReadCompletes
  <2>2. Head(s2c) \in Honest(offered) /\ Tail(s2c) \in Seq(Honest(offered))
    BY <2>1, HeadTailProperties
  <2>3. ProxyTypeOK' /\ ReaderOK' /\ KnowsOK'
    BY <2>1 DEF ProxyTypeOK, proxyVars, ReaderOK, KnowsOK, capabilities, serverVars
  <2>4. QED
    BY <2>1, <2>2, <2>3 DEF serverVars
<1>2. CASE Call
  <2>1. /\ calls # <<>> /\ calls' = Tail(calls) /\ Enter(Strand)
        /\ told' = told \/ told' = Append(told, Head(calls))
        /\ UNCHANGED <<s2c, got, reader, up, capabilities, used, serverVars>>
    BY <1>2 DEF Call
  <2>2. Head(calls) \in Callbacks /\ Tail(calls) \in Seq(Callbacks)
    BY <2>1, HeadTailProperties
  <2>3. told' \in Seq(Callbacks)
    <3>1. Append(told, Head(calls)) \in Seq(Callbacks)
      BY <2>2, AppendProperties
    <3>2. QED
      BY <2>1, <3>1
  <2>4. ProxyTypeOK'
    BY <2>1, MessagesAssumption DEF Enter, ProxyTypeOK
  <2>5. ReaderOK' /\ KnowsOK'
    BY <2>1 DEF ReaderOK, KnowsOK, capabilities, serverVars
  <2>6. QED
    BY <2>1, <2>2, <2>3, <2>4, <2>5 DEF serverVars
<1>3. CASE Return
  <2>1. Leave(Strand) /\ UNCHANGED <<s2c, got, reader, calls, up, capabilities, told, used, serverVars>>
    BY <1>3 DEF Return
  <2>2. ProxyTypeOK'
    BY <2>1, MessagesAssumption DEF Leave, ProxyTypeOK
  <2>3. ReaderOK' /\ KnowsOK'
    BY <2>1 DEF ReaderOK, KnowsOK, capabilities, serverVars
  <2>4. QED
    BY <2>1, <2>2, <2>3 DEF serverVars
<1>4. Speech(<<Tell("status", 0)>>) /\ Speech(<<Tell("disconnect", 0)>>)
  BY Speeches DEF Told
<1>5. ASSUME Forgets, UNCHANGED offered PROVE KnowsOK'
  <2>1. led' = 0 /\ monitors' = 0 /\ supported' = supported /\ ~extClip'
    BY <1>5 DEF Forgets
  <2>2. extClip' \in BOOLEAN
    BY <1>5, Zenon DEF Forgets
  <2>3. QED
    BY <1>5, <2>1, <2>2 DEF KnowsOK
<1>6. CASE Close
  <2>1. /\ up' = "closed" /\ calls' = <<Tell("status", 0)>> \o calls /\ Forgets
        /\ UNCHANGED <<proxyVars, s2c, got, reader, told, used, serverVars>>
    BY <1>6 DEF Close
  <2>2. calls' \in Seq(Callbacks)
    BY <1>4, <2>1, SpeechesJoin DEF Speech
  <2>3. ProxyTypeOK' /\ ReaderOK'
    BY <2>1 DEF ProxyTypeOK, proxyVars, ReaderOK
  <2>4. QED
    BY <1>5, <2>1, <2>2, <2>3 DEF serverVars
<1>7. CASE Ends
  <2>1. /\ up' = "ended" /\ UNCHANGED <<proxyVars, s2c, got, reader, told, used, serverVars>>
        /\ \/ Forgets /\ calls' = <<Tell("status", 0), Tell("disconnect", 0)>>
           \/ Same /\ calls' = <<Tell("disconnect", 0)>>
    BY <1>7 DEF Ends
  <2>2. <<Tell("status", 0), Tell("disconnect", 0)>> \in Seq(Callbacks)
    <3>1. Tell("status", 0) \in Callbacks /\ Tell("disconnect", 0) \in Callbacks
      BY DEF Tell, Callbacks
    <3>2. QED
      BY <3>1
  <2>3. calls' \in Seq(Callbacks)
    BY <1>4, <2>1, <2>2 DEF Speech
  <2>4. KnowsOK'
    BY <1>5, <2>1 DEF Same, capabilities, KnowsOK, serverVars
  <2>5. ProxyTypeOK' /\ ReaderOK'
    BY <2>1 DEF ProxyTypeOK, proxyVars, ReaderOK
  <2>6. QED
    BY <2>1, <2>3, <2>4, <2>5 DEF serverVars
<1>8. CASE Destroy
  <2>1. (BeginReset \/ Reset) /\ UNCHANGED <<s2c, got, reader, calls, up, capabilities, told, used, serverVars>>
    BY <1>8 DEF Destroy
  <2>2. ProxyTypeOK'
    BY <2>1 DEF BeginReset, Reset, ProxyTypeOK
  <2>3. ReaderOK' /\ KnowsOK'
    BY <2>1 DEF ReaderOK, KnowsOK, capabilities, serverVars
  <2>4. QED
    BY <2>1, <2>2, <2>3 DEF serverVars
<1>9. CASE \E m : m \in offered /\ Sent(m)
  <2>1. PICK m : /\ m \in offered /\ used' = used \cup {m}
                 /\ UNCHANGED <<proxyVars, s2c, got, reader, calls, up, capabilities, told, serverVars>>
    BY <1>9 DEF Sent
  <2>2. ProxyTypeOK' /\ ReaderOK' /\ KnowsOK'
    BY <2>1 DEF ProxyTypeOK, proxyVars, ReaderOK, KnowsOK, capabilities, serverVars
  <2>3. QED
    BY <2>1, <2>2 DEF serverVars
<1>10. CASE UNCHANGED vars
  <2>1. ProxyTypeOK' /\ ReaderOK' /\ KnowsOK'
    BY <1>10 DEF ProxyTypeOK, proxyVars, ReaderOK, KnowsOK, vars
  <2>2. QED
    BY <1>10, <2>1 DEF vars
<1>11. QED
  BY <1>1, <1>2, <1>3, <1>6, <1>7, <1>8, <1>9, <1>10

(* A session just begun knows of no more than is on offer. *)
LEMMA InitPromise == ASSUME Init PROVE PromiseInv
<1>1. ProxyTypeOK
  BY DEF Init, ProxyInit, ProxyTypeOK
<1>2. ReaderOK
  BY DEF Init, ReaderOK, NextId, At, Readers, InRect
<1>3. KnowsOK
  BY DEF Init, KnowsOK, Extensions
<1>4. s2c \in Seq(Honest(offered)) /\ calls \in Seq(Callbacks) /\ told \in Seq(Callbacks) /\ meant \in Seq(Callbacks)
  BY EmptySeq DEF Init
<1>5. QED
  BY <1>1, <1>2, <1>3, <1>4 DEF Init, PromiseInv

(* The invariant is inductive. *)
LEMMA NextPromise == PromiseInv /\ [Next]_vars => PromiseInv'
<1> SUFFICES ASSUME PromiseInv, [Next]_vars PROVE PromiseInv'
  OBVIOUS
<1>1. (\E m \in Extensions \ {"KeepAlive"} : SendExtension(m)) \/ SendCutTextUtf8 \/ KeepAliveTick
        => \E m : m \in offered /\ Sent(m)
  BY DEF SendExtension, SendCutTextUtf8, KeepAliveTick, PromiseInv, KnowsOK
<1>2. StrandStep => Handle \/ Call \/ Return \/ Ends
  BY DEF StrandStep
<1>3. StopInCallback \/ PostedStop => Close
  BY DEF StopInCallback, PostedStop
<1>4. QED
  BY <1>1, <1>2, <1>3, SendPromise, HandlePromise, OtherPromise, Zenon DEF Next

(* In every session the client's knowledge of what the server takes is true, and
   so is what is still under way: handlers only note what was announced. *)
THEOREM AlwaysPromised == Spec => []PromiseInv
BY InitPromise, NextPromise, PTL DEF Spec

(* The session's state has its types; an item's length, a count of rectangles
   or of screens never runs below zero. *)
THEOREM SessionTypeCorrect == Spec => []TypeOK
<1>1. PromiseInv => TypeOK
  BY DEF PromiseInv, ReaderOK, Readers, InRect, KnowsOK, TypeOK
<1>2. QED
  BY AlwaysPromised, <1>1, PTL

(* Whatever the server sends and in whatever order, the client sends it only
   those extensions it has announced: send_msg_to_server_buffers and the
   keep-alive loop ask the list that the handlers have kept. *)
THEOREM OnlyWhatIsOffered == Spec => []UsesWhatIsOffered
<1>1. PromiseInv => UsesWhatIsOffered
  BY DEF PromiseInv, UsesWhatIsOffered
<1>2. QED
  BY AlwaysPromised, <1>1, PTL

-----------------------------------------------------------------------------
(* From here on: that the client reads and tells what the server says. *)

(* What is said first of what is said in all. *)
Prefixed(a, b) == a \in Seq(Callbacks) /\ b \in Seq(Callbacks) /\ \E c \in Seq(Callbacks) : b = a \o c

(* A speech is the first of what it is continued to. *)
LEMMA PrefixAdds == ASSUME NEW a, NEW b, Speech(a), Speech(b) PROVE Prefixed(a, a \o b)
<1>1. a \o b \in Seq(Callbacks)
  BY ConcatProperties DEF Speech
<1>2. QED
  BY <1>1 DEF Prefixed, Speech

(* And of itself. *)
LEMMA PrefixSelf == ASSUME NEW a, Speech(a) PROVE Prefixed(a, a)
<1>1. a \o <<>> = a /\ <<>> \in Seq(Callbacks)
  BY ConcatEmptySeq, EmptySeq DEF Speech
<1>2. QED
  BY <1>1 DEF Prefixed, Speech

(* What is first of a first part is first of the whole. *)
LEMMA PrefixJoins == ASSUME NEW a, NEW b, NEW c, Prefixed(a, b), Prefixed(b, c) PROVE Prefixed(a, c)
<1>1. PICK d \in Seq(Callbacks) : b = a \o d
  BY DEF Prefixed
<1>2. PICK e \in Seq(Callbacks) : c = b \o e
  BY DEF Prefixed
<1>3. a \in Seq(Callbacks) /\ c \in Seq(Callbacks)
  BY DEF Prefixed
<1>4. d \o e \in Seq(Callbacks) /\ (a \o d) \o e = a \o (d \o e)
  BY <1>3, ConcatProperties, ConcatAssociative
<1>5. QED
  BY <1>1, <1>2, <1>3, <1>4 DEF Prefixed

(* Both are speeches. *)
LEMMA PrefixTyped == ASSUME NEW a, NEW b, Prefixed(a, b) PROVE Speech(a) /\ Speech(b)
BY DEF Prefixed, Speech

(* In the library's words. *)
LEMMA PrefixIs == ASSUME NEW a, NEW b, Prefixed(a, b) PROVE IsPrefix(a, b)
<1>1. PICK c \in Seq(Callbacks) : b = a \o c
  BY DEF Prefixed
<1>2. a \in Seq(Callbacks) /\ b \in Seq(Callbacks)
  BY DEF Prefixed
<1>3. Len(a) \in Nat /\ Len(c) \in Nat /\ Len(b) = Len(a) + Len(c) /\ \A i \in 1 .. Len(a) : b[i] = a[i]
  BY <1>1, <1>2, ConcatProperties, LenProperties
<1>4. SubSeq(a, 1, Len(a)) = SubSeq(b, 1, Len(a))
  BY <1>3
<1>5. QED
  BY <1>3, <1>4 DEF IsPrefix

-----------------------------------------------------------------------------
(* The keyboard's state that was told last. *)
NoLed(c) == \A i \in DOMAIN c : c[i].to # "led"
LastLeds(c) == {i \in DOMAIN c : c[i].to = "led" /\ \A j \in DOMAIN c : c[j].to = "led" => j <= i}

(* Where it stands in what was said. *)
LEMMA LastLedIs == ASSUME NEW c PROVE LastLed(c) = IF LastLeds(c) = {} THEN 0 ELSE c[CHOOSE i \in LastLeds(c) : TRUE].n
BY Zenon DEF LastLed, LastLeds

(* What is not about the keyboard leaves it. *)
LEMMA NoLedAfter ==
  ASSUME NEW c, NEW d, Speech(c), Speech(d), NoLed(d)
  PROVE  LastLed(c \o d) = LastLed(c)
<1>1. /\ DOMAIN c = 1 .. Len(c) /\ DOMAIN d = 1 .. Len(d) /\ Len(c) \in Nat /\ Len(d) \in Nat
      /\ DOMAIN (c \o d) = 1 .. Len(c) + Len(d)
      /\ \A i \in 1 .. Len(c) : (c \o d)[i] = c[i]
      /\ \A i \in Len(c) + 1 .. Len(c) + Len(d) : (c \o d)[i] = d[i - Len(c)]
  BY ConcatProperties, LenProperties DEF Speech
<1>2. PICK e : e = c \o d
  OBVIOUS
<1>3. \A i \in DOMAIN e : e[i].to = "led" <=> (i \in DOMAIN c /\ c[i].to = "led")
  <2>1. \A i \in 1 .. Len(c) : e[i] = c[i]
    BY <1>1, <1>2
  <2>2. \A i \in Len(c) + 1 .. Len(c) + Len(d) : e[i].to # "led"
    <3>1. ASSUME NEW i \in Len(c) + 1 .. Len(c) + Len(d) PROVE e[i].to # "led"
      <4>1. i - Len(c) \in 1 .. Len(d) /\ e[i] = d[i - Len(c)]
        BY <1>1, <1>2
      <4>2. QED
        BY <1>1, <4>1 DEF NoLed
    <3>2. QED
      BY <3>1
  <2>3. QED
    BY <1>1, <1>2, <2>1, <2>2
<1>4. DOMAIN c \subseteq DOMAIN e
  BY <1>1, <1>2
<1>5. LastLeds(e) = LastLeds(c)
  BY <1>3, <1>4 DEF LastLeds
<1>6. ASSUME LastLeds(c) # {} PROVE e[CHOOSE i \in LastLeds(c) : TRUE].n = c[CHOOSE i \in LastLeds(c) : TRUE].n
  <2>1. PICK k : k = CHOOSE i \in LastLeds(c) : TRUE
    OBVIOUS
  <2>2. k \in LastLeds(c)
    BY <1>6, <2>1
  <2>3. k \in 1 .. Len(c)
    BY <1>1, <2>2 DEF LastLeds
  <2>4. e[k] = c[k]
    BY <1>1, <1>2, <2>3
  <2>5. QED
    BY <2>1, <2>4
<1>7. QED
  BY <1>2, <1>5, <1>6, LastLedIs

(* What is, replaces it. *)
LEMMA LedAfter ==
  ASSUME NEW c, NEW n, Speech(c), Tell("led", n) \in Callbacks
  PROVE  LastLed(c \o <<Tell("led", n)>>) = n
<1>1. /\ DOMAIN c = 1 .. Len(c) /\ Len(c) \in Nat
  BY LenProperties DEF Speech
<1>2. PICK e : e = c \o <<Tell("led", n)>>
  OBVIOUS
<1>3. e = Append(c, Tell("led", n))
  BY <1>2 DEF Speech
<1>4. DOMAIN e = 1 .. Len(c) + 1 /\ e[Len(c) + 1] = Tell("led", n)
  BY <1>1, <1>3 DEF Speech
<1>5. LastLeds(e) = {Len(c) + 1}
  BY <1>1, <1>4 DEF LastLeds, Tell
<1>6. \A k : (CHOOSE i \in {k} : TRUE) = k
  OBVIOUS
<1>7. LastLed(e) = e[Len(c) + 1].n
  BY <1>5, <1>6, LastLedIs
<1>8. QED
  BY <1>2, <1>4, <1>7 DEF Tell

-----------------------------------------------------------------------------
(* The client as a function of what it reads: what it reads next, and what it
   tells meanwhile. *)
RectDone(left) == IF left > 0 THEN At("rect", 0, left) ELSE NextId
RectSaid(left, cs) == IF left > 0 THEN cs ELSE cs \o <<Tell("update", 0)>>

IdNext(kind) ==
  CASE kind = "FramebufferUpdate" -> At("update", 0, 0)
    [] kind = "ServerCutText" -> At("cutText", 0, 0)
    [] kind = "TextChat" -> At("textChat", 0, 0)
    [] kind = "Xvp" -> At("xvp", 0, 0)
    [] kind = "MonitorInfo" -> At("monitor", 0, 0)
    [] kind \in {"ResizeFrameBuffer", "PalmVNCReSizeFrameBuffer"} -> At("resize", 0, 0)
    [] OTHER -> NextId

RectNext(left, kind, n) ==
  CASE kind = "last" -> NextId
    [] kind \in {"led", "position", "newSize"} -> RectDone(left - 1)
    [] kind \in {"identity", "encodings"} /\ n = 0 -> RectDone(left - 1)
    [] OTHER -> At(kind, n, left)

RectTells(l, left, kind, n) ==
  CASE kind = "last" -> RectSaid(0, <<>>)
    [] kind = "led" -> RectSaid(left - 1, IF n = l THEN <<>> ELSE <<Tell("led", n)>>)
    [] kind = "position" -> RectSaid(left - 1, <<Tell("position", 0)>>)
    [] kind = "newSize" -> RectSaid(left - 1, <<Tell("size", 0)>>)
    [] kind \in {"identity", "encodings"} /\ n = 0 -> RectSaid(left - 1, <<>>)
    [] OTHER -> <<>>

(* The screens still to be read. *)
ScreensLeft(r, g) == CASE g.is = "screens" -> g.n [] g.is = "screen" -> r.n - 1 [] OTHER -> 0

NextReader(r, g) ==
  CASE g.is = "id" -> IdNext(g.val)
    [] g.is = "update" -> RectDone(g.n)
    [] g.is = "rect" -> RectNext(r.left, g.val, g.n)
    [] g.is = "cutText" -> (CASE g.n > 0 -> At("text", g.n, 0) [] g.n = 0 -> NextId [] OTHER -> At("flagged", -g.n, 0))
    [] g.is = "textChat" -> IF g.n \in {-1, -2, -3, 0} THEN NextId ELSE At("chat", g.n, 0)
    [] g.is \in {"text", "flagged", "chat", "xvp", "resize", "monitor"} -> NextId
    [] OTHER -> IF ScreensLeft(r, g) > 0 THEN At("screen", ScreensLeft(r, g), r.left) ELSE RectDone(r.left - 1)

Tells(l, r, g) ==
  CASE g.is = "id" -> (IF g.val = "Bell" THEN <<Tell("bell", 0)>> ELSE <<>>)
    [] g.is = "update" -> RectSaid(g.n, <<>>)
    [] g.is = "rect" -> RectTells(l, r.left, g.val, g.n)
    [] g.is = "text" -> <<Tell("cut", g.n)>>
    [] g.is = "flagged" -> (IF g.set = {"text", "provide"} THEN <<Tell("cutUtf8", g.n)>> ELSE <<>>)
    [] g.is = "textChat" -> (IF g.n \in {-1, -2, -3, 0} THEN <<Tell("chat", g.n)>> ELSE <<>>)
    [] g.is = "chat" -> <<Tell("chat", g.n)>>
    [] g.is = "resize" -> <<Tell("size", 0)>>
    [] g.is = "monitor" -> <<Tell("monitors", g.n)>>
    [] g.is \in {"cutText", "xvp"} -> <<>>
    [] OTHER -> IF ScreensLeft(r, g) > 0 THEN <<>> ELSE RectSaid(r.left - 1, <<>>)

(* Handlers do as these functions say. *)
LEMMA HandlesId ==
  ASSUME NEW kind \in Ids, HandleId(kind)
  PROVE  reader' = IdNext(kind) /\ calls' = IF kind = "Bell" THEN <<Tell("bell", 0)>> ELSE <<>>
BY DEF HandleId, IdNext, Ids, Reads, Calls, Allows

(* At a rectangle's end. *)
LEMMA HandlesNext ==
  ASSUME NEW left, NEW cs, NextRect(left, cs)
  PROVE  reader' = RectDone(left) /\ calls' = RectSaid(left, cs)
BY Zenon DEF NextRect, Calls, RectDone, RectSaid

(* At a rectangle's header. *)
LEMMA HandlesRect ==
  ASSUME NEW kind \in RectKinds, NEW n \in Nat, HandleRect(kind, n)
  PROVE  reader' = RectNext(reader.left, kind, n) /\ calls' = RectTells(led, reader.left, kind, n)
<1> DEFINE l == reader.left - 1
<1>1. CASE kind = "last"
  <2>1. NextRect(0, <<>>)
    BY <1>1 DEF HandleRect
  <2>2. reader' = RectDone(0) /\ calls' = RectSaid(0, <<>>)
    BY <2>1, HandlesNext, Zenon
  <2>3. RectDone(0) = NextId
    BY DEF RectDone
  <2>4. QED
    BY <1>1, <2>2, <2>3 DEF RectNext, RectTells
<1>2. CASE kind = "led"
  <2>1. NextRect(l, IF n = led THEN <<>> ELSE <<Tell("led", n)>>)
    BY <1>2 DEF HandleRect, HandleLed
  <2>2. reader' = RectDone(l) /\ calls' = RectSaid(l, IF n = led THEN <<>> ELSE <<Tell("led", n)>>)
    BY <2>1, HandlesNext, Zenon
  <2>3. QED
    BY <1>2, <2>2 DEF RectNext, RectTells
<1>3. CASE kind = "position"
  <2>1. NextRect(l, <<Tell("position", 0)>>)
    BY <1>3 DEF HandleRect, HandlePosition
  <2>2. reader' = RectDone(l) /\ calls' = RectSaid(l, <<Tell("position", 0)>>)
    BY <2>1, HandlesNext, Zenon
  <2>3. QED
    BY <1>3, <2>2 DEF RectNext, RectTells
<1>4. CASE kind = "newSize"
  <2>1. NextRect(l, <<Tell("size", 0)>>)
    BY <1>4 DEF HandleRect, HandleNewSize
  <2>2. reader' = RectDone(l) /\ calls' = RectSaid(l, <<Tell("size", 0)>>)
    BY <2>1, HandlesNext, Zenon
  <2>3. QED
    BY <1>4, <2>2 DEF RectNext, RectTells
<1>5. CASE kind \in {"identity", "encodings"} /\ n = 0
  <2>1. NextRect(l, <<>>)
    BY <1>5 DEF HandleRect, HandleUnused
  <2>2. reader' = RectDone(l) /\ calls' = RectSaid(l, <<>>)
    BY <2>1, HandlesNext, Zenon
  <2>3. QED
    BY <1>5, <2>2 DEF RectNext, RectTells
<1>6. CASE kind \in {"identity", "encodings"} /\ n # 0
  <2>1. Reads(kind, n, reader.left)
    BY <1>6 DEF HandleRect, HandleUnused
  <2>2. QED
    BY <1>6, <2>1 DEF RectNext, RectTells, Reads, Calls
<1>7. CASE kind \in {"messages", "screens", "pixels"}
  <2>1. Reads(kind, n, reader.left)
    BY <1>7 DEF HandleRect
  <2>2. QED
    BY <1>7, <2>1 DEF RectNext, RectTells, Reads, Calls
<1>8. QED
  BY <1>1, <1>2, <1>3, <1>4, <1>5, <1>6, <1>7 DEF RectKinds

(* At what follows it. *)
LEMMA HandlesBody ==
  ASSUME NEW g, g.is \in InRect \ {"rect"}, HandleBody(g)
  PROVE  reader' = NextReader(reader, g) /\ calls' = Tells(led, reader, g)
<1> DEFINE l == reader.left - 1
<1>1. PICK m : m = ScreensLeft(reader, g)
  OBVIOUS
<1>2. CASE g.is \in InRect \ {"rect", "screens", "screen"}
  <2>1. NextRect(l, <<>>)
    BY <1>2 DEF HandleBody, HandleList, InRect
  <2>2. reader' = RectDone(l) /\ calls' = RectSaid(l, <<>>)
    BY <2>1, HandlesNext, Zenon
  <2>3. m = 0
    BY <1>1, <1>2 DEF ScreensLeft
  <2>4. NextReader(reader, g) = RectDone(l) /\ Tells(led, reader, g) = RectSaid(l, <<>>)
    BY <1>1, <1>2, <2>3 DEF NextReader, Tells, InRect
  <2>5. QED
    BY <2>2, <2>4
<1>3. CASE g.is \in {"screens", "screen"}
  <2>1. HandleScreens(m)
    BY <1>1, <1>3 DEF HandleBody, ScreensLeft
  <2>2. NextReader(reader, g) = (IF m > 0 THEN At("screen", m, reader.left) ELSE RectDone(l))
        /\ Tells(led, reader, g) = (IF m > 0 THEN <<>> ELSE RectSaid(l, <<>>))
    BY <1>1, <1>3 DEF NextReader, Tells
  <2>3. CASE m > 0
    BY <2>1, <2>2, <2>3 DEF HandleScreens, Reads, Calls
  <2>4. CASE ~(m > 0)
    <3>1. NextRect(l, <<>>)
      BY <2>1, <2>4 DEF HandleScreens
    <3>2. reader' = RectDone(l) /\ calls' = RectSaid(l, <<>>)
      BY <3>1, HandlesNext, Zenon
    <3>3. QED
      BY <2>2, <2>4, <3>2
  <2>5. QED
    BY <2>3, <2>4
<1>4. QED
  BY <1>2, <1>3

(* At every item. *)
LEMMA HandlesAll ==
  ASSUME PromiseInv, Handle
  PROVE  reader' = NextReader(reader, got) /\ calls' = Tells(led, reader, got)
<1>1. got \in Honest(offered)
  <2>1. got.is # "none" /\ None.is = "none"
    BY DEF Handle, None, Item
  <2>2. QED
    BY <2>1 DEF PromiseInv
<1>2. PICK g : g = got
  OBVIOUS
<1>3. g.n \in Int
  BY <1>1, <1>2, ItemIs
<1>4. CASE g.is = "id"
  <2>1. HandleId(g.val) /\ g.val \in Ids
    BY <1>1, <1>2, <1>4, ItemIs DEF Handle
  <2>2. QED
    BY <1>2, <1>4, <2>1, HandlesId DEF NextReader, Tells
<1>5. CASE g.is = "update"
  <2>1. NextRect(g.n, <<>>)
    BY <1>2, <1>5 DEF Handle
  <2>2. reader' = RectDone(g.n) /\ calls' = RectSaid(g.n, <<>>)
    BY <2>1, HandlesNext, Zenon
  <2>3. QED
    BY <1>2, <1>5, <2>2 DEF NextReader, Tells
<1>6. CASE g.is = "rect"
  <2>1. HandleRect(g.val, g.n) /\ g.val \in RectKinds /\ g.n \in Nat
    BY <1>1, <1>2, <1>6, ItemIs DEF Handle
  <2>2. QED
    BY <1>2, <1>6, <2>1, HandlesRect DEF NextReader, Tells
<1>7. CASE g.is = "cutText"
  <2>1. HandleCutText(g.n)
    BY <1>2, <1>7 DEF Handle
  <2>2. QED
    BY <1>2, <1>3, <1>7, <2>1 DEF NextReader, Tells, HandleCutText, Reads, Calls
<1>8. CASE g.is = "text"
  BY <1>2, <1>8 DEF Handle, NextReader, Tells, Calls
<1>9. CASE g.is = "flagged"
  BY <1>2, <1>9 DEF Handle, HandleFlagged, NextReader, Tells, Calls
<1>10. CASE g.is = "textChat"
  BY <1>2, <1>3, <1>10 DEF Handle, HandleTextChat, NextReader, Tells, Reads, Calls
<1>11. CASE g.is = "chat"
  BY <1>2, <1>11 DEF Handle, NextReader, Tells, Calls
<1>12. CASE g.is = "xvp"
  BY <1>2, <1>12 DEF Handle, NextReader, Tells, Allows, Calls
<1>13. CASE g.is = "resize"
  BY <1>2, <1>13 DEF Handle, NextReader, Tells, Calls
<1>14. CASE g.is = "monitor"
  BY <1>2, <1>14 DEF Handle, HandleMonitor, NextReader, Tells, Calls
<1>15. CASE g.is \in InRect \ {"rect"}
  <2>1. HandleBody(g)
    BY <1>2, <1>15 DEF Handle, InRect
  <2>2. QED
    BY <1>2, <1>15, <2>1, HandlesBody
<1>16. QED
  BY <1>1, <1>2, <1>4, <1>5, <1>6, <1>7, <1>8, <1>9, <1>10, <1>11, <1>12, <1>13, <1>14, <1>15, ItemIs DEF InRect

-----------------------------------------------------------------------------
(* A reader that has told so much goes, item by item, to another. *)
St(r, c) == <<r, c>>
Fits(r, i) ==
  i.is = r.at /\ (r.at \in {"text", "flagged", "chat", "identity", "encodings"} => i.n = r.n)
After(s, i) == St(NextReader(s[1], i), s[2] \o Tells(LastLed(s[2]), s[1], i))
Step(s, i, t) == Fits(s[1], i) /\ t = After(s, i)
ToldFirst(s, t) == Prefixed(s[2], t[2])
Path(p, s, items, t) ==
  /\ p[0] = s /\ p[Len(items)] = t
  /\ \A k \in 1 .. Len(items) : Step(p[k - 1], items[k], p[k])
  /\ \A k \in 0 .. Len(items) : ToldFirst(p[k], t)
Leads(s, items, t) == \E p : Path(p, s, items, t)

(* With nothing to read the client stays where it is. *)
LEMMA LeadsNowhere == ASSUME NEW s, NEW t, Leads(s, <<>>, t) PROVE s = t
BY DEF Leads, Path

(* What it has told is the first of what it will have told. *)
LEMMA LeadsPrefix == ASSUME NEW s, NEW items, NEW t, Len(items) \in Nat, Leads(s, items, t) PROVE ToldFirst(s, t)
BY DEF Leads, Path

(* Nothing leads where it is. *)
LEMMA LeadsStays == ASSUME NEW s, ToldFirst(s, s) PROVE Leads(s, <<>>, s)
<1> DEFINE p == [k \in {0} |-> s]
<1>1. Path(p, s, <<>>, s)
  BY DEF Path
<1>2. QED
  BY <1>1 DEF Leads

(* One item leads as far as one step. *)
LEMMA LeadsOne ==
  ASSUME NEW s, NEW i, NEW t, Step(s, i, t), ToldFirst(s, t), ToldFirst(t, t)
  PROVE  Leads(s, <<i>>, t)
<1> DEFINE p == [k \in 0 .. 1 |-> IF k = 0 THEN s ELSE t]
<1>1. p[0] = s /\ p[1] = t /\ Len(<<i>>) = 1 /\ <<i>>[1] = i
  OBVIOUS
<1> HIDE DEF p
<1>2. Path(p, s, <<i>>, t)
  BY <1>1 DEF Path
<1>3. QED
  BY <1>2 DEF Leads

(* A path is followed one item at a time, and its first item fits. *)
LEMMA LeadsOn ==
  ASSUME NEW s, NEW S, NEW items \in Seq(S), NEW t, items # <<>>, Leads(s, items, t)
  PROVE  Fits(s[1], Head(items)) /\ Leads(After(s, Head(items)), Tail(items), t)
<1>1. PICK p : Path(p, s, items, t)
  BY DEF Leads
<1> DEFINE m == Len(items) - 1
           q == [k \in 0 .. m |-> p[k + 1]]
<1>2. m \in Nat /\ Len(items) = m + 1 /\ Len(Tail(items)) = m /\ \A k \in 1 .. m : Tail(items)[k] = items[k + 1]
  BY HeadTailProperties, EmptySeq
<1>3. Head(items) = items[1]
  BY <1>2
<1>4. \A k \in 0 .. m : q[k] = p[k + 1]
  OBVIOUS
<1> HIDE DEF m, q
<1>5. Step(s, items[1], p[1])
  BY <1>1, <1>2 DEF Path
<1>6. ASSUME NEW k \in 1 .. m PROVE Step(q[k - 1], Tail(items)[k], q[k])
  <2>1. k + 1 \in 1 .. Len(items) /\ k - 1 \in 0 .. m /\ (k - 1) + 1 = k /\ (k + 1) - 1 = k
    BY <1>2
  <2>2. Step(p[k], items[k + 1], p[k + 1])
    BY <1>1, <2>1 DEF Path
  <2>3. q[k - 1] = p[k] /\ q[k] = p[k + 1] /\ Tail(items)[k] = items[k + 1]
    BY <1>2, <1>4, <2>1
  <2>4. QED
    BY <2>2, <2>3
<1>7. ASSUME NEW k \in 0 .. m PROVE ToldFirst(q[k], t)
  BY <1>1, <1>2, <1>4 DEF Path
<1>8. q[0] = p[1] /\ q[m] = t
  BY <1>1, <1>2, <1>4 DEF Path
<1>9. Path(q, p[1], Tail(items), t)
  BY <1>2, <1>6, <1>7, <1>8 DEF Path
<1>10. p[1] = After(s, items[1]) /\ Fits(s[1], items[1])
  BY <1>5 DEF Step
<1>11. QED
  BY <1>3, <1>9, <1>10 DEF Leads

(* What is told first stays first. *)
LEMMA ToldJoins == ASSUME NEW s, NEW t, NEW u, ToldFirst(s, t), ToldFirst(t, u) PROVE ToldFirst(s, u)
BY PrefixJoins, Zenon DEF ToldFirst

(* Two paths are one. *)
LEMMA LeadsJoins ==
  ASSUME NEW S, NEW a \in Seq(S), NEW b \in Seq(S), NEW s, NEW t, NEW u, Leads(s, a, t), Leads(t, b, u)
  PROVE  Leads(s, a \o b, u)
<1>1. PICK p : Path(p, s, a, t)
  BY DEF Leads
<1>2. PICK q : Path(q, t, b, u)
  BY DEF Leads
<1>3. /\ Len(a) \in Nat /\ Len(b) \in Nat /\ Len(a \o b) = Len(a) + Len(b)
      /\ \A k \in 1 .. Len(a) : (a \o b)[k] = a[k]
      /\ \A k \in Len(a) + 1 .. Len(a) + Len(b) : (a \o b)[k] = b[k - Len(a)]
  BY ConcatProperties, LenProperties
<1>4. PICK m : m = Len(a)
  OBVIOUS
<1>5. PICK n : n = Len(b)
  OBVIOUS
<1>6. PICK c : c = a \o b
  OBVIOUS
<1> DEFINE r == [k \in 0 .. m + n |-> IF k <= m THEN p[k] ELSE q[k - m]]
<1>7. (\A k \in 0 .. m : r[k] = p[k]) /\ \A k \in m + 1 .. m + n : r[k] = q[k - m]
  BY <1>3, <1>4, <1>5
<1> HIDE DEF r
<1>8. p[m] = t /\ q[0] = t /\ p[0] = s /\ q[n] = u
  BY <1>1, <1>2, <1>4, <1>5 DEF Path
<1>9. \A k \in 0 .. n : r[m + k] = q[k]
  <2>1. ASSUME NEW k \in 0 .. n PROVE r[m + k] = q[k]
    <3>1. CASE k = 0
      BY <1>3, <1>4, <1>7, <1>8, <3>1
    <3>2. CASE k # 0
      <4>1. m + k \in m + 1 .. m + n /\ (m + k) - m = k
        BY <1>3, <1>4, <1>5, <3>2
      <4>2. r[m + k] = q[(m + k) - m]
        BY <1>7, <4>1
      <4>3. QED
        BY <4>1, <4>2
    <3>3. QED
      BY <3>1, <3>2
  <2>2. QED
    BY <2>1
<1>10. ASSUME NEW k \in 1 .. m + n PROVE Step(r[k - 1], c[k], r[k])
  <2>1. CASE k <= m
    <3>1. r[k - 1] = p[k - 1] /\ r[k] = p[k] /\ c[k] = a[k]
      BY <1>3, <1>4, <1>5, <1>6, <1>7, <2>1
    <3>2. Step(p[k - 1], a[k], p[k])
      BY <1>1, <1>3, <1>4, <2>1 DEF Path
    <3>3. QED
      BY <3>1, <3>2
  <2>2. CASE ~(k <= m)
    <3>1. PICK j \in 1 .. n : j = k - m /\ k = m + j
      BY <1>3, <1>4, <1>5, <2>2
    <3>2. Step(q[j - 1], b[j], q[j])
      BY <1>2, <1>5, <3>1 DEF Path
    <3>3. c[k] = b[j]
      BY <1>3, <1>4, <1>5, <1>6, <3>1
    <3>4. r[k] = q[j]
      BY <1>9, <3>1
    <3>5. j - 1 \in 0 .. n /\ k - 1 = m + (j - 1)
      BY <1>3, <1>4, <1>5, <3>1
    <3>6. r[k - 1] = q[j - 1]
      BY <1>9, <3>5
    <3>7. QED
      BY <3>2, <3>3, <3>4, <3>6
  <2>3. QED
    BY <2>1, <2>2
<1>11. ASSUME NEW k \in 0 .. m + n PROVE ToldFirst(r[k], u)
  <2>1. CASE k <= m
    <3>1. r[k] = p[k] /\ ToldFirst(p[k], t)
      BY <1>1, <1>3, <1>4, <1>5, <1>7, <2>1 DEF Path
    <3>2. ToldFirst(t, u)
      BY <1>2, <1>3, <1>8 DEF Path
    <3>3. QED
      BY <3>1, <3>2, ToldJoins
  <2>2. CASE ~(k <= m)
    <3>1. PICK j \in 0 .. n : k = m + j
      <4>1. k - m \in 0 .. n
        BY <1>3, <1>4, <1>5, <2>2
      <4>2. k = m + (k - m)
        BY <1>3, <1>4, <1>5
      <4>3. QED
        BY <4>1, <4>2
    <3>2. r[k] = q[j] /\ ToldFirst(q[j], u)
      BY <1>2, <1>5, <1>9, <3>1 DEF Path
    <3>3. QED
      BY <3>2
  <2>3. QED
    BY <2>1, <2>2
<1>12. r[0] = s /\ r[m + n] = u
  BY <1>3, <1>4, <1>5, <1>7, <1>8, <1>9
<1>13. Path(r, s, c, u)
  BY <1>3, <1>4, <1>5, <1>6, <1>10, <1>11, <1>12 DEF Path
<1>14. QED
  BY <1>6, <1>13 DEF Leads

-----------------------------------------------------------------------------
(* What the server writes is read and told as it is meant. *)
All == Extensions \cup {"ExtendedCutText"}
Carries(r, c, items, r2, c2) ==
  Batch(items, All) /\ Speech(c) /\ Speech(c2) /\ Leads(St(r, c), items, St(r2, c2))

(* Every item is honest to a client that may send anything. *)
LEMMA AllHonest ==
  /\ \A k \in Ids : Id(k) \in Honest(All)
  /\ \A k \in RectKinds, n \in Nat : Item("rect", n, k) \in Honest(All)
  /\ \A n \in Int : Item("cutText", n, "") \in Honest(All)
  /\ \A n \in Nat \cup {-1, -2, -3} : Item("textChat", n, "") \in Honest(All)
  /\ \A k \in {"update", "text", "chat", "resize", "identity", "encodings", "pixels", "screens", "screen", "xvp", "monitor"},
        n \in Nat : Item(k, n, "") \in Honest(All)
  /\ \A list \in SUBSET Extensions : SetItem("messages", 0, list) \in Honest(All)
  /\ \A n \in Nat, flags \in SUBSET Flags : SetItem("flagged", n, flags) \in Honest(All)
<1>1. {"SetDesktopSize", "Xvp", "SetMonitor", "KeepAlive", "ExtendedCutText"} \subseteq All /\ Extensions \subseteq All
  BY DEF All, Extensions
<1> USE DEF Honest, Promised, Items, Id, Item, SetItem
<1>2. \A k \in Ids : Id(k) \in Honest(All)
  BY <1>1
<1>3. \A k \in RectKinds, n \in Nat : Item("rect", n, k) \in Honest(All)
  BY <1>1
<1>4. \A n \in Int : Item("cutText", n, "") \in Honest(All)
  BY <1>1
<1>5. \A n \in Nat \cup {-1, -2, -3} : Item("textChat", n, "") \in Honest(All)
  BY <1>1
<1>6. \A k \in {"update", "text", "chat", "resize", "identity", "encodings", "pixels", "screens", "screen", "xvp", "monitor"},
        n \in Nat : Item(k, n, "") \in Honest(All)
  BY <1>1
<1>7. \A list \in SUBSET Extensions : SetItem("messages", 0, list) \in Honest(All)
  BY <1>1
<1>8. \A n \in Nat, flags \in SUBSET Flags : SetItem("flagged", n, flags) \in Honest(All)
  BY <1>1
<1> HIDE DEF Honest, Promised, Items, Id, Item, SetItem
<1>9. QED
  BY <1>2, <1>3, <1>4, <1>5, <1>6, <1>7, <1>8

(* One item and what is told of it. *)
LEMMA CarriesOne ==
  ASSUME NEW r, NEW c, NEW i \in Honest(All), NEW r2, NEW cs, Speech(c), Speech(cs),
         Fits(r, i), NextReader(r, i) = r2, Tells(LastLed(c), r, i) = cs
  PROVE  Carries(r, c, <<i>>, r2, c \o cs)
<1>1. Speech(c \o cs) /\ Prefixed(c, c \o cs) /\ Prefixed(c \o cs, c \o cs)
  BY SpeechesJoin, PrefixAdds, PrefixSelf
<1>2. PICK d : d = c \o cs
  OBVIOUS
<1>3. Step(St(r, c), i, St(r2, d)) /\ ToldFirst(St(r, c), St(r2, d)) /\ ToldFirst(St(r2, d), St(r2, d))
  BY <1>1, <1>2 DEF Step, St, After, ToldFirst
<1>4. Leads(St(r, c), <<i>>, St(r2, d))
  BY <1>3, LeadsOne
<1>5. Batch(<<i>>, All)
  BY Batches
<1>6. QED
  BY <1>1, <1>2, <1>4, <1>5 DEF Carries

(* One of which nothing is told. *)
LEMMA CarriesQuiet ==
  ASSUME NEW r, NEW c, NEW i \in Honest(All), NEW r2, Speech(c),
         Fits(r, i), NextReader(r, i) = r2, Tells(LastLed(c), r, i) = <<>>
  PROVE  Carries(r, c, <<i>>, r2, c)
<1>1. Carries(r, c, <<i>>, r2, c \o <<>>)
  BY Speeches, CarriesOne
<1>2. c \o <<>> = c
  BY ConcatEmptySeq DEF Speech
<1>3. QED
  BY <1>1, <1>2

(* What follows carries on. *)
LEMMA CarriesJoins ==
  ASSUME NEW r, NEW c, NEW a, NEW r2, NEW c2, NEW b, NEW r3, NEW c3,
         Carries(r, c, a, r2, c2), Carries(r2, c2, b, r3, c3)
  PROVE  Carries(r, c, a \o b, r3, c3)
<1>1. a \in Seq(Honest(All)) /\ b \in Seq(Honest(All))
  BY DEF Carries, Batch
<1>2. Leads(St(r, c), a, St(r2, c2)) /\ Leads(St(r2, c2), b, St(r3, c3)) /\ Speech(c) /\ Speech(c3)
  BY DEF Carries
<1>3. Leads(St(r, c), a \o b, St(r3, c3))
  BY <1>1, <1>2, LeadsJoins
<1>4. Batch(a \o b, All)
  BY BatchesJoin DEF Carries
<1>5. QED
  BY <1>2, <1>3, <1>4 DEF Carries

(* Short sequences, joined. *)
LEMMA Pairs ==
  ASSUME NEW x, NEW y, NEW z
  PROVE  <<x>> \o <<y>> = <<x, y>> /\ <<x, y>> \o <<z>> = <<x, y, z>>
<1>1. PICK S : S = {x, y, z}
  OBVIOUS
<1>2. <<x>> \in Seq(S) /\ <<y>> \in Seq(S) /\ <<z>> \in Seq(S) /\ <<x, y>> \in Seq(S) /\ <<x, y, z>> \in Seq(S)
  BY <1>1
<1>3. <<x>> \o <<y>> = <<x, y>>
  <2>1. PICK s \in Seq(S) : s = <<x>> \o <<y>>
    BY <1>2, ConcatProperties
  <2>2. PICK t \in Seq(S) : t = <<x, y>>
    BY <1>2
  <2>3. Len(s) = 2 /\ s[1] = x /\ s[2] = y
    BY <1>2, <2>1, ConcatProperties
  <2>4. Len(t) = 2 /\ t[1] = x /\ t[2] = y
    BY <2>2
  <2>5. s = t
    BY <2>3, <2>4, SeqEqual
  <2>6. QED
    BY <2>1, <2>2, <2>5
<1>4. <<x, y>> \o <<z>> = <<x, y, z>>
  <2>1. PICK s \in Seq(S) : s = <<x, y>> \o <<z>>
    BY <1>2, ConcatProperties
  <2>2. PICK t \in Seq(S) : t = <<x, y, z>>
    BY <1>2
  <2>3. Len(s) = 3 /\ s[1] = x /\ s[2] = y /\ s[3] = z
    BY <1>2, <2>1, ConcatProperties
  <2>4. Len(t) = 3 /\ t[1] = x /\ t[2] = y /\ t[3] = z
    BY <2>2
  <2>5. s = t
    BY <2>3, <2>4, SeqEqual
  <2>6. QED
    BY <2>1, <2>2, <2>5
<1>5. QED
  BY <1>3, <1>4

(* Two items, one by one. *)
LEMMA CarriesTwo ==
  ASSUME NEW r, NEW c, NEW x, NEW r2, NEW c2, NEW y, NEW r3, NEW c3,
         Carries(r, c, <<x>>, r2, c2), Carries(r2, c2, <<y>>, r3, c3)
  PROVE  Carries(r, c, <<x, y>>, r3, c3)
<1>1. Carries(r, c, <<x>> \o <<y>>, r3, c3)
  BY CarriesJoins, Zenon
<1>2. <<x>> \o <<y>> = <<x, y>>
  BY Pairs, Zenon
<1>3. QED
  BY <1>1, <1>2, Zenon

(* A third. *)
LEMMA CarriesThird ==
  ASSUME NEW r, NEW c, NEW x, NEW y, NEW r2, NEW c2, NEW z, NEW r3, NEW c3,
         Carries(r, c, <<x, y>>, r2, c2), Carries(r2, c2, <<z>>, r3, c3)
  PROVE  Carries(r, c, <<x, y, z>>, r3, c3)
<1>1. Carries(r, c, <<x, y>> \o <<z>>, r3, c3)
  BY CarriesJoins, Zenon
<1>2. <<x, y>> \o <<z>> = <<x, y, z>>
  BY Pairs, Zenon
<1>3. QED
  BY <1>1, <1>2, Zenon

(* Message by message; the client is back at the next one's id. *)
LEMMA CarriesId ==
  ASSUME NEW kind \in Ids, NEW c, Speech(c), kind # "Bell"
  PROVE  Carries(NextId, c, <<Id(kind)>>, IdNext(kind), c)
<1>1. Fits(NextId, Id(kind))
  BY DEF Fits, NextId, At, Id, Item
<1>2. NextReader(NextId, Id(kind)) = IdNext(kind)
  BY DEF NextReader, Id, Item
<1>3. Tells(LastLed(c), NextId, Id(kind)) = <<>>
  BY DEF Tells, Id, Item
<1>4. Id(kind) \in Honest(All)
  BY AllHonest
<1>5. QED
  BY <1>1, <1>2, <1>3, <1>4, CarriesQuiet

(* A bell. *)
LEMMA CarriesBell ==
  ASSUME NEW c, Speech(c)
  PROVE  Carries(NextId, c, <<Id("Bell")>>, NextId, c \o <<Tell("bell", 0)>>)
<1>1. Fits(NextId, Id("Bell"))
  BY DEF Fits, NextId, At, Id, Item
<1>2. NextReader(NextId, Id("Bell")) = NextId
  BY DEF NextReader, IdNext, Id, Item
<1>3. Tells(LastLed(c), NextId, Id("Bell")) = <<Tell("bell", 0)>>
  BY DEF Tells, Id, Item
<1>4. Id("Bell") \in Honest(All)
  BY AllHonest DEF Ids
<1>5. Speech(<<Tell("bell", 0)>>)
  BY Speeches DEF Told
<1>6. QED
  BY <1>1, <1>2, <1>3, <1>4, <1>5, CarriesOne

(* A text: its length, then as many bytes. *)
LEMMA CarriesText ==
  ASSUME NEW n \in Nat, n > 0, NEW c, Speech(c)
  PROVE  Carries(NextId, c, <<Id("ServerCutText"), Item("cutText", n, ""), Item("text", n, "")>>, NextId,
                 c \o <<Tell("cut", n)>>)
<1>1. Carries(NextId, c, <<Id("ServerCutText")>>, At("cutText", 0, 0), c)
  BY CarriesId DEF Ids, IdNext
<1>2. Carries(At("cutText", 0, 0), c, <<Item("cutText", n, "")>>, At("text", n, 0), c)
  <2>1. Fits(At("cutText", 0, 0), Item("cutText", n, ""))
    BY DEF Fits, At, Item
  <2>2. NextReader(At("cutText", 0, 0), Item("cutText", n, "")) = At("text", n, 0)
    BY DEF NextReader, Item
  <2>3. Tells(LastLed(c), At("cutText", 0, 0), Item("cutText", n, "")) = <<>>
    BY DEF Tells, Item
  <2>4. Item("cutText", n, "") \in Honest(All)
    <3>1. n \in Int
      OBVIOUS
    <3>2. QED
      BY <3>1, AllHonest, Zenon
  <2>5. QED
    BY <2>1, <2>2, <2>3, <2>4, CarriesQuiet
<1>3. Carries(At("text", n, 0), c, <<Item("text", n, "")>>, NextId, c \o <<Tell("cut", n)>>)
  <2>1. Fits(At("text", n, 0), Item("text", n, ""))
    BY DEF Fits, At, Item
  <2>2. NextReader(At("text", n, 0), Item("text", n, "")) = NextId
    BY DEF NextReader, Item
  <2>3. Tells(LastLed(c), At("text", n, 0), Item("text", n, "")) = <<Tell("cut", n)>>
    BY DEF Tells, Item
  <2>4. Item("text", n, "") \in Honest(All)
    BY AllHonest
  <2>5. Speech(<<Tell("cut", n)>>)
    BY Speeches DEF Told
  <2>6. QED
    BY <2>1, <2>2, <2>3, <2>4, <2>5, CarriesOne
<1>4. PICK d : d = c \o <<Tell("cut", n)>>
  OBVIOUS
<1>5. Carries(At("text", n, 0), c, <<Item("text", n, "")>>, NextId, d)
  BY <1>3, <1>4
<1>6. Carries(NextId, c, <<Id("ServerCutText"), Item("cutText", n, ""), Item("text", n, "")>>, NextId, d)
  <2>1. Carries(NextId, c, <<Id("ServerCutText"), Item("cutText", n, "")>>, At("text", n, 0), c)
    BY <1>1, <1>2, CarriesTwo, Zenon
  <2>2. QED
    BY <1>5, <2>1, CarriesThird, Zenon
<1>7. QED
  BY <1>4, <1>6, Zenon

(* An extended clipboard message: the length is below zero. *)
LEMMA CarriesFlagged ==
  ASSUME NEW n \in Nat, n > 0, NEW m \in Int, m = -n, NEW flags \in SUBSET Flags, NEW c, Speech(c), NEW says,
         says = IF flags = {"text", "provide"} THEN <<Tell("cutUtf8", n)>> ELSE <<>>
  PROVE  /\ Carries(NextId, c, <<Id("ServerCutText"), Item("cutText", m, ""), SetItem("flagged", n, flags)>>, NextId,
                    c \o says)
         /\ Speech(says)
<1>1. Carries(NextId, c, <<Id("ServerCutText")>>, At("cutText", 0, 0), c)
  BY CarriesId DEF Ids, IdNext
<1>2. Carries(At("cutText", 0, 0), c, <<Item("cutText", m, "")>>, At("flagged", n, 0), c)
  <2>1. Fits(At("cutText", 0, 0), Item("cutText", m, ""))
    BY DEF Fits, At, Item
  <2>2. NextReader(At("cutText", 0, 0), Item("cutText", m, "")) = At("flagged", n, 0)
    <3>1. ~(m > 0) /\ m # 0 /\ -m = n
      OBVIOUS
    <3>2. QED
      BY <3>1 DEF NextReader, Item
  <2>3. Tells(LastLed(c), At("cutText", 0, 0), Item("cutText", m, "")) = <<>>
    BY DEF Tells, Item
  <2>4. Item("cutText", m, "") \in Honest(All)
    BY AllHonest, Zenon
  <2>5. QED
    BY <2>1, <2>2, <2>3, <2>4, CarriesQuiet
<1>3. Speech(says)
  BY Speeches DEF Told
<1>4. Carries(At("flagged", n, 0), c, <<SetItem("flagged", n, flags)>>, NextId, c \o says)
  <2>1. Fits(At("flagged", n, 0), SetItem("flagged", n, flags))
    BY DEF Fits, At, SetItem
  <2>2. NextReader(At("flagged", n, 0), SetItem("flagged", n, flags)) = NextId
    BY DEF NextReader, SetItem
  <2>3. Tells(LastLed(c), At("flagged", n, 0), SetItem("flagged", n, flags)) = says
    BY DEF Tells, SetItem
  <2>4. SetItem("flagged", n, flags) \in Honest(All)
    BY AllHonest
  <2>5. QED
    BY <1>3, <2>1, <2>2, <2>3, <2>4, CarriesOne
<1>5. PICK d : d = c \o says
  OBVIOUS
<1>6. Carries(At("flagged", n, 0), c, <<SetItem("flagged", n, flags)>>, NextId, d)
  BY <1>4, <1>5
<1>7. Carries(NextId, c, <<Id("ServerCutText"), Item("cutText", m, ""), SetItem("flagged", n, flags)>>, NextId, d)
  <2>1. Carries(NextId, c, <<Id("ServerCutText"), Item("cutText", m, "")>>, At("flagged", n, 0), c)
    BY <1>1, <1>2, CarriesTwo, Zenon
  <2>2. QED
    BY <1>6, <2>1, CarriesThird, Zenon
<1>8. QED
  BY <1>3, <1>5, <1>7, Zenon

(* A chat message: a text follows unless the length is none. *)
LEMMA CarriesChat ==
  ASSUME NEW n \in Nat \cup {-1, -2, -3}, NEW c, Speech(c)
  PROVE  Carries(NextId, c, <<Id("TextChat"), Item("textChat", n, "")>> \o IF n > 0 THEN <<Item("chat", n, "")>> ELSE <<>>,
                 NextId, c \o <<Tell("chat", n)>>)
<1>1. Carries(NextId, c, <<Id("TextChat")>>, At("textChat", 0, 0), c)
  BY CarriesId DEF Ids, IdNext
<1>2. Fits(At("textChat", 0, 0), Item("textChat", n, "")) /\ Item("textChat", n, "") \in Honest(All)
      /\ Speech(<<Tell("chat", n)>>)
  <2>1. n \in Int
    OBVIOUS
  <2>2. Speech(<<Tell("chat", n)>>)
    BY <2>1, Speeches DEF Told
  <2>3. QED
    BY <2>2, AllHonest DEF Fits, At, Item
<1>3. CASE n > 0
  <2>1. Carries(At("textChat", 0, 0), c, <<Item("textChat", n, "")>>, At("chat", n, 0), c)
    <3>1. NextReader(At("textChat", 0, 0), Item("textChat", n, "")) = At("chat", n, 0)
      BY <1>3 DEF NextReader, Item
    <3>2. Tells(LastLed(c), At("textChat", 0, 0), Item("textChat", n, "")) = <<>>
      BY <1>3 DEF Tells, Item
    <3>3. QED
      BY <1>2, <3>1, <3>2, CarriesQuiet
  <2>2. Carries(At("chat", n, 0), c, <<Item("chat", n, "")>>, NextId, c \o <<Tell("chat", n)>>)
    <3>1. Fits(At("chat", n, 0), Item("chat", n, ""))
      BY DEF Fits, At, Item
    <3>2. NextReader(At("chat", n, 0), Item("chat", n, "")) = NextId
      BY DEF NextReader, Item
    <3>3. Tells(LastLed(c), At("chat", n, 0), Item("chat", n, "")) = <<Tell("chat", n)>>
      BY DEF Tells, Item
    <3>4. n \in Nat
      BY <1>3
    <3>5. Item("chat", n, "") \in Honest(All)
      BY <3>4, AllHonest
    <3>6. QED
      BY <1>2, <3>1, <3>2, <3>3, <3>5, CarriesOne
  <2>3. Carries(NextId, c, <<Id("TextChat"), Item("textChat", n, ""), Item("chat", n, "")>>, NextId, c \o <<Tell("chat", n)>>)
    <3>1. PICK d : d = c \o <<Tell("chat", n)>>
      OBVIOUS
    <3>2. Carries(At("chat", n, 0), c, <<Item("chat", n, "")>>, NextId, d)
      BY <2>2, <3>1
    <3>3. Carries(NextId, c, <<Id("TextChat"), Item("textChat", n, ""), Item("chat", n, "")>>, NextId, d)
      <4>1. Carries(NextId, c, <<Id("TextChat"), Item("textChat", n, "")>>, At("chat", n, 0), c)
        BY <1>1, <2>1, CarriesTwo, Zenon
      <4>2. QED
        BY <3>2, <4>1, CarriesThird, Zenon
    <3>4. QED
      BY <3>1, <3>3, Zenon
  <2>4. <<Id("TextChat"), Item("textChat", n, "")>> \o <<Item("chat", n, "")>>
          = <<Id("TextChat"), Item("textChat", n, ""), Item("chat", n, "")>>
    BY Pairs, Zenon
  <2>5. QED
    BY <1>3, <2>3, <2>4, Zenon
<1>4. CASE ~(n > 0)
  <2>1. Carries(At("textChat", 0, 0), c, <<Item("textChat", n, "")>>, NextId, c \o <<Tell("chat", n)>>)
    <3>1. n \in {-1, -2, -3, 0}
      BY <1>4
    <3>2. NextReader(At("textChat", 0, 0), Item("textChat", n, "")) = NextId
      BY <3>1 DEF NextReader, Item
    <3>3. Tells(LastLed(c), At("textChat", 0, 0), Item("textChat", n, "")) = <<Tell("chat", n)>>
      BY <3>1 DEF Tells, Item
    <3>4. QED
      BY <1>2, <3>2, <3>3, CarriesOne
  <2>2. Carries(NextId, c, <<Id("TextChat"), Item("textChat", n, "")>>, NextId, c \o <<Tell("chat", n)>>)
    <3>1. PICK d : d = c \o <<Tell("chat", n)>>
      OBVIOUS
    <3>2. Carries(At("textChat", 0, 0), c, <<Item("textChat", n, "")>>, NextId, d)
      BY <2>1, <3>1
    <3>3. Carries(NextId, c, <<Id("TextChat"), Item("textChat", n, "")>>, NextId, d)
      BY <1>1, <3>2, CarriesTwo, Zenon
    <3>4. QED
      BY <3>1, <3>3, Zenon
  <2>3. <<Id("TextChat"), Item("textChat", n, "")>> \o <<>> = <<Id("TextChat"), Item("textChat", n, "")>>
    BY <2>2, ConcatEmptySeq DEF Carries, Batch
  <2>4. QED
    BY <1>4, <2>2, <2>3, Zenon
<1>5. QED
  BY <1>3, <1>4

(* A message of two items. *)
LEMMA CarriesPlain ==
  ASSUME NEW kind \in Ids \ {"Bell"}, NEW what \in {"xvp", "resize", "monitor"}, NEW n \in Nat, NEW c, Speech(c), NEW says,
         IdNext(kind) = At(what, 0, 0), Speech(says),
         says = Tells(0, At(what, 0, 0), Item(what, n, ""))
  PROVE  Carries(NextId, c, <<Id(kind), Item(what, n, "")>>, NextId, c \o says)
<1>1. Carries(NextId, c, <<Id(kind)>>, At(what, 0, 0), c)
  BY CarriesId
<1>2. Fits(At(what, 0, 0), Item(what, n, ""))
  BY DEF Fits, At, Item
<1>3. NextReader(At(what, 0, 0), Item(what, n, "")) = NextId
  BY DEF NextReader, Item
<1>4. Tells(LastLed(c), At(what, 0, 0), Item(what, n, "")) = says
  BY DEF Tells, Item
<1>5. Item(what, n, "") \in Honest(All)
  BY AllHonest
<1>6. Carries(At(what, 0, 0), c, <<Item(what, n, "")>>, NextId, c \o says)
  BY <1>2, <1>3, <1>4, <1>5, CarriesOne
<1>7. QED
  BY <1>1, <1>6, CarriesTwo, Zenon

-----------------------------------------------------------------------------
(* Rectangles. *)
LEMMA SaidJoins ==
  ASSUME NEW l, NEW c, NEW cs, Speech(c), Speech(cs)
  PROVE  c \o RectSaid(l, cs) = RectSaid(l, c \o cs) /\ Speech(RectSaid(l, cs)) /\ Speech(RectSaid(l, c \o cs))
<1>1. PICK u : u = <<Tell("update", 0)>>
  OBVIOUS
<1>2. Speech(u)
  BY <1>1, Speeches DEF Told
<1>3. (c \o cs) \o u = c \o (cs \o u)
  BY <1>2, ConcatAssociative DEF Speech
<1>4. Speech(c \o cs) /\ Speech(cs \o u) /\ Speech((c \o cs) \o u)
  BY <1>2, SpeechesJoin, Zenon
<1>5. CASE l > 0
  BY <1>4, <1>5 DEF RectSaid
<1>6. CASE ~(l > 0)
  <2>1. RectSaid(l, cs) = cs \o u /\ RectSaid(l, c \o cs) = (c \o cs) \o u
    BY <1>1, <1>6, Zenon DEF RectSaid
  <2>2. QED
    BY <1>3, <1>4, <2>1, Zenon
<1>7. QED
  BY <1>5, <1>6

Regroups(a, b, c) == (a \o b) \o c = a \o (b \o c)

(* Speeches are grouped as one likes. *)
LEMMA SpeechAssociative ==
  ASSUME NEW a, NEW b, NEW c, Speech(a), Speech(b), Speech(c)
  PROVE  Regroups(a, b, c)
BY ConcatAssociative DEF Speech, Regroups

(* A rectangle that says nothing. *)
LEMMA SaidAlone ==
  ASSUME NEW l, NEW c, Speech(c)
  PROVE  c \o RectSaid(l, <<>>) = RectSaid(l, c) /\ Speech(RectSaid(l, <<>>))
<1>1. c \o <<>> = c
  BY ConcatEmptySeq DEF Speech
<1>2. PICK e : e = <<>>
  OBVIOUS
<1>3. Speech(e)
  BY <1>2, Speeches
<1>4. c \o RectSaid(l, e) = RectSaid(l, c \o e) /\ Speech(RectSaid(l, e))
  BY <1>3, SaidJoins
<1>5. QED
  BY <1>1, <1>2, <1>4

(* The last item of a rectangle. *)
LEMMA CarriesBody ==
  ASSUME NEW r, NEW c, Speech(c), NEW g \in Honest(All), g.is \in InRect \ {"rect"}, Fits(r, g), ~(ScreensLeft(r, g) > 0)
  PROVE  Carries(r, c, <<g>>, RectDone(r.left - 1), RectSaid(r.left - 1, c))
<1>1. NextReader(r, g) = RectDone(r.left - 1)
  BY DEF NextReader, InRect
<1>2. Tells(LastLed(c), r, g) = RectSaid(r.left - 1, <<>>)
  BY DEF Tells, InRect
<1>3. c \o RectSaid(r.left - 1, <<>>) = RectSaid(r.left - 1, c) /\ Speech(RectSaid(r.left - 1, <<>>))
  BY SaidAlone
<1>4. QED
  BY <1>1, <1>2, <1>3, CarriesOne

(* The header of a rectangle that says no more. *)
LEMMA CarriesHeader ==
  ASSUME NEW rc \in Rects, NEW left \in Nat, NEW c, Speech(c), NEW says, Speech(says), rc.kind # "last",
         RectNext(left, rc.kind, rc.n) = RectDone(left - 1),
         RectTells(LastLed(c), left, rc.kind, rc.n) = RectSaid(left - 1, says)
  PROVE  Carries(At("rect", 0, left), c, <<Item("rect", rc.n, rc.kind)>>, RectDone(left - 1), RectSaid(left - 1, c \o says))
<1> DEFINE i == Item("rect", rc.n, rc.kind)
<1>1. Fits(At("rect", 0, left), i)
  BY DEF Fits, At, Item
<1>2. NextReader(At("rect", 0, left), i) = RectDone(left - 1)
  BY DEF NextReader, Item, At
<1>3. Tells(LastLed(c), At("rect", 0, left), i) = RectSaid(left - 1, says)
  BY DEF Tells, Item, At
<1>4. i \in Honest(All)
  <2>1. rc.n \in Nat /\ rc.kind \in RectKinds
    BY DEF Rects, RectKinds
  <2>2. QED
    BY <2>1, AllHonest
<1>5. c \o RectSaid(left - 1, says) = RectSaid(left - 1, c \o says) /\ Speech(RectSaid(left - 1, says))
  <2>1. PICK l : l = left - 1
    OBVIOUS
  <2>2. c \o RectSaid(l, says) = RectSaid(l, c \o says) /\ Speech(RectSaid(l, says))
    BY SaidJoins
  <2>3. QED
    BY <2>1, <2>2
<1> HIDE DEF i
<1>6. Carries(At("rect", 0, left), c, <<i>>, RectDone(left - 1), c \o RectSaid(left - 1, says))
  BY <1>1, <1>2, <1>3, <1>4, <1>5, CarriesOne, Zenon
<1>7. QED
  BY <1>5, <1>6 DEF i

(* The header of one that is followed by what it announces. *)
LEMMA CarriesOpening ==
  ASSUME NEW rc \in Rects, NEW left \in Nat, NEW c, Speech(c),
         rc.kind \in {"messages", "screens", "pixels"} \/ (rc.kind \in {"identity", "encodings"} /\ rc.n # 0)
  PROVE  Carries(At("rect", 0, left), c, <<Item("rect", rc.n, rc.kind)>>, At(rc.kind, rc.n, left), c)
<1> DEFINE i == Item("rect", rc.n, rc.kind)
<1>1. Fits(At("rect", 0, left), i)
  BY DEF Fits, At, Item
<1>2. NextReader(At("rect", 0, left), i) = At(rc.kind, rc.n, left)
  BY DEF NextReader, RectNext, Item, At
<1>3. Tells(LastLed(c), At("rect", 0, left), i) = <<>>
  BY DEF Tells, RectTells, Item, At
<1>4. i \in Honest(All)
  <2>1. rc.n \in Nat /\ rc.kind \in RectKinds
    BY DEF Rects, RectKinds
  <2>2. QED
    BY <2>1, AllHonest
<1> HIDE DEF i
<1>5. Carries(At("rect", 0, left), c, <<i>>, At(rc.kind, rc.n, left), c)
  BY <1>1, <1>2, <1>3, <1>4, CarriesQuiet, Zenon
<1>6. QED
  BY <1>5 DEF i

(* Screens are counted down. *)
ScreenReader(m, left) == IF m > 0 THEN At("screen", m, left) ELSE RectDone(left - 1)
ScreenSaid(m, left, c) == IF m > 0 THEN c ELSE RectSaid(left - 1, c)
Repeat(m, x) == [k \in 1 .. m |-> x]

(* One more of the same. *)
LEMMA Repeated ==
  ASSUME NEW m \in Nat, NEW x
  PROVE  Repeat(0, x) = <<>> /\ Repeat(m + 1, x) = <<x>> \o Repeat(m, x)
<1>1. Repeat(0, x) = <<>>
  BY DEF Repeat
<1>2. PICK S : S = {x}
  OBVIOUS
<1>3. PICK s : s = Repeat(m, x)
  OBVIOUS
<1>4. PICK t : t = Repeat(m + 1, x)
  OBVIOUS
<1>5. s \in Seq(S) /\ Len(s) = m /\ \A k \in 1 .. m : s[k] = x
  BY <1>2, <1>3, FunctionIsSeq DEF Repeat
<1>6. t \in Seq(S) /\ Len(t) = m + 1 /\ \A k \in 1 .. m + 1 : t[k] = x
  BY <1>2, <1>4, FunctionIsSeq DEF Repeat
<1>7. <<x>> \in Seq(S) /\ Len(<<x>>) = 1 /\ <<x>>[1] = x
  BY <1>2
<1>8. PICK v \in Seq(S) : v = <<x>> \o s
  BY <1>5, <1>7, ConcatProperties
<1>9. Len(v) = m + 1 /\ \A k \in 1 .. m + 1 : v[k] = x
  <2>1. Len(v) = m + 1
    BY <1>5, <1>7, <1>8, ConcatProperties
  <2>2. ASSUME NEW k \in 1 .. m + 1 PROVE v[k] = x
    <3>1. v[k] = IF k <= 1 THEN <<x>>[k] ELSE s[k - 1]
      BY <1>5, <1>7, <1>8, ConcatProperties
    <3>2. k > 1 => k - 1 \in 1 .. m
      OBVIOUS
    <3>3. QED
      BY <1>5, <1>7, <3>1, <3>2
  <2>3. QED
    BY <2>1, <2>2
<1>10. t = v
  BY <1>6, <1>9, SeqEqual
<1>11. QED
  BY <1>1, <1>3, <1>4, <1>8, <1>10

(* All the screens that were announced are read. *)
LEMMA CarriesScreens ==
  ASSUME NEW n \in Nat, NEW left \in Nat, NEW c, Speech(c)
  PROVE  Carries(ScreenReader(n, left), ScreenSaid(n, left, c), Repeat(n, Item("screen", 0, "")),
                 RectDone(left - 1), RectSaid(left - 1, c))
<1>1. PICK g : g = Item("screen", 0, "")
  OBVIOUS
<1>2. g.is = "screen" /\ g \in Honest(All)
  BY <1>1, AllHonest DEF Item
<1> DEFINE T == {m \in Nat : Carries(ScreenReader(m, left), ScreenSaid(m, left, c), Repeat(m, g),
                                     RectDone(left - 1), RectSaid(left - 1, c))}
<1>3. Speech(RectSaid(left - 1, c))
  <2>1. PICK d : d = RectSaid(left - 1, <<>>)
    OBVIOUS
  <2>2. c \o d = RectSaid(left - 1, c) /\ Speech(d)
    BY <2>1, SaidAlone
  <2>3. QED
    BY <2>2, SpeechesJoin
<1>4. 0 \in T
  <2>1. PICK e : e = RectSaid(left - 1, c)
    OBVIOUS
  <2>2. ToldFirst(St(RectDone(left - 1), e), St(RectDone(left - 1), e))
    BY <1>3, <2>1, PrefixSelf DEF ToldFirst, St
  <2>3. Leads(St(RectDone(left - 1), e), <<>>, St(RectDone(left - 1), e))
    BY <2>2, LeadsStays
  <2>4. Carries(RectDone(left - 1), e, <<>>, RectDone(left - 1), e)
    BY <1>3, <2>1, <2>3, Batches DEF Carries
  <2>5. ScreenReader(0, left) = RectDone(left - 1) /\ ScreenSaid(0, left, c) = e /\ Repeat(0, g) = <<>>
    <3>1. Repeat(0, g) = <<>>
      BY Repeated
    <3>2. ~(0 > 0)
      OBVIOUS
    <3>3. QED
      BY <2>1, <3>1, <3>2, Zenon DEF ScreenReader, ScreenSaid
  <2>6. QED
    BY <2>1, <2>4, <2>5
<1>5. ASSUME NEW m \in Nat, m \in T PROVE m + 1 \in T
  <2>1. ScreenReader(m + 1, left) = At("screen", m + 1, left) /\ ScreenSaid(m + 1, left, c) = c
    BY DEF ScreenReader, ScreenSaid
  <2>2. PICK r : r = At("screen", m + 1, left)
    OBVIOUS
  <2>3. r.at = "screen" /\ r.n = m + 1 /\ r.left = left
    BY <2>2 DEF At
  <2>4. Fits(r, g) /\ ScreensLeft(r, g) = m
    BY <1>2, <2>3 DEF Fits, ScreensLeft
  <2>5. Carries(r, c, <<g>>, ScreenReader(m, left), ScreenSaid(m, left, c))
    <3>1. CASE m > 0
      <4>1. NextReader(r, g) = At("screen", m, left) /\ Tells(LastLed(c), r, g) = <<>>
        BY <1>2, <2>3, <2>4, <3>1 DEF NextReader, Tells
      <4>2. Carries(r, c, <<g>>, At("screen", m, left), c)
        BY <1>2, <2>4, <4>1, CarriesQuiet
      <4>3. QED
        BY <3>1, <4>2 DEF ScreenReader, ScreenSaid
    <3>2. CASE m = 0
      <4>1. ~(ScreensLeft(r, g) > 0) /\ g.is \in InRect \ {"rect"}
        BY <1>2, <2>4, <3>2 DEF InRect
      <4>2. Carries(r, c, <<g>>, RectDone(r.left - 1), RectSaid(r.left - 1, c))
        BY <1>2, <2>4, <4>1, CarriesBody
      <4>3. QED
        BY <2>3, <3>2, <4>2 DEF ScreenReader, ScreenSaid
    <3>3. QED
      BY <3>1, <3>2
  <2>6. Carries(r, c, <<g>> \o Repeat(m, g), RectDone(left - 1), RectSaid(left - 1, c))
    BY <1>5, <2>5, CarriesJoins
  <2>7. Repeat(m + 1, g) = <<g>> \o Repeat(m, g)
    BY Repeated
  <2>8. Carries(ScreenReader(m + 1, left), ScreenSaid(m + 1, left, c), Repeat(m + 1, g),
                RectDone(left - 1), RectSaid(left - 1, c))
    BY <2>1, <2>2, <2>6, <2>7, Zenon
  <2>9. QED
    BY <2>8
<1>6. Nat \subseteq T
  <2> HIDE DEF T
  <2>1. QED
    BY <1>4, <1>5, SetInduction
<1>7. QED
  BY <1>1, <1>6

(* What a rectangle says, and what the client has told once it has read it. *)
Spoken(rc, l) ==
  CASE rc.kind = "led" /\ rc.n # l -> <<Tell("led", rc.n)>>
    [] rc.kind = "position" -> <<Tell("position", 0)>>
    [] rc.kind = "newSize" -> <<Tell("size", 0)>>
    [] OTHER -> <<>>

(* It is a speech. *)
LEMMA SpokenTyped == ASSUME NEW rc \in Rects, NEW l PROVE Speech(Spoken(rc, l))
<1>1. rc.n \in Int
  BY DEF Rects
<1>2. /\ Speech(<<Tell("led", rc.n)>>) /\ Speech(<<Tell("position", 0)>>)
      /\ Speech(<<Tell("size", 0)>>) /\ Speech(<<>>)
  BY <1>1, Speeches DEF Told
<1>3. Spoken(rc, l) \in {<<Tell("led", rc.n)>>, <<Tell("position", 0)>>, <<Tell("size", 0)>>, <<>>}
  BY Zenon DEF Spoken
<1>4. QED
  BY <1>2, <1>3

(* Whatever the rectangle is, its items are read to the last and no further. *)
LEMMA CarriesRect ==
  ASSUME NEW rc \in Rects, NEW left \in Nat, NEW c, Speech(c), NEW says, says = Spoken(rc, LastLed(c)), rc.kind # "last"
  PROVE  Carries(At("rect", 0, left), c, RectItems(rc), RectDone(left - 1), RectSaid(left - 1, c \o says))
<1>1. rc.n \in Nat /\ rc.kind \in RectKinds /\ rc.list \in SUBSET Extensions
  BY DEF Rects, RectKinds
<1>2. Speech(says)
  BY SpokenTyped
<1> DEFINE i == Item("rect", rc.n, rc.kind)
           l == left - 1
<1>3. <<i>> \in Seq({i}) /\ <<i>> \o <<>> = <<i>>
  BY ConcatEmptySeq
<1>4. CASE rc.kind \in {"led", "position", "newSize"} \/ (rc.kind \in {"identity", "encodings"} /\ rc.n = 0)
  <2>1. RectItems(rc) = <<i>>
    <3>1. RectItems(rc) = <<i>> \o <<>>
      BY <1>4, Zenon DEF RectItems, Bytes
    <3>2. QED
      BY <1>3, <3>1
  <2>2. RectNext(left, rc.kind, rc.n) = RectDone(left - 1)
    BY <1>4 DEF RectNext
  <2>3. RectTells(LastLed(c), left, rc.kind, rc.n) = RectSaid(left - 1, says)
    BY <1>4 DEF RectTells, Spoken
  <2> HIDE DEF i, l
  <2>4. Carries(At("rect", 0, left), c, <<i>>, RectDone(left - 1), RectSaid(left - 1, c \o says))
    BY <1>2, <2>2, <2>3, CarriesHeader, Zenon DEF i
  <2>5. QED
    BY <2>1, <2>4
<1>5. says = <<>> => c \o says = c
  BY ConcatEmptySeq DEF Speech
<1>6. ASSUME NEW g \in Honest(All), g.is = rc.kind, g.is \in InRect \ {"rect", "screens", "screen"}, Fits(At(rc.kind, rc.n, left), g),
             RectItems(rc) = <<i>> \o <<g>>, says = <<>>,
             Carries(At("rect", 0, left), c, <<i>>, At(rc.kind, rc.n, left), c)
      PROVE  Carries(At("rect", 0, left), c, RectItems(rc), RectDone(left - 1), RectSaid(left - 1, c \o says))
  <2>1. PICK r : r = At(rc.kind, rc.n, left)
    OBVIOUS
  <2>2. r.left = left /\ ~(ScreensLeft(r, g) > 0) /\ Fits(r, g)
    BY <1>6, <2>1 DEF At, ScreensLeft
  <2>3. Carries(r, c, <<g>>, RectDone(left - 1), RectSaid(left - 1, c))
    BY <1>6, <2>2, CarriesBody
  <2>4. Carries(At("rect", 0, left), c, <<i>> \o <<g>>, RectDone(left - 1), RectSaid(left - 1, c))
    <3> HIDE DEF i
    <3>1. QED
      BY <1>6, <2>1, <2>3, CarriesJoins, Zenon
  <2>5. QED
    BY <1>5, <1>6, <2>4
<1>7. CASE rc.kind \in {"identity", "encodings"} /\ rc.n # 0
  <2>1. PICK g : g = Item(rc.kind, rc.n, "")
    OBVIOUS
  <2>2. g \in Honest(All)
    BY <1>1, <1>7, <2>1, AllHonest
  <2>3. g.is = rc.kind /\ Fits(At(rc.kind, rc.n, left), g)
    BY <2>1 DEF Item, Fits, At
  <2>4. RectItems(rc) = <<i>> \o <<g>>
    BY <1>7, <2>1, Zenon DEF RectItems, Bytes
  <2>5. says = <<>>
    BY <1>7 DEF Spoken
  <2>6. Carries(At("rect", 0, left), c, <<i>>, At(rc.kind, rc.n, left), c)
    BY <1>7, CarriesOpening
  <2> HIDE DEF i
  <2>7. QED
    BY <1>6, <1>7, <2>2, <2>3, <2>4, <2>5, <2>6 DEF InRect
<1>8. CASE rc.kind = "messages"
  <2>1. PICK g : g = SetItem("messages", 0, rc.list)
    OBVIOUS
  <2>2. g \in Honest(All)
    BY <1>1, <1>8, <2>1, AllHonest
  <2>3. g.is = rc.kind /\ Fits(At(rc.kind, rc.n, left), g)
    BY <1>8, <2>1 DEF SetItem, Fits, At
  <2>4. RectItems(rc) = <<i>> \o <<g>>
    BY <1>8, <2>1 DEF RectItems
  <2>5. says = <<>>
    BY <1>8 DEF Spoken
  <2>6. Carries(At("rect", 0, left), c, <<i>>, At(rc.kind, rc.n, left), c)
    BY <1>8, CarriesOpening
  <2> HIDE DEF i
  <2>7. QED
    BY <1>6, <1>8, <2>2, <2>3, <2>4, <2>5, <2>6 DEF InRect
<1>9. CASE rc.kind = "pixels"
  <2>1. PICK g : g = Item("pixels", 0, "")
    OBVIOUS
  <2>2. g \in Honest(All)
    BY <2>1, AllHonest
  <2>3. g.is = rc.kind /\ Fits(At(rc.kind, rc.n, left), g)
    BY <1>9, <2>1 DEF Item, Fits, At
  <2>4. RectItems(rc) = <<i>> \o <<g>>
    BY <1>9, <2>1 DEF RectItems
  <2>5. says = <<>>
    BY <1>9 DEF Spoken
  <2>6. Carries(At("rect", 0, left), c, <<i>>, At(rc.kind, rc.n, left), c)
    BY <1>9, CarriesOpening
  <2> HIDE DEF i
  <2>7. QED
    BY <1>6, <1>9, <2>2, <2>3, <2>4, <2>5, <2>6 DEF InRect
<1>10. CASE rc.kind = "screens"
  <2>1. PICK g : g = Item("screens", rc.n, "")
    OBVIOUS
  <2>2. g \in Honest(All)
    BY <1>1, <2>1, AllHonest
  <2>3. g.is = "screens" /\ g.n = rc.n
    BY <2>1 DEF Item
  <2>4. says = <<>>
    BY <1>10 DEF Spoken
  <2>5. PICK many : many = Repeat(rc.n, Item("screen", 0, ""))
    OBVIOUS
  <2>6. RectItems(rc) = <<i>> \o (<<g>> \o many)
    BY <1>10, <2>1, <2>5, Zenon DEF RectItems, Repeat
  <2>7. Carries(At("rect", 0, left), c, <<i>>, At("screens", rc.n, left), c)
    BY <1>10, CarriesOpening
  <2> HIDE DEF i
  <2>8. PICK r : r = At("screens", rc.n, left)
    OBVIOUS
  <2>9. Fits(r, g) /\ ScreensLeft(r, g) = rc.n /\ r.left = left
    BY <2>3, <2>8 DEF Fits, At, ScreensLeft
  <2>10. Carries(r, c, <<g>>, ScreenReader(rc.n, left), ScreenSaid(rc.n, left, c))
    <3>1. CASE rc.n > 0
      <4>1. NextReader(r, g) = At("screen", rc.n, left) /\ Tells(LastLed(c), r, g) = <<>>
        BY <2>3, <2>9, <3>1 DEF NextReader, Tells
      <4>2. Carries(r, c, <<g>>, At("screen", rc.n, left), c)
        BY <2>2, <2>9, <4>1, CarriesQuiet
      <4>3. QED
        BY <3>1, <4>2 DEF ScreenReader, ScreenSaid
    <3>2. CASE ~(rc.n > 0)
      <4>1. ~(ScreensLeft(r, g) > 0) /\ g.is \in InRect \ {"rect"}
        BY <2>3, <2>9, <3>2 DEF InRect
      <4>2. Carries(r, c, <<g>>, RectDone(r.left - 1), RectSaid(r.left - 1, c))
        BY <2>2, <2>9, <4>1, CarriesBody
      <4>3. QED
        BY <2>9, <3>2, <4>2 DEF ScreenReader, ScreenSaid
    <3>3. QED
      BY <3>1, <3>2
  <2>11. Carries(ScreenReader(rc.n, left), ScreenSaid(rc.n, left, c), many, RectDone(left - 1), RectSaid(left - 1, c))
    BY <1>1, <2>5, CarriesScreens
  <2>12. Carries(r, c, <<g>> \o many, RectDone(left - 1), RectSaid(left - 1, c))
    BY <2>10, <2>11, CarriesJoins, Zenon
  <2>13. Carries(At("rect", 0, left), c, <<i>> \o (<<g>> \o many), RectDone(left - 1), RectSaid(left - 1, c))
    BY <2>7, <2>8, <2>12, CarriesJoins, Zenon
  <2>14. QED
    BY <1>5, <2>4, <2>6, <2>13
<1>11. QED
  BY <1>1, <1>4, <1>7, <1>8, <1>9, <1>10 DEF RectKinds

(* LastRect ends the update, whatever was announced. *)
LEMMA CarriesLast ==
  ASSUME NEW rc \in Rects, rc.kind = "last", NEW left \in Nat, NEW c, Speech(c)
  PROVE  Carries(At("rect", 0, left), c, RectItems(rc), NextId, c \o <<Tell("update", 0)>>)
<1>1. rc.n \in Nat /\ rc.kind \in RectKinds
  BY DEF Rects, RectKinds
<1> DEFINE i == Item("rect", rc.n, rc.kind)
<1>2. RectItems(rc) = <<i>>
  <2>1. RectItems(rc) = <<i>> \o <<>>
    BY DEF RectItems
  <2>2. <<i>> \in Seq({i})
    OBVIOUS
  <2>3. QED
    BY <2>1, <2>2, ConcatEmptySeq
<1>3. Fits(At("rect", 0, left), i)
  BY DEF Fits, At, Item
<1>4. NextReader(At("rect", 0, left), i) = NextId
  BY DEF NextReader, RectNext, Item, At
<1>5. Tells(LastLed(c), At("rect", 0, left), i) = RectSaid(0, <<>>)
  BY DEF Tells, RectTells, Item, At
<1>6. i \in Honest(All)
  BY <1>1, AllHonest
<1>7. c \o RectSaid(0, <<>>) = c \o <<Tell("update", 0)>> /\ Speech(RectSaid(0, <<>>))
  <2>1. RectSaid(0, c) = c \o <<Tell("update", 0)>>
    BY DEF RectSaid
  <2>2. QED
    BY <2>1, SaidAlone
<1> HIDE DEF i
<1>8. Carries(At("rect", 0, left), c, <<i>>, NextId, c \o RectSaid(0, <<>>))
  BY <1>3, <1>4, <1>5, <1>6, <1>7, CarriesOne
<1>9. QED
  BY <1>2, <1>7, <1>8

-----------------------------------------------------------------------------
(* An update, rectangle by rectangle. *)
LEMMA NoLedJoins == ASSUME NEW a, NEW b, Speech(a), Speech(b), NoLed(a), NoLed(b) PROVE NoLed(a \o b)
<1>1. PICK c : c = a \o b
  OBVIOUS
<1>2. DOMAIN a = 1 .. Len(a) /\ DOMAIN b = 1 .. Len(b) /\ DOMAIN c = 1 .. Len(c) /\ Len(a) \in Nat /\ Len(b) \in Nat
      /\ Len(c) = Len(a) + Len(b)
  BY <1>1, ConcatProperties, LenProperties DEF Speech
<1>3. ASSUME NEW i \in DOMAIN c PROVE c[i].to # "led"
  <2>1. c[i] = IF i <= Len(a) THEN a[i] ELSE b[i - Len(a)]
    BY <1>1, <1>2, ConcatProperties DEF Speech
  <2>2. i <= Len(a) => i \in DOMAIN a
    BY <1>2
  <2>3. ~(i <= Len(a)) => i - Len(a) \in DOMAIN b
    BY <1>2
  <2>4. QED
    BY <2>1, <2>2, <2>3 DEF NoLed
<1>4. QED
  BY <1>1, <1>3 DEF NoLed

(* A rectangle that is not of the keyboard's state says nothing of it. *)
LEMMA SpokenQuiet == ASSUME NEW rc, NEW l, rc.kind # "led" PROVE NoLed(Spoken(rc, l))
<1>1. Spoken(rc, l) \in {<<Tell("position", 0)>>, <<Tell("size", 0)>>, <<>>}
  BY Zenon DEF Spoken
<1>2. NoLed(<<Tell("position", 0)>>) /\ NoLed(<<Tell("size", 0)>>) /\ NoLed(<<>>)
  BY DEF NoLed, Tell
<1>3. QED
  BY <1>1, <1>2

(* N rectangles are announced and the first m are not LastRect. *)
LEMMA CarriesRects ==
  ASSUME NEW u \in Seq(Rects), NEW m \in 0 .. Len(u), NEW N \in Nat, m <= N, NEW c, Speech(c),
         NEW fi, NEW fs, fi[0] = <<>>, fs[0] = <<>>,
         \A k \in 0 .. Len(u) : Speech(fs[k]),
         \A k \in 1 .. Len(u) : fi[k] = fi[k - 1] \o RectItems(u[k]) /\ fs[k] = fs[k - 1] \o Spoken(u[k], LastLed(c)),
         \A k \in 1 .. m : u[k].kind # "last",
         \A i, j \in 1 .. Len(u) : u[i].kind = "led" /\ u[j].kind = "led" => i = j
  PROVE  Carries(RectDone(N), RectSaid(N, c), fi[m], RectDone(N - m), RectSaid(N - m, c \o fs[m]))
<1>1. Len(u) \in Nat /\ \A k \in 1 .. Len(u) : u[k] \in Rects
  BY LenProperties
<1>2. PICK r0 : r0 = RectDone(N)
  OBVIOUS
<1>3. PICK c0 : c0 = RectSaid(N, c)
  OBVIOUS
<1> DEFINE Read(k) == Carries(r0, c0, fi[k], RectDone(N - k), RectSaid(N - k, c \o fs[k]))
           T == {k \in Nat : k <= m => Read(k) /\ ((\A j \in 1 .. k : u[j].kind # "led") => NoLed(fs[k]))}
<1>4. 0 \in T
  <2>1. c \o fs[0] = c
    BY ConcatEmptySeq DEF Speech
  <2>2. Speech(c0)
    <3>1. PICK d : d = RectSaid(N, <<>>)
      OBVIOUS
    <3>2. c \o d = c0 /\ Speech(d)
      BY <1>3, <3>1, SaidAlone
    <3>3. QED
      BY <3>2, SpeechesJoin
  <2>3. ToldFirst(St(r0, c0), St(r0, c0))
    BY <2>2, PrefixSelf DEF ToldFirst, St
  <2>4. Leads(St(r0, c0), <<>>, St(r0, c0))
    BY <2>3, LeadsStays
  <2>5. Carries(r0, c0, <<>>, r0, c0)
    BY <2>2, <2>4, Batches DEF Carries
  <2>6. N - 0 = N
    OBVIOUS
  <2>7. Read(0)
    BY <1>2, <1>3, <2>1, <2>5, <2>6
  <2>8. NoLed(fs[0])
    BY DEF NoLed
  <2> HIDE DEF Read
  <2>9. QED
    BY <2>7, <2>8
<1>5. ASSUME NEW k \in Nat, k \in T PROVE k + 1 \in T
  <2>1. SUFFICES ASSUME k + 1 <= m PROVE Read(k + 1) /\ ((\A j \in 1 .. k + 1 : u[j].kind # "led") => NoLed(fs[k + 1]))
    <3> HIDE DEF Read
    <3>1. QED
      OBVIOUS
  <2>2. Read(k) /\ ((\A j \in 1 .. k : u[j].kind # "led") => NoLed(fs[k]))
    <3> HIDE DEF Read
    <3>1. QED
      BY <1>5, <2>1
  <2>3. PICK rc \in Rects : rc = u[k + 1] /\ rc.kind # "last"
    BY <1>1, <2>1
  <2>4. PICK left \in Nat : left = N - k /\ left > 0 /\ left - 1 = N - (k + 1)
    BY <2>1
  <2>5. k \in 0 .. Len(u) /\ k + 1 \in 1 .. Len(u) /\ (k + 1) - 1 = k
    BY <1>1, <2>1
  <2>6. Speech(fs[k]) /\ fi[k + 1] = fi[k] \o RectItems(rc) /\ fs[k + 1] = fs[k] \o Spoken(rc, LastLed(c))
    BY <2>3, <2>5
  <2>7. PICK d : d = c \o fs[k]
    OBVIOUS
  <2>8. Speech(d)
    BY <2>6, <2>7, SpeechesJoin
  <2>9. Spoken(rc, LastLed(d)) = Spoken(rc, LastLed(c))
    <3>1. CASE rc.kind = "led"
      <4>1. \A j \in 1 .. k : u[j].kind # "led"
        BY <1>1, <2>3, <2>5, <3>1
      <4>2. LastLed(d) = LastLed(c)
        BY <2>2, <2>6, <2>7, <4>1, NoLedAfter
      <4>3. QED
        BY <4>2
    <3>2. CASE rc.kind # "led"
      BY <3>2 DEF Spoken
    <3>3. QED
      BY <3>1, <3>2
  <2>10. PICK says : says = Spoken(rc, LastLed(d))
    OBVIOUS
  <2>11. Carries(At("rect", 0, left), d, RectItems(rc), RectDone(left - 1), RectSaid(left - 1, d \o says))
    BY <2>3, <2>8, <2>10, CarriesRect
  <2>12. RectDone(N - k) = At("rect", 0, left) /\ RectSaid(N - k, c \o fs[k]) = d
    BY <2>4, <2>7, Zenon DEF RectDone, RectSaid
  <2>13. Carries(r0, c0, fi[k] \o RectItems(rc), RectDone(left - 1), RectSaid(left - 1, d \o says))
    <3>1. PICK f : f = fi[k]
      OBVIOUS
    <3>2. Carries(r0, c0, f, At("rect", 0, left), d)
      BY <2>2, <2>12, <3>1
    <3>3. Carries(r0, c0, f \o RectItems(rc), RectDone(left - 1), RectSaid(left - 1, d \o says))
      BY <2>11, <3>2, CarriesJoins
    <3>4. QED
      BY <3>1, <3>3
  <2>14. d \o says = c \o fs[k + 1]
    <3>1. Speech(says)
      BY <2>10, SpokenTyped
    <3>2. (c \o fs[k]) \o says = c \o (fs[k] \o says)
      <4>1. PICK f : f = fs[k]
        OBVIOUS
      <4>2. Speech(f)
        BY <2>6, <4>1
      <4>3. (c \o f) \o says = c \o (f \o says)
        <5>1. Regroups(c, f, says)
          BY <3>1, <4>2, SpeechAssociative, Zenon
        <5>2. QED
          BY <5>1, Zenon DEF Regroups
      <4>4. QED
        BY <4>1, <4>3
    <3>3. fs[k + 1] = fs[k] \o says
      BY <2>6, <2>9, <2>10
    <3>4. QED
      BY <2>7, <3>2, <3>3
  <2>15. Read(k + 1)
    BY <2>4, <2>6, <2>13, <2>14
  <2>16. ASSUME \A j \in 1 .. k + 1 : u[j].kind # "led" PROVE NoLed(fs[k + 1])
    <3>1. NoLed(fs[k]) /\ rc.kind # "led"
      BY <2>2, <2>3, <2>16
    <3>2. NoLed(Spoken(rc, LastLed(c))) /\ Speech(Spoken(rc, LastLed(c)))
      BY <3>1, SpokenQuiet, SpokenTyped
    <3>3. QED
      BY <2>6, <3>1, <3>2, NoLedJoins
  <2> HIDE DEF Read
  <2>17. QED
    BY <2>15, <2>16
<1>6. Nat \subseteq T
  <2> HIDE DEF T
  <2>1. QED
    BY <1>4, <1>5, SetInduction
<1>7. Read(m)
  <2> HIDE DEF Read
  <2>1. QED
    BY <1>6
<1>8. QED
  BY <1>2, <1>3, <1>7

Announced(u) == IF u # <<>> /\ Last(u).kind = "last" THEN ManyRects ELSE Len(u)

(* An update: as many rectangles as announced, or as many as come before
   LastRect, and at its end what the server meant. *)
LEMMA CarriesUpdate ==
  ASSUME NEW u \in Updates, Speech(meant)
  PROVE  /\ Carries(NextId, meant,
                    <<Id("FramebufferUpdate"), Item("update", Announced(u), "")>> \o FlattenSeq(RectSeq(u)),
                    NextId, meant \o (FlattenSeq(SaysSeq(u)) \o <<Tell("update", 0)>>))
         /\ Speech(FlattenSeq(SaysSeq(u)) \o <<Tell("update", 0)>>)
<1>1. /\ u \in Seq(Rects) /\ Len(u) < ManyRects
      /\ \A i \in DOMAIN u : u[i].kind = "last" => i = Len(u)
      /\ \A i, j \in DOMAIN u : u[i].kind = "led" /\ u[j].kind = "led" => i = j
  BY MessagesAssumption
<1>2. Len(u) \in Nat /\ DOMAIN u = 1 .. Len(u) /\ \A k \in 1 .. Len(u) : u[k] \in Rects
  BY <1>1, LenProperties
<1>3. PICK c : c = meant
  OBVIOUS
<1>4. PICK n \in Nat : n = Len(u)
  BY <1>2
<1>5. PICK N \in Nat : N = Announced(u) /\ N >= n /\ (N > n \/ ~(u # <<>> /\ Last(u).kind = "last"))
  <2>1. CASE u # <<>> /\ Last(u).kind = "last"
    <3>1. Announced(u) = ManyRects
      BY <2>1, Zenon DEF Announced
    <3>2. ManyRects \in Nat /\ ManyRects > n
      BY <1>1, <1>4 DEF ManyRects
    <3>3. QED
      BY <3>1, <3>2
  <2>2. CASE ~(u # <<>> /\ Last(u).kind = "last")
    <3>1. Announced(u) = n
      BY <1>4, <2>2, Zenon DEF Announced
    <3>2. QED
      BY <2>2, <3>1
  <2>3. QED
    BY <2>1, <2>2
<1>6. PICK fi \in [0 .. n -> Seq(Honest(All))] :
        /\ fi[0] = <<>> /\ fi[n] = FlattenSeq(RectSeq(u))
        /\ \A k \in 1 .. n : fi[k] = fi[k - 1] \o RectItems(u[k])
  <2>1. \A i \in DOMAIN u : RectOffers(u[i]) \subseteq All
    BY <1>2 DEF RectOffers, Rects, All, Extensions
  <2>2. /\ RectSeq(u) \in Seq(Seq(Honest(All))) /\ Len(RectSeq(u)) = n
        /\ \A k \in 1 .. n : RectSeq(u)[k] = RectItems(u[k])
    BY <1>1, <1>4, <2>1, UpdateTyped
  <2>3. PICK S : S = Honest(All)
    OBVIOUS
  <2>4. PICK rs \in Seq(Seq(S)) : rs = RectSeq(u)
    BY <2>2, <2>3
  <2>5. PICK f \in [0 .. Len(rs) -> Seq(S)] :
          /\ f[0] = <<>> /\ f[Len(rs)] = FlattenSeq(rs)
          /\ \A k \in 1 .. Len(rs) : f[k] = f[k - 1] \o rs[k]
    BY Flattened
  <2>6. QED
    BY <2>2, <2>3, <2>4, <2>5
<1>7. PICK fs \in [0 .. n -> Seq(Callbacks)] :
        /\ fs[0] = <<>> /\ fs[n] = FlattenSeq(SaysSeq(u))
        /\ \A k \in 1 .. n : fs[k] = fs[k - 1] \o RectSays(u[k])
  <2>1. /\ SaysSeq(u) \in Seq(Seq(Callbacks)) /\ Len(SaysSeq(u)) = n
        /\ \A k \in 1 .. n : SaysSeq(u)[k] = RectSays(u[k])
    BY <1>1, <1>4, SaysTyped
  <2>2. PICK S : S = Callbacks
    OBVIOUS
  <2>3. PICK rs \in Seq(Seq(S)) : rs = SaysSeq(u)
    BY <2>1, <2>2
  <2>4. PICK f \in [0 .. Len(rs) -> Seq(S)] :
          /\ f[0] = <<>> /\ f[Len(rs)] = FlattenSeq(rs)
          /\ \A k \in 1 .. Len(rs) : f[k] = f[k - 1] \o rs[k]
    BY Flattened
  <2>5. QED
    BY <2>1, <2>2, <2>3, <2>4
<1>8. \A k \in 1 .. n : fs[k] = fs[k - 1] \o Spoken(u[k], LastLed(c))
  <2>1. ASSUME NEW rc PROVE RectSays(rc) = Spoken(rc, LastLed(c))
    BY <1>3 DEF RectSays, Spoken
  <2>2. QED
    BY <1>7, <2>1
<1>9. \A k \in 0 .. n : Speech(fs[k])
  BY <1>7 DEF Speech
<1>10. PICK up1 : up1 = <<Tell("update", 0)>>
  OBVIOUS
<1>11. Speech(c) /\ Speech(fs[n]) /\ Speech(up1)
  BY <1>3, <1>9, <1>10, Speeches DEF Told
<1>12. Speech(fs[n] \o up1) /\ c \o (fs[n] \o up1) = (c \o fs[n]) \o up1
  <2>1. PICK f : f = fs[n]
    OBVIOUS
  <2>2. Speech(f)
    BY <1>11, <2>1
  <2>3. Speech(f \o up1)
    BY <1>11, <2>2, SpeechesJoin
  <2>4. (c \o f) \o up1 = c \o (f \o up1)
    <3>1. Speech(c)
      BY <1>11
    <3>2. Speech(up1)
      BY <1>11
    <3>3. QED
      <4>1. Regroups(c, f, up1)
        BY <2>2, <3>1, <3>2, SpeechAssociative, Zenon
      <4>2. QED
        BY <4>1, Zenon DEF Regroups
  <2>5. QED
    BY <2>1, <2>3, <2>4
<1>13. Carries(NextId, c, <<Id("FramebufferUpdate"), Item("update", N, "")>>, RectDone(N), RectSaid(N, c))
  <2>1. Carries(NextId, c, <<Id("FramebufferUpdate")>>, At("update", 0, 0), c)
    BY <1>11, CarriesId DEF Ids, IdNext
  <2>2. PICK g : g = Item("update", N, "")
    OBVIOUS
  <2>3. g \in Honest(All) /\ Fits(At("update", 0, 0), g)
    <3>1. g \in Honest(All)
      BY <2>2, AllHonest
    <3>2. QED
      BY <2>2, <3>1 DEF Fits, At, Item
  <2>4. NextReader(At("update", 0, 0), g) = RectDone(N) /\ Tells(LastLed(c), At("update", 0, 0), g) = RectSaid(N, <<>>)
    BY <2>2 DEF NextReader, Tells, Item
  <2>5. c \o RectSaid(N, <<>>) = RectSaid(N, c) /\ Speech(RectSaid(N, <<>>))
    BY <1>11, SaidAlone
  <2>6. Carries(At("update", 0, 0), c, <<g>>, RectDone(N), RectSaid(N, c))
    BY <1>11, <2>3, <2>4, <2>5, CarriesOne
  <2>7. Carries(NextId, c, <<Id("FramebufferUpdate"), g>>, RectDone(N), RectSaid(N, c))
    BY <2>1, <2>6, CarriesTwo, Zenon
  <2>8. QED
    BY <2>2, <2>7
<1>14. Carries(RectDone(N), RectSaid(N, c), fi[n], NextId, (c \o fs[n]) \o up1)
  <2>1. ASSUME NEW m \in 0 .. n, \A k \in 1 .. m : u[k].kind # "last"
        PROVE  Carries(RectDone(N), RectSaid(N, c), fi[m], RectDone(N - m), RectSaid(N - m, c \o fs[m]))
    <3>1. \A k \in 1 .. Len(u) : fi[k] = fi[k - 1] \o RectItems(u[k]) /\ fs[k] = fs[k - 1] \o Spoken(u[k], LastLed(c))
      BY <1>4, <1>6, <1>8
    <3>2. \A k \in 0 .. Len(u) : Speech(fs[k])
      BY <1>4, <1>9
    <3>3. m \in 0 .. Len(u) /\ m <= N
      BY <1>4, <1>5
    <3>4. \A i, j \in 1 .. Len(u) : u[i].kind = "led" /\ u[j].kind = "led" => i = j
      BY <1>1, <1>2
    <3>5. QED
      BY <1>1, <1>6, <1>7, <1>11, <2>1, <3>1, <3>2, <3>3, <3>4, CarriesRects
  <2>2. CASE ~(u # <<>> /\ Last(u).kind = "last")
    <3>1. \A k \in 1 .. n : u[k].kind # "last"
      <4>1. ASSUME NEW k \in 1 .. n, u[k].kind = "last" PROVE FALSE
        <5>1. k \in DOMAIN u
          BY <1>2, <1>4
        <5>2. k = Len(u)
          BY <1>1, <4>1, <5>1
        <5>3. u # <<>>
          BY <5>1
        <5>4. QED
          BY <2>2, <4>1, <5>2, <5>3 DEF Last
      <4>2. QED
        BY <4>1
    <3>2. N = n /\ N - n = 0 /\ n \in 0 .. n
      BY <1>4, <1>5, <2>2 DEF Announced
    <3>3. Carries(RectDone(N), RectSaid(N, c), fi[n], RectDone(0), RectSaid(0, c \o fs[n]))
      BY <2>1, <3>1, <3>2
    <3>4. RectDone(0) = NextId /\ RectSaid(0, c \o fs[n]) = (c \o fs[n]) \o up1
      BY <1>10 DEF RectDone, RectSaid
    <3>5. QED
      BY <3>3, <3>4
  <2>3. CASE u # <<>> /\ Last(u).kind = "last"
    <3>1. n > 0 /\ N > n /\ u[n].kind = "last" /\ u[n] \in Rects
      BY <1>1, <1>2, <1>4, <1>5, <2>3, EmptySeq DEF Last
    <3>2. PICK m \in 0 .. n : m = n - 1
      BY <3>1
    <3>3. \A k \in 1 .. m : u[k].kind # "last"
      BY <1>1, <1>2, <1>4, <3>2
    <3>4. PICK left \in Nat : left = N - m /\ left > 0
      BY <3>1, <3>2
    <3>5. Carries(RectDone(N), RectSaid(N, c), fi[m], RectDone(left), RectSaid(left, c \o fs[m]))
      BY <2>1, <3>3, <3>4
    <3>6. PICK d : d = c \o fs[m]
      OBVIOUS
    <3>7. Speech(d)
      BY <1>9, <1>11, <3>6, SpeechesJoin
    <3>8. RectDone(left) = At("rect", 0, left) /\ RectSaid(left, d) = d
      BY <3>4, Zenon DEF RectDone, RectSaid
    <3>9. Carries(At("rect", 0, left), d, RectItems(u[n]), NextId, d \o up1)
      BY <1>10, <3>1, <3>7, CarriesLast
    <3>10. Carries(RectDone(N), RectSaid(N, c), fi[m] \o RectItems(u[n]), NextId, d \o up1)
      BY <3>5, <3>6, <3>8, <3>9, CarriesJoins, Zenon
    <3>11. fi[n] = fi[m] \o RectItems(u[n]) /\ fs[n] = fs[m] \o Spoken(u[n], LastLed(c))
      <4>1. n \in 1 .. n /\ n - 1 = m
        BY <3>1, <3>2
      <4>2. fi[n] = fi[n - 1] \o RectItems(u[n])
        BY <1>6, <4>1
      <4>3. fs[n] = fs[n - 1] \o Spoken(u[n], LastLed(c))
        BY <1>8, <4>1
      <4>4. QED
        BY <4>1, <4>2, <4>3
    <3>12. Spoken(u[n], LastLed(c)) = <<>>
      BY <3>1 DEF Spoken
    <3>13. fs[n] = fs[m]
      BY <1>9, <3>11, <3>12, ConcatEmptySeq DEF Speech
    <3>14. QED
      BY <3>6, <3>10, <3>11, <3>13
  <2>4. QED
    BY <2>2, <2>3
<1>15. PICK opening : opening = <<Id("FramebufferUpdate"), Item("update", N, "")>>
  OBVIOUS
<1>16. Carries(NextId, c, opening \o fi[n], NextId, (c \o fs[n]) \o up1)
  BY <1>13, <1>14, <1>15, CarriesJoins, Zenon
<1>17. QED
  BY <1>3, <1>5, <1>6, <1>7, <1>10, <1>12, <1>15, <1>16

-----------------------------------------------------------------------------
(* What a handler tells is of the session's life only when it is told of the
   keyboard's state. *)
LEMMA SaidFrom ==
  ASSUME NEW S, NEW x, NEW cs \in Seq(S), Tell("update", 0) \in S
  PROVE  RectSaid(x, cs) \in Seq(S)
<1>1. PICK u : u = <<Tell("update", 0)>>
  OBVIOUS
<1>2. u \in Seq(S)
  BY <1>1, Singleton
<1>3. cs \o u \in Seq(S)
  BY <1>2, ConcatProperties
<1>4. QED
  BY <1>1, <1>3, Zenon DEF RectSaid

Plain == Told \ {"led", "status", "disconnect"}

(* At a rectangle's header. *)
LEMMA RectTellsFrom ==
  ASSUME NEW S, NEW l, NEW left, NEW kind, NEW n,
         Tell("update", 0) \in S, Tell("position", 0) \in S, Tell("size", 0) \in S,
         kind = "led" => Tell("led", n) \in S
  PROVE  RectTells(l, left, kind, n) \in Seq(S)
<1>1. <<>> \in Seq(S) /\ <<Tell("position", 0)>> \in Seq(S) /\ <<Tell("size", 0)>> \in Seq(S)
  BY Singleton
<1>2. \A x : RectSaid(x, <<>>) \in Seq(S) /\ RectSaid(x, <<Tell("position", 0)>>) \in Seq(S)
             /\ RectSaid(x, <<Tell("size", 0)>>) \in Seq(S)
  BY <1>1, SaidFrom
<1>3. CASE kind = "led"
  <2>1. PICK cs : cs = IF n = l THEN <<>> ELSE <<Tell("led", n)>>
    OBVIOUS
  <2>2. <<Tell("led", n)>> \in Seq(S)
    BY <1>3, Singleton
  <2>3. cs \in Seq(S)
    BY <1>1, <2>1, <2>2, Zenon
  <2>4. RectTells(l, left, kind, n) = RectSaid(left - 1, cs)
    BY <1>3, <2>1 DEF RectTells
  <2>5. QED
    BY <2>3, <2>4, SaidFrom
<1>4. CASE kind # "led"
  BY <1>1, <1>2, <1>4, Zenon DEF RectTells
<1>5. QED
  BY <1>3, <1>4

(* At every item. *)
LEMMA TellsFrom ==
  ASSUME NEW S, NEW l, NEW r, NEW off, NEW g \in Honest(off),
         \A k \in Plain, n \in Int : Tell(k, n) \in S,
         g.is = "rect" /\ g.val = "led" => Tell("led", g.n) \in S
  PROVE  Tells(l, r, g) \in Seq(S)
<1>1. g.n \in Int
  BY ItemIs
<1>2. /\ <<>> \in Seq(S)
      /\ \A k \in Plain : Tell(k, 0) \in S /\ <<Tell(k, 0)>> \in Seq(S) /\ <<Tell(k, g.n)>> \in Seq(S)
  BY <1>1, Singleton
<1>3. {"bell", "cut", "cutUtf8", "chat", "size", "monitors", "update", "position"} \subseteq Plain
  BY DEF Plain, Told
<1>4. PICK n : n = g.n
  OBVIOUS
<1>5. \A x : RectSaid(x, <<>>) \in Seq(S)
  BY <1>2, <1>3, SaidFrom
<1>6. RectTells(l, r.left, g.val, n) \in Seq(S) \/ g.is # "rect"
  BY <1>2, <1>3, <1>4, RectTellsFrom
<1>7. /\ <<Tell("bell", 0)>> \in Seq(S) /\ <<Tell("cut", n)>> \in Seq(S) /\ <<Tell("cutUtf8", n)>> \in Seq(S)
      /\ <<Tell("chat", n)>> \in Seq(S) /\ <<Tell("size", 0)>> \in Seq(S) /\ <<Tell("monitors", n)>> \in Seq(S)
  BY <1>2, <1>3, <1>4
<1>8. QED
  BY <1>2, <1>4, <1>5, <1>6, <1>7, Zenon DEF Tells

(* The keyboard's state the client knows once it has handled an item. *)
NextLed(l, g) == IF g.is = "rect" /\ g.val = "led" THEN g.n ELSE l
Ordinary == {x \in Callbacks : x.to \notin {"status", "disconnect"}}

(* No handler tells of the end of the session. *)
LEMMA TellsOrdinary ==
  ASSUME NEW l, NEW r, NEW off, NEW g \in Honest(off)
  PROVE  Tells(l, r, g) \in Seq(Ordinary)
<1>1. \A k \in Plain \cup {"led"}, n \in Int : Tell(k, n) \in Ordinary
  BY DEF Plain, Told, Tell, Ordinary, Callbacks
<1>2. Tell("led", g.n) \in Ordinary
  BY <1>1, ItemIs
<1>3. QED
  BY <1>1, <1>2, TellsFrom

(* Only a rectangle of the keyboard's state tells of it. *)
LEMMA TellsNoLed ==
  ASSUME NEW l, NEW r, NEW off, NEW g \in Honest(off), ~(g.is = "rect" /\ g.val = "led")
  PROVE  NoLed(Tells(l, r, g))
<1> DEFINE S == {x \in Callbacks : x.to # "led"}
<1>1. \A k \in Plain, n \in Int : Tell(k, n) \in S
  BY DEF Plain, Told, Tell, Callbacks
<1>2. \A x \in S : x.to # "led"
  OBVIOUS
<1> HIDE DEF S
<1>3. Tells(l, r, g) \in Seq(S)
  BY <1>1, TellsFrom
<1>4. PICK c \in Seq(S) : c = Tells(l, r, g)
  BY <1>3
<1>5. \A i \in DOMAIN c : c[i] \in S
  BY LenProperties
<1>6. NoLed(c)
  BY <1>2, <1>5 DEF NoLed
<1>7. QED
  BY <1>4, <1>6

(* What handlers tell is a speech. *)
LEMMA OrdinarySpeech == ASSUME NEW c \in Seq(Ordinary) PROVE Speech(c)
<1>1. Ordinary \subseteq Callbacks
  BY DEF Ordinary
<1> HIDE DEF Ordinary
<1>2. QED
  BY <1>1, SeqMonotonic DEF Speech

(* What is told next is of the state that is known by then. *)
LEMMA TellsLed ==
  ASSUME NEW c, Speech(c), NEW r, NEW off, NEW g \in Honest(off)
  PROVE  LastLed(c \o Tells(LastLed(c), r, g)) = NextLed(LastLed(c), g)
<1>1. PICK l : l = LastLed(c)
  OBVIOUS
<1>2. PICK d : d = Tells(l, r, g)
  OBVIOUS
<1>3. Speech(d)
  BY <1>2, TellsOrdinary, OrdinarySpeech
<1>4. CASE ~(g.is = "rect" /\ g.val = "led")
  <2>1. NoLed(d)
    BY <1>2, <1>4, TellsNoLed
  <2>2. QED
    BY <1>1, <1>2, <1>3, <1>4, <2>1, NoLedAfter DEF NextLed
<1>5. CASE g.is = "rect" /\ g.val = "led"
  <2>1. PICK cs : cs = IF g.n = l THEN <<>> ELSE <<Tell("led", g.n)>>
    OBVIOUS
  <2>2. g.n \in Int
    BY ItemIs
  <2>3. Speech(cs)
    <3>1. Speech(<<>>) /\ Speech(<<Tell("led", g.n)>>)
      BY <2>2, Speeches DEF Told
    <3>2. QED
      BY <2>1, <3>1, Zenon
  <2>4. PICK x : x = r.left - 1
    OBVIOUS
  <2>5. d = RectSaid(x, cs)
    BY <1>2, <1>5, <2>1, <2>4 DEF Tells, RectTells
  <2>6. PICK e : e = c \o cs
    OBVIOUS
  <2>7. Speech(e) /\ c \o d = RectSaid(x, e)
    BY <2>3, <2>5, <2>6, SaidJoins, SpeechesJoin
  <2>8. LastLed(e) = g.n
    <3>1. CASE g.n = l
      <4>1. e = c
        BY <2>1, <2>6, <3>1, ConcatEmptySeq DEF Speech
      <4>2. QED
        BY <1>1, <3>1, <4>1
    <3>2. CASE g.n # l
      <4>1. e = c \o <<Tell("led", g.n)>>
        BY <2>1, <2>6, <3>2
      <4>2. Tell("led", g.n) \in Callbacks
        BY <2>2 DEF Tell, Callbacks
      <4>3. QED
        BY <4>1, <4>2, LedAfter
    <3>3. QED
      BY <3>1, <3>2
  <2>9. LastLed(RectSaid(x, e)) = LastLed(e)
    <3>1. PICK u : u = <<Tell("update", 0)>>
      OBVIOUS
    <3>2. Speech(u) /\ NoLed(u)
      <4>1. Speech(u)
        BY <3>1, Speeches DEF Told
      <4>2. NoLed(<<Tell("update", 0)>>)
        BY DEF NoLed, Tell
      <4>3. QED
        BY <3>1, <4>1, <4>2
    <3>3. LastLed(e \o u) = LastLed(e)
      BY <2>7, <3>2, NoLedAfter
    <3>4. RectSaid(x, e) = e \/ RectSaid(x, e) = e \o u
      BY <3>1, Zenon DEF RectSaid
    <3>5. QED
      BY <3>3, <3>4
  <2>10. QED
    BY <1>1, <1>2, <1>5, <2>7, <2>8, <2>9 DEF NextLed
<1>6. QED
  BY <1>4, <1>5

(* Handlers note the state as the client does here. *)
LEMMA HandleLeds == ASSUME PromiseInv, Handle PROVE led' = NextLed(led, got)
<1>1. PICK g : g = got
  OBVIOUS
<1>2. g \in Honest(offered)
  <2>1. got.is # "none" /\ None.is = "none"
    BY DEF Handle, None, Item
  <2>2. QED
    BY <1>1, <2>1 DEF PromiseInv
<1>3. Same => led' = led
  BY DEF Same, capabilities
<1>4. CASE g.is = "id"
  <2>1. HandleId(g.val) /\ g.val \in Ids
    BY <1>1, <1>2, <1>4, ItemIs DEF Handle
  <2>2. led' = led
    BY <1>3, <2>1 DEF HandleId, Allows, Ids
  <2>3. QED
    BY <1>1, <1>4, <2>2 DEF NextLed
<1>5. CASE g.is = "rect"
  <2>1. HandleRect(g.val, g.n) /\ g.val \in RectKinds
    BY <1>1, <1>2, <1>5, ItemIs DEF Handle
  <2>2. CASE g.val = "led"
    BY <1>1, <1>5, <2>1, <2>2 DEF HandleRect, HandleLed, NextLed
  <2>3. CASE g.val # "led"
    <3>1. Same
      BY <2>1, <2>3 DEF HandleRect, HandlePosition, HandleNewSize, HandleUnused, RectKinds
    <3>2. QED
      BY <1>1, <1>3, <2>3, <3>1 DEF NextLed
  <2>4. QED
    BY <2>2, <2>3
<1>6. CASE g.is \in {"update", "cutText", "text", "textChat", "chat", "resize"}
  BY <1>1, <1>3, <1>6 DEF Handle, NextLed
<1>7. CASE g.is \in {"flagged", "xvp", "monitor"}
  BY <1>1, <1>3, <1>7 DEF Handle, HandleFlagged, HandleMonitor, Allows, NextLed
<1>8. CASE g.is \in InRect \ {"rect"}
  <2>1. HandleBody(g)
    BY <1>1, <1>8 DEF Handle, InRect
  <2>2. led' = led
    BY <1>3, <1>8, <2>1 DEF HandleBody, HandleList, HandleScreens, InRect
  <2>3. QED
    BY <1>1, <1>8, <2>2 DEF NextLed, InRect
<1>9. QED
  BY <1>2, <1>4, <1>5, <1>6, <1>7, <1>8, ItemIs DEF InRect

-----------------------------------------------------------------------------
(* The server's step, as the client will follow it. *)
Adds(items, says) ==
  /\ s2c' = s2c \o items /\ meant' = meant \o says
  /\ Carries(NextId, meant, items, NextId, meant \o says)

(* Texts, plain and extended. *)
LEMMA TextLeads == ASSUME Speech(meant), SendText PROVE \E items, says : Adds(items, says)
<1>1. PICK n \in Texts :
    \/ Sends(<<Id("ServerCutText"), Item("cutText", n, ""), Item("text", n, "")>>, <<Tell("cut", n)>>, {})
    \/ \E flags \in {{"caps", "text", "provide"}, {"text", "provide"}, {"text"}, {"provide"}} :
         Sends(<<Id("ServerCutText"), Item("cutText", -n, ""), SetItem("flagged", n, flags)>>,
               IF flags = {"text", "provide"} THEN <<Tell("cutUtf8", n)>> ELSE <<>>,
               IF "caps" \in flags THEN {"ExtendedCutText"} ELSE {})
  BY DEF SendText
<1>2. n \in Nat /\ n > 0
  BY MessagesAssumption
<1>3. CASE Sends(<<Id("ServerCutText"), Item("cutText", n, ""), Item("text", n, "")>>, <<Tell("cut", n)>>, {})
  <2>1. Carries(NextId, meant, <<Id("ServerCutText"), Item("cutText", n, ""), Item("text", n, "")>>, NextId,
                meant \o <<Tell("cut", n)>>)
    BY <1>2, CarriesText
  <2>2. QED
    BY <1>3, <2>1, Zenon DEF Sends, Adds
<1>4. ASSUME NEW flags \in {{"caps", "text", "provide"}, {"text", "provide"}, {"text"}, {"provide"}},
             Sends(<<Id("ServerCutText"), Item("cutText", -n, ""), SetItem("flagged", n, flags)>>,
               IF flags = {"text", "provide"} THEN <<Tell("cutUtf8", n)>> ELSE <<>>,
               IF "caps" \in flags THEN {"ExtendedCutText"} ELSE {})
      PROVE  \E items, says : Adds(items, says)
  <2>1. PICK m \in Int : m = -n
    BY <1>2
  <2>2. flags \in SUBSET Flags
    BY DEF Flags
  <2>3. PICK says : says = IF flags = {"text", "provide"} THEN <<Tell("cutUtf8", n)>> ELSE <<>>
    OBVIOUS
  <2>4. Carries(NextId, meant, <<Id("ServerCutText"), Item("cutText", m, ""), SetItem("flagged", n, flags)>>, NextId,
                meant \o says)
    BY <1>2, <2>1, <2>2, <2>3, CarriesFlagged
  <2>5. PICK x : x = -n
    OBVIOUS
  <2>6. x = m
    BY <2>1, <2>5
  <2>7. s2c' = s2c \o <<Id("ServerCutText"), Item("cutText", x, ""), SetItem("flagged", n, flags)>>
        /\ meant' = meant \o says
    BY <1>4, <2>3, <2>5 DEF Sends
  <2>8. QED
    BY <2>4, <2>6, <2>7, Zenon DEF Adds
<1>5. QED
  BY <1>1, <1>3, <1>4

(* Whatever the server sends is read to its end and told as it is meant. *)
LEMMA SendLeads == ASSUME PromiseInv, ServerSends PROVE \E items, says : Adds(items, says)
<1>1. Speech(meant)
  BY DEF PromiseInv, Speech
<1>2. PICK c : c = meant
  OBVIOUS
<1>3. CASE SendText
  BY <1>1, <1>3, TextLeads
<1>4. ASSUME NEW u \in Updates, SendUpdate(u) PROVE \E items, says : Adds(items, says)
  <2>1. PICK items : items = <<Id("FramebufferUpdate"), Item("update", Announced(u), "")>> \o FlattenSeq(RectSeq(u))
    OBVIOUS
  <2>2. PICK says : says = FlattenSeq(SaysSeq(u)) \o <<Tell("update", 0)>>
    OBVIOUS
  <2>3. s2c' = s2c \o items /\ meant' = meant \o says
    BY <1>4, <2>1, <2>2, Zenon DEF SendUpdate, Sends, RectSeq, SaysSeq, Announced
  <2>4. Carries(NextId, meant, items, NextId, meant \o says)
    BY <1>1, <2>1, <2>2, CarriesUpdate
  <2>5. QED
    BY <2>3, <2>4 DEF Adds
<1>5. ASSUME NEW n \in Texts \cup {0, -1, -2, -3},
             Sends(<<Id("TextChat"), Item("textChat", n, "")>> \o IF n > 0 THEN <<Item("chat", n, "")>> ELSE <<>>,
                   <<Tell("chat", n)>>, {})
      PROVE  \E items, says : Adds(items, says)
  <2>1. n \in Nat \cup {-1, -2, -3}
    <3>1. Texts \subseteq Nat
      BY MessagesAssumption
    <3>2. QED
      BY <3>1
  <2>2. PICK items : items = <<Id("TextChat"), Item("textChat", n, "")>> \o IF n > 0 THEN <<Item("chat", n, "")>> ELSE <<>>
    OBVIOUS
  <2>3. Carries(NextId, meant, items, NextId, meant \o <<Tell("chat", n)>>)
    BY <1>1, <2>1, <2>2, CarriesChat, Zenon
  <2>4. QED
    BY <1>5, <2>2, <2>3, Zenon DEF Sends, Adds
<1>6. CASE Sends(<<Id("Bell")>>, <<Tell("bell", 0)>>, {})
  <2>1. Carries(NextId, meant, <<Id("Bell")>>, NextId, meant \o <<Tell("bell", 0)>>)
    BY <1>1, CarriesBell
  <2>2. QED
    BY <1>6, <2>1, Zenon DEF Sends, Adds
<1>7. CASE Sends(<<Id("Xvp"), Item("xvp", 0, "")>>, <<>>, {"Xvp"})
  <2>1. "Xvp" \in Ids \ {"Bell"} /\ IdNext("Xvp") = At("xvp", 0, 0) /\ Speech(<<>>)
        /\ <<>> = Tells(0, At("xvp", 0, 0), Item("xvp", 0, ""))
    <3>1. Speech(<<>>)
      BY Speeches
    <3>2. "Xvp" \in Ids \ {"Bell"} /\ IdNext("Xvp") = At("xvp", 0, 0)
      BY DEF Ids, IdNext
    <3>3. <<>> = Tells(0, At("xvp", 0, 0), Item("xvp", 0, ""))
      BY DEF Tells, Item
    <3>4. QED
      BY <3>1, <3>2, <3>3
  <2>2. Carries(NextId, meant, <<Id("Xvp"), Item("xvp", 0, "")>>, NextId, meant \o <<>>)
    BY <1>1, <2>1, CarriesPlain
  <2>3. QED
    BY <1>7, <2>2, Zenon DEF Sends, Adds
<1>8. ASSUME NEW id \in {"ResizeFrameBuffer", "PalmVNCReSizeFrameBuffer"},
             Sends(<<Id(id), Item("resize", 0, "")>>, <<Tell("size", 0)>>, {})
      PROVE  \E items, says : Adds(items, says)
  <2>1. id \in Ids \ {"Bell"} /\ IdNext(id) = At("resize", 0, 0)
    BY DEF Ids, IdNext
  <2>2. PICK says : says = <<Tell("size", 0)>>
    OBVIOUS
  <2>3. Speech(says) /\ says = Tells(0, At("resize", 0, 0), Item("resize", 0, ""))
    <3>1. Speech(says)
      BY <2>2, Speeches DEF Told
    <3>2. QED
      BY <2>2, <3>1 DEF Tells, Item
  <2>4. Carries(NextId, meant, <<Id(id), Item("resize", 0, "")>>, NextId, meant \o says)
    BY <1>1, <2>1, <2>3, CarriesPlain
  <2>5. QED
    BY <1>8, <2>2, <2>4, Zenon DEF Sends, Adds
<1>9. CASE Sends(<<Id("MonitorInfo"), Item("monitor", 2, "")>>, <<Tell("monitors", 2)>>, {"SetMonitor"})
  <2>1. "MonitorInfo" \in Ids \ {"Bell"} /\ IdNext("MonitorInfo") = At("monitor", 0, 0)
    BY DEF Ids, IdNext
  <2>2. PICK says : says = <<Tell("monitors", 2)>>
    OBVIOUS
  <2>3. Speech(says) /\ says = Tells(0, At("monitor", 0, 0), Item("monitor", 2, ""))
    <3>1. Speech(says)
      BY <2>2, Speeches DEF Told
    <3>2. QED
      BY <2>2, <3>1 DEF Tells, Item
  <2>4. Carries(NextId, meant, <<Id("MonitorInfo"), Item("monitor", 2, "")>>, NextId, meant \o says)
    BY <1>1, <2>1, <2>3, CarriesPlain
  <2>5. QED
    BY <1>9, <2>2, <2>4, Zenon DEF Sends, Adds
<1>10. CASE Sends(<<Id("KeepAlive")>>, <<>>, {"KeepAlive"})
  <2>1. Carries(NextId, meant, <<Id("KeepAlive")>>, NextId, meant)
    <3>1. "KeepAlive" \in Ids /\ IdNext("KeepAlive") = NextId
      BY DEF Ids, IdNext
    <3>2. Carries(NextId, meant, <<Id("KeepAlive")>>, IdNext("KeepAlive"), meant)
      BY <1>1, <3>1, CarriesId
    <3>3. QED
      BY <3>1, <3>2
  <2>2. meant \o <<>> = meant
    BY <1>1, ConcatEmptySeq DEF Speech
  <2>3. QED
    BY <1>10, <2>1, <2>2, Zenon DEF Sends, Adds
<1>11. QED
  BY <1>3, <1>4, <1>5, <1>6, <1>7, <1>8, <1>9, <1>10, Zenon DEF ServerSends

-----------------------------------------------------------------------------
(* What has arrived or is under way and is not handled yet. *)
Pending == IF got = None THEN s2c ELSE <<got>> \o s2c

(* As long as the session is open: the client, read on from here, will have
   told exactly what the server has said by the time nothing is pending, and
   be at a message's start. *)
Aligned(said) ==
  /\ Speech(said)
  /\ handler => said = told \o calls
  /\ calls \in Seq(Ordinary)
  /\ led = LastLed(said)
  /\ Leads(St(reader, said), Pending, St(NextId, meant))

SyncInv == PromiseInv /\ (up = "open" => \E said : Aligned(said))

(* What is pending is items. *)
LEMMA ItemSeqs ==
  ASSUME PromiseInv
  PROVE  /\ s2c \in Seq(Items) /\ Pending \in Seq(Items)
         /\ got.is = "none" <=> got = None
<1>1. Honest(offered) \subseteq Items
  BY DEF Honest
<1>2. s2c \in Seq(Items)
  BY <1>1, SeqMonotonic DEF PromiseInv
<1>3. got.is = "none" <=> got = None
  <2>1. None.is = "none"
    BY DEF None, Item
  <2>2. got # None => got.is # "none"
    BY ItemIs DEF PromiseInv
  <2>3. QED
    BY <2>1, <2>2
<1>4. got # None => <<got>> \in Seq(Items)
  BY <1>1, Singleton DEF PromiseInv
<1>5. got # None => <<got>> \o s2c \in Seq(Items)
  BY <1>2, <1>4, ConcatProperties
<1>6. QED
  BY <1>2, <1>3, <1>5 DEF Pending

(* The server's step lengthens the path. *)
LEMMA SendSync ==
  ASSUME PromiseInv, NEW said, Aligned(said), ServerSends
  PROVE  Aligned(said)'
<1>1. PICK items, says : Adds(items, says)
  BY SendLeads
<1>2. s2c' = s2c \o items /\ meant' = meant \o says
  BY <1>1 DEF Adds
<1>3. items \in Seq(Items) /\ Leads(St(NextId, meant), items, St(NextId, meant'))
  <2>1. Carries(NextId, meant, items, NextId, meant')
    BY <1>1 DEF Adds
  <2>2. items \in Seq(Honest(All)) /\ Honest(All) \subseteq Items
    BY <2>1 DEF Carries, Batch, Honest
  <2>3. QED
    BY <2>1, <2>2, SeqMonotonic DEF Carries
<1>4. UNCHANGED <<handler, got, reader, calls, led, told>>
  BY DEF ServerSends, proxyVars, capabilities
<1>5. Pending' = Pending \o items
  <2>1. CASE got = None
    BY <1>2, <1>4, <2>1 DEF Pending, None, Item
  <2>2. CASE got # None
    <3>1. got \in Items
      BY <2>2 DEF PromiseInv, Honest
    <3>2. PICK one : one = <<got>>
      OBVIOUS
    <3>3. one \in Seq(Items) /\ s2c \in Seq(Items)
      BY <3>1, <3>2, Singleton, ItemSeqs
    <3>4. (one \o s2c) \o items = one \o (s2c \o items)
      BY <1>3, <3>3, ConcatAssociative
    <3>5. Pending = one \o s2c
      BY <2>2, <3>2, Zenon DEF Pending
    <3>6. Pending' = one \o s2c'
      <4>1. got' # None
        BY <1>4, <2>2
      <4>2. QED
        BY <1>4, <3>2, <4>1, Zenon DEF Pending, None, Item
    <3>7. QED
      BY <1>2, <3>4, <3>5, <3>6
  <2>3. QED
    BY <2>1, <2>2
<1>6. Leads(St(reader, said), Pending \o items, St(NextId, meant'))
  <2>1. Pending \in Seq(Items)
    BY ItemSeqs
  <2>2. Leads(St(reader, said), Pending, St(NextId, meant))
    BY DEF Aligned
  <2>3. QED
    BY <1>3, <2>1, <2>2, LeadsJoins
<1>7. Leads(St(reader, said), Pending, St(NextId, meant))'
  BY <1>4, <1>5, <1>6 DEF St, NextId, At
<1>8. QED
  BY <1>4, <1>7 DEF Aligned

(* A completed read leaves what is pending. *)
LEMMA ReadSync ==
  ASSUME PromiseInv, NEW said, Aligned(said), ReadCompletes
  PROVE  Aligned(said)'
<1>1. got = None /\ s2c # <<>> /\ got' = Head(s2c) /\ s2c' = Tail(s2c)
  BY ItemSeqs DEF ReadCompletes
<1>2. UNCHANGED <<handler, reader, calls, led, told, meant>>
  BY DEF ReadCompletes, proxyVars, capabilities, serverVars
<1>3. s2c \in Seq(Items) /\ Head(s2c) \in Items
  BY <1>1, ItemSeqs, HeadTailProperties
<1>4. Head(s2c) # None
  <2>1. s2c \in Seq(Honest(offered)) /\ Head(s2c) \in Honest(offered)
    BY <1>1, HeadTailProperties DEF PromiseInv
  <2>2. Head(s2c).is # "none" /\ None.is = "none"
    BY <2>1, ItemIs DEF None, Item
  <2>3. QED
    BY <2>2
<1>5. <<Head(s2c)>> \o Tail(s2c) = s2c
  <2>1. PICK S : S = Items
    OBVIOUS
  <2>2. s2c \in Seq(S)
    BY <1>3, <2>1
  <2>3. QED
    BY <1>1, <2>2
<1>6. Pending' = s2c /\ Pending = s2c
  <2>1. got' # None
    BY <1>1, <1>4
  <2>2. Pending' = <<got'>> \o s2c'
    BY <2>1, Zenon DEF Pending, None, Item
  <2>3. QED
    BY <1>1, <1>5, <2>2 DEF Pending
<1>7. QED
  BY <1>2, <1>6 DEF Aligned, St, NextId, At

(* A handler follows the path by one item. *)
LEMMA HandleSync ==
  ASSUME PromiseInv, NEW said, Aligned(said), Handle, NEW d, d = calls'
  PROVE  Aligned(said \o d)'
<1>2. got # None /\ got' = None /\ calls = <<>> /\ UNCHANGED <<handler, s2c, told, meant>>
  BY ItemSeqs DEF Handle, Idle, proxyVars, serverVars
<1>3. PICK g \in Honest(offered) : g = got
  BY <1>2 DEF PromiseInv
<1>4. reader' = NextReader(reader, g) /\ d = Tells(led, reader, g) /\ led' = NextLed(led, g)
  BY <1>3, HandlesAll, HandleLeds
<1>5. Speech(said) /\ led = LastLed(said) /\ (handler => said = told \o calls)
  BY DEF Aligned
<1>6. d \in Seq(Ordinary) /\ Speech(d)
  BY <1>4, TellsOrdinary, OrdinarySpeech
<1>7. Speech(said \o d)
  BY <1>5, <1>6, SpeechesJoin
<1>8. led' = LastLed(said \o d)
  BY <1>4, <1>5, TellsLed
<1>9. handler => said \o d = told \o d
  <2>1. told \o <<>> = told
    BY ConcatEmptySeq DEF PromiseInv
  <2>2. QED
    BY <1>2, <1>5, <2>1
<1>10. Leads(St(reader', said \o d), s2c, St(NextId, meant))
  <2>1. PICK items : items = <<g>> \o s2c
    OBVIOUS
  <2>2. Pending = items
    BY <1>2, <1>3, <2>1, Zenon DEF Pending
  <2>3. items \in Seq(Items)
    BY <2>2, ItemSeqs
  <2>4. items # <<>> /\ Head(items) = g /\ Tail(items) = s2c
    <3>1. PICK S : S = Items
      OBVIOUS
    <3>2. s2c \in Seq(S) /\ g \in S
      BY <3>1, ItemSeqs DEF Honest
    <3>3. QED
      BY <2>1, <3>2
  <2>5. Leads(After(St(reader, said), g), s2c, St(NextId, meant))
    <3>1. Leads(St(reader, said), items, St(NextId, meant))
      BY <2>2 DEF Aligned
    <3>2. QED
      BY <2>3, <2>4, <3>1, LeadsOn
  <2>6. After(St(reader, said), g) = St(reader', said \o d)
    BY <1>4, <1>5 DEF After, St
  <2>7. QED
    BY <2>5, <2>6
<1>11. Pending' = s2c
  BY <1>2 DEF Pending, None, Item
<1>12. Leads(St(reader, said \o d), Pending, St(NextId, meant))'
  BY <1>2, <1>10, <1>11 DEF St, NextId, At
<1>13. QED
  BY <1>2, <1>6, <1>7, <1>8, <1>9, <1>12 DEF Aligned

(* A callback made is told and no longer due. *)
LEMMA CallSync ==
  ASSUME PromiseInv, NEW said, Aligned(said), Call
  PROVE  Aligned(said)'
<1>1. calls # <<>> /\ calls' = Tail(calls) /\ UNCHANGED <<handler, got, s2c, reader, led, meant>>
  BY DEF Call, Enter, capabilities, serverVars
<1>2. Head(calls) \in Ordinary /\ Tail(calls) \in Seq(Ordinary)
  BY <1>1, HeadTailProperties DEF Aligned
<1>3. handler => told' = Append(told, Head(calls))
  <2>1. Head(calls).to \notin {"status", "disconnect"}
    BY <1>2 DEF Ordinary
  <2>2. QED
    BY <2>1 DEF Call
<1>4. handler => told' \o calls' = told \o calls
  <2>1. PICK S : S = Callbacks
    OBVIOUS
  <2>2. told \in Seq(S) /\ calls \in Seq(S)
    BY <2>1 DEF PromiseInv
  <2>3. Append(told, Head(calls)) \o Tail(calls) = told \o calls
    BY <1>1, <2>2
  <2>4. QED
    BY <1>1, <1>3, <2>3
<1>5. Pending' = Pending
  BY <1>1 DEF Pending, None, Item
<1>6. QED
  BY <1>1, <1>2, <1>4, <1>5 DEF Aligned, St, NextId, At

(* Any other step leaves it, unless it is the delegate that goes. *)
LEMMA OtherSync ==
  ASSUME NEW said, Aligned(said), UNCHANGED <<s2c, got, reader, calls, led, told, meant>>, handler' => handler
  PROVE  Aligned(said)'
<1>1. Pending' = Pending
  BY DEF Pending, None, Item
<1>2. QED
  BY <1>1 DEF Aligned, St, NextId, At

(* Nothing has been said and nothing told. *)
LEMMA InitSync == ASSUME Init PROVE SyncInv
<1>1. PromiseInv
  BY InitPromise
<1>2. PICK said : said = <<>>
  OBVIOUS
<1>3. Speech(said)
  BY <1>2, Speeches
<1>4. calls = said /\ told = said /\ s2c = <<>> /\ got = None /\ reader = NextId /\ meant = said /\ led = 0
  BY <1>2 DEF Init
<1>5. said = told \o calls
  BY <1>3, <1>4, <1>2, ConcatEmptySeq DEF Speech
<1>6. calls \in Seq(Ordinary)
  BY <1>2, <1>4, EmptySeq
<1>7. LastLed(said) = 0
  <2>1. LastLeds(said) = {}
    BY <1>2 DEF LastLeds
  <2>2. QED
    BY <2>1, LastLedIs
<1>8. Leads(St(reader, said), Pending, St(NextId, meant))
  <2>1. ToldFirst(St(NextId, said), St(NextId, said))
    BY <1>3, PrefixSelf DEF ToldFirst, St
  <2>2. Leads(St(NextId, said), <<>>, St(NextId, said))
    BY <2>1, LeadsStays
  <2>3. QED
    BY <1>4, <2>2 DEF Pending
<1>9. Aligned(said)
  BY <1>3, <1>4, <1>5, <1>6, <1>7, <1>8 DEF Aligned
<1>10. QED
  BY <1>1, <1>9 DEF SyncInv

(* The invariant is inductive. *)
LEMMA NextSync == SyncInv /\ [Next]_vars => SyncInv'
<1> SUFFICES ASSUME SyncInv, [Next]_vars PROVE SyncInv'
  OBVIOUS
<1>1. PromiseInv /\ PromiseInv'
  BY NextPromise DEF SyncInv
<1>2. SUFFICES ASSUME up' = "open" PROVE (\E said : Aligned(said))'
  BY <1>1 DEF SyncInv
<1>3. ASSUME Close \/ Ends PROVE FALSE
  BY <1>2, <1>3 DEF Close, Ends
<1>4. up = "open"
  <2>1. ServerSends \/ ReadCompletes \/ Handle \/ Call \/ Return \/ Destroy => up' = up
    BY DEF ServerSends, ReadCompletes, Handle, Call, Return, Destroy
  <2>2. (\E m \in Extensions \ {"KeepAlive"} : SendExtension(m)) \/ SendCutTextUtf8 \/ KeepAliveTick => up' = up
    BY DEF SendExtension, SendCutTextUtf8, KeepAliveTick, Sent
  <2>3. UNCHANGED vars => up' = up
    BY DEF vars
  <2>4. QED
    BY <1>2, <1>3, <2>1, <2>2, <2>3, Zenon DEF Next, StrandStep, StopInCallback, PostedStop
<1>5. PICK said : Aligned(said)
  BY <1>4 DEF SyncInv
<1>6. CASE ServerSends
  BY <1>1, <1>5, <1>6, SendSync
<1>7. CASE ReadCompletes
  BY <1>1, <1>5, <1>7, ReadSync
<1>8. CASE Handle
  <2>1. PICK d : d = calls'
    OBVIOUS
  <2>2. Aligned(said \o d)'
    BY <1>1, <1>5, <1>8, <2>1, HandleSync
  <2>3. QED
    BY <2>2
<1>9. CASE Call
  BY <1>1, <1>5, <1>9, CallSync
<1>10. CASE Return
  <2>1. UNCHANGED <<s2c, got, reader, calls, led, told, meant>> /\ handler' = handler
    BY <1>10 DEF Return, Leave, capabilities, serverVars
  <2>2. QED
    BY <1>5, <2>1, OtherSync
<1>11. CASE Destroy
  <2>1. UNCHANGED <<s2c, got, reader, calls, led, told, meant>> /\ (handler' => handler)
    BY <1>11 DEF Destroy, BeginReset, Reset, capabilities, serverVars
  <2>2. QED
    BY <1>5, <2>1, OtherSync
<1>12. CASE (\E m \in Extensions \ {"KeepAlive"} : SendExtension(m)) \/ SendCutTextUtf8 \/ KeepAliveTick
  <2>1. \E m : Sent(m)
    BY <1>12 DEF SendExtension, SendCutTextUtf8, KeepAliveTick
  <2>2. UNCHANGED <<s2c, got, reader, calls, led, told, meant>> /\ handler' = handler
    BY <2>1 DEF Sent, proxyVars, capabilities, serverVars
  <2>3. QED
    BY <1>5, <2>2, OtherSync
<1>13. CASE UNCHANGED vars
  <2>1. UNCHANGED <<s2c, got, reader, calls, led, told, meant>> /\ handler' = handler
    BY <1>13 DEF vars
  <2>2. QED
    BY <1>5, <2>1, OtherSync
<1>14. QED
  BY <1>3, <1>6, <1>7, <1>8, <1>9, <1>10, <1>11, <1>12, <1>13, Zenon DEF Next, StrandStep, StopInCallback, PostedStop

(* In every session, as long as it is open: the client read on to the end of
   what is pending will have told exactly what the server has said. *)
THEOREM AlwaysInSync == Spec => []SyncInv
BY InitSync, NextSync, PTL DEF Spec

(* In every session, for every sequence of the server's messages: what the
   handlers read next is what comes next, so no message is ever read as part
   of another (server_message_loop and on_rfb...). *)
THEOREM MessagesInStep == Spec => []InStep
<1>1. SyncInv => InStep
  <2> SUFFICES ASSUME SyncInv, up = "open", got.is = "none", s2c # <<>> PROVE Fits(reader, Head(s2c))
    BY DEF InStep, Fits
  <2>1. PICK said : Aligned(said)
    BY DEF SyncInv
  <2>2. Pending = s2c /\ s2c \in Seq(Items)
    BY ItemSeqs DEF SyncInv, Pending
  <2>3. Leads(St(reader, said), s2c, St(NextId, meant))
    BY <2>1, <2>2 DEF Aligned
  <2>4. St(reader, said)[1] = reader
    BY DEF St
  <2>5. QED
    BY <2>2, <2>3, <2>4, LeadsOn
<1>2. QED
  BY AlwaysInSync, <1>1, PTL

(* In every session the delegate is told what the server said, once each and in
   its order, whatever the handlers skip or ignore, and all of it when nothing
   is pending: the promise of the message loop. *)
THEOREM ToldAsMeant == Spec => []Delivered
<1>1. SyncInv => Delivered
  <2> SUFFICES ASSUME SyncInv, handler, up = "open"
               PROVE  /\ IsPrefix(told, meant)
                      /\ calls = <<>> /\ got.is = "none" /\ reader = NextId /\ s2c = <<>> => told = meant
    BY DEF Delivered, Idle
  <2>1. PICK said : Aligned(said)
    BY DEF SyncInv
  <2>2. said = told \o calls /\ Speech(told) /\ Speech(calls)
    BY <2>1 DEF Aligned, SyncInv, PromiseInv, Speech
  <2>3. Leads(St(reader, said), Pending, St(NextId, meant))
    BY <2>1 DEF Aligned
  <2>4. IsPrefix(told, meant)
    <3>1. Len(Pending) \in Nat
      <4>1. Pending \in Seq(Items)
        BY ItemSeqs DEF SyncInv
      <4>2. QED
        BY <4>1, LenProperties
    <3>2. ToldFirst(St(reader, said), St(NextId, meant))
      BY <2>3, <3>1, LeadsPrefix
    <3>3. Prefixed(said, meant)
      BY <3>2 DEF ToldFirst, St
    <3>4. Prefixed(told, said)
      BY <2>2, PrefixAdds
    <3>5. QED
      BY <3>3, <3>4, PrefixJoins, PrefixIs
  <2>5. ASSUME calls = <<>>, got.is = "none", s2c = <<>> PROVE told = meant
    <3>1. Pending = <<>>
      BY <2>5, ItemSeqs DEF SyncInv, Pending
    <3>2. St(reader, said) = St(NextId, meant)
      BY <2>3, <3>1, LeadsNowhere
    <3>3. said = meant
      BY <3>2 DEF St
    <3>4. said = told
      BY <2>2, <2>5, ConcatEmptySeq DEF Speech
    <3>5. QED
      BY <3>3, <3>4
  <2>6. QED
    BY <2>4, <2>5
<1>2. QED
  BY AlwaysInSync, <1>1, PTL
=============================================================================
