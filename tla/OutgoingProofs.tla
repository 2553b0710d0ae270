----------------------------- MODULE OutgoingProofs -----------------------------
(***************************************************************************)
(* What is proved of Outgoing, for any number of connections, calls and    *)
(* updates, any encodings, levels and servers: nothing is written among    *)
(* the login's bytes, no server is sent what it does not take, and the     *)
(* application's last choice is the one that holds.                        *)
(***************************************************************************)
EXTENDS Outgoing, SequenceTheorems, WellFoundedInduction, TLAPS

(* The greatest of some numbers. *)
Latest(idx) == CHOOSE i \in idx : \A j \in idx : j <= i

(* Numbers up to n have a greatest one. *)
LEMMA LatestIs ==
  ASSUME NEW n \in Nat, NEW idx, idx \subseteq 1 .. n, idx # {}
  PROVE  Latest(idx) \in idx /\ \A j \in idx : j <= Latest(idx)
<1> DEFINE T == {k \in Nat : n - k \in idx}
           R == {ss \in Nat \X Nat : ss[1] < ss[2]}
<1>1. IsWellFoundedOn(R, Nat)
  <2>1. IsWellFoundedOn(OpToRel(<, Nat), Nat)
    BY NatLessThanWellFounded
  <2>2. QED
    BY <2>1 DEF OpToRel
<1>2. T # {}
  <2>1. PICK i \in idx : TRUE
    OBVIOUS
  <2>2. n - i \in T
    OBVIOUS
  <2>3. QED
    BY <2>2
<1>3. PICK x \in T : \A y \in T : ~(<<y, x>> \in R)
  <2> HIDE DEF R
  <2>1. T \subseteq Nat
    OBVIOUS
  <2>2. QED
    BY <1>1, <1>2, <2>1, WFMin
<1>4. \A y \in T : x <= y
  <2>1. \A y \in Nat : y < x => <<y, x>> \in R
    BY <1>3
  <2>2. \A y \in T : ~(y < x)
    <3> HIDE DEF R
    <3>1. QED
      BY <1>3, <2>1
  <2>3. QED
    BY <1>3, <2>2
<1>5. \A j \in idx : n - j \in T
  OBVIOUS
<1>6. n - x \in idx /\ \A j \in idx : j <= n - x
  <2>1. x \in Nat /\ n - x \in idx
    BY <1>3
  <2>2. \A j \in idx : j \in Nat /\ n - j \in Nat /\ x <= n - j
    BY <1>4, <1>5
  <2>3. QED
    BY <2>1, <2>2
<1>7. \E m \in idx : \A j \in idx : j <= m
  BY <1>6
<1>8. QED
  BY <1>7 DEF Latest

(* There is no other. *)
LEMMA LatestOnly ==
  ASSUME NEW n \in Nat, NEW idx, idx \subseteq 1 .. n, NEW i \in idx, \A j \in idx : j <= i
  PROVE  Latest(idx) = i
<1>1. PICK l : l = Latest(idx)
  OBVIOUS
<1>2. l \in idx /\ \A j \in idx : j <= l
  BY <1>1, LatestIs
<1>3. l \in Nat /\ i \in Nat /\ l <= i /\ i <= l
  BY <1>2
<1>4. QED
  BY <1>1, <1>3

-----------------------------------------------------------------------------
(* The lists of encodings among messages. *)
ListsIn(msgs) == {i \in DOMAIN msgs : msgs[i].type = "list"}

(* The last list, by the latest of their places. *)
LEMMA LastListIs ==
  ASSUME NEW msgs, NEW list
  PROVE  LastList(msgs, list) = IF ListsIn(msgs) = {} THEN list ELSE <<msgs[Latest(ListsIn(msgs))]>>
BY Zenon DEF LastList, ListsIn, Latest

(* One message more. *)
LEMMA LastListAppend ==
  ASSUME NEW s \in Seq(Message), NEW m \in Message, NEW d
  PROVE  LastList(Append(s, m), d) = IF m.type = "list" THEN <<m>> ELSE LastList(s, d)
<1> DEFINE t == Append(s, m)
<1>1. /\ t \in Seq(Message) /\ Len(t) = Len(s) + 1 /\ t[Len(s) + 1] = m
      /\ DOMAIN s = 1 .. Len(s) /\ DOMAIN t = 1 .. Len(s) + 1 /\ Len(s) \in Nat
      /\ \A i \in 1 .. Len(s) : t[i] = s[i]
  OBVIOUS
<1> HIDE DEF t
<1>2. CASE m.type = "list"
  <2>1. ListsIn(t) \subseteq 1 .. Len(s) + 1 /\ Len(s) + 1 \in ListsIn(t)
    BY <1>1, <1>2 DEF ListsIn
  <2>2. Latest(ListsIn(t)) = Len(s) + 1
    BY <1>1, <2>1, LatestOnly
  <2>3. LastList(t, d) = <<t[Len(s) + 1]>>
    BY <2>1, <2>2, LastListIs, Zenon
  <2>4. QED
    BY <1>1, <1>2, <2>3, Zenon DEF t
<1>3. CASE m.type # "list"
  <2>1. ListsIn(t) = ListsIn(s) /\ ListsIn(s) \subseteq 1 .. Len(s)
    BY <1>1, <1>3 DEF ListsIn
  <2>2. CASE ListsIn(s) = {}
    BY <1>3, <2>1, <2>2, LastListIs, Zenon DEF t
  <2>3. CASE ListsIn(s) # {}
    <3>1. PICK k : k = Latest(ListsIn(s))
      OBVIOUS
    <3>2. k \in 1 .. Len(s)
      BY <1>1, <2>1, <2>3, <3>1, LatestIs
    <3>3. LastList(t, d) = <<t[k]>> /\ LastList(s, d) = <<s[k]>>
      BY <2>1, <2>3, <3>1, LastListIs, Zenon
    <3>4. t[k] = s[k]
      BY <1>1, <3>2
    <3>5. QED
      BY <1>3, <3>3, <3>4, Zenon DEF t
  <2>4. QED
    BY <2>2, <2>3
<1>4. QED
  BY <1>2, <1>3, Zenon

(* Messages after others. *)
LEMMA LastListConcat ==
  ASSUME NEW s \in Seq(Message), NEW t \in Seq(Message), NEW d
  PROVE  LastList(s \o t, d) = LastList(t, LastList(s, d))
<1>1. PICK u : u = s \o t
  OBVIOUS
<1>2. /\ DOMAIN s = 1 .. Len(s) /\ DOMAIN t = 1 .. Len(t) /\ DOMAIN u = 1 .. Len(s) + Len(t)
      /\ Len(s) \in Nat /\ Len(t) \in Nat
      /\ \A i \in 1 .. Len(s) : u[i] = s[i]
      /\ \A i \in 1 .. Len(t) : u[Len(s) + i] = t[i]
  BY <1>1
<1>3. \A i \in 1 .. Len(s) + Len(t) : i \in 1 .. Len(s) \/ i - Len(s) \in 1 .. Len(t)
  BY <1>2
<1>4. PICK e : e = LastList(s, d)
  OBVIOUS
<1>5. CASE ListsIn(t) # {}
  <2>1. PICK k : k = Latest(ListsIn(t))
    OBVIOUS
  <2>2. k \in ListsIn(t) /\ k \in 1 .. Len(t) /\ \A j \in ListsIn(t) : j <= k
    BY <1>2, <1>5, <2>1, LatestIs DEF ListsIn
  <2>3. Len(s) + k \in ListsIn(u)
    BY <1>2, <2>2 DEF ListsIn
  <2>4. \A j \in ListsIn(u) : j <= Len(s) + k
    <3> SUFFICES ASSUME NEW j \in ListsIn(u) PROVE j <= Len(s) + k
      OBVIOUS
    <3>1. j \in 1 .. Len(s) + Len(t) /\ u[j].type = "list"
      BY <1>2 DEF ListsIn
    <3>2. CASE j \in 1 .. Len(s)
      BY <1>2, <2>2, <3>2
    <3>3. CASE j - Len(s) \in 1 .. Len(t)
      <4>1. u[Len(s) + (j - Len(s))] = t[j - Len(s)] /\ Len(s) + (j - Len(s)) = j
        BY <1>2, <3>1, <3>3
      <4>2. j - Len(s) \in ListsIn(t)
        BY <1>2, <3>1, <3>3, <4>1 DEF ListsIn
      <4>3. QED
        BY <1>2, <2>2, <3>1, <4>2
    <3>4. QED
      BY <1>3, <3>1, <3>2, <3>3
  <2>5. Latest(ListsIn(u)) = Len(s) + k
    <3>1. ListsIn(u) \subseteq 1 .. Len(s) + Len(t) /\ Len(s) + Len(t) \in Nat
      BY <1>2 DEF ListsIn
    <3>2. QED
      BY <2>3, <2>4, <3>1, LatestOnly
  <2>6. LastList(u, d) = <<u[Len(s) + k]>> /\ LastList(t, e) = <<t[k]>>
    BY <1>5, <2>1, <2>3, <2>5, LastListIs, Zenon
  <2>7. u[Len(s) + k] = t[k]
    BY <1>2, <2>2
  <2>8. QED
    BY <1>1, <1>4, <2>6, <2>7, Zenon
<1>6. CASE ListsIn(t) = {}
  <2>1. ListsIn(u) = ListsIn(s) /\ ListsIn(s) \subseteq 1 .. Len(s)
    <3>1. \A j \in 1 .. Len(t) : t[j].type # "list"
      BY <1>2, <1>6 DEF ListsIn
    <3>2. \A i \in 1 .. Len(s) + Len(t) : i \notin 1 .. Len(s) => u[i].type # "list"
      <4> SUFFICES ASSUME NEW i \in 1 .. Len(s) + Len(t), i \notin 1 .. Len(s) PROVE u[i].type # "list"
        OBVIOUS
      <4>1. i - Len(s) \in 1 .. Len(t) /\ Len(s) + (i - Len(s)) = i
        BY <1>2, <1>3
      <4>2. u[Len(s) + (i - Len(s))] = t[i - Len(s)]
        BY <1>2, <4>1
      <4>3. QED
        BY <3>1, <4>1, <4>2
    <3>3. \A i \in 1 .. Len(s) : i \in 1 .. Len(s) + Len(t)
      BY <1>2
    <3>4. QED
      BY <1>2, <3>2, <3>3 DEF ListsIn
  <2>2. LastList(t, e) = e
    BY <1>6, LastListIs, Zenon
  <2>3. LastList(u, d) = LastList(s, d)
    <3>1. CASE ListsIn(s) = {}
      BY <2>1, <3>1, LastListIs, Zenon
    <3>2. CASE ListsIn(s) # {}
      <4>1. PICK k : k = Latest(ListsIn(s))
        OBVIOUS
      <4>2. k \in 1 .. Len(s)
        BY <1>2, <2>1, <3>2, <4>1, LatestIs
      <4>3. LastList(u, d) = <<u[k]>> /\ LastList(s, d) = <<s[k]>>
        BY <2>1, <3>2, <4>1, LastListIs, Zenon
      <4>4. QED
        BY <1>2, <4>2, <4>3
    <3>3. QED
      BY <3>1, <3>2
  <2>4. QED
    BY <1>1, <1>4, <2>2, <2>3, Zenon
<1>7. QED
  BY <1>5, <1>6

(* No message, one, and the first of several. *)
LEMMA LastListShort ==
  ASSUME NEW d
  PROVE  /\ LastList(<<>>, d) = d
         /\ \A m \in Message : LastList(<<m>>, d) = IF m.type = "list" THEN <<m>> ELSE d
<1>1. LastList(<<>>, d) = d
  <2>1. ListsIn(<<>>) = {}
    BY DEF ListsIn
  <2>2. QED
    BY <2>1, LastListIs, Zenon
<1>2. ASSUME NEW m \in Message PROVE LastList(<<m>>, d) = IF m.type = "list" THEN <<m>> ELSE d
  <2>1. <<>> \in Seq(Message) /\ Append(<<>>, m) = <<m>>
    BY <1>2
  <2>2. LastList(Append(<<>>, m), d) = IF m.type = "list" THEN <<m>> ELSE LastList(<<>>, d)
    BY <1>2, <2>1, LastListAppend, Zenon
  <2>3. QED
    BY <1>1, <2>1, <2>2, Zenon
<1>3. QED
  BY <1>1, <1>2

(* The first message, and then the others. *)
LEMMA LastListTail ==
  ASSUME NEW s \in Seq(Message), s # <<>>, NEW d
  PROVE  LastList(s, d) = LastList(Tail(s), LastList(<<Head(s)>>, d))
<1>1. /\ s = <<Head(s)>> \o Tail(s) /\ Head(s) \in Message /\ Tail(s) \in Seq(Message)
      /\ <<Head(s)>> \in Seq(Message)
  OBVIOUS
<1>2. PICK a \in Seq(Message) : a = <<Head(s)>>
  BY <1>1, Zenon
<1>3. PICK t \in Seq(Message) : t = Tail(s)
  BY <1>1, Zenon
<1>4. s = a \o t
  BY <1>1, <1>2, <1>3, Zenon
<1>5. LastList(a \o t, d) = LastList(t, LastList(a, d))
  BY LastListConcat
<1>6. QED
  BY <1>2, <1>3, <1>4, <1>5, Zenon

-----------------------------------------------------------------------------
(* The handlers that are ready, whatever their order; and what is said of them. *)
Waiting(hs) == {hs[i] : i \in DOMAIN hs}
None(hs, kind) == \A h \in Waiting(hs) : h.do # kind
Once(hs, kind) == \A i, j \in DOMAIN hs : hs[i].do = kind /\ hs[j].do = kind => i = j

(* No send after a start, and no writer whose write went well after a run. *)
StartsLast(hs) == \A i, j \in DOMAIN hs : i < j /\ hs[i].do = "start" => hs[j].do # "send"
Good(h) == h.do = "writer" /\ h.ok
RunsLast(hs) == \A i, j \in DOMAIN hs : i < j /\ hs[i].do = "run" => ~Good(hs[j])

(* The last list among the messages that are to be sent. *)
Sends(h) == h.do = "send" /\ h.msg.type = "list"
SendsIn(hs) == {i \in DOMAIN hs : Sends(hs[i])}
LastSent(hs, list) == IF SendsIn(hs) = {} THEN list ELSE <<hs[Latest(SendsIn(hs))].msg>>

(* What a message of the queue, or a call, may be. *)
Queued == {m \in Message : m.type # "login"}

Handlers ==
  [do : {"start", "stop"}] \cup [do : {"run"}, ok : BOOLEAN] \cup [do : {"send"}, msg : Queued]
  \cup [do : {"writer"}, ok : {TRUE}, first : {TRUE}]
  \cup [do : {"writer"}, ok : BOOLEAN, first : {FALSE}, on : 1 .. Conns]

(* A handler that becomes ready runs after all others. *)
LEMMA Readied ==
  ASSUME NEW hs \in Seq(Handlers), NEW h \in Handlers
  PROVE  /\ Append(hs, h) \in Seq(Handlers) /\ Append(hs, h) # <<>>
         /\ Waiting(Append(hs, h)) = Waiting(hs) \cup {h}
         /\ \A k : Once(hs, k) /\ (h.do = k => None(hs, k)) => Once(Append(hs, h), k)
         /\ StartsLast(hs) /\ (h.do = "send" => None(hs, "start")) => StartsLast(Append(hs, h))
         /\ RunsLast(hs) /\ (Good(h) => None(hs, "run")) => RunsLast(Append(hs, h))
<1> DEFINE t == Append(hs, h)
<1>1. /\ t \in Seq(Handlers) /\ Len(t) = Len(hs) + 1 /\ t[Len(hs) + 1] = h /\ t # <<>>
      /\ DOMAIN hs = 1 .. Len(hs) /\ DOMAIN t = 1 .. Len(hs) + 1 /\ Len(hs) \in Nat
      /\ \A i \in 1 .. Len(hs) : t[i] = hs[i]
  OBVIOUS
<1> HIDE DEF t
<1>2. /\ DOMAIN t = DOMAIN hs \cup {Len(hs) + 1} /\ Len(hs) + 1 \notin DOMAIN hs
      /\ \A i \in DOMAIN hs : t[i] = hs[i] /\ i < Len(hs) + 1
      /\ t[Len(hs) + 1] = h
  BY <1>1
<1>3. Waiting(t) = Waiting(hs) \cup {h}
  BY <1>2 DEF Waiting
<1>4. \A k : None(hs, k) => \A i \in DOMAIN hs : hs[i].do # k
  BY DEF None, Waiting
<1>5. ASSUME NEW k, Once(hs, k), h.do = k => None(hs, k) PROVE Once(t, k)
  BY <1>2, <1>4, <1>5 DEF Once
<1>6. ASSUME StartsLast(hs), h.do = "send" => None(hs, "start") PROVE StartsLast(t)
  BY <1>1, <1>2, <1>4, <1>6 DEF StartsLast
<1>7. ASSUME RunsLast(hs), Good(h) => None(hs, "run") PROVE RunsLast(t)
  <2> SUFFICES ASSUME NEW i \in DOMAIN t, NEW j \in DOMAIN t, i < j, t[i].do = "run" PROVE ~Good(t[j])
    BY DEF RunsLast
  <2>1. i \in DOMAIN hs
    BY <1>1
  <2>2. CASE j \in DOMAIN hs
    BY <1>2, <1>7, <2>1, <2>2 DEF RunsLast
  <2>3. CASE j \notin DOMAIN hs
    BY <1>2, <1>4, <1>7, <2>1, <2>3
  <2>4. QED
    BY <2>2, <2>3
<1>8. QED
  BY <1>1, <1>3, <1>5, <1>6, <1>7 DEF t

(* The first one that is ready runs. *)
LEMMA Run ==
  ASSUME NEW hs \in Seq(Handlers), hs # <<>>
  PROVE  /\ Tail(hs) \in Seq(Handlers) /\ Head(hs) \in Handlers
         /\ Waiting(hs) = Waiting(Tail(hs)) \cup {Head(hs)}
         /\ \A k : Once(hs, k) => /\ Once(Tail(hs), k)
                                  /\ Head(hs).do = k => None(Tail(hs), k)
         /\ StartsLast(hs) => /\ StartsLast(Tail(hs))
                              /\ Head(hs).do = "start" => None(Tail(hs), "send")
         /\ RunsLast(hs) => /\ RunsLast(Tail(hs))
                            /\ Head(hs).do = "run" => \A h \in Waiting(Tail(hs)) : ~Good(h)
<1> DEFINE t == Tail(hs)
           n == Len(t)
<1>1. /\ t \in Seq(Handlers) /\ Head(hs) \in Handlers /\ Head(hs) = hs[1]
      /\ DOMAIN hs = 1 .. n + 1 /\ DOMAIN t = 1 .. n /\ n \in Nat
      /\ \A i \in 1 .. n : t[i] = hs[i + 1]
  OBVIOUS
<1> HIDE DEF t, n
<1>2. /\ 1 \in DOMAIN hs /\ \A i \in DOMAIN t : i + 1 \in DOMAIN hs /\ t[i] = hs[i + 1] /\ 1 < i + 1 /\ i + 1 # 1
      /\ \A i, j \in DOMAIN t : (i < j <=> i + 1 < j + 1) /\ (i = j <=> i + 1 = j + 1)
  BY <1>1
<1>3. \A i \in DOMAIN hs : i = 1 \/ (i - 1 \in DOMAIN t /\ i = (i - 1) + 1)
  BY <1>1
<1>4. Waiting(hs) = Waiting(t) \cup {Head(hs)}
  <2>1. \A i \in DOMAIN hs : hs[i] \in Waiting(t) \cup {Head(hs)}
    <3> SUFFICES ASSUME NEW i \in DOMAIN hs, i # 1 PROVE hs[i] \in Waiting(t)
      BY <1>1
    <3>1. i - 1 \in DOMAIN t /\ t[i - 1] = hs[i]
      BY <1>1, <1>3
    <3>2. QED
      BY <3>1 DEF Waiting
  <2>2. \A i \in DOMAIN t : t[i] \in Waiting(hs)
    BY <1>2 DEF Waiting
  <2>3. Head(hs) \in Waiting(hs)
    BY <1>1, <1>2 DEF Waiting
  <2>4. QED
    BY <2>1, <2>2, <2>3 DEF Waiting
<1>5. ASSUME NEW k, Once(hs, k) PROVE Once(t, k) /\ (Head(hs).do = k => None(t, k))
  <2>1. \A i \in DOMAIN t, j \in DOMAIN hs : hs[i + 1].do = k /\ hs[j].do = k => i + 1 = j
    BY <1>2, <1>5 DEF Once
  <2>2. Once(t, k)
    BY <1>2, <2>1 DEF Once
  <2>3. ASSUME Head(hs).do = k PROVE None(t, k)
    BY <1>1, <1>2, <2>1, <2>3 DEF None, Waiting
  <2>4. QED
    BY <2>2, <2>3
<1>6. ASSUME StartsLast(hs) PROVE StartsLast(t) /\ (Head(hs).do = "start" => None(t, "send"))
  <2>1. \A i \in DOMAIN t, j \in DOMAIN hs : j < i + 1 /\ hs[j].do = "start" => hs[i + 1].do # "send"
    BY <1>2, <1>6 DEF StartsLast
  <2>2. StartsLast(t)
    BY <1>2, <2>1 DEF StartsLast
  <2>3. ASSUME Head(hs).do = "start" PROVE None(t, "send")
    BY <1>1, <1>2, <2>1, <2>3 DEF None, Waiting
  <2>4. QED
    BY <2>2, <2>3
<1>7. ASSUME RunsLast(hs) PROVE RunsLast(t) /\ (Head(hs).do = "run" => \A h \in Waiting(t) : ~Good(h))
  <2>1. \A i \in DOMAIN t, j \in DOMAIN hs : j < i + 1 /\ hs[j].do = "run" => ~Good(hs[i + 1])
    BY <1>2, <1>7 DEF RunsLast
  <2>2. RunsLast(t)
    BY <1>2, <2>1 DEF RunsLast
  <2>3. ASSUME Head(hs).do = "run" PROVE \A h \in Waiting(t) : ~Good(h)
    BY <1>1, <1>2, <2>1, <2>3 DEF Waiting
  <2>4. QED
    BY <2>2, <2>3
<1>8. QED
  BY <1>1, <1>4, <1>5, <1>6, <1>7 DEF t

(* The list a handler sends, if it does, is the last until another is sent. *)
LEMMA LastSentAppend ==
  ASSUME NEW hs \in Seq(Handlers), NEW h \in Handlers, NEW d
  PROVE  LastSent(Append(hs, h), d) = IF Sends(h) THEN <<h.msg>> ELSE LastSent(hs, d)
<1> DEFINE t == Append(hs, h)
<1>1. /\ t \in Seq(Handlers) /\ Len(t) = Len(hs) + 1 /\ t[Len(hs) + 1] = h
      /\ DOMAIN hs = 1 .. Len(hs) /\ DOMAIN t = 1 .. Len(hs) + 1 /\ Len(hs) \in Nat
      /\ \A i \in 1 .. Len(hs) : t[i] = hs[i]
  OBVIOUS
<1> HIDE DEF t
<1>2. CASE Sends(h)
  <2>1. SendsIn(t) \subseteq 1 .. Len(hs) + 1 /\ Len(hs) + 1 \in SendsIn(t)
    BY <1>1, <1>2 DEF SendsIn
  <2>2. Latest(SendsIn(t)) = Len(hs) + 1
    BY <1>1, <2>1, LatestOnly
  <2>3. LastSent(t, d) = <<t[Len(hs) + 1].msg>>
    BY <2>1, <2>2, Zenon DEF LastSent
  <2>4. QED
    BY <1>1, <1>2, <2>3, Zenon DEF t
<1>3. CASE ~Sends(h)
  <2>1. SendsIn(t) = SendsIn(hs) /\ SendsIn(hs) \subseteq 1 .. Len(hs)
    BY <1>1, <1>3 DEF SendsIn
  <2>2. CASE SendsIn(hs) = {}
    BY <1>3, <2>1, <2>2, Zenon DEF t, LastSent
  <2>3. CASE SendsIn(hs) # {}
    <3>1. PICK k : k = Latest(SendsIn(hs))
      OBVIOUS
    <3>2. k \in 1 .. Len(hs)
      BY <1>1, <2>1, <2>3, <3>1, LatestIs
    <3>3. LastSent(t, d) = <<t[k].msg>> /\ LastSent(hs, d) = <<hs[k].msg>>
      BY <2>1, <2>3, <3>1, Zenon DEF LastSent
    <3>4. t[k] = hs[k]
      BY <1>1, <3>2
    <3>5. QED
      BY <1>3, <3>3, <3>4, Zenon DEF t
  <2>4. QED
    BY <2>2, <2>3
<1>4. QED
  BY <1>2, <1>3, Zenon

(* The first handler sends before the others. *)
LEMMA LastSentTail ==
  ASSUME NEW hs \in Seq(Handlers), hs # <<>>, NEW d
  PROVE  LastSent(hs, d) = LastSent(Tail(hs), IF Sends(Head(hs)) THEN <<Head(hs).msg>> ELSE d)
<1> DEFINE t == Tail(hs)
           n == Len(t)
<1>1. /\ t \in Seq(Handlers) /\ Head(hs) = hs[1]
      /\ DOMAIN hs = 1 .. n + 1 /\ DOMAIN t = 1 .. n /\ n \in Nat
      /\ \A i \in 1 .. n : t[i] = hs[i + 1]
  OBVIOUS
<1> HIDE DEF t, n
<1>2. PICK e : e = IF Sends(Head(hs)) THEN <<Head(hs).msg>> ELSE d
  OBVIOUS
<1>3. SendsIn(hs) \subseteq 1 .. n + 1 /\ SendsIn(t) \subseteq 1 .. n
  BY <1>1 DEF SendsIn
<1>4. \A i \in 1 .. n : i \in SendsIn(t) <=> i + 1 \in SendsIn(hs)
  BY <1>1 DEF SendsIn
<1>5. CASE SendsIn(t) # {}
  <2>1. PICK k : k = Latest(SendsIn(t))
    OBVIOUS
  <2>2. k \in SendsIn(t) /\ k \in 1 .. n /\ \A j \in SendsIn(t) : j <= k
    BY <1>1, <1>3, <1>5, <2>1, LatestIs
  <2>3. \A j \in SendsIn(hs) : j <= k + 1
    <3> SUFFICES ASSUME NEW j \in SendsIn(hs), j # 1 PROVE j <= k + 1
      BY <1>3, <2>2
    <3>1. j - 1 \in 1 .. n /\ (j - 1) + 1 = j
      BY <1>1, <1>3
    <3>2. j - 1 \in SendsIn(t)
      BY <1>4, <3>1
    <3>3. QED
      BY <2>2, <3>1, <3>2
  <2>4. k + 1 \in SendsIn(hs)
    BY <1>4, <2>2
  <2>5. Latest(SendsIn(hs)) = k + 1
    <3>1. n + 1 \in Nat
      BY <1>1
    <3>2. QED
      BY <1>3, <2>3, <2>4, <3>1, LatestOnly
  <2>6. LastSent(hs, d) = <<hs[k + 1].msg>> /\ LastSent(t, e) = <<t[k].msg>>
    BY <1>5, <2>1, <2>4, <2>5, Zenon DEF LastSent
  <2>7. hs[k + 1] = t[k]
    BY <1>1, <2>2
  <2>8. QED
    BY <1>2, <2>6, <2>7, Zenon DEF t
<1>6. CASE SendsIn(t) = {}
  <2>1. \A j \in SendsIn(hs) : j = 1
    <3> SUFFICES ASSUME NEW j \in SendsIn(hs), j # 1 PROVE FALSE
      OBVIOUS
    <3>1. j - 1 \in 1 .. n /\ (j - 1) + 1 = j
      BY <1>1, <1>3
    <3>2. QED
      BY <1>4, <1>6, <3>1
  <2>2. LastSent(t, e) = e
    BY <1>6, Zenon DEF LastSent
  <2>3. CASE Sends(Head(hs))
    <3>1. 1 \in SendsIn(hs)
      BY <1>1, <2>3 DEF SendsIn
    <3>2. SendsIn(hs) = {1} /\ 1 <= 1 /\ n + 1 \in Nat
      BY <1>1, <2>1, <3>1
    <3>3. Latest(SendsIn(hs)) = 1
      BY <1>3, <3>1, <3>2, LatestOnly
    <3>4. LastSent(hs, d) = <<hs[1].msg>>
      BY <3>1, <3>3, Zenon DEF LastSent
    <3>5. QED
      BY <1>1, <1>2, <2>2, <2>3, <3>4, Zenon DEF t
  <2>4. CASE ~Sends(Head(hs))
    <3>1. SendsIn(hs) = {}
      BY <1>1, <2>1, <2>4 DEF SendsIn
    <3>2. LastSent(hs, d) = d
      BY <3>1, Zenon DEF LastSent
    <3>3. QED
      BY <1>2, <2>2, <2>4, <3>2, Zenon DEF t
  <2>5. QED
    BY <2>3, <2>4, Zenon
<1>7. QED
  BY <1>5, <1>6, Zenon

(* There is none when nothing is to be sent. *)
LEMMA LastSentNone ==
  ASSUME NEW hs, None(hs, "send"), NEW d
  PROVE  LastSent(hs, d) = d
<1>1. SendsIn(hs) = {}
  BY DEF None, Waiting, SendsIn, Sends
<1>2. QED
  BY <1>1, Zenon DEF LastSent

-----------------------------------------------------------------------------
(* The variables' values. *)
Extensions == {"scale", "palmscale"}
SockStates == {"none", "connecting", "open", "lost", "closed"}
Alive == {"connecting", "open"}
Statuses == {"closed"} \cup {StatusAt[k] : k \in 1 .. Loop}
Ops == [kind : {"none", "resolve", "connect", "read", "write", "cancelled"}, on : 0 .. Conns]
Login == 1 .. Loop - 1

Types ==
  /\ caller \in {"thread", "callbacks"} /\ ultra \in [1 .. Conns -> BOOLEAN]
  /\ ready \in Seq(Handlers)
  /\ status \in Statuses /\ at \in 0 .. Loop /\ op \in Ops
  /\ stream \in 0 .. Conns /\ sock \in [1 .. Conns -> SockStates]
  /\ caps \in SUBSET Extensions /\ levels \in [1 .. 2 -> 0 .. 9]
  /\ sendQue \in Seq(Queued) /\ posting \in Seq(Queued) /\ wire \in [1 .. Conns -> Seq(Message)]
  /\ writing = NoWrite \/ writing \in [msg : Queued, on : 1 .. Conns]
  /\ dropped \in BOOLEAN /\ over \in BOOLEAN /\ calls \in Nat /\ updates \in Nat

(* One handler of a kind, and no two in an order that cannot be. *)
Orderly ==
  /\ Once(ready, "start") /\ Once(ready, "run") /\ Once(ready, "writer")
  /\ StartsLast(ready) /\ (at = 1 => RunsLast(ready))

(* What holds while a handler waits for its turn.  A run that is to go wrong
   has lost its connection, and so has the writer whose write went wrong; a
   message to be sent was encoded for this server; and what was written is
   still at the front of the queue. *)
HandlerOK(h) ==
  /\ h.do = "start" => at = 0 /\ posting = <<>>
  /\ h.do = "run" => /\ at > 0 /\ op = NoOp
                     /\ h.ok /\ at = 1 => stream < Conns
                     /\ ~h.ok => \A c \in 1 .. Conns : sock[c] \notin Alive
  /\ h.do = "send" => /\ stream > 0 /\ caller = "thread" /\ at \notin Login
                      /\ h.msg.type \in Extensions => ultra[stream]
  /\ h.do = "writer" => /\ sendQue # <<>> /\ writing = NoWrite
                        /\ ~h.first => h.on <= stream
                        /\ ~h.ok => ~h.first /\ sock[h.on] \notin Alive
                        /\ h.ok => at < 2 \/ at = Loop
                        /\ h.ok /\ ~h.first /\ at = Loop =>
                             wire[stream] # <<>> /\ wire[stream][Len(wire[stream])] = Head(sendQue)

HandlersOK == \A h \in Waiting(ready) : HandlerOK(h)

(* The run and what it waits for; a connection is alive only in a run. *)
RunOK ==
  /\ at = 0 => op = NoOp /\ status = "closed"
  /\ op # NoOp => /\ op.kind = Script[at] \/ (at = 1 /\ op.kind = "cancelled")
                  /\ at > 1 => op.on = stream
  /\ at > 1 => stream > 0
  /\ status = "connected" => at = Loop
  /\ over => at = 0
  /\ \A c \in 1 .. Conns : sock[c] \in Alive => c = stream /\ at > 1
  /\ \A c \in 1 .. Conns : sock[c] = "connecting" => at = 2 /\ op # NoOp
  /\ posting # <<>> => stream > 0 /\ caller = "thread" /\ at \notin Login

(* The queue has a writer, and while a login is under way only one that is
   on an older connection. *)
QueueOK ==
  /\ sendQue = <<>> => writing = NoWrite
  /\ sendQue # <<>> => stream > 0 /\ (writing # NoWrite \/ ~None(ready, "writer"))
  /\ writing # NoWrite => /\ writing.msg = Head(sendQue) /\ writing.on <= stream
                          /\ at > 1 /\ at < Loop => writing.on < stream

(* The write of the queue's front has failed or is going to, on an older
   connection; the queue goes with it. *)
Doomed ==
  \/ writing # NoWrite /\ writing.on # stream
  \/ \E h \in Waiting(ready) : h.do = "writer" /\ ~h.ok /\ h.on # stream

Has(msgs, types) == \E i \in DOMAIN msgs : msgs[i].type \in types

(* What is known to be taken is so by the server there is, and what is on its
   way to another is lost. *)
CapsOK ==
  /\ at > 3 /\ caps # {} => ultra[stream]
  /\ Has(posting, Extensions) => ultra[stream]
  /\ Has(sendQue, Extensions) => ultra[stream] \/ Doomed
  /\ \A c \in 1 .. Conns : Has(wire[c], Extensions) => ultra[c]

(* The login's bytes come first. *)
WireOK ==
  /\ \A c \in 1 .. Conns : c > stream => wire[c] = <<>>
  /\ at > 1 /\ at < Loop => \A i \in DOMAIN wire[stream] : wire[stream][i].type = "login"
  /\ \A c \in 1 .. Conns : \A i, j \in DOMAIN wire[c] :
       i < j /\ wire[c][j].type = "login" => wire[c][i].type = "login"

(* The last list, of those written, queued, dispatched and encoded, in this
   order, is the one computed last. *)
Chosen == LastList(posting, LastSent(ready, LastList(sendQue, LastList(wire[stream], <<>>))))

ChoiceOK ==
  /\ at = Loop /\ Doomed => Len(sendQue) > 1
  /\ at = Loop /\ sock[stream] = "open" /\ ~dropped => Chosen = choice

IInv == Types /\ Orderly /\ HandlersOK /\ RunOK /\ QueueOK /\ CapsOK /\ WireOK /\ ChoiceOK

-----------------------------------------------------------------------------
(* What co_run waits for, and the status meanwhile, in numbers. *)
LEMMA Steps ==
  /\ Loop = 9 /\ Script[1] = "resolve" /\ Script[2] = "connect" /\ Script[9] = "read" /\ StatusAt[9] = "connected"
  /\ \A k \in 1 .. 9 : /\ Script[k] \in {"resolve", "connect", "read", "write"}
                       /\ Script[k] = "resolve" => k = 1
                       /\ Script[k] = "write" => k \in 3 .. 8
                       /\ StatusAt[k] \in Statuses
                       /\ k < 9 => StatusAt[k] # "connected"
  /\ "closed" \in Statuses /\ "connecting" \in Statuses /\ "connected" \in Statuses
BY DEF Loop, Script, StatusAt, Statuses

(* What there is to say of messages put together and taken apart. *)
LEMMA MessageSeqs ==
  /\ Queued \subseteq Message /\ Seq(Queued) \subseteq Seq(Message)
  /\ \A s \in Seq(Queued) : s # <<>> => /\ Head(s) \in Queued /\ Tail(s) \in Seq(Queued)
                                        /\ Len(s) \in Nat /\ Len(Tail(s)) = Len(s) - 1
                                        /\ Len(s) > 1 <=> Tail(s) # <<>>
<1>1. Queued \subseteq Message
  BY DEF Queued
<1>2. Seq(Queued) \subseteq Seq(Message)
  BY <1>1
<1>3. ASSUME NEW s \in Seq(Queued), s # <<>>
      PROVE  /\ Head(s) \in Queued /\ Tail(s) \in Seq(Queued)
             /\ Len(s) \in Nat /\ Len(Tail(s)) = Len(s) - 1
  BY <1>3
<1>4. ASSUME NEW s \in Seq(Queued), s # <<>> PROVE Len(s) > 1 <=> Tail(s) # <<>>
  <2>1. PICK t : t = Tail(s)
    OBVIOUS
  <2>2. t \in Seq(Queued) /\ Len(t) = Len(s) - 1 /\ Len(s) \in Nat
    BY <1>3, <1>4, <2>1
  <2>3. Len(t) = 0 <=> t = <<>>
    BY <2>2
  <2>4. Len(s) > 1 <=> t # <<>>
    BY <2>2, <2>3
  <2>5. QED
    BY <2>1, <2>4, Zenon
<1>5. QED
  BY <1>1, <1>2, <1>3, <1>4, Zenon

(* Messages of some types, among messages put together and taken apart. *)
LEMMA HasMore ==
  ASSUME NEW s \in Seq(Message), NEW X
  PROVE  /\ ~Has(<<>>, X)
         /\ \A m \in Message : Has(Append(s, m), X) <=> Has(s, X) \/ m.type \in X
         /\ s # <<>> => /\ Head(s).type \in X => Has(s, X)
                        /\ Has(Tail(s), X) => Has(s, X)
         /\ \A t \in Seq(Message) : Has(s \o t, X) <=> Has(s, X) \/ Has(t, X)
<1>1. ~Has(<<>>, X)
  BY DEF Has
<1>2. ASSUME NEW m \in Message PROVE Has(Append(s, m), X) <=> Has(s, X) \/ m.type \in X
  <2>1. PICK t : t = Append(s, m)
    OBVIOUS
  <2>2. /\ DOMAIN t = DOMAIN s \cup {Len(s) + 1} /\ t[Len(s) + 1] = m
        /\ \A i \in DOMAIN s : t[i] = s[i]
    <3>1. /\ Len(t) = Len(s) + 1 /\ t[Len(s) + 1] = m /\ Len(s) \in Nat
          /\ DOMAIN s = 1 .. Len(s) /\ DOMAIN t = 1 .. Len(s) + 1
          /\ \A i \in 1 .. Len(s) : t[i] = s[i]
      BY <2>1
    <3>2. QED
      BY <3>1
  <2>3. QED
    BY <2>1, <2>2 DEF Has
<1>3. ASSUME s # <<>> PROVE (Head(s).type \in X => Has(s, X)) /\ (Has(Tail(s), X) => Has(s, X))
  <2>1. /\ 1 \in DOMAIN s /\ Head(s) = s[1]
        /\ \A i \in DOMAIN Tail(s) : i + 1 \in DOMAIN s /\ Tail(s)[i] = s[i + 1]
    BY <1>3
  <2>2. QED
    BY <2>1 DEF Has
<1>4. ASSUME NEW t \in Seq(Message) PROVE Has(s \o t, X) <=> Has(s, X) \/ Has(t, X)
  <2>1. PICK u : u = s \o t
    OBVIOUS
  <2>2. /\ \A i \in DOMAIN s : i \in DOMAIN u /\ u[i] = s[i]
        /\ \A i \in DOMAIN t : Len(s) + i \in DOMAIN u /\ u[Len(s) + i] = t[i]
        /\ \A i \in DOMAIN u : i \in DOMAIN s \/ (i - Len(s) \in DOMAIN t /\ u[i] = t[i - Len(s)])
    <3>1. /\ DOMAIN s = 1 .. Len(s) /\ DOMAIN t = 1 .. Len(t) /\ DOMAIN u = 1 .. Len(s) + Len(t)
          /\ Len(s) \in Nat /\ Len(t) \in Nat
          /\ \A i \in 1 .. Len(s) : u[i] = s[i]
          /\ \A i \in 1 .. Len(t) : u[Len(s) + i] = t[i]
      BY <2>1
    <3>2. \A i \in 1 .. Len(s) + Len(t) : i \in 1 .. Len(s) \/ (i - Len(s) \in 1 .. Len(t) /\ i = Len(s) + (i - Len(s)))
      BY <3>1
    <3>3. \A i \in 1 .. Len(s) : i \in 1 .. Len(s) + Len(t)
      BY <3>1
    <3>4. \A i \in 1 .. Len(t) : Len(s) + i \in 1 .. Len(s) + Len(t)
      BY <3>1
    <3>5. QED
      BY <3>1, <3>2, <3>3, <3>4
  <2>3. QED
    BY <2>1, <2>2 DEF Has
<1>5. QED
  BY <1>1, <1>2, <1>3, <1>4

-----------------------------------------------------------------------------
(* The steps in which no handler runs.  A connection is lost. *)
LEMMA LostStep == ASSUME IInv, Lost PROVE IInv'
<1>1. PICK c \in 1 .. Conns : sock[c] = "open" /\ sock' = [sock EXCEPT ![c] = "lost"]
  BY DEF Lost
<1>2. UNCHANGED <<ready, status, at, op, caps, over, updates, stream, ultra, sendQue, writing, wire, dropped,
                  caller, posting, levels, choice, calls>>
  BY DEF Lost, queVars, appVars
<1>3. /\ sock' \in [1 .. Conns -> SockStates]
      /\ \A d \in 1 .. Conns : (sock'[d] \in Alive => sock[d] \in Alive) /\ (sock'[d] = "connecting" => sock[d] = "connecting")
                               /\ (sock'[d] = "open" => sock[d] = "open")
  BY <1>1 DEF IInv, Types, SockStates, Alive
<1>4. Types' /\ Orderly'
  BY <1>2, <1>3 DEF IInv, Types, Orderly
<1>5. HandlersOK'
  <2> SUFFICES ASSUME NEW h \in Waiting(ready) PROVE HandlerOK(h)'
    BY <1>2 DEF HandlersOK
  <2>1. HandlerOK(h) /\ h \in Handlers
    BY DEF IInv, HandlersOK, Types, Waiting
  <2>2. h.do = "writer" /\ ~h.ok => h.on \in 1 .. Conns
    BY <2>1 DEF Handlers, HandlerOK
  <2>3. QED
    BY <1>2, <1>3, <2>1, <2>2 DEF HandlerOK
<1>6. RunOK' /\ QueueOK' /\ WireOK'
  BY <1>2, <1>3 DEF IInv, RunOK, QueueOK, WireOK
<1>7. CapsOK' /\ (Doomed' <=> Doomed)
  BY <1>2 DEF IInv, CapsOK, Doomed
<1>8. ChoiceOK'
  <2>1. Chosen' = Chosen
    BY <1>2 DEF Chosen
  <2>2. at = 9 => stream \in 1 .. Conns
    BY Steps DEF IInv, RunOK, Types
  <2>3. QED
    BY <1>2, <1>3, <1>7, <2>1, <2>2, Steps DEF IInv, ChoiceOK
<1>9. QED
  BY <1>4, <1>5, <1>6, <1>7, <1>8 DEF IInv

-----------------------------------------------------------------------------
(* What the application may send is a list it may choose, or what this server
   is known to take. *)
LEMMA ListIs ==
  ASSUME Types, NEW names, NEW n \in Nat
  PROVE  ApplyEncodings(names, levels, n) \in Queued /\ ApplyEncodings(names, levels, n).type = "list"
<1>1. PICK ns : ns = {e \in Registered : e \in Frame => e \in names}
  OBVIOUS
<1>2. ns \in SUBSET Registered
  BY <1>1
<1>3. levels[1] \in 0 .. 9 /\ levels[2] \in 0 .. 9
  BY DEF Types
<1>4. /\ CompressLevel0 + levels[1] \in CompressLevel0 .. CompressLevel0 + 9
      /\ QualityLevel0 + levels[2] \in QualityLevel0 .. QualityLevel0 + 9
  BY <1>3 DEF CompressLevel0, QualityLevel0
<1>5. PICK l : l = ApplyEncodings(names, levels, n)
  OBVIOUS
<1>6. l = [type |-> "list", names |-> ns, compress |-> CompressLevel0 + levels[1],
           quality |-> QualityLevel0 + levels[2], no |-> n]
  BY <1>1, <1>5, Zenon DEF ApplyEncodings
<1>7. l \in Lists /\ l.type = "list"
  BY <1>2, <1>4, <1>6 DEF Lists
<1>8. l \in Queued
  BY <1>7 DEF Queued, Message
<1>9. QED
  BY <1>5, <1>7, <1>8, Zenon

Plains == [type : {"format", "request", "scale", "palmscale"}]

(* The messages that are but their type may be queued. *)
LEMMA PlainsQueued == Plains \subseteq Queued
BY DEF Plains, Queued, Message

(* A call sends messages, and an extension only where some are known to be taken. *)
LEMMA EncodedIs ==
  ASSUME Types, NEW call \in Call
  PROVE  Encoded(call) \in Seq(Queued) /\ (Has(Encoded(call), Extensions) => caps # {})
<1>1. CASE call.type = "list"
  <2>1. PICK l : l = ApplyEncodings(call.names, levels, calls + 1)
    OBVIOUS
  <2>2. l \in Queued /\ l.type = "list"
    BY <2>1, ListIs DEF Types
  <2>3. Encoded(call) = <<l>>
    BY <1>1, <2>1, Zenon DEF Encoded
  <2>4. <<l>> \in Seq(Queued) /\ DOMAIN <<l>> = {1} /\ <<l>>[1] = l
    BY <2>2
  <2>5. ~Has(<<l>>, Extensions)
    BY <2>2, <2>4 DEF Has, Extensions
  <2>6. QED
    BY <2>3, <2>4, <2>5, Zenon
<1>2. CASE call.type = "scale"
  <2>1. PICK a : a = IF "scale" \in caps THEN <<[type |-> "scale"]>> ELSE <<>>
    OBVIOUS
  <2>2. PICK b : b = IF "palmscale" \in caps THEN <<[type |-> "palmscale"]>> ELSE <<>>
    OBVIOUS
  <2>3. [type |-> "scale"] \in Queued /\ [type |-> "palmscale"] \in Queued
    BY PlainsQueued DEF Plains
  <2>4. a \in Seq(Queued) /\ b \in Seq(Queued)
    BY <2>1, <2>2, <2>3
  <2>5. PICK c : c = ScaleSetting
    OBVIOUS
  <2>6. Encoded(call) = c
    <3>1. call.type # "list"
      BY <1>2
    <3>2. QED
      BY <1>2, <2>5, <3>1 DEF Encoded
  <2>7. c \in Seq(Queued) /\ (caps = {} => c = <<>>)
    <3>1. c = a \o b
      BY <2>1, <2>2, <2>5, Zenon DEF ScaleSetting
    <3>2. QED
      <4>1. c \in Seq(Queued)
        BY <2>4, <3>1
      <4>2. ASSUME caps = {} PROVE c = <<>>
        <5>1. a = <<>> /\ b = <<>>
          BY <2>1, <2>2, <4>2
        <5>2. QED
          BY <3>1, <5>1
      <4>3. QED
        BY <4>1, <4>2
  <2>8. ~Has(<<>>, Extensions)
    BY DEF Has
  <2>9. QED
    <3>1. Has(c, Extensions) => caps # {}
      BY <2>7, <2>8
    <3>2. QED
      BY <2>6, <2>7, <3>1, Zenon
<1>3. QED
  BY <1>1, <1>2 DEF Call

(* Where the client has been connected, the run has a connection. *)
LEMMA Connected ==
  ASSUME IInv
  PROVE  /\ status = "connected" => at = 9 /\ stream \in 1 .. Conns
         /\ at > 1 => stream \in 1 .. Conns
BY Steps DEF IInv, Types, RunOK

(* The application's thread has encoded a message. *)
LEMMA ThreadCallsStep == ASSUME IInv, ThreadCalls PROVE IInv'
<1>1. PICK call \in Call : posting' = Encoded(call)
  BY DEF ThreadCalls
<1>2. /\ caller = "thread" /\ posting = <<>> /\ status = "connected"
      /\ choice' = LastList(posting', choice) /\ calls' = calls + 1
      /\ UNCHANGED <<ready, status, at, op, caps, over, updates, stream, ultra, sock, sendQue, writing, wire, dropped,
                     caller, levels>>
  BY DEF ThreadCalls, queVars, netVars
<1>3. at = 9 /\ stream \in 1 .. Conns
  BY <1>2, Connected
<1>4. posting' \in Seq(Queued) /\ (Has(posting', Extensions) => caps # {})
  BY <1>1, EncodedIs DEF IInv
<1>5. Types' /\ Orderly'
  BY <1>2, <1>4 DEF IInv, Types, Orderly
<1>6. HandlersOK'
  <2> SUFFICES ASSUME NEW h \in Waiting(ready) PROVE HandlerOK(h)'
    BY <1>2 DEF HandlersOK
  <2>1. HandlerOK(h)
    BY DEF IInv, HandlersOK
  <2>2. QED
    BY <1>2, <1>3, <2>1 DEF HandlerOK
<1>7. RunOK' /\ QueueOK' /\ WireOK'
  BY <1>2, <1>3, Steps DEF IInv, RunOK, QueueOK, WireOK, Login
<1>8. CapsOK' /\ (Doomed' <=> Doomed)
  BY <1>2, <1>3, <1>4 DEF IInv, CapsOK, Doomed
<1>9. ChoiceOK'
  <2>1. PICK d : d = LastSent(ready, LastList(sendQue, LastList(wire[stream], <<>>)))
    OBVIOUS
  <2>2. Chosen = d /\ Chosen' = LastList(posting', d)
    BY <1>2, <2>1, LastListShort, Zenon DEF Chosen
  <2>3. QED
    BY <1>2, <1>8, <2>2 DEF IInv, ChoiceOK
<1>10. QED
  BY <1>5, <1>6, <1>7, <1>8, <1>9 DEF IInv

(* It has dispatched what was the first of it: the last handler there is. *)
LEMMA ThreadDispatchesStep == ASSUME IInv, ThreadDispatches PROVE IInv'
<1>1. PICK m : m = Head(posting)
  OBVIOUS
<1>2. PICK h : h = [do |-> "send", msg |-> m]
  OBVIOUS
<1>3. /\ posting # <<>> /\ posting' = Tail(posting) /\ ready' = Append(ready, h)
      /\ UNCHANGED <<status, at, op, caps, over, updates, stream, ultra, sock, sendQue, writing, wire, dropped,
                     caller, levels, choice, calls>>
  BY <1>1, <1>2, Zenon DEF ThreadDispatches, queVars, netVars
<1>4. m \in Queued /\ posting' \in Seq(Queued) /\ m \in Message /\ posting \in Seq(Message) /\ posting' \in Seq(Message)
  BY <1>1, <1>3, MessageSeqs DEF IInv, Types
<1>5. h \in Handlers /\ h.do = "send" /\ h.msg = m
  BY <1>2, <1>4 DEF Handlers
<1>6. stream > 0 /\ caller = "thread" /\ at \notin Login
  BY <1>3 DEF IInv, RunOK
<1>7. ready \in Seq(Handlers) /\ \A g \in Waiting(ready) : HandlerOK(g)
  BY DEF IInv, Types, HandlersOK
<1>8. None(ready, "start")
  BY <1>3, <1>7 DEF None, HandlerOK
<1>9. /\ ready' \in Seq(Handlers) /\ Waiting(ready') = Waiting(ready) \cup {h}
      /\ \A k : Once(ready, k) /\ k # "send" => Once(ready', k)
      /\ StartsLast(ready) => StartsLast(ready')
      /\ RunsLast(ready) => RunsLast(ready')
  BY <1>3, <1>5, <1>7, <1>8, Readied DEF Good
<1>10. Types' /\ Orderly'
  BY <1>3, <1>4, <1>9 DEF IInv, Types, Orderly
<1>11. (m.type \in Extensions => ultra[stream]) /\ (Has(posting', Extensions) => ultra[stream])
  BY <1>1, <1>3, <1>4, HasMore DEF IInv, CapsOK
<1>12. HandlersOK'
  <2>1. ASSUME NEW g \in Waiting(ready) PROVE HandlerOK(g)'
    <3>1. HandlerOK(g)
      BY <1>7
    <3>2. g.do # "start"
      BY <1>8 DEF None
    <3>3. QED
      BY <1>3, <3>1, <3>2 DEF HandlerOK
  <2>2. HandlerOK(h)'
    BY <1>3, <1>5, <1>6, <1>11 DEF HandlerOK
  <2>3. QED
    BY <1>9, <2>1, <2>2 DEF HandlersOK
<1>13. RunOK' /\ QueueOK' /\ WireOK'
  BY <1>3, <1>5, <1>6, <1>9 DEF IInv, RunOK, QueueOK, WireOK, None
<1>14. CapsOK' /\ (Doomed' <=> Doomed)
  BY <1>3, <1>5, <1>9, <1>11 DEF IInv, CapsOK, Doomed
<1>15. ChoiceOK'
  <2>1. PICK d : d = LastList(sendQue, LastList(wire[stream], <<>>))
    OBVIOUS
  <2>2. PICK e : e = LastSent(ready, d)
    OBVIOUS
  <2>3. Chosen = LastList(posting, e)
    BY <2>1, <2>2, Zenon DEF Chosen
  <2>4. LastList(posting, e) = LastList(posting', LastList(<<m>>, e))
    BY <1>1, <1>3, <1>4, LastListTail
  <2>5. LastList(<<m>>, e) = LastSent(ready', d)
    <3>1. LastSent(ready', d) = IF Sends(h) THEN <<h.msg>> ELSE e
      BY <1>3, <1>5, <1>7, <2>2, LastSentAppend
    <3>2. LastList(<<m>>, e) = IF m.type = "list" THEN <<m>> ELSE e
      BY <1>4, LastListShort
    <3>3. Sends(h) <=> m.type = "list"
      BY <1>5 DEF Sends
    <3>4. QED
      BY <1>5, <3>1, <3>2, <3>3, Zenon
  <2>6. Chosen' = LastList(posting', LastSent(ready', d))
    BY <1>3, <2>1, Zenon DEF Chosen
  <2>7. Chosen' = Chosen
    BY <2>3, <2>4, <2>5, <2>6, Zenon
  <2>8. QED
    BY <1>3, <1>14, <2>7 DEF IInv, ChoiceOK
<1>16. QED
  BY <1>10, <1>12, <1>13, <1>14, <1>15 DEF IInv

(* start() and stop() are dispatched likewise, when nothing is to be sent. *)
LEMMA ThreadAsksStep == ASSUME IInv, ThreadStarts \/ ThreadStops PROVE IInv'
<1>1. PICK h : /\ h = [do |-> "start"] \/ h = [do |-> "stop"]
               /\ h.do = "start" => over /\ None(ready, "start")
               /\ ready' = Append(ready, h)
  <2>1. ASSUME ThreadStarts PROVE over /\ None(ready, "start") /\ ready' = Append(ready, [do |-> "start"])
    BY <2>1 DEF ThreadStarts, None, Waiting
  <2>2. ASSUME ThreadStops PROVE ready' = Append(ready, [do |-> "stop"])
    BY <2>2 DEF ThreadStops
  <2>3. [do |-> "start"].do = "start" /\ [do |-> "stop"].do = "stop"
    OBVIOUS
  <2>4. QED
    BY <2>1, <2>2, <2>3
<1>2. /\ posting = <<>> /\ caller = "thread" /\ (calls' = calls \/ calls' = calls + 1)
      /\ UNCHANGED <<status, at, op, caps, over, updates, stream, ultra, sock, sendQue, writing, wire, dropped,
                     caller, levels, choice, posting>>
  BY DEF ThreadStarts, ThreadStops, queVars, netVars, appVars
<1>3. h \in Handlers /\ h.do \in {"start", "stop"}
  <2>1. [do |-> "start"] \in [do : {"start", "stop"}] /\ [do |-> "stop"] \in [do : {"start", "stop"}]
    OBVIOUS
  <2>2. h \in [do : {"start", "stop"}]
    BY <1>1, <2>1
  <2>3. QED
    BY <2>2 DEF Handlers
<1>4. ready \in Seq(Handlers) /\ \A g \in Waiting(ready) : HandlerOK(g)
  BY DEF IInv, Types, HandlersOK
<1>5. /\ ready' \in Seq(Handlers) /\ Waiting(ready') = Waiting(ready) \cup {h}
      /\ \A k : Once(ready, k) /\ k # "stop" => Once(ready', k)
      /\ StartsLast(ready) => StartsLast(ready')
      /\ RunsLast(ready) => RunsLast(ready')
  BY <1>1, <1>3, <1>4, Readied DEF Good
<1>6. Types' /\ Orderly'
  BY <1>2, <1>5 DEF IInv, Types, Orderly
<1>7. HandlersOK'
  <2>1. ASSUME NEW g \in Waiting(ready) PROVE HandlerOK(g)'
    BY <1>2, <1>4, <2>1 DEF HandlerOK
  <2>2. h.do = "start" => at = 0
    BY <1>1 DEF IInv, RunOK
  <2>3. HandlerOK(h)'
    BY <1>2, <1>3, <2>2 DEF HandlerOK
  <2>4. QED
    BY <1>5, <2>1, <2>3 DEF HandlersOK
<1>8. RunOK' /\ QueueOK' /\ WireOK'
  BY <1>2, <1>3, <1>5 DEF IInv, RunOK, QueueOK, WireOK, None
<1>9. CapsOK' /\ (Doomed' <=> Doomed)
  BY <1>2, <1>3, <1>5 DEF IInv, CapsOK, Doomed
<1>10. ChoiceOK'
  <2>1. PICK d : d = LastList(sendQue, LastList(wire[stream], <<>>))
    OBVIOUS
  <2>2. LastSent(ready', d) = LastSent(ready, d)
    <3>1. ~Sends(h)
      BY <1>3 DEF Sends
    <3>2. QED
      BY <1>1, <1>3, <1>4, <3>1, LastSentAppend
  <2>3. Chosen' = Chosen
    BY <1>2, <2>1, <2>2, Zenon DEF Chosen
  <2>4. QED
    BY <1>2, <1>9, <2>3 DEF IInv, ChoiceOK
<1>11. QED
  BY <1>6, <1>7, <1>8, <1>9, <1>10 DEF IInv

(* A level is set, within its range. *)
LEMMA SetsLevelStep == ASSUME IInv, SetsLevel PROVE IInv'
<1>1. PICK i \in 1 .. 2, level \in Levels : levels' = [levels EXCEPT ![i] = Clamp(level)]
  BY DEF SetsLevel
<1>2. /\ calls' = calls + 1
      /\ UNCHANGED <<ready, status, at, op, caps, over, updates, stream, ultra, sock, sendQue, writing, wire, dropped,
                     caller, choice, posting>>
  BY DEF SetsLevel, queVars, netVars
<1>3. Clamp(level) \in 0 .. 9
  BY OutgoingAssumption DEF Clamp
<1>4. Types'
  BY <1>1, <1>2, <1>3 DEF IInv, Types
<1>5. HandlersOK'
  <2> SUFFICES ASSUME NEW h \in Waiting(ready) PROVE HandlerOK(h)'
    BY <1>2 DEF HandlersOK
  <2>1. HandlerOK(h)
    BY DEF IInv, HandlersOK
  <2>2. QED
    BY <1>2, <2>1 DEF HandlerOK
<1>6. Orderly' /\ RunOK' /\ QueueOK' /\ WireOK'
  BY <1>2 DEF IInv, Orderly, RunOK, QueueOK, WireOK
<1>7. CapsOK' /\ (Doomed' <=> Doomed) /\ Chosen' = Chosen
  BY <1>2 DEF IInv, CapsOK, Doomed, Chosen
<1>8. ChoiceOK'
  BY <1>2, <1>7 DEF IInv, ChoiceOK
<1>9. QED
  BY <1>4, <1>5, <1>6, <1>7, <1>8 DEF IInv

(* A message more at the end. *)
LEMMA AppendAt ==
  ASSUME NEW s \in Seq(Message), NEW m \in Message, NEW t, t = Append(s, m)
  PROVE  /\ \A i \in DOMAIN t : \/ i \in DOMAIN s /\ t[i] = s[i]
                                \/ t[i] = m /\ \A j \in DOMAIN s : j < i
         /\ DOMAIN t \subseteq Nat /\ DOMAIN s \subseteq Nat
<1>1. /\ Len(t) = Len(s) + 1 /\ t[Len(s) + 1] = m /\ Len(s) \in Nat
      /\ DOMAIN s = 1 .. Len(s) /\ DOMAIN t = 1 .. Len(s) + 1
      /\ \A i \in 1 .. Len(s) : t[i] = s[i]
  OBVIOUS
<1>2. QED
  BY <1>1

-----------------------------------------------------------------------------
(* An operation of the run completes.  It was the only one, and on the
   connection there is. *)
LEMMA RunOpCompletesStep == ASSUME IInv, RunOpCompletes PROVE IInv'
<1>1. PICK ok \in BOOLEAN :
        /\ ready' = Append(ready, [do |-> "run", ok |-> ok])
        /\ \/ op.kind = "resolve" /\ (ok => stream < Conns) /\ UNCHANGED <<sock, wire>>
           \/ op.kind = "cancelled" /\ ~ok /\ UNCHANGED <<sock, wire>>
           \/ op.kind \notin {"resolve", "cancelled"} /\ OnSocket(ok)
  BY DEF RunOpCompletes
<1>2. /\ op' = NoOp /\ op # NoOp
      /\ UNCHANGED <<status, at, caps, over, updates, stream, ultra, sendQue, writing, dropped,
                     caller, levels, choice, posting, calls>>
  BY DEF RunOpCompletes, appVars, NoOp
<1>3. PICK h : h = [do |-> "run", ok |-> ok]
  OBVIOUS
<1>4. h \in Handlers /\ h.do = "run" /\ h.ok = ok /\ ~Good(h)
  BY <1>3 DEF Handlers, Good
<1>5. /\ at \in 1 .. 9 /\ (op.kind = Script[at] \/ (at = 1 /\ op.kind = "cancelled"))
      /\ at > 1 => op.on = stream /\ stream \in 1 .. Conns
  BY <1>2, Steps, Connected DEF IInv, RunOK, Types
<1>6. ready \in Seq(Handlers) /\ \A g \in Waiting(ready) : HandlerOK(g)
  BY DEF IInv, Types, HandlersOK
<1>7. None(ready, "run")
  BY <1>2, <1>6 DEF None, HandlerOK
<1>8. /\ ready' \in Seq(Handlers) /\ Waiting(ready') = Waiting(ready) \cup {h}
      /\ \A k : Once(ready, k) => Once(ready', k)
      /\ StartsLast(ready) => StartsLast(ready')
      /\ RunsLast(ready) => RunsLast(ready')
  BY <1>1, <1>3, <1>4, <1>6, <1>7, Readied
<1>9. /\ sock' \in [1 .. Conns -> SockStates]
      /\ \A c \in 1 .. Conns : /\ sock'[c] \in Alive => sock[c] \in Alive
                               /\ sock'[c] # "connecting"
                               /\ ~ok => sock'[c] \notin Alive
      /\ at # 2 => sock' = sock
      /\ ok /\ at = 1 => stream < Conns
  <2>0. /\ \A c \in 1 .. Conns : sock[c] \in Alive => c = stream /\ at > 1
        /\ \A c \in 1 .. Conns : sock[c] = "connecting" => at = 2
        /\ sock \in [1 .. Conns -> SockStates]
    BY DEF IInv, Types, RunOK
  <2>1. CASE op.kind \in {"resolve", "cancelled"}
    <3>1. at = 1
      BY <1>5, <2>1, Steps
    <3>2. sock' = sock /\ (op.kind = "cancelled" => ~ok)
      BY <1>1, <2>1
    <3>3. QED
      BY <1>1, <2>0, <2>1, <3>1, <3>2
  <2>2. CASE op.kind \notin {"resolve", "cancelled"}
    <3>1. at > 1 /\ op.on = stream /\ stream \in 1 .. Conns /\ OnSocket(ok)
      BY <1>1, <1>5, <2>2, Steps
    <3>2. CASE sock[stream] = "connecting" /\ sock' = [sock EXCEPT ![stream] = IF ok THEN "open" ELSE "lost"]
      BY <2>0, <3>1, <3>2 DEF SockStates, Alive
    <3>3. CASE sock[stream] = "open" /\ ok /\ sock' = sock
      BY <2>0, <3>1, <3>3 DEF SockStates, Alive
    <3>4. CASE sock[stream] \notin {"connecting", "open"} /\ ~ok /\ sock' = sock
      BY <2>0, <3>1, <3>4 DEF SockStates, Alive
    <3>5. QED
      BY <3>1, <3>2, <3>3, <3>4 DEF OnSocket
  <2>3. QED
    BY <2>1, <2>2
<1>10. \/ wire' = wire
       \/ /\ at > 1 /\ at < 9 /\ stream \in 1 .. Conns
          /\ wire' = [wire EXCEPT ![stream] = Append(@, [type |-> "login"])]
  <2>1. CASE op.kind \notin {"resolve", "cancelled"} /\ sock[op.on] = "open" /\ op.kind = "write"
                /\ wire' = [wire EXCEPT ![op.on] = Append(@, [type |-> "login"])]
    <3>1. at > 1 /\ at < 9
      BY <1>5, <2>1, Steps
    <3>2. op.on = stream /\ stream \in 1 .. Conns
      BY <1>5, <3>1
    <3>3. QED
      BY <2>1, <3>1, <3>2
  <2>2. QED
    BY <1>1, <2>1 DEF OnSocket
<1>11. PICK m : m = [type |-> "login"]
  OBVIOUS
<1>12. m \in Message /\ m.type = "login" /\ m.type \notin Extensions
  BY <1>11 DEF Message, Extensions
<1>13. /\ wire' \in [1 .. Conns -> Seq(Message)]
       /\ \A c \in 1 .. Conns : \/ wire'[c] = wire[c]
                                \/ c = stream /\ at > 1 /\ at < 9 /\ wire'[c] = Append(wire[c], m)
       /\ at = 9 => wire' = wire
  <2>1. wire \in [1 .. Conns -> Seq(Message)]
    BY DEF IInv, Types
  <2>2. CASE wire' = wire
    BY <2>1, <2>2
  <2>3. CASE at > 1 /\ at < 9 /\ stream \in 1 .. Conns /\ wire' = [wire EXCEPT ![stream] = Append(@, m)]
    <3>1. Append(wire[stream], m) \in Seq(Message)
      BY <1>12, <2>1, <2>3
    <3>2. QED
      BY <2>1, <2>3, <3>1
  <2>4. QED
    BY <1>10, <1>11, <2>2, <2>3
<1>14. Types' /\ Orderly'
  <2>1. NoOp \in Ops
    BY OutgoingAssumption DEF NoOp, Ops
  <2>2. QED
    BY <1>2, <1>8, <1>9, <1>13, <2>1 DEF IInv, Types, Orderly
<1>15. HandlersOK'
  <2>1. ASSUME NEW g \in Waiting(ready) PROVE HandlerOK(g)'
    <3>1. HandlerOK(g) /\ g.do # "run" /\ g \in Handlers
      BY <1>6, <1>7 DEF None, Waiting
    <3>2. g.do = "writer" /\ ~g.ok => g.on \in 1 .. Conns
      BY <3>1 DEF Handlers, HandlerOK
    <3>3. QED
      BY <1>2, <1>9, <1>13, <3>1, <3>2, Steps DEF HandlerOK
  <2>2. HandlerOK(h)'
    BY <1>2, <1>4, <1>5, <1>9 DEF HandlerOK
  <2>3. QED
    BY <1>8, <2>1, <2>2 DEF HandlersOK
<1>16. RunOK'
  BY <1>2, <1>5, <1>9 DEF IInv, RunOK
<1>17. QueueOK'
  BY <1>2, <1>4, <1>8 DEF IInv, QueueOK, None
<1>18. CapsOK' /\ (Doomed' <=> Doomed)
  <2>1. Doomed' <=> Doomed
    BY <1>2, <1>4, <1>8 DEF Doomed
  <2>2. ASSUME NEW c \in 1 .. Conns, Has(wire'[c], Extensions) PROVE Has(wire[c], Extensions)
    <3>1. wire[c] \in Seq(Message)
      BY DEF IInv, Types
    <3>2. Has(Append(wire[c], m), Extensions) => Has(wire[c], Extensions)
      BY <1>12, <3>1, HasMore
    <3>3. QED
      BY <1>13, <2>2, <3>2
  <2>3. QED
    BY <1>2, <2>1, <2>2 DEF IInv, CapsOK
<1>19. WireOK'
  <2>1. ASSUME NEW c \in 1 .. Conns, NEW i \in DOMAIN wire'[c]
        PROVE  \/ i \in DOMAIN wire[c] /\ wire'[c][i] = wire[c][i]
               \/ c = stream /\ at > 1 /\ at < 9 /\ wire'[c][i].type = "login" /\ \A j \in DOMAIN wire[c] : j < i
    <3>1. wire[c] \in Seq(Message)
      BY DEF IInv, Types
    <3>2. CASE wire'[c] = wire[c]
      BY <2>1, <3>2
    <3>3. CASE c = stream /\ at > 1 /\ at < 9 /\ wire'[c] = Append(wire[c], m)
      BY <1>12, <2>1, <3>1, <3>3, AppendAt
    <3>4. QED
      BY <1>13, <3>2, <3>3
  <2>2. ASSUME NEW c \in 1 .. Conns, c > stream PROVE wire'[c] = <<>>
    BY <1>13, <2>2 DEF IInv, WireOK, Types
  <2>3. ASSUME at > 1, at < 9, NEW i \in DOMAIN wire'[stream] PROVE wire'[stream][i].type = "login"
    BY <1>5, <2>1, <2>3, Steps DEF IInv, WireOK
  <2>4. ASSUME NEW c \in 1 .. Conns, NEW i \in DOMAIN wire'[c], NEW j \in DOMAIN wire'[c], i < j, wire'[c][j].type = "login"
        PROVE  wire'[c][i].type = "login"
    <3>1. CASE c = stream /\ at > 1 /\ at < 9
      BY <2>3, <3>1
    <3>2. CASE ~(c = stream /\ at > 1 /\ at < 9)
      BY <2>1, <2>4, <3>2 DEF IInv, WireOK
    <3>3. QED
      BY <3>1, <3>2
  <2>5. QED
    BY <1>2, <2>2, <2>3, <2>4, Steps DEF WireOK
<1>20. ChoiceOK'
  <2>1. ASSUME at = 9 PROVE Chosen' = Chosen
    <3>1. PICK d : d = LastList(sendQue, LastList(wire[stream], <<>>))
      OBVIOUS
    <3>2. LastSent(ready', d) = LastSent(ready, d)
      <4>1. ~Sends(h)
        BY <1>4 DEF Sends
      <4>2. QED
        BY <1>1, <1>3, <1>4, <1>6, <4>1, LastSentAppend
    <3>3. wire' = wire
      BY <1>13, <2>1
    <3>4. QED
      BY <1>2, <3>1, <3>2, <3>3, Zenon DEF Chosen
  <2>2. QED
    BY <1>2, <1>9, <1>18, <2>1, Steps DEF IInv, ChoiceOK
<1>21. QED
  BY <1>14, <1>15, <1>16, <1>17, <1>18, <1>19, <1>20 DEF IInv

(* What is both written and still at the front of the queue counts once. *)
LEMMA LastListTwice ==
  ASSUME NEW q \in Seq(Message), q # <<>>, NEW w \in Seq(Message), NEW d
  PROVE  LastList(q, LastList(Append(w, Head(q)), d)) = LastList(q, LastList(w, d))
<1>1. PICK m : m = Head(q)
  OBVIOUS
<1>2. m \in Message
  BY <1>1
<1>3. PICK e : e = LastList(w, d)
  OBVIOUS
<1>4. LastList(Append(w, m), d) = IF m.type = "list" THEN <<m>> ELSE e
  BY <1>2, <1>3, LastListAppend
<1>5. PICK f : f = IF m.type = "list" THEN <<m>> ELSE e
  OBVIOUS
<1>6. LastList(<<m>>, e) = LastList(<<m>>, f)
  <2>1. \A x : LastList(<<m>>, x) = IF m.type = "list" THEN <<m>> ELSE x
    BY <1>2, LastListShort
  <2>2. QED
    BY <1>5, <2>1
<1>7. \A x : LastList(q, x) = LastList(Tail(q), LastList(<<m>>, x))
  BY <1>1, LastListTail
<1>8. LastList(q, f) = LastList(q, e)
  BY <1>6, <1>7, Zenon
<1>9. LastList(Append(w, m), d) = f
  BY <1>4, <1>5, Zenon
<1>10. QED
  BY <1>1, <1>3, <1>8, <1>9, Zenon

(* The write of the queue's front completes; when it goes well the session has
   got as far as the loop. *)
LEMMA WriteCompletesStep == ASSUME IInv, WriteCompletes PROVE IInv'
<1>1. PICK c, m, ok : c = writing.on /\ m = writing.msg /\ ok = (sock[c] = "open")
  OBVIOUS
<1>2. PICK h : h = [do |-> "writer", ok |-> ok, first |-> FALSE, on |-> c]
  OBVIOUS
<1>3. /\ writing # NoWrite /\ writing' = NoWrite
      /\ ready' = Append(ready, h)
      /\ wire' = IF ok THEN [wire EXCEPT ![c] = Append(@, m)] ELSE wire
      /\ UNCHANGED <<status, at, op, caps, over, updates, sendQue, dropped, stream, sock, ultra,
                     caller, levels, choice, posting, calls>>
  BY <1>1, <1>2 DEF WriteCompletes, netVars, appVars
<1>4. /\ c \in 1 .. Conns /\ m \in Queued /\ c <= stream /\ m = Head(sendQue) /\ sendQue # <<>> /\ ok \in BOOLEAN
      /\ stream \in 1 .. Conns /\ at \in 0 .. 9
      /\ at > 1 /\ at < 9 => c < stream
  BY <1>1, <1>3, Steps DEF IInv, Types, QueueOK
<1>5. h \in Handlers /\ h.do = "writer" /\ h.ok = ok /\ ~h.first /\ h.on = c
  <2>1. h \in [do : {"writer"}, ok : BOOLEAN, first : {FALSE}, on : 1 .. Conns]
    BY <1>2, <1>4
  <2>2. QED
    BY <1>2, <2>1 DEF Handlers
<1>6. ready \in Seq(Handlers) /\ \A g \in Waiting(ready) : HandlerOK(g)
  BY DEF IInv, Types, HandlersOK
<1>7. None(ready, "writer")
  BY <1>3, <1>6 DEF None, HandlerOK
<1>8. /\ ok => c = stream /\ at = 9 /\ sock[c] = "open"
      /\ ~ok => sock[c] \notin Alive
  <2>1. /\ sock[c] \in Alive => c = stream /\ at > 1
        /\ sock[c] = "connecting" => at = 2
    BY <1>4 DEF IInv, RunOK
  <2>2. sock[c] \in Alive => at = 9
    BY <1>4, <2>1
  <2>3. ok <=> sock[c] = "open"
    BY <1>1
  <2>4. sock[c] \in Alive <=> sock[c] = "open"
    BY <2>1, <2>2 DEF Alive
  <2>5. QED
    BY <2>1, <2>2, <2>3, <2>4
<1>9. /\ ready' \in Seq(Handlers) /\ Waiting(ready') = Waiting(ready) \cup {h}
      /\ \A k : Once(ready, k) => Once(ready', k)
      /\ StartsLast(ready) => StartsLast(ready')
      /\ at = 1 /\ RunsLast(ready) => RunsLast(ready')
  <2>1. at = 1 => ~Good(h)
    BY <1>5, <1>8 DEF Good
  <2>2. QED
    BY <1>3, <1>5, <1>6, <1>7, <2>1, Readied
<1>10. m \in Message /\ m.type # "login"
  BY <1>4 DEF Queued
<1>11. /\ wire \in [1 .. Conns -> Seq(Message)] /\ wire' \in [1 .. Conns -> Seq(Message)]
       /\ \A d \in 1 .. Conns : \/ wire'[d] = wire[d]
                                \/ d = stream /\ ok /\ wire'[d] = Append(wire[d], m)
       /\ ok => wire'[stream] = Append(wire[stream], m)
       /\ ~ok => wire' = wire
  <2>1. wire \in [1 .. Conns -> Seq(Message)] /\ Append(wire[c], m) \in Seq(Message)
    BY <1>4, <1>10 DEF IInv, Types
  <2>2. CASE ok
    BY <1>3, <1>4, <1>8, <2>1, <2>2
  <2>3. CASE ~ok
    BY <1>3, <2>1, <2>3
  <2>4. QED
    BY <2>2, <2>3
<1>12. Types' /\ Orderly'
  BY <1>3, <1>9, <1>11 DEF IInv, Types, Orderly
<1>13. HandlersOK'
  <2>1. ASSUME NEW g \in Waiting(ready) PROVE HandlerOK(g)'
    <3>1. HandlerOK(g) /\ g.do # "writer"
      BY <1>6, <1>7 DEF None
    <3>2. QED
      BY <1>3, <3>1 DEF HandlerOK
  <2>2. ok => wire'[stream] # <<>> /\ wire'[stream][Len(wire'[stream])] = m
    BY <1>4, <1>10, <1>11
  <2>3. HandlerOK(h)'
    BY <1>3, <1>4, <1>5, <1>8, <2>2, Steps DEF HandlerOK
  <2>4. QED
    BY <1>9, <2>1, <2>3 DEF HandlersOK
<1>14. RunOK'
  BY <1>3 DEF IInv, RunOK
<1>15. QueueOK'
  BY <1>3, <1>4, <1>5, <1>9 DEF IInv, QueueOK, None
<1>16. Doomed' <=> Doomed
  <2>1. Doomed <=> c # stream
    BY <1>1, <1>3, <1>7 DEF Doomed, None
  <2>2. \A g \in Waiting(ready) : g.do # "writer"
    BY <1>7 DEF None
  <2>3. Doomed' <=> ~ok /\ c # stream
    BY <1>3, <1>5, <1>9, <2>2 DEF Doomed
  <2>4. QED
    BY <1>8, <2>1, <2>3
<1>17. CapsOK'
  <2>1. ASSUME NEW d \in 1 .. Conns, Has(wire'[d], Extensions) PROVE ultra[d]
    <3>1. CASE wire'[d] = wire[d]
      BY <2>1, <3>1 DEF IInv, CapsOK
    <3>2. CASE d = stream /\ ok /\ wire'[d] = Append(wire[d], m)
      <4>1. Has(wire[d], Extensions) \/ m.type \in Extensions
        BY <1>10, <1>11, <2>1, <3>2, HasMore
      <4>2. m.type \in Extensions => Has(sendQue, Extensions)
        <5>1. sendQue \in Seq(Message)
          BY MessageSeqs DEF IInv, Types
        <5>2. QED
          BY <1>4, <5>1, HasMore
      <4>3. ~Doomed
        BY <1>1, <1>3, <1>7, <1>8, <3>2 DEF Doomed, None
      <4>4. QED
        BY <3>2, <4>1, <4>2, <4>3 DEF IInv, CapsOK
    <3>3. QED
      BY <1>11, <3>1, <3>2
  <2>2. QED
    BY <1>3, <1>16, <2>1 DEF IInv, CapsOK
<1>18. WireOK'
  <2>1. ASSUME NEW d \in 1 .. Conns, NEW i \in DOMAIN wire'[d]
        PROVE  \/ i \in DOMAIN wire[d] /\ wire'[d][i] = wire[d][i]
               \/ wire'[d][i].type # "login" /\ \A j \in DOMAIN wire[d] : j < i
    <3>1. wire[d] \in Seq(Message)
      BY <1>11
    <3>2. CASE wire'[d] = wire[d]
      BY <2>1, <3>2
    <3>3. CASE wire'[d] = Append(wire[d], m)
      BY <1>10, <2>1, <3>1, <3>3, AppendAt
    <3>4. QED
      BY <1>11, <3>2, <3>3
  <2>2. ASSUME NEW d \in 1 .. Conns, d > stream PROVE wire'[d] = <<>>
    BY <1>4, <1>11, <2>2 DEF IInv, WireOK
  <2>3. ASSUME at > 1, at < 9 PROVE wire' = wire
    BY <1>8, <1>11, <2>3
  <2>4. ASSUME NEW d \in 1 .. Conns, NEW i \in DOMAIN wire'[d], NEW j \in DOMAIN wire'[d], i < j, wire'[d][j].type = "login"
        PROVE  wire'[d][i].type = "login"
    <3>1. j \in DOMAIN wire[d] /\ wire'[d][j] = wire[d][j]
      BY <2>1, <2>4
    <3>2. DOMAIN wire[d] \subseteq Nat /\ DOMAIN wire'[d] \subseteq Nat
      BY <1>11
    <3>3. i \in DOMAIN wire[d] /\ wire'[d][i] = wire[d][i]
      BY <2>1, <2>4, <3>1, <3>2
    <3>4. QED
      BY <2>4, <3>1, <3>3 DEF IInv, WireOK
  <2>5. QED
    BY <1>3, <2>2, <2>3, <2>4, Steps DEF IInv, WireOK
<1>19. ChoiceOK'
  <2>1. PICK q : q = sendQue
    OBVIOUS
  <2>2. q \in Seq(Message) /\ q # <<>> /\ m = Head(q) /\ wire[stream] \in Seq(Message)
    BY <1>4, <1>11, <2>1, MessageSeqs DEF IInv, Types
  <2>3. PICK d : d = LastList(q, LastList(wire[stream], <<>>))
    OBVIOUS
  <2>4. LastList(q, LastList(wire'[stream], <<>>)) = d
    <3>1. LastList(q, LastList(Append(wire[stream], m), <<>>)) = d
      BY <2>2, <2>3, LastListTwice
    <3>2. QED
      BY <1>11, <2>3, <3>1, Zenon
  <2>5. LastSent(ready', d) = LastSent(ready, d)
    <3>1. ~Sends(h)
      BY <1>5 DEF Sends
    <3>2. QED
      BY <1>3, <1>5, <1>6, <3>1, LastSentAppend
  <2>6. Chosen' = LastList(posting, LastSent(ready', LastList(q, LastList(wire'[stream], <<>>))))
    BY <1>3, <2>1, Zenon DEF Chosen
  <2>7. Chosen' = Chosen
    BY <2>1, <2>3, <2>4, <2>5, <2>6, Zenon DEF Chosen
  <2>8. QED
    BY <1>3, <1>16, <2>7 DEF IInv, ChoiceOK
<1>20. QED
  BY <1>12, <1>13, <1>14, <1>15, <1>17, <1>18, <1>19 DEF IInv

-----------------------------------------------------------------------------
(* The strand has taken the first handler. *)
Took(h, rest) ==
  /\ rest \in Seq(Handlers) /\ h \in Handlers
  /\ Waiting(ready) = Waiting(rest) \cup {h}
  /\ \A k : Once(ready, k) => Once(rest, k) /\ (h.do = k => None(rest, k))
  /\ StartsLast(rest) /\ (h.do = "start" => None(rest, "send"))
  /\ at = 1 => RunsLast(rest) /\ (h.do = "run" => \A g \in Waiting(rest) : ~Good(g))
  /\ \A d : LastSent(ready, d) = LastSent(rest, IF Sends(h) THEN <<h.msg>> ELSE d)

(* That is so when the first handler is taken. *)
LEMMA Takes == ASSUME IInv, ready # <<>> PROVE Took(Head(ready), Tail(ready))
<1>1. ready \in Seq(Handlers) /\ StartsLast(ready) /\ (at = 1 => RunsLast(ready))
  BY DEF IInv, Types, Orderly
<1>2. \A d : LastSent(ready, d) = LastSent(Tail(ready), IF Sends(Head(ready)) THEN <<Head(ready).msg>> ELSE d)
  BY <1>1, LastSentTail, Zenon
<1>3. /\ Tail(ready) \in Seq(Handlers) /\ Head(ready) \in Handlers
      /\ Waiting(ready) = Waiting(Tail(ready)) \cup {Head(ready)}
      /\ \A k : Once(ready, k) => /\ Once(Tail(ready), k)
                                  /\ Head(ready).do = k => None(Tail(ready), k)
      /\ StartsLast(ready) => /\ StartsLast(Tail(ready))
                              /\ Head(ready).do = "start" => None(Tail(ready), "send")
      /\ RunsLast(ready) => /\ RunsLast(Tail(ready))
                            /\ Head(ready).do = "run" => \A h \in Waiting(Tail(ready)) : ~Good(h)
  BY <1>1, Run, Zenon
<1>4. QED
  BY <1>1, <1>2, <1>3, Zenon DEF Took

(* What is left keeps the order it has; where there is no run, or no writer to
   go after it, none comes before. *)
LEMMA Left ==
  ASSUME IInv, NEW h, NEW rest, Took(h, rest)
  PROVE  /\ rest \in Seq(Handlers) /\ h \in Handlers /\ HandlerOK(h)
         /\ \A g \in Waiting(rest) : g \in Waiting(ready) /\ HandlerOK(g) /\ g \in Handlers
         /\ \A g \in Waiting(ready) : g = h \/ g \in Waiting(rest)
         /\ Once(rest, "start") /\ Once(rest, "run") /\ Once(rest, "writer") /\ StartsLast(rest)
         /\ h.do \in {"start", "run", "writer"} => None(rest, h.do)
         /\ None(rest, "run") => RunsLast(rest)
<1>1. \A g \in Waiting(ready) : HandlerOK(g)
  BY DEF IInv, HandlersOK
<1>2. ASSUME None(rest, "run") PROVE RunsLast(rest)
  BY <1>2 DEF None, Waiting, RunsLast
<1>3. \A g \in Waiting(rest) : g \in Handlers
  BY DEF Took, Waiting
<1>4. QED
  BY <1>1, <1>2, <1>3 DEF IInv, Orderly, Took

(* co_run begins, when nothing else of a run is left. *)
LEMMA StartStep == ASSUME IInv, NEW h, NEW rest, Took(h, rest), h.do = "start", Start(rest) PROVE IInv'
<1>1. /\ at = 0 /\ posting = <<>> /\ op = NoOp /\ status = "closed"
  BY Left DEF HandlerOK, IInv, RunOK
<1>2. /\ ready' = rest /\ status' = "connecting" /\ at' = 1 /\ op' = [kind |-> Script[1], on |-> 0] /\ over' = FALSE
      /\ UNCHANGED <<caps, updates, stream, sock, ultra, sendQue, writing, wire, dropped,
                     caller, posting, levels, choice, calls>>
  BY <1>1 DEF Start, Suspend, netVars, queVars, appVars
<1>3. /\ op' \in Ops /\ op'.kind = "resolve"
  BY <1>2, Steps, OutgoingAssumption DEF Ops
<1>4. Types'
  <2>1. rest \in Seq(Handlers) /\ at' \in 0 .. Loop /\ status' \in Statuses
    BY <1>2, Left, Steps
  <2>2. QED
    BY <1>2, <1>3, <2>1 DEF IInv, Types
<1>5. \A g \in Waiting(rest) : HandlerOK(g) /\ g.do # "start" /\ g.do # "run" /\ g.do # "send"
  <2>1. None(rest, "start") /\ None(rest, "send")
    BY Left DEF Took
  <2>2. QED
    BY <1>1, <2>1, Left DEF None, HandlerOK
<1>6. Orderly'
  BY <1>2, <1>5, Left DEF Orderly, None
<1>7. HandlersOK'
  <2> SUFFICES ASSUME NEW g \in Waiting(rest) PROVE HandlerOK(g)'
    BY <1>2 DEF HandlersOK
  <2>1. QED
    BY <1>2, <1>5, Steps DEF HandlerOK
<1>8. RunOK'
  BY <1>1, <1>2, <1>3, Steps DEF IInv, RunOK
<1>9. \A g : g.do = "writer" => (g \in Waiting(rest) <=> g \in Waiting(ready))
  BY DEF Took
<1>10. QueueOK'
  BY <1>1, <1>2, <1>9 DEF IInv, QueueOK, None
<1>11. Doomed' <=> Doomed
  BY <1>2, <1>9 DEF Doomed
<1>12. CapsOK' /\ WireOK' /\ ChoiceOK'
  BY <1>1, <1>2, <1>11, Steps DEF IInv, CapsOK, WireOK, ChoiceOK
<1>13. QED
  BY <1>4, <1>6, <1>7, <1>8, <1>10, <1>12 DEF IInv

(* The connection, when it is closed, is no longer alive. *)
LEMMA Closes ==
  ASSUME Types, CloseStream \/ UNCHANGED <<status, sock>>
  PROVE  /\ status' \in Statuses /\ (status' = "closed" \/ status' = status)
         /\ sock' \in [1 .. Conns -> SockStates]
         /\ \A c \in 1 .. Conns : /\ sock'[c] \in Alive => sock[c] \in Alive
                                  /\ sock'[c] = "connecting" => sock[c] = "connecting"
                                  /\ sock'[c] = "open" => sock[c] = "open"
<1>1. status \in Statuses /\ sock \in [1 .. Conns -> SockStates]
  BY DEF Types
<1>2. CASE UNCHANGED <<status, sock>>
  BY <1>1, <1>2
<1>3. CASE status' = "closed" /\ sock' = [c \in DOMAIN sock |-> IF c = stream THEN "closed" ELSE sock[c]]
  <2>1. /\ sock' \in [1 .. Conns -> SockStates]
        /\ \A c \in 1 .. Conns : sock'[c] = "closed" \/ sock'[c] = sock[c]
    BY <1>1, <1>3 DEF SockStates
  <2>2. QED
    BY <1>3, <2>1, Steps DEF Alive
<1>4. QED
  BY <1>2, <1>3 DEF CloseStream

(* The run ends; an application that uses the callbacks may start another. *)
LEMMA EndsStep == ASSUME IInv, NEW h, NEW rest, Took(h, rest), h.do = "run", ~h.ok, Ends(rest) PROVE IInv'
<1>1. /\ at > 0 /\ op = NoOp /\ at \in 0 .. 9 /\ \A c \in 1 .. Conns : sock[c] \notin Alive
  BY Left, Steps DEF HandlerOK, IInv, Types
<1>2. PICK s : s = [do |-> "start"]
  OBVIOUS
<1>3. /\ CloseStream /\ at' = 0 /\ op' = NoOp /\ over' = TRUE
      /\ ready' = rest \/ (caller = "callbacks" /\ ready' = Append(rest, s))
      /\ UNCHANGED <<caps, updates, stream, ultra, sendQue, writing, wire, dropped,
                     caller, posting, levels, choice, calls>>
  BY <1>2 DEF Ends, queVars, appVars
<1>4. s \in Handlers /\ s.do = "start"
  <2>1. s \in [do : {"start", "stop"}] /\ s.do = "start"
    BY <1>2
  <2>2. QED
    BY <2>1 DEF Handlers
<1>5. /\ status' = "closed" /\ sock' \in [1 .. Conns -> SockStates]
      /\ \A c \in 1 .. Conns : sock'[c] \notin Alive
      /\ \A c \in 1 .. Conns : sock'[c] # "connecting"
  <2>1. status' = "closed"
    BY <1>3 DEF CloseStream
  <2>2. QED
    BY <1>1, <1>3, <2>1, Closes DEF IInv, Alive
<1>6. \A g \in Waiting(rest) : HandlerOK(g) /\ g \in Handlers /\ g.do # "start" /\ g.do # "run"
  BY <1>1, Left DEF None, HandlerOK
<1>7. /\ ready' \in Seq(Handlers)
      /\ \A g \in Waiting(ready') : g \in Waiting(rest) \/ (g = s /\ caller = "callbacks")
      /\ \A g \in Waiting(rest) : g \in Waiting(ready')
      /\ Once(ready', "start") /\ Once(ready', "run") /\ Once(ready', "writer") /\ StartsLast(ready')
  <2>1. CASE ready' = rest
    BY <2>1, Left
  <2>2. CASE caller = "callbacks" /\ ready' = Append(rest, s)
    <3>1. None(rest, "start") /\ rest \in Seq(Handlers)
      BY <1>6, Left DEF None
    <3>2. /\ ready' \in Seq(Handlers) /\ Waiting(ready') = Waiting(rest) \cup {s}
          /\ \A k : Once(rest, k) /\ (s.do = k => None(rest, k)) => Once(ready', k)
          /\ StartsLast(rest) => StartsLast(ready')
      BY <1>4, <2>2, <3>1, Readied
    <3>3. QED
      BY <1>4, <2>2, <3>1, <3>2, Left
  <2>3. QED
    BY <1>3, <2>1, <2>2
<1>8. Types'
  <2>1. NoOp \in Ops
    BY OutgoingAssumption DEF NoOp, Ops
  <2>2. QED
    BY <1>3, <1>5, <1>7, <2>1, Steps DEF IInv, Types
<1>9. Orderly'
  BY <1>3, <1>7 DEF Orderly
<1>10. HandlersOK'
  <2>1. ASSUME NEW g \in Waiting(rest) PROVE HandlerOK(g)'
    <3>1. g.do = "writer" /\ ~g.ok => g.on \in 1 .. Conns
      BY <1>6 DEF Handlers, HandlerOK
    <3>2. QED
      BY <1>3, <1>5, <1>6, <3>1, Steps DEF HandlerOK, Login
  <2>2. caller = "callbacks" => posting = <<>>
    BY DEF IInv, RunOK
  <2>3. caller = "callbacks" => HandlerOK(s)'
    BY <1>3, <1>4, <2>2 DEF HandlerOK
  <2>4. QED
    BY <1>7, <2>1, <2>3 DEF HandlersOK
<1>11. RunOK'
  BY <1>3, <1>5, Steps DEF IInv, RunOK, Login
<1>12. \A g : g.do = "writer" => (g \in Waiting(ready') <=> g \in Waiting(ready))
  <2>1. \A g \in Waiting(ready) : g = h \/ g \in Waiting(rest)
    BY Left
  <2>2. QED
    BY <1>4, <1>7, <2>1, Left
<1>13. QueueOK'
  BY <1>3, <1>12 DEF IInv, QueueOK, None
<1>14. Doomed' <=> Doomed
  BY <1>3, <1>12 DEF Doomed
<1>15. CapsOK' /\ WireOK' /\ ChoiceOK'
  BY <1>3, <1>14, Steps DEF IInv, CapsOK, WireOK, ChoiceOK
<1>16. QED
  BY <1>8, <1>9, <1>10, <1>11, <1>13, <1>15 DEF IInv

(* Nothing else is to be run but writers and stops while a login is under way. *)
LEMMA InLogin ==
  ASSUME IInv, NEW h, NEW rest, Took(h, rest), h.do = "run", at \in 1 .. 8
  PROVE  /\ op = NoOp /\ posting = <<>>
         /\ \A g \in Waiting(rest) : /\ HandlerOK(g) /\ g \in Handlers /\ g.do \notin {"start", "run", "send"}
                                     /\ ~Good(g) /\ (g.do = "writer" => ~g.ok /\ ~g.first /\ g.on \in 1 .. Conns)
         /\ Orderly' <=> Once(ready', "start") /\ Once(ready', "run") /\ Once(ready', "writer")
                         /\ StartsLast(ready') /\ (at' = 1 => RunsLast(ready'))
         /\ \A g : g.do = "writer" => (g \in Waiting(rest) <=> g \in Waiting(ready))
<1>1. \A g \in Waiting(rest) : HandlerOK(g) /\ g \in Handlers /\ g.do # "run"
  BY Left DEF None
<1>2. \A g \in Waiting(rest) : g.do # "start" /\ g.do # "send"
  BY <1>1, Steps DEF HandlerOK, Login
<1>3. \A g \in Waiting(rest) : ~Good(g)
  <2>1. CASE at = 1
    BY <2>1 DEF Took
  <2>2. CASE at # 1
    BY <1>1, <2>2, Steps DEF Good, HandlerOK
  <2>3. QED
    BY <2>1, <2>2
<1>4. \A g \in Waiting(rest) : g.do = "writer" => ~g.ok /\ ~g.first /\ g.on \in 1 .. Conns
  <2>1. \A g \in Waiting(rest) : g.do = "writer" => ~g.ok /\ ~g.first
    BY <1>1, <1>3 DEF Good, HandlerOK
  <2>2. QED
    BY <1>1, <2>1 DEF Handlers
<1>5. op = NoOp /\ posting = <<>>
  BY Left, Steps DEF HandlerOK, IInv, RunOK, Login
<1>6. QED
  BY <1>1, <1>2, <1>3, <1>4, <1>5 DEF Orderly, Took

(* A new stream: what was being written on the old one is lost. *)
LEMMA ResolvedStep == ASSUME IInv, NEW h, NEW rest, Took(h, rest), h.do = "run", h.ok, at = 1, Resolved(rest) PROVE IInv'
<1>1. /\ stream' = stream + 1 /\ sock' = [sock EXCEPT ![stream + 1] = "connecting"] /\ at' = 2 /\ dropped' = FALSE
      /\ op' = [kind |-> Script[2], on |-> stream + 1] /\ ready' = rest
      /\ UNCHANGED <<status, caps, over, updates, ultra, sendQue, writing, wire,
                     caller, posting, levels, choice, calls>>
  BY DEF Resolved, Suspend, appVars
<1>2. stream < Conns /\ stream \in Nat /\ stream + 1 \in 1 .. Conns
  BY Left, OutgoingAssumption DEF HandlerOK, IInv, Types
<1>3. /\ sock' \in [1 .. Conns -> SockStates] /\ sock'[stream + 1] = "connecting"
      /\ \A c \in 1 .. Conns : /\ c # stream + 1 => sock'[c] \notin Alive
                               /\ sock[c] \notin Alive
  <2>1. \A c \in 1 .. Conns : sock[c] \notin Alive
    BY DEF IInv, RunOK
  <2>2. sock \in [1 .. Conns -> SockStates]
    BY DEF IInv, Types
  <2>3. QED
    BY <1>1, <1>2, <2>1, <2>2 DEF SockStates, Alive
<1>4. op' \in Ops /\ op' # NoOp /\ op'.kind = "connect" /\ op'.on = stream + 1
  BY <1>1, <1>2, Steps DEF Ops, NoOp
<1>5. Types' /\ Orderly'
  <2>1. Types'
    <3>1. rest \in Seq(Handlers) /\ at' \in 0 .. Loop /\ stream' \in 0 .. Conns
      BY <1>1, <1>2, Left, Steps
    <3>2. QED
      BY <1>1, <1>3, <1>4, <3>1 DEF IInv, Types
  <2>2. Orderly'
    BY <1>1, Left, Steps DEF Orderly
  <2>3. QED
    BY <2>1, <2>2
<1>6. \A g \in Waiting(rest) : /\ HandlerOK(g) /\ g.do \notin {"start", "run", "send"}
                               /\ g.do = "writer" => ~g.ok /\ ~g.first /\ g.on \in 1 .. Conns /\ g.on <= stream
  BY InLogin DEF HandlerOK
<1>7. HandlersOK'
  <2> SUFFICES ASSUME NEW g \in Waiting(rest) PROVE HandlerOK(g)'
    BY <1>1 DEF HandlersOK
  <2>1. g.do = "writer" => sock'[g.on] \notin Alive /\ g.on <= stream + 1
    BY <1>2, <1>3, <1>6
  <2>2. QED
    BY <1>1, <1>6, <2>1 DEF HandlerOK
<1>8. RunOK'
  BY <1>1, <1>2, <1>3, <1>4, Steps, InLogin DEF IInv, RunOK, Alive
<1>9. \A g : g.do = "writer" => (g \in Waiting(rest) <=> g \in Waiting(ready))
  BY InLogin
<1>10. QueueOK'
  BY <1>1, <1>2, <1>9, Steps DEF IInv, QueueOK, Types, None
<1>11. sendQue # <<>> => Doomed'
  <2>1. CASE writing # NoWrite
    BY <1>1, <1>2, <2>1 DEF IInv, QueueOK, Types, Doomed
  <2>2. CASE ~None(ready, "writer")
    <3>1. PICK g \in Waiting(rest) : g.do = "writer"
      BY <1>9, <2>2 DEF None
    <3>2. ~g.ok /\ g.on # stream'
      BY <1>1, <1>2, <1>6, <3>1
    <3>3. QED
      BY <1>1, <3>1, <3>2 DEF Doomed
  <2>3. QED
    BY <2>1, <2>2 DEF IInv, QueueOK
<1>12. CapsOK'
  <2>1. ~Has(<<>>, Extensions)
    BY DEF Has
  <2>2. QED
    BY <1>1, <1>11, <2>1, InLogin DEF IInv, CapsOK
<1>13. WireOK'
  <2>1. wire[stream + 1] = <<>>
    BY <1>2 DEF IInv, WireOK
  <2>2. QED
    BY <1>1, <1>2, <2>1 DEF IInv, WireOK
<1>14. ChoiceOK'
  BY <1>1, Steps DEF ChoiceOK
<1>15. QED
  BY <1>5, <1>7, <1>8, <1>10, <1>12, <1>13, <1>14 DEF IInv

(* A phase of the login after another. *)
LEMMA NextStepStep ==
  ASSUME IInv, NEW h, NEW rest, Took(h, rest), h.do = "run", h.ok, at \in 2 .. Loop - 2, NextStep(at + 1, rest)
  PROVE  IInv'
<1>1. PICK k : k = at + 1
  OBVIOUS
<1>2. /\ at \in 2 .. 7 /\ k \in 3 .. 8
      /\ status' = Committed(k) /\ at' = k /\ op' = [kind |-> Script[k], on |-> stream] /\ ready' = rest
      /\ caps' = IF k = 4 THEN IF ultra[stream] THEN {"scale", "palmscale"} ELSE {} ELSE caps
      /\ UNCHANGED <<over, updates, stream, sock, ultra, sendQue, writing, wire, dropped,
                     caller, posting, levels, choice, calls>>
  BY <1>1, Steps DEF NextStep, Suspend, netVars, queVars, appVars
<1>3. /\ status' \in Statuses /\ status' # "connected" /\ op' \in Ops /\ op' # NoOp
      /\ op'.kind = Script[k] /\ op'.on = stream /\ stream > 0
  <2>1. status \in Statuses /\ status # "connected"
    BY <1>2, Connected DEF IInv, Types
  <2>2. status' \in Statuses /\ status' # "connected"
    BY <1>2, <2>1, Steps DEF Committed
  <2>3. QED
    BY <1>2, <2>2, Steps, Connected DEF Ops, NoOp
<1>4. Types' /\ Orderly'
  <2>1. caps' \in SUBSET Extensions
    BY <1>2 DEF IInv, Types, Extensions
  <2>2. Types'
    BY <1>2, <1>3, <2>1, Left, Steps DEF IInv, Types
  <2>3. Orderly'
    BY <1>2, Left DEF Orderly
  <2>4. QED
    BY <2>2, <2>3
<1>5. \A g \in Waiting(rest) : /\ HandlerOK(g) /\ g.do \notin {"start", "run", "send"}
                               /\ g.do = "writer" => ~g.ok /\ ~g.first
  BY <1>2, InLogin
<1>6. HandlersOK'
  <2> SUFFICES ASSUME NEW g \in Waiting(rest) PROVE HandlerOK(g)'
    BY <1>2 DEF HandlersOK
  <2>1. QED
    BY <1>2, <1>5 DEF HandlerOK
<1>7. /\ \A c \in 1 .. Conns : sock[c] # "connecting"
      /\ op = NoOp /\ posting = <<>>
  BY <1>2, Steps, InLogin DEF IInv, RunOK
<1>8. RunOK'
  BY <1>2, <1>3, <1>7, Steps DEF IInv, RunOK
<1>9. \A g : g.do = "writer" => (g \in Waiting(rest) <=> g \in Waiting(ready))
  BY <1>2, InLogin
<1>10. QueueOK' /\ (Doomed' <=> Doomed)
  <2>1. QueueOK'
    BY <1>2, <1>9, Steps DEF IInv, QueueOK, None
  <2>2. Doomed' <=> Doomed
    BY <1>2, <1>9 DEF Doomed
  <2>3. QED
    BY <2>1, <2>2
<1>11. CapsOK'
  <2>1. at' > 3 /\ caps' # {} => ultra[stream]
    BY <1>1, <1>2 DEF IInv, CapsOK
  <2>2. QED
    BY <1>2, <1>10, <2>1 DEF IInv, CapsOK
<1>12. WireOK' /\ ChoiceOK'
  BY <1>2, Steps DEF IInv, WireOK, ChoiceOK
<1>13. QED
  BY <1>4, <1>6, <1>8, <1>10, <1>11, <1>12 DEF IInv

-----------------------------------------------------------------------------
(* Messages go to the end of the queue, with a writer when there is none. *)
NewWriter == [do |-> "writer", ok |-> TRUE, first |-> TRUE]

(* The writer that a send spawns is a handler, and sends nothing itself. *)
LEMMA NewWriterIs == /\ NewWriter \in Handlers /\ NewWriter.do = "writer" /\ NewWriter.ok /\ NewWriter.first
                     /\ ~Sends(NewWriter)
<1>1. NewWriter \in [do : {"writer"}, ok : {TRUE}, first : {TRUE}]
  BY DEF NewWriter
<1>2. QED
  BY <1>1 DEF NewWriter, Handlers, Sends

(* What has become of the queue and the strand. *)
LEMMA Pushed ==
  ASSUME IInv, NEW rest \in Seq(Handlers), NEW msgs \in Seq(Queued), Push(msgs, rest),
         \A g \in Waiting(rest) : HandlerOK(g)
  PROVE  /\ sendQue' \in Seq(Queued) /\ ready' \in Seq(Handlers)
         /\ Len(sendQue') = Len(sendQue) + Len(msgs) /\ Len(sendQue) \in Nat /\ Len(msgs) \in Nat
         /\ sendQue # <<>> => sendQue' # <<>> /\ Head(sendQue') = Head(sendQue)
         /\ Has(sendQue', Extensions) => Has(sendQue, Extensions) \/ Has(msgs, Extensions)
         /\ \A d : LastList(sendQue', d) = LastList(msgs, LastList(sendQue, d))
         /\ \A d : LastSent(ready', d) = LastSent(rest, d)
         /\ \A g \in Waiting(rest) : g \in Waiting(ready')
         /\ \A g \in Waiting(ready') : g \in Waiting(rest) \/ (g = NewWriter /\ sendQue = <<>> /\ sendQue' # <<>>)
         /\ sendQue = <<>> /\ sendQue' # <<>> => NewWriter \in Waiting(ready')
         /\ \A k \in {"start", "run", "writer"} : Once(rest, k) => Once(ready', k)
         /\ StartsLast(rest) => StartsLast(ready')
<1>1. sendQue \in Seq(Queued) /\ sendQue \in Seq(Message) /\ msgs \in Seq(Message)
  BY MessageSeqs DEF IInv, Types
<1>2. sendQue' = sendQue \o msgs
  BY DEF Push
<1>3. /\ sendQue' \in Seq(Queued) /\ Len(sendQue') = Len(sendQue) + Len(msgs)
      /\ Len(sendQue) \in Nat /\ Len(msgs) \in Nat
      /\ sendQue # <<>> => sendQue' # <<>> /\ Head(sendQue') = Head(sendQue)
      /\ sendQue = <<>> => sendQue' = msgs
  BY <1>1, <1>2
<1>4. Has(sendQue', Extensions) => Has(sendQue, Extensions) \/ Has(msgs, Extensions)
  BY <1>1, <1>2, HasMore
<1>5. \A d : LastList(sendQue', d) = LastList(msgs, LastList(sendQue, d))
  BY <1>1, <1>2, LastListConcat, Zenon
<1>6. CASE sendQue = <<>> /\ msgs # <<>>
  <2>1. ready' = Append(rest, NewWriter)
    BY <1>6 DEF Push, NewWriter
  <2>2. None(rest, "writer")
    BY <1>6 DEF None, HandlerOK
  <2>3. /\ ready' \in Seq(Handlers) /\ Waiting(ready') = Waiting(rest) \cup {NewWriter}
        /\ \A k : Once(rest, k) /\ (NewWriter.do = k => None(rest, k)) => Once(ready', k)
        /\ StartsLast(rest) /\ (NewWriter.do = "send" => None(rest, "start")) => StartsLast(ready')
    BY <2>1, NewWriterIs, Readied
  <2>4. \A d : LastSent(ready', d) = LastSent(rest, d)
    BY <2>1, NewWriterIs, LastSentAppend
  <2>5. QED
    BY <1>3, <1>4, <1>5, <1>6, <2>2, <2>3, <2>4, NewWriterIs
<1>7. CASE ~(sendQue = <<>> /\ msgs # <<>>)
  <2>1. ready' = rest
    BY <1>7, Zenon DEF Push
  <2>2. ~(sendQue = <<>> /\ sendQue' # <<>>)
    BY <1>3, <1>7
  <2>3. QED
    BY <1>3, <1>4, <1>5, <2>1, <2>2
<1>8. QED
  BY <1>6, <1>7

-----------------------------------------------------------------------------
(* The loop has been reached, or goes on, and messages have been queued. *)
LEMMA GoesOn ==
  ASSUME IInv, NEW h, NEW rest, Took(h, rest), h.do = "run", h.ok, at \in {8, 9},
         NEW all \in Seq(Queued), Push(all, rest), Len(all) > 0, at = 8 => Len(all) > 1,
         Has(all, Extensions) => ultra[stream],
         at' = 9, op' = [kind |-> Script[9], on |-> stream],
         status' \in Statuses, sock' \in [1 .. Conns -> SockStates],
         \A c \in 1 .. Conns : /\ sock'[c] \in Alive => sock[c] \in Alive
                               /\ sock'[c] = "connecting" => sock[c] = "connecting"
                               /\ sock'[c] = "open" => sock[c] = "open",
         UNCHANGED <<caps, over, stream, ultra, writing, wire, dropped, caller, posting, levels>>,
         updates' \in Nat, calls' \in Nat,
         sock'[stream] = "open" /\ ~dropped => Chosen' = choice'
  PROVE  IInv'
<1>1. /\ rest \in Seq(Handlers) /\ None(rest, "run")
      /\ \A g \in Waiting(rest) : HandlerOK(g) /\ g \in Handlers /\ g.do # "run" /\ g.do # "start"
  BY Left DEF None, HandlerOK
<1>2. /\ op = NoOp /\ stream \in 1 .. Conns /\ over = FALSE
      /\ \A c \in 1 .. Conns : sock[c] # "connecting"
  <2>1. op = NoOp /\ (over => at = 0) /\ over \in BOOLEAN
    BY Left DEF HandlerOK, IInv, RunOK, Types
  <2>2. QED
    BY <2>1, Connected DEF IInv, RunOK
<1>3. /\ sendQue' \in Seq(Queued) /\ ready' \in Seq(Handlers)
      /\ Len(sendQue') = Len(sendQue) + Len(all) /\ Len(sendQue) \in Nat /\ Len(all) \in Nat
      /\ sendQue # <<>> => sendQue' # <<>> /\ Head(sendQue') = Head(sendQue)
      /\ Has(sendQue', Extensions) => Has(sendQue, Extensions) \/ Has(all, Extensions)
      /\ \A g \in Waiting(rest) : g \in Waiting(ready')
      /\ \A g \in Waiting(ready') : g \in Waiting(rest) \/ (g = NewWriter /\ sendQue = <<>> /\ sendQue' # <<>>)
      /\ sendQue = <<>> /\ sendQue' # <<>> => NewWriter \in Waiting(ready')
      /\ \A k \in {"start", "run", "writer"} : Once(rest, k) => Once(ready', k)
      /\ StartsLast(rest) => StartsLast(ready')
  BY <1>1, Pushed
<1>4. sendQue' # <<>>
  BY <1>3
<1>5. op' \in Ops /\ op' # NoOp /\ op'.kind = "read" /\ op'.on = stream
  BY <1>2, Steps DEF Ops, NoOp
<1>6. Types'
  <2>1. at' \in 0 .. Loop
    BY Steps
  <2>2. QED
    BY <1>3, <1>5, <2>1 DEF IInv, Types
<1>7. Orderly'
  BY <1>3, Left DEF Orderly
<1>8. HandlersOK'
  <2>1. ASSUME NEW g \in Waiting(rest) PROVE HandlerOK(g)'
    <3>1. CASE g.do = "writer"
      <4>1. sendQue # <<>> /\ writing = NoWrite
        BY <1>1, <2>1, <3>1 DEF HandlerOK
      <4>2. ~g.ok => g.on \in 1 .. Conns
        BY <1>1, <2>1, <3>1 DEF Handlers, HandlerOK
      <4>3. g.ok => at = 9
        BY <1>1, <2>1, <3>1, Steps DEF HandlerOK
      <4>4. QED
        BY <1>1, <1>3, <2>1, <3>1, <4>1, <4>2, <4>3, Steps DEF HandlerOK
    <3>2. CASE g.do = "send"
      BY <1>1, <2>1, <3>2, Steps DEF HandlerOK, Login
    <3>3. CASE g.do \notin {"writer", "send"}
      BY <1>1, <2>1, <3>3 DEF HandlerOK
    <3>4. QED
      BY <3>1, <3>2, <3>3
  <2>2. ASSUME sendQue = <<>> PROVE HandlerOK(NewWriter)'
    <3>1. writing = NoWrite
      BY <2>2 DEF IInv, QueueOK
    <3>2. QED
      BY <1>4, <3>1, NewWriterIs, Steps DEF HandlerOK
  <2>3. QED
    BY <1>3, <2>1, <2>2 DEF HandlersOK
<1>9. RunOK'
  <2>1. posting # <<>> => stream > 0 /\ caller = "thread"
    BY DEF IInv, RunOK
  <2>2. \A c \in 1 .. Conns : sock'[c] \in Alive => c = stream
    BY DEF IInv, RunOK
  <2>3. /\ at' = 9 /\ stream' = stream /\ over' = FALSE /\ stream > 0
        /\ op'.kind = Script[9] /\ op'.on = stream
        /\ \A c \in 1 .. Conns : sock'[c] # "connecting"
    BY <1>2, <1>5, Steps
  <2>4. Loop = 9 /\ 9 \notin Login
    BY Steps DEF Login
  <2>5. QED
    BY <2>1, <2>2, <2>3, <2>4 DEF RunOK
<1>10. \A g : g.do = "writer" /\ g \in Waiting(ready) => g \in Waiting(rest)
  BY DEF Took
<1>11. QueueOK'
  <2>1. writing # NoWrite => sendQue # <<>>
    BY DEF IInv, QueueOK
  <2>2. ~(writing # NoWrite) => ~None(ready', "writer")
    <3>1. CASE sendQue = <<>>
      BY <1>3, <1>4, <3>1, NewWriterIs DEF None
    <3>2. CASE sendQue # <<>>
      BY <1>3, <1>10, <3>2 DEF IInv, QueueOK, None
    <3>3. QED
      BY <3>1, <3>2
  <2>3. QED
    BY <1>2, <1>3, <1>4, <2>1, <2>2, Steps DEF IInv, QueueOK
<1>12. Doomed' <=> Doomed
  <2>1. \A g : g.do = "writer" /\ ~g.ok => (g \in Waiting(ready') <=> g \in Waiting(ready))
    BY <1>3, <1>10, NewWriterIs, Left
  <2>2. QED
    BY <2>1 DEF Doomed
<1>13. CapsOK'
  <2>1. caps # {} => ultra[stream]
    BY DEF IInv, CapsOK
  <2>2. QED
    BY <1>3, <1>12, <2>1 DEF IInv, CapsOK
<1>14. WireOK'
  BY Steps DEF IInv, WireOK
<1>15. ChoiceOK'
  <2>1. Doomed' => Len(sendQue') > 1
    <3>1. CASE at = 8
      BY <1>3, <3>1
    <3>2. CASE at = 9
      BY <1>3, <1>12, <3>2, Steps DEF IInv, ChoiceOK
    <3>3. QED
      BY <3>1, <3>2
  <2>2. QED
    BY <2>1 DEF ChoiceOK
<1>16. QED
  BY <1>6, <1>7, <1>8, <1>9, <1>11, <1>13, <1>14, <1>15 DEF IInv

(* What a callback sends. *)
LEMMA AnswersAre ==
  ASSUME IInv, NEW msgs \in Answers, CallbackSends(msgs)
  PROVE  /\ msgs \in Seq(Queued) /\ msgs \in Seq(Message) /\ Len(msgs) \in Nat /\ calls' \in Nat
         /\ at > 3 /\ Has(msgs, Extensions) => ultra[stream]
         /\ caller = "thread" => msgs = <<>>
<1>1. msgs \in Seq(Queued) /\ (Has(msgs, Extensions) => caps # {})
  <2>1. CASE msgs = <<>>
    BY <2>1 DEF Has
  <2>2. CASE \E call \in Call : msgs = Encoded(call)
    BY <2>2, EncodedIs DEF IInv
  <2>3. QED
    BY <2>1, <2>2 DEF Answers
<1>2. calls' \in Nat
  BY DEF CallbackSends, IInv, Types
<1>3. QED
  BY <1>1, <1>2, MessageSeqs DEF CallbackSends, IInv, CapsOK

Format == [type |-> "format"]
Request == [type |-> "request"]

(* Both are messages that may be queued. *)
LEMMA FormatRequest ==
  /\ Format \in Queued /\ Format \in Message /\ Format.type = "format"
  /\ Request \in Queued /\ Request \in Message /\ Request.type = "request"
<1>1. Format \in Plains /\ Request \in Plains
  BY DEF Format, Request, Plains
<1>2. QED
  BY <1>1, PlainsQueued DEF Queued, Format, Request

(* The next update is asked for after them. *)
LEMMA Asking ==
  ASSUME NEW msgs \in Seq(Queued), NEW all, all = msgs \o <<Request>>
  PROVE  /\ all \in Seq(Queued) /\ Len(all) = Len(msgs) + 1 /\ Len(msgs) \in Nat
         /\ Has(all, Extensions) => Has(msgs, Extensions)
         /\ \A d : LastList(all, d) = LastList(msgs, d)
<1>1. all = Append(msgs, Request) /\ msgs \in Seq(Message)
  BY FormatRequest, MessageSeqs
<1>2. /\ all \in Seq(Queued) /\ Len(all) = Len(msgs) + 1 /\ Len(msgs) \in Nat
  BY <1>1, FormatRequest
<1>3. Has(all, Extensions) => Has(msgs, Extensions)
  <2>1. Has(Append(msgs, Request), Extensions) <=> Has(msgs, Extensions) \/ Request.type \in Extensions
    BY <1>1, FormatRequest, HasMore, Zenon
  <2>2. Request.type \notin Extensions
    BY FormatRequest DEF Extensions
  <2>3. QED
    BY <1>1, <2>1, <2>2, Zenon
<1>4. \A d : LastList(all, d) = LastList(msgs, d)
  BY <1>1, FormatRequest, LastListAppend
<1>5. QED
  BY <1>2, <1>3, <1>4

(* Nor does a request before what is sent. *)
LEMMA AskingFirst ==
  ASSUME NEW msgs \in Seq(Queued), NEW all, all = <<Request>> \o msgs
  PROVE  /\ all \in Seq(Queued) /\ Len(all) = Len(msgs) + 1 /\ Len(msgs) \in Nat
         /\ Has(all, Extensions) => Has(msgs, Extensions)
         /\ \A d : LastList(all, d) = LastList(msgs, d)
<1>1. PICK one : one = <<Request>>
  OBVIOUS
<1>2. one \in Seq(Queued) /\ one \in Seq(Message) /\ msgs \in Seq(Message) /\ Len(one) = 1
  BY <1>1, FormatRequest, MessageSeqs
<1>3. /\ all \in Seq(Queued) /\ Len(all) = Len(msgs) + 1 /\ Len(msgs) \in Nat
  BY <1>1, <1>2
<1>4. ~Has(one, Extensions)
  <2>1. Len(one) = 1 /\ one[1].type \notin Extensions
    BY <1>1, FormatRequest DEF Extensions
  <2>2. QED
    BY <2>1 DEF Has
<1>5. Has(all, Extensions) => Has(msgs, Extensions)
  BY <1>1, <1>2, <1>4, HasMore, Zenon
<1>6. \A d : LastList(one, d) = d
  BY <1>1, FormatRequest, LastListShort
<1>7. \A d : LastList(all, d) = LastList(msgs, d)
  <2> SUFFICES ASSUME NEW d PROVE LastList(all, d) = LastList(msgs, d)
    OBVIOUS
  <2>1. LastList(one \o msgs, d) = LastList(msgs, LastList(one, d))
    BY <1>2, LastListConcat, Zenon
  <2>2. QED
    BY <1>1, <1>6, <2>1, Zenon
<1>8. QED
  BY <1>3, <1>5, <1>7

(* Messages after others may be queued. *)
LEMMA QueuedConcat ==
  ASSUME NEW s \in Seq(Queued), NEW t \in Seq(Queued)
  PROVE  s \o t \in Seq(Queued) /\ Len(s \o t) = Len(s) + Len(t) /\ Len(s) \in Nat /\ Len(t) \in Nat
OBVIOUS

(* The default comes before what a callback chooses. *)
LEMMA Beginning ==
  ASSUME IInv, NEW msgs \in Seq(Queued), NEW all, all = <<Format, Default>> \o msgs \o <<Request>>
  PROVE  /\ all \in Seq(Queued) /\ Len(all) > 1
         /\ Has(all, Extensions) => Has(msgs, Extensions)
         /\ \A d : LastList(all, d) = LastList(msgs, <<Default>>)
<1>1. PICK l : l = Default
  OBVIOUS
<1>2. l \in Queued /\ l \in Message /\ l.type = "list"
  BY <1>1, ListIs, MessageSeqs DEF Default, IInv
<1>3. PICK a : a = <<Format, l>>
  OBVIOUS
<1>4. PICK b : b = a \o msgs
  OBVIOUS
<1>5. /\ a \in Seq(Queued) /\ b \in Seq(Queued) /\ Len(b) = Len(a) + Len(msgs) /\ Len(a) = 2 /\ Len(msgs) \in Nat
      /\ <<Format>> \in Seq(Message) /\ a = Append(<<Format>>, l) /\ <<Format>> = Append(<<>>, Format)
      /\ <<>> \in Seq(Message)
  <2>1. PICK f : f = Format
    OBVIOUS
  <2>2. f \in Queued /\ f \in Message /\ a = <<f, l>>
    BY <1>3, <2>1, FormatRequest, Zenon
  <2>3. <<f>> \in Seq(Message) /\ <<f>> = Append(<<>>, f) /\ a = Append(<<f>>, l) /\ <<>> \in Seq(Message)
    BY <1>2, <2>2
  <2>4. a \in Seq(Queued) /\ Len(a) = 2
    BY <1>2, <2>2
  <2>5. b \in Seq(Queued) /\ Len(b) = Len(a) + Len(msgs) /\ Len(msgs) \in Nat
    BY <1>4, <2>4, QueuedConcat, Zenon
  <2>6. QED
    BY <2>1, <2>3, <2>4, <2>5, Zenon
<1>6. a \in Seq(Message) /\ b \in Seq(Message) /\ msgs \in Seq(Message)
  BY <1>5, MessageSeqs
<1>7. all = b \o <<Request>>
  BY <1>1, <1>3, <1>4, Zenon
<1>8. /\ all \in Seq(Queued) /\ Len(all) = Len(b) + 1
      /\ Has(all, Extensions) => Has(b, Extensions)
      /\ \A d : LastList(all, d) = LastList(b, d)
  BY <1>5, <1>7, Asking
<1>9. \A d : LastList(a, d) = <<l>>
  BY <1>2, <1>5, LastListAppend
<1>10. ~Has(a, Extensions)
  <2>1. ~Has(<<>>, Extensions)
    BY DEF Has
  <2>2. ~Has(<<Format>>, Extensions)
    <3>1. Has(Append(<<>>, Format), Extensions) <=> Has(<<>>, Extensions) \/ Format.type \in Extensions
      BY <1>5, FormatRequest, HasMore, Zenon
    <3>2. Format.type \notin Extensions
      BY FormatRequest DEF Extensions
    <3>3. QED
      BY <1>5, <2>1, <3>1, <3>2, Zenon
  <2>3. QED
    <3>1. Has(Append(<<Format>>, l), Extensions) <=> Has(<<Format>>, Extensions) \/ l.type \in Extensions
      BY <1>2, <1>5, HasMore, Zenon
    <3>2. l.type \notin Extensions
      BY <1>2 DEF Extensions
    <3>3. QED
      BY <1>5, <2>2, <3>1, <3>2, Zenon
<1>11. Has(b, Extensions) => Has(msgs, Extensions)
  BY <1>4, <1>6, <1>10, HasMore
<1>12. \A d : LastList(b, d) = LastList(msgs, <<l>>)
  <2> SUFFICES ASSUME NEW d PROVE LastList(b, d) = LastList(msgs, <<l>>)
    OBVIOUS
  <2>1. LastList(a \o msgs, d) = LastList(msgs, LastList(a, d))
    BY <1>6, LastListConcat, Zenon
  <2>2. QED
    BY <1>4, <1>9, <2>1, Zenon
<1>13. Len(all) > 1
  <2>1. Len(b) = 2 + Len(msgs) /\ Len(msgs) \in Nat /\ Len(all) = Len(b) + 1
    BY <1>5, <1>8
  <2>2. QED
    BY <2>1
<1>14. \A d : LastList(all, d) = LastList(msgs, <<Default>>)
  BY <1>1, <1>8, <1>12, Zenon
<1>15. QED
  BY <1>8, <1>11, <1>13, <1>14, Zenon

(* What was chosen last, once messages have been queued. *)
LEMMA Chooses ==
  ASSUME IInv, NEW h, NEW rest, Took(h, rest), h.do = "run", NEW all \in Seq(Queued), Push(all, rest),
         UNCHANGED <<wire, stream, posting>>, NEW d, d = LastList(sendQue, LastList(wire[stream], <<>>))
  PROVE  /\ Chosen = LastList(posting, LastSent(rest, d))
         /\ Chosen' = LastList(posting, LastSent(rest, LastList(all, d)))
<1>1. rest \in Seq(Handlers) /\ ~Sends(h) /\ \A g \in Waiting(rest) : HandlerOK(g)
  BY Left DEF Sends
<1>2. LastSent(ready, d) = LastSent(rest, d)
  BY <1>1, Zenon DEF Took
<1>3. PICK w : w = LastList(wire[stream], <<>>)
  OBVIOUS
<1>4. LastList(sendQue', w) = LastList(all, LastList(sendQue, w))
  BY <1>1, Pushed
<1>5. \A e : LastSent(ready', e) = LastSent(rest, e)
  BY <1>1, Pushed
<1>6. Chosen = LastList(posting, LastSent(rest, d))
  BY <1>2, Zenon DEF Chosen
<1>7. Chosen' = LastList(posting', LastSent(ready', LastList(sendQue', LastList(wire'[stream'], <<>>))))
  BY Zenon DEF Chosen
<1>8. wire'[stream'] = wire[stream] /\ posting' = posting
  OBVIOUS
<1>9. Chosen' = LastList(posting, LastSent(rest, LastList(all, d)))
  BY <1>3, <1>4, <1>5, <1>7, <1>8, Zenon
<1>10. QED
  BY <1>6, <1>9

(* The login is over, and the loop begins. *)
LEMMA InitializedStep ==
  ASSUME IInv, NEW h, NEW rest, Took(h, rest), h.do = "run", h.ok, at = Loop - 1, Initialized(rest)
  PROVE  IInv'
<1>1. PICK msgs \in Answers :
        /\ CallbackSends(msgs)
        /\ choice' = LastList(msgs, <<Default>>)
        /\ Push(<<Format, Default>> \o msgs \o <<Request>>, rest)
  BY DEF Initialized, Format, Request
<1>2. PICK all : all = <<Format, Default>> \o msgs \o <<Request>>
  OBVIOUS
<1>3. /\ at = 8 /\ at' = 9 /\ op' = [kind |-> Script[9], on |-> stream] /\ updates' = updates
      /\ UNCHANGED <<caps, over, stream, ultra, writing, wire, dropped, caller, posting, levels>>
  BY Steps DEF Initialized, Suspend
<1>4. msgs \in Seq(Queued) /\ calls' \in Nat /\ (Has(msgs, Extensions) => ultra[stream])
  BY <1>1, <1>3, AnswersAre
<1>5. /\ all \in Seq(Queued) /\ Len(all) > 1 /\ Push(all, rest)
      /\ Has(all, Extensions) => ultra[stream]
      /\ \A d : LastList(all, d) = LastList(msgs, <<Default>>)
  <2>1. /\ all \in Seq(Queued) /\ Len(all) > 1
        /\ Has(all, Extensions) => Has(msgs, Extensions)
        /\ \A d : LastList(all, d) = LastList(msgs, <<Default>>)
    BY <1>2, <1>4, Beginning, Zenon
  <2>2. Push(all, rest)
    BY <1>1, <1>2, Zenon
  <2>3. QED
    BY <1>4, <2>1, <2>2, Zenon
<1>6. /\ posting = <<>> /\ None(rest, "send")
  <2>1. at \in 1 .. 8
    BY Steps
  <2>2. posting = <<>> /\ \A g \in Waiting(rest) : g.do \notin {"start", "run", "send"}
    BY <2>1, InLogin
  <2>3. QED
    BY <2>2 DEF None
<1>7. Chosen' = choice'
  <2>1. PICK d : d = LastList(sendQue, LastList(wire[stream], <<>>))
    OBVIOUS
  <2>2. Chosen' = LastList(posting, LastSent(rest, LastList(all, d)))
    <3>1. UNCHANGED <<wire, stream, posting>>
      BY <1>3
    <3>2. QED
      BY <1>5, <2>1, <3>1, Chooses
  <2>3. LastSent(rest, LastList(all, d)) = LastList(all, d)
    BY <1>6, LastSentNone, Zenon
  <2>4. LastList(posting, LastList(all, d)) = LastList(all, d)
    BY <1>6, LastListShort, Zenon
  <2>5. QED
    BY <1>1, <1>5, <2>2, <2>3, <2>4, Zenon
<1>8. /\ status' \in Statuses /\ sock' \in [1 .. Conns -> SockStates]
      /\ \A c \in 1 .. Conns : /\ sock'[c] \in Alive => sock[c] \in Alive
                               /\ sock'[c] = "connecting" => sock[c] = "connecting"
                               /\ sock'[c] = "open" => sock[c] = "open"
  <2>1. sock \in [1 .. Conns -> SockStates]
    BY DEF IInv, Types
  <2>2. status' \in Statuses /\ (sock' = sock \/ sock' = [sock EXCEPT ![stream] = "closed"])
    BY Steps DEF Initialized, Connects
  <2>3. QED
    BY <2>1, <2>2 DEF SockStates, Alive
<1>9. updates' \in Nat /\ Len(all) > 0
  <2>1. Len(all) \in Nat
    BY <1>5
  <2>2. QED
    BY <1>3, <1>5, <2>1 DEF IInv, Types
<1>10. QED
  BY <1>3, <1>4, <1>5, <1>7, <1>8, <1>9, GoesOn

(* An update has been handled, and the loop goes on. *)
LEMMA MessageHandledStep ==
  ASSUME IInv, NEW h, NEW rest, Took(h, rest), h.do = "run", h.ok, at = Loop, MessageHandled(rest)
  PROVE  IInv'
<1>1. PICK msgs \in Answers :
        /\ CallbackSends(msgs)
        /\ choice' = LastList(msgs, choice)
        /\ Push(<<Request>> \o msgs, rest)
  BY DEF MessageHandled, Request
<1>2. PICK all : all = <<Request>> \o msgs
  OBVIOUS
<1>3. /\ at = 9 /\ at' = 9 /\ op' = [kind |-> Script[9], on |-> stream] /\ updates' = updates + 1
      /\ CloseStream \/ UNCHANGED <<status, sock>>
      /\ UNCHANGED <<caps, over, stream, ultra, writing, wire, dropped, caller, posting, levels>>
  BY Steps DEF MessageHandled, Suspend
<1>4. /\ msgs \in Seq(Queued) /\ calls' \in Nat /\ (Has(msgs, Extensions) => ultra[stream])
      /\ caller = "thread" => msgs = <<>>
  BY <1>1, <1>3, AnswersAre
<1>5. /\ all \in Seq(Queued) /\ Len(all) > 0 /\ Push(all, rest)
      /\ Has(all, Extensions) => ultra[stream]
      /\ \A d : LastList(all, d) = LastList(msgs, d)
  <2>1. /\ all \in Seq(Queued) /\ Len(all) = Len(msgs) + 1 /\ Len(msgs) \in Nat
        /\ Has(all, Extensions) => Has(msgs, Extensions)
        /\ \A d : LastList(all, d) = LastList(msgs, d)
    BY <1>2, <1>4, AskingFirst
  <2>2. Push(all, rest)
    BY <1>1, <1>2, Zenon
  <2>3. Len(all) > 0
    BY <2>1
  <2>4. QED
    BY <1>4, <2>1, <2>2, <2>3, Zenon
<1>6. /\ status' \in Statuses /\ sock' \in [1 .. Conns -> SockStates]
      /\ \A c \in 1 .. Conns : /\ sock'[c] \in Alive => sock[c] \in Alive
                               /\ sock'[c] = "connecting" => sock[c] = "connecting"
                               /\ sock'[c] = "open" => sock[c] = "open"
  BY <1>3, Closes DEF IInv
<1>7. ASSUME sock'[stream] = "open", ~dropped PROVE Chosen' = choice'
  <2>1. PICK d : d = LastList(sendQue, LastList(wire[stream], <<>>))
    OBVIOUS
  <2>2. /\ Chosen = LastList(posting, LastSent(rest, d))
        /\ Chosen' = LastList(posting, LastSent(rest, LastList(all, d)))
    <3>1. UNCHANGED <<wire, stream, posting>>
      BY <1>3
    <3>2. QED
      BY <1>5, <2>1, <3>1, Chooses
  <2>3. Chosen = choice
    <3>1. stream \in 1 .. Conns
      BY <1>3 DEF IInv, RunOK, Types
    <3>2. sock[stream] = "open"
      BY <1>6, <1>7, <3>1
    <3>3. QED
      BY <1>7, <3>2 DEF IInv, ChoiceOK
  <2>4. LastList(all, d) = LastList(msgs, d)
    BY <1>5
  <2>5. CASE caller = "thread"
    <3>1. LastList(msgs, d) = d /\ LastList(msgs, choice) = choice
      BY <1>4, <2>5, LastListShort, Zenon
    <3>2. QED
      BY <1>1, <2>2, <2>3, <2>4, <3>1, Zenon
  <2>6. CASE caller = "callbacks"
    <3>1. posting = <<>> /\ None(rest, "send")
      <4>1. caller # "thread"
        BY <2>6
      <4>2. QED
        BY <4>1, Left DEF IInv, RunOK, HandlerOK, None
    <3>2. Chosen = d
      BY <2>2, <3>1, LastSentNone, LastListShort, Zenon
    <3>3. Chosen' = LastList(all, d)
      BY <2>2, <3>1, LastSentNone, LastListShort, Zenon
    <3>4. QED
      BY <1>1, <2>3, <2>4, <3>2, <3>3, Zenon
  <2>7. QED
    BY <2>5, <2>6 DEF IInv, Types
<1>8. updates' \in Nat
  BY <1>3 DEF IInv, Types
<1>9. QED
  BY <1>3, <1>4, <1>5, <1>6, <1>7, <1>8, GoesOn

-----------------------------------------------------------------------------
(* What the application's thread sends goes to the end of the queue. *)
LEMMA SendStep == ASSUME IInv, NEW h, NEW rest, Took(h, rest), h.do = "send", Dispatched(h, rest) PROVE IInv'
<1>1. PICK m : m = h.msg
  OBVIOUS
<1>2. PICK all : all = <<m>>
  OBVIOUS
<1>3. /\ m \in Queued /\ m \in Message /\ stream > 0 /\ caller = "thread" /\ at \notin Login
      /\ m.type \in Extensions => ultra[stream]
  <2>1. h \in Handlers /\ HandlerOK(h)
    BY Left
  <2>2. h.msg \in Queued
    BY <2>1 DEF Handlers
  <2>3. QED
    BY <1>1, <2>1, <2>2, MessageSeqs DEF HandlerOK
<1>4. /\ Push(all, rest) /\ op' = op
      /\ UNCHANGED <<status, sock, at, caps, over, updates, stream, ultra, writing, wire, dropped,
                     caller, posting, levels, choice, calls>>
  BY <1>1, <1>2 DEF Dispatched, appVars
<1>5. all \in Seq(Queued) /\ Len(all) = 1 /\ (Has(all, Extensions) => ultra[stream])
  <2>1. all \in Seq(Queued) /\ Len(all) = 1 /\ DOMAIN all = {1} /\ all[1] = m
    BY <1>2, <1>3
  <2>2. QED
    BY <1>3, <2>1 DEF Has
<1>6. /\ rest \in Seq(Handlers)
      /\ \A g \in Waiting(rest) : HandlerOK(g) /\ g \in Handlers
  BY Left
<1>7. /\ sendQue' \in Seq(Queued) /\ ready' \in Seq(Handlers)
      /\ Len(sendQue') = Len(sendQue) + Len(all) /\ Len(sendQue) \in Nat
      /\ sendQue # <<>> => sendQue' # <<>> /\ Head(sendQue') = Head(sendQue)
      /\ Has(sendQue', Extensions) => Has(sendQue, Extensions) \/ Has(all, Extensions)
      /\ \A g \in Waiting(rest) : g \in Waiting(ready')
      /\ \A g \in Waiting(ready') : g \in Waiting(rest) \/ (g = NewWriter /\ sendQue = <<>> /\ sendQue' # <<>>)
      /\ sendQue = <<>> /\ sendQue' # <<>> => NewWriter \in Waiting(ready')
      /\ \A k \in {"start", "run", "writer"} : Once(rest, k) => Once(ready', k)
      /\ StartsLast(rest) => StartsLast(ready')
  BY <1>4, <1>5, <1>6, Pushed
<1>8. sendQue' # <<>>
  BY <1>5, <1>7
<1>9. Types'
  BY <1>4, <1>7 DEF IInv, Types
<1>10. Orderly'
  BY <1>3, <1>4, <1>7, Left, Steps DEF Orderly, Login
<1>11. HandlersOK'
  <2>1. ASSUME NEW g \in Waiting(rest) PROVE HandlerOK(g)'
    BY <1>4, <1>6, <1>7, <2>1 DEF HandlerOK
  <2>2. ASSUME sendQue = <<>> PROVE HandlerOK(NewWriter)'
    <3>1. writing = NoWrite
      BY <2>2 DEF IInv, QueueOK
    <3>2. at = 0 \/ at = 9
      BY <1>3, Steps DEF IInv, Types, Login
    <3>3. QED
      BY <1>4, <1>8, <3>1, <3>2, NewWriterIs, Steps DEF HandlerOK
  <2>3. QED
    BY <1>7, <2>1, <2>2 DEF HandlersOK
<1>12. RunOK' /\ WireOK'
  BY <1>4 DEF IInv, RunOK, WireOK
<1>13. \A g : g.do = "writer" /\ g \in Waiting(ready) => g \in Waiting(rest)
  BY DEF Took
<1>14. QueueOK'
  <2>1. writing # NoWrite => sendQue # <<>>
    BY DEF IInv, QueueOK
  <2>2. ~(writing # NoWrite) => ~None(ready', "writer")
    <3>1. CASE sendQue = <<>>
      BY <1>7, <1>8, <3>1, NewWriterIs DEF None
    <3>2. CASE sendQue # <<>>
      BY <1>7, <1>13, <3>2 DEF IInv, QueueOK, None
    <3>3. QED
      BY <3>1, <3>2
  <2>3. QED
    BY <1>3, <1>4, <1>7, <1>8, <2>1, <2>2 DEF IInv, QueueOK
<1>15. Doomed' <=> Doomed
  <2>1. \A g : g.do = "writer" /\ ~g.ok => (g \in Waiting(ready') <=> g \in Waiting(ready))
    BY <1>7, <1>13, NewWriterIs, Left
  <2>2. QED
    BY <1>4, <2>1 DEF Doomed
<1>16. CapsOK'
  BY <1>4, <1>5, <1>7, <1>15 DEF IInv, CapsOK
<1>17. Chosen' = Chosen
  <2>1. PICK w : w = LastList(wire[stream], <<>>)
    OBVIOUS
  <2>2. PICK d : d = LastList(sendQue, w)
    OBVIOUS
  <2>3. LastList(sendQue', w) = LastList(all, d)
    BY <1>4, <1>5, <1>6, <2>2, Pushed
  <2>4. LastList(all, d) = IF m.type = "list" THEN <<m>> ELSE d
    BY <1>2, <1>3, LastListShort, Zenon
  <2>5. Sends(h) <=> m.type = "list"
    BY <1>1 DEF Sends
  <2>6. LastSent(ready, d) = LastSent(rest, IF Sends(h) THEN <<h.msg>> ELSE d)
    BY Zenon DEF Took
  <2>7. LastSent(ready, d) = LastSent(rest, LastList(all, d))
    <3>1. CASE m.type = "list"
      BY <1>1, <2>4, <2>5, <2>6, <3>1
    <3>2. CASE m.type # "list"
      BY <2>4, <2>5, <2>6, <3>2
    <3>3. QED
      BY <3>1, <3>2
  <2>8. LastSent(ready', LastList(all, d)) = LastSent(rest, LastList(all, d))
    BY <1>4, <1>5, <1>6, Pushed
  <2>9. Chosen = LastList(posting, LastSent(ready, d))
    BY <2>1, <2>2, Zenon DEF Chosen
  <2>10. Chosen' = LastList(posting, LastSent(ready', LastList(all, d)))
    <3>1. Chosen' = LastList(posting', LastSent(ready', LastList(sendQue', LastList(wire'[stream'], <<>>))))
      BY Zenon DEF Chosen
    <3>2. wire'[stream'] = wire[stream] /\ posting' = posting
      BY <1>4
    <3>3. QED
      BY <2>1, <2>3, <3>1, <3>2, Zenon
  <2>11. QED
    BY <2>7, <2>8, <2>9, <2>10, Zenon
<1>18. ChoiceOK'
  <2>1. at = 9 /\ Doomed' => Len(sendQue') > 1
    BY <1>5, <1>7, <1>15, Steps DEF IInv, ChoiceOK
  <2>2. QED
    BY <1>4, <1>17, <2>1, Steps DEF IInv, ChoiceOK
<1>19. QED
  BY <1>9, <1>10, <1>11, <1>12, <1>14, <1>16, <1>18 DEF IInv

(* The application's thread closes the connection, or gives up the search for one. *)
LEMMA StopStep == ASSUME IInv, NEW h, NEW rest, Took(h, rest), h.do = "stop", Dispatched(h, rest) PROVE IInv'
<1>1. PICK cancelled : cancelled = [kind |-> "cancelled", on |-> 0]
  OBVIOUS
<1>2. /\ CloseStream /\ ready' = rest /\ sendQue' = sendQue
      /\ op' = op \/ (op.kind = "resolve" /\ op' = cancelled)
      /\ UNCHANGED <<at, caps, over, updates, stream, ultra, writing, wire, dropped,
                     caller, posting, levels, choice, calls>>
  BY <1>1 DEF Dispatched, appVars
<1>3. /\ status' \in Statuses /\ (status' = "closed" \/ status' = status)
      /\ sock' \in [1 .. Conns -> SockStates]
      /\ \A c \in 1 .. Conns : /\ sock'[c] \in Alive => sock[c] \in Alive
                               /\ sock'[c] = "connecting" => sock[c] = "connecting"
                               /\ sock'[c] = "open" => sock[c] = "open"
  BY <1>2, Closes DEF IInv
<1>4. cancelled \in Ops /\ cancelled.kind = "cancelled" /\ cancelled # NoOp
  BY <1>1, OutgoingAssumption DEF Ops, NoOp
<1>5. op.kind = "resolve" => op # NoOp /\ at = 1
  <2>1. op.kind = "resolve" => op # NoOp
    BY DEF NoOp
  <2>2. op # NoOp => at \in 1 .. 9 /\ (op.kind = Script[at] \/ at = 1)
    BY Steps DEF IInv, RunOK, Types
  <2>3. QED
    BY <2>1, <2>2, Steps
<1>6. Types' /\ Orderly'
  <2>1. Types'
    BY <1>2, <1>3, <1>4, Left DEF IInv, Types
  <2>2. Orderly'
    BY <1>2, Left DEF Orderly, Took
  <2>3. QED
    BY <2>1, <2>2
<1>7. \A g \in Waiting(rest) : HandlerOK(g) /\ g \in Handlers
  BY Left
<1>8. HandlersOK'
  <2> SUFFICES ASSUME NEW g \in Waiting(rest) PROVE HandlerOK(g)'
    BY <1>2 DEF HandlersOK
  <2>1. g.do = "writer" /\ ~g.ok => g.on \in 1 .. Conns
    BY <1>7 DEF Handlers, HandlerOK
  <2>2. op = NoOp => op' = NoOp
    BY <1>2, <1>5
  <2>3. QED
    BY <1>2, <1>3, <1>7, <2>1, <2>2 DEF HandlerOK
<1>9. RunOK'
  <2>1. /\ at = 0 => op' = NoOp /\ status' = "closed"
        /\ op' # NoOp => /\ op'.kind = Script[at] \/ (at = 1 /\ op'.kind = "cancelled")
                         /\ at > 1 => op'.on = stream
    BY <1>2, <1>3, <1>4, <1>5 DEF IInv, RunOK
  <2>2. status' = "connected" => at = Loop
    BY <1>3 DEF IInv, RunOK
  <2>3. \A c \in 1 .. Conns : /\ sock'[c] \in Alive => c = stream /\ at > 1
                              /\ sock'[c] = "connecting" => at = 2 /\ op' # NoOp
    BY <1>2, <1>3, <1>5 DEF IInv, RunOK
  <2>4. QED
    BY <1>2, <2>1, <2>2, <2>3 DEF IInv, RunOK
<1>10. \A g : g.do = "writer" => (g \in Waiting(rest) <=> g \in Waiting(ready))
  BY DEF Took
<1>11. QueueOK'
  BY <1>2, <1>10 DEF IInv, QueueOK, None
<1>12. Doomed' <=> Doomed
  BY <1>2, <1>10 DEF Doomed
<1>13. CapsOK' /\ WireOK'
  BY <1>2, <1>12 DEF IInv, CapsOK, WireOK
<1>14. Chosen' = Chosen
  <2>1. ~Sends(h)
    BY DEF Sends
  <2>2. \A d : LastSent(ready, d) = LastSent(rest, d)
    BY <2>1, Zenon DEF Took
  <2>3. QED
    BY <1>2, <2>2 DEF Chosen
<1>15. ChoiceOK'
  <2>1. at = 9 => stream \in 1 .. Conns
    BY DEF IInv, RunOK, Types
  <2>2. QED
    BY <1>2, <1>3, <1>12, <1>14, <2>1, Steps DEF IInv, ChoiceOK
<1>16. QED
  BY <1>6, <1>8, <1>9, <1>11, <1>13, <1>15 DEF IInv

(* When a message was written last, it is so once more. *)
LEMMA LastListWritten ==
  ASSUME NEW q \in Seq(Message), q # <<>>, NEW w \in Seq(Message), w # <<>>, w[Len(w)] = Head(q), NEW d
  PROVE  LastList(Tail(q), LastList(w, d)) = LastList(q, LastList(w, d))
<1>1. PICK m : m = Head(q)
  OBVIOUS
<1>2. m \in Message
  BY <1>1
<1>3. PICK n : n = Len(w) - 1
  OBVIOUS
<1>4. PICK v : v = SubSeq(w, 1, n)
  OBVIOUS
<1>5. v \in Seq(Message) /\ w = Append(v, m)
  <2>1. n \in Nat /\ Len(w) = n + 1 /\ n <= Len(w)
    BY <1>3
  <2>2. v \in Seq(Message) /\ Len(v) = n /\ \A i \in 1 .. n : v[i] = w[i]
    BY <1>4, <2>1
  <2>3. PICK x : x = Append(v, m)
    OBVIOUS
  <2>4. /\ x \in Seq(Message) /\ Len(x) = n + 1 /\ x[n + 1] = m
        /\ \A i \in 1 .. n : x[i] = w[i]
    BY <1>2, <2>2, <2>3
  <2>5. \A i \in 1 .. n + 1 : i \in 1 .. n \/ i = n + 1
    BY <2>1
  <2>6. \A i \in 1 .. Len(w) : x[i] = w[i]
    BY <1>1, <2>1, <2>4, <2>5
  <2>7. x = w
    BY <2>1, <2>4, <2>6
  <2>8. QED
    BY <2>2, <2>3, <2>7, Zenon
<1>6. PICK e : e = LastList(w, d)
  OBVIOUS
<1>7. LastList(<<m>>, e) = e
  <2>1. e = IF m.type = "list" THEN <<m>> ELSE LastList(v, d)
    BY <1>2, <1>5, <1>6, LastListAppend
  <2>2. LastList(<<m>>, e) = IF m.type = "list" THEN <<m>> ELSE e
    BY <1>2, LastListShort, Zenon
  <2>3. QED
    BY <2>1, <2>2
<1>8. LastList(q, e) = LastList(Tail(q), LastList(<<Head(q)>>, e))
  BY LastListTail, Zenon
<1>9. QED
  BY <1>1, <1>6, <1>7, <1>8, Zenon

(* The writer takes the next message, or the queue goes with one that failed. *)
LEMMA WriterResumesStep ==
  ASSUME IInv, NEW h, NEW rest, Took(h, rest), h.do = "writer", WriterResumes(h, rest)
  PROVE  IInv'
<1>1. /\ sendQue \in Seq(Queued) /\ sendQue # <<>> /\ writing = NoWrite
      /\ ~h.first => h.on <= stream
      /\ ~h.ok => ~h.first /\ sock[h.on] \notin Alive
      /\ h.ok => at < 2 \/ at = Loop
      /\ h.ok /\ ~h.first /\ at = Loop => wire[stream] # <<>> /\ wire[stream][Len(wire[stream])] = Head(sendQue)
      /\ stream \in 1 .. Conns
  <2>1. HandlerOK(h)
    BY Left
  <2>2. QED
    BY <2>1 DEF HandlerOK, IInv, Types, QueueOK
<1>2. PICK q : q = IF h.first THEN sendQue ELSE Tail(sendQue)
  OBVIOUS
<1>3. /\ q \in Seq(Queued) /\ (q # <<>> => Head(q) \in Queued)
      /\ Has(q, Extensions) => Has(sendQue, Extensions)
  <2>1. /\ sendQue \in Seq(Message) /\ Tail(sendQue) \in Seq(Queued)
        /\ q \in Seq(Queued) /\ (q # <<>> => Head(q) \in Queued)
    BY <1>1, <1>2, MessageSeqs
  <2>2. Has(Tail(sendQue), Extensions) => Has(sendQue, Extensions)
    BY <1>1, <2>1, HasMore
  <2>3. QED
    BY <1>2, <2>1, <2>2
<1>4. PICK w : w = [msg |-> Head(q), on |-> stream]
  OBVIOUS
<1>5. /\ sendQue' = IF h.ok THEN q ELSE <<>>
      /\ writing' = IF h.ok /\ q # <<>> THEN w ELSE NoWrite
      /\ dropped' = (dropped \/ (~h.ok /\ h.on # stream /\ Len(sendQue) > 1))
      /\ ready' = rest
      /\ UNCHANGED <<status, at, op, caps, over, updates, wire, stream, sock, ultra,
                     caller, posting, levels, choice, calls>>
  <2>1. /\ sendQue' = IF h.ok THEN q ELSE <<>>
        /\ writing' = IF h.ok /\ q # <<>> THEN w ELSE NoWrite
    BY <1>2, <1>4, Zenon DEF WriterResumes
  <2>2. QED
    BY <2>1 DEF WriterResumes, netVars, appVars
<1>6. /\ w.msg = Head(q) /\ w.on = stream /\ w # NoWrite
      /\ q # <<>> => w \in [msg : Queued, on : 1 .. Conns]
  BY <1>1, <1>3, <1>4 DEF NoWrite
<1>7. Types' /\ Orderly'
  <2>1. rest \in Seq(Handlers) /\ sendQue' \in Seq(Queued) /\ dropped' \in BOOLEAN
    BY <1>3, <1>5, Left DEF IInv, Types
  <2>2. writing' = NoWrite \/ writing' \in [msg : Queued, on : 1 .. Conns]
    BY <1>5, <1>6
  <2>3. Types'
    BY <1>5, <2>1, <2>2 DEF IInv, Types
  <2>4. Orderly'
    BY <1>5, Left DEF Orderly, Took
  <2>5. QED
    BY <2>3, <2>4
<1>8. None(rest, "writer")
  BY Left
<1>9. HandlersOK'
  <2> SUFFICES ASSUME NEW g \in Waiting(rest) PROVE HandlerOK(g)'
    BY <1>5 DEF HandlersOK
  <2>1. g.do # "writer" /\ HandlerOK(g)
    BY <1>8, Left DEF None
  <2>2. QED
    BY <1>5, <2>1 DEF HandlerOK
<1>10. RunOK' /\ WireOK'
  BY <1>5 DEF IInv, RunOK, WireOK
<1>11. QueueOK'
  <2>1. CASE h.ok /\ q # <<>>
    BY <1>1, <1>5, <1>6, <2>1, Steps DEF QueueOK, IInv, Types
  <2>2. CASE ~(h.ok /\ q # <<>>)
    BY <1>5, <2>2 DEF QueueOK
  <2>3. QED
    BY <2>1, <2>2
<1>12. ~Doomed'
  <2>1. writing' # NoWrite => writing'.on = stream
    BY <1>5, <1>6
  <2>2. QED
    BY <1>5, <1>8, <2>1 DEF Doomed, None
<1>13. Doomed <=> ~h.ok /\ h.on # stream
  <2>1. \A g \in Waiting(ready) : g.do = "writer" => g = h
    BY <1>8, Left DEF None
  <2>2. h \in Waiting(ready)
    BY DEF Took
  <2>3. QED
    BY <1>1, <2>1, <2>2 DEF Doomed
<1>14. CapsOK'
  <2>1. Has(sendQue', Extensions) => ultra[stream]
    <3>1. CASE h.ok
      BY <1>3, <1>5, <1>13, <3>1 DEF IInv, CapsOK
    <3>2. CASE ~h.ok
      BY <1>5, <3>2 DEF Has
    <3>3. QED
      BY <3>1, <3>2
  <2>2. QED
    BY <1>5, <2>1 DEF IInv, CapsOK
<1>15. ASSUME at = 9, sock[stream] = "open", ~dropped' PROVE Chosen' = choice
  <2>1. ~dropped /\ h.ok
    <3>1. ~dropped /\ (h.ok \/ h.on = stream \/ ~(Len(sendQue) > 1))
      BY <1>5, <1>15 DEF IInv, Types
    <3>2. ~h.ok => h.on # stream
      BY <1>1, <1>15 DEF Alive
    <3>3. ~h.ok => Len(sendQue) > 1
      BY <1>13, <1>15, <3>2, Steps DEF IInv, ChoiceOK
    <3>4. QED
      BY <3>1, <3>2, <3>3
  <2>2. Chosen = choice
    BY <1>15, <2>1, Steps DEF IInv, ChoiceOK
  <2>3. PICK e : e = LastList(wire[stream], <<>>)
    OBVIOUS
  <2>4. LastList(q, e) = LastList(sendQue, e)
    <3>1. CASE h.first
      BY <1>2, <3>1
    <3>2. CASE ~h.first
      <4>1. PICK v : v = wire[stream]
        OBVIOUS
      <4>2. v \in Seq(Message) /\ sendQue \in Seq(Message) /\ v # <<>> /\ v[Len(v)] = Head(sendQue)
        BY <1>1, <1>15, <2>1, <3>2, <4>1, MessageSeqs, Steps DEF IInv, Types
      <4>3. LastList(Tail(sendQue), LastList(v, <<>>)) = LastList(sendQue, LastList(v, <<>>))
        BY <1>1, <4>2, LastListWritten
      <4>4. q = Tail(sendQue)
        BY <1>2, <3>2
      <4>5. QED
        BY <2>3, <4>1, <4>3, <4>4, Zenon
    <3>3. QED
      BY <3>1, <3>2
  <2>5. \A d : LastSent(ready, d) = LastSent(rest, d)
    <3>1. ~Sends(h)
      BY DEF Sends
    <3>2. QED
      BY <3>1, Zenon DEF Took
  <2>6. Chosen' = LastList(posting, LastSent(rest, LastList(q, e)))
    <3>1. Chosen' = LastList(posting', LastSent(ready', LastList(sendQue', LastList(wire'[stream'], <<>>))))
      BY Zenon DEF Chosen
    <3>2. wire'[stream'] = wire[stream] /\ posting' = posting /\ ready' = rest /\ sendQue' = q
      BY <1>5, <2>1
    <3>3. QED
      BY <2>3, <3>1, <3>2, Zenon
  <2>7. Chosen = LastList(posting, LastSent(rest, LastList(sendQue, e)))
    BY <2>3, <2>5, Zenon DEF Chosen
  <2>8. QED
    BY <2>2, <2>4, <2>6, <2>7, Zenon
<1>16. ChoiceOK'
  BY <1>5, <1>12, <1>15, Steps DEF ChoiceOK
<1>17. QED
  BY <1>7, <1>9, <1>10, <1>11, <1>14, <1>16 DEF IInv

(* The run resumes where it waits, or ends. *)
LEMMA RunResumesStep ==
  ASSUME IInv, NEW h, NEW rest, Took(h, rest), h.do = "run", RunResumes(h.ok, rest)
  PROVE  IInv'
<1>1. at \in 1 .. 9 /\ h.ok \in BOOLEAN
  <2>1. HandlerOK(h) /\ h \in Handlers
    BY Left
  <2>2. h.ok \in BOOLEAN
    BY <2>1 DEF Handlers
  <2>3. QED
    BY <2>1, <2>2, Steps DEF HandlerOK, IInv, Types
<1>2. CASE ~h.ok
  <2>1. Ends(rest)
    BY <1>2, Steps DEF RunResumes
  <2>2. QED
    BY <1>2, <2>1, EndsStep
<1>3. CASE h.ok /\ at = 1
  <2>1. Resolved(rest)
    BY <1>3, Steps DEF RunResumes
  <2>2. QED
    BY <1>3, <2>1, ResolvedStep
<1>4. CASE h.ok /\ at \in 2 .. 7
  <2>1. at \in 2 .. Loop - 2 /\ at # 1 /\ at # Loop - 1 /\ at # Loop
    BY <1>4, Steps
  <2>2. NextStep(at + 1, rest)
    BY <1>4, <2>1, Zenon DEF RunResumes
  <2>3. QED
    BY <1>4, <2>1, <2>2, NextStepStep
<1>5. CASE h.ok /\ at = 8
  <2>1. Initialized(rest) /\ at = Loop - 1
    BY <1>5, Steps DEF RunResumes
  <2>2. QED
    BY <1>5, <2>1, InitializedStep
<1>6. CASE h.ok /\ at = 9
  <2>1. MessageHandled(rest) /\ at = Loop
    BY <1>6, Steps DEF RunResumes
  <2>2. QED
    BY <1>6, <2>1, MessageHandledStep
<1>7. QED
  BY <1>1, <1>2, <1>3, <1>4, <1>5, <1>6

(* The first of the handlers that are ready runs. *)
LEMMA StrandStep == ASSUME IInv, StrandRuns PROVE IInv'
<1>1. PICK h, rest : h = Head(ready) /\ rest = Tail(ready)
  OBVIOUS
<1>2. Took(h, rest)
  BY <1>1, Takes, Zenon DEF StrandRuns
<1>3. h.do \in {"start", "stop", "run", "send", "writer"}
  <2>1. h \in Handlers
    BY <1>2, Left
  <2>2. QED
    BY <2>1 DEF Handlers
<1>4. CASE h.do = "start"
  <2>1. Start(rest)
    BY <1>1, <1>4 DEF StrandRuns
  <2>2. QED
    BY <1>2, <1>4, <2>1, StartStep
<1>5. CASE h.do = "run"
  <2>1. RunResumes(h.ok, rest)
    BY <1>1, <1>5 DEF StrandRuns
  <2>2. QED
    BY <1>2, <1>5, <2>1, RunResumesStep
<1>6. CASE h.do = "writer"
  <2>1. WriterResumes(h, rest)
    BY <1>1, <1>6 DEF StrandRuns
  <2>2. QED
    BY <1>2, <1>6, <2>1, WriterResumesStep
<1>7. CASE h.do \in {"send", "stop"}
  <2>1. Dispatched(h, rest)
    BY <1>1, <1>7 DEF StrandRuns
  <2>2. QED
    BY <1>2, <1>7, <2>1, SendStep, StopStep
<1>8. QED
  BY <1>3, <1>4, <1>5, <1>6, <1>7

-----------------------------------------------------------------------------
(* The invariant holds at first, *)
LEMMA InitOK == ASSUME Init PROVE IInv
<1>1. PICK s : s = [do |-> "start"]
  OBVIOUS
<1>2. s \in Handlers /\ s.do = "start"
  <2>1. s \in [do : {"start", "stop"}] /\ s.do = "start"
    BY <1>1
  <2>2. QED
    BY <2>1 DEF Handlers
<1>3. /\ ready = <<s>> /\ status = "closed" /\ at = 0 /\ op = NoOp /\ stream = 0
      /\ sock = [c \in 1 .. Conns |-> "none"] /\ caps = {} /\ levels = <<3, 9>>
      /\ sendQue = <<>> /\ writing = NoWrite /\ wire = [c \in 1 .. Conns |-> <<>>] /\ dropped = FALSE
      /\ posting = <<>> /\ over = FALSE /\ calls = 0 /\ updates = 0
      /\ caller \in {"thread", "callbacks"} /\ ultra \in [1 .. Conns -> BOOLEAN]
  BY <1>1 DEF Init
<1>4. /\ ready \in Seq(Handlers) /\ DOMAIN ready = {1} /\ ready[1] = s
      /\ Waiting(ready) = {s}
  <2>1. ready \in Seq(Handlers) /\ DOMAIN ready = {1} /\ ready[1] = s
    BY <1>2, <1>3
  <2>2. QED
    BY <2>1 DEF Waiting
<1>5. Types
  <2>1. NoOp \in Ops /\ 0 \in 0 .. Conns
    BY OutgoingAssumption DEF NoOp, Ops
  <2>2. levels \in [1 .. 2 -> 0 .. 9]
    BY <1>3
  <2>3. sock \in [1 .. Conns -> SockStates] /\ wire \in [1 .. Conns -> Seq(Message)]
    BY <1>3 DEF SockStates
  <2>4. sendQue \in Seq(Queued) /\ posting \in Seq(Queued) /\ caps \in SUBSET Extensions
    BY <1>3
  <2>5. at \in 0 .. Loop /\ status \in Statuses
    BY <1>3, Steps
  <2>6. QED
    BY <1>3, <1>4, <2>1, <2>2, <2>3, <2>4, <2>5 DEF Types
<1>6. Orderly
  BY <1>2, <1>3, <1>4 DEF Orderly, Once, StartsLast
<1>7. HandlersOK
  BY <1>2, <1>3, <1>4 DEF HandlersOK, HandlerOK
<1>8. RunOK
  BY <1>3 DEF RunOK, Alive
<1>9. QueueOK /\ ~Doomed
  BY <1>2, <1>3, <1>4 DEF QueueOK, Doomed
<1>10. CapsOK
  <2>1. ~Has(<<>>, Extensions) /\ \A c \in 1 .. Conns : wire[c] = <<>>
    BY <1>3 DEF Has
  <2>2. QED
    BY <1>3, <2>1 DEF CapsOK
<1>11. WireOK
  BY <1>3 DEF WireOK
<1>12. ChoiceOK
  BY <1>3, Steps DEF ChoiceOK
<1>13. QED
  BY <1>5, <1>6, <1>7, <1>8, <1>9, <1>10, <1>11, <1>12 DEF IInv

(* and no step breaks it. *)
LEMMA StepOK == ASSUME IInv, [Next]_vars PROVE IInv'
<1>1. CASE UNCHANGED vars
  <2>1. UNCHANGED <<ready, status, at, op, caps, over, updates, stream, sock, ultra, sendQue, writing, wire, dropped,
                    caller, posting, levels, choice, calls>>
    BY <1>1 DEF vars, netVars, queVars, appVars
  <2>2. Types' /\ Orderly' /\ HandlersOK' /\ RunOK' /\ QueueOK' /\ WireOK'
    BY <2>1 DEF IInv, Types, Orderly, HandlersOK, HandlerOK, RunOK, QueueOK, WireOK
  <2>3. (Doomed' <=> Doomed) /\ Chosen' = Chosen
    BY <2>1 DEF Doomed, Chosen
  <2>4. CapsOK' /\ ChoiceOK'
    BY <2>1, <2>3 DEF IInv, CapsOK, ChoiceOK
  <2>5. QED
    BY <2>2, <2>4 DEF IInv
<1>2. CASE StrandRuns
  BY <1>2, StrandStep
<1>3. CASE RunOpCompletes
  BY <1>3, RunOpCompletesStep
<1>4. CASE WriteCompletes
  BY <1>4, WriteCompletesStep
<1>5. CASE Lost
  BY <1>5, LostStep
<1>6. CASE ThreadCalls
  BY <1>6, ThreadCallsStep
<1>7. CASE ThreadDispatches
  BY <1>7, ThreadDispatchesStep
<1>8. CASE ThreadStarts \/ ThreadStops
  BY <1>8, ThreadAsksStep
<1>9. CASE SetsLevel
  BY <1>9, SetsLevelStep
<1>10. QED
  BY <1>1, <1>2, <1>3, <1>4, <1>5, <1>6, <1>7, <1>8, <1>9 DEF Next

(* The inductive invariant: what the queue, the strand, the run and the wire
   of each connection have to do with one another. *)
THEOREM Invariance == Spec => []IInv
<1>1. Init => IInv
  BY InitOK
<1>2. IInv /\ [Next]_vars => IInv'
  BY StepOK
<1>3. QED
  BY <1>1, <1>2, PTL DEF Spec

(* The variables keep their types, the levels of a list among them: no code of
   theirs reaches another pseudo-encoding's, whatever level has been set. *)
THEOREM TypeCorrect == Spec => []TypeOK
<1>1. IInv => TypeOK
  <2> SUFFICES ASSUME IInv PROVE TypeOK
    OBVIOUS
  <2>1. sendQue \in Seq(Message) /\ posting \in Seq(Message)
    BY MessageSeqs DEF IInv, Types
  <2>2. writing # NoWrite => writing.msg \in Message /\ writing.on \in 1 .. Conns
    BY MessageSeqs DEF IInv, Types
  <2>3. QED
    BY <2>1, <2>2 DEF IInv, Types, TypeOK, Statuses, Extensions
<1>2. QED
  BY <1>1, Invariance, PTL

(* HandshakeAlone: what a connection's login writes is neither preceded nor
   accompanied by what was queued, though the queue and its writer outlive the
   connection they began on and the writer takes whatever stream_ is. *)
THEOREM LoginAlone == Spec => []HandshakeAlone
<1>1. IInv => HandshakeAlone
  <2> SUFFICES ASSUME IInv PROVE HandshakeAlone
    OBVIOUS
  <2>1. ~(op.kind = "write" /\ writing # NoWrite /\ writing.on = op.on)
    <3> SUFFICES ASSUME op.kind = "write", writing # NoWrite, writing.on = op.on PROVE FALSE
      OBVIOUS
    <3>1. op # NoOp /\ at \in 0 .. 9 /\ stream \in 0 .. Conns /\ stream \in Int
      BY Steps, OutgoingAssumption DEF NoOp, IInv, Types
    <3>2. at > 0 /\ op.kind = Script[at] /\ (at > 1 => op.on = stream)
      BY <3>1 DEF IInv, RunOK
    <3>3. at \in 3 .. 8
      BY <3>1, <3>2, Steps
    <3>4. writing.on < stream /\ op.on = stream
      BY <3>2, <3>3, Steps DEF IInv, QueueOK
    <3>5. QED
      BY <3>1, <3>4
  <2>2. QED
    BY <2>1 DEF IInv, WireOK, HandshakeAlone
<1>2. QED
  BY <1>1, Invariance, PTL

(* NeverUnsupported: no connection carries an extension its server does not
   take, whatever was queued for the one before. *)
THEOREM OnlySupported == Spec => []NeverUnsupported
<1>1. IInv => NeverUnsupported
  BY DEF IInv, CapsOK, Has, Extensions, NeverUnsupported
<1>2. QED
  BY <1>1, Invariance, PTL

(* ChoiceKept: when all is quiet the list of encodings the server has last is
   the one computed last, unless a failure on the connection before took the
   queue along. *)
THEOREM ChoiceIsKept == Spec => []ChoiceKept
<1>1. IInv => ChoiceKept
  <2> SUFFICES ASSUME IInv, status = "connected", ready = <<>>, sendQue = <<>>, posting = <<>>,
                      sock[stream] = "open", ~dropped
               PROVE  LastList(wire[stream], <<>>) = choice
    BY DEF ChoiceKept
  <2>1. PICK d : d = LastList(wire[stream], <<>>)
    OBVIOUS
  <2>2. None(ready, "send")
    BY DEF None, Waiting
  <2>3. LastList(sendQue, d) = d /\ LastSent(ready, d) = d /\ LastList(posting, d) = d
    BY <2>2, LastSentNone, LastListShort, Zenon
  <2>4. Chosen = d
    BY <2>1, <2>3, Zenon DEF Chosen
  <2>5. Chosen = choice
    BY DEF IInv, RunOK, ChoiceOK
  <2>6. QED
    BY <2>1, <2>4, <2>5
<1>2. QED
  BY <1>1, Invariance, PTL
=============================================================================
