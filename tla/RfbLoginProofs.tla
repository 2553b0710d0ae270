---------------------------- MODULE RfbLoginProofs ----------------------------
(***************************************************************************)
(* What is proved of RfbLogin, for any versions and offers and any number  *)
(* of rounds: with texts whose length fits its byte, each side reads what  *)
(* the other has written.                                                  *)
(***************************************************************************)
EXTENDS RfbLogin, SequenceTheorems, TLAPS

(* The lengths of the two texts fit the byte they are written in. *)
TextsFit == TextLength < 256 /\ PasswordLength < 256

Places == ClientReads \cup {"connected", "failed"}
Security == Schemes \cup {"ConnFailed"}

Item ==
  [is : {"version"}, val : Nat \X Nat] \cup [is : {"list"}, val : SUBSET Schemes]
    \cup [is : {"scheme", "choice"}, val : Security]
    \cup [is : {"result"}, val : {"ok", "continue", "tooMany", "failed"}]
    \cup [is : {"clientInit"}, val : BOOLEAN]
    \cup [is : {"reason", "challenge", "params", "keys", "serverInit", "response", "extra"}, val : {TRUE}]

LoginTypeOK ==
  /\ version \in Nat \X Nat /\ version[1] <= 3
  /\ extraNew \in BOOLEAN
  /\ client \in Places
  /\ server \in DOMAIN ServerReads
  /\ offer \subseteq Schemes /\ scheme \in Security
  /\ s2c \in Seq(Item) /\ c2s \in Seq(Item)
  /\ server \notin {"start", "version", "closed"} => agreed = version /\ client # "version"

-----------------------------------------------------------------------------
(* What the client reads after a security type, and after any item it answers
   nothing to. *)
Began(v, a) ==
  CASE a = "NoAuth" -> IF NoAuthHasResult(v) THEN "result" ELSE "serverInit"
    [] a \in {"UltraVNC", "ClientInitExtraMsgSupport"} -> "result"
    [] a = "VncAuth" -> "challenge"
    [] a = "UltraMSLogonII" -> "params"
    [] a \in {"RSAAES_256", "RSAAESne_256", "RSAAES", "RSAAESne"} -> "keys"
    [] OTHER -> "failed"

After(v, i) ==
  CASE i.is = "scheme" -> Began(v, i.val)
    [] i.is = "list" -> "reason"
    [] i.is = "result" -> IF i.val = "continue" THEN AuthBegins(v)
                          ELSE IF i.val = "failed" /\ v[1] = 3 /\ v[2] > 7 THEN "reason" ELSE "failed"
    [] i.is = "serverInit" -> "connected"
    [] OTHER -> "failed"

(* It answers, or writes what its security type begins with. *)
Answered(i) ==
  \/ i.is \in {"version", "challenge", "params", "keys"}
  \/ i.is = "list" /\ i.val # {}
  \/ i.is = "scheme" /\ i.val \in {"NoAuth", "ClientInitExtraMsgSupport"}
  \/ i.is = "result" /\ i.val = "ok"

(* One item takes it from one place to the next, unless it has given up. *)
Passes(v, from, i, to) ==
  \/ from = "failed" /\ to = "failed"
  \/ from = i.is /\ (Answered(i) \/ to = After(v, i))

(* w is what the client reads, item by item; what it answers is the last. *)
Reading(v, w, items) ==
  /\ w \in [1 .. Len(items) + 1 -> Places]
  /\ \A i \in 1 .. Len(items) :
       /\ Passes(v, w[i], items[i], w[i + 1])
       /\ w[i] # "failed" /\ Answered(items[i]) => i = Len(items)

Ahead(w, items) == items # <<>> /\ w[Len(items)] # "failed" /\ Answered(items[Len(items)])

(* An answer that is still to be given, and what the server does meanwhile. *)
Awaited(i) ==
  /\ c2s = <<>>
  /\ CASE i.is = "version" -> server = "version"
       [] i.is = "list" -> server = "choice" /\ offer = i.val
       [] i.is = "scheme" -> /\ scheme = i.val /\ ~Modern
                             /\ \/ server = "ask"
                                \/ i.val = "NoAuth" /\ server = "clientInit"
                                \/ i.val = "ClientInitExtraMsgSupport" /\ server = "extra"
       [] i.is = "result" -> server = "clientInit"
       [] OTHER -> server = "response"

(* ClientInit with what may follow it. *)
InitItems(items) ==
  \E e \in BOOLEAN : items = <<Of("clientInit", e)>> \o IF e THEN <<Plain("extra")>> ELSE <<>>

(* What the client writes after its choice without having read anything. *)
Begins(v, a, items) ==
  CASE a = "NoAuth" /\ ~NoAuthHasResult(v) -> InitItems(items)
    [] a = "ClientInitExtraMsgSupport" -> items = <<Plain("extra")>>
    [] OTHER -> items = <<>>

(* What the server has not read yet, by what it waits for. *)
Unread ==
  CASE server = "version" -> c2s = <<Of("version", version)>>
    [] server = "choice" -> c2s # <<>> /\ Head(c2s).is = "choice" /\ Begins(version, Head(c2s).val, Tail(c2s))
    [] server = "ask" -> Begins(version, scheme, c2s)
    [] server = "response" -> c2s = <<Plain("response")>>
    [] server \in {"extra", "clientExtra"} -> c2s = <<Plain("extra")>>
    [] server = "clientInit" -> InitItems(c2s)
    [] OTHER -> c2s = <<>>

(* All that was sent has been read: where the client is then. *)
Agree(at) ==
  /\ Unread
  /\ CASE server = "start" -> at = "version"
       [] server \in {"version", "offer"} -> at = AuthBegins(version)
       [] server = "choice" -> at = Began(version, Head(c2s).val)
       [] server = "ask" -> at = Began(version, scheme)
       [] server \in {"response", "extra", "verdict"} -> at = "result"
       [] server \in {"clientInit", "clientExtra"} -> at = "serverInit"
       [] OTHER -> at = "connected"

Dialog(w) ==
  /\ w[1] = client
  /\ Reading(version, w, s2c)
  /\ IF Ahead(w, s2c) THEN Awaited(s2c[Len(s2c)])
     ELSE w[Len(s2c) + 1] = "failed" \/ server = "closed" \/ Agree(w[Len(s2c) + 1])

DialogInv ==
  client \in ClientReads => \E w \in [1 .. Len(s2c) + 1 -> Places] : Dialog(w)

LoginInv ==
  /\ LoginTypeOK
  /\ server = "closed" \/ c2s = <<>> \/ Unread
  /\ DialogInv

-----------------------------------------------------------------------------
(* No text is longer than its length can say, so each is sent as it is. *)
LEMMA ShortPlain == ASSUME TextsFit PROVE
  /\ \A k : Counted(k, TextLength) = <<Plain(k)>>
  /\ \A k : Counted(k, PasswordLength) = <<Plain(k)>>
<1>1. TextLength % 256 = TextLength /\ PasswordLength % 256 = PasswordLength
  BY LoginAssumption DEF TextsFit
<1>2. \A k : <<Plain(k)>> \o <<>> = <<Plain(k)>>
  OBVIOUS
<1>3. ASSUME NEW k, NEW m \in Nat, m % 256 = m
      PROVE  Counted(k, m) = <<Plain(k)>>
  <2>1. ~(m % 256 < m)
    BY <1>3
  <2>2. QED
    BY <1>2, <2>1 DEF Counted
<1>4. QED
  BY <1>1, <1>3, LoginAssumption

(* u is w for one item more. *)
Longer(v, w, items, x, u) ==
  /\ Reading(v, u, Append(items, x)) /\ u[1] = w[1]
  /\ Ahead(u, Append(items, x)) <=> w[Len(items) + 1] # "failed" /\ Answered(x)
  /\ w[Len(items) + 1] = "failed" => u[Len(items) + 2] = "failed"
  /\ w[Len(items) + 1] # "failed" /\ ~Answered(x) => u[Len(items) + 2] = After(v, x)

(* The server sends one item more. *)
LEMMA ReadingGrows ==
  ASSUME NEW v, NEW items \in Seq(Item), NEW w, Reading(v, w, items), ~Ahead(w, items),
         NEW x \in Item, w[Len(items) + 1] \in {"failed", x.is}
  PROVE  \E u : Longer(v, w, items, x, u)
<1> DEFINE n == Len(items)
           next == IF w[n + 1] = "failed" \/ Answered(x) THEN "failed" ELSE After(v, x)
           u == [i \in 1 .. n + 2 |-> IF i = n + 2 THEN next ELSE w[i]]
           all == Append(items, x)
<1>1. n \in Nat /\ Len(all) = n + 1 /\ all[n + 1] = x /\ \A i \in 1 .. n : all[i] = items[i]
  BY AppendProperties, LenProperties
<1>2. After(v, x) \in Places
  BY DEF After, Began, AuthBegins, Places, ClientReads
<1>3. u \in [1 .. Len(all) + 1 -> Places]
  BY <1>1, <1>2 DEF Reading, Places
<1>4. \A i \in 1 .. n : Answered(items[i]) => w[i] = "failed"
  BY <1>1 DEF Reading, Ahead
<1>5. ASSUME NEW i \in 1 .. n + 1
      PROVE  /\ Passes(v, u[i], all[i], u[i + 1])
             /\ u[i] # "failed" /\ Answered(all[i]) => i = n + 1
  <2>1. CASE i = n + 1
    <3>1. u[i] = w[n + 1] /\ all[i] = x /\ u[i + 1] = next
      BY <2>1, <1>1
    <3> HIDE DEF u, all
    <3>2. Passes(v, w[n + 1], x, next)
      BY DEF Passes
    <3>3. QED
      BY <2>1, <3>1, <3>2
  <2>2. CASE i \in 1 .. n
    <3>1. u[i] = w[i] /\ all[i] = items[i] /\ u[i + 1] = w[i + 1]
      BY <2>2, <1>1
    <3>2. Passes(v, w[i], items[i], w[i + 1])
      BY <2>2 DEF Reading
    <3> HIDE DEF u, all
    <3>3. QED
      BY <2>2, <3>1, <3>2, <1>4
  <2>3. QED
    BY <2>1, <2>2, <1>1
<1>6. Reading(v, u, all)
  BY <1>1, <1>3, <1>5 DEF Reading
<1>7. Ahead(u, all) <=> w[n + 1] # "failed" /\ Answered(x)
  BY <1>1 DEF Ahead
<1>8. Longer(v, w, items, x, u)
  BY <1>1, <1>6, <1>7 DEF Longer
<1>9. QED
  BY <1>8

(* The client reads the first item. *)
LEMMA ReadingShrinks ==
  ASSUME NEW v, NEW items \in Seq(Item), items # <<>>, NEW w, Reading(v, w, items)
  PROVE  \E u : /\ Reading(v, u, Tail(items)) /\ u[1] = w[2]
                /\ u[Len(Tail(items)) + 1] = w[Len(items) + 1]
                /\ Tail(items) # <<>> => (Ahead(u, Tail(items)) <=> Ahead(w, items))
                /\ Tail(items) # <<>> => Tail(items)[Len(Tail(items))] = items[Len(items)]
<1> DEFINE n == Len(items)
           u == [i \in 1 .. n |-> w[i + 1]]
<1>1. /\ n \in Nat \ {0} /\ Len(Tail(items)) = n - 1
      /\ \A i \in 1 .. n - 1 : Tail(items)[i] = items[i + 1]
      /\ Tail(items) \in Seq(Item)
  BY HeadTailProperties, EmptySeq
<1>2. Reading(v, u, Tail(items))
  <2>1. w \in [1 .. n + 1 -> Places]
    BY DEF Reading
  <2>2. u \in [1 .. Len(Tail(items)) + 1 -> Places]
    BY <1>1, <2>1
  <2>3. ASSUME NEW i \in 1 .. n - 1
        PROVE  /\ Passes(v, u[i], Tail(items)[i], u[i + 1])
               /\ u[i] # "failed" /\ Answered(Tail(items)[i]) => i = n - 1
    <3>1. /\ i + 1 \in 1 .. n /\ Tail(items)[i] = items[i + 1]
          /\ u[i] = w[i + 1] /\ u[i + 1] = w[(i + 1) + 1]
      BY <1>1
    <3>2. PICK j \in 1 .. n : j = i + 1
      BY <3>1
    <3>3. Passes(v, w[j], items[j], w[j + 1]) /\ (w[j] # "failed" /\ Answered(items[j]) => j = n)
      BY DEF Reading
    <3>4. Tail(items)[i] = items[j] /\ u[i] = w[j] /\ u[i + 1] = w[j + 1]
      BY <3>1, <3>2
    <3> HIDE DEF n, u
    <3>5. j = n => i = n - 1
      <4>1. n \in Int /\ i \in Int
        BY <1>1
      <4>2. QED
        BY <4>1, <3>2
    <3>6. QED
      BY <3>3, <3>4, <3>5
  <2>4. QED
    BY <1>1, <2>2, <2>3 DEF Reading
<1>3. Tail(items) # <<>> => n > 1
  BY <1>1, EmptySeq
<1>4. Tail(items) # <<>> => (Ahead(u, Tail(items)) <=> Ahead(w, items))
  BY <1>1, <1>3 DEF Ahead
<1>5. QED
  BY <1>1, <1>2, <1>3, <1>4

-----------------------------------------------------------------------------
(* The client reads an item that it answers: there is no other under way. *)
LEMMA Answer ==
  ASSUME LoginInv, client \in ClientReads, s2c # <<>>, Head(s2c).is = client, Answered(Head(s2c))
  PROVE  Tail(s2c) = <<>> /\ Awaited(Head(s2c))
<1>1. PICK w : Dialog(w)
  BY DEF LoginInv, DialogInv
<1>2. Len(s2c) \in Nat \ {0} /\ Head(s2c) = s2c[1] /\ s2c \in Seq(Item)
  BY EmptySeq DEF LoginInv, LoginTypeOK
<1>3. w[1] # "failed"
  BY <1>1 DEF Dialog, ClientReads
<1>4. Len(s2c) = 1
  <2>1. 1 \in 1 .. Len(s2c)
    BY <1>2
  <2>2. w[1] # "failed" /\ Answered(s2c[1]) => 1 = Len(s2c)
    BY <1>1, <2>1 DEF Dialog, Reading
  <2>3. QED
    BY <1>2, <1>3, <2>2
<1>5. Ahead(w, s2c)
  BY <1>2, <1>3, <1>4 DEF Ahead
<1>6. Tail(s2c) = <<>>
  BY <1>2, <1>4, HeadTailProperties, EmptySeq
<1>7. QED
  BY <1>1, <1>2, <1>4, <1>5, <1>6 DEF Dialog

(* What is under way is what the client reads; when nothing is, both sides   *)
(* agree on where they are.                                                  *)
LEMMA Meets ==
  ASSUME LoginInv, client \in ClientReads
  PROVE  /\ s2c # <<>> => Head(s2c).is = client
         /\ s2c = <<>> => server = "closed" \/ Agree(client)
<1>1. PICK w : Dialog(w)
  BY DEF LoginInv, DialogInv
<1>2. s2c \in Seq(Item) /\ w[1] = client /\ w[1] # "failed"
  BY <1>1 DEF LoginInv, LoginTypeOK, Dialog, ClientReads
<1>3. ASSUME s2c # <<>> PROVE Head(s2c).is = client
  <2>1. 1 \in 1 .. Len(s2c) /\ Head(s2c) = s2c[1]
    BY <1>2, <1>3, EmptySeq
  <2>2. Passes(version, w[1], s2c[1], w[1 + 1])
    BY <1>1, <2>1 DEF Dialog, Reading
  <2>3. QED
    BY <1>2, <2>1, <2>2 DEF Passes
<1>4. ASSUME s2c = <<>> PROVE server = "closed" \/ Agree(client)
  <2>1. ~Ahead(w, s2c) /\ Len(s2c) + 1 = 1
    BY <1>4, EmptySeq DEF Ahead
  <2>2. QED
    BY <1>1, <1>2, <2>1 DEF Dialog
<1>5. QED
  BY <1>3, <1>4

(* An item that it does not answer; it may find that it has to give up. *)
LEMMA Pass ==
  ASSUME LoginInv, client \in ClientReads, s2c # <<>>, Head(s2c).is = client, ~Answered(Head(s2c)),
         s2c' = Tail(s2c), c2s' = c2s, version' = version, UNCHANGED serverVars,
         client' \in {After(version, Head(s2c)), "failed"}
  PROVE  DialogInv' /\ (server' = "closed" \/ c2s' = <<>> \/ Unread')
<1>1. PICK w : Dialog(w)
  BY DEF LoginInv, DialogInv
<1>2. Len(s2c) \in Nat \ {0} /\ Head(s2c) = s2c[1] /\ s2c \in Seq(Item)
  BY EmptySeq DEF LoginInv, LoginTypeOK
<1>3. server' = "closed" \/ c2s' = <<>> \/ Unread'
  BY DEF LoginInv, Unread, serverVars
<1>4. SUFFICES ASSUME client' \in ClientReads
               PROVE  \E u \in [1 .. Len(s2c') + 1 -> Places] : Dialog(u)'
  BY <1>3 DEF DialogInv
<1>5. w[1] = client /\ w[1] # "failed" /\ w[2] = After(version, s2c[1])
  <2>1. 1 \in 1 .. Len(s2c)
    BY <1>2
  <2>2. Passes(version, w[1], s2c[1], w[1 + 1])
    BY <1>1, <2>1 DEF Dialog, Reading
  <2>3. w[1] = client /\ w[1] # "failed" /\ 1 + 1 = 2
    BY <1>1 DEF Dialog, ClientReads
  <2>4. QED
    BY <1>2, <2>2, <2>3 DEF Passes
<1>6. w[2] = client'
  BY <1>2, <1>4, <1>5 DEF ClientReads
<1>7. PICK u : /\ Reading(version, u, Tail(s2c)) /\ u[1] = w[2]
               /\ u[Len(Tail(s2c)) + 1] = w[Len(s2c) + 1]
               /\ Tail(s2c) # <<>> => (Ahead(u, Tail(s2c)) <=> Ahead(w, s2c))
               /\ Tail(s2c) # <<>> => Tail(s2c)[Len(Tail(s2c))] = s2c[Len(s2c)]
  BY <1>1, <1>2, ReadingShrinks DEF Dialog
<1>8. Tail(s2c) = <<>> => ~Ahead(w, s2c)
  <2>1. Len(Tail(s2c)) = Len(s2c) - 1
    BY <1>2, HeadTailProperties
  <2>2. Tail(s2c) = <<>> => Len(s2c) = 1
    <3>1. Len(<<>>) = 0
      OBVIOUS
    <3>2. Tail(s2c) = <<>> => Len(Tail(s2c)) = 0
      BY <3>1, Zenon
    <3>3. QED
      BY <1>2, <2>1, <3>2
  <2>3. QED
    BY <1>2, <2>2 DEF Ahead
<1>9. Tail(s2c) = <<>> => ~Ahead(u, Tail(s2c))
  BY DEF Ahead
<1>10. IF Ahead(u, Tail(s2c)) THEN Awaited(Tail(s2c)[Len(Tail(s2c))])
       ELSE u[Len(Tail(s2c)) + 1] = "failed" \/ server = "closed" \/ Agree(u[Len(Tail(s2c)) + 1])
  BY <1>1, <1>7, <1>8, <1>9 DEF Dialog
<1>11. Dialog(u)'
  BY <1>6, <1>7, <1>10 DEF Dialog, Awaited, Agree, Unread, Modern, serverVars
<1>12. QED
  BY <1>7, <1>11 DEF Reading

(* It has read all there is, and waits for what the server sends next. *)
LEMMA Caught ==
  ASSUME NEW at \in Places, client' = at, s2c' = <<>>, server' = "closed" \/ Agree(at)'
  PROVE  DialogInv'
<1> DEFINE w == [i \in 1 .. 1 |-> at]
<1>1. Len(s2c') = 0 /\ w \in [1 .. Len(s2c') + 1 -> Places] /\ w[1] = at
  BY EmptySeq
<1> HIDE DEF w
<1>2. Reading(version', w, s2c') /\ ~Ahead(w, s2c')
  BY <1>1 DEF Reading, Ahead
<1>3. w[Len(s2c') + 1] = at
  BY <1>1
<1>4. Dialog(w)'
  BY <1>1, <1>2, <1>3 DEF Dialog
<1>5. QED
  BY <1>1, <1>4 DEF DialogInv

-----------------------------------------------------------------------------
(* Nothing under way is answered before it is read, and what the server does   *)
(* keeps its promises: it sends nothing,                                       *)
LEMMA Silent ==
  ASSUME LoginInv, UNCHANGED <<version, client, s2c>>,
         \A i \in Item : Answered(i) /\ Awaited(i) => Awaited(i)',
         \A at \in Places : Agree(at) => server' = "closed" \/ Agree(at)',
         server = "closed" => server' = "closed"
  PROVE  DialogInv'
<1>1. SUFFICES ASSUME client \in ClientReads, NEW w \in [1 .. Len(s2c) + 1 -> Places], Dialog(w)
               PROVE  Dialog(w)'
  BY DEF DialogInv, LoginInv
<1>2. s2c \in Seq(Item) /\ Len(s2c) \in Nat
  BY LenProperties DEF LoginInv, LoginTypeOK
<1>3. w[Len(s2c) + 1] \in Places
  BY <1>1, <1>2
<1>4. CASE Ahead(w, s2c)
  <2>1. s2c[Len(s2c)] \in Item
    BY <1>2, <1>4, EmptySeq DEF Ahead
  <2>2. Answered(s2c[Len(s2c)])
    BY <1>4 DEF Ahead
  <2>3. QED
    BY <1>1, <1>4, <2>1, <2>2 DEF Dialog
<1>5. CASE ~Ahead(w, s2c)
  BY <1>1, <1>3, <1>5 DEF Dialog
<1>6. QED
  BY <1>4, <1>5

(* or one item, which the client reads after all the others. *)
LEMMA One ==
  ASSUME LoginInv, UNCHANGED <<version, client>>, NEW x \in Item, s2c' = Append(s2c, x),
         \A i \in Item : Answered(i) => ~Awaited(i), server # "closed",
         \A at \in Places : Agree(at) => at \in {"failed", x.is},
         Answered(x) => Awaited(x)',
         ~Answered(x) => server' = "closed" \/ Agree(After(version, x))'
  PROVE  DialogInv'
<1>1. SUFFICES ASSUME client \in ClientReads, NEW w, Dialog(w)
               PROVE  \E u \in [1 .. Len(s2c') + 1 -> Places] : Dialog(u)'
  BY DEF DialogInv, LoginInv
<1>2. s2c \in Seq(Item) /\ Len(s2c) \in Nat /\ Reading(version, w, s2c)
  BY <1>1, LenProperties DEF LoginInv, LoginTypeOK, Dialog
<1>3. w[Len(s2c) + 1] \in Places
  BY <1>2 DEF Reading
<1>4. ~Ahead(w, s2c)
  BY <1>1, <1>2, EmptySeq DEF Dialog, Ahead
<1>5. w[Len(s2c) + 1] \in {"failed", x.is}
  BY <1>1, <1>3, <1>4 DEF Dialog
<1>6. PICK u : Longer(version, w, s2c, x, u)
  BY <1>2, <1>4, <1>5, ReadingGrows
<1>7. Len(s2c') = Len(s2c) + 1 /\ s2c'[Len(s2c')] = x /\ Len(s2c') + 1 = Len(s2c) + 2
  BY <1>2, AppendProperties, LenProperties
<1>8. Dialog(u)'
  <2>1. u[1] = client' /\ Reading(version', u, s2c')
    BY <1>1, <1>6 DEF Dialog, Longer
  <2>2. CASE w[Len(s2c) + 1] = "failed"
    BY <2>1, <2>2, <1>6, <1>7 DEF Dialog, Longer
  <2>3. CASE w[Len(s2c) + 1] # "failed" /\ Answered(x)
    BY <2>1, <2>3, <1>6, <1>7 DEF Dialog, Longer
  <2>4. CASE w[Len(s2c) + 1] # "failed" /\ ~Answered(x)
    BY <2>1, <2>4, <1>6, <1>7 DEF Dialog, Longer
  <2>5. QED
    BY <2>2, <2>3, <2>4
<1>9. QED
  BY <1>8 DEF Dialog, Reading

(* or two, and closes the connection. *)
LEMMA Two ==
  ASSUME LoginInv, UNCHANGED <<version, client>>, NEW x \in Item, NEW y \in Item,
         s2c' = Append(Append(s2c, x), y), server' = "closed",
         \A i \in Item : Answered(i) => ~Awaited(i), server # "closed",
         \A at \in Places : Agree(at) => at = x.is,
         ~Answered(x), ~Answered(y), After(version, x) \in {"failed", y.is}
  PROVE  DialogInv'
<1>1. SUFFICES ASSUME client \in ClientReads, NEW w, Dialog(w)
               PROVE  \E u \in [1 .. Len(s2c') + 1 -> Places] : Dialog(u)'
  BY DEF DialogInv, LoginInv
<1>2. s2c \in Seq(Item) /\ Len(s2c) \in Nat /\ Reading(version, w, s2c)
  BY <1>1, LenProperties DEF LoginInv, LoginTypeOK, Dialog
<1>3. w[Len(s2c) + 1] \in Places
  BY <1>2 DEF Reading
<1>4. ~Ahead(w, s2c)
  BY <1>1, <1>2, EmptySeq DEF Dialog, Ahead
<1>5. w[Len(s2c) + 1] \in {"failed", x.is}
  BY <1>1, <1>3, <1>4 DEF Dialog
<1> DEFINE once == Append(s2c, x)
<1>6. PICK u : Longer(version, w, s2c, x, u)
  BY <1>2, <1>4, <1>5, ReadingGrows
<1>7. once \in Seq(Item) /\ Len(once) = Len(s2c) + 1 /\ Append(once, y) = s2c'
  BY <1>2, AppendProperties
<1>8. /\ Reading(version, u, once) /\ u[1] = w[1] /\ ~Ahead(u, once)
      /\ u[Len(once) + 1] \in {"failed", y.is}
  <2>1. Len(once) + 1 = Len(s2c) + 2
    BY <1>2, <1>7
  <2>2. QED
    BY <2>1, <1>6 DEF Longer
<1> HIDE DEF once
<1>9. PICK z : Longer(version, u, once, y, z)
  BY <1>7, <1>8, ReadingGrows
<1>10. Dialog(z)'
  BY <1>1, <1>7, <1>8, <1>9 DEF Dialog, Longer
<1>11. QED
  BY <1>10 DEF Dialog, Reading

-----------------------------------------------------------------------------
(* The items are what Item says. *)
LEMMA Items ==
  /\ \A v \in Nat \X Nat : Of("version", v) \in Item
  /\ \A o \in SUBSET Schemes : Of("list", o) \in Item
  /\ \A k \in {"scheme", "choice"}, a \in Security : Of(k, a) \in Item
  /\ \A r \in {"ok", "continue", "tooMany", "failed"} : Of("result", r) \in Item
  /\ \A e \in BOOLEAN : Of("clientInit", e) \in Item
  /\ \A k \in {"reason", "challenge", "params", "keys", "serverInit", "response", "extra"} : Plain(k) \in Item
  /\ \A k, x : Of(k, x).is = k /\ Of(k, x).val = x
  BY DEF Item, Of, Plain

(* What the items of each kind may say. *)
LEMMA Values ==
  ASSUME NEW i \in Item
  PROVE  /\ i.is = "version" => i.val \in Nat \X Nat
         /\ i.is = "list" => i.val \in SUBSET Schemes
         /\ i.is \in {"scheme", "choice"} => i.val \in Security
         /\ i.is = "result" => i.val \in {"ok", "continue", "tooMany", "failed"}
         /\ i.is = "clientInit" => i.val \in BOOLEAN
  BY DEF Item

(* One item after others. *)
LEMMA Appended ==
  ASSUME NEW items \in Seq(Item)
  PROVE  /\ items \o <<>> = items /\ <<>> \o items = items
         /\ \A x \in Item : items \o <<x>> = Append(items, x)
         /\ \A x, y \in Item : items \o <<x, y>> = Append(Append(items, x), y)
         /\ \A x \in Item : /\ <<x>> \in Seq(Item) /\ <<x>> # <<>>
                            /\ Head(<<x>>) = x /\ Tail(<<x>>) = <<>>
  OBVIOUS

(* Two items after others. *)
LEMMA Joined ==
  ASSUME NEW x \in Item, NEW y \in Item
  PROVE  <<x>> \o <<y>> = <<x, y>> /\ Tail(<<x>> \o <<y>>) = <<y>>
<1>1. <<x>> \in Seq(Item) /\ <<x>> \o <<y>> = Append(<<x>>, y)
  BY Appended
<1>2. <<x, y>> = Append(<<x>>, y) /\ Tail(<<x, y>>) = <<y>>
  OBVIOUS
<1>3. QED
  BY <1>1, <1>2

(* What both sides conclude from the version agreed on. *)
LEMMA SameVersion ==
  ASSUME LoginTypeOK, agreed = version
  PROVE  /\ Modern <=> AuthBegins(version) = "list"
         /\ ~Modern <=> AuthBegins(version) = "scheme"
         /\ SinceEight <=> NoAuthHasResult(version)
         /\ SinceEight <=> version[1] = 3 /\ version[2] > 7
         /\ SinceEight => Modern
  BY DEF LoginTypeOK, Modern, SinceEight, AuthBegins, NoAuthHasResult

(* The version agreed on is one of RFB's: 3, and anything. *)
LEMMA Agreeing ==
  ASSUME LoginTypeOK, NEW v \in Nat \X Nat
  PROVE  Negotiated(v) \in Nat \X Nat /\ Negotiated(v)[1] <= 3
  BY DEF Negotiated

(* The client takes a security type it knows, or none. *)
LEMMA SelectedIsOne == ASSUME NEW auths PROVE Selected(auths) \subseteq Security
<1>1. DOMAIN Preferred = 1 .. 6 /\ \A i \in 1 .. 6 : Preferred[i] \in Security
  BY DEF Preferred, Security, Schemes
<1>2. QED
  BY <1>1 DEF Selected, Security, Schemes

(* What the client says after its security type, before it reads again. *)
LEMMA HandlerBegins ==
  ASSUME TextsFit, LoginTypeOK, NEW a \in Security, NEW items \in Seq(Item), NEW extra \in BOOLEAN,
         Handler(a, items, extra)
  PROVE  /\ client' = Began(version, a) /\ s2c' = Tail(s2c) /\ extraNew' \in BOOLEAN
         /\ \E said \in Seq(Item) : Begins(version, a, said) /\ c2s' = c2s \o (items \o said)
<1> USE DEF Writes
<1>1. CASE a = "NoAuth" /\ NoAuthHasResult(version)
  <2>1. ReadNext("result", items, extra)
    BY <1>1 DEF Handler
  <2>2. Begins(version, a, <<>>) /\ Began(version, a) = "result"
    BY <1>1 DEF Begins, Began
  <2>3. <<>> \in Seq(Item) /\ items \o <<>> = items
    BY Appended, EmptySeq
  <2>4. extraNew' \in BOOLEAN
    BY <2>1 DEF ReadNext
  <2>5. c2s' = c2s \o (items \o <<>>)
    BY <2>1, <2>3, Zenon DEF ReadNext
  <2>6. QED
    BY <2>1, <2>2, <2>3, <2>4, <2>5, Zenon DEF ReadNext
<1>2. CASE a = "NoAuth" /\ ~NoAuthHasResult(version)
  <2>1. ClientInit(items, extra)
    BY <1>2 DEF Handler
  <2> DEFINE said == <<Of("clientInit", extra)>> \o IF extra THEN <<Plain("extra")>> ELSE <<>>
  <2>2. said \in Seq(Item) /\ InitItems(said)
    <3>1. Of("clientInit", extra) \in Item /\ Plain("extra") \in Item
      BY Items
    <3>2. QED
      BY <3>1 DEF InitItems
  <2>3. c2s' = c2s \o (items \o said)
    <3>1. Counted("extra", TextLength) = <<Plain("extra")>>
      BY ShortPlain
    <3>2. c2s' = c2s \o ((items \o <<Of("clientInit", extra)>>)
                        \o IF extra THEN <<Plain("extra")>> ELSE <<>>)
      BY <2>1, <3>1, Zenon DEF ClientInit
    <3>3. <<Of("clientInit", extra)>> \in Seq(Item) /\ <<Plain("extra")>> \in Seq(Item) /\ <<>> \in Seq(Item)
      BY Items, Appended, EmptySeq
    <3>4. (items \o <<Of("clientInit", extra)>>) \o (IF extra THEN <<Plain("extra")>> ELSE <<>>) = items \o said
      BY <3>3, ConcatAssociative
    <3>5. QED
      BY <3>2, <3>4
  <2>4. Begins(version, a, said) /\ Began(version, a) = "serverInit"
    BY <1>2, <2>2 DEF Begins, Began
  <2>5. QED
    BY <2>1, <2>2, <2>3, <2>4 DEF ClientInit
<1>3. CASE a = "ClientInitExtraMsgSupport"
  <2>1. ReadNext("result", items \o <<Plain("extra")>>, extra)
    BY <1>3, ShortPlain DEF Handler
  <2>2. Begins(version, a, <<Plain("extra")>>) /\ Began(version, a) = "result"
    BY <1>3 DEF Begins, Began
  <2>3. <<Plain("extra")>> \in Seq(Item)
    BY Items, Appended
  <2>4. QED
    BY <2>1, <2>2, <2>3 DEF ReadNext
<1>4. CASE a \notin {"NoAuth", "ClientInitExtraMsgSupport"}
  <2>1. ReadNext(Began(version, a), items, extra)
    BY <1>4 DEF Handler, Began, Security, Schemes
  <2>2. Begins(version, a, <<>>)
    BY <1>4 DEF Begins
  <2>3. <<>> \in Seq(Item) /\ items \o <<>> = items
    BY Appended, EmptySeq
  <2>4. extraNew' \in BOOLEAN
    BY <2>1 DEF ReadNext
  <2>5. c2s' = c2s \o (items \o <<>>)
    BY <2>1, <2>3, Zenon DEF ReadNext
  <2>6. QED
    BY <2>1, <2>2, <2>3, <2>4, <2>5, Zenon DEF ReadNext
<1>5. QED
  BY <1>1, <1>2, <1>3, <1>4

-----------------------------------------------------------------------------
(* The client's steps. *)
LEMMA Placed ==
  ASSUME NEW v, NEW i
  PROVE  After(v, i) \in Places \ {"version"} /\ AuthBegins(v) \in {"list", "scheme"}
         /\ \A a : Began(v, a) \in Places \ {"version"}
  BY DEF After, Began, AuthBegins, Places, ClientReads

(* It reads an item it answers nothing to. *)
LEMMA PassStep ==
  ASSUME LoginInv, client \in ClientReads, s2c # <<>>, Head(s2c).is = client, ~Answered(Head(s2c)),
         s2c' = Tail(s2c), c2s' = c2s, version' = version, UNCHANGED serverVars, extraNew' \in BOOLEAN,
         client' \in {After(version, Head(s2c)), "failed"}
  PROVE  LoginInv'
<1>1. DialogInv' /\ (server' = "closed" \/ c2s' = <<>> \/ Unread')
  BY Pass
<1>2. client' \in Places \ {"version"}
  BY Placed DEF Places
<1>3. LoginTypeOK'
  BY <1>2, EmptySeq, HeadTailProperties DEF LoginInv, LoginTypeOK, serverVars
<1>4. QED
  BY <1>1, <1>3 DEF LoginInv

(* It has answered: both sides agree again. *)
LEMMA AnswerStep ==
  ASSUME LoginInv, s2c # <<>>, Tail(s2c) = <<>>, s2c' = Tail(s2c), c2s' \in Seq(Item),
         UNCHANGED serverVars, extraNew' \in BOOLEAN,
         version' \in Nat \X Nat, version'[1] <= 3, version' = version \/ server = "version",
         NEW at \in Places, at # "version", client' = at, Agree(at)'
  PROVE  LoginInv'
<1>1. LoginTypeOK'
  BY EmptySeq DEF LoginInv, LoginTypeOK, serverVars
<1>2. Unread'
  BY DEF Agree
<1>3. DialogInv'
  BY Caught DEF DialogInv, ClientReads
<1>4. QED
  BY <1>1, <1>2, <1>3 DEF LoginInv

(* The server's version: the client answers with the lesser of the two, and
   from then on both sides use that one. *)
LEMMA ReadVersionStep == ASSUME LoginInv, ReadVersion PROVE LoginInv'
<1> DEFINE i == Head(s2c)
<1>1. /\ client = "version" /\ s2c # <<>> /\ i.is = "version" /\ i \in Item /\ s2c \in Seq(Item)
  BY HeadTailProperties DEF ReadVersion, Gets, LoginInv, LoginTypeOK
<1>2. Tail(s2c) = <<>> /\ Awaited(i)
  BY <1>1, Answer DEF Answered, ClientReads
<1>3. server = "version" /\ c2s = <<>>
  BY <1>1, <1>2 DEF Awaited
<1>4. PICK at : at = AuthBegins(version')
  OBVIOUS
<1>5. version' \in Nat \X Nat /\ version'[1] <= 3
  <2>1. i.val \in Nat \X Nat
    BY <1>1, Values
  <2>2. LoginTypeOK /\ version' = Negotiated(i.val)
    BY DEF ReadVersion, LoginInv
  <2>3. QED
    BY <2>1, <2>2, Agreeing
<1>6. c2s' = <<Of("version", version')>> /\ c2s' \in Seq(Item)
  <2>1. Of("version", version') \in Item
    BY <1>5, Items
  <2>2. QED
    BY <1>3, <2>1 DEF ReadVersion, Writes
<1>7. client' = at /\ at \in Places /\ at # "version"
  BY <1>4, Placed DEF ReadVersion, Places, ClientReads
<1>8. Agree(at)'
  BY <1>3, <1>4, <1>6 DEF Agree, Unread, ReadVersion, serverVars
<1>9. s2c' = Tail(s2c) /\ UNCHANGED serverVars /\ extraNew' \in BOOLEAN
  BY DEF ReadVersion, Writes, LoginInv, LoginTypeOK
<1>10. QED
  BY <1>1, <1>2, <1>3, <1>5, <1>6, <1>7, <1>8, <1>9, AnswerStep

(* The list of security types: an empty one announces a reason, another is
   answered with a choice, and then the client waits for what its type begins
   with. *)
LEMMA ReadListStep == ASSUME TextsFit, LoginInv, ReadList PROVE LoginInv'
<1> DEFINE i == Head(s2c)
           extra == extraNew \/ "ClientInitExtraMsgSupportNew" \in i.val
<1>1. /\ client = "list" /\ s2c # <<>> /\ i.is = "list" /\ i \in Item
      /\ s2c \in Seq(Item) /\ c2s \in Seq(Item) /\ LoginTypeOK
      /\ version' = version /\ UNCHANGED serverVars
  BY HeadTailProperties DEF ReadList, Gets, LoginInv, LoginTypeOK
<1>2. CASE i.val = {}
  <2>1. ReadNext("reason", <<>>, extraNew)
    BY <1>2 DEF ReadList
  <2>2. c2s' = c2s
    BY <1>1, <2>1, Appended DEF ReadNext, Writes
  <2>3. s2c' = Tail(s2c) /\ client' = After(version, i)
    BY <1>1, <2>1 DEF ReadNext, Writes, After
  <2>4. extraNew' \in BOOLEAN
    BY <2>1 DEF ReadNext, LoginInv, LoginTypeOK
  <2>5. ~Answered(i)
    BY <1>1, <1>2 DEF Answered
  <2>6. client \in ClientReads
    BY <1>1 DEF ClientReads
  <2>7. QED
    BY <1>1, <2>2, <2>3, <2>4, <2>5, <2>6, PassStep
<1>3. CASE i.val # {}
  <2>1. PICK a \in Selected(i.val \ {"ClientInitExtraMsgSupportNew"}) :
          Handler(a, <<Of("choice", a)>>, extra)
    BY <1>3 DEF ReadList
  <2>2. a \in Security
    BY <2>1, SelectedIsOne
  <2>3. Tail(s2c) = <<>> /\ Awaited(i)
    BY <1>1, <1>3, Answer DEF Answered, ClientReads
  <2>4. server = "choice" /\ c2s = <<>>
    BY <1>1, <2>3 DEF Awaited
  <2>5. Of("choice", a) \in Item /\ <<Of("choice", a)>> \in Seq(Item) /\ extra \in BOOLEAN
    BY <2>2, Items
  <2>6. /\ client' = Began(version, a) /\ s2c' = Tail(s2c) /\ extraNew' \in BOOLEAN
        /\ \E said \in Seq(Item) : Begins(version, a, said) /\ c2s' = c2s \o (<<Of("choice", a)>> \o said)
    BY <1>1, <2>1, <2>2, <2>5, HandlerBegins
  <2>7. PICK said \in Seq(Item) : Begins(version, a, said) /\ c2s' = <<Of("choice", a)>> \o said
    BY <2>4, <2>5, <2>6, ConcatProperties, ConcatEmptySeq
  <2>8. /\ c2s' \in Seq(Item) /\ c2s' # <<>> /\ Tail(c2s') = said
        /\ Head(c2s').is = "choice" /\ Head(c2s').val = a
    <3>1. Head(c2s') = Of("choice", a) /\ Tail(c2s') = said /\ c2s' # <<>> /\ c2s' \in Seq(Item)
      BY <2>5, <2>7
    <3>2. QED
      BY <3>1, Items
  <2>9. server' = "choice"
    BY <1>1, <2>4 DEF serverVars
  <2>10. PICK at : at = Began(version, a)
    OBVIOUS
  <2>11. client' = at /\ at \in Places /\ at # "version"
    BY <2>6, <2>10, Placed
  <2>12. Agree(at)'
    BY <1>1, <2>7, <2>8, <2>9, <2>10 DEF Agree, Unread
  <2>13. version' \in Nat \X Nat /\ version'[1] <= 3
    BY <1>1 DEF LoginTypeOK
  <2>14. QED
    BY <1>1, <2>3, <2>6, <2>8, <2>11, <2>12, <2>13, AnswerStep
<1>4. QED
  BY <1>2, <1>3

(* A scheme awaited by the client: what the server has chosen, and is about to
   go on with. *)
LEMMA SchemeAwaited ==
  ASSUME NEW i, i.is = "scheme", Awaited(i)
  PROVE  /\ c2s = <<>> /\ scheme = i.val /\ ~Modern
         /\ \/ server = "ask"
            \/ i.val = "NoAuth" /\ server = "clientInit"
            \/ i.val = "ClientInitExtraMsgSupport" /\ server = "extra"
  BY DEF Awaited

(* The security type the server has chosen, before 3.7: the client goes on with
   that type's handler. *)
LEMMA ReadSchemeStep == ASSUME TextsFit, LoginInv, ReadScheme PROVE LoginInv'
<1> DEFINE i == Head(s2c)
           a == i.val
<1>1. /\ client = "scheme" /\ s2c # <<>> /\ i.is = "scheme" /\ i \in Item /\ Tail(s2c) \in Seq(Item)
      /\ s2c \in Seq(Item) /\ c2s \in Seq(Item) /\ LoginTypeOK
      /\ version' = version /\ UNCHANGED serverVars /\ client \in ClientReads
  BY HeadTailProperties DEF ReadScheme, Gets, LoginInv, LoginTypeOK, ClientReads
<1>2. a \in Security
  BY <1>1, Values
<1>3. PICK said \in Seq(Item) : /\ Begins(version, a, said) /\ c2s' = c2s \o said
                               /\ client' = Began(version, a) /\ s2c' = Tail(s2c) /\ extraNew' \in BOOLEAN
  <2>1. <<>> \in Seq(Item) /\ extraNew \in BOOLEAN /\ Handler(a, <<>>, extraNew)
    BY <1>1, EmptySeq DEF ReadScheme, LoginTypeOK
  <2>2. \E said \in Seq(Item) : Begins(version, a, said) /\ c2s' = c2s \o (<<>> \o said)
    BY <1>1, <1>2, <2>1, HandlerBegins
  <2>3. client' = Began(version, a) /\ s2c' = Tail(s2c) /\ extraNew' \in BOOLEAN
    BY <1>1, <1>2, <2>1, HandlerBegins
  <2>4. QED
    BY <2>2, <2>3, Appended
<1>4. CASE a \notin {"NoAuth", "ClientInitExtraMsgSupport"}
  <2>1. said = <<>>
    BY <1>3, <1>4 DEF Begins
  <2>2. c2s' = c2s
    BY <1>1, <1>3, <2>1, Appended
  <2>3. client' = After(version, i) /\ ~Answered(i)
    BY <1>1, <1>3, <1>4 DEF After, Answered
  <2>4. QED
    BY <1>1, <1>3, <2>2, <2>3, PassStep
<1>5. CASE a \in {"NoAuth", "ClientInitExtraMsgSupport"}
  <2>1. Tail(s2c) = <<>> /\ Awaited(i)
    BY <1>1, <1>5, Answer DEF Answered
  <2>2. /\ c2s = <<>> /\ scheme = a /\ ~Modern
        /\ \/ server = "ask"
           \/ a = "NoAuth" /\ server = "clientInit"
           \/ a = "ClientInitExtraMsgSupport" /\ server = "extra"
    BY <1>1, <2>1, SchemeAwaited
  <2>3. c2s' = said
    BY <1>3, <2>2, Appended
  <2>4. ~NoAuthHasResult(version)
    <3>1. server \notin {"start", "version", "closed"}
      BY <2>2
    <3>2. agreed = version
      BY <1>1, <3>1 DEF LoginTypeOK
    <3>3. QED
      BY <1>1, <2>2, <3>2, SameVersion
  <2>5. PICK at : at = Began(version, a)
    OBVIOUS
  <2>6. client' = at /\ at \in Places /\ at # "version"
    BY <1>3, <2>5, Placed
  <2>7. scheme' = scheme /\ server' = server
    BY <1>1 DEF serverVars
  <2>8. ASSUME server = "ask" PROVE Agree(at)'
    <3>1. server' = "ask" /\ Begins(version', scheme', c2s') /\ at = Began(version', scheme')
      BY <1>1, <1>3, <2>2, <2>3, <2>5, <2>7, <2>8
    <3>2. QED
      BY <3>1 DEF Agree, Unread
  <2>9. ASSUME a = "NoAuth", server = "clientInit" PROVE Agree(at)'
    <3>1. InitItems(said) /\ at = "serverInit"
      BY <1>3, <2>4, <2>5, <2>9 DEF Begins, Began
    <3>2. InitItems(c2s') /\ server' = "clientInit"
      BY <2>3, <2>7, <2>9, <3>1
    <3>3. QED
      BY <3>1, <3>2 DEF Agree, Unread
  <2>10. ASSUME a = "ClientInitExtraMsgSupport", server = "extra" PROVE Agree(at)'
    <3>1. said = <<Plain("extra")>> /\ at = "result"
      BY <1>3, <2>5, <2>10 DEF Begins, Began
    <3>2. c2s' = <<Plain("extra")>> /\ server' = "extra"
      BY <2>3, <2>7, <2>10, <3>1
    <3>3. QED
      BY <3>1, <3>2 DEF Agree, Unread
  <2>11. Agree(at)'
    BY <2>2, <2>8, <2>9, <2>10, Zenon
  <2>12. version' \in Nat \X Nat /\ version'[1] <= 3
    BY <1>1 DEF LoginTypeOK
  <2>13. QED
    BY <1>1, <1>3, <2>1, <2>3, <2>6, <2>11, <2>12, AnswerStep
<1>6. QED
  BY <1>4, <1>5

(* The client gives up. *)
LEMMA GivesUp ==
  ASSUME LoginInv, client' = "failed", s2c' \in Seq(Item), c2s' = c2s, version' = version,
         UNCHANGED serverVars, extraNew' \in BOOLEAN
  PROVE  LoginInv'
<1>1. LoginTypeOK'
  BY DEF LoginInv, LoginTypeOK, Places, serverVars
<1>2. server' = "closed" \/ c2s' = <<>> \/ Unread'
  BY DEF LoginInv, Unread, serverVars
<1>3. DialogInv'
  BY DEF DialogInv, ClientReads
<1>4. QED
  BY <1>1, <1>2, <1>3 DEF LoginInv

(* A type's challenge, parameters or keys: answered, or the client gives up. *)
LEMMA ReadChallengeStep == ASSUME TextsFit, LoginInv, ReadChallenge PROVE LoginInv'
<1> DEFINE i == Head(s2c)
<1>1. /\ client \in {"challenge", "params", "keys"} /\ s2c # <<>> /\ i.is = client
      /\ s2c \in Seq(Item) /\ c2s \in Seq(Item) /\ LoginTypeOK /\ Tail(s2c) \in Seq(Item)
      /\ version' = version /\ UNCHANGED serverVars /\ client \in ClientReads
  BY HeadTailProperties DEF ReadChallenge, Gets, LoginInv, LoginTypeOK, ClientReads
<1>2. extraNew \in BOOLEAN
  BY <1>1 DEF LoginTypeOK
<1>3. ASSUME ReadNext("failed", <<>>, extraNew) PROVE LoginInv'
  <2>1. c2s' = c2s /\ s2c' = Tail(s2c)
    BY <1>1, <1>3, Appended DEF ReadNext, Writes
  <2>2. extraNew' \in BOOLEAN
    BY <1>2, <1>3 DEF ReadNext
  <2>3. QED
    BY <1>1, <1>3, <2>1, <2>2, GivesUp DEF ReadNext
<1>4. ASSUME ReadNext("result", <<Plain("response")>>, extraNew) PROVE LoginInv'
  <2>1. Tail(s2c) = <<>> /\ Awaited(i)
    BY <1>1, Answer DEF Answered
  <2>2. c2s = <<>> /\ server = "response"
    BY <1>1, <2>1 DEF Awaited
  <2>3. <<Plain("response")>> \in Seq(Item)
    BY Items
  <2>4. c2s' = <<Plain("response")>> /\ s2c' = Tail(s2c)
    BY <1>4, <2>2, <2>3, Appended DEF ReadNext, Writes
  <2>5. extraNew' \in BOOLEAN
    BY <1>2, <1>4 DEF ReadNext
  <2>6. PICK at : at = "result"
    OBVIOUS
  <2>7. client' = at /\ at \in Places /\ at # "version"
    BY <1>4, <2>6 DEF ReadNext, Places, ClientReads
  <2>8. Agree(at)'
    BY <1>1, <2>2, <2>4, <2>6 DEF Agree, Unread, serverVars
  <2>9. version' \in Nat \X Nat /\ version'[1] <= 3
    BY <1>1 DEF LoginTypeOK
  <2>10. c2s' \in Seq(Item)
    BY <2>3, <2>4
  <2>11. QED
    BY <1>1, <2>1, <2>4, <2>5, <2>7, <2>8, <2>9, <2>10, AnswerStep
<1>5. QED
  BY <1>3, <1>4, ShortPlain DEF ReadChallenge

(* The result of a round: the client goes on, gives up, or waits for the reason. *)
LEMMA ReadResultStep == ASSUME TextsFit, LoginInv, ReadResult PROVE LoginInv'
<1> DEFINE i == Head(s2c)
<1>1. /\ client = "result" /\ s2c # <<>> /\ i.is = client /\ i \in Item
      /\ s2c \in Seq(Item) /\ c2s \in Seq(Item) /\ LoginTypeOK /\ Tail(s2c) \in Seq(Item)
      /\ version' = version /\ UNCHANGED serverVars /\ client \in ClientReads
  BY HeadTailProperties DEF ReadResult, Gets, LoginInv, LoginTypeOK, ClientReads
<1>2. extraNew \in BOOLEAN
  BY <1>1 DEF LoginTypeOK
<1>3. CASE i.val = "ok"
  <2>1. ClientInit(<<>>, extraNew)
    BY <1>3 DEF ReadResult
  <2>2. Tail(s2c) = <<>> /\ Awaited(i)
    BY <1>1, <1>3, Answer DEF Answered
  <2>3. c2s = <<>> /\ server = "clientInit"
    BY <1>1, <2>2 DEF Awaited
  <2> DEFINE said == <<Of("clientInit", extraNew)>> \o IF extraNew THEN <<Plain("extra")>> ELSE <<>>
  <2>4. said \in Seq(Item) /\ InitItems(said)
    <3>1. Of("clientInit", extraNew) \in Item /\ Plain("extra") \in Item
      BY <1>2, Items
    <3>2. QED
      BY <1>2, <3>1 DEF InitItems
  <2>5. c2s' = said /\ s2c' = Tail(s2c)
    <3>1. Counted("extra", TextLength) = <<Plain("extra")>>
      BY ShortPlain
    <3>2. <<Of("clientInit", extraNew)>> \in Seq(Item)
      BY <1>2, Items
    <3>3. c2s' = c2s \o ((<<>> \o <<Of("clientInit", extraNew)>>)
                        \o IF extraNew THEN <<Plain("extra")>> ELSE <<>>)
      BY <2>1, <3>1, Zenon DEF ClientInit, Writes
    <3>4. <<>> \o <<Of("clientInit", extraNew)>> = <<Of("clientInit", extraNew)>>
      BY <3>2, Appended
    <3>5. c2s' = <<>> \o said
      BY <2>3, <3>3, <3>4
    <3>6. QED
      BY <2>1, <2>4, <3>5, Appended DEF ClientInit, Writes
  <2>6. extraNew' \in BOOLEAN
    BY <2>1 DEF ClientInit
  <2>7. PICK at : at = "serverInit"
    OBVIOUS
  <2>8. client' = at /\ at \in Places /\ at # "version"
    BY <2>1, <2>7 DEF ClientInit, Places, ClientReads
  <2>9. server' = "clientInit"
    BY <1>1, <2>3 DEF serverVars
  <2>10. Agree(at)'
    BY <2>4, <2>5, <2>7, <2>9 DEF Agree, Unread
  <2>11. version' \in Nat \X Nat /\ version'[1] <= 3
    BY <1>1 DEF LoginTypeOK
  <2>12. c2s' \in Seq(Item)
    BY <2>4, <2>5
  <2>13. QED
    BY <1>1, <2>2, <2>5, <2>6, <2>8, <2>10, <2>11, <2>12, AnswerStep
<1>4. CASE i.val # "ok"
  <2>1. PICK at : ReadNext(at, <<>>, extraNew) /\ at = After(version, i)
    BY <1>1, <1>4, Values DEF ReadResult, After
  <2>2. c2s' = c2s /\ s2c' = Tail(s2c)
    BY <1>1, <2>1, Appended DEF ReadNext, Writes
  <2>3. client' = After(version, i) /\ ~Answered(i)
    BY <1>1, <1>4, <2>1 DEF ReadNext, Answered
  <2>4. extraNew' \in BOOLEAN
    BY <1>2, <2>1 DEF ReadNext
  <2>5. QED
    BY <1>1, <2>2, <2>3, <2>4, PassStep
<1>5. QED
  BY <1>3, <1>4

(* The last items, a reason or the server's initialisation, are not answered. *)
LEMMA ReadLastStep == ASSUME LoginInv, ReadReason \/ ReadServerInit PROVE LoginInv'
<1> DEFINE i == Head(s2c)
<1>1. PICK at : ReadNext(at, <<>>, extraNew) /\ at = After(version, i)
  BY DEF ReadReason, ReadServerInit, After, Gets
<1>2. /\ client \in {"reason", "serverInit"} /\ s2c # <<>> /\ i.is = client
      /\ c2s \in Seq(Item) /\ version' = version /\ UNCHANGED serverVars /\ client \in ClientReads
  BY DEF ReadReason, ReadServerInit, Gets, LoginInv, LoginTypeOK, ClientReads
<1>3. c2s' = c2s /\ s2c' = Tail(s2c)
  BY <1>1, <1>2, Appended DEF ReadNext, Writes
<1>4. client' = After(version, i) /\ ~Answered(i)
  BY <1>1, <1>2 DEF ReadNext, Answered
<1>5. extraNew' \in BOOLEAN
  BY <1>1 DEF ReadNext, LoginInv, LoginTypeOK
<1>6. QED
  BY <1>2, <1>3, <1>4, <1>5, PassStep

(* Every step of the client keeps the dialogue. *)
LEMMA ClientStep == ASSUME TextsFit, LoginInv, Client PROVE LoginInv'
<1>1. ASSUME ReadFails PROVE LoginInv'
  <2>1. s2c' \in Seq(Item) /\ extraNew' \in BOOLEAN /\ client' = "failed"
    BY <1>1 DEF ReadFails, Fails, LoginInv, LoginTypeOK
  <2>2. c2s' = c2s /\ version' = version /\ UNCHANGED serverVars
    BY <1>1 DEF ReadFails
  <2>3. QED
    BY <2>1, <2>2, GivesUp
<1>2. QED
  BY <1>1, ReadVersionStep, ReadListStep, ReadSchemeStep, ReadChallengeStep, ReadResultStep, ReadLastStep
  DEF Client

-----------------------------------------------------------------------------
(* The server's steps.  What it takes is what it waits for. *)
LEMMA Taken ==
  ASSUME LoginInv, server # "closed", c2s # <<>>
  PROVE  Unread /\ \A i \in Item : ~Awaited(i)
  BY DEF LoginInv, Awaited

(* A step of the server that takes what it waited for and sends nothing. *)
LEMMA SilentStep ==
  ASSUME LoginInv, LoginTypeOK', UNCHANGED <<version, client, s2c>>,
         \A i \in Item : Answered(i) /\ Awaited(i) => Awaited(i)',
         \A at \in Places : Agree(at) => server' = "closed" \/ Agree(at)',
         server # "closed", server' = "closed" \/ c2s' = <<>> \/ Unread'
  PROVE  LoginInv'
  BY Silent DEF LoginInv

(* The server's version is the first item there is. *)
LEMMA AnnounceStep == ASSUME LoginInv, Announce PROVE LoginInv'
<1>1. PICK v \in Versions : Sends(<<Of("version", v)>>)
  BY DEF Announce
<1>2. PICK x : x = Of("version", v)
  OBVIOUS
<1>3. x \in Item /\ x.is = "version" /\ Answered(x)
  <2>1. v \in Nat \X Nat
    BY LoginAssumption
  <2>2. QED
    BY <1>2, <2>1, Items DEF Answered
<1>4. /\ server = "start" /\ c2s = <<>> /\ s2c \in Seq(Item)
      /\ UNCHANGED <<version, client, agreed, offer, scheme, c2s, extraNew>> /\ server' = "version"
  BY <1>1 DEF LoginInv, LoginTypeOK, Unread, Announce, Sends
<1>5. s2c' = Append(s2c, x)
  BY <1>1, <1>2, <1>3, <1>4, Appended DEF Sends
<1>6. \A i \in Item : Answered(i) => ~Awaited(i)
  BY <1>4 DEF Awaited, Answered
<1>7. \A at \in Places : Agree(at) => at = x.is
  BY <1>3, <1>4 DEF Agree
<1>8. Awaited(x)'
  BY <1>3, <1>4 DEF Awaited
<1>9. DialogInv'
  BY <1>3, <1>4, <1>5, <1>6, <1>7, <1>8, One
<1>10. LoginTypeOK'
  BY <1>3, <1>4, <1>5, AppendProperties DEF LoginInv, LoginTypeOK, ServerReads
<1>11. QED
  BY <1>4, <1>9, <1>10 DEF LoginInv

(* The client's version: both sides know the one agreed on. *)
LEMMA TakeVersionStep == ASSUME LoginInv, TakeVersion PROVE LoginInv'
<1>1. /\ server = "version" /\ c2s # <<>> /\ c2s \in Seq(Item) /\ s2c \in Seq(Item)
      /\ c2s' = Tail(c2s) /\ agreed' = Head(c2s).val /\ server' = "offer"
      /\ UNCHANGED <<version, client, offer, scheme, extraNew>>
  BY DEF TakeVersion, Takes, Asked, Sends, LoginInv, LoginTypeOK
<1>2. s2c' = s2c
  BY <1>1, Appended DEF TakeVersion, Sends
<1>3. Unread /\ \A i \in Item : ~Awaited(i)
  BY <1>1, Taken
<1>4. c2s = <<Of("version", version)>> /\ version \in Nat \X Nat
  BY <1>1, <1>3 DEF Unread, LoginInv, LoginTypeOK
<1>5. agreed' = version /\ c2s' = <<>>
  <2>1. Of("version", version) \in Item
    BY <1>4, Items
  <2>2. Head(c2s) = Of("version", version) /\ Tail(c2s) = <<>>
    BY <1>4, <2>1
  <2>3. QED
    BY <1>1, <2>2, Items
<1>6. client # "version"
  <2>1. SUFFICES ASSUME client = "version" PROVE FALSE
    OBVIOUS
  <2>2. client \in ClientReads
    BY <2>1 DEF ClientReads
  <2>3. CASE s2c = <<>>
    BY <1>1, <2>1, <2>2, <2>3, Meets DEF Agree, AuthBegins
  <2>4. CASE s2c # <<>>
    <3>1. Head(s2c).is = "version" /\ Head(s2c) \in Item
      BY <1>1, <2>1, <2>2, <2>4, Meets, HeadTailProperties
    <3>2. Awaited(Head(s2c))
      BY <2>1, <2>2, <2>4, <3>1, Answer DEF Answered
    <3>3. QED
      BY <1>3, <3>1, <3>2
  <2>5. QED
    BY <2>3, <2>4
<1>7. \A at \in Places : Agree(at) => Agree(at)'
  BY <1>1, <1>5 DEF Agree, Unread
<1>8. LoginTypeOK'
  BY <1>1, <1>2, <1>5, <1>6, EmptySeq DEF LoginInv, LoginTypeOK, ServerReads
<1>9. QED
  BY <1>1, <1>2, <1>3, <1>5, <1>7, <1>8, SilentStep

(* The security types on offer, or none and the reason; or, before 3.7, the one
   the server has chosen. *)
LEMMA OfferStep == ASSUME LoginInv, Offer PROVE LoginInv'
<1>1. PICK o \in Offers :
       /\ offer' = o
       /\ \/ Modern /\ o # {} /\ server' = "choice" /\ Sends(<<Of("list", o)>>) /\ UNCHANGED scheme
          \/ Modern /\ o = {} /\ server' = "closed" /\ UNCHANGED scheme
             /\ Sends(<<Of("list", {}), Plain("reason")>>)
          \/ \E a \in o : /\ ~Modern /\ a # "ClientInitExtraMsgSupportNew"
                          /\ scheme' = a /\ server' = "ask" /\ Sends(<<Of("scheme", a)>>)
          \/ ~Modern /\ o = {} /\ scheme' = "ConnFailed" /\ server' = "closed"
             /\ Sends(<<Of("scheme", "ConnFailed"), Plain("reason")>>)
  BY DEF Offer
<1>2. /\ server = "offer" /\ c2s = <<>> /\ s2c \in Seq(Item) /\ LoginTypeOK /\ agreed = version
      /\ UNCHANGED <<version, client, agreed, c2s, extraNew>>
      /\ o \in SUBSET Schemes
  BY <1>1, LoginAssumption DEF LoginInv, LoginTypeOK, Unread, Offer, Sends
<1>3. \A i \in Item : Answered(i) => ~Awaited(i)
  BY <1>2 DEF Awaited, Answered
<1>4. \A at \in Places : Agree(at) => at = AuthBegins(version)
  BY <1>2 DEF Agree
<1>5. ASSUME s2c' \in Seq(Item), scheme' \in Security, server' \in DOMAIN ServerReads
      PROVE  LoginTypeOK'
  BY <1>1, <1>2, <1>5 DEF LoginTypeOK
<1>6. \A k \in {"choice", "closed", "ask"} : k \in DOMAIN ServerReads
  BY DEF ServerReads
<1>7. ASSUME Modern, o # {}, server' = "choice", Sends(<<Of("list", o)>>), UNCHANGED scheme
      PROVE  LoginInv'
  <2>1. PICK x : x = Of("list", o)
    OBVIOUS
  <2>2. x \in Item /\ x.is = "list" /\ x.val = o /\ Answered(x)
    BY <1>2, <1>7, <2>1, Items DEF Answered
  <2>3. s2c' = Append(s2c, x)
    BY <1>2, <1>7, <2>1, <2>2, Appended DEF Sends
  <2>4. \A at \in Places : Agree(at) => at = x.is
    BY <1>2, <1>4, <1>7, <2>2, SameVersion
  <2>5. Awaited(x)'
    BY <1>1, <1>2, <1>7, <2>2 DEF Awaited
  <2>6. DialogInv'
    BY <1>2, <1>3, <2>2, <2>3, <2>4, <2>5, One
  <2>7. LoginTypeOK'
    BY <1>2, <1>5, <1>6, <1>7, <2>2, <2>3, AppendProperties DEF LoginTypeOK
  <2>8. QED
    BY <1>2, <2>6, <2>7 DEF LoginInv
<1>8. ASSUME Modern, server' = "closed", UNCHANGED scheme, Sends(<<Of("list", {}), Plain("reason")>>)
      PROVE  LoginInv'
  <2>1. PICK x, y : x = Of("list", {}) /\ y = Plain("reason")
    OBVIOUS
  <2>2. /\ x \in Item /\ x.is = "list" /\ x.val = {} /\ ~Answered(x)
        /\ y \in Item /\ y.is = "reason" /\ ~Answered(y) /\ After(version, x) = y.is
    <3>1. x \in Item /\ x.is = "list" /\ x.val = {}
      <4>1. {} \in SUBSET Schemes
        OBVIOUS
      <4>2. QED
        BY <2>1, <4>1, Items
    <3>2. y \in Item /\ y.is = "reason"
      <4>1. y \in Item
        BY <2>1, Items
      <4>2. QED
        BY <2>1, Items DEF Plain
    <3>3. QED
      BY <3>1, <3>2 DEF Answered, After
  <2>3. s2c' = Append(Append(s2c, x), y)
    BY <1>2, <1>8, <2>1, <2>2, Appended DEF Sends
  <2>4. \A at \in Places : Agree(at) => at = x.is
    BY <1>2, <1>4, <1>8, <2>2, SameVersion
  <2>5. DialogInv'
    BY <1>2, <1>3, <1>8, <2>2, <2>3, <2>4, Two
  <2>6. LoginTypeOK'
    BY <1>2, <1>5, <1>6, <1>8, <2>2, <2>3, AppendProperties DEF LoginTypeOK
  <2>7. QED
    BY <1>2, <2>5, <2>6 DEF LoginInv
<1>9. ASSUME NEW a \in o, ~Modern, scheme' = a, server' = "ask", Sends(<<Of("scheme", a)>>)
      PROVE  LoginInv'
  <2>1. PICK x : x = Of("scheme", a)
    OBVIOUS
  <2>2. x \in Item /\ x.is = "scheme" /\ x.val = a /\ a \in Security
    BY <1>2, <2>1, Items DEF Security
  <2>3. s2c' = Append(s2c, x)
    BY <1>2, <1>9, <2>1, <2>2, Appended DEF Sends
  <2>4. \A at \in Places : Agree(at) => at = x.is
    BY <1>2, <1>4, <1>9, <2>2, SameVersion
  <2>5. Answered(x) => Awaited(x)'
    BY <1>2, <1>9, <2>2 DEF Awaited, Modern
  <2>6. ~Answered(x) => Agree(After(version, x))'
    <3>1. SUFFICES ASSUME ~Answered(x) PROVE Agree(After(version, x))'
      OBVIOUS
    <3>2. a \notin {"NoAuth", "ClientInitExtraMsgSupport"}
      BY <2>2, <3>1 DEF Answered
    <3>3. Begins(version', scheme', c2s') /\ After(version', x) = Began(version', scheme')
      BY <1>2, <1>9, <2>2, <3>2 DEF Begins, After
    <3>4. QED
      BY <1>9, <3>3 DEF Agree, Unread
  <2>7. DialogInv'
    BY <1>2, <1>3, <2>2, <2>3, <2>4, <2>5, <2>6, One
  <2>8. LoginTypeOK'
    BY <1>2, <1>5, <1>6, <1>9, <2>2, <2>3, AppendProperties
  <2>9. QED
    BY <1>2, <2>7, <2>8 DEF LoginInv
<1>10. ASSUME ~Modern, scheme' = "ConnFailed", server' = "closed",
              Sends(<<Of("scheme", "ConnFailed"), Plain("reason")>>)
       PROVE  LoginInv'
  <2>1. PICK x, y : x = Of("scheme", "ConnFailed") /\ y = Plain("reason")
    OBVIOUS
  <2>2. /\ x \in Item /\ x.is = "scheme" /\ x.val = "ConnFailed" /\ ~Answered(x)
        /\ y \in Item /\ y.is = "reason" /\ ~Answered(y) /\ After(version, x) = "failed"
    <3>1. x \in Item /\ x.is = "scheme" /\ x.val = "ConnFailed"
      <4>1. "ConnFailed" \in Security
        BY DEF Security
      <4>2. QED
        BY <2>1, <4>1, Items
    <3>2. y \in Item /\ y.is = "reason"
      <4>1. y \in Item
        BY <2>1, Items
      <4>2. QED
        BY <2>1, Items DEF Plain
    <3>3. QED
      BY <3>1, <3>2 DEF Answered, After, Began
  <2>3. s2c' = Append(Append(s2c, x), y)
    BY <1>2, <1>10, <2>1, <2>2, Appended DEF Sends
  <2>4. \A at \in Places : Agree(at) => at = x.is
    BY <1>2, <1>4, <1>10, <2>2, SameVersion
  <2>5. DialogInv'
    BY <1>2, <1>3, <1>10, <2>2, <2>3, <2>4, Two
  <2>6. LoginTypeOK'
    BY <1>2, <1>5, <1>6, <1>10, <2>2, <2>3, AppendProperties DEF Security
  <2>7. QED
    BY <1>2, <2>5, <2>6 DEF LoginInv
<1>11. QED
  BY <1>1, <1>7, <1>8, <1>9, <1>10

(* The client's choice. *)
LEMMA TakeChoiceStep == ASSUME LoginInv, TakeChoice PROVE LoginInv'
<1>1. /\ server = "choice" /\ c2s # <<>> /\ c2s \in Seq(Item) /\ s2c \in Seq(Item)
      /\ c2s' = Tail(c2s) /\ scheme' = Head(c2s).val
      /\ UNCHANGED <<version, client, offer, agreed, extraNew>>
  BY DEF TakeChoice, Takes, Asked, Sends, LoginInv, LoginTypeOK
<1>2. s2c' = s2c
  BY <1>1, Appended DEF TakeChoice, Sends
<1>3. Unread /\ \A i \in Item : ~Awaited(i)
  BY <1>1, Taken
<1>4. Head(c2s).is = "choice" /\ Begins(version, Head(c2s).val, Tail(c2s))
  BY <1>1, <1>3 DEF Unread
<1>5. scheme' \in Security
  BY <1>1, <1>4, Values, HeadTailProperties
<1>6. server' = "ask" \/ server' = "closed"
  BY DEF TakeChoice
<1>7. server' = "ask" => Unread'
  BY <1>1, <1>4 DEF Unread
<1>8. ASSUME NEW at \in Places, Agree(at), server' = "ask"
      PROVE  Agree(at)'
  <2>1. at = Began(version', scheme')
    BY <1>1, <1>8 DEF Agree
  <2>2. QED
    BY <1>7, <1>8, <2>1 DEF Agree
<1>9. LoginTypeOK'
  BY <1>1, <1>2, <1>5, <1>6, HeadTailProperties DEF LoginInv, LoginTypeOK, ServerReads
<1>10. QED
  BY <1>1, <1>2, <1>3, <1>6, <1>7, <1>8, <1>9, SilentStep

(* What the security type begins with: nothing, or a question. *)
LEMMA AskStep == ASSUME LoginInv, Ask PROVE LoginInv'
<1>1. /\ server = "ask" /\ c2s \in Seq(Item) /\ s2c \in Seq(Item) /\ agreed = version /\ scheme \in Security
      /\ UNCHANGED <<version, client, agreed, offer, scheme, c2s, extraNew>> /\ LoginTypeOK
  BY DEF Ask, Sends, LoginInv, LoginTypeOK
<1>2. c2s = <<>> \/ Begins(version, scheme, c2s)
  BY <1>1 DEF LoginInv, Unread
<1>3. \A at \in Places : Agree(at) => at = Began(version, scheme) /\ Begins(version, scheme, c2s)
  BY <1>1 DEF Agree, Unread
<1>4. ASSUME s2c' \in Seq(Item), server' \in DOMAIN ServerReads
      PROVE  LoginTypeOK'
  BY <1>1, <1>4 DEF LoginTypeOK
<1>5. \A k \in {"verdict", "clientInit", "response", "extra", "closed"} : k \in DOMAIN ServerReads
  BY DEF ServerReads
<1>6. CASE scheme = "NoAuth" /\ NoAuthHasResult(version)
  <2>1. server' = "verdict" /\ s2c' = s2c
    BY <1>1, <1>6, Appended, SameVersion DEF Ask, Sends
  <2>2. c2s = <<>> /\ Began(version, scheme) = "result"
    BY <1>2, <1>6 DEF Begins, Began
  <2>3. Unread' /\ \A at \in Places : Agree(at) => Agree(at)'
    BY <1>1, <1>3, <2>1, <2>2 DEF Unread, Agree
  <2>4. \A i \in Item : Answered(i) => ~Awaited(i)
    BY <1>1, <1>6, SameVersion DEF Awaited, Answered
  <2>5. LoginTypeOK'
    BY <1>1, <1>4, <1>5, <2>1
  <2>6. QED
    BY <1>1, <2>1, <2>3, <2>4, <2>5, SilentStep
<1>7. CASE scheme = "NoAuth" /\ ~NoAuthHasResult(version)
  <2>1. server' = "clientInit" /\ s2c' = s2c
    BY <1>1, <1>7, Appended, SameVersion DEF Ask, Sends
  <2>2. Began(version, scheme) = "serverInit" /\ (Begins(version, scheme, c2s) <=> InitItems(c2s))
    BY <1>7 DEF Begins, Began
  <2>3. InitItems(c2s) => Unread'
    BY <1>1, <2>1 DEF Unread
  <2>4. ASSUME NEW at \in Places, Agree(at) PROVE Agree(at)'
    BY <1>3, <2>1, <2>2, <2>3, <2>4 DEF Agree
  <2>5. ASSUME NEW i \in Item, Answered(i), Awaited(i) PROVE Awaited(i)'
    <3>1. i.is = "scheme" /\ i.val = "NoAuth" /\ ~Modern /\ c2s = <<>>
      BY <1>1, <1>7, <2>5 DEF Awaited, Answered
    <3>2. QED
      BY <1>1, <1>7, <2>1, <3>1 DEF Awaited, Modern
  <2>6. LoginTypeOK'
    BY <1>1, <1>4, <1>5, <2>1
  <2>7. c2s' = <<>> \/ Unread'
    BY <1>1, <1>2, <2>2, <2>3
  <2>8. QED
    BY <1>1, <2>1, <2>4, <2>5, <2>6, <2>7, SilentStep
<1>8. CASE scheme = "ClientInitExtraMsgSupport"
  <2>1. server' = "extra" /\ s2c' = s2c
    BY <1>1, <1>8, Appended DEF Ask, Sends
  <2>2. Began(version, scheme) = "result" /\ (Begins(version, scheme, c2s) <=> c2s = <<Plain("extra")>>)
    BY <1>8 DEF Begins, Began
  <2>3. c2s = <<Plain("extra")>> => Unread'
    BY <1>1, <2>1 DEF Unread
  <2>4. ASSUME NEW at \in Places, Agree(at) PROVE Agree(at)'
    BY <1>3, <2>1, <2>2, <2>3, <2>4 DEF Agree
  <2>5. ASSUME NEW i \in Item, Answered(i), Awaited(i) PROVE Awaited(i)'
    <3>1. i.is = "scheme" /\ i.val = scheme /\ ~Modern /\ c2s = <<>>
      BY <1>1, <1>8, <2>5 DEF Awaited, Answered
    <3>2. QED
      BY <1>1, <1>8, <2>1, <3>1 DEF Awaited, Modern
  <2>6. LoginTypeOK'
    BY <1>1, <1>4, <1>5, <2>1
  <2>7. c2s' = <<>> \/ Unread'
    BY <1>1, <1>2, <2>2, <2>3
  <2>8. QED
    BY <1>1, <2>1, <2>4, <2>5, <2>6, <2>7, SilentStep
<1>9. CASE scheme \in {"UltraVNC", "Tight"}
  <2>1. server' \in {"verdict", "closed"} /\ s2c' = s2c /\ (scheme = "UltraVNC" => server' = "verdict")
        /\ (scheme = "Tight" => server' = "closed")
    BY <1>1, <1>9, Appended DEF Ask, Sends
  <2>2. c2s = <<>> /\ (scheme = "UltraVNC" => Began(version, scheme) = "result")
    BY <1>2, <1>9 DEF Begins, Began
  <2>3. Unread'
    BY <1>1, <2>1, <2>2 DEF Unread
  <2>4. ASSUME NEW at \in Places, Agree(at), server' # "closed" PROVE Agree(at)'
    <3>1. server' = "verdict" /\ at = "result"
      BY <1>3, <1>9, <2>1, <2>2, <2>4
    <3>2. QED
      BY <2>3, <3>1 DEF Agree
  <2>5. \A i \in Item : Answered(i) => ~Awaited(i)
    BY <1>1, <1>9 DEF Awaited, Answered
  <2>6. LoginTypeOK'
    BY <1>1, <1>4, <1>5, <2>1
  <2>7. QED
    BY <1>1, <2>1, <2>3, <2>4, <2>5, <2>6, SilentStep
<1>10. CASE scheme \in Security \ {"NoAuth", "ClientInitExtraMsgSupport", "UltraVNC", "Tight"}
  <2>1. PICK k \in {"challenge", "params", "keys"} :
          /\ server' = "response" /\ Sends(<<Plain(k)>>)
          /\ scheme \in {"VncAuth", "UltraMSLogonII", "RSAAES_256", "RSAAESne_256", "RSAAES", "RSAAESne"}
             => k = Began(version, scheme)
    BY <1>10 DEF Ask, Began
  <2>2. PICK x : x = Plain(k)
    OBVIOUS
  <2>3. x \in Item /\ x.is = k /\ Answered(x)
    <3>1. Plain(k) \in Item /\ Plain(k).is = k
      BY Items DEF Plain
    <3>2. QED
      BY <2>2, <3>1 DEF Answered
  <2>4. s2c' = Append(s2c, x)
    BY <1>1, <2>1, <2>2, <2>3, Appended DEF Sends
  <2>5. c2s = <<>>
    BY <1>2, <1>10 DEF Begins
  <2>6. \A at \in Places : Agree(at) => at \in {"failed", x.is}
    <3>1. Began(version, scheme) \in {"failed", k}
      BY <1>10, <2>1 DEF Began, Security, Schemes
    <3>2. QED
      BY <1>3, <2>3, <3>1
  <2>7. Awaited(x)'
    BY <1>1, <2>1, <2>3, <2>5 DEF Awaited
  <2>8. \A i \in Item : Answered(i) => ~Awaited(i)
    BY <1>1, <1>10 DEF Awaited, Answered
  <2>9. DialogInv'
    BY <1>1, <2>3, <2>4, <2>6, <2>7, <2>8, One
  <2>10. LoginTypeOK'
    BY <1>1, <1>4, <1>5, <2>1, <2>3, <2>4, AppendProperties
  <2>11. QED
    BY <1>1, <2>5, <2>9, <2>10 DEF LoginInv
<1>11. QED
  BY <1>1, <1>6, <1>7, <1>8, <1>9, <1>10

(* The answer to a challenge, or the extra message. *)
LEMMA TakeResponseStep == ASSUME LoginInv, TakeResponse PROVE LoginInv'
<1>1. /\ server \in {"response", "extra"} /\ c2s # <<>> /\ c2s \in Seq(Item) /\ s2c \in Seq(Item)
      /\ c2s' = Tail(c2s) /\ server' = "verdict"
      /\ UNCHANGED <<version, client, offer, scheme, agreed, extraNew>>
  BY DEF TakeResponse, Takes, Sends, LoginInv, LoginTypeOK
<1>2. s2c' = s2c
  BY <1>1, Appended DEF TakeResponse, Sends
<1>3. Unread /\ \A i \in Item : ~Awaited(i)
  BY <1>1, Taken
<1>4. c2s' = <<>>
  <2>1. \A k \in {"response", "extra"} : Plain(k) \in Item
    BY Items
  <2>2. \A k \in {"response", "extra"} : Tail(<<Plain(k)>>) = <<>>
    BY <2>1, Appended
  <2>3. \E k \in {"response", "extra"} : c2s = <<Plain(k)>>
    BY <1>1, <1>3 DEF Unread
  <2>4. QED
    BY <1>1, <2>2, <2>3
<1>5. Unread'
  BY <1>1, <1>4 DEF Unread
<1>6. ASSUME NEW at \in Places, Agree(at) PROVE Agree(at)'
  <2>1. at = "result"
    BY <1>1, <1>6 DEF Agree
  <2>2. QED
    BY <1>1, <1>5, <2>1 DEF Agree
<1>7. LoginTypeOK'
  BY <1>1, <1>2, HeadTailProperties DEF LoginInv, LoginTypeOK, ServerReads
<1>8. QED
  BY <1>1, <1>2, <1>3, <1>5, <1>6, <1>7, SilentStep

(* The result, with a reason where the version has one; after which the server
   has closed, begins another round, or waits for the client's initialisation. *)
LEMMA VerdictStep == ASSUME LoginInv, Verdict PROVE LoginInv'
<1>1. /\ server = "verdict" /\ c2s = <<>> /\ s2c \in Seq(Item) /\ agreed = version
      /\ UNCHANGED <<version, client, agreed, offer, scheme, c2s, extraNew>> /\ LoginTypeOK
  BY DEF Verdict, Sends, LoginInv, LoginTypeOK, Unread
<1>2. \A i \in Item : Answered(i) => ~Awaited(i)
  BY <1>1 DEF Awaited, Answered
<1>3. \A at \in Places : Agree(at) => at = "result"
  BY <1>1 DEF Agree
<1>4. ASSUME s2c' \in Seq(Item), server' \in DOMAIN ServerReads
      PROVE  LoginTypeOK'
  BY <1>1, <1>4 DEF LoginTypeOK
<1>5. \A k \in {"clientInit", "offer", "closed"} : k \in DOMAIN ServerReads
  BY DEF ServerReads
<1>6. ASSUME NEW r \in {"ok", "continue", "tooMany", "failed"}, Sends(<<Of("result", r)>>),
             r = "ok" => server' = "clientInit", r = "continue" => server' = "offer",
             r \in {"tooMany", "failed"} => server' = "closed"
      PROVE  LoginInv'
  <2>1. PICK x : x = Of("result", r)
    OBVIOUS
  <2>2. x \in Item /\ x.is = "result" /\ x.val = r
    BY <2>1, Items
  <2>3. s2c' = Append(s2c, x)
    BY <1>1, <1>6, <2>1, <2>2, Appended DEF Sends
  <2>4. Answered(x) => r = "ok"
    BY <2>2 DEF Answered
  <2>5. Answered(x) => Awaited(x)'
    BY <1>1, <1>6, <2>2, <2>4 DEF Awaited
  <2>6. ~Answered(x) => server' = "closed" \/ Agree(After(version, x))'
    <3>1. SUFFICES ASSUME r = "continue" PROVE Agree(After(version, x))'
      BY <1>6, <2>2 DEF Answered
    <3>2. After(version', x) = AuthBegins(version') /\ server' = "offer" /\ c2s' = <<>>
      BY <1>1, <1>6, <2>2, <3>1 DEF After
    <3>3. QED
      BY <3>2 DEF Agree, Unread
  <2>7. \A at \in Places : Agree(at) => at \in {"failed", x.is}
    BY <1>3, <2>2
  <2>8. DialogInv'
    BY <1>1, <1>2, <2>2, <2>3, <2>5, <2>6, <2>7, One
  <2>9. server' \in DOMAIN ServerReads
    BY <1>5, <1>6
  <2>10. LoginTypeOK'
    BY <1>1, <1>4, <2>2, <2>3, <2>9, AppendProperties
  <2>11. QED
    BY <1>1, <2>8, <2>10 DEF LoginInv
<1>7. ASSUME SinceEight, server' = "closed", Sends(<<Of("result", "failed"), Plain("reason")>>)
      PROVE  LoginInv'
  <2>1. PICK x, y : x = Of("result", "failed") /\ y = Plain("reason")
    OBVIOUS
  <2>2. x \in Item /\ x.is = "result" /\ x.val = "failed"
    BY <2>1, Items
  <2>3. y \in Item /\ y.is = "reason"
    <3>1. y \in Item
      BY <2>1, Items
    <3>2. QED
      BY <2>1, Items DEF Plain
  <2>4. ~Answered(x) /\ ~Answered(y)
    BY <2>2, <2>3 DEF Answered
  <2>5. After(version, x) = y.is
    BY <1>1, <1>7, <2>2, <2>3, SameVersion DEF After
  <2>6. s2c' = Append(Append(s2c, x), y)
    BY <1>1, <1>7, <2>1, <2>2, <2>3, Appended DEF Sends
  <2>7. \A at \in Places : Agree(at) => at = x.is
    BY <1>3, <2>2
  <2>8. DialogInv'
    BY <1>1, <1>2, <1>7, <2>2, <2>3, <2>4, <2>5, <2>6, <2>7, Two
  <2>9. LoginTypeOK'
    BY <1>1, <1>4, <1>5, <1>7, <2>2, <2>3, <2>6, AppendProperties
  <2>10. QED
    BY <1>1, <2>8, <2>9 DEF LoginInv
<1>8. /\ <<Of("result", "failed")>> \o <<>> = <<Of("result", "failed")>>
      /\ <<Of("result", "failed")>> \o <<Plain("reason")>> = <<Of("result", "failed"), Plain("reason")>>
  <2>1. Of("result", "failed") \in Item /\ Plain("reason") \in Item
    BY Items
  <2>2. QED
    BY <2>1, Joined
<1>9. CASE server' = "clientInit" /\ Sends(<<Of("result", "ok")>>)
  BY <1>6, <1>9
<1>10. CASE server' = "offer" /\ Sends(<<Of("result", "continue")>>)
  BY <1>6, <1>10
<1>11. CASE server' = "closed" /\ Sends(<<Of("result", "tooMany")>>)
  BY <1>6, <1>11
<1>12. CASE /\ server' = "closed"
            /\ Sends(<<Of("result", "failed")>> \o IF SinceEight THEN <<Plain("reason")>> ELSE <<>>)
  BY <1>6, <1>7, <1>8, <1>12
<1>13. QED
  BY <1>9, <1>10, <1>11, <1>12 DEF Verdict

(* The client's initialisation, answered with the server's. *)
LEMMA TakeClientInitStep == ASSUME LoginInv, TakeClientInit PROVE LoginInv'
<1>1. /\ server \in {"clientInit", "clientExtra"} /\ c2s # <<>> /\ c2s \in Seq(Item) /\ s2c \in Seq(Item)
      /\ c2s' = Tail(c2s) /\ agreed = version /\ LoginTypeOK
      /\ UNCHANGED <<version, client, offer, scheme, agreed, extraNew>>
  BY DEF TakeClientInit, Takes, Sends, LoginInv, LoginTypeOK
<1>2. Unread /\ \A i \in Item : ~Awaited(i)
  BY <1>1, Taken
<1>3. ASSUME s2c' \in Seq(Item), server' \in {"clientExtra", "done"}
      PROVE  LoginTypeOK'
  BY <1>1, <1>3, HeadTailProperties DEF LoginTypeOK, ServerReads
<1>4. Plain("extra") \in Item /\ \A e \in BOOLEAN : Of("clientInit", e) \in Item /\ Of("clientInit", e).val = e
  BY Items
<1>5. CASE server = "clientInit" /\ Head(c2s).val
  <2>1. server' = "clientExtra" /\ s2c' = s2c
    BY <1>1, <1>5, Appended DEF TakeClientInit, Asked, Sends
  <2>2. c2s' = <<Plain("extra")>>
    <3>1. PICK e \in BOOLEAN : c2s = <<Of("clientInit", e)>> \o IF e THEN <<Plain("extra")>> ELSE <<>>
      BY <1>2, <1>5 DEF Unread, InitItems
    <3>2. Head(c2s) = Of("clientInit", e)
      BY <1>4, <3>1
    <3>3. e = TRUE
      BY <1>4, <1>5, <3>2
    <3>4. c2s = <<Of("clientInit", TRUE)>> \o <<Plain("extra")>>
      BY <3>1, <3>3
    <3>5. QED
      BY <1>1, <1>4, <3>4, Joined
  <2>3. Unread'
    BY <2>1, <2>2 DEF Unread
  <2>4. ASSUME NEW at \in Places, Agree(at) PROVE Agree(at)'
    <3>1. at = "serverInit"
      BY <1>1, <2>4 DEF Agree
    <3>2. QED
      BY <2>1, <2>3, <3>1 DEF Agree
  <2>5. LoginTypeOK'
    BY <1>1, <1>3, <2>1
  <2>6. QED
    BY <1>1, <1>2, <2>1, <2>3, <2>4, <2>5, SilentStep
<1>6. CASE server = "clientExtra" \/ ~Head(c2s).val
  <2>1. server' = "done" /\ Sends(<<Plain("serverInit")>>)
    BY <1>1, <1>6 DEF TakeClientInit, Asked
  <2>2. PICK x : x = Plain("serverInit")
    OBVIOUS
  <2>3. x \in Item /\ x.is = "serverInit"
    <3>1. x \in Item
      BY <2>2, Items
    <3>2. QED
      BY <2>2, Items DEF Plain
  <2>4. ~Answered(x)
    BY <2>3 DEF Answered
  <2>5. s2c' = Append(s2c, x)
    BY <1>1, <2>1, <2>2, <2>3, Appended DEF Sends
  <2>6. c2s' = <<>>
    <3>1. CASE server = "clientExtra"
      BY <1>1, <1>2, <1>4, <3>1 DEF Unread
    <3>2. CASE server = "clientInit" /\ ~Head(c2s).val
      <4>1. PICK e \in BOOLEAN : c2s = <<Of("clientInit", e)>> \o IF e THEN <<Plain("extra")>> ELSE <<>>
        BY <1>2, <3>2 DEF Unread, InitItems
      <4>2. Head(c2s) = Of("clientInit", e)
        BY <1>4, <4>1
      <4>3. e = FALSE
        BY <1>4, <3>2, <4>2
      <4>4. c2s = <<Of("clientInit", FALSE)>> \o <<>>
        BY <4>1, <4>3
      <4>5. QED
        BY <1>1, <1>4, <4>4
    <3>3. QED
      BY <1>1, <1>6, <3>1, <3>2
  <2>7. \A at \in Places : Agree(at) => at \in {"failed", x.is}
    BY <1>1, <2>3 DEF Agree
  <2>8. Agree(After(version, x))'
    <3>1. After(version', x) = "connected"
      BY <2>3 DEF After
    <3>2. QED
      BY <2>1, <2>6, <3>1 DEF Agree, Unread
  <2>9. DialogInv'
    BY <1>1, <1>2, <2>3, <2>4, <2>5, <2>7, <2>8, One
  <2>10. LoginTypeOK'
    BY <1>1, <1>3, <2>1, <2>3, <2>5, AppendProperties
  <2>11. QED
    BY <2>6, <2>9, <2>10 DEF LoginInv
<1>7. QED
  BY <1>1, <1>5, <1>6

(* The server closes, and sends nothing more. *)
LEMMA HangupStep == ASSUME LoginInv, Hangup PROVE LoginInv'
<1>1. /\ client = "failed" /\ server' = "closed" /\ s2c \in Seq(Item)
      /\ UNCHANGED <<version, client, agreed, offer, scheme, c2s, extraNew>>
  BY DEF Hangup, Sends, LoginInv, LoginTypeOK
<1>2. s2c' = s2c
  BY <1>1, Appended DEF Hangup, Sends
<1>3. LoginTypeOK'
  BY <1>1, <1>2 DEF LoginInv, LoginTypeOK, ServerReads
<1>4. DialogInv'
  BY <1>1 DEF DialogInv, ClientReads
<1>5. QED
  BY <1>1, <1>3, <1>4 DEF LoginInv

(* Every step of the server keeps the dialogue. *)
LEMMA ServerStep == ASSUME LoginInv, Server PROVE LoginInv'
BY AnnounceStep, TakeVersionStep, OfferStep, TakeChoiceStep, AskStep, TakeResponseStep, VerdictStep,
   TakeClientInitStep, HangupStep DEF Server

-----------------------------------------------------------------------------
(* It holds when nothing has been said. *)
LEMMA LoginBegins == Init => LoginInv
<1> SUFFICES ASSUME Init PROVE LoginInv
  OBVIOUS
<1>1. LoginTypeOK /\ c2s = <<>>
  <2>1. version \in Nat \X Nat /\ version[1] <= 3
    BY DEF Init
  <2>2. extraNew \in BOOLEAN /\ client \in Places
    BY DEF Init, Places, ClientReads
  <2>3. server \in DOMAIN ServerReads /\ server = "start"
    BY DEF Init, ServerReads
  <2>4. offer \subseteq Schemes /\ scheme \in Security
    BY DEF Init, Security
  <2>5. s2c \in Seq(Item) /\ c2s \in Seq(Item) /\ c2s = <<>>
    BY EmptySeq DEF Init
  <2>6. QED
    BY <2>1, <2>2, <2>3, <2>4, <2>5 DEF LoginTypeOK
<1> DEFINE w == [i \in 1 .. 1 |-> "version"]
<1>2. Len(s2c) = 0 /\ w \in [1 .. Len(s2c) + 1 -> Places] /\ w[1] = "version"
  BY EmptySeq DEF Init, Places, ClientReads
<1> HIDE DEF w
<1>3. Reading(version, w, s2c) /\ ~Ahead(w, s2c)
  BY <1>2 DEF Init, Reading, Ahead
<1>4. Agree("version") /\ w[Len(s2c) + 1] = "version"
  BY <1>1, <1>2 DEF Init, Agree, Unread
<1>5. Dialog(w)
  BY <1>2, <1>3, <1>4 DEF Init, Dialog
<1>6. QED
  BY <1>1, <1>2, <1>5 DEF LoginInv, DialogInv

(* The dialogue goes on as long as both sides stay. *)
THEOREM DialogGoesOn == TextsFit => (Spec => []LoginInv)
<1> SUFFICES ASSUME TextsFit PROVE Spec => []LoginInv
  OBVIOUS
<1>1. LoginInv /\ [Next]_vars => LoginInv'
  <2> SUFFICES ASSUME LoginInv, [Next]_vars PROVE LoginInv'
    OBVIOUS
  <2>1. CASE UNCHANGED vars
    BY <2>1 DEF vars, LoginInv, LoginTypeOK, DialogInv, Dialog, Awaited, Agree, Unread, Modern
  <2>2. QED
    BY <2>1, ClientStep, ServerStep DEF Next
<1>2. QED
  BY <1>1, LoginBegins, PTL DEF Spec

(* Whatever the versions, the security types on offer and the number of        *)
(* rounds: what arrives is what the other side is about to read.               *)
THEOREM WhatArrivesIsRead == TextsFit => (Spec => []InStep)
<1> SUFFICES ASSUME TextsFit PROVE Spec => []InStep
  OBVIOUS
<1>1. LoginInv => InStep
  <2> SUFFICES ASSUME LoginInv PROVE InStep
    OBVIOUS
  <2>1. client \in ClientReads /\ s2c # <<>> => Head(s2c).is = client
    BY Meets
  <2>2. ASSUME c2s # <<>>, ServerReads[server] # {}
        PROVE  Head(c2s).is \in ServerReads[server]
    <3>1. server \notin {"closed", "start", "offer", "ask", "verdict"} /\ server \in DOMAIN ServerReads
      BY <2>2 DEF ServerReads, LoginInv, LoginTypeOK
    <3>2. Unread
      BY <2>2, <3>1, Taken
    <3>3. CASE server = "version"
      BY <3>2, <3>3, Items DEF Unread, ServerReads
    <3>4. CASE server = "choice"
      BY <3>2, <3>4 DEF Unread, ServerReads
    <3>5. CASE server \in {"response", "extra", "clientExtra"}
      <4>1. \E k \in ServerReads[server] : c2s = <<Plain(k)>> /\ k \in {"response", "extra"}
        BY <3>2, <3>5 DEF Unread, ServerReads
      <4>2. \A k \in {"response", "extra"} : Head(<<Plain(k)>>) = Plain(k) /\ Plain(k).is = k
        <5>1. \A k \in {"response", "extra"} : Plain(k) \in Item
          BY Items
        <5>2. \A k \in {"response", "extra"} : Plain(k).is = k
          BY Items DEF Plain
        <5>3. QED
          BY <5>1, <5>2, Appended
      <4>3. QED
        BY <4>1, <4>2
    <3>6. CASE server = "clientInit"
      <4>1. PICK e \in BOOLEAN : c2s = <<Of("clientInit", e)>> \o IF e THEN <<Plain("extra")>> ELSE <<>>
        BY <3>2, <3>6 DEF Unread, InitItems
      <4>2. Of("clientInit", e) \in Item /\ Plain("extra") \in Item /\ Of("clientInit", e).is = "clientInit"
        BY Items
      <4>3. Head(c2s) = Of("clientInit", e)
        BY <4>1, <4>2
      <4>4. QED
        BY <3>6, <4>2, <4>3 DEF ServerReads
    <3>7. CASE server = "done"
      BY <2>2, <3>2, <3>7 DEF Unread
    <3>8. QED
      BY <3>1, <3>3, <3>4, <3>5, <3>6, <3>7 DEF ServerReads
  <2>3. QED
    BY <2>1, <2>2 DEF InStep
<1>2. Spec => []LoginInv
  BY DialogGoesOn
<1>3. QED
  BY <1>1, <1>2, PTL
=============================================================================
