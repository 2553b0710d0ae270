------------------------------- MODULE RfbLogin -------------------------------
(***************************************************************************)
(* async_handshake, async_authenticate and async_client_init against a     *)
(* server that follows the RFB protocol in the version agreed on.          *)
(*                                                                         *)
(* The stream has no framing of its own: what the next bytes are is a      *)
(* matter of what both sides think was said before them.  An item is what  *)
(* one side writes for the other to read as a whole; a client action is    *)
(* one read with all that follows it up to the next read.                  *)
(***************************************************************************)
EXTENDS Naturals, Sequences, SequencesExt

CONSTANTS
  Versions,       \* the versions a server may announce, as <<major, minor>>
  Offers,         \* the sets of security types it may offer
  TextLength,     \* length of the notification text of the extra message
  PasswordLength, \* length of the password of the RSAAES types
  MaxContinue     \* bound: how often it asks for another round (rfbVncAuthContinue)

Schemes == {"NoAuth", "VncAuth", "UltraVNC", "UltraMSLogonII", "RSAAES_256", "RSAAESne_256",
            "RSAAES", "RSAAESne", "ClientInitExtraMsgSupport", "ClientInitExtraMsgSupportNew", "Tight"}

ASSUME LoginAssumption ==
  /\ Versions \subseteq Nat \X Nat
  /\ Offers \subseteq SUBSET Schemes
  /\ TextLength \in Nat /\ PasswordLength \in Nat /\ MaxContinue \in Nat

VARIABLES
  version,     \* <<major_, minor_>>
  supported,   \* supported_messages_: the base set, UltraVNC's, or TightVNC's
  extraNew,    \* brfbClientInitExtraMsgSupportNew_
  client,      \* the item the client reads next, or how the login ended
  server,      \* what the server waits for or does next
  agreed,      \* the version the server has read
  offer,       \* what it offered last
  scheme,      \* the security type in use, as the server sees it
  rounds,      \* how often it has asked for another round
  s2c, c2s     \* the items under way

vars == <<version, supported, extraNew, client, server, agreed, offer, scheme, rounds, s2c, c2s>>
serverVars == <<server, agreed, offer, scheme, rounds>>

ClientReads == {"version", "list", "scheme", "reason", "challenge", "params", "keys", "result", "serverInit"}

Init ==
  /\ version = <<3, 8>> /\ supported = "base" /\ extraNew = FALSE /\ client = "version"
  /\ server = "start" /\ agreed = <<3, 8>> /\ offer = {} /\ scheme = "ConnFailed" /\ rounds = 0
  /\ s2c = <<>> /\ c2s = <<>>

Of(kind, v) == [is |-> kind, val |-> v]
Plain(kind) == Of(kind, TRUE)

(* A text of n bytes after a length of one byte: beyond 255 the length is cut,
   and the reader leaves as many bytes unread as it does not know of. *)
Counted(kind, n) ==
  <<Plain(kind)>> \o IF n % 256 < n THEN <<Plain("stray")>> ELSE <<>>

-----------------------------------------------------------------------------
(* The version the client answers with: UltraVNC Single Click's 14 and 16 are
   4 and 6, and there is nothing above 3.8. *)
Negotiated(v) ==
  IF v \in {<<3, 14>>, <<3, 16>>} THEN <<3, v[2] - 10>>
  ELSE IF v[1] > 3 \/ (v[1] = 3 /\ v[2] > 8) THEN <<3, 8>> ELSE v

SupportedBy(v) ==
  CASE v \in {<<3, 4>>, <<3, 6>>, <<3, 14>>, <<3, 16>>} -> "ultra"
    [] v = <<3, 5>> -> "tight"
    [] OTHER -> "base"

(* select_auth_scheme: the first of these that is offered; failing that, what
   the delegate answers, offered or not, or nothing. *)
Preferred == <<"UltraVNC", "RSAAES_256", "RSAAESne_256", "RSAAES", "RSAAESne", "ClientInitExtraMsgSupport">>

Selected(auths) ==
  LET offered == {i \in DOMAIN Preferred : Preferred[i] \in auths}
  IN IF offered # {} THEN {Preferred[i] : i \in {m \in offered : \A j \in offered : m <= j}}
     ELSE {"NoAuth", "VncAuth", "UltraMSLogonII", "ConnFailed"}

(* The client writes these items; what it has read is gone. *)
Writes(items) == c2s' = c2s \o items /\ s2c' = Tail(s2c)

Gets(kind) == client = kind /\ s2c # <<>> /\ Head(s2c).is = kind

Fails ==
  /\ client' = "failed"
  /\ UNCHANGED <<supported, extraNew>>

(* Mutant: the list of security types is expected of a 3.6 server too. *)
AuthBegins_From6(v) == IF v[1] = 3 /\ v[2] > 5 THEN "list" ELSE "scheme"

(* Where async_authenticate begins, for the version v. *)
AuthBegins(v) == IF v[1] = 3 /\ v[2] > 6 THEN "list" ELSE "scheme"

(* async_client_init, after items that are still to be written. *)
ClientInit(items, extra) ==
  /\ client' = "serverInit"
  /\ Writes(items \o <<Of("clientInit", extra)>> \o IF extra THEN Counted("extra", TextLength) ELSE <<>>)
  /\ extraNew' = FALSE

ReadNext(kind, items, extra) ==
  /\ client' = kind /\ Writes(items)
  /\ extraNew' = extra

(* Mutant: it is expected of 3.7 as well. *)
NoAuthHasResult_From7(v) == (v[1] = 3 /\ v[2] > 6) \/ v[1] > 3

(* The security result follows NoAuth from 3.8 on. *)
NoAuthHasResult(v) == (v[1] = 3 /\ v[2] > 7) \/ v[1] > 3

(* The handler of security type a runs up to its first read. *)
Handler(a, items, extra) ==
  \/ /\ a = "NoAuth"
     /\ IF NoAuthHasResult(version) THEN ReadNext("result", items, extra) ELSE ClientInit(items, extra)
     /\ UNCHANGED supported
  \/ a = "VncAuth" /\ ReadNext("challenge", items, extra) /\ UNCHANGED supported
  \/ a = "UltraVNC" /\ ReadNext("result", items, extra) /\ supported' = "ultra"
  \/ a = "UltraMSLogonII" /\ ReadNext("params", items, extra) /\ UNCHANGED supported
  \/ /\ a = "ClientInitExtraMsgSupport"
     /\ ReadNext("result", items \o Counted("extra", TextLength), extra) /\ UNCHANGED supported
  \/ /\ a \in {"RSAAES_256", "RSAAESne_256", "RSAAES", "RSAAESne"}
     /\ ReadNext("keys", items, extra) /\ UNCHANGED supported
  \/ /\ a \in {"ConnFailed", "Tight", "ClientInitExtraMsgSupportNew"}   \* no handler is registered
     /\ ReadNext("failed", items, extra) /\ UNCHANGED supported

-----------------------------------------------------------------------------
ReadVersion ==
  /\ Gets("version")
  /\ version' = Negotiated(Head(s2c).val)
  /\ supported' = SupportedBy(Head(s2c).val)
  /\ client' = AuthBegins(version')
  /\ Writes(<<Of("version", version')>>)
  /\ UNCHANGED <<extraNew, serverVars>>

ReadList ==
  /\ Gets("list")
  /\ LET auths == Head(s2c).val
         extra == extraNew \/ "ClientInitExtraMsgSupportNew" \in auths
     IN IF auths = {} THEN ReadNext("reason", <<>>, extraNew) /\ UNCHANGED supported
        ELSE \E a \in Selected(auths \ {"ClientInitExtraMsgSupportNew"}) :
               Handler(a, <<Of("choice", a)>>, extra)
  /\ UNCHANGED <<version, serverVars>>

ReadScheme ==
  /\ Gets("scheme")
  /\ Handler(Head(s2c).val, <<>>, extraNew)
  /\ UNCHANGED <<version, serverVars>>

(* The challenge, the Diffie-Hellman parameters, or the server's key, each
   answered; RSAAES may find the key, the hash or the subtype wrong. *)
ReadChallenge ==
  /\ \/ \E kind \in {"challenge", "params"} :
          Gets(kind) /\ ReadNext("result", <<Plain("response")>>, extraNew)
     \/ Gets("keys") /\ ReadNext("result", Counted("response", PasswordLength), extraNew)
     \/ Gets("keys") /\ ReadNext("failed", <<>>, extraNew)
  /\ UNCHANGED <<version, supported, serverVars>>

ReadResult ==
  /\ Gets("result")
  /\ LET r == Head(s2c).val
     IN CASE r = "ok" -> ClientInit(<<>>, extraNew)
          [] r = "continue" -> ReadNext(AuthBegins(version), <<>>, extraNew)
          [] r = "failed" /\ version[1] = 3 /\ version[2] > 7 -> ReadNext("reason", <<>>, extraNew)
          [] OTHER -> ReadNext("failed", <<>>, extraNew)
  /\ UNCHANGED <<version, supported, serverVars>>

ReadReason ==
  /\ Gets("reason") /\ ReadNext("failed", <<>>, extraNew)
  /\ UNCHANGED <<version, supported, serverVars>>

ReadServerInit ==
  /\ Gets("serverInit") /\ ReadNext("connected", <<>>, extraNew)
  /\ UNCHANGED <<version, supported, serverVars>>

(* The server has closed the connection, or the client finds what it read
   refusable: a version it cannot parse, a reason or a name too long. *)
ReadFails ==
  /\ client \in ClientReads
  /\ \/ s2c = <<>> /\ server = "closed"
     \/ s2c # <<>> /\ Head(s2c).is \in {"version", "reason", "serverInit"}
  /\ Fails
  /\ UNCHANGED <<version, s2c, c2s, serverVars>>

Client ==
  \/ ReadVersion \/ ReadList \/ ReadScheme \/ ReadChallenge \/ ReadResult
  \/ ReadReason \/ ReadServerInit \/ ReadFails

-----------------------------------------------------------------------------
(* The server.  It goes by the version it has read. *)
Sends(items) == s2c' = s2c \o items /\ UNCHANGED <<version, supported, extraNew, client>>
Takes(kind) == c2s # <<>> /\ Head(c2s).is = kind /\ c2s' = Tail(c2s)
Asked == Head(c2s).val

Modern == agreed[1] = 3 /\ agreed[2] >= 7

(* From 3.8 on a result follows NoAuth too, and a reason a failure. *)
SinceEight == agreed[1] = 3 /\ agreed[2] >= 8

Announce ==
  /\ server = "start" /\ server' = "version"
  /\ \E v \in Versions : Sends(<<Of("version", v)>>)
  /\ UNCHANGED <<agreed, offer, scheme, rounds, c2s>>

TakeVersion ==
  /\ server = "version" /\ Takes("version")
  /\ agreed' = Asked /\ server' = "offer" /\ Sends(<<>>)
  /\ UNCHANGED <<offer, scheme, rounds>>

(* Up to 3.6 the server chooses; from 3.7 on it offers. *)
Offer ==
  /\ server = "offer"
  /\ \E o \in Offers :
       /\ offer' = o
       /\ \/ Modern /\ o # {} /\ server' = "choice" /\ Sends(<<Of("list", o)>>) /\ UNCHANGED scheme
          \/ Modern /\ o = {} /\ server' = "closed" /\ UNCHANGED scheme
             /\ Sends(<<Of("list", {}), Plain("reason")>>)
          \/ \E a \in o : /\ ~Modern /\ a # "ClientInitExtraMsgSupportNew"
                          /\ scheme' = a /\ server' = "ask" /\ Sends(<<Of("scheme", a)>>)
          \/ ~Modern /\ o = {} /\ scheme' = "ConnFailed" /\ server' = "closed"
             /\ Sends(<<Of("scheme", "ConnFailed"), Plain("reason")>>)
  /\ UNCHANGED <<agreed, rounds, c2s>>

TakeChoice ==
  /\ server = "choice" /\ Takes("choice")
  /\ scheme' = Asked
  /\ server' = IF Asked \in offer THEN "ask" ELSE "closed"
  /\ Sends(<<>>)
  /\ UNCHANGED <<agreed, offer, rounds>>

(* What the security type begins with. *)
Ask ==
  /\ server = "ask"
  /\ CASE scheme = "NoAuth" -> /\ server' = IF SinceEight THEN "verdict" ELSE "clientInit"
                               /\ Sends(<<>>)
       [] scheme = "VncAuth" -> server' = "response" /\ Sends(<<Plain("challenge")>>)
       [] scheme = "UltraMSLogonII" -> server' = "response" /\ Sends(<<Plain("params")>>)
       [] scheme = "UltraVNC" -> server' = "verdict" /\ Sends(<<>>)
       [] scheme = "ClientInitExtraMsgSupport" -> server' = "extra" /\ Sends(<<>>)
       [] scheme = "Tight" -> server' = "closed" /\ Sends(<<>>)
       [] OTHER -> server' = "response" /\ Sends(<<Plain("keys")>>)
  /\ UNCHANGED <<agreed, offer, scheme, rounds, c2s>>

TakeResponse ==
  /\ \/ server = "response" /\ Takes("response")
     \/ server = "extra" /\ Takes("extra")
  /\ server' = "verdict" /\ Sends(<<>>)
  /\ UNCHANGED <<agreed, offer, scheme, rounds>>

Verdict ==
  /\ server = "verdict"
  /\ \/ server' = "clientInit" /\ Sends(<<Of("result", "ok")>>) /\ UNCHANGED rounds
     \/ /\ rounds < MaxContinue /\ rounds' = rounds + 1
        /\ server' = "offer" /\ Sends(<<Of("result", "continue")>>)
     \/ server' = "closed" /\ Sends(<<Of("result", "tooMany")>>) /\ UNCHANGED rounds
     \/ /\ server' = "closed" /\ UNCHANGED rounds
        /\ Sends(<<Of("result", "failed")>> \o IF SinceEight THEN <<Plain("reason")>> ELSE <<>>)
  /\ UNCHANGED <<agreed, offer, scheme, c2s>>

TakeClientInit ==
  /\ \/ /\ server = "clientInit" /\ Takes("clientInit")
        /\ IF Asked THEN server' = "clientExtra" /\ Sends(<<>>)
           ELSE server' = "done" /\ Sends(<<Plain("serverInit")>>)
     \/ server = "clientExtra" /\ Takes("extra") /\ server' = "done" /\ Sends(<<Plain("serverInit")>>)
  /\ UNCHANGED <<agreed, offer, scheme, rounds>>

(* The client has closed the connection. *)
Hangup ==
  /\ client = "failed" /\ server \notin {"done", "closed"}
  /\ server' = "closed" /\ Sends(<<>>)
  /\ UNCHANGED <<agreed, offer, scheme, rounds, c2s>>

Server ==
  \/ Announce \/ TakeVersion \/ Offer \/ TakeChoice \/ Ask \/ TakeResponse
  \/ Verdict \/ TakeClientInit \/ Hangup

Next == Client \/ Server

Spec == Init /\ [][Next]_vars /\ WF_vars(Client) /\ WF_vars(Server)

-----------------------------------------------------------------------------
ServerReads ==
  [start |-> {}, version |-> {"version"}, offer |-> {}, choice |-> {"choice"}, ask |-> {},
   response |-> {"response"}, extra |-> {"extra"}, verdict |-> {}, clientInit |-> {"clientInit"},
   clientExtra |-> {"extra"}, done |-> {"message"}, closed |-> {}]

(* In every version, with every security type and every verdict, what arrives
   is what the other side is about to read: the reads and writes of the
   handlers agree with the protocol item by item. *)
InStep ==
  /\ client \in ClientReads /\ s2c # <<>> => Head(s2c).is = client
  /\ c2s # <<>> /\ ServerReads[server] # {} => Head(c2s).is \in ServerReads[server]

(* Neither side waits for the other for ever. *)
LoginEnds == <>(client \in {"connected", "failed"})
=============================================================================
