----------------------------- MODULE CryptoStream -----------------------------
(***************************************************************************)
(* Reading and writing through variant_stream while an aes_crypto_provider *)
(* is set, as AuthRSAAES sets it and may take it away again.               *)
(*                                                                         *)
(* The server's plaintext is numbered from 1, and sent in packages: a      *)
(* two-byte length, the data, the tag.  The socket hands over any non-empty *)
(* part of what has arrived, so a package may come in pieces or with the   *)
(* beginning of the next; the code keeps what it cannot use yet in two     *)
(* buffers, decrypt_buffer_ and read_remaining_buffer_.  The client's      *)
(* plaintext is numbered likewise; async_write hands it over in pieces,    *)
(* each of which encrypt() makes one package of or several.                *)
(***************************************************************************)
EXTENDS Integers, Sequences

CONSTANTS
  TagSize,      \* bytes of the tag at the end of a package
  HashSize,     \* bytes of the key hash
  PackageSizes, \* sizes of the packages the server sends after the login
  ReadSizes,    \* sizes of the client's reads after the login
  Subtypes,     \* what the server may ask for: "none", or "credentials"
  MaxBytes,     \* bound: bytes of plaintext the server sends
  MaxPackage,   \* the most bytes a package holds: uint16_max
  MaxTransfer,  \* the most bytes async_write hands over at a time
  CredentialSizes, \* the writes of the credentials, a length of one byte the first
  WriteSizes,   \* sizes of the client's writes after the login
  MaxWrites     \* bound: writes after the login

ASSUME SizesAssumption ==
  /\ TagSize \in Nat /\ HashSize \in Nat \ {0} /\ MaxBytes \in Nat
  /\ PackageSizes \subseteq Nat \ {0} /\ ReadSizes \subseteq Nat
  /\ Subtypes \subseteq {"none", "credentials"}
  /\ {MaxPackage, MaxTransfer} \subseteq Nat \ {0} /\ MaxWrites \in Nat
  /\ CredentialSizes \in Seq(Nat) /\ CredentialSizes # <<>> /\ Head(CredentialSizes) = 1
  /\ WriteSizes \subseteq Nat

LengthSize == 2      \* sizeof(uint16_t)

VARIABLES
  encrypted,  \* the stream stays encrypted after the login
  subtype,    \* the subtype the server has chosen
  server,     \* the step of the login the server has sent
  nsent,      \* bytes of plaintext sent
  npackage,   \* packages the server has sealed: its nonce
  wire,       \* bytes under way
  step,       \* the step of the login the client has finished
  provider,   \* provider_ is set
  counter,    \* dec_counter_
  decryptBuf, \* decrypt_buffer_
  remaining,  \* read_remaining_buffer_
  read,       \* the client's async_read: idle, active, refused by decrypt(), or reset
  want,       \* the bytes it still waits for
  got,        \* the plaintext the client has read
  writes,     \* bytes left of the write under way, and those that wait
  nwritten,   \* bytes of plaintext written
  encCount,   \* enc_counter_
  heard,      \* what the server has got, in packages or as it is
  queued      \* writes made since the login

readVars == <<counter, decryptBuf, remaining, read, want, got>>
writeVars == <<writes, nwritten, encCount, heard, queued>>
serverVars == <<encrypted, subtype, server, nsent, npackage>>
vars == <<serverVars, wire, step, provider, readVars, writeVars>>

ServerLogin == {"start", "hash", "subtype", "result"}

(* After the server's random both sides derive the keys; nothing encrypted
   has been sent, and the client begins by writing its hash. *)
Init ==
  /\ encrypted \in BOOLEAN /\ subtype \in Subtypes
  /\ server = "start" /\ step = "start"
  /\ nsent = 0 /\ npackage = 0 /\ wire = <<>>
  /\ provider = TRUE
  /\ counter = 0 /\ decryptBuf = <<>> /\ remaining = <<>>
  /\ read = "idle" /\ want = 0 /\ got = <<>>
  /\ writes = <<HashSize>> /\ nwritten = 0 /\ encCount = 0 /\ heard = <<>> /\ queued = 0

-----------------------------------------------------------------------------
(* The server seals the next n bytes in one package, or sends them as they are. *)
Package(n) ==
  [i \in 1 .. LengthSize + n + TagSize |->
     [package |-> npackage + 1, size |-> n, at |-> i,
      val |-> IF i \in LengthSize + 1 .. LengthSize + n THEN nsent + i - LengthSize ELSE 0]]

Plain(n) == [i \in 1 .. n |-> [package |-> 0, size |-> n, at |-> i, val |-> nsent + i]]

ServerSends(n, closed) ==
  /\ nsent' = nsent + n
  /\ wire' = wire \o IF closed THEN Package(n) ELSE Plain(n)
  /\ npackage' = IF closed THEN npackage + 1 ELSE npackage
  /\ UNCHANGED <<encrypted, subtype, step, provider, readVars, writeVars>>

(* The number of the last byte the server has got with the first i packages. *)
HeardUpTo(i) == IF i = 0 THEN 0 ELSE heard[i].vals[Len(heard[i].vals)]

CredentialsUpTo[i \in 0 .. Len(CredentialSizes)] ==
  IF i = 0 THEN 0 ELSE CredentialsUpTo[i - 1] + CredentialSizes[i]

LoginBytes == HashSize + IF subtype = "credentials" THEN CredentialsUpTo[Len(CredentialSizes)] ELSE 0

(* It waits for nothing before its hash and the subtype, and for the
   client's hash, and the credentials if it asks for them, before the result. *)
ServerHash == server = "start" /\ server' = "hash" /\ ServerSends(HashSize, TRUE)

ServerSubtype == server = "hash" /\ server' = "subtype" /\ ServerSends(1, TRUE)

ServerResult ==
  /\ server = "subtype"
  /\ HeardUpTo(Len(heard)) >= LoginBytes
  /\ server' = "result" /\ ServerSends(4, encrypted)

ServerData ==
  /\ server = "result"
  /\ \E n \in PackageSizes : nsent + n <= MaxBytes /\ ServerSends(n, encrypted)
  /\ UNCHANGED server

-----------------------------------------------------------------------------
(* decrypt(): the packages that are complete, opened one after another with
   the next nonce each; what follows them stays in decrypt_buffer_. *)
Complete(buf) ==
  Len(buf) >= LengthSize /\ Len(buf) >= LengthSize + Head(buf).size + TagSize

(* The tag is good when the bytes are one package, and the one whose nonce
   is due. *)
Genuine(buf, count) ==
  \A i \in 1 .. LengthSize + Head(buf).size + TagSize :
    buf[i].package = count + 1 /\ buf[i].at = i

(* One turn of decrypt()'s loop: count is the nonce due, out what it has opened. *)
Open(d) ==
  IF ~d.ok \/ ~Complete(d.buf) THEN d
  ELSE LET size == Head(d.buf).size
       IN [ok |-> Genuine(d.buf, d.count), count |-> d.count + 1,
           buf |-> SubSeq(d.buf, LengthSize + size + TagSize + 1, Len(d.buf)),
           out |-> IF Genuine(d.buf, d.count) THEN d.out \o [i \in 1 .. size |-> d.buf[LengthSize + i].val] ELSE d.out]

Begun(buf, count) == [ok |-> TRUE, buf |-> buf, count |-> count, out |-> <<>>]

(* Mutant: one package at a time. *)
Decrypt_OnePackage(buf, count) == Open(Begun(buf, count))

(* As many turns as there are packages of no data in buf are enough: those
   after the last complete one change nothing. *)
Decrypt(buf, count) ==
  LET turns == Len(buf) \div (LengthSize + TagSize)
      turn[n \in 0 .. turns] == IF n = 0 THEN Begun(buf, count) ELSE Open(turn[n - 1])
  IN turn[turns]

-----------------------------------------------------------------------------
(* The client reads n bytes with async_read, which asks async_read_some for
   what is left of them until it has them all.  A read of no bytes calls
   async_read_some too. *)
NextRead ==
  CASE step = "start" -> {HashSize}
    [] step = "hash" -> {1}
    [] step = "agreed" -> {4}
    [] step = "result" -> ReadSizes
    [] OTHER -> {}

StartRead ==
  /\ read = "idle" /\ Len(got) < MaxBytes
  /\ step = "start" => writes = <<>>
  /\ \E n \in NextRead : want' = n
  /\ read' = "active"
  /\ UNCHANGED <<serverVars, wire, step, provider, counter, decryptBuf, remaining, got, writeVars>>

StepAfter == [start |-> "hash", hash |-> "subtype", agreed |-> "result", result |-> "result"]

(* The completion handler has bytes for the read: it is complete, or asks
   for the rest. *)
Deliver(bytes) ==
  /\ got' = got \o bytes
  /\ want' = want - Len(bytes)
  /\ IF want' = 0
     THEN read' = "idle" /\ step' = StepAfter[step]
     ELSE UNCHANGED <<read, step>>

Least(a, b) == IF a < b THEN a ELSE b

(* What an earlier package left over is handed out first. *)
ReadRemaining ==
  /\ read = "active" /\ provider /\ remaining # <<>>
  /\ LET n == Least(want, Len(remaining))
     IN /\ Deliver(SubSeq(remaining, 1, n))
        /\ remaining' = SubSeq(remaining, n + 1, Len(remaining))
  /\ UNCHANGED <<serverVars, wire, provider, counter, decryptBuf, writeVars>>

(* Mutant: what the read has no room for is dropped. *)
ReadSealed_DropsRest(k) ==
  /\ read = "active" /\ provider /\ remaining = <<>>
  /\ k \in 1 .. Least(want, Len(wire))
  /\ wire' = SubSeq(wire, k + 1, Len(wire))
  /\ LET d == Decrypt(decryptBuf \o SubSeq(wire, 1, k), counter)
         n == Least(want, Len(d.out))
     IN /\ decryptBuf' = d.buf /\ counter' = d.count
        /\ IF ~d.ok
           THEN read' = "refused" /\ UNCHANGED <<step, want, got>>
           ELSE IF d.out = <<>>
           THEN UNCHANGED <<read, step, want, got>>
           ELSE Deliver(SubSeq(d.out, 1, n))
  /\ UNCHANGED <<serverVars, provider, remaining, writeVars>>

(* The ciphertext is read into the caller's buffer, so no more of it at a
   time than the read wants; when nothing comes out of it, the socket is read
   again.  A read of no bytes never gets anything out of it. *)
ReadSealed(k) ==
  /\ read = "active" /\ provider /\ remaining = <<>>
  /\ k \in 1 .. Least(want, Len(wire))
  /\ wire' = SubSeq(wire, k + 1, Len(wire))
  /\ LET d == Decrypt(decryptBuf \o SubSeq(wire, 1, k), counter)
         n == Least(want, Len(d.out))
     IN /\ decryptBuf' = d.buf /\ counter' = d.count
        /\ IF ~d.ok
           THEN read' = "refused" /\ UNCHANGED <<step, remaining, want, got>>
           ELSE IF d.out = <<>>
           THEN UNCHANGED <<read, step, remaining, want, got>>
           ELSE /\ Deliver(SubSeq(d.out, 1, n))
                /\ remaining' = SubSeq(d.out, n + 1, Len(d.out))
  /\ UNCHANGED <<serverVars, provider, writeVars>>

(* Without a provider the bytes are handed through; a read of no bytes is
   complete at once. *)
ReadPlain(k) ==
  /\ read = "active" /\ ~provider
  /\ k \in (IF want = 0 THEN 0 ELSE 1) .. Least(want, Len(wire))
  /\ wire' = SubSeq(wire, k + 1, Len(wire))
  /\ Deliver([i \in 1 .. k |-> wire[i].val])
  /\ UNCHANGED <<serverVars, provider, counter, decryptBuf, remaining, writeVars>>

(* The connection is cut: the read completes with the error. *)
ReadReset ==
  /\ read = "active" /\ wire = <<>>
  /\ read' = "reset"
  /\ UNCHANGED <<serverVars, wire, step, provider, counter, decryptBuf, remaining, want, got, writeVars>>

-----------------------------------------------------------------------------
(* encrypt(): no package holds more than its two-byte length can say, and
   each has a nonce of its own. *)
Pieces(bytes) == (Len(bytes) + MaxPackage - 1) \div MaxPackage

(* Mutant: one package, its length cut to two bytes. *)
Encrypt_OnePackage(bytes) ==
  IF bytes = <<>> THEN <<>> ELSE <<[nonce |-> encCount, size |-> Len(bytes) % (MaxPackage + 1), vals |-> bytes]>>

Encrypt(bytes) ==
  [i \in 1 .. Pieces(bytes) |->
     LET vals == SubSeq(bytes, (i - 1) * MaxPackage + 1, Least(i * MaxPackage, Len(bytes)))
     IN [nonce |-> encCount + i - 1, size |-> Len(vals), vals |-> vals]]

(* n bytes of the write under way are written, and async_write goes on with
   the rest of them. *)
Written(n) ==
  /\ nwritten' = nwritten + n
  /\ writes' = IF n = Head(writes) THEN Tail(writes) ELSE [writes EXCEPT ![1] = @ - n]
  /\ UNCHANGED <<serverVars, wire, step, provider, readVars, queued>>

NextBytes(n) == [i \in 1 .. n |-> nwritten + i]

(* With a provider the write is told that all it handed over is written, once
   the packages are. *)
WriteSealed ==
  /\ writes # <<>> /\ provider /\ read # "reset"
  /\ LET n == Least(Head(writes), MaxTransfer)
         packages == Encrypt(NextBytes(n))
     IN heard' = heard \o packages /\ encCount' = encCount + Len(packages) /\ Written(n)

(* Without one the socket takes any part of it. *)
WritePlain ==
  /\ writes # <<>> /\ ~provider /\ read # "reset"
  /\ \E n \in (IF Head(writes) = 0 THEN 0 ELSE 1) .. Least(Head(writes), MaxTransfer) :
       heard' = heard \o [i \in 1 .. n |-> [nonce |-> -1, size |-> 1, vals |-> <<nwritten + i>>]] /\ Written(n)
  /\ UNCHANGED encCount

(* The subtype is read: the client writes the credentials it asks for. *)
Credentials ==
  /\ step = "subtype" /\ read = "idle"
  /\ step' = "credentials"
  /\ writes' = IF subtype = "credentials" THEN CredentialSizes ELSE <<>>
  /\ UNCHANGED <<serverVars, wire, provider, readVars, nwritten, encCount, heard, queued>>

(* Mutant: the provider is kept whatever was agreed. *)
CredentialsWritten_KeepsProvider ==
  /\ step = "credentials" /\ writes = <<>>
  /\ step' = "agreed"
  /\ UNCHANGED <<serverVars, wire, provider, readVars, writeVars>>

(* They are written: the provider is dropped unless the stream stays
   encrypted. *)
CredentialsWritten ==
  /\ step = "credentials" /\ writes = <<>>
  /\ step' = "agreed"
  /\ provider' = encrypted
  /\ UNCHANGED <<serverVars, wire, readVars, writeVars>>

(* After the login there are reads and, from the queue, writes. *)
QueueWrite ==
  /\ step = "result" /\ queued < MaxWrites
  /\ \E n \in WriteSizes : writes' = Append(writes, n)
  /\ queued' = queued + 1
  /\ UNCHANGED <<serverVars, wire, step, provider, readVars, nwritten, encCount, heard>>

-----------------------------------------------------------------------------
Read == ReadRemaining \/ \E k \in 0 .. MaxBytes : ReadSealed(k) \/ ReadPlain(k)

Client == StartRead \/ Credentials \/ CredentialsWritten \/ Read

Write == WriteSealed \/ WritePlain

Next ==
  \/ ServerHash \/ ServerSubtype \/ ServerResult \/ ServerData
  \/ Client \/ Write \/ QueueWrite \/ ReadReset

(* The strand resumes the client, and a read whose bytes have arrived; the
   server's end takes what is written. *)
Spec == Init /\ [][Next]_vars /\ WF_vars(Client) /\ WF_vars(Write)

-----------------------------------------------------------------------------
(* The server's plaintext reaches the client in order, and every byte of it
   is with the client, in one of the two buffers it will still look at, or on
   the wire: none is skipped, repeated, or left in a buffer that dropping the
   provider puts out of reach; and no package of an honest server is taken for
   a forgery, the two nonces being in step. *)
NothingLost ==
  /\ read # "refused"
  /\ LET had == got \o IF provider THEN remaining ELSE <<>>
         coming == (IF provider THEN decryptBuf ELSE <<>>) \o wire
         data == {i \in 1 .. Len(coming) : coming[i].val # 0}
     IN /\ had = [i \in 1 .. Len(had) |-> i]
        /\ {coming[i].val : i \in data} = Len(had) + 1 .. nsent
        /\ \A i, j \in data : i < j => coming[i].val < coming[j].val

(* The server can open and put together what the client writes: all of it in
   order, in packages that are as long as they say and whose nonces are the
   next ones due, up to where the two have agreed to go on without. *)
WritesArrive ==
  /\ HeardUpTo(Len(heard)) = nwritten
  /\ \A i \in 1 .. Len(heard) :
       LET unit == heard[i]
       IN /\ unit.size = Len(unit.vals) /\ unit.vals # <<>>
          /\ unit.vals = [j \in 1 .. Len(unit.vals) |-> HeardUpTo(i - 1) + j]
          /\ unit.nonce = IF ~encrypted /\ HeardUpTo(i - 1) >= LoginBytes THEN -1 ELSE i - 1

(* A read of some bytes completes once the server has sent them all. *)
ReadCompletes ==
  (read = "active" /\ want > 0 /\ nsent >= Len(got) + want) ~> read # "active"

(* A login without a password succeeds: the client, which logs that it has,
   gets the result the server has sent it. *)
LoginCompletes == (server = "result" /\ read # "reset") ~> (step = "result" \/ read = "reset")
=============================================================================
