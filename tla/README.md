# libvnc-cpp in TLA+

libvnc-cpp is a VNC (RFB) client library: a `client` object connects to a
server, logs in, keeps a copy of the server's screen and tells the
application's `client_delegate` what happens. This directory holds TLA+ models
of it, the configurations that check them with TLC, and theorems about them
that TLAPS checks. Every definition that stands for code is listed with its
lines in `PROJECT.json` ("map"), every hazard with its line ("hazards").

## The system

| component | state | operations | modelled by |
|---|---|---|---|
| `client`, `client_impl::start/close/co_run` | `status_`, the members `close()` resets, the coroutine's position | start, stop, each phase of `co_run`, its failures and its end | `ClientSession`, `DelegateContract` |
| send queue | `send_que_`, `stream_`, the writer coroutine | `send_raw_data`, the writer's resumption, `close`, a new stream | `SendQueue` |
| handshake, authentication, initialisation | `major_`, `minor_`, `supported_messages_`, `brfbClientInitExtraMsgSupportNew_` | `async_handshake`, `async_authenticate` and its handlers, `async_client_init` | `RfbLogin` |
| encrypted stream | `provider_`, `decrypt_buffer_`, `read_remaining_buffer_`, the two counters | `variant_stream::async_read_some` and `async_write_some`, `aes_crypto_provider::decrypt` and `encrypt`, `AuthRSAAES` | `CryptoStream` |
| encodings asked for, what a connection is sent | the codecs' registry, `compress_level_`, `quality_level_`, `supported_messages_` | `apply_encodings`, the level setters, the login's direct writes beside the writer's, `send_scale_setting` | `Outgoing` |
| message loop and handlers | `client2server_`, the clipboard's capabilities, the keyboard's state, the monitors | `server_message_loop`, `on_rfb...`, the pseudo-encodings, `server_keepalive_loop` | `Messages` |
| delegate proxy | `handler_`, `mutex_` | `invoke`, `reset` | `DelegateProxy` |
| framebuffer updates | `frame_`'s size, requests and updates on their way | `on_rfbFramebufferUpdate`, `handle_resize_client_buffer`, requests | `UpdateFlow` |
| frame buffer | `width_`, `height_`, `data_` | `set_size`, `got_bitmap`, `copy_rect`, `fill_rect`, the loops over `data(x, y)` | `FrameBuffer` |
| codecs | six inflaters, the buffers of zlib, ZRLE and Tight, the cursor | `decode` of the codecs, `codec_manager::init` | `Rectangles` (what they read), `Pixels` (what they draw) |

How they interact. Everything runs on one strand: `co_run` and the handlers it
awaits, the writer coroutine, and what `dispatch` puts there. The application's
threads call `start`, `stop` and the send functions, which dispatch (or run at
once when the caller is a callback, that is, on the strand); they read
`status_`, `frame_` and `supported_messages_` directly, the last under a mutex,
and encode what they send before it is dispatched. The strand calls the
delegate through the proxy, under a shared lock. A codec draws on `frame_` and
calls `client_impl` back through `client_op`. `co_run`, the handlers and the
codecs read from `*stream_`; the handshake writes to it directly, everything
later goes through the queue.

What is hard about it:

* a run of `co_run` is suspended at each read, and `close()`, another run and
  the writer change `status_`, `stream_` and the members meanwhile;
* the queue outlives the connection, and whether a writer exists is inferred
  from it;
* RFB has no framing: one item too many or too few, in any of six generations
  of the login, in a message or in a codec, and all that follows is misread;
* deflaters and inflaters share a history over rectangles, resets and
  connections, and a codec what is left of a tile or a packet;
* the login writes to the socket the writer writes to, and what was queued for
  one connection is written to whichever `stream_` is there by then;
* the client and the server each wait for the other to ask or to answer;
* `~client` may run while a callback is being made.

What makes each component correct:

* session: the delegate hears of a run once and in order; a run that ends
  leaves a closed client; one run at a time; a dead connection ends its run;
* queue: one writer exactly while there is something to write, the buffer
  given to `async_write` stays alive, what a connection receives is contiguous
  and received by no other;
* login, messages, codecs: what is read next is what was sent next; whatever
  is said is told, once and in order; the login ends;
* encrypted stream: no byte is lost or waited for that has come, and what is
  written can be opened, in order, at the other end;
* what is sent: nothing among the login's bytes, no extension to a server
  that does not take it, and the last list of encodings is the last choice;
* proxy: no callback once `~client`'s reset has returned, and it returns;
* updates: never both waiting, and the picture becomes the screen;
* codecs and frame buffer: the pixels are those the server encoded, inside the
  vector.

## Modules

**SendQueue** is the specification of the queue by itself, under any use the
rest of the client may make of it. A message is a number; a writer is a record
of where its `async_write` is, on which stream and with which element.
`SendRawData`, `WriterResume`, `CloseStream` and `NewStream` are the code;
`Connected`, `PeerReset`, `WriteDone` and `WriteFail` are the network.
**SendQueueInv** strengthens its properties to an inductive invariant.

**ClientSession** extends SendQueue with the runs of `co_run`. `pc[r]` is the
place where run r is suspended, `op[r]` the operation it waits for and `on[r]`
that operation's stream, which need not be `stream_` any more. The
completions of different operations are resumed in any order; only what the
application dispatches is first in, first out. `Strand(r)` is what a
resumption executes up to the next suspension. A callback is a state of its
own (`callback`), in which `stop()` and sends run at once. Two abstractions are
implemented: the queue's specification (`SendSpec`, no renaming needed as the
module extends it), and **DelegateContract**, the promise of `client.h` to the
application, by `Contract == INSTANCE DelegateContract WITH Runs <- Runs, life
<- life`, where `life` maps a run's place and what it has told to the contract's
state.

**RfbLogin** is a dialogue of items: the client's reads and writes, and a server
that follows the version agreed on. `Handler` has the handlers of all security
types; the arithmetic of a challenge or a key is one item.

**CryptoStream** has the bytes of the encrypted stream. The socket hands over
any non-empty part of what has come. A write is handed over in pieces of
`MaxTransfer`, each of which `Encrypt` makes packages of up to `MaxPackage`.
`Open` is a turn of decrypt's loop, and `Decrypt` takes as many as the buffer can
need.

**Outgoing** puts the login's writes, the queue and the writer on the strand as
the queue it is: handlers that are ready run first in, first out, and
completions become ready some time after their operations. Its application
calls the client from one place, sends when it has read that the status is
connected, and starts again when it is told that the last run is over;
ClientSession has the applications that do not.

**DelegateProxy** counts the shared locks each thread holds: callbacks nest when
`stop()` in a callback makes `close()` call `on_status_changed`.
`WriterPreferred` is what the C++ standard leaves open, whether a waiting
`reset` keeps out a nested `lock_shared`. **Messages** extends it: it enters
and leaves the delegate by `Enter` and `Leave` only. A read
(`ReadCompletes`), the handler after it (`Handle`) and each callback (`Call`,
`Return`) are steps of their own, so that a stop, in a callback or
dispatched, and `~client` come between any two. `meant` is what the server has
said, `told` what the delegate has been told.

**Rectangles** has the reads of the eleven codecs as a plan, which what is read
adds to. Compressed data is a block that knows which stream it was deflated
with and how many blocks came before. **FrameBuffer** has the operations on the
vector, one row as a step, and states as `FrameSpec` what any use of them is.
**Pixels** extends it with the codecs: a server encodes rectangles of a picture
in thirteen ways, from the encodings' definitions, and `Decode` is what the
codecs make of them, as operations of the frame buffer; that each step is one
`FrameSpec` allows is checked and proved, so what is proved of the frame buffer
holds of the codecs' use of it. What the code does in a loop is a recursive
function whose arguments are the loop's turns (`TakeRuns`, `DecodeZrle`,
`ConvertInPlace`). **UpdateFlow** has the screen as a row of cells, with a
server that does the least a client may count on.

Modules whose name begins with MC hold what a configuration cannot express:
sets of versions, offers and rectangles, sequences, symmetry.

Order in which they were written, the most important first: SendQueue,
ClientSession and DelegateContract; CryptoStream; RfbLogin; FrameBuffer;
UpdateFlow; DelegateProxy and Messages; Rectangles; Pixels; Outgoing.

## Runs

| run | question and result |
|---|---|
| session_any | Two runs with `start`, `stop` and sends whenever the application likes: types, the contract, the queue's specification and its four guarantees hold, and when no run is alive the client is closed with no open connection. |
| session_live | The application starts again only when every run has ended: one run at a time, nothing of the last session left, `status_` climbs one phase at a time, a dead connection ends its run and empties the queue. |
| session_overlap (violation) | With `stop(); start()` two runs are in progress: see below. |
| crypto | A login with credentials and what follows: no byte lost, no package refused, no read waiting for bytes that have come, and what the client writes arrives, in packages the server can open. |
| crypto_none (violation) | A login without credentials loses the result: see below. |
| login | Twelve versions, every security type: in step, every login ends. |
| messages | Two messages of any kind: in step, the delegate told what was said, extensions used only when offered, `~client` returns and leaves the delegate alone. |
| rectangles | Eleven codecs in any order with resets, lost connections and reconnects: in step, inflaters in sync, buffers empty. |
| updates | Neither side waits for ever, no rectangle is too large for the frame, the picture becomes the screen. |
| pixels | Three rectangles by any of thirteen codecs, with resizes and cursors: the server's picture and cursor, but for gradients and sheared rows, which are left open; no byte outside the vector, each step one `FrameSpec` allows. |
| pixels_carry (violation) | A colour left out of a hextile is drawn as zeros: see below. |
| outgoing | Two connections, one after another, two calls of the application at any time: the login's bytes are not interrupted, the last list of encodings is the last choice, no extension reaches a server that does not take it. |

Bounds, and why they are enough. *Sessions*: two runs, one stop and one message
beyond those every run sends (three in session_live): what goes wrong between
runs goes wrong between two; queues reach three messages. *crypto*:
18 bytes, a tag of one and a hash of six bytes: packages of one, three and
more bytes are cut at every place, joined with the next, and two logins' worth
of buffers are carried over. The code's 65535 bytes a package and 65536 a
transfer are 6 and 7, so that a write of eight makes two transfers and the
first of them two packages; crypto_none uses the real sizes.
*login*: versions on both sides of every comparison in the code, texts and a
password of 255 bytes, the longest whose length fits its byte, two rounds of
authentication. *messages*: two messages, of which an update may have three
rectangles: every handler follows every other, and state one leaves is met by
the next. *rectangles*: sizes on both sides of the limit of twelve bytes in each
of Tight's three depths, lengths of one, two and three bytes, two of four
streams, two blocks between resets. *updates*: two changes, two
resizes, two sizes. *pixels*: tiles of 4 for Hextile's 16 and of 8 for ZRLE's 64,
255 in a run's length as 3; a rectangle of 9 by 3 has whole and narrower tiles
of both and rows that are no whole number of bytes; patterns of one, two, three
and all different colours make every kind of tile; the second rectangle meets
what the first has left, and a resize or a cursor fits between. *outgoing*: a
second connection to meet what the first left behind, two calls to be ordered
against each other and the login, one update to keep the loop busy; two frame
codecs and a pseudo-encoding; a level beyond the range. Bounds are constants
named Max..., or sets of values.

Deadlock is checked in rectangles, where a reconnect is always possible. The
other systems may stop: an application that starts nothing more, a login that has
ended, a server that has said all it may. What must not stop there is said by
properties: LoginEnds, ReadCompletes, AlwaysAsked, ResetReturns,
DeadConnectionEndsRun.

Every property has a mutant in the module, a plausible slip of the code (named
after the definition with a suffix), under which the run finds it violated.

## Fairness

* ClientSession: weak fairness of the strand (it resumes what is ready), of
  what is dispatched, of the writer, and of the failure of an operation on a
  socket that is closed or reset. Nothing of the application, the resolver, or a
  peer that is alive. The keepalive timer is not fair: no property needs it.
* CryptoStream: the client's reads go on while bytes are there, and its writes are
  taken by the server's end.
* RfbLogin: client and server both answer; what is shown is that neither waits
  for something the other does not send.
* UpdateFlow: the client reads, and the server takes requests and answers what
  was asked for and has changed; it need never change anything.
* Messages: the strand goes on, which includes that callbacks return (an
  application's callback that blocks for ever stops any strand), and `reset`
  gets a mutex that stays free. The server's messages are finite, so the
  mutex does come to stay free.

## What is proved

TLAPS checks these for all values of the constants.

* **ClientSessionProofs**, of the send queue: `SendSpec` implies OneWriter,
  BufferAlive, Contiguous and AtMostOnce. None is inductive. `SendInv` adds that queued messages are the
  last numbers pushed (`Numbered`), that a stream that is not `stream_` is
  destroyed or not made yet (`OthersGone`), that a writer whose stream has been
  replaced has not let anything through on the new one (`StaleWriter`), and
  that what a connection has received ends with the last message that has left
  the queue (`WireBounded`, `WireCurrent`). Without StaleWriter, a writer
  resumed after a reconnect could pop a message of the new connection. One lemma
  for each action.
* **ClientSessionProofs**, of the session: the types, with `StreamMade` (a run past the
  resolver finds `stream_` set); each step of a session is a step of SendQueue
  or leaves it alone, so `Spec => SendSpec`, and with it the queue's
  guarantees hold in every session; `Spec => KeepsContract` by the invariant
  `ToldInv`, that a run which has told nothing is alive or not accepted. Its
  second half is what the runs of a session are to one another, by three
  invariants. `LifeInv` says that until `stop()` is called there is at most one
  run alive, that `status_` is the one of its place and the members are reset
  when it begins (`Quiet`), and that afterwards, with an application that waits
  for the end of every run, a start is dispatched only when the others are
  over (`Calm`); `StopsCounted` ties a dispatched stop to the call. From these
  OneRunAtATime, FreshSession and StatusLadder. `HeldByRun` says that a status
  other than closed has a run alive, and that a closed client's open
  connection is one whose run has still to learn that it connected; from it
  NoOrphanConnection, for every application. `SendsHaveStream` gives
  NullStreamUnused for the application that reads the status first.
* **PixelsProofs**, of the frame buffer: types, BlockDrawn and InBounds of
  `FrameSpec`, for frames of any size and any operations. The invariant is `FrameTypeOK /\ JobOK /\
  RowsDrawn`: a job in progress has passed its guards, and the rows drawn have
  their pixels while the rest, and the source rows still to be copied, are as
  they were. `SourceIntact` is the fact about overlapping copies, by the
  direction `copy_rect` chooses; the products of rows and widths are two lemmas
  on offsets.
* **PixelsProofs**, of the codecs: TypeOK, `Spec => FrameSpec`, CursorDrawn, and
  PictureDrawn for the server that says the colours of every hextile (`Carries =
  FALSE`; with the other it is false, see below), for frames, rectangles and
  cursors of any size, any tiles, and patterns of up to 99 colours. Where it is not
  said what the server shows (Tight's gradients, and two-colour rows that are no
  whole number of bytes), the picture is unknown and nothing is claimed. For each
  encoding a lemma (`RRESent`, `HextileSent`, `ZrleSent`, ...) shows that what the codec
  makes of the server's data lies within the rectangle and that the last
  operation to cover a pixel puts there what the server shows. Below it, by
  the codecs' loops: packed rows are read back bit by bit (`Unpacked`), runs turn by
  turn until the tile is full, with what follows left for the next tile
  (`RunsTaken`), so that a ZRLE rectangle leaves nothing in the inflater; three bytes become
  four in place because the last pixel is moved first (`TurnConverts`);
  tiles cover a rectangle whose sides are no multiples of theirs. `PixelsInv` adds to the
  frame buffer's invariant that what is still to be drawn, the operations left or those
  the message will be decoded to (`Queue`), is in bounds (`QueueIn`) and leads
  from the screen as it will be when the operation under way is done (`Screen`)
  to the server's picture wherever that is known (`Known`). PictureDrawn alone
  is not inductive: it says nothing while a rectangle is half drawn.
* **MessagesProofs**: NoCallAfterReset with `ProxyTypeOK`, for any number of
  threads and either kind of mutex, and that every session is a behaviour of the
  proxy, hence the same of every session. TypeOK and UsesWhatIsOffered by
  `PromiseInv`: what the client knows the server takes, what it has just read
  and what is under way are all among what was announced, and a reader's count
  is what is left of an update or a list of screens. InStep and Delivered by
  `SyncInv`: reading what is pending, item by item, takes the reader to the next
  message's id and what was told to what was meant (`Aligned`); the state of
  each item's handler is one step of a path, so that handling an item shortens
  the path and sending a message lengthens it, updates with any number of
  rectangles and screens among them. `MessagesAssumption` says of the updates
  what the protocol does: LastRect comes last.
* **CryptoStreamProofs**: NothingLost and WritesArrive, for tags, hashes, packages,
  reads, credentials and writes of any sizes. `IInv` has three parts. `StepInv`
  says what each step of the login lets each side have sent, read and written.
  `ReadInv` says of what is on its way that, up to where the two go on without
  a provider, `decrypt_buffer_` and the wire together are whole packages but for
  what has been taken of the first, a `Chain` with the nonces from `dec_counter_` + 1
  to the server's and the bytes from what is read or left over to what is sent;
  that the buffer and what is left over are empty when the provider is
  dropped is why nothing goes with them. `DecryptSound` takes any part of
  a chain off its front: packages are opened in order, none refused, and
  what remains is a chain again. `WriteInv` says that the packages heard are the
  ones due, in nonce, length and bytes, and how much of the login is still to be
  written; `EncryptArrives` is the fact about one write of any length. The
  hypothesis `CredentialsAsked` is that the server does not choose the subtype
  without credentials: with it NothingLost is false (see below).
* **RfbLoginProofs**: InStep, for any versions, offers and number of rounds, by
  `LoginInv`: types, and `DialogInv`, that the items under way from the server
  take the client to the read at which the server's state expects it, and those
  from the client are what the server's state has still to read. The hypothesis
  `TextsFit` is that the two texts fit the byte their length is written in:
  beyond it the property is false (see below).
* **OutgoingProofs**: TypeOK, HandshakeAlone, NeverUnsupported and ChoiceKept,
  for any number of connections, calls and updates. `IInv` is what the strand's
  handlers, the run, the queue and the wires have to do with one another.
  `Orderly` says which handlers may be ready at once and in which order, above all
  that no writer whose write went well comes after a run that is about to begin
  a login; `HandlersOK` what holds while each of them waits its turn; `RunOK` that
  a connection is alive only in its run; `QueueOK` that a queue has a writer, on
  an older connection while a login is under way; `Doomed` that such a writer will
  clear the queue, which is why an extension queued for the last server never
  reaches the next (`CapsOK`) and why the queue it clears holds more than what it
  wrote (`ChoiceOK`). ChoiceKept follows from `Chosen = choice`: the last list,
  of those written, queued, ready to be sent and encoded, in this order, is the
  one computed last.
* **RectanglesProofs**: InStep and StreamsInSync, for any sizes, lengths, counts of
  subrectangles and streams, and any pixels that are a whole number of bytes.
  `RectInv` says, for each thing the codec may read next, what of the rectangle is
  still to come (`Comes`): items that add nothing to the plan and match it one by
  one (`Suits`), a count with its subrectangles, a length and its block, and for
  Tight the control byte, the filter, the palette's size, the palette, the bytes
  of a length that is partly read (`Sent`, by the digits of a number in base 128),
  and the data (`Final`). Where a block is still to be read, its deflater is ahead
  of the inflater by that block, and otherwise the two agree, which makes each
  reset take both to the same place. The server's half shows that each rectangle
  starts so, the client's that each read goes from one such state to another.
  The hypothesis `CountFits` is that no palette has 256 colours: with one the
  property is false (see below).
* **UpdateFlowProofs**: NeverTooLarge and AlwaysAsked, for screens of any sizes
  and any number of changes and resizes. `PathInv` says that there is a size for
  each message under way such that reading the messages takes the frame from its
  size through these, each rectangle within the size it meets, to the size the
  client was last told; `AskInv` that the last request under way is for the
  whole frame, and that once the server has read it and owes no update it has
  been asked for that much. The path is why a request of an old size, still
  under way when the screen is resized, does no harm.

Assumptions are those the modules state on their constants.

Induction over sequences is done where it is needed by the least element of a
set of numbers (`WFMin`), which takes no operator as a parameter: `LatestIs` in
OutgoingProofs, `SetInduction` in MessagesProofs, CryptoStreamProofs and
PixelsProofs. With it the last two prove that the recursive functions of
CryptoStream and Pixels are defined for every argument (`TurnsExist`,
`SumsExist`; `ZrleExists`, `ConvertExists` and others) before anything is said
of their values.

Only model-checked: liveness under fairness, which needs ENABLED
(DeadConnectionEndsRun, DeadConnectionEmptiesQueue, ReadCompletes, LoginEnds,
ResetReturns, PictureConverges). Every other property of the passing runs is
a theorem.

## Where the code disagrees

* `co_run` refuses a second run while `status_` is not closed, but `close()` sets
  it to closed while the run it closes is still suspended. After `stop();
  start()` two runs are in progress, and the first, when it ends, closes the
  connection of the second (session_overlap).
* AuthRSAAES drops the provider, and with it the bytes it has buffered, when the
  stream is not to stay encrypted. With the subtype that asks for no
  credentials the server's result may be among them, and the login waits for ever
  (crypto_none).
* Hextile starts each tile with both colours zero; the comment at the head of
  `hextile.hpp` says they are the last tile's (pixels_carry).

Seen on the way, without a run of their own:

* the notification text's length is one byte while all of the text is sent;
* a Tight palette of 256 colours wraps to none (`Palettes = {256}` breaks InStep
  of Rectangles), the rows of a two-colour Tight rectangle are read as one
  stretch of bits, and a Tight gradient draws nothing;
* Tight's colours, three bytes each, become pixels in the vector they were read
  to, from the last to the first: right for four bytes a pixel, not for two;
* Ultra's output may be shorter than its rectangle; what is missing is drawn all
  the same;
* an empty read with a provider set never ends;
* with a mutex that prefers writers (`WriterPreferred = TRUE`) a stop in a
  callback while `~client` waits breaks ResetReturns;
* a send before the first connection dereferences a null `stream_`: the guard reads
  `!stream_ && stream_->is_open()` (`SendWhen = "anytime"` breaks NullStreamUnused);
* after a stop, a run that has not noticed it may set again what `close()` has reset
  (FreshSession says nothing after a stop for that reason);
* a keyboard's state that was read before a close and handled after it is kept
  for the next session;
* a write of the old connection that fails after the new one is there clears what
  was queued for the new one, the list of encodings among it (`dropped` in
  Outgoing leaves that case out of ChoiceKept);
* an application that starts again in `on_disconnect` while another of its
  threads sends breaks HandshakeAlone and NeverUnsupported: what was
  encoded for the last server reaches the next;
* SetColourMapEntries is read as a message without a body;
* `supported_messages` is reset and filled in two critical sections, and `assign`
  forgets an extension announced before it;
* `frame()` hands out the frame buffer the strand draws in.

## What is left

Pixel formats other than four bytes (`CPixel`, 16 and 8 bits).

Not modelled: TLS (`use_ssl_` is never set, the alternative is never made); DES,
EAX, RSA and the key exchange (arithmetic of libraries); LZO and JPEG, which
hand over the pixels they were given; error texts, printing, the layout of
messages in `proto.h` and the key symbols; the examples and the build.
ClientSession reads `status_` and Messages the capabilities atomically.
