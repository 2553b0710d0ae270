----------------------------- MODULE Rectangles -----------------------------
(***************************************************************************)
(* How the codecs take a rectangle from the stream, and the six zlib       *)
(* streams that outlive it: one of zlib, one of zrle, four of tight.       *)
(*                                                                         *)
(* An item is what one read takes, of n bytes, and val is what it says.    *)
(* The client's plan is the reads it is going to make; what it reads may   *)
(* add to it.  Compressed data is a block: the stream it was deflated      *)
(* with, how many blocks of that stream came before it since the stream    *)
(* was reset, and how many bytes it inflates to.                           *)
(***************************************************************************)
EXTENDS Integers, Sequences

CONSTANTS
  BytesPerPixel,   \* of the frame: 4 in every format want_format is known to ask for
  Sizes,           \* widths and heights of rectangles
  Lengths,         \* lengths of compressed data, above 0
  Palettes,        \* numbers of colours in tight's palettes
  Used,            \* the zlib streams of tight that the server uses
  MaxBlocks        \* bound: blocks of a stream between two resets

ASSUME RectanglesAssumption ==
  /\ BytesPerPixel \in Nat \ {0}
  /\ Sizes \subseteq Nat \X Nat
  /\ Lengths \subseteq Nat \ {0} /\ \A n \in Lengths : n < 4194304   \* what a compact length can say
  /\ Palettes \subseteq 2 .. 256
  /\ Used \subseteq 0 .. 3 /\ MaxBlocks \in Nat

TightStreams == {"tight0", "tight1", "tight2", "tight3"}
TightStream(i) == <<"tight0", "tight1", "tight2", "tight3">>[i + 1]
Streams == {"zlib", "zrle"} \cup TightStreams
Codecs == {"raw", "copyrect", "rre", "corre", "ultra", "ultrazip", "zlib", "zrle", "tight", "xcursor", "richcursor"}

(* The streambuf a codec reads its compressed data into. *)
Buffered == {"zlib", "zrle", "tight"}

VARIABLES
  s2c,        \* the items of the rectangle under way
  deflated,   \* blocks the server has deflated with each stream
  codec,      \* the codec that decodes
  size,       \* w, h of its rectangle
  plan,       \* the reads before it
  tight,      \* tight's locals: comp_ctl, readUncompressed, bitsPixel, the length
  inflated,   \* blocks each inflater of the client has seen
  rest,       \* bytes left over in the codecs' buffers
  up          \* the session: open, broken, or given up on an error of the codec

vars == <<s2c, deflated, codec, size, plan, tight, inflated, rest, up>>

Item(what, n, val) == [is |-> what, n |-> n, val |-> val]
Block(n, s, nth, out) == [is |-> "block", n |-> n, val |-> nth, stream |-> s, out |-> out]
Read(what, n) == [at |-> what, n |-> n]

LocalsOf(ctl, plain) == [ctl |-> ctl, plain |-> plain, bits |-> 24, length |-> 0, nth |-> 0]

Locals == LocalsOf(0, FALSE)

Fresh == [s \in Streams |-> 0]

Init ==
  /\ s2c = <<>> /\ deflated = Fresh
  /\ codec = "none" /\ size = <<0, 0>> /\ plan = <<>> /\ tight = Locals
  /\ inflated = Fresh /\ rest = [b \in Buffered |-> 0]
  /\ up = "open"

-----------------------------------------------------------------------------
(* The server. *)
Pixels(s) == s[1] * s[2]
Padded(bits) == (bits + 7) \div 8

Begins(c, s, items) ==
  /\ codec' = "none" /\ size' = s
  /\ s2c' = <<Item("rect", 12, c)>> \o items

(* The new count of a stream that has deflated one more block, after resets. *)
Deflates(s, resets) ==
  LET before == [t \in Streams |-> IF t \in resets THEN 0 ELSE deflated[t]]
  IN /\ before[s] < MaxBlocks
     /\ deflated' = [before EXCEPT ![s] = @ + 1]

(* The background, and n subrectangles after it: each a pixel and a place. *)
Subrects(c, n) ==
  [i \in 1 .. 2 * n + 1 |-> IF i = 1 \/ i % 2 = 0 THEN Item("pixel", BytesPerPixel, 0)
                                                     ELSE Item("subrect", IF c = "rre" THEN 8 ELSE 4, 0)]

SendPlain(s) ==
  /\ deflated' = deflated
  /\ \/ Begins("raw", s, [i \in 1 .. s[2] |-> Item("row", s[1] * BytesPerPixel, 0)])
     \/ Begins("copyrect", s, <<Item("source", 4, 0)>>)
     \/ \E c \in {"rre", "corre"}, n \in 0 .. 2 :
          Begins(c, s, <<Item("count", 4, n)>> \o Subrects(c, n))
     \/ \E c \in {"ultra", "ultrazip"}, n \in Lengths \cup {0} :
          Begins(c, s, <<Item("length", 4, n)>> \o IF n = 0 THEN <<>> ELSE <<Item("data", n, 0)>>)

(* A cursor of no pixels is a header; another has a mask.  No other rectangle
   is empty. *)
SendCursor(s) ==
  LET mask == Padded(s[1]) * s[2]
  IN /\ deflated' = deflated
     /\ \/ Begins("xcursor", s, IF Pixels(s) = 0 THEN <<>>
                                ELSE <<Item("two", 6, 0), Item("bits", mask, 0), Item("mask", mask, 0)>>)
        \/ Begins("richcursor", s, IF Pixels(s) = 0 THEN <<>>
                                   ELSE <<Item("pixels", Pixels(s) * BytesPerPixel, 0), Item("mask", mask, 0)>>)

SendDeflated(s) ==
  \E c \in {"zlib", "zrle"}, n \in Lengths :
    /\ Deflates(c, {})
    /\ Begins(c, s, <<Item("length", 4, n), Block(n, c, deflated[c], Pixels(s) * BytesPerPixel)>>)

(* A length in seven, seven and eight bits. *)
Compact(n) ==
  IF n < 128 THEN <<Item("compact", 1, n)>>
  ELSE IF n < 16384 THEN <<Item("compact", 1, (n % 128) + 128), Item("compact", 1, n \div 128)>>
  ELSE <<Item("compact", 1, (n % 128) + 128), Item("compact", 1, ((n \div 128) % 128) + 128),
         Item("compact", 1, n \div 16384)>>

(* The control byte: streams to reset, and four bits of what follows. *)
Control(resets, op) == [is |-> "control", n |-> 1, val |-> op, resets |-> resets]

TightNames(resets) == {TightStream(i) : i \in resets}

Clears(resets) == deflated' = [t \in Streams |-> IF t \in TightNames(resets) THEN 0 ELSE deflated[t]]

Filter(colours, filter) ==
  IF colours > 0 THEN <<Item("filter", 1, 1), Item("colours", 1, colours - 1), Item("palette", colours * 3, 0)>>
  ELSE IF filter = "none" THEN <<>> ELSE <<Item("filter", 1, IF filter = "copy" THEN 0 ELSE 2)>>

PixelBits(colours) == IF colours = 0 THEN 24 ELSE IF colours = 2 THEN 1 ELSE 8

(* Data of fewer than twelve bytes is sent as it is. *)
SendBasic(s, resets, i, zlib, colours, filter) ==
  LET op == (IF zlib THEN i ELSE 10) + IF colours = 0 /\ filter = "none" THEN 0 ELSE 4
      sends(data) == Begins("tight", s, <<Control(resets, op)>> \o (Filter(colours, filter) \o data))
      all == s[2] * Padded(s[1] * PixelBits(colours))
      data == Item("data", all, 0)
      block(n) == Block(n, TightStream(i), IF i \in resets THEN 0 ELSE deflated[TightStream(i)], all)
  IN \/ all < 12 /\ Clears(resets) /\ sends(<<data>>)
     \/ all >= 12 /\ all < 4194304 /\ ~zlib /\ Clears(resets) /\ sends(Compact(all) \o <<data>>)
     \/ /\ all >= 12 /\ zlib /\ Deflates(TightStream(i), TightNames(resets))
        /\ \E n \in Lengths : sends(Compact(n) \o <<block(n)>>)

SendTight(s) ==
  \E resets \in SUBSET Used :
    \/ Clears(resets) /\ Begins("tight", s, <<Control(resets, 8), Item("pixel", 3, 0)>>)
    \/ /\ Clears(resets)
       /\ \E n \in Lengths : Begins("tight", s, <<Control(resets, 9)>> \o (Compact(n) \o <<Item("data", n, 0)>>))
    \/ \E i \in Used, zlib \in BOOLEAN, colours \in Palettes \cup {0}, filter \in {"none", "copy", "gradient"} :
         SendBasic(s, resets, i, zlib, colours, filter)

ServerSends ==
  /\ up = "open" /\ s2c = <<>> /\ plan = <<>>
  /\ \E s \in Sizes : \/ SendCursor(s)
                      \/ Pixels(s) > 0 /\ (SendPlain(s) \/ SendDeflated(s) \/ SendTight(s))
  /\ UNCHANGED <<plan, tight, inflated, rest, up>>

-----------------------------------------------------------------------------
(* The client. *)
Refuses == up' = "refused" /\ plan' = <<>> /\ UNCHANGED <<tight, inflated, rest>>
Goes(reads) == plan' = reads /\ up' = up
Adds(reads) == Goes(reads \o Tail(plan))

(* cursor::decode: bytesMaskData *)
MaskBytes(s) == Padded(s[1]) * s[2]

RawReads(s) == [i \in 1 .. s[2] |-> Read("row", s[1] * BytesPerPixel)]

CopyRectReads == <<Read("source", 4)>>

(* A cursor of no pixels has nothing after its header. *)
CursorReads(c, s) ==
  IF Pixels(s) = 0 THEN <<>>
  ELSE IF c = "xcursor" THEN <<Read("two", 6), Read("bits", MaskBytes(s)), Read("mask", MaskBytes(s))>>
  ELSE <<Read("pixels", Pixels(s) * BytesPerPixel), Read("mask", MaskBytes(s))>>

(* What a codec reads first, as far as it is known then. *)
First(c, s) ==
  CASE c = "raw" -> RawReads(s)
    [] c = "copyrect" -> CopyRectReads
    [] c \in {"rre", "corre"} -> <<Read("count", 4), Read("pixel", BytesPerPixel)>>
    [] c \in {"ultra", "ultrazip", "zlib", "zrle"} -> <<Read("length", 4)>>
    [] c = "tight" -> <<Read("control", 1)>>
    [] OTHER -> CursorReads(c, s)

Begin(c) ==
  /\ codec' = c /\ Goes(First(c, size)) /\ tight' = Locals
  /\ UNCHANGED <<inflated, rest>>

(* rre and co_rre: the pixel comes first, then as many subrectangles. *)
SubrectReads(c, n) ==
  [i \in 1 .. 2 * n |-> IF i % 2 = 1 THEN Read("pixel", BytesPerPixel)
                                    ELSE Read("subrect", IF c = "rre" THEN 8 ELSE 4)]

Count(n) == plan' = Tail(plan) \o SubrectReads(codec, n) /\ UNCHANGED <<tight, inflated, rest, up>>

(* ultra and ultra_zip end at a length of 0. *)
UltraReads(n) == IF n = 0 THEN <<>> ELSE <<Read("data", n)>>

DeflatedReads(n) == <<Read("block", n)>>

Length(n) ==
  /\ Adds(IF codec \in {"zlib", "zrle"} THEN DeflatedReads(n) ELSE UltraReads(n))
  /\ UNCHANGED <<tight, inflated, rest>>

(* tight::decode: the streams flushed. *)
TightResets(c) == {TightStream(i) : i \in c.resets}

(* Mutant: a byte less than the server's limit. *)
MinToCompress_11 == 11

MinToCompress == 12   \* TIGHT_MIN_TO_COMPRESS

(* Once the filter is known: all the bytes, or a length first. *)
Data(locals, bits) ==
  LET all == size[2] * Padded(size[1] * bits)
  IN /\ tight' = [locals EXCEPT !.bits = bits]
     /\ IF all < MinToCompress THEN Adds(<<Read("data", all)>>) ELSE Adds(<<Read("compact", 1)>>)

(* comp_ctl after its resets: 8 and 2 together mean data that is not
   deflated; 8 is a fill, 9 a JPEG, and 4 a filter of its own. *)
ReadUncompressed(ctl) == ctl \in {10, 11, 14, 15}
Operation(ctl) == IF ReadUncompressed(ctl) THEN ctl - 10 ELSE ctl
Started(ctl) == LocalsOf(Operation(ctl), ReadUncompressed(ctl))

HandleControl(c) ==
  LET op == Operation(c.val)
      locals == Started(c.val)
  IN /\ inflated' = [s \in Streams |-> IF s \in TightResets(c) THEN 0 ELSE inflated[s]]
     /\ rest' = rest
     /\ CASE op = 8 -> Adds(<<Read("pixel", 3)>>) /\ tight' = locals
          [] op = 9 -> Adds(<<Read("compact", 1)>>) /\ tight' = locals
          [] op > 10 -> up' = "refused" /\ plan' = <<>> /\ tight' = locals
          [] op \in 4 .. 7 -> Adds(<<Read("filter", 1)>>) /\ tight' = locals
          [] OTHER -> Data(locals, 24)

(* init_filter *)
HandleFilter(id) ==
  /\ IF id = 1 THEN Adds(<<Read("colours", 1)>>) /\ tight' = tight
               ELSE Data(tight, 24)
  /\ UNCHANGED <<inflated, rest>>

(* rectColors_ is one byte: a palette of 256 colours is taken for none. *)
HandleColours(n) ==
  LET colours == (n + 1) % 256
      bits == IF colours = 2 THEN 1 ELSE 8
  IN /\ IF colours = 0 THEN Data(tight, bits)
        ELSE tight' = [tight EXCEPT !.bits = bits] /\ Adds(<<Read("palette", colours * 3)>>)
     /\ UNCHANGED <<inflated, rest>>

HandlePalette ==
  /\ Data(tight, tight.bits)
  /\ UNCHANGED <<inflated, rest>>

Weight(nth) == <<1, 128, 16384>>[nth + 1]

(* read_compact_len: the third byte is taken whole. *)
HandleCompact(b) ==
  LET length == tight.length + (IF tight.nth < 2 THEN b % 128 ELSE b) * Weight(tight.nth)
      more == tight.nth < 2 /\ b > 127
  IN IF more
     THEN /\ tight' = [tight EXCEPT !.length = length, !.nth = @ + 1]
          /\ Adds(<<Read("compact", 1)>>) /\ UNCHANGED <<inflated, rest>>
     ELSE IF length = 0 THEN Refuses
     ELSE /\ tight' = [tight EXCEPT !.length = length]
          /\ Adds(<<Read(IF tight.ctl = 9 \/ tight.plain THEN "data" ELSE "block", length)>>)
          /\ UNCHANGED <<inflated, rest>>

(* The inflater a block is given to. *)
Inflater == IF codec = "tight" THEN TightStream(tight.ctl % 4) ELSE codec

(* Bytes the codec wants of it. *)
Wanted ==
  IF codec = "tight" THEN size[2] * Padded(size[1] * tight.bits) ELSE Pixels(size) * BytesPerPixel

(* An inflater gives what was deflated if it has seen what came before, and
   nothing else is in the buffer. *)
HandleBlock(b) ==
  IF rest[codec] = 0 /\ b.stream = Inflater /\ b.val = inflated[Inflater] /\ b.out = Wanted
  THEN /\ inflated' = [inflated EXCEPT ![Inflater] = @ + 1]
       /\ Adds(<<>>) /\ UNCHANGED <<tight, rest>>
  ELSE Refuses

(* Plain data through tight's buffer must not follow anything. *)
HandleData ==
  IF codec = "tight" /\ rest["tight"] # 0 THEN Refuses ELSE Adds(<<>>) /\ UNCHANGED <<tight, inflated, rest>>

Handle(i) ==
  CASE i.is = "rect" -> Begin(i.val)
    [] OTHER ->
       /\ codec' = codec
       /\ CASE i.is = "count" -> Count(i.val)
            [] i.is = "length" -> Length(i.val)
            [] i.is = "control" -> HandleControl(i)
            [] i.is = "filter" -> HandleFilter(i.val)
            [] i.is = "colours" -> HandleColours(i.val)
            [] i.is = "palette" -> HandlePalette
            [] i.is = "compact" -> HandleCompact(i.val)
            [] i.is = "block" -> HandleBlock(i)
            [] i.is = "data" -> HandleData
            [] OTHER -> Adds(<<>>) /\ UNCHANGED <<tight, inflated, rest>>

Expected(i) ==
  IF plan = <<>> THEN i.is = "rect" ELSE i.is = Head(plan).at /\ i.n = Head(plan).n

ClientReads ==
  /\ up = "open" /\ s2c # <<>> /\ Expected(Head(s2c))
  /\ s2c' = Tail(s2c)
  /\ Handle(Head(s2c))
  /\ UNCHANGED <<deflated, size>>

-----------------------------------------------------------------------------
(* The connection is lost; of a read into a codec's buffer a part may be
   there already. *)
Lost ==
  /\ up = "open"
  /\ up' = "broken"
  /\ \/ rest' = rest
     \/ /\ codec \in Buffered /\ plan # <<>>
        /\ Head(plan).at \in {"block", "data"} /\ Head(plan).n > 1
        /\ rest' = [rest EXCEPT ![codec] = @ + 1]
  /\ UNCHANGED <<s2c, deflated, codec, size, plan, tight, inflated>>

(* Mutant: init makes new inflaters and leaves the buffers. *)
CodecsInit_KeepBuffers == inflated' = Fresh /\ rest' = rest

(* codec_manager::init *)
CodecsInit == inflated' = Fresh /\ rest' = [b \in Buffered |-> 0]

(* start() again: the server is new to the client as well. *)
Reconnect ==
  /\ up # "open"
  /\ up' = "open"
  /\ CodecsInit
  /\ s2c' = <<>> /\ deflated' = Fresh
  /\ codec' = "none" /\ plan' = <<>> /\ tight' = Locals /\ size' = <<0, 0>>

Next == ServerSends \/ ClientReads \/ Lost \/ Reconnect

Spec == Init /\ [][Next]_vars

-----------------------------------------------------------------------------
(* Every read takes what the server wrote for it, kind and length: no codec
   leaves bytes of its rectangle to the next, or takes bytes of that. *)
InStep == up = "open" /\ s2c # <<>> => Expected(Head(s2c))

(* Between two rectangles each inflater has seen what its deflater has sent
   since the reset both know of, and the codecs' buffers are empty, in this
   session and in the next. *)
StreamsInSync ==
  /\ up # "refused"
  /\ up = "open" /\ s2c = <<>> => inflated = deflated /\ \A b \in Buffered : rest[b] = 0
=============================================================================
