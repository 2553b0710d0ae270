------------------------------- MODULE Pixels -------------------------------
(***************************************************************************)
(* What the codecs make of what they read: the pixels that reach the frame *)
(* buffer.  A server that follows the protocol encodes rectangles of its   *)
(* picture; the client's codec turns one into operations of FrameBuffer,   *)
(* which draw it.  How many bytes a codec reads, and how the inflaters     *)
(* keep in step, is the matter of Rectangles; here data is what was        *)
(* inflated, a sequence of symbols, each a byte or a pixel.                *)
(***************************************************************************)
EXTENDS FrameBuffer, FiniteSetsExt, SequencesExt

CONSTANTS
  HexTile,    \* side of a hextile: 16 in the code
  ZrleTile,   \* side of a ZRLE tile: 64 in the code
  Full,       \* the byte of a run's length that another follows: 255 in the code
  Frames,     \* sizes of the frame
  Rects,      \* rectangles: [x, y, w, h]
  Patterns,   \* what they show: <<every, colours>>, see Content
  Shapes,     \* sizes of the cursor
  Carries,    \* whether the server leaves out a colour that the last hextile had
  MaxRects    \* bound: rectangles sent

ASSUME PixelsAssumption ==
  /\ {HexTile, ZrleTile, Full} \subseteq Nat \ {0} /\ MaxRects \in Nat
  /\ Frames \subseteq Nat \X Nat /\ Shapes \subseteq (Nat \ {0}) \X (Nat \ {0})
  /\ Rects \subseteq [x : Nat, y : Nat, w : Nat \ {0}, h : Nat \ {0}]
  /\ Carries \in BOOLEAN
  /\ \A p \in Patterns : p[1] \in Nat \ {0} /\ p[2] \in 1 .. 99

VARIABLES
  message,    \* the rectangle sent and not decoded yet
  jobs,       \* operations it was decoded to that are still to be called
  inflated,   \* what zrle's inflater has put out and no tile has taken
  cursor,     \* rcSource_ and rcMask_
  picture,    \* what the server's screen shows at each offset, or Unknown
  shape,      \* its cursor
  sent        \* rectangles sent

vars == <<frameVars, message, jobs, inflated, cursor, picture, shape, sent>>

Unknown == -1
NoMessage == [codec |-> "none"]
NoCursor == [w |-> 0, h |-> 0, source |-> <<>>, mask |-> <<>>]

TypeOK ==
  /\ FrameTypeOK
  /\ sent \in 0 .. MaxRects /\ jobs \in Seq(Job) /\ inflated \in Seq(Nat)
  /\ \A j \in ToSet(jobs) : Filled(j)
  /\ picture \in [DOMAIN picture -> Nat \cup {Unknown}]
  /\ \A c \in {cursor, shape} : c.source \in Seq(Nat) /\ c.mask \in Seq({0, 1})

Init ==
  /\ FrameInit
  /\ message = NoMessage /\ jobs = <<>> /\ inflated = <<>>
  /\ cursor = NoCursor /\ shape = NoCursor
  /\ picture = data /\ sent = 0

Idle == message = NoMessage /\ jobs = <<>> /\ Done

-----------------------------------------------------------------------------
(* The server's encoders. *)
At(x, y, w, h) == [x |-> x, y |-> y, w |-> w, h |-> h]
Drop(s, n) == SubSeq(s, n + 1, Len(s))
Padded(bits) == (bits + 7) \div 8

(* A pattern of n pixels: a colour for so many of them, then the next. *)
Content(p, n) == [k \in 1 .. n |-> 1 + (((k - 1) \div p[1]) % p[2])]

PaletteOf(cells) ==
  LET palette[k \in 0 .. Len(cells)] ==
        IF k = 0 THEN <<>>
        ELSE LET found == palette[k - 1]
             IN IF cells[k] \in ToSet(found) THEN found ELSE Append(found, cells[k])
  IN palette[Len(cells)]

Indices(cells) ==
  LET palette == PaletteOf(cells)
  IN [k \in DOMAIN cells |-> (CHOOSE i \in DOMAIN palette : palette[i] = cells[k]) - 1]

(* Stretches of one colour. *)
RunsOf(cells) ==
  LET runs[k \in 0 .. Len(cells)] ==
        IF k = 0 THEN <<>>
        ELSE LET done == runs[k - 1]
             IN IF k > 1 /\ cells[k] = cells[k - 1]
                THEN [done EXCEPT ![Len(done)].length = @ + 1]
                ELSE Append(done, [colour |-> cells[k], from |-> k - 1, length |-> 1])
  IN runs[Len(cells)]

(* The rows of a block w wide. *)
RowsOf(cells, w) == [y \in 1 .. Len(cells) \div w |-> SubSeq(cells, (y - 1) * w + 1, y * w)]

(* Subrectangles that show the block when drawn in order: each stretch of a
   row, down to the bottom. *)
Subrects(cells, w) ==
  LET rows == RowsOf(cells, w)
  IN FlattenSeq([y \in DOMAIN rows |->
       LET runs == RunsOf(rows[y])
       IN [k \in DOMAIN runs |-> [x |-> runs[k].from, y |-> y - 1, w |-> runs[k].length,
                                  h |-> Len(rows) - y + 1, colour |-> runs[k].colour]]])

(* Numbers of b bits, each row filled up to whole bytes. *)
PackedByte(numbers, q, b) ==
  LET n == 8 \div b
      byte[j \in 0 .. n] ==
        IF j = 0 THEN 0
        ELSE byte[j - 1] * 2 ^ b + IF (q - 1) * n + j <= Len(numbers) THEN numbers[(q - 1) * n + j] ELSE 0
  IN byte[n]

PackRow(numbers, b) == [q \in 1 .. Padded(Len(numbers) * b) |-> PackedByte(numbers, q, b)]

Pack(numbers, w, b) ==
  LET rows == RowsOf(numbers, w) IN FlattenSeq([y \in DOMAIN rows |-> PackRow(rows[y], b)])

(* The tiles of a block w by h, and the pixels in one. *)
TilesOf(w, h, side) ==
  LET columns == (w + side - 1) \div side
      least(a, b) == IF a < b THEN a ELSE b
  IN [k \in 1 .. columns * ((h + side - 1) \div side) |->
        LET x == ((k - 1) % columns) * side
            y == ((k - 1) \div columns) * side
        IN At(x, y, least(side, w - x), least(side, h - y))]

Cut(cells, w, t) ==
  [k \in 1 .. t.w * t.h |-> cells[(t.y + (k - 1) \div t.w) * w + t.x + ((k - 1) % t.w) + 1]]

(* A hextile: its colours, where it specifies them, and subrectangles. *)
HexTileOf(cells, w, mode) ==
  LET bg == cells[1]
      others == ToSet(cells) \ {bg}
      coloured == mode = "coloured" \/ Cardinality(others) > 1
      all == Subrects(cells, w)
      lines == FlattenSeq([i \in DOMAIN all |-> IF all[i].colour # bg THEN <<[all[i] EXCEPT !.h = 1]>> ELSE <<>>])
  IN [raw |-> mode = "raw", cells |-> cells, bg |-> <<bg>>, coloured |-> coloured,
      fg |-> IF coloured \/ others = {} THEN <<>> ELSE SetToSeq(others),
      subs |-> IF others = {} THEN <<>> ELSE IF coloured THEN all ELSE lines]

HexTiles(cells, w, h, mode) ==
  LET tiles == TilesOf(w, h, HexTile)
      full == [k \in DOMAIN tiles |-> HexTileOf(Cut(cells, w, tiles[k]), tiles[k].w, mode)]
      same(a, k) == Carries /\ k > 1 /\ a # <<>>
  IN [k \in DOMAIN full |->
        [full[k] EXCEPT !.bg = IF same(@, k) /\ @ = full[k - 1].bg THEN <<>> ELSE @,
                        !.fg = IF same(@, k) /\ @ = full[k - 1].fg THEN <<>> ELSE @]]

(* A ZRLE tile: its mode and palette, then pixels, packed indices or runs. *)
RunBytes(n) == [i \in 1 .. (n - 1) \div Full |-> Full] \o <<(n - 1) % Full>>

ZrleTileOf(cells, w, mode) ==
  LET palette == PaletteOf(cells)
      n == Len(palette)
      bits == IF n > 16 THEN 8 ELSE IF n > 4 THEN 4 ELSE IF n > 2 THEN 2 ELSE 1
      runs == RunsOf(cells)
      indexed == RunsOf(Indices(cells))
  IN CASE mode = "raw" -> <<0>> \o cells
       [] mode = "runs" -> <<128>> \o FlattenSeq([k \in DOMAIN runs |-> <<runs[k].colour>> \o RunBytes(runs[k].length)])
       [] mode \notin {"raw", "runs"} /\ n = 1 -> <<1>> \o palette
       [] mode = "packed" /\ n > 1 -> <<n>> \o palette \o Pack(Indices(cells), w, bits)
       [] OTHER -> <<128 + n>> \o palette \o
                   FlattenSeq([k \in DOMAIN indexed |->
                     IF indexed[k].length = 1 THEN <<indexed[k].colour>>
                     ELSE <<indexed[k].colour + 128>> \o RunBytes(indexed[k].length)])

ZrleTiles(cells, w, h, mode) ==
  LET tiles == TilesOf(w, h, ZrleTile)
  IN FlattenSeq([k \in DOMAIN tiles |-> ZrleTileOf(Cut(cells, w, tiles[k]), tiles[k].w, mode)])

(* Colours as Tight sends them, in three bytes. *)
RGB(colour) == <<colour, colour + 100, colour + 200>>
Triples(cells) == FlattenSeq([k \in DOMAIN cells |-> RGB(cells[k])])

-----------------------------------------------------------------------------
(* What the server sends. *)
InRect(a, r) == a % width \in r.x .. r.x + r.w - 1 /\ a \div width \in r.y .. r.y + r.h - 1
Shows(r, cells) ==
  picture' = [a \in DOMAIN picture |->
                IF InRect(a, r) THEN cells[(a \div width - r.y) * r.w + (a % width) - r.x + 1] ELSE picture[a]]

Sends(codec, r, body, cells) ==
  /\ message' = [codec |-> codec, rect |-> r, body |-> body]
  /\ Shows(r, cells)
  /\ shape' = shape

(* Subrectangles of one row each. *)
Strips(cells, r) ==
  LET rows == RowsOf(cells, r.w)
  IN [y \in DOMAIN rows |-> [at |-> At(r.x, r.y + y - 1, r.w, 1), cells |-> rows[y]]]

(* Tight fills, copies and indexes.  What a gradient shows is not said, nor
   what the rows of a two-colour palette show below the first when they do
   not fill their bytes: the code does not decode these. *)
SendTight(r, cells) ==
  LET palette == PaletteOf(cells)
      sheared == Len(palette) = 2 /\ r.w % 8 # 0
  IN \/ Len(palette) = 1 /\ Sends("fill", r, RGB(palette[1]), cells)
     \/ Sends("jpeg", r, cells, cells)
     \/ Sends("copy", r, Triples(cells), cells)
     \/ Sends("gradient", r, <<>>, [k \in DOMAIN cells |-> Unknown])
     \/ /\ Len(palette) > 1
        /\ Sends("palette", r,
                 [palette |-> Triples(palette),
                  data |-> IF Len(palette) = 2 THEN Pack(Indices(cells), r.w, 1) ELSE Indices(cells)],
                 [k \in DOMAIN cells |-> IF sheared /\ k > r.w THEN Unknown ELSE cells[k]])

(* Rectangles of the screen. *)
OnScreen == {r \in Rects : r.x + r.w <= width /\ r.y + r.h <= height}

SendRect ==
  \E r \in OnScreen, p \in Patterns :
    LET cells == Content(p, r.w * r.h)
    IN \/ \E codec \in {"raw", "zlib", "ultra"} : Sends(codec, r, cells, cells)
       \/ \E codec \in {"rre", "corre"} :
            Sends(codec, r, [bg |-> cells[1], subs |-> Subrects(cells, r.w)], cells)
       \/ Sends("ultrazip", r, Strips(cells, r), cells)
       \/ \E mode \in {"raw", "plain", "coloured"} :
            Sends("hextile", r, HexTiles(cells, r.w, r.h, mode), cells)
       \/ \E mode \in {"raw", "packed", "runs", "indexed"} :
            Sends("zrle", r, ZrleTiles(cells, r.w, r.h, mode), cells)
       \/ SendTight(r, cells)

SendCopy ==
  \E r, s \in OnScreen :
    /\ r.w = s.w /\ r.h = s.h /\ r # s
    /\ Sends("copyrect", r, <<s.x, s.y>>,
             [k \in 1 .. r.w * r.h |-> picture[Addr(s.x + ((k - 1) % r.w), s.y + (k - 1) \div r.w)]])

(* A new size: nothing is known of the picture until it is drawn. *)
SendSize ==
  \E s \in Frames :
    /\ message' = [codec |-> "newfbsize", rect |-> At(0, 0, s[1], s[2])]
    /\ picture' = [a \in 0 .. s[1] * s[2] - 1 |-> Unknown]
    /\ shape' = shape

SendCursor ==
  \E s \in Shapes, p, q \in Patterns :
    LET source == Content(p, s[1] * s[2])
        mask == [k \in 1 .. s[1] * s[2] |-> Content(q, s[1] * s[2])[k] % 2]
    IN /\ \/ /\ ToSet(source) \subseteq {1, 2}
             /\ message' = [codec |-> "xcursor", rect |-> At(0, 0, s[1], s[2]),
                            body |-> [source |-> Pack([k \in DOMAIN source |-> source[k] - 1], s[1], 1),
                                      mask |-> Pack(mask, s[1], 1), back |-> 1, fore |-> 2]]
          \/ message' = [codec |-> "richcursor", rect |-> At(0, 0, s[1], s[2]),
                         body |-> [source |-> source, mask |-> Pack(mask, s[1], 1)]]
       /\ shape' = [w |-> s[1], h |-> s[2], source |-> source, mask |-> mask]
       /\ picture' = picture

ServerSends ==
  /\ Idle /\ sent < MaxRects
  /\ sent' = sent + 1
  /\ IF sent = 0 THEN SendSize ELSE SendRect \/ SendCopy \/ SendSize \/ SendCursor
  /\ UNCHANGED <<frameVars, jobs, inflated, cursor>>

-----------------------------------------------------------------------------
(* The client's decoders.  What they ask of the frame buffer. *)
Block(op, r) ==
  [NoJob EXCEPT !.op = op, !.x = r.x, !.y = r.y, !.w = r.w, !.h = r.h]
Fill(r, colour) == [Block("fill", r) EXCEPT !.colour = colour]
Bitmap(r, cells) == [Block("bitmap", r) EXCEPT !.pixels = cells]
Rows(r, cells) == [Block("rows", r) EXCEPT !.pixels = cells]

(* A read past the end of what was inflated leaves the zero it found. *)
Sym(s, i) == IF i \in DOMAIN s THEN s[i] ELSE 0
Take(s, n) == [i \in 1 .. n |-> Sym(s, i)]

Moved(r, s) == At(r.x + s.x, r.y + s.y, s.w, s.h)

(* Mutant: a subrectangle's place is that on the screen. *)
DecodeRRE_Unmoved(m) ==
  <<Fill(m.rect, m.body.bg)>> \o [i \in DOMAIN m.body.subs |-> Fill(m.body.subs[i], m.body.subs[i].colour)]

(* rre and co_rre: the background, and the subrectangles in order. *)
DecodeRRE(m) ==
  <<Fill(m.rect, m.body.bg)>>
  \o [i \in DOMAIN m.body.subs |-> Fill(Moved(m.rect, m.body.subs[i]), m.body.subs[i].colour)]

DecodeCopyRect(m) == <<[Block("copy", m.rect) EXCEPT !.sx = m.body[1], !.sy = m.body[2]]>>

(* raw and zlib read each row into the vector, a JPEG is put there. *)
DecodeRows(m) == <<Rows(m.rect, m.body)>>

DecodeUltra(m) == <<Bitmap(m.rect, m.body)>>

(* ultra_zip: rectangles of their own in one piece of data. *)
DecodeUltraZip(m) == [i \in DOMAIN m.body |-> Bitmap(m.body[i].at, m.body[i].cells)]

(* Mutant: a tile at the edge is as large as the others. *)
TileLoop_Full(r, side) ==
  FlattenSeq([j \in 1 .. (r.h + side - 1) \div side |-> [i \in 1 .. (r.w + side - 1) \div side |->
    At(r.x + (i - 1) * side, r.y + (j - 1) * side, side, side)]])

(* The loops over tiles: side by side, the last ones smaller. *)
TileLoop(r, side) ==
  LET steps(n) == (n + side - 1) \div side
      extent(from, n) == IF n - from < side THEN n - from ELSE side
  IN FlattenSeq([j \in 1 .. steps(r.h) |-> [i \in 1 .. steps(r.w) |->
       LET x == (i - 1) * side
           y == (j - 1) * side
       IN At(r.x + x, r.y + y, extent(x, r.w), extent(y, r.h))]])

(* handle_hextile: both colours start as zero; a subrectangle with a colour of
   its own leaves it as the foreground. *)
DecodeHexTile(t, at) ==
  LET bg == Sym(t.bg, 1)
      fg == Sym(t.fg, 1)
      colour(s) == IF t.coloured THEN s.colour ELSE fg
  IN IF t.raw THEN <<Rows(at, t.cells)>>
     ELSE <<Fill(at, bg)>> \o [i \in DOMAIN t.subs |-> Fill(Moved(at, t.subs[i]), colour(t.subs[i]))]

(* Mutant: the columns are counted from a tile before the rectangle. *)
DecodeHextile_FromLeft(m) ==
  LET tiles == TileLoop(m.rect, HexTile)
  IN FlattenSeq([k \in DOMAIN tiles |-> DecodeHexTile(m.body[k], [tiles[k] EXCEPT !.x = @ - HexTile])])

DecodeHextile(m) ==
  LET tiles == TileLoop(m.rect, HexTile)
  IN FlattenSeq([k \in DOMAIN tiles |-> DecodeHexTile(m.body[k], tiles[k])])

-----------------------------------------------------------------------------
(* zrle.  Number k of b bits, from the first byte of a row on. *)
BitsAt(bytes, first, k, b) ==
  (Sym(bytes, first + (k * b) \div 8) \div 2 ^ (8 - b - ((k * b) % 8))) % 2 ^ b

(* Mutant: the reader is not made anew for each row. *)
PackedRows_OneReader(bytes, w, n, b) == [k \in 1 .. n |-> BitsAt(bytes, 1, k - 1, b)]

(* Every row has its own bits_reader, which starts at a byte. *)
PackedRows(bytes, w, n, b) ==
  [k \in 1 .. n |-> BitsAt(bytes, 1 + ((k - 1) \div w) * Padded(w * b), (k - 1) % w, b)]

(* Where the first byte of a run's length is that no other follows. *)
LengthEnds(s) == Min({i \in DOMAIN s : s[i] # Full} \cup {Len(s) + 1})

(* One turn of the loops that take runs, until the tile is full: n is 0
   without a palette.  A colour or an index below 128 comes alone when there
   is a palette. *)
TakeRun(t, n, palette, area) ==
  IF Len(t.cells) = area THEN t
  ELSE LET first == Sym(t.in, 1)
           long == n = 0 \/ first >= 128
           ends == LengthEnds(Drop(t.in, 1))
           length == IF long THEN 1 + (ends - 1) * Full + Sym(t.in, 1 + ends) ELSE 1
           left == area - Len(t.cells)
       IN [cells |-> t.cells \o [i \in 1 .. (IF length < left THEN length ELSE left) |->
                                   IF n = 0 THEN first ELSE palette[first % 128]],
           in |-> Drop(t.in, IF long THEN 1 + ends ELSE 1)]

(* As many turns as there are pixels are enough. *)
TakeRuns(in, n, palette, area) ==
  LET turn[k \in 0 .. area] == IF k = 0 THEN [cells |-> <<>>, in |-> in] ELSE TakeRun(turn[k - 1], n, palette, area)
  IN turn[area]

(* handle_zrle_tile: what it draws, and what it leaves of the data. *)
DecodeZrleTile(data0, t) ==
  LET mode == Sym(data0, 1)
      n == mode % 128
      palette == [i \in 0 .. 255 |-> IF i < n THEN Sym(data0, i + 2) ELSE 0]
      in == Drop(data0, n + 1)
      area == t.w * t.h
      bits == IF n > 16 THEN 8 ELSE IF n > 4 THEN 4 ELSE IF n > 2 THEN 2 ELSE 1
      indices == PackedRows(in, t.w, area, bits)
      runs == TakeRuns(in, n, palette, area)
  IN CASE n = 1 -> [job |-> Fill(t, palette[0]), in |-> in]
       [] n = 0 /\ mode < 128 -> [job |-> Rows(t, Take(in, area)), in |-> Drop(in, area)]
       [] n > 1 /\ mode < 128 -> [job |-> Bitmap(t, [k \in 1 .. area |-> palette[indices[k]]]),
                                  in |-> Drop(in, Padded(t.w * bits) * t.h)]
       [] OTHER -> [job |-> Bitmap(t, runs.cells), in |-> runs.in]

(* All tiles of a rectangle from one inflater, which keeps the rest: left is
   what it had. *)
DecodeZrle(m, left) ==
  LET tiles == TileLoop(m.rect, ZrleTile)
      done[k \in 0 .. Len(tiles)] ==
        IF k = 0 THEN [jobs |-> <<>>, in |-> left \o m.body]
        ELSE LET sofar == done[k - 1]
                 tile == DecodeZrleTile(sofar.in, tiles[k])
             IN [jobs |-> Append(sofar.jobs, tile.job), in |-> tile.in]
  IN done[Len(tiles)]

-----------------------------------------------------------------------------
(* tight.  The pixel of three bytes; 999 stands for what no colour looks like. *)
ToColour(r, g, b) == IF g = r + 100 /\ b = r + 200 THEN r ELSE 999

(* helper::rgb24_to_pixel: three bytes become four where they are, in the
   order in which pixels are given. *)
ConvertInPlace(rgb, order) ==
  LET offsets == 0 .. 4 * Len(order) - 1
      bytes[i \in 0 .. Len(order)] ==
        IF i = 0 THEN [a \in offsets |-> Sym(rgb, a + 1)]
        ELSE LET old == bytes[i - 1]
             IN [a \in offsets |-> CASE a \div 4 # order[i] -> old[a]
                                     [] a \div 4 = order[i] /\ a % 4 = 3 -> 0
                                     [] OTHER -> old[3 * order[i] + (a % 4)]]
      pixels == bytes[Len(order)]
  IN [k \in 1 .. Len(order) |-> ToColour(pixels[4 * k - 4], pixels[4 * k - 3], pixels[4 * k - 2])]

(* Mutant: the first pixel is converted first, over the bytes of the next. *)
Converted_FirstFirst(rgb) == ConvertInPlace(rgb, [k \in 1 .. Len(rgb) \div 3 |-> k - 1])

(* The last pixel is converted first. *)
Converted(rgb) == ConvertInPlace(rgb, [k \in 1 .. Len(rgb) \div 3 |-> Len(rgb) \div 3 - k])

DecodeFill(m) == <<Fill(m.rect, Converted(m.body)[1])>>

(* copy_filter *)
DecodeCopy(m) == <<Rows(m.rect, Converted(m.body))>>

(* palette_filter: bits are read on from row to row, indices are bytes. *)
DecodePalette(m) ==
  LET palette == Converted(m.body.palette)
      index(k) == IF Len(palette) = 2 THEN BitsAt(m.body.data, 1, k, 1) ELSE Sym(m.body.data, k + 1)
  IN <<Rows(m.rect, [k \in 1 .. m.rect.w * m.rect.h |-> palette[index(k - 1) + 1]])>>

(* cursor::decode: full bytes of eight pixels, and a last one of the rest. *)
DecodeCursor(m) ==
  LET w == m.rect.w
      n == w * m.rect.h
      bits == PackedRows(m.body.source, w, n, 1)
  IN [w |-> w, h |-> m.rect.h,
      source |-> IF m.codec = "richcursor" THEN m.body.source
                 ELSE [k \in 1 .. n |-> IF bits[k] = 1 THEN m.body.fore ELSE m.body.back],
      mask |-> PackedRows(m.body.mask, w, n, 1)]

Decode(m, left) ==
  CASE m.codec \in {"raw", "zlib", "jpeg"} -> DecodeRows(m)
    [] m.codec = "ultra" -> DecodeUltra(m)
    [] m.codec \in {"rre", "corre"} -> DecodeRRE(m)
    [] m.codec = "copyrect" -> DecodeCopyRect(m)
    [] m.codec = "ultrazip" -> DecodeUltraZip(m)
    [] m.codec = "hextile" -> DecodeHextile(m)
    [] m.codec = "zrle" -> DecodeZrle(m, left).jobs
    [] m.codec = "fill" -> DecodeFill(m)
    [] m.codec = "copy" -> DecodeCopy(m)
    [] m.codec = "palette" -> DecodePalette(m)
    [] OTHER -> <<>>

FrameCodecs == {"raw", "zlib", "jpeg", "ultra", "rre", "corre", "copyrect", "hextile", "zrle", "fill", "copy", "palette", "gradient"}

(* codec_manager::invoke: all codecs of pixels but ultra_zip give up a rectangle
   that is too large, and with it the session, before they read it; and handle_resize_client_buffer for a new size. *)
ClientDecodes ==
  /\ message.codec # "none"
  /\ message.codec \in FrameCodecs => CheckRect(message.rect.x, message.rect.y, message.rect.w, message.rect.h)
  /\ message' = NoMessage
  /\ jobs' = Decode(message, inflated)
  /\ inflated' = IF message.codec = "zrle" THEN DecodeZrle(message, inflated).in ELSE inflated
  /\ cursor' = IF message.codec \in {"xcursor", "richcursor"} THEN DecodeCursor(message) ELSE cursor
  /\ IF message.codec = "newfbsize" /\ <<message.rect.w, message.rect.h>> # <<width, height>>
     THEN Resize(message.rect.w, message.rect.h) ELSE UNCHANGED frameVars
  /\ UNCHANGED <<picture, shape, sent>>

(* The next operation; one out of bounds draws nothing, but what a codec writes
   itself is not checked. *)
ClientCalls ==
  /\ jobs # <<>> /\ Done
  /\ jobs' = Tail(jobs)
  /\ IF Head(jobs).op = "rows" \/ Allowed(Head(jobs)) THEN Begin(Head(jobs)) ELSE UNCHANGED frameVars
  /\ UNCHANGED <<message, inflated, cursor, picture, shape, sent>>

ClientDraws == DrawRow /\ UNCHANGED <<message, jobs, inflated, cursor, picture, shape, sent>>

Next == ServerSends \/ ClientDecodes \/ ClientCalls \/ ClientDraws

Spec == Init /\ [][Next]_vars

-----------------------------------------------------------------------------
(* When nothing is under way the frame shows the server's picture, wherever
   that is known, whatever was sent before and how; and the inflater, which
   outlives the rectangle, has nothing left for the next. *)
PictureDrawn ==
  Idle => /\ inflated = <<>>
          /\ DOMAIN picture = DOMAIN data
          /\ \A a \in DOMAIN data : picture[a] \in {data[a], Unknown}

(* The cursor handed to the delegate is the server's, pixel by pixel. *)
CursorDrawn == message = NoMessage => cursor = shape
=============================================================================
