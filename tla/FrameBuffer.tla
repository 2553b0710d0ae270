----------------------------- MODULE FrameBuffer -----------------------------
(***************************************************************************)
(* frame_buffer: a picture of width_ by height_ pixels kept row after row  *)
(* in one vector, and the three operations that draw on it a row at a time. *)
(* A pixel is one cell of the vector, its bytes_per_pixel() bytes being    *)
(* moved together; a step of a drawing loop is a step of the model.        *)
(* FrameSpec allows any use of it; Pixels draws with it what the codecs    *)
(* decode.                                                                 *)
(***************************************************************************)
EXTENDS Integers, Sequences

VARIABLES
  width, height,  \* width_ and height_
  data,           \* data_
  job,            \* the operation in progress, or the last one
  row,            \* the row its loop draws next
  before          \* data_ when the operation was called

frameVars == <<width, height, data, job, row, before>>

(* The operation draws w by h pixels at x, y: copy_rect takes them from sx, sy,
   fill_rect has one colour for them, got_bitmap their values; "rows" is what
   a codec writes itself, row by row, through data(x, y). *)
Job == [op : {"none", "copy", "fill", "bitmap", "rows"}, x : Int, y : Int, w : Nat, h : Nat,
        sx : Int, sy : Int, colour : Nat, pixels : Seq(Nat)]

NoJob == [op |-> "none", x |-> 0, y |-> 0, w |-> 0, h |-> 0, sx |-> 0, sy |-> 0, colour |-> 0, pixels |-> <<>>]

(* A bitmap has a pixel for each it covers. *)
Filled(j) == j.op \in {"bitmap", "rows"} => Len(j.pixels) >= j.w * j.h

FrameTypeOK ==
  /\ width \in Nat /\ height \in Nat
  /\ data \in [0 .. width * height - 1 -> Nat]
  /\ job \in Job /\ row \in Int
  /\ before \in [0 .. width * height - 1 -> Nat]

FrameInit ==
  /\ width = 0 /\ height = 0
  /\ data = [a \in 0 .. width * height - 1 |-> 0]
  /\ job = NoJob /\ row = 0 /\ before = data

-----------------------------------------------------------------------------
(* data(x, y), as an offset. *)
Addr(x, y) == y * width + x

CheckRect(x, y, w, h) == x >= 0 /\ y >= 0 /\ x + w <= width /\ y + h <= height

(* Mutant: the vertical overlap is all that counts, in either direction. *)
Overlap_Either(j) == j.y < j.sy + j.h /\ j.y + j.h > j.sy

(* copy_rect goes upwards when it would otherwise overwrite rows it has yet
   to copy. *)
Overlap(j) ==
  /\ j.y > j.sy /\ j.y < j.sy + j.h
  /\ j.x < j.sx + j.w /\ j.x + j.w > j.sx

Upwards(j) == j.op = "copy" /\ Overlap(j)

Done == IF Upwards(job) THEN row < 0 ELSE row >= job.h

(* Pixel i of row r of the block: copy_rect takes it from a vector of pixels. *)
Pixel(j, r, i, pixels) ==
  CASE j.op = "copy" -> pixels[Addr(j.sx + i, j.sy + r)]
    [] j.op \in {"bitmap", "rows"} -> j.pixels[j.w * r + i + 1]
    [] OTHER -> j.colour

-----------------------------------------------------------------------------
(* Mutant: the vector is not resized when it shrinks. *)
MallocFrameBuffer_KeepsLarger(w, h) ==
  [a \in 0 .. (IF w * h < width * height THEN width * height ELSE w * h) - 1 |->
     IF a < width * height THEN data[a] ELSE 0]

(* malloc_frame_buffer: the vector is resized, what was in it keeps its offset,
   whatever row it belongs to now. *)
MallocFrameBuffer(w, h) == [a \in 0 .. w * h - 1 |-> IF a < width * height THEN data[a] ELSE 0]

(* frame_buffer::init, and set_size for another size. *)
Resize(w, h) ==
  /\ Done
  /\ width' = w /\ height' = h
  /\ data' = MallocFrameBuffer(w, h)
  /\ before' = data'
  /\ job' = NoJob /\ row' = 0

(* What got_bitmap, fill_rect and copy_rect do not refuse. *)
Allowed(j) ==
  /\ CheckRect(j.x, j.y, j.w, j.h)
  /\ j.op = "copy" => CheckRect(j.sx, j.sy, j.w, j.h)

(* The start of a drawing loop. *)
Begin(j) ==
  /\ Done
  /\ job' = j
  /\ row' = IF Upwards(j) THEN j.h - 1 ELSE 0
  /\ before' = data
  /\ UNCHANGED <<width, height, data>>

(* An operation, or rows that a codec writes within bounds. *)
Call(j) == Allowed(j) /\ Begin(j)

DrawRow ==
  /\ ~Done
  /\ data' = [a \in 0 .. width * height - 1 |->
                LET i == a - Addr(job.x, job.y + row)
                IN IF i \in 0 .. job.w - 1 THEN Pixel(job, row, i, data) ELSE data[a]]
  /\ row' = IF Upwards(job) THEN row - 1 ELSE row + 1
  /\ UNCHANGED <<width, height, job, before>>

(* Any size, and any rectangle that check_rect lets through. *)
FrameNext ==
  \/ width' \in Nat /\ height' \in Nat /\ Resize(width', height')
  \/ job' \in Job /\ Filled(job') /\ Call(job')
  \/ DrawRow

FrameSpec == FrameInit /\ [][FrameNext]_frameVars

-----------------------------------------------------------------------------
(* What the operation is to leave at column a of row b: the block as it was,
   all at once, and nothing changed outside the rectangle. *)
Drawn(a, b) ==
  IF a - job.x \in 0 .. job.w - 1 /\ b - job.y \in 0 .. job.h - 1
  THEN Pixel(job, b - job.y, a - job.x, before)
  ELSE before[Addr(a, b)]

(* A drawing that is done is the picture it was to be: copy_rect moves a block
   onto any other, overlapping or not, as if in one step. *)
BlockDrawn ==
  Done => \A a \in 0 .. width - 1, b \in 0 .. height - 1 : data[Addr(a, b)] = Drawn(a, b)

(* Every row a loop reads or writes lies within the vector. *)
InBounds ==
  \A r \in 0 .. job.h - 1 : job.w > 0 =>
    /\ Addr(job.x, job.y + r) >= 0 /\ Addr(job.x, job.y + r) + job.w <= width * height
    /\ job.op = "copy" =>
         Addr(job.sx, job.sy + r) >= 0 /\ Addr(job.sx, job.sy + r) + job.w <= width * height
=============================================================================
