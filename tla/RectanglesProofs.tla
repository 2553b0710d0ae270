--------------------------- MODULE RectanglesProofs ---------------------------
(***************************************************************************)
(* What is proved of Rectangles, for any sizes, lengths and counts of      *)
(* colours but 256: every read takes what was written for it, and between  *)
(* two rectangles each inflater has seen what its deflater has sent.       *)
(*                                                                         *)
(* The invariant says what of the rectangle under way is still to come,    *)
(* for each thing the codec may read next.                                 *)
(***************************************************************************)
EXTENDS Rectangles, SequenceTheorems, TLAPS

(* The code takes a palette of 256 colours for one of none. *)
CountFits == 256 \notin Palettes

IsSeq(u) == u \in Seq({u[i] : i \in 1 .. Len(u)})

(* Items after which a codec adds nothing to its plan. *)
Leaves == {"row", "source", "pixel", "subrect", "two", "bits", "mask", "pixels", "data"}

Suits(pl, t) ==
  /\ IsSeq(pl) /\ IsSeq(t) /\ Len(pl) = Len(t)
  /\ \A i \in 1 .. Len(t) : t[i].is \in Leaves /\ t[i].is = pl[i].at /\ t[i].n = pl[i].n

Next1(t, i) == IsSeq(t) /\ t # <<>> /\ Head(t) = i

(* b, of n bytes, is the next block of stream s, counted by its deflater and
   not yet by its inflater. *)
IsBlock(b, n, s, out, inf, def) ==
  /\ s \in Streams
  /\ b = Block(n, s, inf[s], out)
  /\ def = [inf EXCEPT ![s] = @ + 1]

(* Bytes of a rectangle's pixels, as tight counts them. *)
AllBytes(s, bits) == s[2] * Padded(s[1] * bits)

(* What comes of tight's data, x, after its length. *)
Final(s, l, bits, x, n, inf, def) ==
  IF l.ctl = 9 \/ l.plain THEN x = Item("data", n, 0) /\ inf = def
  ELSE IsBlock(x, n, TightStream(l.ctl % 4), AllBytes(s, bits), inf, def)

CompactLengths == Nat \ {0}

Byte(b) == Item("compact", 1, b)
Low(n) == (n % 128) + 128
Mid(n) == ((n \div 128) % 128) + 128
High(n) == n \div 16384
Seven(n) == n % 128
Fourteen(n) == n % 16384
OneByte(n) == n < 128
ThreeBytes(n) == n >= 16384
TwoBytes(n) == n >= 128 /\ n < 16384

(* t is what is left of the length n, and x, when nth bytes said length. *)
Sent(nth, length, n, x, t) ==
  \/ nth = 0 /\ length = 0 /\ OneByte(n) /\ t = <<Byte(n), x>>
  \/ nth = 0 /\ length = 0 /\ TwoBytes(n) /\ t = <<Byte(Low(n)), Byte(n \div 128), x>>
  \/ nth = 0 /\ length = 0 /\ ThreeBytes(n) /\ t = <<Byte(Low(n)), Byte(Mid(n)), Byte(High(n)), x>>
  \/ nth = 1 /\ length = Seven(n) /\ TwoBytes(n) /\ t = <<Byte(n \div 128), x>>
  \/ nth = 1 /\ length = Seven(n) /\ ThreeBytes(n) /\ t = <<Byte(Mid(n)), Byte(High(n)), x>>
  \/ nth = 2 /\ length = Fourteen(n) /\ ThreeBytes(n) /\ t = <<Byte(High(n)), x>>

LengthComes(s, l, bits, nth, length, t, inf, def) ==
  LET x == t[Len(t)]
  IN \E n \in CompactLengths : Sent(nth, length, n, x, t) /\ Final(s, l, bits, x, n, inf, def)

(* tight once the filter is known, *)
DataComes(s, l, bits, t, inf, def) ==
  IF AllBytes(s, bits) < MinToCompress THEN t = <<Item("data", AllBytes(s, bits), 0)>> /\ inf = def
  ELSE LengthComes(s, l, bits, 0, 0, t, inf, def)

(* before a palette of k colours, *)
PaletteComes(s, l, k, bits, t, inf, def) ==
  /\ Next1(t, Item("palette", k * 3, 0))
  /\ DataComes(s, l, bits, Tail(t), inf, def)

(* before their number, *)
ColoursCome(s, l, t, inf, def) ==
  \E k \in 2 .. 255 :
    /\ Next1(t, Item("colours", 1, k - 1))
    /\ PaletteComes(s, l, k, IF k = 2 THEN 1 ELSE 8, Tail(t), inf, def)

(* before the filter, *)
FilterComes(s, l, t, inf, def) ==
  \/ Next1(t, Item("filter", 1, 1)) /\ ColoursCome(s, l, Tail(t), inf, def)
  \/ (Next1(t, Item("filter", 1, 0)) \/ Next1(t, Item("filter", 1, 2))) /\ DataComes(s, l, 24, Tail(t), inf, def)

(* and at its beginning. *)
Cleared(resets, inf) == [t \in Streams |-> IF t \in {TightStream(i) : i \in resets} THEN 0 ELSE inf[t]]

ControlComes(s, t, inf, def) ==
  \E resets \in SUBSET (0 .. 3), op \in 0 .. 14 :
    /\ Next1(t, Control(resets, op))
    /\ LET after == Cleared(resets, inf)
       IN \/ op = 8 /\ Tail(t) = <<Item("pixel", 3, 0)>> /\ after = def
          \/ op = 9 /\ LengthComes(s, Started(9), 24, 0, 0, Tail(t), after, def)
          \/ op \in 0 .. 3 \cup {10} /\ DataComes(s, Started(op), 24, Tail(t), after, def)
          \/ op \in 4 .. 7 \cup {14} /\ FilterComes(s, Started(op), Tail(t), after, def)

(* The stages of a rectangle by what the codec c reads next: the last of the
   plan, *)
LeavesCome(pl, t, inf, def) == Suits(pl, t) /\ inf = def

CountComes(c, pl, t, inf, def) ==
  /\ c \in {"rre", "corre"} /\ inf = def
  /\ pl = <<Read("count", 4), Read("pixel", BytesPerPixel)>>
  /\ \E n \in Nat : Next1(t, Item("count", 4, n)) /\ Suits(<<Read("pixel", BytesPerPixel)>> \o SubrectReads(c, n), Tail(t))

InflaterOf(c, l) == IF c = "tight" THEN TightStream(l.ctl % 4) ELSE c
WantedOf(c, s, l) == IF c = "tight" THEN AllBytes(s, l.bits) ELSE Pixels(s) * BytesPerPixel

BlockComes(c, s, pl, l, t, inf, def) ==
  /\ c \in Buffered /\ Len(t) = 1 /\ IsSeq(t)
  /\ LET b == Head(t) IN t = <<b>> /\ pl = <<Read("block", b.n)>> /\ IsBlock(b, b.n, InflaterOf(c, l), WantedOf(c, s, l), inf, def)

LengthNext(c, s, pl, l, t, inf, def) ==
  /\ pl = <<Read("length", 4)>>
  /\ \E n \in Nat :
       /\ Next1(t, Item("length", 4, n))
       /\ \/ c \in {"ultra", "ultrazip"} /\ Suits(UltraReads(n), Tail(t)) /\ inf = def
          \/ c \in {"zlib", "zrle"} /\ BlockComes(c, s, DeflatedReads(n), l, Tail(t), inf, def)

TightComes(c, s, pl, l, t, inf, def) ==
  /\ c = "tight" /\ l.ctl \in 0 .. 9
  /\ \/ pl = <<Read("control", 1)>> /\ l = Locals /\ ControlComes(s, t, inf, def)
     \/ pl = <<Read("filter", 1)>> /\ l.nth = 0 /\ l.length = 0 /\ FilterComes(s, l, t, inf, def)
     \/ pl = <<Read("colours", 1)>> /\ l.nth = 0 /\ l.length = 0 /\ ColoursCome(s, l, t, inf, def)
     \/ \E k \in Nat : pl = <<Read("palette", k * 3)>> /\ l.nth = 0 /\ l.length = 0 /\ PaletteComes(s, l, k, l.bits, t, inf, def)
     \/ pl = <<Read("compact", 1)>> /\ LengthComes(s, l, l.bits, l.nth, l.length, t, inf, def)

Comes(c, s, pl, l, t, inf, def) ==
  \/ LeavesCome(pl, t, inf, def)
  \/ CountComes(c, pl, t, inf, def)
  \/ LengthNext(c, s, pl, l, t, inf, def)
  \/ BlockComes(c, s, pl, l, t, inf, def)
  \/ TightComes(c, s, pl, l, t, inf, def)

(* A rectangle announced and not begun. *)
Announced ==
  /\ plan = <<>>
  /\ \E c \in Codecs : Next1(s2c, Item("rect", 12, c)) /\ Comes(c, size, First(c, size), Locals, Tail(s2c), inflated, deflated)

Tights == [ctl : Nat, plain : BOOLEAN, bits : Nat, length : Nat, nth : 0 .. 2]

RectInv ==
  /\ up \in {"open", "broken"}
  /\ size \in Nat \X Nat /\ tight \in Tights
  /\ inflated \in [Streams -> Nat] /\ deflated \in [Streams -> Nat]
  /\ up = "open" =>
       /\ rest = [b \in Buffered |-> 0]
       /\ codec \in Codecs \cup {"none"}
       /\ Announced \/ Comes(codec, size, plan, tight, s2c, inflated, deflated)

-----------------------------------------------------------------------------
(* Sequences, of items of any kinds. *)

(* A sequence over any set is one. *)
LEMMA Generic ==
  ASSUME NEW S, NEW u \in Seq(S)
  PROVE  IsSeq(u)
  <1>1. /\ Len(u) \in Nat /\ DOMAIN u = 1 .. Len(u)
        /\ u = [i \in 1 .. Len(u) |-> u[i]]
    OBVIOUS
  <1> QED BY <1>1 DEF IsSeq

(* A function on 1 .. n is one. *)
LEMMA Filled ==
  ASSUME NEW n \in Nat, NEW F, F = [i \in 1 .. n |-> F[i]]
  PROVE  IsSeq(F) /\ Len(F) = n
  <1>1. F \in [1 .. n -> {F[i] : i \in 1 .. n}]
    OBVIOUS
  <1>2. F \in Seq({F[i] : i \in 1 .. n})
    BY <1>1
  <1>3. Len(F) = n
    BY <1>1, <1>2
  <1> QED BY <1>2, <1>3, Generic

(* The head and the tail of an item and what follows it. *)
LEMMA Cons ==
  ASSUME NEW a, NEW u, IsSeq(u)
  PROVE  /\ IsSeq(<<a>> \o u) /\ <<a>> \o u # <<>>
         /\ Head(<<a>> \o u) = a /\ Tail(<<a>> \o u) = u
         /\ Len(<<a>> \o u) = Len(u) + 1
         /\ \A i \in 1 .. Len(u) : (<<a>> \o u)[i + 1] = u[i]
  <1> DEFINE S == {u[i] : i \in 1 .. Len(u)} \cup {a}
  <1>1. u \in Seq(S) /\ <<a>> \in Seq(S)
    BY DEF IsSeq
  <1> HIDE DEF S
  <1>2. <<a>> \o u \in Seq(S) /\ Len(<<a>> \o u) = Len(u) + 1 /\ Len(u) \in Nat
    BY <1>1
  <1>3. (<<a>> \o u)[1] = a /\ \A i \in 1 .. Len(u) : (<<a>> \o u)[i + 1] = u[i]
    BY <1>1
  <1>4. IsSeq(<<a>> \o u)
    BY <1>2, Generic
  <1>5. <<a>> \o u # <<>> /\ Head(<<a>> \o u) = a
    BY <1>2, <1>3
  <1>6. Tail(<<a>> \o u) = u
    <2>1. Tail(<<a>> \o u) \in Seq(S) /\ Len(Tail(<<a>> \o u)) = Len(u)
      BY <1>2, <1>5
    <2>2. \A i \in 1 .. Len(u) : Tail(<<a>> \o u)[i] = (<<a>> \o u)[i + 1]
      BY <1>2, <1>5
    <2> QED BY <1>1, <1>3, <2>1, <2>2
  <1> QED BY <1>2, <1>3, <1>4, <1>5, <1>6

(* Sequences of a few items. *)
LEMMA JoinedOne ==
  ASSUME NEW a, NEW b
  PROVE  <<a>> \o <<b>> = <<a, b>>
  <1> DEFINE u == <<a>> \o <<b>>
  <1>1. u \in Seq({a, b}) /\ Len(u) = 2 /\ u[1] = a /\ u[2] = b
    OBVIOUS
  <1> HIDE DEF u
  <1>2. u = <<a, b>>
    BY <1>1
  <1> QED BY <1>2 DEF u

LEMMA Joined ==
  ASSUME NEW a, NEW b, NEW c
  PROVE  <<a>> \o <<b, c>> = <<a, b, c>>
  <1> DEFINE u == <<a>> \o <<b, c>>
  <1>1. u \in Seq({a, b, c}) /\ Len(u) = 3 /\ u[1] = a /\ u[2] = b /\ u[3] = c
    OBVIOUS
  <1> HIDE DEF u
  <1>2. u = <<a, b, c>>
    BY <1>1
  <1> QED BY <1>2 DEF u

LEMMA JoinedTwo ==
  ASSUME NEW a, NEW b, NEW c
  PROVE  <<a, b>> \o <<c>> = <<a, b, c>>
  <1> DEFINE u == <<a, b>> \o <<c>>
  <1>1. u \in Seq({a, b, c}) /\ Len(u) = 3 /\ u[1] = a /\ u[2] = b /\ u[3] = c
    OBVIOUS
  <1> HIDE DEF u
  <1>2. u = <<a, b, c>>
    BY <1>1
  <1> QED BY <1>2 DEF u

LEMMA JoinedThree ==
  ASSUME NEW a, NEW b, NEW c, NEW d
  PROVE  <<a, b, c>> \o <<d>> = <<a, b, c, d>>
  <1> DEFINE u == <<a, b, c>> \o <<d>>
  <1>1. u \in Seq({a, b, c, d}) /\ Len(u) = 4 /\ u[1] = a /\ u[2] = b /\ u[3] = c /\ u[4] = d
    OBVIOUS
  <1> HIDE DEF u
  <1>2. u = <<a, b, c, d>>
    BY <1>1
  <1> QED BY <1>2 DEF u

LEMMA JoinedFour ==
  ASSUME NEW a, NEW b, NEW c, NEW d
  PROVE  <<a>> \o <<b, c, d>> = <<a, b, c, d>>
  <1> DEFINE u == <<a>> \o <<b, c, d>>
  <1>1. u \in Seq({a, b, c, d}) /\ Len(u) = 4 /\ u[1] = a /\ u[2] = b /\ u[3] = c /\ u[4] = d
    OBVIOUS
  <1> HIDE DEF u
  <1>2. u = <<a, b, c, d>>
    BY <1>1
  <1> QED BY <1>2 DEF u

LEMMA Few ==
  ASSUME NEW a, NEW b, NEW c, NEW d
  PROVE  /\ IsSeq(<<>>) /\ IsSeq(<<a>>) /\ IsSeq(<<a, b>>) /\ IsSeq(<<a, b, c>>) /\ IsSeq(<<a, b, c, d>>)
         /\ Len(<<a>>) = 1 /\ Len(<<a, b>>) = 2 /\ Len(<<a, b, c>>) = 3 /\ Len(<<a, b, c, d>>) = 4
         /\ Head(<<a>>) = a /\ Head(<<a, b>>) = a /\ Head(<<a, b, c>>) = a /\ Head(<<a, b, c, d>>) = a
         /\ Tail(<<a>>) = <<>> /\ Tail(<<a, b>>) = <<b>> /\ Tail(<<a, b, c>>) = <<b, c>>
         /\ Tail(<<a, b, c, d>>) = <<b, c, d>>
  <1>1. /\ <<>> \in Seq({a, b, c, d}) /\ <<a>> \in Seq({a, b, c, d}) /\ <<a, b>> \in Seq({a, b, c, d})
        /\ <<a, b, c>> \in Seq({a, b, c, d}) /\ <<a, b, c, d>> \in Seq({a, b, c, d})
    OBVIOUS
  <1>2. IsSeq(<<>>) /\ IsSeq(<<a>>) /\ IsSeq(<<a, b>>) /\ IsSeq(<<a, b, c>>) /\ IsSeq(<<a, b, c, d>>)
    BY <1>1, Generic
  <1>3. /\ Len(<<a>>) = 1 /\ Len(<<a, b>>) = 2 /\ Len(<<a, b, c>>) = 3 /\ Len(<<a, b, c, d>>) = 4
        /\ Head(<<a>>) = a /\ Head(<<a, b>>) = a /\ Head(<<a, b, c>>) = a /\ Head(<<a, b, c, d>>) = a
    OBVIOUS
  <1>4. Tail(<<a>>) = <<>> /\ Tail(<<a, b>>) = <<b>> /\ Tail(<<a, b, c>>) = <<b, c>>
    OBVIOUS
  <1>5. Tail(<<a, b, c, d>>) = <<b, c, d>>
    OBVIOUS
  <1> QED BY <1>2, <1>3, <1>4, <1>5

(* The tail of a sequence is one. *)
LEMMA Rest ==
  ASSUME NEW t, IsSeq(t), t # <<>>
  PROVE  /\ IsSeq(Tail(t)) /\ Len(Tail(t)) = Len(t) - 1 /\ Len(t) \in Nat \ {0}
         /\ Head(t) = t[1]
         /\ \A i \in 1 .. Len(t) - 1 : Tail(t)[i] = t[i + 1]
  <1> DEFINE S == {t[i] : i \in 1 .. Len(t)}
  <1>1. t \in Seq(S)
    BY DEF IsSeq
  <1> HIDE DEF S
  <1>2. Tail(t) \in Seq(S) /\ Len(Tail(t)) = Len(t) - 1 /\ Len(t) \in Nat \ {0} /\ Head(t) = t[1]
    BY <1>1
  <1>3. \A i \in 1 .. Len(t) - 1 : Tail(t)[i] = t[i + 1]
    BY <1>1
  <1> QED BY <1>2, <1>3, Generic

(* What is added to the plan when nothing, or one read, is. *)
LEMMA Added ==
  ASSUME NEW a, NEW u, IsSeq(u)
  PROVE  /\ <<>> \o u = u
         /\ <<a>> \o Tail(<<u>>) = <<a>> /\ <<>> \o Tail(<<u>>) = <<>>
         /\ Tail(<<u>>) \o u = u
  <1>1. u \in Seq({u[i] : i \in 1 .. Len(u)})
    BY DEF IsSeq
  <1>2. <<>> \o u = u
    BY <1>1
  <1>3. Tail(<<u>>) = <<>>
    OBVIOUS
  <1>4. <<a>> \o <<>> = <<a>> /\ <<>> \o <<>> = <<>>
    OBVIOUS
  <1> QED BY <1>2, <1>3, <1>4

-----------------------------------------------------------------------------
(* The digits of a compact length. *)
LEMMA Divided7 ==
  ASSUME NEW n \in Nat
  PROVE  n \div 128 \in Nat /\ n % 128 \in 0 .. 127 /\ n = 128 * (n \div 128) + (n % 128)
  OBVIOUS

LEMMA Divided14 ==
  ASSUME NEW k \in Nat, NEW m \in Nat, m < 16384
  PROVE  (16384 * k + m) \div 16384 = k /\ (16384 * k + m) % 16384 = m
  OBVIOUS

LEMMA Digits ==
  ASSUME NEW n \in CompactLengths
  PROVE  /\ n < 128 => n % 128 = n
         /\ n >= 128 => Low(n) % 128 = n % 128 /\ Low(n) > 127 /\ Low(n) \in Nat
         /\ n >= 128 /\ n < 16384 => /\ n \div 128 \in 1 .. 127 /\ (n \div 128) % 128 = n \div 128
                                     /\ (n % 128) + (n \div 128) * 128 = n
         /\ n >= 16384 => /\ Mid(n) \in Nat /\ Mid(n) > 127
                          /\ (n % 128) + (Mid(n) % 128) * 128 = n % 16384
                          /\ n \div 16384 \in Nat
                          /\ (n % 16384) + (n \div 16384) * 16384 = n
         /\ n % 128 \in Nat /\ n % 16384 \in Nat /\ n \in Nat /\ n # 0
  <1>1. n \in Nat /\ n > 0
    BY DEF CompactLengths
  <1> DEFINE q == n \div 128
             r == n % 128
             q2 == q \div 128
             r2 == q % 128
  <1>2. q \in Nat /\ r \in 0 .. 127 /\ n = 128 * q + r
    BY <1>1, Divided7
  <1>3. q2 \in Nat /\ r2 \in 0 .. 127 /\ q = 128 * q2 + r2
    <2> HIDE DEF q
    <2> QED BY <1>2, Divided7
  <1>4. n \div 16384 = q2 /\ n % 16384 = 128 * r2 + r
    <2>1. n = 16384 * q2 + (128 * r2 + r) /\ 128 * r2 + r \in 0 .. 16383
      <3> HIDE DEF q, r, q2, r2
      <3> QED BY <1>2, <1>3
    <2> HIDE DEF q, r, q2, r2
    <2> DEFINE m == 128 * r2 + r
    <2>2. m \in Nat /\ m < 16384 /\ n = 16384 * q2 + m
      BY <1>2, <1>3, <2>1
    <2> HIDE DEF m
    <2>3. (16384 * q2 + m) \div 16384 = q2 /\ (16384 * q2 + m) % 16384 = m
      BY <1>3, <2>2, Divided14
    <2>4. n \div 16384 = q2 /\ n % 16384 = m
      BY <2>2, <2>3
    <2> QED BY <2>4 DEF m
  <1>5. n < 128 => n % 128 = n
    BY <1>1
  <1>6. (r + 128) % 128 = r /\ (r2 + 128) % 128 = r2
    <2> HIDE DEF q, r, q2, r2
    <2> QED BY <1>2, <1>3
  <1>7. n < 16384 => q % 128 = q
    <2> HIDE DEF q, r
    <2> QED BY <1>2
  <1>8. Low(n) = r + 128 /\ Mid(n) = r2 + 128
    BY DEF Low, Mid
  <1>9. n \div 128 = q /\ n % 128 = r
    OBVIOUS
  <1> HIDE DEF q, r, q2, r2
  <1>10. n >= 128 => Low(n) % 128 = n % 128 /\ Low(n) > 127 /\ Low(n) \in Nat
    BY <1>2, <1>6, <1>8, <1>9
  <1>11. n >= 128 /\ n < 16384 => /\ n \div 128 \in 1 .. 127 /\ (n \div 128) % 128 = n \div 128
                                  /\ (n % 128) + (n \div 128) * 128 = n
    BY <1>1, <1>2, <1>7, <1>9
  <1>12. n >= 16384 => /\ Mid(n) \in Nat /\ Mid(n) > 127
                       /\ (n % 128) + (Mid(n) % 128) * 128 = n % 16384
                       /\ n \div 16384 \in Nat
                       /\ (n % 16384) + (n \div 16384) * 16384 = n
    BY <1>1, <1>2, <1>3, <1>4, <1>6, <1>8, <1>9
  <1>13. n % 128 \in Nat /\ n % 16384 \in Nat /\ n \in Nat /\ n # 0
    BY <1>1, <1>2, <1>3, <1>4, <1>9
  <1> QED BY <1>5, <1>10, <1>11, <1>12, <1>13

LEMMA Weights == Weight(0) = 1 /\ Weight(1) = 128 /\ Weight(2) = 16384
  BY DEF Weight

LEMMA StreamNames ==
  /\ \A i \in 0 .. 3 : TightStream(i) \in TightStreams
  /\ TightStreams \subseteq Streams
  /\ \A i, j \in 0 .. 3 : TightStream(i) = TightStream(j) => i = j
  <1>1. TightStream(0) = "tight0" /\ TightStream(1) = "tight1" /\ TightStream(2) = "tight2" /\ TightStream(3) = "tight3"
    BY DEF TightStream
  <1>2. \A i \in 0 .. 3 : i = 0 \/ i = 1 \/ i = 2 \/ i = 3
    OBVIOUS
  <1> QED BY <1>1, <1>2 DEF TightStreams, Streams

-----------------------------------------------------------------------------
(* What fits a plan of leaves. *)
LEMMA SuitsNone == Suits(<<>>, <<>>)
  <1>1. IsSeq(<<>>)
    BY Few
  <1>2. Len(<<>>) = 0
    OBVIOUS
  <1> QED BY <1>1, <1>2 DEF Suits

LEMMA SuitsOne ==
  ASSUME NEW k \in Leaves, NEW n, NEW v
  PROVE  Suits(<<Read(k, n)>>, <<Item(k, n, v)>>)
  <1> DEFINE r == Read(k, n)
             i == Item(k, n, v)
  <1>1. r.at = k /\ r.n = n /\ i.is = k /\ i.n = n
    BY DEF Read, Item
  <1> HIDE DEF r, i
  <1>2. IsSeq(<<r>>) /\ IsSeq(<<i>>)
    BY Few
  <1>3. Len(<<r>>) = 1 /\ Len(<<i>>) = 1 /\ <<r>>[1] = r /\ <<i>>[1] = i
    OBVIOUS
  <1>4. Suits(<<r>>, <<i>>)
    BY <1>1, <1>2, <1>3 DEF Suits
  <1> QED BY <1>4 DEF r, i

LEMMA SuitsMore ==
  ASSUME NEW k \in Leaves, NEW n, NEW v, NEW pl, NEW t, Suits(pl, t)
  PROVE  Suits(<<Read(k, n)>> \o pl, <<Item(k, n, v)>> \o t)
  <1> DEFINE p2 == <<Read(k, n)>> \o pl
             t2 == <<Item(k, n, v)>> \o t
  <1>1. IsSeq(pl) /\ IsSeq(t) /\ Len(pl) = Len(t)
    BY DEF Suits
  <1>2. /\ IsSeq(p2) /\ Len(p2) = Len(pl) + 1 /\ Head(p2) = Read(k, n) /\ p2 # <<>>
        /\ \A i \in 1 .. Len(pl) : p2[i + 1] = pl[i]
    BY <1>1, Cons
  <1>3. /\ IsSeq(t2) /\ Len(t2) = Len(t) + 1 /\ Head(t2) = Item(k, n, v) /\ t2 # <<>>
        /\ \A i \in 1 .. Len(t) : t2[i + 1] = t[i]
    BY <1>1, Cons
  <1> HIDE DEF p2, t2
  <1>4. p2[1] = Read(k, n) /\ t2[1] = Item(k, n, v) /\ Len(t2) \in Nat \ {0}
    BY <1>2, <1>3, Rest
  <1>5. ASSUME NEW i \in 1 .. Len(t2)
        PROVE  t2[i].is \in Leaves /\ t2[i].is = p2[i].at /\ t2[i].n = p2[i].n
    <2>1. CASE i = 1
      BY <2>1, <1>4 DEF Read, Item
    <2>2. CASE i # 1
      <3> DEFINE j == i - 1
      <3>1. j \in 1 .. Len(t) /\ j + 1 = i
        BY <2>2, <1>3, <1>4
      <3> HIDE DEF j
      <3>2. t2[i] = t[j] /\ p2[i] = pl[j]
        BY <3>1, <1>1, <1>2, <1>3
      <3>3. t[j].is \in Leaves /\ t[j].is = pl[j].at /\ t[j].n = pl[j].n
        BY <3>1 DEF Suits
      <3> QED BY <3>2, <3>3
    <2> QED BY <2>1, <2>2
  <1>6. Suits(p2, t2)
    BY <1>1, <1>2, <1>3, <1>5 DEF Suits
  <1> QED BY <1>6 DEF p2, t2

(* One read of it and the rest. *)
LEMMA SuitsStep ==
  ASSUME NEW pl, NEW t, Suits(pl, t), t # <<>>
  PROVE  /\ pl # <<>> /\ Suits(Tail(pl), Tail(t))
         /\ Head(t).is \in Leaves /\ Head(t).is = Head(pl).at /\ Head(t).n = Head(pl).n
         /\ IsSeq(Tail(pl))
  <1>1. IsSeq(pl) /\ IsSeq(t) /\ Len(pl) = Len(t)
    BY DEF Suits
  <1>2. /\ IsSeq(Tail(t)) /\ Len(Tail(t)) = Len(t) - 1 /\ Len(t) \in Nat \ {0} /\ Head(t) = t[1]
        /\ \A i \in 1 .. Len(t) - 1 : Tail(t)[i] = t[i + 1]
    BY <1>1, Rest
  <1>3. pl # <<>>
    BY <1>1, <1>2
  <1>4. /\ IsSeq(Tail(pl)) /\ Len(Tail(pl)) = Len(pl) - 1 /\ Head(pl) = pl[1]
        /\ \A i \in 1 .. Len(pl) - 1 : Tail(pl)[i] = pl[i + 1]
    BY <1>1, <1>3, Rest
  <1>5. Head(t).is \in Leaves /\ Head(t).is = Head(pl).at /\ Head(t).n = Head(pl).n
    BY <1>2, <1>4 DEF Suits
  <1>6. ASSUME NEW i \in 1 .. Len(Tail(t))
        PROVE  Tail(t)[i].is \in Leaves /\ Tail(t)[i].is = Tail(pl)[i].at /\ Tail(t)[i].n = Tail(pl)[i].n
    <2>1. i \in 1 .. Len(t) - 1 /\ i + 1 \in 1 .. Len(t)
      BY <1>2
    <2>2. Tail(t)[i] = t[i + 1] /\ Tail(pl)[i] = pl[i + 1]
      BY <2>1, <1>1, <1>2, <1>4
    <2> QED BY <2>1, <2>2 DEF Suits
  <1>7. Suits(Tail(pl), Tail(t))
    BY <1>1, <1>2, <1>4, <1>6 DEF Suits
  <1> QED BY <1>3, <1>4, <1>5, <1>7

(* rre: the background, and n subrectangles. *)
LEMMA SuitsSubrects ==
  ASSUME NEW c, NEW n \in Nat
  PROVE  /\ IsSeq(Subrects(c, n))
         /\ Suits(<<Read("pixel", BytesPerPixel)>> \o SubrectReads(c, n), Subrects(c, n))
  <1> DEFINE t == Subrects(c, n)
             u == SubrectReads(c, n)
             p == <<Read("pixel", BytesPerPixel)>> \o u
  <1>1. 2 * n + 1 \in Nat /\ 2 * n \in Nat
    OBVIOUS
  <1>2. t = [i \in 1 .. 2 * n + 1 |-> t[i]] /\ u = [i \in 1 .. 2 * n |-> u[i]]
    BY DEF Subrects, SubrectReads
  <1>3. /\ \A i \in 1 .. 2 * n + 1 :
             t[i] = IF i = 1 \/ i % 2 = 0 THEN Item("pixel", BytesPerPixel, 0)
                                          ELSE Item("subrect", IF c = "rre" THEN 8 ELSE 4, 0)
        /\ \A i \in 1 .. 2 * n :
             u[i] = IF i % 2 = 1 THEN Read("pixel", BytesPerPixel) ELSE Read("subrect", IF c = "rre" THEN 8 ELSE 4)
    BY DEF Subrects, SubrectReads
  <1> HIDE DEF t, u
  <1>4. IsSeq(t) /\ Len(t) = 2 * n + 1
    BY <1>1, <1>2, Filled
  <1>5. IsSeq(u) /\ Len(u) = 2 * n
    BY <1>1, <1>2, Filled
  <1>6. /\ IsSeq(p) /\ Len(p) = 2 * n + 1 /\ Head(p) = Read("pixel", BytesPerPixel) /\ p # <<>>
        /\ \A i \in 1 .. 2 * n : p[i + 1] = u[i]
    BY <1>5, Cons
  <1> HIDE DEF p
  <1>7. p[1] = Read("pixel", BytesPerPixel)
    BY <1>6, Rest
  <1>8. ASSUME NEW i \in 1 .. Len(t)
        PROVE  t[i].is \in Leaves /\ t[i].is = p[i].at /\ t[i].n = p[i].n
    <2>1. i \in 1 .. 2 * n + 1
      BY <1>4
    <2>2. CASE i = 1
      BY <2>1, <2>2, <1>3, <1>7 DEF Item, Read, Leaves
    <2>3. CASE i # 1
      <3> DEFINE j == i - 1
      <3>1. j \in 1 .. 2 * n /\ j + 1 = i /\ (j % 2 = 1 <=> i % 2 = 0)
        BY <2>1, <2>3
      <3> HIDE DEF j
      <3>2. p[i] = u[j]
        BY <3>1, <1>6
      <3>3. CASE i % 2 = 0
        BY <3>1, <3>2, <3>3, <2>1, <1>3 DEF Item, Read, Leaves
      <3>4. CASE i % 2 # 0
        BY <3>1, <3>2, <3>4, <2>1, <2>3, <1>3 DEF Item, Read, Leaves
      <3> QED BY <3>3, <3>4
    <2> QED BY <2>2, <2>3
  <1>9. Suits(p, t)
    BY <1>4, <1>6, <1>8 DEF Suits
  <1> QED BY <1>4, <1>9 DEF t, u, p

LEMMA SuitsTwo ==
  ASSUME NEW k \in Leaves, NEW n, NEW v, NEW k2 \in Leaves, NEW n2, NEW v2
  PROVE  Suits(<<Read(k, n), Read(k2, n2)>>, <<Item(k, n, v), Item(k2, n2, v2)>>)
  <1>1. Suits(<<Read(k, n)>> \o <<Read(k2, n2)>>, <<Item(k, n, v)>> \o <<Item(k2, n2, v2)>>)
    BY SuitsOne, SuitsMore
  <1>2. /\ <<Read(k, n)>> \o <<Read(k2, n2)>> = <<Read(k, n), Read(k2, n2)>>
        /\ <<Item(k, n, v)>> \o <<Item(k2, n2, v2)>> = <<Item(k, n, v), Item(k2, n2, v2)>>
    BY JoinedOne, Zenon
  <1> QED BY <1>1, <1>2, Zenon

LEMMA SuitsThree ==
  ASSUME NEW k \in Leaves, NEW n, NEW v, NEW k2 \in Leaves, NEW n2, NEW v2, NEW k3 \in Leaves, NEW n3, NEW v3
  PROVE  Suits(<<Read(k, n), Read(k2, n2), Read(k3, n3)>>, <<Item(k, n, v), Item(k2, n2, v2), Item(k3, n3, v3)>>)
  <1>1. Suits(<<Read(k, n)>> \o <<Read(k2, n2), Read(k3, n3)>>, <<Item(k, n, v)>> \o <<Item(k2, n2, v2), Item(k3, n3, v3)>>)
    BY SuitsTwo, SuitsMore
  <1>2. /\ <<Read(k, n)>> \o <<Read(k2, n2), Read(k3, n3)>> = <<Read(k, n), Read(k2, n2), Read(k3, n3)>>
        /\ <<Item(k, n, v)>> \o <<Item(k2, n2, v2), Item(k3, n3, v3)>> = <<Item(k, n, v), Item(k2, n2, v2), Item(k3, n3, v3)>>
    BY Joined, Zenon
  <1> QED BY <1>1, <1>2, Zenon

(* raw: a read for each row. *)
LEMMA SuitsRows ==
  ASSUME NEW s \in Nat \X Nat
  PROVE  Suits(RawReads(s), [i \in 1 .. s[2] |-> Item("row", s[1] * BytesPerPixel, 0)])
  <1> DEFINE t == [i \in 1 .. s[2] |-> Item("row", s[1] * BytesPerPixel, 0)]
             p == RawReads(s)
  <1>1. s[2] \in Nat
    OBVIOUS
  <1>2. t = [i \in 1 .. s[2] |-> t[i]] /\ p = [i \in 1 .. s[2] |-> p[i]]
    BY DEF RawReads
  <1>3. \A i \in 1 .. s[2] : t[i] = Item("row", s[1] * BytesPerPixel, 0) /\ p[i] = Read("row", s[1] * BytesPerPixel)
    BY DEF RawReads
  <1> HIDE DEF t, p
  <1>4. IsSeq(t) /\ Len(t) = s[2] /\ IsSeq(p) /\ Len(p) = s[2]
    BY <1>1, <1>2, Filled
  <1>5. ASSUME NEW i \in 1 .. Len(t)
        PROVE  t[i].is \in Leaves /\ t[i].is = p[i].at /\ t[i].n = p[i].n
    BY <1>3, <1>4 DEF Item, Read, Leaves
  <1>6. Suits(p, t)
    BY <1>4, <1>5 DEF Suits
  <1> QED BY <1>6 DEF t, p

-----------------------------------------------------------------------------
(* What the server sends can all be read. *)

(* A rectangle of the size s that a codec will read to its end. *)
Sends(s) ==
  \E c \in Codecs : \E items :
    /\ IsSeq(items) /\ Begins(c, s, items)
    /\ Comes(c, s, First(c, s), Locals, items, inflated, deflated')

Idle ==
  /\ inflated \in [Streams -> Nat] /\ deflated = inflated

LEMMA FirstReads ==
  ASSUME NEW s
  PROVE  /\ First("raw", s) = RawReads(s) /\ First("copyrect", s) = <<Read("source", 4)>>
         /\ \A c \in {"rre", "corre"} : First(c, s) = <<Read("count", 4), Read("pixel", BytesPerPixel)>>
         /\ \A c \in {"ultra", "ultrazip", "zlib", "zrle"} : First(c, s) = <<Read("length", 4)>>
         /\ First("tight", s) = <<Read("control", 1)>>
         /\ \A c \in {"xcursor", "richcursor"} : First(c, s) = CursorReads(c, s)
  BY DEF First, CopyRectReads

LEMMA PlainSends ==
  ASSUME NEW s \in Nat \X Nat, Idle, Lengths \subseteq Nat, SendPlain(s)
  PROVE  Sends(s) /\ deflated' = deflated
  <1>1. deflated' = deflated /\ inflated = deflated'
    BY DEF SendPlain, Idle
  <1>2. CASE Begins("raw", s, [i \in 1 .. s[2] |-> Item("row", s[1] * BytesPerPixel, 0)])
    <2> DEFINE items == [i \in 1 .. s[2] |-> Item("row", s[1] * BytesPerPixel, 0)]
    <2>1. Suits(RawReads(s), items)
      BY SuitsRows
    <2> HIDE DEF items
    <2>2. IsSeq(items) /\ Comes("raw", s, First("raw", s), Locals, items, inflated, deflated')
      BY <2>1, <1>1, FirstReads DEF Suits, Comes, LeavesCome
    <2>3. Begins("raw", s, items)
      BY <1>2 DEF items
    <2>4. "raw" \in Codecs
      BY DEF Codecs
    <2> QED BY <1>1, <2>2, <2>3, <2>4 DEF Sends
  <1>3. CASE Begins("copyrect", s, <<Item("source", 4, 0)>>)
    <2>1. Suits(<<Read("source", 4)>>, <<Item("source", 4, 0)>>) /\ "copyrect" \in Codecs
      BY SuitsOne DEF Leaves, Codecs
    <2>2. IsSeq(<<Item("source", 4, 0)>>) /\ Comes("copyrect", s, First("copyrect", s), Locals, <<Item("source", 4, 0)>>, inflated, deflated')
      BY <2>1, <1>1, FirstReads DEF Suits, Comes, LeavesCome
    <2> QED BY <1>1, <1>3, <2>1, <2>2 DEF Sends
  <1>4. ASSUME NEW c \in {"rre", "corre"}, NEW n \in 0 .. 2, Begins(c, s, <<Item("count", 4, n)>> \o Subrects(c, n))
        PROVE  Sends(s)
    <2> DEFINE items == <<Item("count", 4, n)>> \o Subrects(c, n)
    <2>1. IsSeq(Subrects(c, n)) /\ Suits(<<Read("pixel", BytesPerPixel)>> \o SubrectReads(c, n), Subrects(c, n))
      BY SuitsSubrects
    <2>2. IsSeq(items) /\ items # <<>> /\ Head(items) = Item("count", 4, n) /\ Tail(items) = Subrects(c, n)
      BY <2>1, Cons
    <2>3. Begins(c, s, items)
      BY <1>4
    <2> HIDE DEF items
    <2>4. CountComes(c, First(c, s), items, inflated, deflated')
      <3>1. First(c, s) = <<Read("count", 4), Read("pixel", BytesPerPixel)>>
        BY FirstReads
      <3>2. Suits(<<Read("pixel", BytesPerPixel)>> \o SubrectReads(c, n), Tail(items))
        BY <2>1, <2>2
      <3>3. n \in Nat /\ Next1(items, Item("count", 4, n))
        BY <2>2 DEF Next1
      <3> QED BY <1>1, <3>1, <3>2, <3>3, Zenon DEF CountComes
    <2>5. c \in Codecs
      BY DEF Codecs
    <2> QED BY <2>2, <2>3, <2>4, <2>5 DEF Sends, Comes
  <1>5. ASSUME NEW c \in {"ultra", "ultrazip"}, NEW n \in Lengths \cup {0},
               Begins(c, s, <<Item("length", 4, n)>> \o IF n = 0 THEN <<>> ELSE <<Item("data", n, 0)>>)
        PROVE  Sends(s)
    <2> DEFINE u == IF n = 0 THEN <<>> ELSE <<Item("data", n, 0)>>
               items == <<Item("length", 4, n)>> \o u
    <2>1. Suits(UltraReads(n), u)
      <3>1. CASE n = 0
        BY <3>1, SuitsNone DEF UltraReads
      <3>2. CASE n # 0
        BY <3>2, SuitsOne DEF UltraReads, Leaves
      <3> QED BY <3>1, <3>2
    <2>2. Begins(c, s, items)
      BY <1>5
    <2> HIDE DEF u
    <2>3. IsSeq(items) /\ items # <<>> /\ Head(items) = Item("length", 4, n) /\ Tail(items) = u
      BY <2>1, Cons DEF Suits
    <2> HIDE DEF items
    <2>4. n \in Nat /\ c \in Codecs
      BY DEF Codecs
    <2>5. LengthNext(c, s, First(c, s), Locals, items, inflated, deflated')
      BY <1>1, <2>1, <2>3, <2>4, FirstReads DEF LengthNext, Next1
    <2> QED BY <2>2, <2>3, <2>4, <2>5 DEF Sends, Comes
  <1>6. Sends(s)
    BY <1>2, <1>3, <1>4, <1>5 DEF SendPlain
  <1> QED BY <1>1, <1>6

LEMMA CursorSends ==
  ASSUME NEW s \in Nat \X Nat, Idle, SendCursor(s)
  PROVE  Sends(s) /\ deflated' = deflated
  <1> DEFINE mask == Padded(s[1]) * s[2]
             none == Pixels(s) = 0
             x == IF none THEN <<>> ELSE <<Item("two", 6, 0), Item("bits", mask, 0), Item("mask", mask, 0)>>
             r == IF none THEN <<>> ELSE <<Item("pixels", Pixels(s) * BytesPerPixel, 0), Item("mask", mask, 0)>>
  <1>1. deflated' = deflated /\ inflated = deflated'
    BY DEF SendCursor, Idle
  <1>2. Begins("xcursor", s, x) \/ Begins("richcursor", s, r)
    BY DEF SendCursor
  <1>3. Suits(First("xcursor", s), x)
    <2>1. First("xcursor", s) = CursorReads("xcursor", s)
      BY FirstReads
    <2>2. CASE none
      <3>1. CursorReads("xcursor", s) = <<>>
        <4> HIDE DEF x
        <4> QED BY <2>2, Zenon DEF CursorReads
      <3>2. x = <<>>
        BY <2>2, Zenon
      <3> QED BY <2>1, <3>1, <3>2, SuitsNone
    <2>3. CASE ~none
      <3>1. CursorReads("xcursor", s) = <<Read("two", 6), Read("bits", mask), Read("mask", mask)>>
        BY <2>3 DEF CursorReads, MaskBytes
      <3>2. x = <<Item("two", 6, 0), Item("bits", mask, 0), Item("mask", mask, 0)>>
        BY <2>3
      <3> HIDE DEF x, mask
      <3>3. Suits(<<Read("two", 6), Read("bits", mask), Read("mask", mask)>>, <<Item("two", 6, 0), Item("bits", mask, 0), Item("mask", mask, 0)>>)
        BY SuitsThree DEF Leaves
      <3> QED BY <2>1, <3>1, <3>2, <3>3
    <2> QED BY <2>2, <2>3
  <1>4. Suits(First("richcursor", s), r)
    <2>1. CASE none
      BY <2>1, SuitsNone, FirstReads DEF CursorReads
    <2>2. CASE ~none
      BY <2>2, SuitsTwo, FirstReads DEF CursorReads, MaskBytes, Leaves
    <2> QED BY <2>1, <2>2
  <1>5. "xcursor" \in Codecs /\ "richcursor" \in Codecs
    BY DEF Codecs
  <1> HIDE DEF x, r
  <1>6. Sends(s)
    BY <1>1, <1>2, <1>3, <1>4, <1>5 DEF Sends, Comes, LeavesCome, Suits
  <1> QED BY <1>1, <1>6

LEMMA StreamsAfter ==
  ASSUME Idle, NEW st \in Streams, NEW names, Deflates(st, names)
  PROVE  deflated' = [[t \in Streams |-> IF t \in names THEN 0 ELSE inflated[t]] EXCEPT ![st] = @ + 1]
  BY DEF Idle, Deflates

LEMMA DeflatedSends ==
  ASSUME NEW s \in Nat \X Nat, Idle, Lengths \subseteq Nat, SendDeflated(s)
  PROVE  Sends(s) /\ deflated' \in [Streams -> Nat]
  <1>1. PICK c \in {"zlib", "zrle"}, n \in Lengths :
          /\ Deflates(c, {})
          /\ Begins(c, s, <<Item("length", 4, n), Block(n, c, deflated[c], Pixels(s) * BytesPerPixel)>>)
    BY DEF SendDeflated
  <1> DEFINE b == Block(n, c, inflated[c], Pixels(s) * BytesPerPixel)
             i == Item("length", 4, n)
  <1>2. c \in Streams /\ c \in Codecs /\ c \in Buffered /\ c # "tight" /\ n \in Nat
    BY DEF Streams, Codecs, Buffered
  <1>3. deflated' = [inflated EXCEPT ![c] = @ + 1]
    <2>1. [t \in Streams |-> IF t \in {} THEN 0 ELSE inflated[t]] = inflated
      BY DEF Idle
    <2> QED BY <1>1, <1>2, <2>1, StreamsAfter
  <1>4. Begins(c, s, <<i, b>>)
    BY <1>1 DEF Idle
  <1>5. b.n = n /\ IsBlock(b, b.n, InflaterOf(c, Locals), WantedOf(c, s, Locals), inflated, deflated')
    BY <1>2, <1>3 DEF IsBlock, InflaterOf, WantedOf, Block
  <1> HIDE DEF b, i
  <1>6. /\ IsSeq(<<i, b>>) /\ <<i, b>> # <<>> /\ Head(<<i, b>>) = i /\ Tail(<<i, b>>) = <<b>>
        /\ IsSeq(<<b>>) /\ Len(<<b>>) = 1 /\ Head(<<b>>) = b
    BY Few
  <1>7. BlockComes(c, s, DeflatedReads(n), Locals, <<b>>, inflated, deflated')
    BY <1>2, <1>5, <1>6 DEF BlockComes, DeflatedReads
  <1>8. LengthNext(c, s, First(c, s), Locals, <<i, b>>, inflated, deflated')
    <2>1. First(c, s) = <<Read("length", 4)>>
      BY FirstReads
    <2>2. Next1(<<i, b>>, Item("length", 4, n))
      BY <1>6 DEF Next1, i
    <2> QED BY <1>2, <1>6, <1>7, <2>1, <2>2 DEF LengthNext
  <1>9. Sends(s)
    BY <1>2, <1>4, <1>6, <1>8 DEF Sends, Comes
  <1>10. deflated' \in [Streams -> Nat]
    <2>1. inflated \in [Streams -> Nat]
      BY DEF Idle
    <2> QED BY <1>2, <1>3, <2>1
  <1> QED BY <1>9, <1>10

-----------------------------------------------------------------------------
(* What tight sends. *)
LEMMA CompactSent ==
  ASSUME NEW n \in CompactLengths, NEW x
  PROVE  LET t == Compact(n) \o <<x>>
         IN IsSeq(t) /\ Sent(0, 0, n, x, t) /\ t[Len(t)] = x
  <1> DEFINE t == Compact(n) \o <<x>>
             a == Byte(n)
             b == Byte(Low(n))
             c == Byte(n \div 128)
             d == Byte(Mid(n))
             e == Byte(High(n))
  <1> HIDE DEF t
  <1> SUFFICES IsSeq(t) /\ Sent(0, 0, n, x, t) /\ t[Len(t)] = x
    BY DEF t
  <1>1. CASE OneByte(n)
    <2>1. Compact(n) = <<a>>
      BY <1>1 DEF Compact, Byte, Low, Mid, High, OneByte, TwoBytes, ThreeBytes, CompactLengths
    <2> HIDE DEF a
    <2>2. t = <<a, x>> /\ IsSeq(<<a, x>>)
      <3>1. <<a>> \o <<x>> = <<a, x>>
        BY JoinedOne
      <3>2. IsSeq(<<a, x>>)
        BY Few
      <3> QED BY <2>1, <3>1, <3>2, Zenon DEF t
    <2>3. t[Len(t)] = x
      BY <2>2
    <2>4. Sent(0, 0, n, x, t)
      <3>1. t = <<Byte(n), x>>
        BY <2>2, Zenon DEF a
      <3> QED BY <1>1, <3>1, Zenon DEF Sent
    <2> QED BY <2>2, <2>3, <2>4
  <1>2. CASE TwoBytes(n)
    <2>1. Compact(n) = <<b, c>>
      BY <1>2 DEF Compact, Byte, Low, Mid, High, OneByte, TwoBytes, ThreeBytes, CompactLengths
    <2> HIDE DEF b, c
    <2>2. t = <<b, c, x>> /\ IsSeq(<<b, c, x>>)
      <3>1. <<b, c>> \o <<x>> = <<b, c, x>>
        BY JoinedTwo
      <3>2. IsSeq(<<b, c, x>>)
        BY Few, Zenon
      <3> QED BY <2>1, <3>1, <3>2, Zenon DEF t
    <2>3. t[Len(t)] = x
      BY <2>2
    <2>4. Sent(0, 0, n, x, t)
      <3>1. t = <<Byte(Low(n)), Byte(n \div 128), x>>
        BY <2>2, Zenon DEF b, c
      <3> QED BY <1>2, <3>1, Zenon DEF Sent
    <2> QED BY <2>2, <2>3, <2>4
  <1>3. CASE ThreeBytes(n)
    <2>1. Compact(n) = <<b, d, e>>
      BY <1>3 DEF Compact, Byte, Low, Mid, High, OneByte, TwoBytes, ThreeBytes, CompactLengths
    <2> HIDE DEF b, d, e
    <2>2. t = <<b, d, e, x>> /\ IsSeq(<<b, d, e, x>>)
      <3>1. <<b, d, e>> \o <<x>> = <<b, d, e, x>>
        BY JoinedThree
      <3>2. IsSeq(<<b, d, e, x>>)
        BY Few, Zenon
      <3> QED BY <2>1, <3>1, <3>2, Zenon DEF t
    <2>3. t[Len(t)] = x
      BY <2>2
    <2>4. Sent(0, 0, n, x, t)
      <3>1. t = <<Byte(Low(n)), Byte(Mid(n)), Byte(High(n)), x>>
        BY <2>2, Zenon DEF b, d, e
      <3> QED BY <1>3, <3>1, Zenon DEF Sent
    <2> QED BY <2>2, <2>3, <2>4
  <1>4. n \in Nat
    BY DEF CompactLengths
  <1>5. OneByte(n) \/ TwoBytes(n) \/ ThreeBytes(n)
    BY <1>4 DEF OneByte, TwoBytes, ThreeBytes
  <1> QED BY <1>1, <1>2, <1>3, <1>5

LEMMA LengthSent ==
  ASSUME NEW s, NEW l, NEW bits, NEW n \in CompactLengths, NEW x, NEW inf, NEW def, Final(s, l, bits, x, n, inf, def)
  PROVE  /\ IsSeq(Compact(n) \o <<x>>)
         /\ LengthComes(s, l, bits, 0, 0, Compact(n) \o <<x>>, inf, def)
  <1> DEFINE t == Compact(n) \o <<x>>
  <1>1. IsSeq(t) /\ Sent(0, 0, n, x, t) /\ t[Len(t)] = x
    BY CompactSent
  <1> HIDE DEF t
  <1>2. LengthComes(s, l, bits, 0, 0, t, inf, def)
    BY <1>1 DEF LengthComes
  <1> QED BY <1>1, <1>2 DEF t

LEMMA ThreeMore ==
  ASSUME NEW a, NEW b, NEW c, NEW u, IsSeq(u)
  PROVE  <<a, b, c>> \o u = <<a>> \o (<<b>> \o (<<c>> \o u))
  <1> DEFINE S == {u[i] : i \in 1 .. Len(u)} \cup {a, b, c}
  <1>1. u \in Seq(S) /\ <<a>> \in Seq(S) /\ <<b>> \in Seq(S) /\ <<c>> \in Seq(S) /\ <<b, c>> \in Seq(S)
    BY DEF IsSeq
  <1> HIDE DEF S
  <1>2. <<a, b, c>> = <<a>> \o <<b, c>> /\ <<b, c>> = <<b>> \o <<c>>
    <2>1. <<b, c>> = <<b>> \o <<c>>
      BY JoinedOne
    <2> QED BY <2>1, Joined
  <1>3. (<<b>> \o <<c>>) \o u = <<b>> \o (<<c>> \o u)
    BY <1>1, ConcatAssociative
  <1>4. (<<a>> \o <<b, c>>) \o u = <<a>> \o (<<b, c>> \o u)
    BY <1>1, ConcatAssociative
  <1> QED BY <1>2, <1>3, <1>4

(* A rectangle of tight with no filter, a filter, or a palette. *)
LEMMA NoFilterSent ==
  ASSUME NEW s, NEW inf, NEW def, NEW resets \in SUBSET (0 .. 3), NEW op \in 0 .. 3 \cup {10}, NEW u, IsSeq(u),
         DataComes(s, Started(op), 24, u, Cleared(resets, inf), def)
  PROVE  LET t == <<Control(resets, op)>> \o (<<>> \o u)
         IN IsSeq(t) /\ TightComes("tight", s, <<Read("control", 1)>>, Locals, t, inf, def)
  <1> DEFINE t == <<Control(resets, op)>> \o (<<>> \o u)
  <1>1. <<>> \o u = u
    BY Added
  <1>2. IsSeq(t) /\ t # <<>> /\ Head(t) = Control(resets, op) /\ Tail(t) = u
    BY <1>1, Cons
  <1> HIDE DEF t
  <1>3. Next1(t, Control(resets, op)) /\ op \in 0 .. 14
    BY <1>2 DEF Next1
  <1>4. ControlComes(s, t, inf, def)
    BY <1>2, <1>3 DEF ControlComes
  <1>5. Locals.ctl \in 0 .. 9
    BY DEF Locals, LocalsOf
  <1>6. TightComes("tight", s, <<Read("control", 1)>>, Locals, t, inf, def)
    BY <1>4, <1>5 DEF TightComes
  <1> QED BY <1>2, <1>6 DEF t

LEMMA FilterSent ==
  ASSUME NEW s, NEW inf, NEW def, NEW resets \in SUBSET (0 .. 3), NEW op \in 4 .. 7 \cup {14}, NEW u, IsSeq(u),
         FilterComes(s, Started(op), u, Cleared(resets, inf), def)
  PROVE  LET t == <<Control(resets, op)>> \o u
         IN IsSeq(t) /\ TightComes("tight", s, <<Read("control", 1)>>, Locals, t, inf, def)
  <1> DEFINE t == <<Control(resets, op)>> \o u
  <1>2. IsSeq(t) /\ t # <<>> /\ Head(t) = Control(resets, op) /\ Tail(t) = u
    BY Cons
  <1> HIDE DEF t
  <1>3. Next1(t, Control(resets, op)) /\ op \in 0 .. 14
    BY <1>2 DEF Next1
  <1>4. ControlComes(s, t, inf, def)
    BY <1>2, <1>3 DEF ControlComes
  <1>5. Locals.ctl \in 0 .. 9
    BY DEF Locals, LocalsOf
  <1>6. TightComes("tight", s, <<Read("control", 1)>>, Locals, t, inf, def)
    BY <1>4, <1>5 DEF TightComes
  <1> QED BY <1>2, <1>6 DEF t

LEMMA CopySent ==
  ASSUME NEW s, NEW l, NEW inf, NEW def, NEW f \in {0, 2}, NEW u, IsSeq(u), DataComes(s, l, 24, u, inf, def)
  PROVE  LET t == <<Item("filter", 1, f)>> \o u IN IsSeq(t) /\ FilterComes(s, l, t, inf, def)
  <1> DEFINE t == <<Item("filter", 1, f)>> \o u
  <1>1. IsSeq(t) /\ t # <<>> /\ Head(t) = Item("filter", 1, f) /\ Tail(t) = u
    BY Cons
  <1> HIDE DEF t
  <1>2. Next1(t, Item("filter", 1, f))
    BY <1>1 DEF Next1
  <1>3. FilterComes(s, l, t, inf, def)
    <2>1. CASE f = 0
      BY <1>1, <1>2, <2>1 DEF FilterComes
    <2>2. CASE f = 2
      BY <1>1, <1>2, <2>2 DEF FilterComes
    <2> QED BY <2>1, <2>2
  <1> QED BY <1>1, <1>3 DEF t

LEMMA PaletteSent ==
  ASSUME NEW s, NEW l, NEW inf, NEW def, NEW k \in 2 .. 255, NEW u, IsSeq(u),
         DataComes(s, l, IF k = 2 THEN 1 ELSE 8, u, inf, def)
  PROVE  LET t == <<Item("filter", 1, 1), Item("colours", 1, k - 1), Item("palette", k * 3, 0)>> \o u
         IN IsSeq(t) /\ FilterComes(s, l, t, inf, def)
  <1> DEFINE a == Item("filter", 1, 1)
             b == Item("colours", 1, k - 1)
             c == Item("palette", k * 3, 0)
             t == <<a, b, c>> \o u
             t3 == <<c>> \o u
             t2 == <<b>> \o t3
             bits == IF k = 2 THEN 1 ELSE 8
  <1>1. t = <<a>> \o t2
    BY ThreeMore
  <1>2. IsSeq(t3) /\ t3 # <<>> /\ Head(t3) = c /\ Tail(t3) = u
    BY Cons
  <1> HIDE DEF t3
  <1>3. IsSeq(t2) /\ t2 # <<>> /\ Head(t2) = b /\ Tail(t2) = t3
    BY <1>2, Cons
  <1> HIDE DEF t2
  <1> DEFINE t1 == <<a>> \o t2
  <1>c. IsSeq(t1) /\ t1 # <<>> /\ Head(t1) = a /\ Tail(t1) = t2
    BY <1>3, Cons
  <1> HIDE DEF t1
  <1>4. IsSeq(t) /\ t # <<>> /\ Head(t) = a /\ Tail(t) = t2
    <2>1. t = t1
      BY <1>1 DEF t1
    <2> HIDE DEF t
    <2> QED BY <1>c, <2>1
  <1> HIDE DEF t
  <1>5. PaletteComes(s, l, k, bits, t3, inf, def)
    BY <1>2 DEF PaletteComes, Next1
  <1>6. ColoursCome(s, l, t2, inf, def)
    BY <1>3, <1>5 DEF ColoursCome, Next1
  <1>7. FilterComes(s, l, t, inf, def)
    BY <1>4, <1>6 DEF FilterComes, Next1
  <1> QED BY <1>4, <1>7 DEF t

LEMMA StartedIs ==
  ASSUME NEW op
  PROVE  /\ Started(op).ctl = Operation(op) /\ Started(op).plain = ReadUncompressed(op)
         /\ Started(op).nth = 0 /\ Started(op).length = 0 /\ Started(op).bits = 24
         /\ op \in 0 .. 14 => Started(op) \in Tights
  <1>1. Started(op) = [ctl |-> Operation(op), plain |-> ReadUncompressed(op), bits |-> 24, length |-> 0, nth |-> 0]
    BY Zenon DEF Started, LocalsOf
  <1>2. op \in 0 .. 14 => Operation(op) \in Nat
    BY DEF Operation, ReadUncompressed
  <1>3. ReadUncompressed(op) \in BOOLEAN
    BY DEF ReadUncompressed
  <1> QED BY <1>1, <1>2, <1>3 DEF Tights

(* What is sent whatever the filter. *)
OpOf(i, zlib, colours, filter) == (IF zlib THEN i ELSE 10) + IF colours = 0 /\ filter = "none" THEN 0 ELSE 4

SendsData(s, resets, i, zlib, colours, filter) ==
  LET op == OpOf(i, zlib, colours, filter)
  IN \E data : /\ IsSeq(data)
               /\ Begins("tight", s, <<Control(resets, op)>> \o (Filter(colours, filter) \o data))
               /\ DataComes(s, Started(op), PixelBits(colours), data, Cleared(resets, inflated), deflated')

LEMMA BasicData ==
  ASSUME NEW s \in Nat \X Nat, Idle, Used \subseteq 0 .. 3, Lengths \subseteq Nat \ {0},
         NEW resets \in SUBSET Used, NEW i \in Used, NEW zlib, NEW colours \in Nat, NEW filter,
         SendBasic(s, resets, i, zlib, colours, filter)
  PROVE  deflated' \in [Streams -> Nat] /\ SendsData(s, resets, i, zlib, colours, filter)
  <1> DEFINE op == (IF zlib THEN i ELSE 10) + IF colours = 0 /\ filter = "none" THEN 0 ELSE 4
             bits == PixelBits(colours)
             all == AllBytes(s, bits)
             d == Item("data", all, 0)
             after == Cleared(resets, inflated)
             sends(data) == Begins("tight", s, <<Control(resets, op)>> \o (Filter(colours, filter) \o data))
             st == TightStream(i)
             block(n) == Block(n, st, IF i \in resets THEN 0 ELSE deflated[st], all)
             Goal == /\ deflated' \in [Streams -> Nat]
                     /\ \E data : IsSeq(data) /\ sends(data) /\ DataComes(s, Started(op), bits, data, after, deflated')
  <1> SUFFICES Goal
    BY DEF SendsData, OpOf
  <1>1. after \in [Streams -> Nat] /\ after = [t \in Streams |-> IF t \in TightNames(resets) THEN 0 ELSE deflated[t]]
    BY DEF Cleared, TightNames, Idle
  <1>2. \/ all < 12 /\ Clears(resets) /\ sends(<<d>>)
        \/ all >= 12 /\ ~zlib /\ Clears(resets) /\ sends(Compact(all) \o <<d>>)
        \/ /\ all >= 12 /\ zlib /\ Deflates(st, TightNames(resets))
           /\ \E n \in Lengths : sends(Compact(n) \o <<block(n)>>)
    BY DEF SendBasic, AllBytes
  <1>3. all \in Nat
    <2>1. bits \in Nat
      BY DEF PixelBits
    <2>2. s[1] \in Nat /\ s[2] \in Nat
      OBVIOUS
    <2> HIDE DEF bits
    <2>3. s[1] * bits \in Nat
      BY <2>1, <2>2
    <2>4. Padded(s[1] * bits) \in Nat
      BY <2>3 DEF Padded
    <2> QED BY <2>2, <2>4 DEF AllBytes
  <1>4. i \in 0 .. 3
    OBVIOUS
  <1>5. /\ zlib => /\ Started(op).ctl = op /\ Started(op).plain = FALSE /\ op # 9 /\ op % 4 = i
        /\ ~zlib => Started(op).plain = TRUE
    <2>1. zlib => op \in {i, i + 4}
      OBVIOUS
    <2>2. ~zlib => op \in {10, 14}
      OBVIOUS
    <2> HIDE DEF op
    <2>3. zlib => ~(op > 9) /\ op # 9 /\ op % 4 = i
      BY <2>1, <1>4
    <2>4. ~zlib => op > 9
      BY <2>2
    <2>5. Started(op).ctl = Operation(op) /\ Started(op).plain = ReadUncompressed(op)
      BY StartedIs
    <2>6. CASE zlib
      <3>1. op # 10 /\ op # 11 /\ op # 14 /\ op # 15
        BY <2>3, <2>6, <2>1
      <3>2. ReadUncompressed(op) = FALSE /\ Operation(op) = op
        BY <3>1 DEF ReadUncompressed, Operation
      <3> QED BY <2>3, <2>5, <2>6, <3>2
    <2>7. CASE ~zlib
      <3>1. ReadUncompressed(op) = TRUE
        BY <2>2, <2>7 DEF ReadUncompressed
      <3> QED BY <2>5, <2>7, <3>1
    <2> QED BY <2>6, <2>7
  <1>6. Clears(resets) => deflated' = after
    BY <1>1 DEF Clears
  <1>7. CASE all < 12 /\ Clears(resets) /\ sends(<<d>>)
    <2>1. IsSeq(<<d>>)
      BY Few
    <2>2. DataComes(s, Started(op), bits, <<d>>, after, deflated')
      BY <1>6, <1>7 DEF DataComes, MinToCompress
    <2> HIDE DEF d
    <2> QED BY <1>1, <1>6, <1>7, <2>1, <2>2
  <1>8. CASE all >= 12 /\ ~zlib /\ Clears(resets) /\ sends(Compact(all) \o <<d>>)
    <2>1. all \in CompactLengths /\ ~(all < MinToCompress)
      BY <1>3, <1>8 DEF CompactLengths, MinToCompress
    <2>2. Final(s, Started(op), bits, d, all, after, deflated')
      BY <1>5, <1>6, <1>8 DEF Final
    <2> HIDE DEF d, after, op, bits
    <2>3. IsSeq(Compact(all) \o <<d>>) /\ LengthComes(s, Started(op), bits, 0, 0, Compact(all) \o <<d>>, after, deflated')
      BY <2>1, <2>2, LengthSent
    <2>4. DataComes(s, Started(op), bits, Compact(all) \o <<d>>, after, deflated')
      BY <2>1, <2>3 DEF DataComes
    <2> QED BY <1>1, <1>6, <1>8, <2>3, <2>4
  <1>9. CASE /\ all >= 12 /\ zlib /\ Deflates(st, TightNames(resets))
             /\ \E n \in Lengths : sends(Compact(n) \o <<block(n)>>)
    <2>1. PICK n \in Lengths : sends(Compact(n) \o <<block(n)>>)
      BY <1>9
    <2>2. st \in Streams
      BY <1>4, StreamNames
    <2>3. deflated' = [after EXCEPT ![st] = @ + 1]
      <3>1. deflated' = [[t \in Streams |-> IF t \in TightNames(resets) THEN 0 ELSE inflated[t]] EXCEPT ![st] = @ + 1]
        BY <1>9, <2>2, StreamsAfter
      <3>2. deflated = inflated
        BY DEF Idle
      <3> QED BY <1>1, <3>1, <3>2
    <2>4. deflated' \in [Streams -> Nat]
      BY <1>1, <2>2, <2>3
    <2>5. after[st] = IF i \in resets THEN 0 ELSE deflated[st]
      <3>1. st \in TightNames(resets) <=> i \in resets
        <4>1. resets \subseteq 0 .. 3
          OBVIOUS
        <4> QED BY <1>4, <4>1, StreamNames DEF TightNames
      <3> QED BY <1>1, <2>2, <3>1
    <2>6. block(n) = Block(n, st, after[st], all)
      BY <2>5
    <2> DEFINE b == Block(n, st, after[st], all)
    <2>7. IsBlock(b, n, st, all, after, deflated')
      BY <2>2, <2>3 DEF IsBlock
    <2>8. Final(s, Started(op), bits, b, n, after, deflated')
      BY <1>5, <1>9, <2>7 DEF Final
    <2>9. n \in CompactLengths /\ ~(all < MinToCompress)
      BY <1>3, <1>9 DEF CompactLengths, MinToCompress
    <2>10. sends(Compact(n) \o <<b>>)
      BY <2>1, <2>6
    <2> HIDE DEF b, after, op, bits
    <2>11. IsSeq(Compact(n) \o <<b>>) /\ LengthComes(s, Started(op), bits, 0, 0, Compact(n) \o <<b>>, after, deflated')
      BY <2>8, <2>9, LengthSent
    <2>12. DataComes(s, Started(op), bits, Compact(n) \o <<b>>, after, deflated')
      BY <2>9, <2>11 DEF DataComes
    <2> QED BY <2>4, <2>10, <2>11, <2>12
  <1> QED BY <1>2, <1>7, <1>8, <1>9

LEMMA TightReads ==
  ASSUME NEW s, NEW items, IsSeq(items), Begins("tight", s, items),
         TightComes("tight", s, <<Read("control", 1)>>, Locals, items, inflated, deflated')
  PROVE  Sends(s)
  <1>1. First("tight", s) = <<Read("control", 1)>>
    BY FirstReads
  <1>2. "tight" \in Codecs
    BY DEF Codecs
  <1> QED BY <1>1, <1>2 DEF Sends, Comes

Filters == {"none", "copy", "gradient"}
ColourCounts == 2 .. 255 \cup {0}

LEMMA BasicSends ==
  ASSUME NEW s \in Nat \X Nat, Idle, Used \subseteq 0 .. 3, Lengths \subseteq Nat \ {0},
         NEW resets \in SUBSET Used, NEW i \in Used, NEW zlib, NEW colours \in ColourCounts,
         NEW filter \in Filters,
         SendBasic(s, resets, i, zlib, colours, filter)
  PROVE  Sends(s) /\ deflated' \in [Streams -> Nat]
  <1> DEFINE op == OpOf(i, zlib, colours, filter)
             after == Cleared(resets, inflated)
  <1>1. colours \in Nat /\ resets \in SUBSET (0 .. 3) /\ i \in 0 .. 3
    BY DEF ColourCounts
  <1>2. deflated' \in [Streams -> Nat] /\ SendsData(s, resets, i, zlib, colours, filter)
    BY <1>1, BasicData
  <1>3. PICK data : /\ IsSeq(data)
                    /\ Begins("tight", s, <<Control(resets, op)>> \o (Filter(colours, filter) \o data))
                    /\ DataComes(s, Started(op), PixelBits(colours), data, after, deflated')
    BY <1>2 DEF SendsData
  <1>4. IF colours = 0 /\ filter = "none" THEN op \in 0 .. 3 \cup {10} ELSE op \in 4 .. 7 \cup {14}
    BY <1>1 DEF OpOf
  <1> HIDE DEF op, after
  <1>5. CASE colours = 0 /\ filter = "none"
    <2>1. Filter(colours, filter) = <<>> /\ PixelBits(colours) = 24
      BY <1>5 DEF Filter, PixelBits
    <2> DEFINE t == <<Control(resets, op)>> \o (<<>> \o data)
    <2>2. IsSeq(t) /\ TightComes("tight", s, <<Read("control", 1)>>, Locals, t, inflated, deflated')
      BY <1>1, <1>3, <1>4, <1>5, <2>1, NoFilterSent DEF after
    <2>3. Begins("tight", s, t)
      BY <1>3, <2>1
    <2> HIDE DEF t
    <2> QED BY <1>2, <2>2, <2>3, TightReads
  <1>6. CASE ~(colours = 0 /\ filter = "none")
    <2> DEFINE u == Filter(colours, filter) \o data
               t == <<Control(resets, op)>> \o u
    <2>1. IsSeq(u) /\ FilterComes(s, Started(op), u, after, deflated')
      <3>1. CASE colours = 0
        <4>1. PixelBits(colours) = 24
          BY <3>1 DEF PixelBits
        <4> DEFINE f == IF filter = "copy" THEN 0 ELSE 2
        <4>2. Filter(colours, filter) = <<Item("filter", 1, f)>> /\ f \in {0, 2}
          BY <1>6, <3>1 DEF Filter
        <4> HIDE DEF f
        <4> QED BY <1>3, <4>1, <4>2, CopySent
      <3>2. CASE colours # 0
        <4>1. colours \in 2 .. 255
          BY <3>2 DEF ColourCounts
        <4>2. PixelBits(colours) = IF colours = 2 THEN 1 ELSE 8
          BY <3>2 DEF PixelBits
        <4>3. Filter(colours, filter) = <<Item("filter", 1, 1), Item("colours", 1, colours - 1), Item("palette", colours * 3, 0)>>
          BY <4>1 DEF Filter
        <4>4. DataComes(s, Started(op), IF colours = 2 THEN 1 ELSE 8, data, after, deflated')
          BY <1>3, <4>2
        <4> QED BY <1>3, <4>1, <4>3, <4>4, PaletteSent, Zenon
      <3> QED BY <3>1, <3>2
    <2>2. Begins("tight", s, t)
      BY <1>3
    <2> HIDE DEF u
    <2>3. IsSeq(t) /\ TightComes("tight", s, <<Read("control", 1)>>, Locals, t, inflated, deflated')
      BY <1>1, <1>4, <1>6, <2>1, FilterSent DEF after
    <2> HIDE DEF t
    <2> QED BY <1>2, <2>2, <2>3, TightReads
  <1> QED BY <1>5, <1>6

LEMMA TightSends ==
  ASSUME NEW s \in Nat \X Nat, Idle, Used \subseteq 0 .. 3, Lengths \subseteq Nat \ {0},
         Palettes \subseteq 2 .. 255, SendTight(s)
  PROVE  Sends(s) /\ deflated' \in [Streams -> Nat]
  <1>1. PICK resets \in SUBSET Used :
          \/ Clears(resets) /\ Begins("tight", s, <<Control(resets, 8), Item("pixel", 3, 0)>>)
          \/ /\ Clears(resets)
             /\ \E n \in Lengths : Begins("tight", s, <<Control(resets, 9)>> \o (Compact(n) \o <<Item("data", n, 0)>>))
          \/ \E i \in Used, zlib \in BOOLEAN, colours \in Palettes \cup {0}, filter \in Filters :
               SendBasic(s, resets, i, zlib, colours, filter)
    BY Zenon DEF SendTight, Filters
  <1> DEFINE after == Cleared(resets, inflated)
  <1>2. resets \in SUBSET (0 .. 3)
    OBVIOUS
  <1>3. Clears(resets) => deflated' = after /\ deflated' \in [Streams -> Nat]
    BY DEF Clears, Cleared, TightNames, Idle
  <1>4. Locals.ctl \in 0 .. 9
    BY DEF Locals, LocalsOf
  <1>5. CASE Clears(resets) /\ Begins("tight", s, <<Control(resets, 8), Item("pixel", 3, 0)>>)
    <2> DEFINE a == Control(resets, 8)
               b == Item("pixel", 3, 0)
               t == <<a, b>>
    <2>1. IsSeq(t) /\ t # <<>> /\ Head(t) = a /\ Tail(t) = <<b>>
      <3> HIDE DEF a, b
      <3> QED BY Few
    <2>2. Begins("tight", s, t)
      BY <1>5
    <2> HIDE DEF t
    <2>3. Next1(t, Control(resets, 8)) /\ Tail(t) = <<Item("pixel", 3, 0)>>
      BY <2>1 DEF Next1
    <2>4. ControlComes(s, t, inflated, deflated')
      <3>1. after = deflated' /\ 8 \in 0 .. 14
        BY <1>3, <1>5
      <3> QED BY <1>2, <2>3, <3>1 DEF ControlComes
    <2>5. TightComes("tight", s, <<Read("control", 1)>>, Locals, t, inflated, deflated')
      BY <1>4, <2>4 DEF TightComes
    <2> QED BY <1>3, <1>5, <2>1, <2>2, <2>5, TightReads
  <1>6. ASSUME Clears(resets), NEW n \in Lengths, Begins("tight", s, <<Control(resets, 9)>> \o (Compact(n) \o <<Item("data", n, 0)>>))
        PROVE  Sends(s) /\ deflated' \in [Streams -> Nat]
    <2> DEFINE u == Compact(n) \o <<Item("data", n, 0)>>
               t == <<Control(resets, 9)>> \o u
    <2>1. n \in CompactLengths
      BY DEF CompactLengths
    <2>2. Started(9).ctl = 9
      BY StartedIs DEF Operation, ReadUncompressed
    <2>3. Final(s, Started(9), 24, Item("data", n, 0), n, after, deflated')
      BY <1>3, <1>6, <2>2 DEF Final
    <2>4. IsSeq(u) /\ LengthComes(s, Started(9), 24, 0, 0, u, after, deflated')
      BY <2>1, <2>3, LengthSent
    <2>5. Begins("tight", s, t)
      BY <1>6
    <2> HIDE DEF u
    <2>6. IsSeq(t) /\ t # <<>> /\ Head(t) = Control(resets, 9) /\ Tail(t) = u
      BY <2>4, Cons
    <2> HIDE DEF t
    <2>7. Next1(t, Control(resets, 9)) /\ 9 \in 0 .. 14
      BY <2>6 DEF Next1
    <2>8. ControlComes(s, t, inflated, deflated')
      BY <1>2, <2>4, <2>6, <2>7 DEF ControlComes
    <2>9. TightComes("tight", s, <<Read("control", 1)>>, Locals, t, inflated, deflated')
      BY <1>4, <2>8 DEF TightComes
    <2> QED BY <1>3, <1>6, <2>5, <2>6, <2>9, TightReads
  <1>7. ASSUME NEW i \in Used, NEW zlib, NEW colours \in Palettes \cup {0}, NEW filter \in Filters,
               SendBasic(s, resets, i, zlib, colours, filter)
        PROVE  Sends(s) /\ deflated' \in [Streams -> Nat]
    <2>1. colours \in ColourCounts
      BY DEF ColourCounts
    <2> QED BY <1>7, <2>1, BasicSends
  <1> QED BY <1>1, <1>5, <1>6, <1>7, Zenon

-----------------------------------------------------------------------------
(* What the invariant says of a client that has read all, and of one that has
   something to read. *)
LEMMA LengthReads ==
  ASSUME NEW s, NEW l, NEW bits, NEW nth, NEW length, NEW t, NEW inf, NEW def,
         LengthComes(s, l, bits, nth, length, t, inf, def)
  PROVE  t # <<>> /\ Head(t).is = "compact" /\ Head(t).n = 1
  <1> DEFINE x == t[Len(t)]
  <1>1. PICK n \in CompactLengths : Sent(nth, length, n, x, t)
    BY DEF LengthComes
  <1>2. ASSUME NEW a, NEW y, t = <<a, y>>
        PROVE  t # <<>> /\ Head(t) = a
    BY <1>2
  <1>3. ASSUME NEW a, NEW b, NEW y, t = <<a, b, y>>
        PROVE  t # <<>> /\ Head(t) = a
    BY <1>3
  <1>4. ASSUME NEW a, NEW b, NEW c, NEW y, t = <<a, b, c, y>>
        PROVE  t # <<>> /\ Head(t) = a
    BY <1>4
  <1> HIDE DEF x
  <1>5. \E a : t # <<>> /\ Head(t) = Byte(a)
    BY <1>1, <1>2, <1>3, <1>4, Zenon DEF Sent
  <1> QED BY <1>5 DEF Byte, Item

LEMMA Reads ==
  ASSUME NEW c, NEW s, NEW pl, NEW l, NEW t, NEW inf, NEW def, Comes(c, s, pl, l, t, inf, def), t # <<>>
  PROVE  pl # <<>> /\ Head(t).is = Head(pl).at /\ Head(t).n = Head(pl).n /\ Head(t).is # "rect"
  <1>1. CASE LeavesCome(pl, t, inf, def)
    BY <1>1, SuitsStep DEF LeavesCome, Leaves
  <1>2. ASSUME NEW r, NEW u, pl = <<r>> \/ pl = <<r, u>>
        PROVE  pl # <<>> /\ Head(pl) = r
    BY <1>2
  <1>3. CASE CountComes(c, pl, t, inf, def)
    BY <1>2, <1>3 DEF CountComes, Next1, Item, Read
  <1>4. CASE LengthNext(c, s, pl, l, t, inf, def)
    <2>1. pl = <<Read("length", 4)>> /\ \E n \in Nat : Head(t) = Item("length", 4, n)
      BY <1>4 DEF LengthNext, Next1
    <2> QED BY <1>2, <2>1 DEF Item, Read
  <1>5. CASE BlockComes(c, s, pl, l, t, inf, def)
    <2> DEFINE b == Head(t)
    <2>1. pl = <<Read("block", b.n)>> /\ b.is = "block"
      BY <1>5 DEF BlockComes, IsBlock, Block
    <2> HIDE DEF b
    <2>2. pl # <<>> /\ Head(pl) = Read("block", b.n)
      BY <1>2, <2>1
    <2>3. Head(pl).at = "block" /\ Head(pl).n = b.n
      BY <2>2 DEF Read
    <2> QED BY <2>1, <2>2, <2>3 DEF b
  <1>6. CASE TightComes(c, s, pl, l, t, inf, def)
    <2>1. CASE pl = <<Read("control", 1)>> /\ ControlComes(s, t, inf, def)
      <3>1. \E resets, op : Head(t) = Control(resets, op)
        BY <2>1 DEF ControlComes, Next1
      <3> QED BY <1>2, <2>1, <3>1 DEF Control, Read
    <2>2. CASE pl = <<Read("filter", 1)>> /\ FilterComes(s, l, t, inf, def)
      <3>1. \E f : Head(t) = Item("filter", 1, f)
        BY <2>2 DEF FilterComes, Next1
      <3> QED BY <1>2, <2>2, <3>1 DEF Item, Read
    <2>3. CASE pl = <<Read("colours", 1)>> /\ ColoursCome(s, l, t, inf, def)
      <3>1. \E f : Head(t) = Item("colours", 1, f)
        BY <2>3 DEF ColoursCome, Next1
      <3> QED BY <1>2, <2>3, <3>1 DEF Item, Read
    <2>4. ASSUME NEW k \in Nat, pl = <<Read("palette", k * 3)>>, PaletteComes(s, l, k, l.bits, t, inf, def)
          PROVE  pl # <<>> /\ Head(t).is = Head(pl).at /\ Head(t).n = Head(pl).n /\ Head(t).is # "rect"
      <3>1. Head(t) = Item("palette", k * 3, 0)
        BY <2>4 DEF PaletteComes, Next1
      <3> QED BY <1>2, <2>4, <3>1 DEF Item, Read
    <2>5. CASE pl = <<Read("compact", 1)>> /\ LengthComes(s, l, l.bits, l.nth, l.length, t, inf, def)
      <3>1. Head(t).is = "compact" /\ Head(t).n = 1
        BY <2>5, LengthReads
      <3> QED BY <1>2, <2>5, <3>1 DEF Read
    <2> QED BY <1>6, <2>1, <2>2, <2>3, <2>4, <2>5 DEF TightComes
  <1> QED BY <1>1, <1>3, <1>4, <1>5, <1>6 DEF Comes

LEMMA AllRead ==
  ASSUME NEW c, NEW s, NEW pl, NEW l, NEW t, NEW inf, NEW def, Comes(c, s, pl, l, t, inf, def), t = <<>>
  PROVE  inf = def
  <1>1. CASE LeavesCome(pl, t, inf, def)
    BY <1>1 DEF LeavesCome
  <1>2. ~CountComes(c, pl, t, inf, def) /\ ~LengthNext(c, s, pl, l, t, inf, def)
    BY DEF CountComes, LengthNext, Next1
  <1>3. ~BlockComes(c, s, pl, l, t, inf, def)
    BY DEF BlockComes
  <1>4. ~TightComes(c, s, pl, l, t, inf, def)
    BY LengthReads DEF TightComes, ControlComes, FilterComes, ColoursCome, PaletteComes, Next1
  <1> QED BY <1>1, <1>2, <1>3, <1>4 DEF Comes

LEMMA InvInStep == RectInv => InStep
  <1> SUFFICES ASSUME RectInv, up = "open", s2c # <<>> PROVE Expected(Head(s2c))
    BY DEF InStep
  <1>1. CASE Announced
    BY <1>1 DEF Announced, Next1, Expected, Item
  <1>2. CASE Comes(codec, size, plan, tight, s2c, inflated, deflated)
    BY <1>2, Reads DEF Expected
  <1> QED BY <1>1, <1>2 DEF RectInv

LEMMA InvInSync == RectInv => StreamsInSync
  <1> SUFFICES ASSUME RectInv PROVE StreamsInSync
    OBVIOUS
  <1>1. up # "refused"
    BY DEF RectInv
  <1>2. ASSUME up = "open", s2c = <<>>
        PROVE  inflated = deflated /\ \A b \in Buffered : rest[b] = 0
    <2>1. ~Announced
      BY <1>2 DEF Announced, Next1
    <2>2. Comes(codec, size, plan, tight, s2c, inflated, deflated)
      BY <1>2, <2>1 DEF RectInv
    <2>3. inflated = deflated
      BY <1>2, <2>2, AllRead
    <2>4. rest = [b \in Buffered |-> 0]
      BY <1>2 DEF RectInv
    <2> QED BY <2>3, <2>4
  <1> QED BY <1>1, <1>2 DEF StreamsInSync

LEMMA InitRect == Init => RectInv
  <1> SUFFICES ASSUME Init PROVE RectInv
    OBVIOUS
  <1>1. LeavesCome(plan, s2c, inflated, deflated)
    BY SuitsNone DEF Init, LeavesCome
  <1>2. Comes(codec, size, plan, tight, s2c, inflated, deflated)
    BY <1>1 DEF Comes
  <1>3. size \in Nat \X Nat /\ inflated \in [Streams -> Nat] /\ deflated \in [Streams -> Nat]
    BY DEF Init, Fresh
  <1>4. tight \in Tights
    BY DEF Init, Locals, LocalsOf, Tights
  <1> QED BY <1>2, <1>3, <1>4 DEF Init, RectInv

LEMMA ServerStep ==
  ASSUME CountFits, RectInv, ServerSends
  PROVE  RectInv'
  <1>1. up = "open" /\ s2c = <<>> /\ plan = <<>>
    BY DEF ServerSends
  <1>2. PICK s \in Sizes : SendCursor(s) \/ SendPlain(s) \/ SendDeflated(s) \/ SendTight(s)
    BY DEF ServerSends
  <1>3. /\ s \in Nat \X Nat /\ Lengths \subseteq Nat \ {0} /\ Lengths \subseteq Nat
        /\ Used \subseteq 0 .. 3 /\ Palettes \subseteq 2 .. 255
    BY RectanglesAssumption DEF CountFits
  <1>4. Idle
    BY <1>1, InvInSync DEF RectInv, StreamsInSync, Idle
  <1>5. Sends(s) /\ deflated' \in [Streams -> Nat]
    <2>1. CASE SendCursor(s)
      BY <1>3, <1>4, <2>1, CursorSends DEF Idle
    <2>2. CASE SendPlain(s)
      BY <1>3, <1>4, <2>2, PlainSends DEF Idle
    <2>3. CASE SendDeflated(s)
      BY <1>3, <1>4, <2>3, DeflatedSends
    <2>4. CASE SendTight(s)
      BY <1>3, <1>4, <2>4, TightSends
    <2> QED BY <1>2, <2>1, <2>2, <2>3, <2>4
  <1>c. PICK c \in Codecs : \E items : /\ IsSeq(items) /\ Begins(c, s, items)
                                       /\ Comes(c, s, First(c, s), Locals, items, inflated, deflated')
    BY <1>5 DEF Sends
  <1>6. PICK items : /\ IsSeq(items) /\ Begins(c, s, items)
                     /\ Comes(c, s, First(c, s), Locals, items, inflated, deflated')
    BY <1>c
  <1>7. codec' = "none" /\ size' = s /\ s2c' = <<Item("rect", 12, c)>> \o items
    BY <1>6 DEF Begins
  <1>8. plan' = plan /\ tight' = tight /\ inflated' = inflated /\ rest' = rest /\ up' = up
    BY DEF ServerSends
  <1>9. Next1(s2c', Item("rect", 12, c)) /\ Tail(s2c') = items
    BY <1>6, <1>7, Cons DEF Next1
  <1>10. Announced'
    BY <1>1, <1>6, <1>7, <1>8, <1>9 DEF Announced
  <1> QED BY <1>3, <1>5, <1>7, <1>8, <1>10 DEF RectInv

-----------------------------------------------------------------------------
(* Each read of the client. *)

(* A read that leaves the session open and what the next stage needs. *)
LEMMA Kept ==
  ASSUME RectInv, up = "open", s2c' = Tail(s2c), size' = size, deflated' = deflated, up' = up, rest' = rest,
         codec' \in Codecs \cup {"none"}, tight' \in Tights, inflated' \in [Streams -> Nat],
         Comes(codec', size, plan', tight', Tail(s2c), inflated', deflated)
  PROVE  RectInv'
  BY DEF RectInv

LEMMA Handled ==
  ASSUME NEW i, Handle(i), i.is # "rect"
  PROVE  /\ codec' = codec
         /\ i.is = "count" => Count(i.val)
         /\ i.is = "length" => Length(i.val)
         /\ i.is = "control" => HandleControl(i)
         /\ i.is = "filter" => HandleFilter(i.val)
         /\ i.is = "colours" => HandleColours(i.val)
         /\ i.is = "palette" => HandlePalette
         /\ i.is = "compact" => HandleCompact(i.val)
         /\ i.is = "block" => HandleBlock(i)
         /\ i.is \in Leaves => HandleData \/ (Adds(<<>>) /\ UNCHANGED <<tight, inflated, rest>>)
  <1>1. codec' = codec
    BY DEF Handle
  <1>2. i.is = "count" => Count(i.val)
    BY DEF Handle
  <1>3. i.is = "length" => Length(i.val)
    BY DEF Handle
  <1>4. i.is = "control" => HandleControl(i)
    BY DEF Handle
  <1>5. i.is = "filter" => HandleFilter(i.val)
    BY DEF Handle
  <1>6. i.is = "colours" => HandleColours(i.val)
    BY DEF Handle
  <1>7. i.is = "palette" => HandlePalette
    BY DEF Handle
  <1>8. i.is = "compact" => HandleCompact(i.val)
    BY DEF Handle
  <1>9. i.is = "block" => HandleBlock(i)
    BY DEF Handle
  <1>10. i.is \in Leaves => HandleData \/ (Adds(<<>>) /\ UNCHANGED <<tight, inflated, rest>>)
    BY DEF Handle, Leaves
  <1> QED BY <1>1, <1>2, <1>3, <1>4, <1>5, <1>6, <1>7, <1>8, <1>9, <1>10

LEMMA NothingAfter ==
  ASSUME NEW r, NEW u, IsSeq(u)
  PROVE  Tail(<<r>>) = <<>> /\ u \o Tail(<<r>>) = u /\ <<>> \o u = u
  <1>1. u \in Seq({u[i] : i \in 1 .. Len(u)})
    BY DEF IsSeq
  <1>2. Tail(<<r>>) = <<>>
    OBVIOUS
  <1>3. u \o <<>> = u /\ <<>> \o u = u
    BY <1>1
  <1> QED BY <1>2, <1>3

(* The plan was one read: what is added is the plan. *)
LEMMA AddsAll ==
  ASSUME NEW r, plan = <<r>>, NEW reads, IsSeq(reads), Adds(reads)
  PROVE  plan' = reads /\ up' = up
  <1>1. plan' = reads \o Tail(plan) /\ up' = up
    BY DEF Adds, Goes
  <1>2. reads \o Tail(<<r>>) = reads
    BY NothingAfter
  <1> QED BY <1>1, <1>2

LEMMA BeginStep ==
  ASSUME RectInv, ClientReads, Announced
  PROVE  RectInv'
  <1>1. PICK c \in Codecs : /\ Next1(s2c, Item("rect", 12, c))
                            /\ Comes(c, size, First(c, size), Locals, Tail(s2c), inflated, deflated)
    BY DEF Announced
  <1>2. Head(s2c).is = "rect" /\ Head(s2c).val = c
    BY <1>1 DEF Next1, Item
  <1>3. Begin(c)
    BY <1>2 DEF ClientReads, Handle
  <1>4. codec' = c /\ plan' = First(c, size) /\ up' = up /\ tight' = Locals /\ inflated' = inflated /\ rest' = rest
    BY <1>3 DEF Begin, Goes
  <1>5. Locals \in Tights
    BY DEF Locals, LocalsOf, Tights
  <1>6. up = "open" /\ s2c' = Tail(s2c) /\ size' = size /\ deflated' = deflated
    BY DEF ClientReads
  <1>7. Comes(codec', size, plan', tight', Tail(s2c), inflated', deflated)
    BY <1>1, <1>4
  <1>8. inflated \in [Streams -> Nat]
    BY DEF RectInv
  <1> QED BY <1>4, <1>5, <1>6, <1>7, <1>8, Kept

Step == RectInv /\ ClientReads /\ Head(s2c).is # "rect"

LEMMA StepFacts ==
  ASSUME Step
  PROVE  /\ up = "open" /\ s2c # <<>> /\ s2c' = Tail(s2c) /\ size' = size /\ deflated' = deflated
         /\ codec' = codec /\ codec \in Codecs \cup {"none"}
         /\ rest = [b \in Buffered |-> 0]
         /\ tight \in Tights /\ inflated \in [Streams -> Nat] /\ deflated \in [Streams -> Nat] /\ size \in Nat \X Nat
         /\ Handle(Head(s2c))
  <1>1. up = "open" /\ s2c # <<>> /\ s2c' = Tail(s2c) /\ size' = size /\ deflated' = deflated /\ Handle(Head(s2c))
    BY DEF Step, ClientReads
  <1>2. codec' = codec
    BY <1>1, Handled DEF Step
  <1> QED BY <1>1, <1>2 DEF Step, RectInv

LEMMA LeafStep ==
  ASSUME Step, LeavesCome(plan, s2c, inflated, deflated)
  PROVE  RectInv'
  <1>1. /\ plan # <<>> /\ Suits(Tail(plan), Tail(s2c)) /\ Head(s2c).is \in Leaves /\ IsSeq(Tail(plan))
    BY StepFacts, SuitsStep DEF LeavesCome
  <1>2. HandleData \/ (Adds(<<>>) /\ UNCHANGED <<tight, inflated, rest>>)
    BY <1>1, StepFacts, Handled DEF Step
  <1>3. "tight" \in Buffered
    BY DEF Buffered
  <1>4. ~(codec = "tight" /\ rest["tight"] # 0)
    BY <1>3, StepFacts
  <1>5. Adds(<<>>) /\ tight' = tight /\ inflated' = inflated /\ rest' = rest
    BY <1>2, <1>4 DEF HandleData
  <1>6. plan' = <<>> \o Tail(plan) /\ up' = up
    BY <1>5 DEF Adds, Goes
  <1>7. plan' = Tail(plan)
    BY <1>1, <1>6, NothingAfter
  <1>8. Comes(codec', size, plan', tight', Tail(s2c), inflated', deflated)
    BY <1>1, <1>5, <1>7 DEF Comes, LeavesCome
  <1> QED BY <1>5, <1>6, <1>8, StepFacts, Kept DEF Step

LEMMA CountStep ==
  ASSUME Step, CountComes(codec, plan, s2c, inflated, deflated)
  PROVE  RectInv'
  <1> DEFINE p == Read("pixel", BytesPerPixel)
  <1>1. PICK n \in Nat : Next1(s2c, Item("count", 4, n)) /\ Suits(<<p>> \o SubrectReads(codec, n), Tail(s2c))
    BY DEF CountComes
  <1>2. Head(s2c).is = "count" /\ Head(s2c).val = n
    BY <1>1 DEF Next1, Item
  <1>3. Count(n)
    BY <1>2, StepFacts, Handled DEF Step
  <1>4. Tail(plan) = <<p>>
    <2>1. plan = <<Read("count", 4), p>>
      BY DEF CountComes
    <2> HIDE DEF p
    <2> QED BY <2>1, Few
  <1>5. plan' = <<p>> \o SubrectReads(codec, n) /\ tight' = tight /\ inflated' = inflated /\ rest' = rest /\ up' = up
    BY <1>3, <1>4 DEF Count
  <1>6. LeavesCome(plan', Tail(s2c), inflated', deflated)
    BY <1>1, <1>5 DEF LeavesCome, CountComes
  <1>7. Comes(codec', size, plan', tight', Tail(s2c), inflated', deflated)
    BY <1>6 DEF Comes
  <1> QED BY <1>5, <1>7, StepFacts, Kept DEF Step

LEMMA LengthStep ==
  ASSUME Step, LengthNext(codec, size, plan, tight, s2c, inflated, deflated)
  PROVE  RectInv'
  <1>1. plan = <<Read("length", 4)>>
    BY DEF LengthNext
  <1>2. PICK n \in Nat :
          /\ Next1(s2c, Item("length", 4, n))
          /\ \/ codec \in {"ultra", "ultrazip"} /\ Suits(UltraReads(n), Tail(s2c)) /\ inflated = deflated
             \/ codec \in {"zlib", "zrle"} /\ BlockComes(codec, size, DeflatedReads(n), tight, Tail(s2c), inflated, deflated)
    BY DEF LengthNext
  <1>3. Head(s2c).is = "length" /\ Head(s2c).val = n
    BY <1>2 DEF Next1, Item
  <1>4. Length(n)
    BY <1>3, StepFacts, Handled DEF Step
  <1>5. tight' = tight /\ inflated' = inflated /\ rest' = rest
    BY <1>4 DEF Length
  <1>6. CASE codec \in {"ultra", "ultrazip"} /\ Suits(UltraReads(n), Tail(s2c)) /\ inflated = deflated
    <2>1. Adds(UltraReads(n))
      BY <1>4, <1>6 DEF Length
    <2>2. plan' = UltraReads(n) /\ up' = up
      BY <1>1, <1>6, <2>1, AddsAll DEF Suits
    <2>3. Comes(codec', size, plan', tight', Tail(s2c), inflated', deflated)
      BY <1>5, <1>6, <2>2 DEF Comes, LeavesCome
    <2> QED BY <1>5, <2>2, <2>3, StepFacts, Kept DEF Step
  <1>7. CASE codec \in {"zlib", "zrle"} /\ BlockComes(codec, size, DeflatedReads(n), tight, Tail(s2c), inflated, deflated)
    <2>1. Adds(DeflatedReads(n))
      BY <1>4, <1>7 DEF Length
    <2>2. IsSeq(DeflatedReads(n))
      BY Few DEF DeflatedReads
    <2>3. plan' = DeflatedReads(n) /\ up' = up
      BY <1>1, <2>1, <2>2, AddsAll
    <2>4. Comes(codec', size, plan', tight', Tail(s2c), inflated', deflated)
      BY <1>5, <1>7, <2>3, StepFacts DEF Comes
    <2> QED BY <1>5, <2>3, <2>4, StepFacts, Kept DEF Step
  <1> QED BY <1>2, <1>6, <1>7

LEMMA BlockStep ==
  ASSUME Step, BlockComes(codec, size, plan, tight, s2c, inflated, deflated)
  PROVE  RectInv'
  <1> DEFINE b == Head(s2c)
             st == InflaterOf(codec, tight)
  <1>1. /\ s2c = <<b>> /\ plan = <<Read("block", b.n)>> /\ codec \in Buffered
        /\ IsBlock(b, b.n, st, WantedOf(codec, size, tight), inflated, deflated)
    BY DEF BlockComes
  <1>2. /\ st \in Streams /\ deflated = [inflated EXCEPT ![st] = @ + 1]
        /\ b.is = "block" /\ b.stream = st /\ b.val = inflated[st] /\ b.out = WantedOf(codec, size, tight)
    BY <1>1 DEF IsBlock, Block
  <1>3. st = Inflater /\ WantedOf(codec, size, tight) = Wanted
    BY DEF InflaterOf, Inflater, WantedOf, Wanted, AllBytes
  <1>4. HandleBlock(b)
    BY <1>2, StepFacts, Handled DEF Step
  <1>5. rest[codec] = 0
    BY <1>1, StepFacts
  <1> HIDE DEF b, st
  <1>6. inflated' = [inflated EXCEPT ![st] = @ + 1] /\ Adds(<<>>) /\ tight' = tight /\ rest' = rest
    BY <1>2, <1>3, <1>4, <1>5 DEF HandleBlock
  <1>7. inflated' = deflated
    BY <1>2, <1>6
  <1>8. plan' = <<>> /\ up' = up
    BY <1>1, <1>6, AddsAll, Few
  <1>9. Tail(s2c) = <<>>
    BY <1>1, Few
  <1>10. Comes(codec', size, plan', tight', Tail(s2c), inflated', deflated)
    BY <1>7, <1>8, <1>9, SuitsNone DEF Comes, LeavesCome
  <1> QED BY <1>6, <1>7, <1>8, <1>10, StepFacts, Kept DEF Step

-----------------------------------------------------------------------------
(* Each read of tight. *)

(* Only ctl and plain say what data comes. *)
LEMMA SameFinal ==
  ASSUME NEW s, NEW l, NEW l2, NEW bits, NEW nth, NEW length, NEW t, NEW inf, NEW def,
         l2.ctl = l.ctl, l2.plain = l.plain, LengthComes(s, l, bits, nth, length, t, inf, def)
  PROVE  LengthComes(s, l2, bits, nth, length, t, inf, def)
  <1> DEFINE x == t[Len(t)]
  <1>1. PICK n \in CompactLengths : Sent(nth, length, n, x, t) /\ Final(s, l, bits, x, n, inf, def)
    BY DEF LengthComes
  <1> HIDE DEF x
  <1>2. Final(s, l2, bits, x, n, inf, def)
    BY <1>1 DEF Final
  <1> QED BY <1>1, <1>2 DEF LengthComes, x

LEMMA DataStep ==
  ASSUME NEW r, plan = <<r>>, size \in Nat \X Nat,
         NEW l \in Tights, l.nth = 0, l.length = 0, l.ctl \in 0 .. 9,
         NEW bits \in Nat, NEW t, NEW inf, NEW def,
         DataComes(size, l, bits, t, inf, def), Data(l, bits)
  PROVE  /\ up' = up /\ tight' \in Tights
         /\ Comes("tight", size, plan', tight', t, inf, def)
  <1> DEFINE all == AllBytes(size, bits)
             l2 == [l EXCEPT !.bits = bits]
  <1>1. /\ tight' = l2
        /\ IF all < MinToCompress THEN Adds(<<Read("data", all)>>) ELSE Adds(<<Read("compact", 1)>>)
    BY DEF Data, AllBytes
  <1>2. /\ l2 \in Tights /\ l2.ctl = l.ctl /\ l2.plain = l.plain /\ l2.bits = bits
        /\ l2.nth = 0 /\ l2.length = 0
    BY DEF Tights
  <1> HIDE DEF l2
  <1>3. CASE all < MinToCompress
    <2>1. t = <<Item("data", all, 0)>> /\ inf = def
      BY <1>3 DEF DataComes
    <2>2. plan' = <<Read("data", all)>> /\ up' = up
      BY <1>1, <1>3, AddsAll, Few
    <2>3. Suits(plan', t)
      BY <2>1, <2>2, SuitsOne DEF Leaves
    <2> QED BY <1>1, <1>2, <2>1, <2>2, <2>3 DEF Comes, LeavesCome
  <1>4. CASE ~(all < MinToCompress)
    <2>1. LengthComes(size, l, bits, 0, 0, t, inf, def)
      BY <1>4 DEF DataComes
    <2>2. plan' = <<Read("compact", 1)>> /\ up' = up
      BY <1>1, <1>4, AddsAll, Few
    <2>3. LengthComes(size, l2, bits, 0, 0, t, inf, def)
      BY <1>2, <2>1, SameFinal
    <2>4. LengthComes(size, tight', tight'.bits, tight'.nth, tight'.length, t, inf, def)
      BY <1>1, <1>2, <2>3
    <2>5. tight'.ctl \in 0 .. 9
      BY <1>1, <1>2
    <2>6. TightComes("tight", size, plan', tight', t, inf, def)
      BY <2>2, <2>4, <2>5 DEF TightComes
    <2> QED BY <1>1, <1>2, <2>2, <2>6 DEF Comes
  <1> QED BY <1>3, <1>4

LEMMA FilterStep ==
  ASSUME Step, codec = "tight", plan = <<Read("filter", 1)>>, tight.ctl \in 0 .. 9, tight.nth = 0, tight.length = 0,
         FilterComes(size, tight, s2c, inflated, deflated)
  PROVE  RectInv'
  <1>1. CASE Next1(s2c, Item("filter", 1, 1)) /\ ColoursCome(size, tight, Tail(s2c), inflated, deflated)
    <2>1. Head(s2c).is = "filter" /\ Head(s2c).val = 1
      BY <1>1 DEF Next1, Item
    <2>2. HandleFilter(1)
      BY <2>1, StepFacts, Handled DEF Step
    <2>3. Adds(<<Read("colours", 1)>>) /\ tight' = tight /\ inflated' = inflated /\ rest' = rest
      BY <2>2 DEF HandleFilter
    <2>4. plan' = <<Read("colours", 1)>> /\ up' = up
      BY <2>3, AddsAll, Few
    <2>5. Comes(codec', size, plan', tight', Tail(s2c), inflated', deflated)
      BY <1>1, <2>3, <2>4, StepFacts DEF Comes, TightComes
    <2> QED BY <2>3, <2>4, <2>5, StepFacts, Kept DEF Step
  <1>2. ASSUME NEW f \in {0, 2}, Next1(s2c, Item("filter", 1, f)), DataComes(size, tight, 24, Tail(s2c), inflated, deflated)
        PROVE  RectInv'
    <2>1. Head(s2c).is = "filter" /\ Head(s2c).val = f
      BY <1>2 DEF Next1, Item
    <2>2. HandleFilter(f)
      BY <2>1, StepFacts, Handled DEF Step
    <2>3. Data(tight, 24) /\ inflated' = inflated /\ rest' = rest
      BY <2>2 DEF HandleFilter
    <2>4. up' = up /\ tight' \in Tights /\ Comes("tight", size, plan', tight', Tail(s2c), inflated, deflated)
      BY <1>2, <2>3, StepFacts, DataStep
    <2> QED BY <2>3, <2>4, StepFacts, Kept DEF Step
  <1> QED BY <1>1, <1>2 DEF FilterComes

LEMMA ColoursStep ==
  ASSUME Step, codec = "tight", plan = <<Read("colours", 1)>>, tight.ctl \in 0 .. 9, tight.nth = 0, tight.length = 0,
         ColoursCome(size, tight, s2c, inflated, deflated)
  PROVE  RectInv'
  <1> DEFINE B(k) == IF k = 2 THEN 1 ELSE 8
  <1>1. PICK k \in 2 .. 255 :
          /\ Next1(s2c, Item("colours", 1, k - 1))
          /\ PaletteComes(size, tight, k, B(k), Tail(s2c), inflated, deflated)
    BY DEF ColoursCome
  <1>2. Head(s2c).is = "colours" /\ Head(s2c).val = k - 1
    BY <1>1 DEF Next1, Item
  <1>3. HandleColours(k - 1)
    BY <1>2, StepFacts, Handled DEF Step
  <1>4. (k - 1 + 1) % 256 = k /\ k # 0
    OBVIOUS
  <1>5. tight' = [tight EXCEPT !.bits = B(k)] /\ Adds(<<Read("palette", k * 3)>>) /\ inflated' = inflated /\ rest' = rest
    BY <1>3, <1>4 DEF HandleColours
  <1>6. plan' = <<Read("palette", k * 3)>> /\ up' = up
    BY <1>5, AddsAll, Few
  <1>7. /\ tight' \in Tights /\ tight'.bits = B(k) /\ tight'.ctl = tight.ctl /\ tight'.plain = tight.plain
        /\ tight'.nth = 0 /\ tight'.length = 0
    BY <1>5, StepFacts DEF Tights
  <1>8. DataComes(size, tight, B(k), Tail(Tail(s2c)), inflated, deflated)
    BY <1>1 DEF PaletteComes
  <1>9. DataComes(size, tight', B(k), Tail(Tail(s2c)), inflated, deflated)
    BY <1>7, <1>8, SameFinal DEF DataComes
  <1>10. PaletteComes(size, tight', k, tight'.bits, Tail(s2c), inflated', deflated)
    BY <1>1, <1>5, <1>7, <1>9 DEF PaletteComes
  <1>11. TightComes("tight", size, plan', tight', Tail(s2c), inflated', deflated)
    BY <1>6, <1>7, <1>10 DEF TightComes
  <1>12. Comes(codec', size, plan', tight', Tail(s2c), inflated', deflated)
    BY <1>11, StepFacts DEF Comes
  <1> QED BY <1>5, <1>6, <1>7, <1>12, StepFacts, Kept DEF Step

LEMMA PaletteStep ==
  ASSUME Step, codec = "tight", NEW k \in Nat, plan = <<Read("palette", k * 3)>>, tight.ctl \in 0 .. 9,
         tight.nth = 0, tight.length = 0,
         PaletteComes(size, tight, k, tight.bits, s2c, inflated, deflated)
  PROVE  RectInv'
  <1>1. Next1(s2c, Item("palette", k * 3, 0)) /\ DataComes(size, tight, tight.bits, Tail(s2c), inflated, deflated)
    BY DEF PaletteComes
  <1>2. Head(s2c).is = "palette"
    BY <1>1 DEF Next1, Item
  <1>3. HandlePalette
    BY <1>2, StepFacts, Handled DEF Step
  <1>4. Data(tight, tight.bits) /\ inflated' = inflated /\ rest' = rest
    BY <1>3 DEF HandlePalette
  <1>5. tight.bits \in Nat
    BY StepFacts DEF Tights
  <1>6. up' = up /\ tight' \in Tights /\ Comes("tight", size, plan', tight', Tail(s2c), inflated, deflated)
    BY <1>1, <1>4, <1>5, StepFacts, DataStep
  <1> QED BY <1>4, <1>6, StepFacts, Kept DEF Step

LEMMA ControlStep ==
  ASSUME Step, codec = "tight", plan = <<Read("control", 1)>>, ControlComes(size, s2c, inflated, deflated)
  PROVE  RectInv'
  <1>1. PICK resets \in SUBSET (0 .. 3), op \in 0 .. 14 :
          /\ Next1(s2c, Control(resets, op))
          /\ LET after == Cleared(resets, inflated)
             IN \/ op = 8 /\ Tail(s2c) = <<Item("pixel", 3, 0)>> /\ after = deflated
                \/ op = 9 /\ LengthComes(size, Started(9), 24, 0, 0, Tail(s2c), after, deflated)
                \/ op \in 0 .. 3 \cup {10} /\ DataComes(size, Started(op), 24, Tail(s2c), after, deflated)
                \/ op \in 4 .. 7 \cup {14} /\ FilterComes(size, Started(op), Tail(s2c), after, deflated)
    BY DEF ControlComes
  <1> DEFINE after == Cleared(resets, inflated)
             i == Head(s2c)
             l == Started(op)
             ctl == Operation(op)
  <1>2. i.is = "control" /\ i.val = op /\ i.resets = resets
    BY <1>1 DEF Next1, Control
  <1>3. HandleControl(i)
    BY <1>2, StepFacts, Handled DEF Step
  <1>4. inflated' = after /\ rest' = rest
    BY <1>2, <1>3 DEF HandleControl, TightResets, Cleared
  <1>5. after \in [Streams -> Nat]
    BY StepFacts DEF Cleared
  <1>6. l \in Tights /\ l.ctl = ctl /\ l.nth = 0 /\ l.length = 0 /\ l.bits = 24
    BY StartedIs
  <1> HIDE DEF i, after
  <1>7. CASE op = 8
    <2>1. Adds(<<Read("pixel", 3)>>) /\ tight' = l
      <3>1. ctl = 8
        BY <1>7 DEF Operation, ReadUncompressed
      <3> HIDE DEF l, ctl
      <3> QED BY <1>2, <1>3, <3>1 DEF HandleControl, l, ctl
    <2>2. plan' = <<Read("pixel", 3)>> /\ up' = up
      BY <2>1, AddsAll, Few
    <2>3. tight' \in Tights
      BY <1>6, <2>1
    <2>4. Tail(s2c) = <<Item("pixel", 3, 0)>> /\ after = deflated
      BY <1>1, <1>7 DEF after
    <2>5. Suits(plan', Tail(s2c))
      BY <2>2, <2>4, SuitsOne DEF Leaves
    <2>6. Comes(codec', size, plan', tight', Tail(s2c), inflated', deflated)
      BY <1>4, <2>4, <2>5 DEF Comes, LeavesCome
    <2> QED BY <1>4, <1>5, <2>2, <2>3, <2>6, StepFacts, Kept DEF Step
  <1>8. CASE op = 9
    <2>1. Adds(<<Read("compact", 1)>>) /\ tight' = l
      <3>1. ctl = 9
        BY <1>8 DEF Operation, ReadUncompressed
      <3> HIDE DEF l, ctl
      <3> QED BY <1>2, <1>3, <3>1 DEF HandleControl, l, ctl
    <2>2. plan' = <<Read("compact", 1)>> /\ up' = up
      BY <2>1, AddsAll, Few
    <2>4. LengthComes(size, l, 24, 0, 0, Tail(s2c), after, deflated)
      BY <1>1, <1>8 DEF after
    <2>c. ctl \in 0 .. 9
      BY <1>8 DEF Operation, ReadUncompressed
    <2> HIDE DEF l, ctl
    <2>5. TightComes("tight", size, plan', tight', Tail(s2c), inflated', deflated)
      BY <1>4, <1>6, <2>1, <2>2, <2>4, <2>c DEF TightComes
    <2>6. Comes(codec', size, plan', tight', Tail(s2c), inflated', deflated)
      BY <2>5, StepFacts DEF Comes
    <2> QED BY <1>4, <1>5, <1>6, <2>1, <2>2, <2>6, StepFacts, Kept DEF Step
  <1>9. CASE op \in 0 .. 3 \cup {10}
    <2>1. Data(l, 24)
      <3>1. ctl \in 0 .. 3
        BY <1>9 DEF Operation, ReadUncompressed
      <3> HIDE DEF l, ctl
      <3> QED BY <1>2, <1>3, <3>1 DEF HandleControl, l, ctl
    <2>2. DataComes(size, l, 24, Tail(s2c), after, deflated)
      BY <1>1, <1>9 DEF after
    <2>3. ctl \in 0 .. 9
      BY <1>9 DEF Operation, ReadUncompressed
    <2> HIDE DEF l, ctl
    <2>4. up' = up /\ tight' \in Tights /\ Comes("tight", size, plan', tight', Tail(s2c), after, deflated)
      BY <1>6, <2>1, <2>2, <2>3, StepFacts, DataStep
    <2> QED BY <1>4, <1>5, <2>4, StepFacts, Kept DEF Step
  <1>10. CASE op \in 4 .. 7 \cup {14}
    <2>1. Adds(<<Read("filter", 1)>>) /\ tight' = l
      <3>1. ctl \in 4 .. 7
        BY <1>10 DEF Operation, ReadUncompressed
      <3> HIDE DEF l, ctl
      <3> QED BY <1>2, <1>3, <3>1 DEF HandleControl, l, ctl
    <2>2. plan' = <<Read("filter", 1)>> /\ up' = up
      BY <2>1, AddsAll, Few
    <2>3. FilterComes(size, l, Tail(s2c), after, deflated)
      BY <1>1, <1>10 DEF after
    <2>4. ctl \in 0 .. 9
      BY <1>10 DEF Operation, ReadUncompressed
    <2> HIDE DEF l, ctl
    <2>5. TightComes("tight", size, plan', tight', Tail(s2c), inflated', deflated)
      BY <1>4, <1>6, <2>1, <2>2, <2>3, <2>4 DEF TightComes
    <2>6. Comes(codec', size, plan', tight', Tail(s2c), inflated', deflated)
      BY <2>5, StepFacts DEF Comes
    <2> QED BY <1>4, <1>5, <1>6, <2>1, <2>2, <2>6, StepFacts, Kept DEF Step
  <1> QED BY <1>1, <1>7, <1>8, <1>9, <1>10

LEMMA LastOfThree ==
  ASSUME NEW a, NEW b, NEW c
  PROVE  <<a, b, c>>[Len(<<a, b, c>>)] = c
  <1>1. Len(<<a, b, c>>) = 3 /\ <<a, b, c>>[3] = c
    OBVIOUS
  <1> QED BY <1>1

(* The length when the byte v has been read. *)
With(v) == tight.length + (IF tight.nth < 2 THEN v % 128 ELSE v) * Weight(tight.nth)

Longer(v) == [tight EXCEPT !.length = With(v), !.nth = @ + 1]

LEMMA CompactReads ==
  ASSUME Step, plan = <<Read("compact", 1)>>, NEW v, Head(s2c) = Byte(v)
  PROVE  /\ tight.nth < 2 /\ v > 127 =>
              tight' = Longer(v) /\ plan' = <<Read("compact", 1)>>
         /\ ~(tight.nth < 2 /\ v > 127) /\ With(v) # 0 =>
              /\ tight' = [tight EXCEPT !.length = With(v)]
              /\ plan' = <<Read(IF tight.ctl = 9 \/ tight.plain THEN "data" ELSE "block", With(v))>>
         /\ With(v) # 0 \/ (tight.nth < 2 /\ v > 127) => up' = up /\ inflated' = inflated /\ rest' = rest
  <1>1. Head(s2c).is = "compact" /\ Head(s2c).val = v
    BY DEF Byte, Item
  <1>2. HandleCompact(v)
    BY <1>1, StepFacts, Handled DEF Step
  <1>3. CASE tight.nth < 2 /\ v > 127
    <2>1. /\ tight' = Longer(v)
          /\ Adds(<<Read("compact", 1)>>) /\ inflated' = inflated /\ rest' = rest
      BY <1>2, <1>3 DEF HandleCompact, With, Longer
    <2>2. plan' = <<Read("compact", 1)>> /\ up' = up
      BY <2>1, AddsAll, Few
    <2> QED BY <1>3, <2>1, <2>2
  <1>4. CASE ~(tight.nth < 2 /\ v > 127) /\ With(v) # 0
    <2> DEFINE r == Read(IF tight.ctl = 9 \/ tight.plain THEN "data" ELSE "block", With(v))
    <2>1. /\ tight' = [tight EXCEPT !.length = With(v)]
          /\ Adds(<<r>>) /\ inflated' = inflated /\ rest' = rest
      BY <1>2, <1>4 DEF HandleCompact, With
    <2> HIDE DEF r
    <2>2. plan' = <<r>> /\ up' = up
      BY <2>1, AddsAll, Few
    <2> QED BY <1>4, <2>1, <2>2 DEF r
  <1> QED BY <1>3, <1>4

LEMMA LastByte ==
  ASSUME Step, codec = "tight", plan = <<Read("compact", 1)>>, NEW n \in CompactLengths, NEW v, NEW x,
         s2c = <<Byte(v), x>>, With(v) = n, ~(tight.nth < 2 /\ v > 127),
         Final(size, tight, tight.bits, x, n, inflated, deflated)
  PROVE  RectInv'
  <1>1. Head(s2c) = Byte(v) /\ Tail(s2c) = <<x>> /\ IsSeq(<<x>>) /\ Len(<<x>>) = 1 /\ Head(<<x>>) = x
    BY Few
  <1>2. n \in Nat /\ n # 0
    BY DEF CompactLengths
  <1>3. /\ tight' = [tight EXCEPT !.length = n]
        /\ plan' = <<Read(IF tight.ctl = 9 \/ tight.plain THEN "data" ELSE "block", n)>>
        /\ up' = up /\ inflated' = inflated /\ rest' = rest
    BY <1>1, <1>2, CompactReads
  <1>4. tight' \in Tights /\ tight'.ctl = tight.ctl /\ tight'.bits = tight.bits
    BY <1>2, <1>3, StepFacts DEF Tights
  <1>5. CASE tight.ctl = 9 \/ tight.plain
    <2>1. x = Item("data", n, 0) /\ inflated = deflated
      BY <1>5 DEF Final
    <2>2. plan' = <<Read("data", n)>>
      BY <1>3, <1>5
    <2>3. Suits(plan', Tail(s2c))
      BY <1>1, <2>1, <2>2, SuitsOne DEF Leaves
    <2>4. Comes(codec', size, plan', tight', Tail(s2c), inflated', deflated)
      BY <1>3, <2>1, <2>3 DEF Comes, LeavesCome
    <2> QED BY <1>3, <1>4, <2>4, StepFacts, Kept DEF Step
  <1>6. CASE ~(tight.ctl = 9 \/ tight.plain)
    <2>1. IsBlock(x, n, TightStream(tight.ctl % 4), AllBytes(size, tight.bits), inflated, deflated)
      BY <1>6 DEF Final
    <2>2. plan' = <<Read("block", n)>>
      BY <1>3, <1>6
    <2>3. x.n = n
      BY <2>1 DEF IsBlock, Block
    <2>4. InflaterOf("tight", tight') = TightStream(tight.ctl % 4) /\ WantedOf("tight", size, tight') = AllBytes(size, tight.bits)
      BY <1>4 DEF InflaterOf, WantedOf
    <2>5. "tight" \in Buffered
      BY DEF Buffered
    <2>6. BlockComes("tight", size, plan', tight', <<x>>, inflated', deflated)
      BY <1>1, <1>3, <2>1, <2>2, <2>3, <2>4, <2>5 DEF BlockComes
    <2>7. Comes(codec', size, plan', tight', Tail(s2c), inflated', deflated)
      BY <1>1, <2>6, StepFacts DEF Comes
    <2> QED BY <1>3, <1>4, <2>7, StepFacts, Kept DEF Step
  <1> QED BY <1>5, <1>6

LEMMA MoreBytes ==
  ASSUME Step, codec = "tight", tight.ctl \in 0 .. 9, plan = <<Read("compact", 1)>>, NEW n \in CompactLengths,
         NEW v, NEW x, NEW t, s2c = <<Byte(v)>> \o t, IsSeq(t), t[Len(t)] = x,
         tight.nth \in {0, 1}, v > 127, With(v) \in Nat,
         Sent(tight.nth + 1, With(v), n, x, t),
         Final(size, tight, tight.bits, x, n, inflated, deflated)
  PROVE  RectInv'
  <1>1. Head(s2c) = Byte(v) /\ Tail(s2c) = t
    BY Cons
  <1>0. tight.nth < 2 /\ v > 127
    OBVIOUS
  <1>2. /\ tight' = Longer(v)
        /\ plan' = <<Read("compact", 1)>> /\ up' = up /\ inflated' = inflated /\ rest' = rest
    BY <1>0, <1>1, CompactReads
  <1>3. /\ tight' \in Tights /\ tight'.ctl = tight.ctl /\ tight'.plain = tight.plain /\ tight'.bits = tight.bits
        /\ tight'.nth = tight.nth + 1 /\ tight'.length = With(v)
    <2>1. tight'.nth \in 0 .. 2 /\ tight'.length \in Nat
      BY <1>0, <1>2, StepFacts DEF Longer, Tights
    <2> QED BY <1>2, <2>1, StepFacts DEF Longer, Tights
  <1>4. LengthComes(size, tight, tight.bits, tight.nth + 1, With(v), t, inflated, deflated)
    BY DEF LengthComes
  <1>5. LengthComes(size, tight', tight'.bits, tight'.nth, tight'.length, t, inflated', deflated)
    <2>1. LengthComes(size, tight', tight.bits, tight.nth + 1, With(v), t, inflated, deflated)
      BY <1>3, <1>4, SameFinal
    <2> QED BY <1>2, <1>3, <2>1
  <1>6. TightComes("tight", size, plan', tight', t, inflated', deflated)
    BY <1>2, <1>3, <1>5 DEF TightComes
  <1>7. Comes(codec', size, plan', tight', Tail(s2c), inflated', deflated)
    BY <1>1, <1>6, StepFacts DEF Comes
  <1> QED BY <1>2, <1>3, <1>7, StepFacts, Kept DEF Step

LEMMA CompactStep ==
  ASSUME Step, codec = "tight", plan = <<Read("compact", 1)>>, tight.ctl \in 0 .. 9,
         LengthComes(size, tight, tight.bits, tight.nth, tight.length, s2c, inflated, deflated)
  PROVE  RectInv'
  <1> DEFINE x == s2c[Len(s2c)]
  <1>1. PICK n \in CompactLengths :
          /\ Sent(tight.nth, tight.length, n, x, s2c)
          /\ Final(size, tight, tight.bits, x, n, inflated, deflated)
    BY DEF LengthComes
  <1> HIDE DEF x
  <1>2. n \in Nat /\ n # 0
    BY DEF CompactLengths
  <1>3. CASE tight.nth = 0 /\ tight.length = 0 /\ OneByte(n) /\ s2c = <<Byte(n), x>>
    <2>1. With(n) = n /\ ~(n > 127)
      BY <1>2, <1>3, Digits, Weights DEF With, OneByte
    <2> QED BY <1>1, <1>3, <2>1, LastByte
  <1>4. CASE tight.nth = 0 /\ tight.length = 0 /\ TwoBytes(n) /\ s2c = <<Byte(Low(n)), Byte(n \div 128), x>>
    <2> DEFINE a == Byte(Low(n))
               b == Byte(n \div 128)
    <2>1. With(Low(n)) = Seven(n) /\ Seven(n) \in Nat /\ Low(n) > 127
      BY <1>4, Digits, Weights DEF With, TwoBytes, Seven
    <2> HIDE DEF a, b
    <2>2. s2c = <<a>> \o <<b, x>> /\ IsSeq(<<b, x>>)
      BY <1>4, Joined, Few DEF a, b
    <2>3. <<b, x>>[Len(<<b, x>>)] = x
      OBVIOUS
    <2>4. Sent(1, Seven(n), n, x, <<b, x>>)
      BY <1>4, Zenon DEF Sent, b
    <2>5. tight.nth + 1 = 1 /\ tight.nth \in {0, 1}
      BY <1>4
    <2> QED BY <1>1, <2>1, <2>2, <2>3, <2>4, <2>5, MoreBytes DEF a
  <1>5. CASE tight.nth = 0 /\ tight.length = 0 /\ ThreeBytes(n) /\ s2c = <<Byte(Low(n)), Byte(Mid(n)), Byte(High(n)), x>>
    <2> DEFINE a == Byte(Low(n))
               b == Byte(Mid(n))
               c == Byte(High(n))
    <2>1. With(Low(n)) = Seven(n) /\ Seven(n) \in Nat /\ Low(n) > 127
      BY <1>5, Digits, Weights DEF With, ThreeBytes, Seven
    <2> HIDE DEF a, b, c
    <2>2. s2c = <<a>> \o <<b, c, x>> /\ IsSeq(<<b, c, x>>)
      <3>1. s2c = <<a, b, c, x>>
        BY <1>5, Zenon DEF a, b, c
      <3>2. <<a>> \o <<b, c, x>> = <<a, b, c, x>>
        BY JoinedFour
      <3> QED BY <3>1, <3>2, Few
    <2>3. <<b, c, x>>[Len(<<b, c, x>>)] = x
      BY LastOfThree
    <2>4. Sent(1, Seven(n), n, x, <<b, c, x>>)
      BY <1>5, Zenon DEF Sent, b, c
    <2>5. tight.nth + 1 = 1 /\ tight.nth \in {0, 1}
      BY <1>5
    <2> QED BY <1>1, <2>1, <2>2, <2>3, <2>4, <2>5, MoreBytes DEF a
  <1>6. CASE tight.nth = 1 /\ tight.length = Seven(n) /\ TwoBytes(n) /\ s2c = <<Byte(n \div 128), x>>
    <2>1. With(n \div 128) = n /\ ~(n \div 128 > 127)
      BY <1>2, <1>6, Digits, Weights DEF With, TwoBytes, Seven
    <2> QED BY <1>1, <1>6, <2>1, LastByte
  <1>7. CASE tight.nth = 1 /\ tight.length = Seven(n) /\ ThreeBytes(n) /\ s2c = <<Byte(Mid(n)), Byte(High(n)), x>>
    <2> DEFINE a == Byte(Mid(n))
               b == Byte(High(n))
    <2>1. With(Mid(n)) = Fourteen(n) /\ Fourteen(n) \in Nat /\ Mid(n) > 127
      BY <1>7, Digits, Weights DEF With, ThreeBytes, Seven, Fourteen
    <2> HIDE DEF a, b
    <2>2. s2c = <<a>> \o <<b, x>> /\ IsSeq(<<b, x>>)
      BY <1>7, Joined, Few DEF a, b
    <2>3. <<b, x>>[Len(<<b, x>>)] = x
      OBVIOUS
    <2>4. Sent(2, Fourteen(n), n, x, <<b, x>>)
      BY <1>7, Zenon DEF Sent, b
    <2>5. tight.nth + 1 = 2 /\ tight.nth \in {0, 1}
      BY <1>7
    <2> QED BY <1>1, <2>1, <2>2, <2>3, <2>4, <2>5, MoreBytes DEF a
  <1>8. CASE tight.nth = 2 /\ tight.length = Fourteen(n) /\ ThreeBytes(n) /\ s2c = <<Byte(High(n)), x>>
    <2>1. With(High(n)) = n /\ ~(tight.nth < 2)
      BY <1>2, <1>8, Digits, Weights DEF With, ThreeBytes, Fourteen, High
    <2> QED BY <1>1, <1>8, <2>1, LastByte
  <1> QED BY <1>1, <1>3, <1>4, <1>5, <1>6, <1>7, <1>8, Zenon DEF Sent

LEMMA TightStep ==
  ASSUME Step, TightComes(codec, size, plan, tight, s2c, inflated, deflated)
  PROVE  RectInv'
  <1>1. codec = "tight" /\ tight.ctl \in 0 .. 9
    BY DEF TightComes
  <1>2. CASE plan = <<Read("control", 1)>> /\ ControlComes(size, s2c, inflated, deflated)
    BY <1>1, <1>2, ControlStep
  <1>3. CASE plan = <<Read("filter", 1)>> /\ tight.nth = 0 /\ tight.length = 0 /\ FilterComes(size, tight, s2c, inflated, deflated)
    BY <1>1, <1>3, FilterStep
  <1>4. CASE plan = <<Read("colours", 1)>> /\ tight.nth = 0 /\ tight.length = 0 /\ ColoursCome(size, tight, s2c, inflated, deflated)
    BY <1>1, <1>4, ColoursStep
  <1>5. ASSUME NEW k \in Nat, plan = <<Read("palette", k * 3)>>, tight.nth = 0, tight.length = 0,
               PaletteComes(size, tight, k, tight.bits, s2c, inflated, deflated)
        PROVE  RectInv'
    BY <1>1, <1>5, PaletteStep
  <1>6. CASE plan = <<Read("compact", 1)>> /\ LengthComes(size, tight, tight.bits, tight.nth, tight.length, s2c, inflated, deflated)
    BY <1>1, <1>6, CompactStep
  <1> QED BY <1>2, <1>3, <1>4, <1>5, <1>6 DEF TightComes

LEMMA ClientStep ==
  ASSUME RectInv, ClientReads
  PROVE  RectInv'
  <1>1. CASE Announced
    BY <1>1, BeginStep
  <1>2. CASE Comes(codec, size, plan, tight, s2c, inflated, deflated)
    <2>1. Head(s2c).is # "rect"
      <3>1. s2c # <<>> /\ Expected(Head(s2c))
        BY DEF ClientReads
      <3> QED BY <1>2, <3>1, Reads
    <2>2. Step
      BY <2>1 DEF Step
    <2> QED BY <1>2, <2>2, LeafStep, CountStep, LengthStep, BlockStep, TightStep DEF Comes
  <1>3. up = "open"
    BY DEF ClientReads
  <1> QED BY <1>1, <1>2, <1>3 DEF RectInv

LEMMA RectStep ==
  ASSUME CountFits, RectInv, [Next]_vars
  PROVE  RectInv'
  <1>1. CASE ServerSends
    BY <1>1, ServerStep
  <1>2. CASE ClientReads
    BY <1>2, ClientStep
  <1>3. CASE Lost
    BY <1>3 DEF Lost, RectInv
  <1>4. CASE Reconnect
    <2>1. /\ up' = "open" /\ inflated' = Fresh /\ rest' = [b \in Buffered |-> 0] /\ s2c' = <<>> /\ deflated' = Fresh
          /\ codec' = "none" /\ plan' = <<>> /\ tight' = Locals /\ size' = <<0, 0>>
      BY <1>4 DEF Reconnect, CodecsInit
    <2>2. Comes(codec', size', plan', tight', s2c', inflated', deflated')
      BY <2>1, SuitsNone DEF Comes, LeavesCome
    <2>3. Fresh \in [Streams -> Nat] /\ Locals \in Tights
      BY DEF Fresh, Locals, LocalsOf, Tights
    <2> QED BY <2>1, <2>2, <2>3 DEF RectInv
  <1>5. CASE UNCHANGED vars
    BY <1>5 DEF vars, RectInv, Announced
  <1> QED BY <1>1, <1>2, <1>3, <1>4, <1>5 DEF Next

-----------------------------------------------------------------------------
(* The inductive invariant: what the codec reads next is what is left of its
   rectangle, and a stream whose block is still to be read is one block behind. *)
THEOREM RectInvariance == CountFits => (Spec => []RectInv)
  <1> SUFFICES ASSUME CountFits PROVE Spec => []RectInv
    OBVIOUS
  <1>1. Init => RectInv
    BY InitRect
  <1>2. RectInv /\ [Next]_vars => RectInv'
    BY RectStep
  <1> QED BY <1>1, <1>2, PTL DEF Spec

(* Every read of every codec takes what the server wrote for it. *)
THEOREM CodecsInStep == CountFits => (Spec => []InStep)
  <1> SUFFICES ASSUME CountFits PROVE Spec => []InStep
    OBVIOUS
  <1>1. Spec => []RectInv
    BY RectInvariance
  <1>2. RectInv => InStep
    BY InvInStep
  <1> QED BY <1>1, <1>2, PTL

(* No codec gives a rectangle up, and between two rectangles each inflater has
   seen what its deflater has sent, also after lost connections. *)
THEOREM InflatersInSync == CountFits => (Spec => []StreamsInSync)
  <1> SUFFICES ASSUME CountFits PROVE Spec => []StreamsInSync
    OBVIOUS
  <1>1. Spec => []RectInv
    BY RectInvariance
  <1>2. RectInv => StreamsInSync
    BY InvInSync
  <1> QED BY <1>1, <1>2, PTL
=============================================================================
